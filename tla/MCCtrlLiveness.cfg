\* Two callers and one crash; the callers compete with the INFO handshake for the
\* transmit ring.  Liveness needs replies that arrive: a receive buffer for every
\* request in flight, and no truncated message.
SPECIFICATION FairSpec
CONSTANTS
  Callers = {c1, c2}
  Rx = Rx
  Recovery = Recovery
  MaxCalls = 2
  MaxGen = 1
  TxBufs = 1
  RxBufs = 4
  ReplyKinds = {"ok"}
PROPERTIES WaiterWoken InfoAnswered
CHECK_DEADLOCK FALSE
