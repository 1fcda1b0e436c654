\* Two application threads race each other, the RX thread and the teardown,
\* with a transmit ring of one buffer and a receive ring that can run out.
SPECIFICATION Spec
CONSTANTS
  Callers = {c1, c2}
  Rx = Rx
  Recovery = Recovery
  MaxCalls = 2
  MaxGen = 2
  TxBufs = 1
  RxBufs = 1
  ReplyKinds = {"ok", "mismatch", "truncated"}
SYMMETRY Symmetry
INVARIANTS OneNotify SentStaysAllocated NoLeak EndpointAlive NoStrandedWaiter
PROPERTY KeepsPromise
CHECK_DEADLOCK FALSE
