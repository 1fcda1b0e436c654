\* A failed probe leaves a caller asleep that sent on its channel.
SPECIFICATION Spec
CONSTANTS
  Callers = {c1, c2}
  Rx = Rx
  Recovery = Recovery
  MaxCalls = 2
  MaxGen = 2
  TxBufs = 1
  RxBufs = 1
  ReplyKinds = {"ok", "mismatch", "truncated"}
SYMMETRY Symmetry
INVARIANT StopWakesAll
CHECK_DEADLOCK FALSE
