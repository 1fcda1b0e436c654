\* A drain overtakes a caller between the allocation of its transaction and
\* the reference its send takes.
SPECIFICATION Spec
CONSTANTS
  Callers = {c1, c2}
  Rx = Rx
  Recovery = Recovery
  MaxCalls = 2
  MaxGen = 2
  TxBufs = 1
  RxBufs = 1
  ReplyKinds = {"ok", "mismatch", "truncated"}
SYMMETRY Symmetry
INVARIANT NoUseAfterFree
CHECK_DEADLOCK FALSE
