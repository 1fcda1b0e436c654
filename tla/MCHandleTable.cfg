\* Two threads, two sessions, two handles in each.
SPECIFICATION Spec
CONSTANTS
  Threads = {t1, t2}
  MaxHandles = 2
  MaxGen = 2
SYMMETRY Symmetry
INVARIANTS HeldStaysAlive PairsUnique NeverBusy NoDoubleFree BlocksAccounted
CHECK_DEADLOCK FALSE
