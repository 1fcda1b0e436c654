\* A FREE accepted in one session reaches the device in the next.
SPECIFICATION Spec
CONSTANTS
  Threads = {t1, t2}
  MaxHandles = 2
  MaxGen = 2
SYMMETRY Symmetry
INVARIANT HeldAlive
CHECK_DEADLOCK FALSE
