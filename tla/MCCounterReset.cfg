\* The file counters_reset.
SPECIFICATION CountersSpec
CONSTANTS
  Readers = {r1, r2}
  Resetters = {w1}
  Penalty = 2
  Transport = 1
  Word = 4
  MaxLen = 1
  MaxOps = 3
  MaxCalls = 3
INVARIANT ResetReachesCard
CHECK_DEADLOCK FALSE
