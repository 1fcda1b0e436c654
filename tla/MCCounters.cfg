\* Two readers and a reset race over counters that wrap.
SPECIFICATION CountersSpec
CONSTANTS
  Readers = {r1, r2}
  Resetters = {w1}
  Penalty = 2
  Transport = 1
  Word = 4
  MaxLen = 1
  MaxOps = 3
  MaxCalls = 3
SYMMETRY Symmetry
INVARIANT OneInstant
CHECK_DEADLOCK FALSE
