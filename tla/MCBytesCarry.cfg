\* The low half of the byte counter wraps.
SPECIFICATION CountersSpec
CONSTANTS
  Readers = {r1, r2}
  Resetters = {w1}
  Penalty = 2
  Transport = 0
  Word = 4
  MaxLen = 2
  MaxOps = 3
  MaxCalls = 3
INVARIANT BytesCarry
CHECK_DEADLOCK FALSE
