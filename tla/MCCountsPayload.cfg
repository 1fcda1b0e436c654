\* A copy counts its descriptors and its header as payload.
SPECIFICATION CountersSpec
CONSTANTS
  Readers = {r1, r2}
  Resetters = {w1}
  Penalty = 2
  Transport = 1
  Word = 4
  MaxLen = 1
  MaxOps = 3
  MaxCalls = 3
INVARIANT CountsPayload
CHECK_DEADLOCK FALSE
