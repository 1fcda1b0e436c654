\* The counters wrap, and the size of the ring does not divide the modulus (as
\* 511 does not divide 2^32).
SPECIFICATION Spec
CONSTANTS
  Readers = {r1}
  Entries = 3
  Modulus = 8
  MaxWritten = 9
  MaxBoots = 1
INVARIANT RingHolds
CHECK_DEADLOCK FALSE
