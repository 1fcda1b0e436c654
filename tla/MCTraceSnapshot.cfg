\* The device overtakes a read of a full ring.
SPECIFICATION Spec
CONSTANTS
  Readers = {r1}
  Entries = 2
  Modulus = 7
  MaxWritten = 5
  MaxBoots = 1
INVARIANT SnapshotFaithful
CHECK_DEADLOCK FALSE
