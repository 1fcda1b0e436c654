\* A read that began before a reboot ends after it.
SPECIFICATION Spec
CONSTANTS
  Readers = {r1}
  Entries = 2
  Modulus = 7
  MaxWritten = 5
  MaxBoots = 2
INVARIANT TailBehindHead
CHECK_DEADLOCK FALSE
