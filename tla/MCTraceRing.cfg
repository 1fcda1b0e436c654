\* Two readers, a ring of two entries that is overrun, a reboot; the
\* counters stay below the point where they wrap.
SPECIFICATION Spec
CONSTANTS
  Readers = {r1, r2}
  Entries = 2
  Modulus = 7
  MaxWritten = 5
  MaxBoots = 2
SYMMETRY Symmetry
INVARIANTS RingHolds CopiedOrLapped LossCounted
CHECK_DEADLOCK FALSE
