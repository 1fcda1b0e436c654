\* Two applications, a card bound twice: every probe failure, unbinding and
\* unloading with everything else going on.
SPECIFICATION Spec
CONSTANTS
  Apps = {a1, a2}
  MaxBinds = 2
SYMMETRY Symmetry
INVARIANTS CallbacksSafe FirmwareBacked DriversPresent
CHECK_DEADLOCK FALSE
