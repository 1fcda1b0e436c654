\* An engine that works on a request while the removal returns its slot.
SPECIFICATION Spec
CONSTANTS
  Submitters = {s1}
  Remover = Remover
  Engines = {0, 1}
  Slots = 2
  MaxTxn = 2
  MaxGen = 2
INVARIANT DetachedIsDone
CHECK_DEADLOCK FALSE
