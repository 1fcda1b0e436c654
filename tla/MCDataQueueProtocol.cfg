\* A submitter meets the callback, the removal, or a queue that is not there.
SPECIFICATION Spec
CONSTANTS
  Submitters = {s1, s2}
  Remover = Remover
  Engines = {0, 1}
  Slots = 2
  MaxTxn = 2
  MaxGen = 2
INVARIANT QueueProtocol
CHECK_DEADLOCK FALSE
