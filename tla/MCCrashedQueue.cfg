\* A crash while the start is enabling the queues.
SPECIFICATION Spec
CONSTANTS
  NQueues = 2
  Images = {"good"}
  RxBufs = 1
  MaxHeads = 1
  MaxBoots = 0
  MaxErrors = 2
INVARIANT CrashedHasNoQueue
CHECK_DEADLOCK FALSE
