\* A resource table that does not fit the shadow table.
SPECIFICATION Spec
CONSTANTS
  NQueues = 2
  Images = {"bigtable"}
  RxBufs = 1
  MaxHeads = 1
  MaxBoots = 0
  MaxErrors = 2
INVARIANT TablePublished
CHECK_DEADLOCK FALSE
