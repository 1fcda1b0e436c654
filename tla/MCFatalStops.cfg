\* A descriptor the device refuses.
SPECIFICATION Spec
CONSTANTS
  NQueues = 2
  Images = {"good"}
  RxBufs = 1
  MaxHeads = 1
  MaxBoots = 0
  MaxErrors = 2
PROPERTY FatalStops
CHECK_DEADLOCK FALSE
