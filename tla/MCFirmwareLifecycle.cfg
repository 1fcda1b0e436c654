\* Two queues, a second boot, two errors, every kind of image.  The system may
\* stop: boots used up, or the first one failed and the probe with it.
SPECIFICATION FairSpec
CONSTANTS
  NQueues = 2
  Images = {"good", "badheader", "badtable", "bigtable"}
  RxBufs = 1
  MaxHeads = 1
  MaxBoots = 1
  MaxErrors = 2
INVARIANTS RingsProgrammed FreshRings Routable GenerationAgrees
  CrashNotMissed
PROPERTIES Recovered Announced HeadsTaken
CHECK_DEADLOCK FALSE
