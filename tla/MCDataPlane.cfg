\* Two engines of two slots, copies that overlap in the queues, one stop or
\* crash at any point and a second boot.
SPECIFICATION FairSpec
CONSTANTS
  Submitters = {s1}
  Remover = Remover
  Engines = {0, 1}
  Slots = 2
  MaxTxn = 2
  MaxGen = 2
INVARIANTS SlotsOwned OwnAnswer
PROPERTY SlotReturned
CHECK_DEADLOCK FALSE
