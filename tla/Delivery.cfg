CONSTANTS
  QueueSize = 2
  MaxEvents = 3
  MaxRepeats = 2
  EventLength = 235
  SlotLengths <- FirmwareOrRoomySlot
  Capacity = 3
  Batch = 2
  MaxStored = 4
  MaxCuts = 1
  BadSlots <- SoundOrBroken
SPECIFICATION MCSpec
INVARIANTS NoSilentLoss InOrder AcceptedIsKept InOrderOnce
PROPERTIES QueueIsDelivered Drains
\* The offline buffer rests when all events are stored and replayed.
CHECK_DEADLOCK FALSE
