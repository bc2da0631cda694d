CONSTANTS
  QueueSize = 2
  MaxEvents = 4
  MaxRepeats = 2
  EventLength = 235
  SlotLengths <- FirmwareSlot
SPECIFICATION Spec
PROPERTY OfflineEventIsStored
