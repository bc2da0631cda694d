CONSTANTS
  hall = hall
  living = living
  garage = garage
  fan = fan
  Zones <- MCZones
  Reflector = fan
  SaveLimit = 3
  MaxGeneration = 3
  MaxRequests = 2
  MaxFaults = 1
  RamCapacity = 2
  DiskCapacity = 3
  LogTasks = {looper, webber}
  MaxEvents = 4
  MaxLogFaults = 2
SPECIFICATION MCSpec
SYMMETRY Symmetry
INVARIANTS RestartKeepsZones AcceptedListGuards
  AnswerIsOfTheRequest ActiveSurvivesRestart
  SavedEventsSurvive
\* A device whose requests, faults and generations are used up may rest.
CHECK_DEADLOCK FALSE
