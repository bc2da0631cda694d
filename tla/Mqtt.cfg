CONSTANTS
  MaxFaults = 1
  MaxChanges = 2
SPECIFICATION MCSpec
PROPERTIES TextsAreReplayed MaintenanceEnds BrokerCatchesUp
