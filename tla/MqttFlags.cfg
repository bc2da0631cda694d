CONSTANTS
  MaxFaults = 1
  MaxChanges = 2
SPECIFICATION MCSpec
PROPERTY FlagsAreReplayed
