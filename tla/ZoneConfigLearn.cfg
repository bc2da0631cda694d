CONSTANTS
  hall = hall
  living = living
  garage = garage
  fan = fan
  Zones <- MCZones
  Reflector = fan
  SaveLimit = 3
SPECIFICATION Spec
INVARIANT LearnKeepsZones
