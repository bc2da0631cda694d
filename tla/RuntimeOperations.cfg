CONSTANTS
  Uploads = {u1, u2}
  Connections = {c1, c2, c3}
  Slots = {0, 1, 2}
  MaxInFlight = 2
  Generations = 2
  SlotTtl = 2
  Reserve = 2
  CloseFree = 5
  OpenFree = 7
  Heaps = {4, 7, 8, 9}
SPECIFICATION MCSpec
SYMMETRY Symmetry
INVARIANTS OneWriter ClaimIsWatched RadarHasRescuer AdmittedCanSpend
\* A claim in `overtaken` has no watchdog and the device no other request.
CHECK_DEADLOCK FALSE
