\* The function returns: no deadlock check.
SPECIFICATION Spec
CONSTANTS
  MaxSamples = 5
  ImageSize = 3
  ImageHeight = 2
  Capacity = 2
INVARIANTS
  NothingHeld
  SavedExact
  CutKeepsOrder
CHECK_DEADLOCK FALSE
