\* The conversion ends: no deadlock check.
SPECIFICATION ColourSpec
CONSTANTS
  Widths = {0, 4, 6, 8}
  Heights = {0, 1, 4}
  Scenes <- ScenesTried
  Paddings <- PaddingsTried
  Shortages <- ShortagesTried
INVARIANTS
  ReadsInFrame
  ColoursExact
  ColoursBounded
CHECK_DEADLOCK FALSE
