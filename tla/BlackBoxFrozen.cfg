\* One run: the start-up of a second one empties the buffer on purpose.
SPECIFICATION Spec
CONSTANTS
  Capacity = 2
  MaxSamples = 2
  MaxRuns = 1
PROPERTY FrozenDataKept
CHECK_DEADLOCK FALSE
