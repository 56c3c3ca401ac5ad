\* The device stops measuring at the bound: no deadlock check.
SPECIFICATION Spec
CONSTANT MaxMeasurements = 2
INVARIANTS
  AxesWhole
  MeasuredAsConfigured
CHECK_DEADLOCK FALSE
