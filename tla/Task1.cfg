\* Task 1 ends and the clock stops: no deadlock check.
SPECIFICATION Spec
CONSTANTS
  ImpactRequired = 2
  RolloverRequired = 3
  MaxSamples = 5
  Second = 3
  Period = 2
  MaxTime = 10
INVARIANTS
  EventExact
  LatencyStartExact
  ActivationExact
CHECK_DEADLOCK FALSE
