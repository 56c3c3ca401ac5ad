SPECIFICATION FairSpec
CONSTANTS
  Capacity = 2
  MaxSamples = 4
  MaxRuns = 2
INVARIANTS
  MonitoringUndisturbed
  TelemetryExact
  TimestampsCoherent
  SecureImageLive
PROPERTIES
  ImplementsRecorder
  AccidentHandled
CHECK_DEADLOCK FALSE
