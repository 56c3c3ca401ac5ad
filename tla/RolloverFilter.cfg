\* Weights of one half instead of 98 to 2, so that a mix of two sides of the roof
\* is upright at once and recovery takes few samples.
SPECIFICATION Spec
CONSTANTS
  HalfTurn = 36
  Threshold = 12
  Required = 2
  GyroWeight = 1
  AccelWeight = 1
  Noise = 1
  Drift = 1
  Rolls <- RollsAround
  Rates <- RatesAround
  Noises <- ErrorsTried
  Drifts <- ErrorsTried
  Disturbed <- Anything
  Pace = 4
  Settled = 10
  Recovery = 18
  MaxRun = 3
INVARIANTS
  FilterFollows
  Recovers
  RolloverDetected
  NoFalseAlarm
