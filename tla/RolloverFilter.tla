---------------------------- MODULE RolloverFilter ----------------------------
(***************************************************************************)
(* Where the tilt comes from: the complementary filter of                  *)
(* accident_detection_update, which turns the gyro's rate and the          *)
(* accelerometer's angle into the roll that is compared with the rollover  *)
(* threshold, for a vehicle whose real roll the model knows and which may  *)
(* turn over its roof.  It rolls only (no pitch), so that the tilt is the  *)
(* size of the roll; angles are integers, and the mix rounds down to one.  *)
(* How well the filter can know the roll depends on what has happened: the *)
(* history variables off and around account for it, and the properties are *)
(* relative to them.                                                       *)
(***************************************************************************)
EXTENDS Integers

CONSTANTS
  HalfTurn,    \* 180 degrees in units of angle
  Threshold,   \* ROLLOVER_ANGLE_DEG
  Required,    \* ROLLOVER_REQUIRED_SAMPLES
  GyroWeight, AccelWeight,   \* COMPLEMENTARY_ALPHA to the rest of one: 98 to 2
  Noise,       \* largest error of the accelerometer's angle in reliable samples
  Drift,       \* largest error of the gyro's change of angle between two samples
  Rolls,       \* rolls the vehicle takes
  Rates,       \* its changes of roll between two samples
  Noises, Drifts,   \* the errors tried
  Disturbed,   \* angles an unreliable accelerometer may show
  Pace, Settled, Recovery,   \* how fast the filter recovers, and to which error
  MaxRun       \* bound: where the lengths of runs stop counting

Size(angle) == IF angle < 0 THEN -angle ELSE angle
Total == GyroWeight + AccelWeight

ASSUME AngleAssumption ==
  /\ {HalfTurn, Threshold, Noise, Drift} \subseteq Nat
  /\ Noise <= HalfTurn /\ Drift <= HalfTurn
ASSUME WeightAssumption == GyroWeight \in Nat /\ AccelWeight \in Nat \ {0}
ASSUME RunAssumption == Required \in Nat \ {0} /\ MaxRun \in Nat /\ MaxRun > Required
ASSUME VehicleAssumption ==
  /\ Rolls \cup Rates \cup Disturbed \subseteq -HalfTurn .. HalfTurn
  /\ Noises \subseteq -Noise .. Noise
  /\ Drifts \subseteq -Drift .. Drift
\* An error above Settled shrinks by Pace at least, and may be a turn at first.
ASSUME RecoveryAssumption ==
  /\ Pace \in Nat /\ Settled \in Nat /\ Recovery \in Nat
  /\ AccelWeight * Settled >=
       GyroWeight * Drift + AccelWeight * Noise + Total * Pace
  /\ Pace * Recovery >= 2 * HalfTurn

VARIABLES
  roll,                            \* the vehicle's real roll
  filtered_roll, initialized,      \* filtered_roll_deg, orientation_initialized
  rollover_samples, rollover_detected,
  off,           \* history: how far the filter's angle may be from the roll's
  around,        \* history: and the directions they name, the shorter way around
  calm,          \* history: reliable samples of a resting vehicle, in a row
  steep,         \* history: length of the last run of surely tilted samples
  slanted,       \* history: and of possibly tilted ones
  was_slanted    \* history: slanted has been Required

detector == <<filtered_roll, initialized, rollover_samples, rollover_detected>>
history == <<off, around, calm, steep, slanted, was_slanted>>
vars == <<roll, detector, history>>

\* The distance of the angle that is furthest from a roll; the filter's angle
\* may be there when nothing is known of it.
Furthest(r) == HalfTurn + Size(r)

\* The distance of two angles as directions.
Apart(x, y) == LET d == Size(x - y) IN IF d > HalfTurn THEN 2 * HalfTurn - d ELSE d

-----------------------------------------------------------------------------

Init ==
  /\ roll \in Rolls
  /\ filtered_roll = 0 /\ initialized = FALSE
  /\ rollover_samples = 0 /\ rollover_detected = FALSE
  /\ off = Furthest(roll) /\ around = HalfTurn /\ calm = 0
  /\ steep = 0 /\ slanted = 0 /\ was_slanted = FALSE

\* normalize_angle; what it is given is less than a turn off.
Normalized(angle) ==
  IF angle > HalfTurn THEN angle - 2 * HalfTurn
  ELSE IF angle < -HalfTurn THEN angle + 2 * HalfTurn
  ELSE angle

\* Mutant: the accelerometer's angle is added with its full weight.
MixUnscaled(predicted, measured) == (GyroWeight * predicted) \div Total + measured
\* The weights of COMPLEMENTARY_ALPHA.
Mix(predicted, measured) ==
  (GyroWeight * predicted + AccelWeight * measured) \div Total

\* Mutant: a roll to the left does not count.
TiltSigned(angle) == angle
\* calculate_tilt without pitch.
Tilt(angle) == Size(angle)

\* Mutant: an upright sample does not restart the run.
SamplesAfterKept(n, tilted) == IF tilted /\ n < MaxRun THEN n + 1 ELSE n
SamplesAfter(n, tilted) ==
  IF ~tilted THEN 0 ELSE IF n < MaxRun THEN n + 1 ELSE n

\* Mutant: the accelerometer is believed while it is unreliable.
FilteredUnreliable(change, measured, reliable) ==
  LET predicted == filtered_roll + change
  IN  IF ~initialized THEN measured
      ELSE IF ~reliable THEN Normalized(Mix(predicted, measured))
      ELSE Normalized(predicted)
\* Without a first sample there is nothing to add the rate to: the filter
\* starts at the accelerometer's angle, be it reliable or not.
Filtered(change, measured, reliable) ==
  LET predicted == filtered_roll + change
  IN  IF ~initialized THEN measured
      ELSE IF reliable THEN Normalized(Mix(predicted, measured))
      ELSE Normalized(predicted)

\* What the accelerometer shows of a roll; shaken, it shows anything.
Measured(r, reliable) ==
  IF reliable THEN {Normalized(r + noise) : noise \in Noises} ELSE Disturbed

-----------------------------------------------------------------------------
(* The account of the error, from what happens to the vehicle alone. *)

RunAfter(n, more, most) == IF ~more THEN 0 ELSE IF n < most THEN n + 1 ELSE n
Lesser(x, y) == IF x < y THEN x ELSE y
Quotient(x) == -((-x) \div Total)     \* rounded up

\* The error after a sample, as long as no angle passes half a turn: noise and
\* drift, of which the mix keeps its parts.  A first sample that is not reliable
\* says nothing, and an unreliable one later leaves the drift to grow.
Expected(reliable) ==
  CASE ~initialized /\ reliable  -> Noise
    [] ~initialized /\ ~reliable -> 2 * HalfTurn
    [] initialized /\ reliable   ->
         Quotient(GyroWeight * (off + Drift) + AccelWeight * Noise)
    [] initialized /\ ~reliable  -> off + Drift

\* The mix of any two angles stays within half a turn.
Clear(rate, r) ==
  GyroWeight * (Size(rate) + Drift) + AccelWeight * (Size(r) + Noise)
    <= AccelWeight * HalfTurn

\* No angle passes half a turn: not the roll, nor what is measured of it, nor
\* what the filter makes of both.
Straight(rate, reliable) ==
  LET r == roll + rate
  IN  /\ Size(r) <= HalfTurn
      /\ reliable => Size(r) + Noise <= HalfTurn
      /\ \/ Size(r) + Expected(reliable) <= HalfTurn
         \/ initialized /\ reliable /\ Clear(rate, r)

Error(rate, reliable) ==
  IF Straight(rate, reliable)
  THEN Lesser(Expected(reliable), Furthest(roll'))
  ELSE Furthest(roll')

\* Wherever the angles are, the gyro turns the filter's direction as the vehicle
\* turns, and a mix, even of angles on two sides of the roof, turns it by no
\* more than the accelerometer's part of what is between them.
AroundAfter(rate, reliable) ==
  LET mixed == Quotient(AccelWeight * (2 * HalfTurn + Size(rate) + Drift))
      turned == around + Drift + (IF reliable THEN mixed ELSE 0)
  IN  Lesser(HalfTurn,
             IF initialized THEN Lesser(turned, Error(rate, reliable))
             ELSE IF reliable THEN Noise ELSE HalfTurn)

\* Off the roof the shorter way around is the one between the angles.
OffAfter(rate, reliable) ==
  IF Size(roll') + around' < HalfTurn THEN around' ELSE Error(rate, reliable)

\* The vehicle rests, away from its roof.
Resting(rate) == rate = 0 /\ Clear(0, roll)

-----------------------------------------------------------------------------

\* One sample, and the call of accident_detection_update for it.
Sample(rate, drift, reliable) ==
  /\ Normalized(roll + rate) \in Rolls
  /\ roll' = Normalized(roll + rate)
  /\ \E measured \in Measured(roll', reliable) :
       filtered_roll' = Filtered(rate + drift, measured, reliable)
  /\ initialized' = TRUE
  /\ rollover_samples' =
       SamplesAfter(rollover_samples, Tilt(filtered_roll') >= Threshold)
  /\ rollover_detected' =
       (rollover_detected \/ rollover_samples' >= Required)
  /\ around' = AroundAfter(rate, reliable)
  /\ off' = OffAfter(rate, reliable)
  /\ calm' = RunAfter(calm, reliable /\ Resting(rate), Recovery)
  /\ steep' = RunAfter(steep, Size(roll') >= Threshold + around', MaxRun)
  /\ slanted' = RunAfter(slanted, Size(roll') + around' >= Threshold, MaxRun)
  /\ was_slanted' = (was_slanted \/ slanted' >= Required)

Next ==
  \E rate \in Rates, drift \in Drifts, reliable \in BOOLEAN :
    Sample(rate, drift, reliable)

Spec == Init /\ [][Next]_vars

-----------------------------------------------------------------------------

\* Every variable has its type: the filter stays within half a turn.
TypeOK ==
  /\ roll \in Rolls /\ filtered_roll \in -HalfTurn .. HalfTurn
  /\ initialized \in BOOLEAN /\ rollover_detected \in BOOLEAN
  /\ was_slanted \in BOOLEAN
  /\ off \in 0 .. 2 * HalfTurn /\ around \in 0 .. HalfTurn /\ calm \in 0 .. Recovery
  /\ rollover_samples \in 0 .. MaxRun
  /\ steep \in 0 .. MaxRun /\ slanted \in 0 .. MaxRun

\* The filter is never further from the vehicle's roll than the errors of the
\* samples so far explain: it starts with the noise, or anywhere if the first
\* sample was unreliable; the gyro alone adds a drift a sample, on the roof too;
\* each reliable sample leaves of that the gyro's weight, unless an angle passes
\* half a turn, where it turns the filter by the accelerometer's weight at most.
FilterFollows ==
  /\ Size(filtered_roll - roll) <= off
  /\ Apart(filtered_roll, roll) <= around

\* Wherever the filter was, after an unreliable first sample, a long time without
\* a reliable one or a turn over the roof: once the vehicle rests, off its roof,
\* for Recovery reliable samples, the filter is close to its roll.
Recovers == calm >= Recovery => Size(filtered_roll - roll) <= Settled

\* A vehicle that has been surely tilted, by more than the filter's error, for
\* the required number of consecutive samples has been detected, be they
\* reliable or not.
RolloverDetected == steep >= Required => rollover_detected

\* What is detected as a rollover was one: for the required number of
\* consecutive samples the vehicle was tilted, or the errors of the samples so
\* far account for it.
NoFalseAlarm == rollover_detected => was_slanted

=============================================================================
