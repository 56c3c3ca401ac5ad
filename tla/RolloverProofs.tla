---------------------------- MODULE RolloverProofs ----------------------------
(***************************************************************************)
(* The filter and the rollover detection, for every weight of the mix,     *)
(* threshold, error of the sensors, rate of turning and required number of *)
(* samples, wherever the vehicle turns and whatever an unreliable          *)
(* accelerometer shows.                                                    *)
(*                                                                         *)
(* The argument: the account of the error is right after each sample, the  *)
(* straight one (Close) and the shorter way around (Around).  The tilt is  *)
(* the distance from the upright direction, so that what is surely tilted  *)
(* is taken for tilted and what is taken for tilted possibly is            *)
(* (TiltBetween), and the detector's run of samples lies between the       *)
(* vehicle's (RunsAgree).  While the vehicle rests, the account itself     *)
(* shrinks with each reliable sample (CalmShrinks).                        *)
(***************************************************************************)
EXTENDS RolloverFilter, TLAPS

\* The run of the detector lies between the vehicle's sure and possible ones.
RunsAgree ==
  /\ steep <= rollover_samples /\ rollover_samples <= slanted
  /\ rollover_samples >= Required => rollover_detected
  /\ slanted >= Required => was_slanted

\* What a resting vehicle's reliable samples have taken from the error.
Recovering == off <= Settled \/ off + Pace * calm <= 2 * HalfTurn

\* The inductive invariant.
IInv == TypeOK /\ FilterFollows /\ RunsAgree /\ NoFalseAlarm /\ Recovering

-----------------------------------------------------------------------------
(* Arithmetic. *)

\* The constants are numbers.
LEMMA Numbers ==
  /\ HalfTurn \in Nat /\ Threshold \in Nat /\ Noise \in Nat /\ Drift \in Nat
  /\ Noise <= HalfTurn /\ Drift <= HalfTurn
  /\ GyroWeight \in Nat /\ AccelWeight \in Nat /\ AccelWeight > 0
  /\ Total \in Nat /\ Total > 0 /\ Total = GyroWeight + AccelWeight
  /\ Required \in Nat \ {0} /\ MaxRun \in Nat /\ MaxRun > Required
  /\ \A r \in Rolls \cup Rates \cup Disturbed : r \in -HalfTurn .. HalfTurn
BY AngleAssumption, WeightAssumption, RunAssumption, VehicleAssumption DEF Total

\* A multiplication keeps the order.
LEMMA Times ==
  ASSUME NEW k \in Nat, NEW a \in Int, NEW b \in Int, a <= b
  PROVE  k * a <= k * b /\ k * a \in Int /\ k * b \in Int
<1>1. k * (b - a) \in Nat
  OBVIOUS
<1>2. k * (b - a) = k * b - k * a
  OBVIOUS
<1> QED
  BY <1>1, <1>2

\* Only what is no more than another can be no more after a multiplication.
LEMMA TimesBack ==
  ASSUME NEW k \in Nat, k > 0, NEW a \in Int, NEW b \in Int, k * a < k * b + k
  PROVE  a <= b
<1> SUFFICES ASSUME a >= b + 1 PROVE FALSE
  OBVIOUS
<1>1. k * (b + 1) <= k * a
  BY Times
<1>2. k * (b + 1) = k * b + k
  OBVIOUS
<1>3. k * a \in Int /\ k * b \in Int
  OBVIOUS
<1> QED
  BY <1>1, <1>2, <1>3

\* What division leaves is less than the divisor.
LEMMA Division ==
  ASSUME NEW x \in Int, NEW d \in Nat, d > 0
  PROVE  x \div d \in Int /\ d * (x \div d) <= x /\ x < d * (x \div d) + d
OBVIOUS

\* A quotient lies where the bounds of the number are.
LEMMA DivBetween ==
  ASSUME NEW x \in Int, NEW d \in Nat, d > 0, NEW lo \in Int, NEW hi \in Int,
         d * lo <= x, x <= d * hi
  PROVE  x \div d \in lo .. hi
<1> DEFINE q == x \div d
<1>1. q \in Int /\ d * q <= x /\ x < d * q + d
  BY Division
<1> HIDE DEF q
<1>2. d * q \in Int /\ d * lo \in Int /\ d * hi \in Int
  BY <1>1
<1>3. d * lo < d * q + d /\ d * q < d * hi + d
  BY <1>1, <1>2
<1>4. lo <= q /\ q <= hi
  BY <1>1, <1>3, TimesBack
<1> QED
  BY <1>1, <1>4 DEF q

\* Quotient rounds up.
LEMMA RoundsUp ==
  ASSUME NEW x \in Int
  PROVE  /\ Quotient(x) \in Int
         /\ x <= Total * Quotient(x) /\ Total * Quotient(x) < x + Total
         /\ x >= 0 => Quotient(x) \in Nat
<1> DEFINE q == (-x) \div Total
<1>1. q \in Int /\ Total * q <= -x /\ -x < Total * q + Total
  BY Division, Numbers
<1> HIDE DEF q
<1>2. Quotient(x) = -q /\ Total * (-q) = -(Total * q) /\ Total * q \in Int
  BY <1>1, Numbers DEF Quotient, q
<1>3. ASSUME x >= 0 PROVE -q >= 0
  <2>1. Total * 0 < Total * (-q) + Total
    BY <1>1, <1>2, <1>3, Numbers
  <2> QED
    BY <1>1, <2>1, Numbers, TimesBack
<1> QED
  BY <1>1, <1>2, <1>3, Numbers

\* A number between two that Total multiplies is divided between these.
LEMMA Shared ==
  ASSUME NEW x \in Int, NEW y \in Int, NEW b \in Int,
         Total * y - b <= x, x <= Total * y + b
  PROVE  x \div Total \in y - Quotient(b) .. y + Quotient(b)
<1> DEFINE q == Quotient(b)
<1>1. q \in Int /\ b <= Total * q
  BY RoundsUp
<1> HIDE DEF q
<1>2. /\ Total * (y - q) = Total * y - Total * q
      /\ Total * (y + q) = Total * y + Total * q
      /\ Total * y \in Int /\ Total * q \in Int
  BY <1>1, Numbers
<1>3. Total * (y - q) <= x /\ x <= Total * (y + q)
  BY <1>1, <1>2
<1>4. x \div Total \in y - q .. y + q
  BY <1>1, <1>3, Numbers, DivBetween
<1> QED
  BY <1>4 DEF q

-----------------------------------------------------------------------------
(* Angles: as numbers, and as directions. *)

Angles == -HalfTurn .. HalfTurn

\* The size of an angle.
LEMMA AngleFacts ==
  ASSUME NEW x \in Angles
  PROVE  /\ x \in Int /\ Size(x) \in Nat /\ Size(x) <= HalfTurn
         /\ x <= Size(x) /\ -x <= Size(x)
BY Numbers DEF Angles, Size

\* normalize_angle leaves an angle or brings it back by one turn.
LEMMA NormalizedFacts ==
  ASSUME NEW x \in Int, -3 * HalfTurn <= x, x <= 3 * HalfTurn
  PROVE  /\ Normalized(x) \in Angles
         /\ Size(x) <= HalfTurn => Normalized(x) = x
         /\ \E z \in {0, 2 * HalfTurn, -2 * HalfTurn} : Normalized(x) = x + z
BY Numbers DEF Normalized, Angles, Size

\* The distance as directions is one of the two ways around.
LEMMA ApartReached ==
  ASSUME NEW x \in Angles, NEW y \in Angles
  PROVE  /\ Apart(x, y) \in 0 .. HalfTurn
         /\ Apart(x, y) <= Size(x - y)
         /\ \E z \in {0, 2 * HalfTurn, -2 * HalfTurn} :
              x - y + z \in -Apart(x, y) .. Apart(x, y)
BY Numbers DEF Apart, Angles, Size

\* And no way around is shorter.
LEMMA ApartLeast ==
  ASSUME NEW x \in Angles, NEW y \in Angles, NEW b \in Nat,
         NEW k \in {-3, -2, -1, 0, 1, 2, 3},
         x - y + 2 * k * HalfTurn \in -b .. b
  PROVE  Apart(x, y) <= b
<1>1. CASE k = 0
  BY <1>1, Numbers DEF Apart, Angles, Size
<1>2. CASE k \in {-1, 1}
  BY <1>2, Numbers DEF Apart, Angles, Size
<1>3. CASE k \in {-3, -2, 2, 3}
  BY <1>3, Numbers DEF Apart, Angles, Size
<1> QED
  BY <1>1, <1>2, <1>3

\* Directions that are close are so beside the roof too.
LEMMA ApartStraight ==
  ASSUME NEW x \in Angles, NEW y \in Angles, NEW b \in Nat,
         Apart(x, y) <= b, Size(y) + b < HalfTurn
  PROVE  Size(x - y) <= b
BY Numbers DEF Apart, Angles, Size

\* Directions that are close are tilted alike.
LEMMA TiltBetween ==
  ASSUME NEW x \in Angles, NEW y \in Angles, NEW b \in Nat, Apart(x, y) <= b
  PROVE  /\ Size(y) >= Threshold + b => Size(x) >= Threshold
         /\ Size(x) >= Threshold => Size(y) + b >= Threshold
BY Numbers DEF Apart, Angles, Size

\* A measurement in reliable samples is no further than the noise.
LEMMA MeasuredClose ==
  ASSUME NEW r \in Angles, NEW noise \in -Noise .. Noise
  PROVE  /\ Normalized(r + noise) \in Angles
         /\ Apart(Normalized(r + noise), r) <= Noise
<1>1. r \in Int /\ noise \in Int /\ -HalfTurn <= r /\ r <= HalfTurn
      /\ -HalfTurn <= noise /\ noise <= HalfTurn
  BY Numbers DEF Angles
<1>2. -3 * HalfTurn <= r + noise /\ r + noise <= 3 * HalfTurn /\ r + noise \in Int
  BY <1>1, Numbers
<1>3. Normalized(r + noise) \in Angles
  BY <1>2, NormalizedFacts
<1>4. PICK z \in {0, 2 * HalfTurn, -2 * HalfTurn} : Normalized(r + noise) = r + noise + z
  BY <1>2, NormalizedFacts
<1>5. \E k \in {-1, 0, 1} : z + 2 * k * HalfTurn = 0
  BY <1>4, Numbers
<1>6. PICK k \in {-1, 0, 1} : z + 2 * k * HalfTurn = 0
  BY <1>5
<1>7. Normalized(r + noise) - r + 2 * k * HalfTurn \in -Noise .. Noise
  <2> DEFINE t == 2 * k * HalfTurn
  <2>1. t \in Int /\ z \in Int /\ z + t = 0
    BY <1>4, <1>6, Numbers
  <2> HIDE DEF t
  <2>2. (r + noise + z) - r + t \in -Noise .. Noise
    BY <1>1, <2>1, Numbers
  <2>3. Normalized(r + noise) - r + t \in -Noise .. Noise
    BY <1>4, <2>2
  <2> QED
    BY <2>3 DEF t
<1> QED
  BY <1>3, <1>7, ApartLeast, Numbers

\* Two directions that are turned alike, but for a difference, come apart by it.
LEMMA TurnedApart ==
  ASSUME NEW x \in Angles, NEW y \in Angles, NEW p \in Int, NEW q \in Int,
         -3 * HalfTurn <= p, p <= 3 * HalfTurn, -3 * HalfTurn <= q, q <= 3 * HalfTurn,
         NEW e \in Nat, (p - x) - (q - y) \in -e .. e
  PROVE  Apart(Normalized(p), Normalized(q)) <= Apart(x, y) + e
<1> DEFINE turns == {0, 2 * HalfTurn, -2 * HalfTurn}
           b == Apart(x, y)
<1>1. PICK z1 \in turns : Normalized(p) = p + z1
  BY NormalizedFacts
<1>2. PICK z2 \in turns : Normalized(q) = q + z2
  BY NormalizedFacts
<1>3. PICK z \in turns : x - y + z \in -b .. b
  BY ApartReached
<1>4. b \in Nat
  BY ApartReached, Numbers
<1> HIDE DEF b
<1>5. \E k \in {-3, -2, -1, 0, 1, 2, 3} : z2 - z1 + z = 2 * k * HalfTurn
  BY <1>1, <1>2, <1>3, Numbers
<1>6. PICK k \in {-3, -2, -1, 0, 1, 2, 3} : z2 - z1 + z = 2 * k * HalfTurn
  BY <1>5
<1>7. x \in Int /\ y \in Int /\ z \in Int /\ z1 \in Int /\ z2 \in Int
  BY Numbers DEF Angles
<1>8. (p + z1) - (q + z2) + (z2 - z1 + z) \in -(b + e) .. (b + e)
  BY <1>3, <1>4, <1>7
<1>9. Normalized(p) \in Angles /\ Normalized(q) \in Angles
  BY NormalizedFacts
<1>10. Normalized(p) - Normalized(q) + 2 * k * HalfTurn \in -(b + e) .. (b + e)
  BY <1>1, <1>2, <1>6, <1>8
<1>11. Apart(Normalized(p), Normalized(q)) <= b + e
  BY <1>4, <1>9, <1>10, ApartLeast
<1> QED
  BY <1>11 DEF b

-----------------------------------------------------------------------------
(* The mix, with p the predicted and m the measured angle. *)

\* The weighted distances from an angle are bounded by those of p and m.
LEMMA Weighed ==
  ASSUME NEW p \in Int, NEW m \in Int, NEW c \in Int, NEW d \in Nat, NEW e \in Nat,
         p - c \in -d .. d, m - c \in -e .. e
  PROVE  /\ GyroWeight * d + AccelWeight * e \in Nat
         /\ GyroWeight * p + AccelWeight * m \in Int
         /\ Total * c - (GyroWeight * d + AccelWeight * e)
              <= GyroWeight * p + AccelWeight * m
         /\ GyroWeight * p + AccelWeight * m
              <= Total * c + (GyroWeight * d + AccelWeight * e)
<1>1. /\ GyroWeight * p <= GyroWeight * (c + d) /\ GyroWeight * (c - d) <= GyroWeight * p
      /\ AccelWeight * m <= AccelWeight * (c + e) /\ AccelWeight * (c - e) <= AccelWeight * m
  BY Times, Numbers
<1>2. /\ GyroWeight * (c + d) = GyroWeight * c + GyroWeight * d
      /\ GyroWeight * (c - d) = GyroWeight * c - GyroWeight * d
      /\ AccelWeight * (c + e) = AccelWeight * c + AccelWeight * e
      /\ AccelWeight * (c - e) = AccelWeight * c - AccelWeight * e
      /\ Total * c = GyroWeight * c + AccelWeight * c
  BY Numbers
<1>3. /\ GyroWeight * d \in Nat /\ AccelWeight * e \in Nat
      /\ GyroWeight * p \in Int /\ AccelWeight * m \in Int
      /\ GyroWeight * c \in Int /\ AccelWeight * c \in Int
  BY Numbers
<1> QED
  BY <1>1, <1>2, <1>3

\* Near an angle, the mix keeps of both errors the parts of the weights.
LEMMA MixClose ==
  ASSUME NEW p \in Int, NEW m \in Int, NEW c \in Int, NEW d \in Nat, NEW e \in Nat,
         p - c \in -d .. d, m - c \in -e .. e
  PROVE  Mix(p, m) - c \in -Quotient(GyroWeight * d + AccelWeight * e)
                             .. Quotient(GyroWeight * d + AccelWeight * e)
<1> DEFINE x == GyroWeight * p + AccelWeight * m
           b == GyroWeight * d + AccelWeight * e
<1>1. b \in Nat /\ x \in Int /\ Total * c - b <= x /\ x <= Total * c + b
  BY Weighed
<1>2. Mix(p, m) = x \div Total
  BY DEF Mix
<1> HIDE DEF x, b
<1>3. x \div Total \in c - Quotient(b) .. c + Quotient(b) /\ Quotient(b) \in Int
  BY <1>1, Shared, RoundsUp
<1>4. Mix(p, m) - c \in -Quotient(b) .. Quotient(b)
  BY <1>2, <1>3
<1> QED
  BY <1>4 DEF b

\* The measured angle turns the predicted one by its part of their distance.
LEMMA MixTurns ==
  ASSUME NEW p \in Int, NEW m \in Int, NEW e \in Nat, m - p \in -e .. e
  PROVE  /\ Quotient(AccelWeight * e) \in Nat
         /\ Mix(p, m) - p \in -Quotient(AccelWeight * e) .. Quotient(AccelWeight * e)
<1>1. GyroWeight * 0 + AccelWeight * e = AccelWeight * e /\ AccelWeight * e \in Nat
  BY Numbers
<1>2. p - p \in -0 .. 0
  OBVIOUS
<1> QED
  BY <1>1, <1>2, MixClose, RoundsUp

\* The mix stays among the angles if what the measured one is off the end makes
\* up for what the predicted one is beyond it.
LEMMA MixWithin ==
  ASSUME NEW p \in Int, NEW m \in Int, NEW d \in Nat, NEW e \in Nat,
         p \in -(HalfTurn + d) .. HalfTurn + d, m \in -e .. e,
         GyroWeight * d + AccelWeight * e <= AccelWeight * HalfTurn
  PROVE  Mix(p, m) \in Angles
<1> DEFINE x == GyroWeight * p + AccelWeight * m
           t == HalfTurn + d
<1>1. t \in Nat /\ p - 0 \in -t .. t /\ m - 0 \in -e .. e
  BY Numbers
<1>2. /\ x \in Int /\ Total * 0 - (GyroWeight * t + AccelWeight * e) <= x
      /\ x <= Total * 0 + (GyroWeight * t + AccelWeight * e)
  <2> HIDE DEF t
  <2> QED
    BY <1>1, Weighed
<1>3. Mix(p, m) = x \div Total
  BY DEF Mix
<1>4. /\ GyroWeight * t = GyroWeight * HalfTurn + GyroWeight * d
      /\ Total * HalfTurn = GyroWeight * HalfTurn + AccelWeight * HalfTurn
      /\ Total * (-HalfTurn) = -(Total * HalfTurn) /\ Total * 0 = 0
  BY Numbers
<1>5. /\ GyroWeight * HalfTurn \in Nat /\ GyroWeight * d \in Nat
      /\ AccelWeight * HalfTurn \in Nat /\ AccelWeight * e \in Nat
  BY Numbers
<1> HIDE DEF x, t
<1>6. Total * (-HalfTurn) <= x /\ x <= Total * HalfTurn
  BY <1>2, <1>4, <1>5
<1>7. x \div Total \in -HalfTurn .. HalfTurn
  BY <1>2, <1>6, Numbers, DivBetween
<1> QED
  BY <1>3, <1>7 DEF Angles

\* The mix of two angles that normalize_angle takes is one that it takes.
LEMMA MixTaken ==
  ASSUME NEW p \in -3 * HalfTurn .. 3 * HalfTurn, NEW m \in -3 * HalfTurn .. 3 * HalfTurn
  PROVE  Mix(p, m) \in -3 * HalfTurn .. 3 * HalfTurn
<1> DEFINE x == GyroWeight * p + AccelWeight * m
           h == 3 * HalfTurn
<1>1. h \in Nat /\ p \in Int /\ m \in Int /\ p - 0 \in -h .. h /\ m - 0 \in -h .. h
  BY Numbers
<1> HIDE DEF h
<1>2. /\ x \in Int /\ Total * 0 - (GyroWeight * h + AccelWeight * h) <= x
      /\ x <= Total * 0 + (GyroWeight * h + AccelWeight * h)
  BY <1>1, Weighed
<1>3. Mix(p, m) = x \div Total
  BY DEF Mix
<1> HIDE DEF x
<1>4. Total * h = GyroWeight * h + AccelWeight * h /\ Total * (-h) = -(Total * h)
      /\ Total * 0 = 0 /\ Total * h \in Nat
  BY <1>1, Numbers
<1>5. Total * (-h) <= x /\ x <= Total * h
  BY <1>2, <1>4
<1>6. x \div Total \in -h .. h
  BY <1>1, <1>2, <1>5, Numbers, DivBetween
<1> QED
  BY <1>3, <1>6, Numbers DEF h

-----------------------------------------------------------------------------
(* One sample. *)

\* What a sample is made of.
LEMMA SampleFacts ==
  ASSUME IInv, NEW rate \in Rates, NEW drift \in Drifts, NEW reliable \in BOOLEAN,
         Sample(rate, drift, reliable)
  PROVE  /\ roll \in Angles /\ roll' \in Angles /\ filtered_roll \in Angles
         /\ rate \in Angles /\ drift \in -Drift .. Drift
         /\ off \in 0 .. 2 * HalfTurn /\ around \in 0 .. HalfTurn
         /\ roll' = Normalized(roll + rate)
         /\ Size(filtered_roll - roll) <= off /\ Apart(filtered_roll, roll) <= around
         /\ \E measured \in Angles :
              /\ filtered_roll' = Filtered(rate + drift, measured, reliable)
              /\ reliable => \E noise \in -Noise .. Noise :
                               measured = Normalized(roll' + noise)
<1>1. /\ roll' \in Rolls /\ rate \in Rates /\ roll \in Rolls
      /\ roll' = Normalized(roll + rate) /\ Noises \subseteq -Noise .. Noise
      /\ drift \in -Drift .. Drift
  BY VehicleAssumption DEF IInv, TypeOK, Sample
<1>2. roll' \in Angles /\ rate \in Angles /\ roll \in Angles
  BY <1>1, Numbers DEF Angles
<1>3. filtered_roll \in Angles /\ off \in 0 .. 2 * HalfTurn /\ around \in 0 .. HalfTurn
      /\ Size(filtered_roll - roll) <= off /\ Apart(filtered_roll, roll) <= around
  BY DEF IInv, TypeOK, FilterFollows, Angles
<1>4. PICK measured \in Measured(roll', reliable) :
        filtered_roll' = Filtered(rate + drift, measured, reliable)
  BY DEF Sample
<1>5. CASE reliable
  <2>1. PICK noise \in Noises : measured = Normalized(roll' + noise)
    BY <1>4, <1>5 DEF Measured
  <2>2. noise \in -Noise .. Noise
    BY <1>1, <2>1
  <2>3. measured \in Angles
    BY <1>2, <2>1, <2>2, MeasuredClose
  <2> QED
    BY <1>1, <1>2, <1>3, <1>4, <2>1, <2>2, <2>3
<1>6. CASE ~reliable
  <2>1. measured \in Angles
    BY <1>4, <1>6, Numbers DEF Measured, Angles
  <2> QED
    BY <1>1, <1>2, <1>3, <1>4, <1>6, <2>1
<1> QED
  BY <1>5, <1>6

\* The error expected is a number.
LEMMA ExpectedNumber ==
  ASSUME IInv, NEW reliable \in BOOLEAN
  PROVE  Expected(reliable) \in Nat
<1>1. off \in Nat
  BY Numbers DEF IInv, TypeOK
<1>2. GyroWeight * (off + Drift) + AccelWeight * Noise \in Nat
  BY <1>1, Numbers
<1>3. Quotient(GyroWeight * (off + Drift) + AccelWeight * Noise) \in Nat
  BY <1>2, RoundsUp
<1>4. initialized \in BOOLEAN
  BY DEF IInv, TypeOK
<1> QED
  BY <1>1, <1>3, <1>4, Numbers DEF Expected

\* The filter makes an angle of what it adds and mixes.
LEMMA FilterWithin ==
  ASSUME IInv, NEW rate \in Angles, NEW drift \in -Drift .. Drift,
         NEW measured \in Angles, NEW reliable \in BOOLEAN
  PROVE  /\ Filtered(rate + drift, measured, reliable) \in Angles
         /\ filtered_roll + (rate + drift) \in -3 * HalfTurn .. 3 * HalfTurn
         /\ Mix(filtered_roll + (rate + drift), measured)
              \in -3 * HalfTurn .. 3 * HalfTurn
<1> DEFINE p == filtered_roll + (rate + drift)
<1>1. filtered_roll \in Angles
  BY DEF IInv, TypeOK, Angles
<1>2. p \in -3 * HalfTurn .. 3 * HalfTurn
  BY <1>1, Numbers DEF Angles
<1>3. measured \in -3 * HalfTurn .. 3 * HalfTurn
  BY Numbers DEF Angles
<1>4. Filtered(rate + drift, measured, reliable)
        = IF ~initialized THEN measured
          ELSE IF reliable THEN Normalized(Mix(p, measured)) ELSE Normalized(p)
  BY DEF Filtered
<1> HIDE DEF p
<1>5. Mix(p, measured) \in -3 * HalfTurn .. 3 * HalfTurn
  BY <1>2, <1>3, MixTaken
<1>6. \A x \in -3 * HalfTurn .. 3 * HalfTurn : Normalized(x) \in Angles
  BY NormalizedFacts, Numbers
<1>7. Filtered(rate + drift, measured, reliable) \in Angles
  BY <1>2, <1>4, <1>5, <1>6
<1> QED
  BY <1>2, <1>5, <1>7 DEF p

\* The account of the straight error is right.
LEMMA Close ==
  ASSUME IInv, NEW rate \in Rates, NEW drift \in Drifts, NEW reliable \in BOOLEAN,
         Sample(rate, drift, reliable)
  PROVE  /\ filtered_roll' \in Angles
         /\ Size(filtered_roll' - roll') <= Error(rate, reliable)
         /\ Error(rate, reliable) \in 0 .. 2 * HalfTurn
<1> DEFINE r == roll'
           f == filtered_roll'
           p == filtered_roll + (rate + drift)
           e == Expected(reliable)
<1>1. /\ roll \in Angles /\ r \in Angles /\ filtered_roll \in Angles
      /\ rate \in Angles /\ drift \in -Drift .. Drift /\ off \in 0 .. 2 * HalfTurn
      /\ r = Normalized(roll + rate) /\ Size(filtered_roll - roll) <= off
  BY SampleFacts
<1>2. PICK measured \in Angles :
        /\ f = Filtered(rate + drift, measured, reliable)
        /\ reliable => \E noise \in -Noise .. Noise :
                         measured = Normalized(r + noise)
  BY SampleFacts
<1>3. f \in Angles
  BY <1>1, <1>2, FilterWithin
<1>4. f = IF ~initialized THEN measured
          ELSE IF reliable THEN Normalized(Mix(p, measured)) ELSE Normalized(p)
  BY <1>2 DEF Filtered
<1>5. /\ p \in Int /\ p - (roll + rate) \in -(off + Drift) .. off + Drift
      /\ p \in -(HalfTurn + (Size(rate) + Drift)) .. HalfTurn + (Size(rate) + Drift)
      /\ p \in -3 * HalfTurn .. 3 * HalfTurn
      /\ roll + rate \in -3 * HalfTurn .. 3 * HalfTurn
  BY <1>1, Numbers DEF Angles, Size
<1>6. Error(rate, reliable) = IF Straight(rate, reliable)
                              THEN Lesser(e, HalfTurn + Size(r)) ELSE HalfTurn + Size(r)
  BY DEF Error, Furthest
<1>7. e \in Nat /\ Size(r) \in 0 .. HalfTurn
  BY <1>1, ExpectedNumber, AngleFacts, Numbers
<1>8. initialized \in BOOLEAN
  BY DEF IInv, TypeOK
<1>9. /\ initialized /\ reliable => e = Quotient(GyroWeight * (off + Drift)
                                                 + AccelWeight * Noise)
      /\ initialized /\ ~reliable => e = off + Drift
      /\ ~initialized /\ reliable => e = Noise
      /\ ~initialized /\ ~reliable => e = 2 * HalfTurn
  BY <1>8 DEF Expected
<1>10. Straight(rate, reliable) =>
         /\ Size(roll + rate) <= HalfTurn
         /\ reliable => Size(roll + rate) + Noise <= HalfTurn
         /\ \/ Size(roll + rate) + e <= HalfTurn
            \/ initialized /\ reliable
               /\ GyroWeight * (Size(rate) + Drift)
                  + AccelWeight * (Size(roll + rate) + Noise) <= AccelWeight * HalfTurn
  BY DEF Straight, Clear
<1> HIDE DEF r, f, p, e
<1>11. Size(f - r) <= HalfTurn + Size(r)
  BY <1>1, <1>3, Numbers DEF Angles, Size
<1>12. ASSUME Straight(rate, reliable)
       PROVE  f - r \in -e .. e
  <2>1. r = roll + rate
    BY <1>1, <1>5, <1>10, <1>12, NormalizedFacts, Numbers
  <2>2. /\ p - r \in -(off + Drift) .. off + Drift /\ r \in Int /\ f \in Int
        /\ measured \in Int /\ off + Drift \in Nat /\ Size(r) + Noise \in Nat
        /\ Size(rate) + Drift \in Nat
    BY <1>1, <1>2, <1>3, <1>5, <2>1, Numbers, AngleFacts DEF Angles
  <2>3. reliable => measured - r \in -Noise .. Noise
                    /\ measured \in -(Size(r) + Noise) .. Size(r) + Noise
    <3>1. SUFFICES ASSUME reliable
                   PROVE  measured - r \in -Noise .. Noise
                          /\ measured \in -(Size(r) + Noise) .. Size(r) + Noise
      OBVIOUS
    <3>2. PICK noise \in -Noise .. Noise : measured = Normalized(r + noise)
      BY <1>2, <3>1
    <3>3. Size(r) + Noise <= HalfTurn
      BY <1>10, <1>12, <2>1, <3>1
    <3>4. r + noise \in Int /\ Size(r + noise) <= Size(r) + Noise
          /\ r + noise \in -(Size(r) + Noise) .. Size(r) + Noise
      BY <2>2, Numbers DEF Size
    <3>5. r + noise \in -HalfTurn .. HalfTurn
      BY <3>3, <3>4, <2>2, Numbers
    <3>6. Normalized(r + noise) = r + noise
      BY <3>5, Numbers DEF Normalized
    <3> QED
      BY <2>2, <3>2, <3>4, <3>6, Numbers
  <2>4. CASE ~initialized /\ reliable
    BY <1>4, <1>9, <2>3, <2>4
  <2>5. CASE ~initialized /\ ~reliable
    BY <1>1, <1>3, <1>9, <2>5, Numbers DEF Angles
  <2>6. CASE initialized /\ ~reliable
    <3>1. e = off + Drift /\ Size(r) + e <= HalfTurn
      BY <1>9, <1>10, <1>12, <2>1, <2>6
    <3>2. p \in -HalfTurn .. HalfTurn
      BY <1>7, <2>2, <3>1, <1>5, Numbers DEF Size
    <3>3. Normalized(p) = p
      BY <3>2, Numbers DEF Normalized
    <3> QED
      BY <1>4, <2>2, <2>6, <3>1, <3>3
  <2>7. CASE initialized /\ reliable
    <3> DEFINE x == Mix(p, measured)
    <3>1. e = Quotient(GyroWeight * (off + Drift) + AccelWeight * Noise)
      BY <1>9, <2>7
    <3>2. x - r \in -e .. e
      BY <1>5, <2>2, <2>3, <2>7, <3>1, MixClose, Numbers
    <3>3. x \in -3 * HalfTurn .. 3 * HalfTurn
      BY <1>1, <1>2, FilterWithin DEF p
    <3>4. x \in Int
      BY <3>3, Numbers
    <3> HIDE DEF x
    <3>5. x \in Angles
      <4>1. Size(r) + e <= HalfTurn => x \in Angles
        BY <1>7, <2>2, <3>2, <3>4, Numbers DEF Angles, Size
      <4>2. GyroWeight * (Size(rate) + Drift) + AccelWeight * (Size(r) + Noise)
              <= AccelWeight * HalfTurn => x \in Angles
        BY <1>5, <2>2, <2>3, <2>7, MixWithin DEF x
      <4> QED
        BY <1>10, <1>12, <2>1, <4>1, <4>2
    <3>6. Normalized(x) = x
      BY <3>5, Numbers DEF Angles, Normalized
    <3> QED
      BY <1>4, <2>7, <3>2, <3>6 DEF x
  <2> QED
    BY <1>8, <2>4, <2>5, <2>6, <2>7
<1>13. Straight(rate, reliable) => Size(f - r) <= e
  BY <1>1, <1>3, <1>7, <1>12 DEF Angles, Size
<1>14. Size(f - r) <= Error(rate, reliable)
  BY <1>6, <1>11, <1>13 DEF Lesser
<1>15. Error(rate, reliable) \in 0 .. 2 * HalfTurn
  BY <1>6, <1>7, Numbers DEF Lesser
<1> QED
  BY <1>3, <1>14, <1>15 DEF f, r

\* The account of the shorter way around is right.
LEMMA Around ==
  ASSUME IInv, NEW rate \in Rates, NEW drift \in Drifts, NEW reliable \in BOOLEAN,
         Sample(rate, drift, reliable)
  PROVE  around' \in 0 .. HalfTurn /\ Apart(filtered_roll', roll') <= around'
<1> DEFINE r == roll'
           f == filtered_roll'
           p == filtered_roll + (rate + drift)
           q == roll + rate
           w == 2 * HalfTurn + Size(rate) + Drift
           mixed == Quotient(AccelWeight * w)
           turned == around + Drift + (IF reliable THEN mixed ELSE 0)
           e == Error(rate, reliable)
<1>1. /\ roll \in Angles /\ r \in Angles /\ filtered_roll \in Angles
      /\ rate \in Angles /\ drift \in -Drift .. Drift /\ around \in 0 .. HalfTurn
      /\ r = Normalized(q) /\ Apart(filtered_roll, roll) <= around
  BY SampleFacts
<1>2. PICK measured \in Angles :
        /\ f = Filtered(rate + drift, measured, reliable)
        /\ reliable => \E noise \in -Noise .. Noise :
                         measured = Normalized(r + noise)
  BY SampleFacts
<1>3. /\ f \in Angles /\ Size(f - r) <= e /\ e \in 0 .. 2 * HalfTurn
  BY Close
<1>4. f = IF ~initialized THEN measured
          ELSE IF reliable THEN Normalized(Mix(p, measured)) ELSE Normalized(p)
  BY <1>2 DEF Filtered
<1>5. around' = Lesser(HalfTurn, IF initialized THEN Lesser(turned, e)
                                 ELSE IF reliable THEN Noise ELSE HalfTurn)
  BY DEF Sample, AroundAfter
<1>6. Apart(f, r) \in 0 .. HalfTurn /\ Apart(f, r) <= e /\ Apart(filtered_roll, roll) \in Nat
  <2>1. Apart(f, r) \in 0 .. HalfTurn /\ Apart(f, r) <= Size(f - r)
    BY <1>1, <1>3, ApartReached
  <2>2. Size(f - r) \in Int
    BY <1>1, <1>3, Numbers DEF Angles, Size
  <2>3. Apart(filtered_roll, roll) \in 0 .. HalfTurn
    BY <1>1, ApartReached
  <2> QED
    BY <1>3, <2>1, <2>2, <2>3, Numbers
<1>7. /\ p \in -3 * HalfTurn .. 3 * HalfTurn /\ p \in Int
      /\ q \in -3 * HalfTurn .. 3 * HalfTurn /\ q \in Int
      /\ (p - filtered_roll) - (q - roll) \in -Drift .. Drift
      /\ measured - p \in -w .. w /\ w \in Nat
  BY <1>1, <1>2, Numbers DEF Angles, Size
<1>8. /\ Mix(p, measured) \in -3 * HalfTurn .. 3 * HalfTurn
  BY <1>1, <1>2, FilterWithin
<1>9. mixed \in Nat /\ Mix(p, measured) - p \in -mixed .. mixed
  <2>1. measured \in Int
    BY <1>2, AngleFacts
  <2> HIDE DEF p, w
  <2> QED
    BY <1>7, <2>1, MixTurns
<1>10. initialized \in BOOLEAN
  BY DEF IInv, TypeOK
<1>11. reliable /\ ~initialized => Apart(f, r) <= Noise
  BY <1>1, <1>2, <1>4, MeasuredClose
<1> HIDE DEF r, f, p, q, w, mixed, e
<1>12. initialized => Apart(f, r) <= turned
  <2>1. CASE initialized /\ ~reliable
    <3>1. Apart(Normalized(p), Normalized(q)) <= Apart(filtered_roll, roll) + Drift
      BY <1>1, <1>7, TurnedApart, Numbers
    <3> QED
      BY <1>1, <1>4, <1>6, <2>1, <3>1, Numbers
  <2>2. CASE initialized /\ reliable
    <3> DEFINE x == Mix(p, measured)
    <3>1. x \in Int /\ -3 * HalfTurn <= x /\ x <= 3 * HalfTurn
      BY <1>8, Numbers
    <3>2. x - p \in -mixed .. mixed
      BY <1>9
    <3>3. f = Normalized(x)
      BY <1>4, <2>2
    <3> HIDE DEF x
    <3>4. (x - filtered_roll) - (q - roll) \in -(Drift + mixed) .. Drift + mixed
      BY <1>1, <1>7, <1>9, <3>1, <3>2, Numbers DEF Angles
    <3>5. Drift + mixed \in Nat
      BY <1>9, Numbers
    <3>6. Apart(Normalized(x), Normalized(q))
            <= Apart(filtered_roll, roll) + (Drift + mixed)
      BY <1>1, <1>7, <3>1, <3>4, <3>5, TurnedApart, Numbers
    <3> QED
      BY <1>1, <1>6, <1>9, <2>2, <3>3, <3>6, Numbers
  <2> QED
    BY <2>1, <2>2
<1>13. turned \in Nat
  BY <1>1, <1>9, Numbers
<1> HIDE DEF turned
<1>14. around' \in 0 .. HalfTurn
  BY <1>3, <1>5, <1>10, <1>13, Numbers DEF Lesser
<1>15. Apart(f, r) <= around'
  BY <1>3, <1>5, <1>6, <1>10, <1>11, <1>12, <1>13, Numbers DEF Lesser
<1> QED
  BY <1>14, <1>15 DEF f, r

\* Beside the roof the straight error is the shorter way around.
LEMMA Off ==
  ASSUME IInv, NEW rate \in Rates, NEW drift \in Drifts, NEW reliable \in BOOLEAN,
         Sample(rate, drift, reliable)
  PROVE  off' \in 0 .. 2 * HalfTurn /\ Size(filtered_roll' - roll') <= off'
<1> DEFINE r == roll'
           f == filtered_roll'
           a == around'
           e == Error(rate, reliable)
<1>1. /\ f \in Angles /\ r \in Angles /\ Size(f - r) <= e /\ e \in 0 .. 2 * HalfTurn
      /\ a \in 0 .. HalfTurn /\ Apart(f, r) <= a
  BY Close, Around, SampleFacts
<1>2. off' = IF Size(r) + a < HalfTurn THEN a ELSE e
  BY DEF Sample, OffAfter
<1> HIDE DEF r, f, a, e
<1>3. a \in Nat
  BY <1>1, Numbers
<1>4. Size(r) + a < HalfTurn => Size(f - r) <= a
  BY <1>1, <1>3, ApartStraight
<1> QED
  BY <1>1, <1>2, <1>4, Numbers DEF f, r

\* A mix takes Pace from an error above Settled.
LEMMA MixShrinks ==
  ASSUME NEW o \in Nat, NEW e \in Nat,
         e <= Quotient(GyroWeight * (o + Drift) + AccelWeight * Noise)
  PROVE  e <= Settled \/ e + Pace <= o
<1> DEFINE gDrift == GyroWeight * Drift
           aNoise == AccelWeight * Noise
           gO == GyroWeight * o
           aO == AccelWeight * o
           aSettled == AccelWeight * Settled
           gSettled == GyroWeight * Settled
           paces == Total * Pace
           y == GyroWeight * (o + Drift) + AccelWeight * Noise
           q == Quotient(y)
<1>1. Pace \in Nat /\ Settled \in Nat /\ aSettled >= gDrift + aNoise + paces
  BY RecoveryAssumption
<1>2. /\ gDrift \in Nat /\ aNoise \in Nat /\ gO \in Nat /\ aO \in Nat
      /\ aSettled \in Nat /\ gSettled \in Nat /\ paces \in Nat
  BY <1>1, Numbers
<1>3. y = gO + gDrift + aNoise
  BY Numbers
<1>4. o <= Settled => gO <= gSettled
  BY <1>1, Times, Numbers
<1>5. o >= Settled => aSettled <= aO
  BY <1>1, Times, Numbers
<1>6. Total * Settled = gSettled + aSettled /\ Total * (o - Pace) = gO + aO - paces
  BY <1>1, Numbers
<1>7. e <= q
  OBVIOUS
<1> HIDE DEF gDrift, aNoise, gO, aO, aSettled, gSettled, paces, y
<1>8. q \in Int /\ Total * q < y + Total
  BY <1>2, <1>3, RoundsUp
<1> HIDE DEF q
<1>9. Total * q \in Int
  BY <1>8, Numbers
<1>10. Total * q < gO + aSettled - paces + Total
  BY <1>1, <1>2, <1>3, <1>8, <1>9, Numbers
<1>11. CASE o <= Settled
  <2>1. Total * q < Total * Settled + Total
    BY <1>2, <1>4, <1>6, <1>9, <1>10, <1>11, Numbers
  <2>2. q <= Settled
    BY <1>1, <1>8, <2>1, TimesBack, Numbers
  <2> QED
    BY <1>1, <1>7, <1>8, <2>2
<1>12. CASE o >= Settled
  <2>1. Total * q < Total * (o - Pace) + Total
    BY <1>2, <1>5, <1>6, <1>9, <1>10, <1>12, Numbers
  <2>2. q <= o - Pace
    BY <1>1, <1>8, <2>1, TimesBack, Numbers
  <2> QED
    BY <1>1, <1>7, <1>8, <2>2
<1> QED
  BY <1>1, <1>11, <1>12

\* What the weights leave of a distance from the end is one from the end.
LEMMA ClearStraight ==
  ASSUME NEW r \in Angles, Clear(0, r)
  PROVE  Size(r) + Noise <= HalfTurn
<1> DEFINE s == Size(r)
           gd == GyroWeight * Drift
<1>1. s \in Nat /\ Size(0) = 0 /\ 0 + Drift = Drift
  BY AngleFacts, Numbers DEF Size
<1>2. gd + AccelWeight * (s + Noise) <= AccelWeight * HalfTurn
  BY <1>1 DEF Clear
<1> HIDE DEF s
<1>3. gd \in Nat /\ AccelWeight * (s + Noise) \in Nat /\ AccelWeight * HalfTurn \in Nat
  BY <1>1, Numbers
<1> HIDE DEF gd
<1>4. AccelWeight * (s + Noise) < AccelWeight * HalfTurn + AccelWeight
  BY <1>2, <1>3, Numbers
<1>5. s + Noise <= HalfTurn
  BY <1>1, <1>4, TimesBack, Numbers
<1> QED
  BY <1>5 DEF s

\* The lesser is no more than either.
LEMMA Least ==
  ASSUME NEW x \in Int, NEW y \in Int
  PROVE  Lesser(x, y) <= x /\ Lesser(x, y) <= y /\ Lesser(x, y) \in Int
BY DEF Lesser

\* The noise of one measurement is no more than Settled.
LEMMA NoiseSettled == Noise <= Settled /\ Settled \in Nat /\ Pace \in Nat
<1>1. /\ AccelWeight * Settled \in Nat /\ AccelWeight * Noise \in Nat
      /\ GyroWeight * Drift \in Nat /\ Total * Pace \in Nat
      /\ Settled \in Nat /\ Pace \in Nat
  BY RecoveryAssumption, Numbers
<1>2. AccelWeight * Noise < AccelWeight * Settled + AccelWeight
  BY <1>1, RecoveryAssumption, Numbers
<1> QED
  BY <1>1, <1>2, TimesBack, Numbers

\* A reliable sample of a resting vehicle takes Pace from an error above Settled.
LEMMA CalmShrinks ==
  ASSUME IInv, NEW rate \in Rates, NEW drift \in Drifts, NEW reliable \in BOOLEAN,
         Sample(rate, drift, reliable), reliable = TRUE, Resting(rate)
  PROVE  off' <= Settled \/ off' + Pace <= off
<1> DEFINE e == Expected(reliable)
           x == Error(rate, reliable)
           t == around + Drift
                + Quotient(AccelWeight * (2 * HalfTurn + Size(rate) + Drift))
<1>1. /\ roll \in Angles /\ rate = 0 /\ Clear(0, roll) /\ roll' \in Angles
      /\ off \in 0 .. 2 * HalfTurn /\ around \in 0 .. HalfTurn
  BY SampleFacts DEF Resting
<1>2. roll + rate = roll /\ roll \in Int
  BY <1>1, AngleFacts
<1>3. /\ Size(roll) + Noise <= HalfTurn /\ Size(roll) <= HalfTurn
  BY <1>1, ClearStraight, AngleFacts
<1>4. initialized \in BOOLEAN
  BY DEF IInv, TypeOK
<1>5. e \in Nat
  BY ExpectedNumber
<1>6. ~initialized => e = Noise
  BY DEF Expected
<1>7. initialized => e = Quotient(GyroWeight * (off + Drift) + AccelWeight * Noise)
  BY DEF Expected
<1>8. Straight(rate, reliable)
  BY <1>1, <1>2, <1>3, <1>4, <1>6 DEF Straight
<1>9. x <= e /\ x \in Int
  <2>1. x = Lesser(e, HalfTurn + Size(roll'))
    BY <1>8 DEF Error, Furthest
  <2>2. HalfTurn + Size(roll') \in Int
    BY <1>1, AngleFacts, Numbers
  <2> HIDE DEF x, e
  <2> QED
    BY <1>5, <2>1, <2>2, Least
<1>10. t \in Int
  <2>1. Size(rate) \in Nat /\ around \in Int
    BY <1>1, Numbers DEF Size
  <2>2. AccelWeight * (2 * HalfTurn + Size(rate) + Drift) \in Int
    BY <2>1, Numbers
  <2>3. Quotient(AccelWeight * (2 * HalfTurn + Size(rate) + Drift)) \in Int
    BY <2>2, RoundsUp
  <2> QED
    BY <2>1, <2>3, Numbers
<1>11. /\ initialized => around' = Lesser(HalfTurn, Lesser(t, x))
       /\ ~initialized => around' = Lesser(HalfTurn, Noise)
  BY DEF Sample, AroundAfter
<1>12. off' = IF Size(roll') + around' < HalfTurn THEN around' ELSE x
  BY DEF Sample, OffAfter
<1> HIDE DEF e, x, t
<1>13. initialized => around' <= x /\ around' \in Int
  <2>1. Lesser(t, x) \in Int /\ Lesser(t, x) <= x
    BY <1>9, <1>10, Least
  <2>2. Lesser(HalfTurn, Lesser(t, x)) <= Lesser(t, x)
        /\ Lesser(HalfTurn, Lesser(t, x)) \in Int
    BY <2>1, Least, Numbers
  <2>3. ASSUME initialized PROVE around' <= x /\ around' \in Int
    BY <1>9, <1>11, <2>1, <2>2, <2>3
  <2> QED
    BY <2>3
<1>14. ~initialized => around' <= Noise /\ around' \in Int
  BY <1>11, Least, Numbers
<1>15. off' <= e /\ off' \in Nat
  <2>1. off' \in Nat
    <3>1. off' \in 0 .. 2 * HalfTurn
      BY Off
    <3> QED
      BY <3>1, Numbers
  <2>2. CASE initialized
    BY <1>5, <1>9, <1>12, <1>13, <2>1, <2>2
  <2>3. CASE ~initialized
    BY <1>5, <1>6, <1>9, <1>12, <1>14, <2>1, <2>3
  <2> QED
    BY <1>4, <2>1, <2>2, <2>3
<1>16. CASE initialized
  <2>1. off \in Nat
    BY <1>1, Numbers
  <2> QED
    BY <1>7, <1>15, <1>16, <2>1, MixShrinks
<1>17. CASE ~initialized
  BY <1>6, <1>15, <1>17, NoiseSettled, Numbers
<1> QED
  BY <1>4, <1>16, <1>17

\* A run that counts more goes up with one that counts less.
LEMMA RunsOrdered ==
  ASSUME NEW a \in 0 .. MaxRun, NEW b \in 0 .. MaxRun, a <= b,
         NEW p \in BOOLEAN, NEW q \in BOOLEAN, p => q
  PROVE  /\ RunAfter(a, p, MaxRun) <= RunAfter(b, q, MaxRun)
         /\ RunAfter(a, p, MaxRun) \in 0 .. MaxRun
         /\ RunAfter(b, q, MaxRun) \in 0 .. MaxRun
BY Numbers DEF RunAfter

\* One sample keeps the account of the runs.
LEMMA RunsStayAgreed ==
  ASSUME IInv, NEW rate \in Rates, NEW drift \in Drifts, NEW reliable \in BOOLEAN,
         Sample(rate, drift, reliable)
  PROVE  /\ RunsAgree' /\ NoFalseAlarm'
         /\ rollover_samples' \in 0 .. MaxRun
         /\ steep' \in 0 .. MaxRun /\ slanted' \in 0 .. MaxRun
<1> DEFINE sure == Size(roll') >= Threshold + around'
           tilted == Tilt(filtered_roll') >= Threshold
           possible == Size(roll') + around' >= Threshold
<1>1. /\ steep' = RunAfter(steep, sure, MaxRun)
      /\ slanted' = RunAfter(slanted, possible, MaxRun)
      /\ rollover_samples' = RunAfter(rollover_samples, tilted, MaxRun)
      /\ rollover_detected' = (rollover_detected \/ rollover_samples' >= Required)
      /\ was_slanted' = (was_slanted \/ slanted' >= Required)
  BY DEF Sample, SamplesAfter, RunAfter
<1>2. /\ steep \in 0 .. MaxRun /\ slanted \in 0 .. MaxRun
      /\ rollover_samples \in 0 .. MaxRun
      /\ steep <= rollover_samples /\ rollover_samples <= slanted
      /\ rollover_detected => was_slanted
  BY DEF IInv, TypeOK, RunsAgree, NoFalseAlarm
<1>3. sure \in BOOLEAN /\ tilted \in BOOLEAN /\ possible \in BOOLEAN
  OBVIOUS
<1>4. (sure => tilted) /\ (tilted => possible)
  <2>1. /\ around' \in 0 .. HalfTurn /\ Apart(filtered_roll', roll') <= around'
        /\ filtered_roll' \in Angles /\ roll' \in Angles
    BY Around, Close, SampleFacts
  <2>2. around' \in Nat
    BY <2>1, Numbers
  <2>3. /\ Size(roll') >= Threshold + around' => Size(filtered_roll') >= Threshold
        /\ Size(filtered_roll') >= Threshold => Size(roll') + around' >= Threshold
    BY <2>1, <2>2, TiltBetween
  <2> QED
    BY <2>3 DEF Tilt
<1> HIDE DEF sure, tilted, possible
<1>5. /\ steep' <= rollover_samples' /\ rollover_samples' <= slanted'
      /\ rollover_samples' \in 0 .. MaxRun
      /\ steep' \in 0 .. MaxRun /\ slanted' \in 0 .. MaxRun
  BY <1>1, <1>2, <1>3, <1>4, RunsOrdered
<1>6. RunsAgree'
  BY <1>1, <1>5 DEF RunsAgree
<1>7. NoFalseAlarm'
  BY <1>1, <1>2, <1>5, Numbers DEF NoFalseAlarm
<1> QED
  BY <1>5, <1>6, <1>7

\* One sample keeps the account of the recovery.
LEMMA StaysRecovering ==
  ASSUME IInv, NEW rate \in Rates, NEW drift \in Drifts, NEW reliable \in BOOLEAN,
         Sample(rate, drift, reliable)
  PROVE  Recovering' /\ calm' \in 0 .. Recovery
<1> DEFINE more == reliable /\ Resting(rate)
           paid == Pace * calm
<1>1. calm' = RunAfter(calm, more, Recovery)
  BY DEF Sample
<1>2. /\ calm \in 0 .. Recovery /\ off \in 0 .. 2 * HalfTurn
      /\ off <= Settled \/ off + paid <= 2 * HalfTurn
  BY DEF IInv, TypeOK, Recovering
<1>3. Recovery \in Nat /\ Pace \in Nat /\ Settled \in Nat
  BY RecoveryAssumption
<1>4. off' \in 0 .. 2 * HalfTurn
  BY Off
<1>5. more => off' <= Settled \/ off' + Pace <= off
  BY CalmShrinks
<1>6. paid \in Nat /\ Pace * (calm + 1) = paid + Pace /\ Pace * 0 = 0
  BY <1>2, <1>3
<1> HIDE DEF more
<1>7. calm' \in 0 .. Recovery /\ calm' \in {0, calm, calm + 1} /\ (~more => calm' = 0)
  BY <1>1, <1>2, <1>3 DEF RunAfter
<1>8. CASE ~more
  <2>1. Pace * calm' = 0
    BY <1>6, <1>7, <1>8
  <2> QED
    BY <1>4, <1>7, <2>1, Numbers DEF Recovering
<1>9. CASE more
  <2> DEFINE after == Pace * calm'
  <2>1. after \in {0, paid, paid + Pace}
    <3>1. CASE calm' = 0
      BY <1>6, <3>1
    <3>2. CASE calm' = calm
      BY <3>2
    <3>3. CASE calm' = calm + 1
      BY <1>6, <3>3
    <3> QED
      BY <1>7, <3>1, <3>2, <3>3
  <2> DEFINE now == off'
  <2>2. now \in Nat /\ off \in Nat /\ 2 * HalfTurn \in Nat
    BY <1>2, <1>4, Numbers
  <2>3. now <= Settled \/ now + Pace <= off
    BY <1>5, <1>9
  <2> HIDE DEF after, paid, now
  <2>4. now <= Settled \/ now + after <= 2 * HalfTurn
    <3>1. CASE off <= Settled
      BY <1>3, <2>2, <2>3, <3>1
    <3>2. CASE off + paid <= 2 * HalfTurn
      <4>1. after <= paid + Pace /\ after \in Nat
        BY <1>3, <1>6, <2>1
      <4> QED
        BY <1>3, <1>6, <2>2, <2>3, <3>2, <4>1
    <3> QED
      BY <1>2, <3>1, <3>2
  <2> QED
    BY <1>7, <2>4 DEF Recovering, after, now
<1> QED
  BY <1>8, <1>9

\* One sample keeps the inductive invariant.
LEMMA SampleKeeps ==
  ASSUME IInv, NEW rate \in Rates, NEW drift \in Drifts, NEW reliable \in BOOLEAN,
         Sample(rate, drift, reliable)
  PROVE  IInv'
<1>1. TypeOK'
  <2>1. filtered_roll' \in -HalfTurn .. HalfTurn
    BY Close DEF Angles
  <2>2. /\ off' \in 0 .. 2 * HalfTurn /\ around' \in 0 .. HalfTurn
        /\ calm' \in 0 .. Recovery
    BY Off, Around, StaysRecovering
  <2>3. /\ rollover_samples' \in 0 .. MaxRun
        /\ steep' \in 0 .. MaxRun /\ slanted' \in 0 .. MaxRun
    BY RunsStayAgreed
  <2>4. /\ initialized' \in BOOLEAN /\ rollover_detected' \in BOOLEAN
        /\ was_slanted' \in BOOLEAN /\ roll' \in Rolls
    BY DEF IInv, TypeOK, Sample
  <2> QED
    BY <2>1, <2>2, <2>3, <2>4 DEF TypeOK
<1>2. FilterFollows'
  <2>1. Size(filtered_roll' - roll') <= off' /\ Apart(filtered_roll', roll') <= around'
    BY Off, Around
  <2> QED
    BY <2>1 DEF FilterFollows, Size, Apart
<1>3. RunsAgree' /\ NoFalseAlarm'
  BY RunsStayAgreed
<1>4. Recovering'
  BY StaysRecovering
<1> QED
  BY <1>1, <1>2, <1>3, <1>4 DEF IInv

-----------------------------------------------------------------------------

\* Before the first sample nothing is claimed of the filter.
LEMMA InitIInv == Init => IInv
<1> SUFFICES ASSUME Init PROVE IInv
  OBVIOUS
<1>1. roll \in Rolls /\ roll \in Angles /\ filtered_roll = 0 /\ filtered_roll \in Angles
  BY Numbers DEF Init, Angles
<1>2. off = HalfTurn + Size(roll) /\ Size(roll) \in 0 .. HalfTurn /\ around = HalfTurn
  BY <1>1, AngleFacts, Numbers DEF Init, Furthest
<1>3. calm = 0 /\ Recovery \in Nat /\ Pace * 0 = 0
  BY RecoveryAssumption DEF Init
<1>4. TypeOK
  <2>1. /\ off \in 0 .. 2 * HalfTurn /\ around \in 0 .. HalfTurn /\ calm \in 0 .. Recovery
        /\ 0 \in 0 .. MaxRun
    BY <1>2, <1>3, Numbers
  <2> QED
    BY <1>1, <2>1 DEF Init, TypeOK, Angles
<1>5. FilterFollows
  <2>1. Size(filtered_roll - roll) <= off
    BY <1>1, <1>2, Numbers DEF Angles, Size
  <2>2. Apart(filtered_roll, roll) <= around
    BY <1>1, <1>2, ApartReached, Numbers
  <2> QED
    BY <2>1, <2>2 DEF FilterFollows
<1>6. RunsAgree /\ NoFalseAlarm
  BY Numbers DEF Init, RunsAgree, NoFalseAlarm
<1>7. Recovering
  BY <1>2, <1>3, Numbers DEF Recovering
<1> QED
  BY <1>4, <1>5, <1>6, <1>7 DEF IInv

\* Every reachable state satisfies the inductive invariant.
LEMMA Invariance == Spec => []IInv
<1>1. IInv /\ [Next]_vars => IInv'
  <2>1. IInv /\ UNCHANGED vars => IInv'
    BY DEF vars, detector, history, IInv, TypeOK, FilterFollows, RunsAgree,
           NoFalseAlarm, Recovering
  <2> QED
    BY <2>1, SampleKeeps DEF Next
<1> QED
  BY InitIInv, <1>1, PTL DEF Spec

\* The filter never leaves half a turn, nor is it further from the vehicle's
\* roll than the errors of the samples so far explain.
THEOREM FilterCorrect == Spec => [](TypeOK /\ FilterFollows)
<1>1. IInv => TypeOK /\ FilterFollows
  BY DEF IInv
<1> QED
  BY Invariance, <1>1, PTL

\* Wherever the filter was, it has found a resting vehicle's roll after Recovery
\* reliable samples.
THEOREM FilterRecovers == Spec => []Recovers
<1>1. IInv => Recovers
  <2> SUFFICES ASSUME IInv, calm >= Recovery
               PROVE  Size(filtered_roll - roll) <= Settled
    BY DEF Recovers
  <2>1. /\ calm = Recovery /\ off \in 0 .. 2 * HalfTurn
        /\ off <= Settled \/ off + Pace * Recovery <= 2 * HalfTurn
    BY RecoveryAssumption DEF IInv, TypeOK, Recovering
  <2>2. Pace * Recovery \in Nat /\ Pace * Recovery >= 2 * HalfTurn /\ Settled \in Nat
    BY RecoveryAssumption
  <2>3. off <= Settled
    BY <2>1, <2>2, Numbers
  <2>4. Size(filtered_roll - roll) <= off /\ Size(filtered_roll - roll) \in Int
    BY Numbers DEF IInv, TypeOK, FilterFollows, Size
  <2> QED
    BY <2>1, <2>2, <2>3, <2>4, Numbers
<1> QED
  BY Invariance, <1>1, PTL

\* A vehicle that is tilted by more than the filter's error for the required
\* number of samples is detected.
THEOREM RolloverIsDetected == Spec => []RolloverDetected
<1>1. IInv => RolloverDetected
  BY Numbers DEF IInv, TypeOK, RunsAgree, RolloverDetected
<1> QED
  BY Invariance, <1>1, PTL

\* What is detected was one, or the errors of the samples so far account for it.
THEOREM NoRolloverInvented == Spec => []NoFalseAlarm
<1>1. IInv => NoFalseAlarm
  BY DEF IInv
<1> QED
  BY Invariance, <1>1, PTL

=============================================================================
