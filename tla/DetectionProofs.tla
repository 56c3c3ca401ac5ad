--------------------------- MODULE DetectionProofs ---------------------------
(***************************************************************************)
(* The run counting of the detector and the latency start of task 1, for   *)
(* every required length and every sequence of samples.                    *)
(***************************************************************************)
EXTENDS Task1, TLAPS

\* The last run of kind k in h, if it lasts until its end, has c samples.
RunLength(h, k, c) ==
  /\ c <= Len(h)
  /\ \A i \in Len(h) - c + 1 .. Len(h) : k \in h[i]
  /\ c < Len(h) => k \notin h[Len(h) - c]

\* Confirmed, of any history h.
Enough(h, k, n) ==
  n >= Required[k] /\ \A i \in n + 1 - Required[k] .. n : k \in h[i]

\* The counters are the lengths of the runs that last until now.
CountIsRun == \A k \in Kind : RunLength(history, k, count[k])

\* The latched flags are the kinds confirmed so far.
DetectedExact ==
  detected = {k \in Kind : \E n \in 1 .. Len(history) : Enough(history, k, n)}

\* What the last call returned are the kinds confirmed just now.
EventNow ==
  event = {k \in Kind :
             /\ Enough(history, k, Len(history))
             /\ \A n \in 1 .. Len(history) - 1 : ~Enough(history, k, n)}

\* The inductive invariant of the detector.
DetectorInv == DetectorTypeOK /\ CountIsRun /\ DetectedExact /\ EventNow

\* The required numbers of samples are positive.
LEMMA RequiredPositive == \A k \in Kind : Required[k] \in Nat \ {0}
BY RequiredAssumption DEF Kind, Required

\* Comparing the counter is comparing the last samples.
LEMMA CounterDecides ==
  ASSUME NEW h \in Seq(SUBSET Kind), NEW k \in Kind, NEW c \in Nat,
         RunLength(h, k, c)
  PROVE  c >= Required[k] <=> Enough(h, k, Len(h))
<1> DEFINE n == Len(h)
           r == Required[k]
<1>1. n \in Nat /\ r \in Nat \ {0}
  BY RequiredPositive
<1>2. /\ c <= n
      /\ \A i \in n - c + 1 .. n : k \in h[i]
      /\ c < n => k \notin h[n - c]
  BY DEF RunLength
<1>3. Enough(h, k, n) <=> n >= r /\ \A i \in n + 1 - r .. n : k \in h[i]
  BY DEF Enough
<1> HIDE DEF n, r
<1>4. ASSUME c >= r PROVE n >= r /\ \A i \in n + 1 - r .. n : k \in h[i]
  BY <1>1, <1>2, <1>4
<1>5. ASSUME n >= r, \A i \in n + 1 - r .. n : k \in h[i], ~(c >= r)
      PROVE  FALSE
  <2>1. n - c \in n + 1 - r .. n /\ c < n
    BY <1>1, <1>5
  <2> QED
    BY <1>2, <1>5, <2>1
<1> QED
  BY <1>3, <1>4, <1>5 DEF n, r

\* One more sample lengthens the run or ends it.
LEMMA RunGrows ==
  ASSUME NEW h \in Seq(SUBSET Kind), NEW k \in Kind, NEW c \in Nat,
         RunLength(h, k, c), NEW above \in SUBSET Kind
  PROVE  RunLength(Append(h, above), k, IF k \in above THEN c + 1 ELSE 0)
<1> DEFINE g == Append(h, above)
           n == Len(h)
<1>1. n \in Nat /\ Len(g) = n + 1 /\ g[n + 1] = above
      /\ \A i \in 1 .. n : g[i] = h[i]
  OBVIOUS
<1>2. /\ c <= n
      /\ \A i \in n - c + 1 .. n : k \in h[i]
      /\ c < n => k \notin h[n - c]
  BY DEF RunLength
<1> HIDE DEF g, n
<1>3. CASE k \notin above
  <2>1. RunLength(g, k, 0)
    BY <1>1, <1>3 DEF RunLength
  <2> QED
    BY <1>3, <2>1 DEF g
<1>4. CASE k \in above
  <2>1. \A i \in n + 1 - (c + 1) + 1 .. n + 1 : k \in g[i]
    BY <1>1, <1>2, <1>4
  <2>2. c + 1 < n + 1 => k \notin g[n + 1 - (c + 1)]
    <3>1. c < n => n - c \in 1 .. n /\ n + 1 - (c + 1) = n - c
      BY <1>1
    <3> QED
      BY <1>1, <1>2, <3>1
  <2>3. RunLength(g, k, c + 1)
    BY <1>1, <1>2, <2>1, <2>2 DEF RunLength
  <2> QED
    BY <1>4, <2>3 DEF g
<1> QED
  BY <1>3, <1>4

\* A longer history confirms at its earlier samples what the shorter one did.
LEMMA EnoughKept ==
  ASSUME NEW h \in Seq(SUBSET Kind), NEW k \in Kind, NEW above \in SUBSET Kind,
         NEW n \in 1 .. Len(h)
  PROVE  Enough(Append(h, above), k, n) <=> Enough(h, k, n)
<1>1. \A i \in 1 .. Len(h) : Append(h, above)[i] = h[i]
  OBVIOUS
<1>2. n >= Required[k] => n + 1 - Required[k] .. n \subseteq 1 .. Len(h)
  BY RequiredPositive
<1> QED
  BY <1>1, <1>2 DEF Enough

\* One call of accident_detection_update keeps the invariant.
LEMMA UpdateKeeps ==
  ASSUME DetectorInv, NEW above \in SUBSET Kind, Update(above),
         Len(history) < MaxSamples
  PROVE  DetectorInv'
<1> DEFINE n == Len(history)
           g == Append(history, above)
<1>1. /\ history \in Seq(SUBSET Kind) /\ count \in [Kind -> 0 .. MaxSamples]
      /\ \A k \in Kind : count[k] \in Nat /\ RunLength(history, k, count[k])
  BY MaxSamplesAssumption DEF DetectorInv, DetectorTypeOK, CountIsRun
<1>2. /\ history' = g /\ g \in Seq(SUBSET Kind) /\ n \in Nat /\ n < MaxSamples
      /\ Len(history') = n + 1 /\ Len(g) = n + 1
  BY <1>1 DEF Update
<1>3. \A k \in Kind : count'[k] = IF k \in above THEN count[k] + 1 ELSE 0
  BY DEF Update, CountAfter
<1>4. \A k \in Kind : RunLength(g, k, count'[k]) /\ count'[k] \in 0 .. MaxSamples
  <2> SUFFICES ASSUME NEW k \in Kind
               PROVE  RunLength(g, k, count'[k]) /\ count'[k] \in 0 .. MaxSamples
    OBVIOUS
  <2>1. RunLength(g, k, IF k \in above THEN count[k] + 1 ELSE 0)
    BY <1>1, RunGrows
  <2>2. RunLength(g, k, count'[k])
    BY <1>3, <2>1
  <2>3. count'[k] \in Nat /\ count'[k] <= n + 1
    BY <1>1, <1>2, <1>3, <2>2 DEF RunLength
  <2> QED
    BY <1>2, <2>2, <2>3, MaxSamplesAssumption
<1>5. count' \in [Kind -> 0 .. MaxSamples]
  BY <1>4 DEF Update
<1>6. \A k \in Kind : count'[k] >= Required[k] <=> Enough(g, k, n + 1)
  <2> SUFFICES ASSUME NEW k \in Kind
               PROVE  count'[k] >= Required[k] <=> Enough(g, k, n + 1)
    OBVIOUS
  <2>1. count'[k] \in Nat /\ RunLength(g, k, count'[k])
    BY <1>4, MaxSamplesAssumption
  <2> QED
    BY <1>2, <2>1, CounterDecides
<1>7. \A k \in Kind, m \in 1 .. n : Enough(g, k, m) <=> Enough(history, k, m)
  BY <1>1, EnoughKept
<1>8. event' = {k \in Kind : Enough(g, k, n + 1)} \ detected
  BY <1>6 DEF Update, LongEnough
<1>9. detected = {k \in Kind : \E m \in 1 .. n : Enough(g, k, m)}
  BY <1>7 DEF DetectorInv, DetectedExact
<1> HIDE DEF n, g
<1>10. EventNow'
  <2>1. n + 1 - 1 = n
    BY <1>2
  <2>2. event' = {k \in Kind : /\ Enough(g, k, n + 1)
                               /\ \A m \in 1 .. n : ~Enough(g, k, m)}
    BY <1>8, <1>9
  <2> QED
    BY <1>2, <2>1, <2>2 DEF EventNow
<1>11. DetectedExact'
  <2>1. detected' = detected \cup {k \in Kind : Enough(g, k, n + 1)}
    BY <1>8 DEF Update
  <2>2. \A k \in Kind : (\E m \in 1 .. n + 1 : Enough(g, k, m))
          <=> (\E m \in 1 .. n : Enough(g, k, m)) \/ Enough(g, k, n + 1)
    BY <1>2
  <2>3. detected' = {k \in Kind : \E m \in 1 .. n + 1 : Enough(g, k, m)}
    BY <1>9, <2>1, <2>2
  <2> QED
    BY <1>2, <2>3 DEF DetectedExact
<1>12. detected' \subseteq Kind /\ event' \subseteq Kind
  BY <1>8, <1>9 DEF Update
<1>13. CountIsRun'
  BY <1>2, <1>4 DEF CountIsRun
<1> QED
  BY <1>2, <1>5, <1>10, <1>11, <1>12, <1>13 DEF DetectorInv, DetectorTypeOK

-----------------------------------------------------------------------------

\* The detector before the first sample.
LEMMA InitDetects == DetectorInit => DetectorInv
<1> SUFFICES ASSUME DetectorInit PROVE DetectorInv
  OBVIOUS
<1>1. history = <<>> /\ Len(history) = 0 /\ history \in Seq(SUBSET Kind)
  BY DEF DetectorInit
<1>2. \A k \in Kind : count[k] = 0
  BY DEF DetectorInit
<1>3. DetectorTypeOK
  <2>1. count \in [Kind -> 0 .. MaxSamples]
    BY MaxSamplesAssumption DEF DetectorInit
  <2> QED
    BY <1>1, <2>1 DEF DetectorInit, DetectorTypeOK
<1>4. CountIsRun
  BY <1>1, <1>2 DEF CountIsRun, RunLength
<1>5. DetectedExact
  BY <1>1 DEF DetectorInit, DetectedExact
<1>6. EventNow
  <2>1. \A k \in Kind : ~Enough(history, k, Len(history))
    BY <1>1, RequiredPositive DEF Enough
  <2> QED
    BY <2>1 DEF DetectorInit, EventNow
<1> QED
  BY <1>3, <1>4, <1>5, <1>6 DEF DetectorInv

\* A call that is not made changes nothing.
LEMMA DetectorStutters == DetectorInv /\ UNCHANGED detector => DetectorInv'
BY DEF detector, DetectorInv, DetectorTypeOK, CountIsRun, DetectedExact, EventNow

-----------------------------------------------------------------------------

\* The threshold starts of task 1 are the timestamps at which the runs that
\* last until now began.
StartsExact ==
  \A k \in Kind :
    threshold_start[k] = IF count[k] = 0 THEN 0
                         ELSE stamps[Len(history) - count[k] + 1]

\* The m-th sample of h began the run of kind k that lasts until its end.
Began(h, k, m) ==
  /\ \A i \in m .. Len(h) : k \in h[i]
  /\ m > 1 => k \notin h[m - 1]

\* A run of c samples began c samples before the end.
LEMMA RunBegins ==
  ASSUME NEW h \in Seq(SUBSET Kind), NEW k \in Kind, NEW c \in Nat \ {0},
         RunLength(h, k, c)
  PROVE  /\ Len(h) - c + 1 \in 1 .. Len(h)
         /\ Began(h, k, Len(h) - c + 1)
<1> DEFINE m == Len(h) - c + 1
<1>1. m \in 1 .. Len(h) /\ m - 1 = Len(h) - c /\ (m > 1 => c < Len(h))
  BY DEF RunLength
<1> QED
  BY <1>1 DEF RunLength, Began

\* The inductive invariant of task 1's work.
IInv == DetectorInv /\ TypeOK /\ StartsExact /\ LatencyStartExact

\* A sample keeps the invariant.
LEMMA SampleKeeps ==
  ASSUME IInv, NEW above \in SUBSET Kind, NEW time \in Nat \ {0},
         Sample(above, time), Len(history) < MaxSamples, task = "sampling",
         now' = now
  PROVE  IInv'
<1> DEFINE n == Len(history)
<1>1. DetectorInv'
  BY UpdateKeeps DEF IInv, Sample
<1>2. /\ stamps \in Seq(Nat \ {0}) /\ Len(stamps) = n /\ n \in Nat
      /\ \A k \in Kind : count[k] \in Nat /\ RunLength(history, k, count[k])
      /\ count \in [Kind -> Nat] /\ threshold_start \in [Kind -> Nat]
  BY MaxSamplesAssumption
     DEF IInv, TypeOK, DetectorInv, DetectorTypeOK, CountIsRun
<1>3. /\ stamps' = Append(stamps, time) /\ stamps' \in Seq(Nat \ {0})
      /\ Len(stamps') = n + 1 /\ Len(history') = n + 1
      /\ stamps'[n + 1] = time /\ \A i \in 1 .. n : stamps'[i] = stamps[i]
  BY <1>2 DEF Sample, Update, IInv, DetectorInv, DetectorTypeOK
<1>4. ASSUME NEW k \in Kind
      PROVE  /\ count'[k] = (IF k \in above THEN count[k] + 1 ELSE 0)
             /\ count'[k] \in Nat /\ count'[k] <= n + 1
             /\ RunLength(history', k, count'[k])
  <2>1. count'[k] = IF k \in above THEN count[k] + 1 ELSE 0
    BY DEF Sample, Update, CountAfter
  <2>2. RunLength(history', k, count'[k])
    BY <1>1 DEF DetectorInv, CountIsRun
  <2> QED
    BY <1>2, <1>3, <2>1, <2>2 DEF RunLength
<1>5. ASSUME NEW k \in Kind
      PROVE  /\ threshold_start'[k] =
                  IF count'[k] = 0 THEN 0 ELSE stamps'[n + 1 - count'[k] + 1]
             /\ threshold_start'[k] \in Nat
             /\ threshold_start'[k] = 0 <=> count'[k] = 0
  <2>1. threshold_start'[k] = StartAfter(threshold_start[k], k \in above, time)
    BY DEF Sample
  <2>2. threshold_start[k] = IF count[k] = 0 THEN 0 ELSE stamps[n - count[k] + 1]
    BY DEF IInv, StartsExact
  <2>3. count[k] \in Nat /\ count[k] <= n
    BY <1>2 DEF RunLength
  <2> HIDE DEF n
  <2>4. CASE k \notin above
    BY <1>4, <2>1, <2>4 DEF StartAfter
  <2>5. CASE k \in above /\ count[k] = 0
    BY <1>2, <1>3, <1>4, <2>1, <2>2, <2>5 DEF StartAfter
  <2>6. CASE k \in above /\ count[k] # 0
    <3>1. n - count[k] + 1 \in 1 .. n
      BY <1>2, <2>3, <2>6
    <3>2. threshold_start[k] = stamps[n - count[k] + 1] /\ threshold_start[k] \in Nat \ {0}
      BY <1>2, <2>2, <2>6, <3>1
    <3>3. threshold_start'[k] = threshold_start[k]
      BY <2>1, <2>6, <3>2 DEF StartAfter
    <3>4. n + 1 - count'[k] + 1 = n - count[k] + 1
      BY <1>2, <1>4, <2>3, <2>6
    <3>5. stamps'[n - count[k] + 1] = stamps[n - count[k] + 1]
      BY <1>3, <3>1
    <3> QED
      BY <1>4, <2>3, <2>6, <3>2, <3>3, <3>4, <3>5
  <2> QED
    BY <2>4, <2>5, <2>6
<1>6. threshold_start' \in [Kind -> Nat]
  BY <1>5 DEF Sample
<1> HIDE DEF n
<1>7. StartsExact'
  <2> SUFFICES ASSUME NEW k \in Kind
               PROVE  threshold_start'[k] =
                        IF count'[k] = 0 THEN 0
                        ELSE stamps'[Len(history') - count'[k] + 1]
    BY DEF StartsExact
  <2>1. Len(history') = n + 1
    BY <1>3
  <2>2. threshold_start'[k] =
          IF count'[k] = 0 THEN 0 ELSE stamps'[n + 1 - count'[k] + 1]
    BY <1>5
  <2>3. n \in Nat /\ count'[k] \in Nat
    BY <1>2, <1>4
  <2> QED
    BY <2>1, <2>2, <2>3
<1>8. ASSUME NEW k \in event'
      PROVE  /\ k \in Kind /\ threshold_start'[k] # 0
             /\ \E m \in 1 .. Len(history') :
                  Began(history', k, m) /\ threshold_start'[k] = stamps'[m]
  <2>1. k \in Kind /\ count'[k] >= Required[k]
    BY DEF Sample, Update, LongEnough
  <2>2. count'[k] \in Nat \ {0} /\ count'[k] <= n + 1
    BY <1>4, <2>1, RequiredPositive
  <2>3. RunLength(history', k, count'[k])
    BY <1>4, <2>1
  <2> DEFINE m == Len(history') - count'[k] + 1
  <2>4. m \in 1 .. Len(history') /\ Began(history', k, m)
    <3>1. history' \in Seq(SUBSET Kind)
      BY <1>1 DEF DetectorInv, DetectorTypeOK
    <3> QED
      BY <2>1, <2>2, <2>3, <3>1, RunBegins
  <2>5. threshold_start'[k] # 0 /\ threshold_start'[k] = stamps'[m]
    <3>1. Len(history') = n + 1 /\ n \in Nat
      BY <1>2, <1>3
    <3> QED
      BY <1>5, <2>1, <2>2, <3>1
  <2> QED
    BY <2>1, <2>4, <2>5
<1>9. LatencyStartExact'
  <2>1. CASE event' = {}
    BY <2>1 DEF Sample, LatencyStartExact
  <2>2. CASE event' # {}
    <3> DEFINE kind == IF "impact" \in event' THEN "impact" ELSE "rollover"
    <3>1. event' \subseteq Kind
      BY <1>1 DEF DetectorInv, DetectorTypeOK
    <3>2. kind \in event'
      BY <2>2, <3>1 DEF Kind
    <3>3. detection' = time /\ latency_start' = LatencyStart(time)
      BY <2>2 DEF Sample
    <3>4. LatencyStart(time) = threshold_start'[kind]
      BY <1>8, <3>2 DEF LatencyStart
    <3>5. stamps'[Len(stamps')] = time
      BY <1>2, <1>3
    <3>6. \E m \in 1 .. Len(history') :
            Began(history', kind, m) /\ latency_start' = stamps'[m]
      BY <1>8, <3>2, <3>3, <3>4
    <3> QED
      BY <3>3, <3>5, <3>6 DEF LatencyStartExact, BeganRun, Began
  <2> QED
    BY <2>1, <2>2
<1>10. TypeOK'
  <2>1. detection' \in Nat /\ latency_start' \in Nat
    <3>1. CASE event' = {}
      BY <3>1 DEF Sample, IInv, TypeOK
    <3>2. CASE event' # {}
      <4>1. detection' = time /\ latency_start' = LatencyStart(time)
        BY <3>2 DEF Sample
      <4>2. LatencyStart(time) \in Nat
        BY <1>5 DEF LatencyStart, Kind
      <4> QED
        BY <4>1, <4>2
    <3> QED
      BY <3>1, <3>2
  <2>2. task' \in {"sampling", "notifying", "failed"}
    BY DEF Sample
  <2>3. DetectorTypeOK'
    BY <1>1 DEF DetectorInv
  <2> QED
    BY <1>3, <1>5, <1>6, <2>1, <2>2, <2>3 DEF TypeOK, IInv
<1> QED
  BY <1>1, <1>7, <1>9, <1>10 DEF IInv

\* Task 1 before the first sample.
LEMMA InitSatisfies == Init => IInv
<1> SUFFICES ASSUME Init PROVE IInv
  OBVIOUS
<1>1. DetectorInv
  BY InitDetects DEF Init
<1>2. stamps \in Seq(Nat \ {0}) /\ Len(stamps) = Len(history)
  BY DEF Init, DetectorInit, Schedule!Init
<1>3. \A k \in Kind : threshold_start[k] = 0 /\ count[k] = 0
  BY DEF Init, DetectorInit
<1>4. threshold_start \in [Kind -> Nat]
  BY DEF Init
<1>5. TypeOK
  <2>1. now \in Nat \ {0}
    BY ScheduleAssumption DEF Init, Schedule!Init
  <2> QED
    BY <1>1, <1>2, <1>3, <1>4, <2>1 DEF Init, TypeOK, DetectorInv
<1>6. StartsExact
  BY <1>3 DEF StartsExact
<1> QED
  BY <1>1, <1>5, <1>6 DEF Init, IInv, LatencyStartExact

\* The steps around a sample change none of what it found.
LEMMA OthersKeep ==
  ASSUME IInv, Rest \/ Wake \/ TimePasses \/ Fail \/ UNCHANGED vars
  PROVE  IInv'
<1>1. /\ UNCHANGED <<count, detected, event, history>>
      /\ UNCHANGED <<stamps, threshold_start, latency_start, detection>>
  BY DEF Rest, Wake, TimePasses, Fail, vars, work
<1>2. task' = task \/ task' = "failed"
  BY DEF Rest, Wake, TimePasses, Fail, vars
<1>3. now' \in Nat \ {0}
  <2>1. now' = now \/ now' = now + 1
    BY DEF Rest, Wake, TimePasses, Fail, vars, clock, Schedule!AddNanoseconds,
           Schedule!Carry, Schedule!Sleep, Schedule!Wake, Schedule!TimePasses
  <2> QED
    BY <2>1 DEF IInv, TypeOK
<1>4. DetectorInv'
  BY <1>1, DetectorStutters DEF IInv, detector
<1>5. TypeOK'
  BY <1>1, <1>2, <1>3, <1>4 DEF IInv, TypeOK, DetectorInv
<1>6. StartsExact'
  BY <1>1 DEF IInv, StartsExact
<1>7. LatencyStartExact'
  BY <1>1, <1>2 DEF IInv, LatencyStartExact, BeganRun
<1> QED
  BY <1>4, <1>5, <1>6, <1>7 DEF IInv

\* Every reachable state of task 1 satisfies the inductive invariant.
LEMMA Task1Invariance == Spec => []IInv
<1>1. IInv /\ [Next]_vars => IInv'
  <2> SUFFICES ASSUME IInv, [Next]_vars PROVE IInv'
    OBVIOUS
  <2>1. ASSUME Turn PROVE IInv'
    <3>1. now \in Nat \ {0} /\ now' = now
      BY <2>1 DEF IInv, TypeOK, Turn, Schedule!Sample
    <3> QED
      BY <2>1, <3>1, SampleKeeps DEF Turn
  <2> QED
    BY <2>1, OthersKeep DEF Next
<1> QED
  BY InitSatisfies, <1>1, PTL DEF Spec

\* The types of task 1.
THEOREM Task1TypeCorrect == Spec => []TypeOK
<1>1. IInv => TypeOK
  BY DEF IInv
<1> QED
  BY Task1Invariance, <1>1, PTL

\* What task 1 is told is exact: its samples' events come when they are due.
THEOREM DetectionExact == Spec => []EventExact
<1>1. IInv => EventExact
  BY DEF IInv, DetectorInv, EventNow, EventExact, Enough, Confirmed
<1> QED
  BY Task1Invariance, <1>1, PTL

\* The latency is counted from the first sample of the run that confirmed the
\* accident, whatever runs were broken off before or overlap it.
THEOREM LatencyStartCorrect == Spec => []LatencyStartExact
<1>1. IInv => LatencyStartExact
  BY DEF IInv
<1> QED
  BY Task1Invariance, <1>1, PTL

-----------------------------------------------------------------------------

\* The time the n-th sample is due, counted from 1.
DueTime(n) == start + (n - 1) * Period

\* How many samples are due by the next activation.
Turns == IF at = "add" THEN Len(stamps) ELSE Len(stamps) + 1

\* The inductive invariant of the schedule.
ScheduleInv ==
  /\ now \in Nat /\ start \in Nat
  /\ stamps \in Seq(Nat)
  /\ at \in {"sample", "add", "carry", "asleep"}
  /\ next_activation \in [sec : Nat, nsec : Nat]
  /\ Schedule!Time(next_activation) = DueTime(Turns)
  /\ at \in {"sample", "asleep"} => next_activation.nsec < Second
  /\ at = "sample" => now >= DueTime(Turns)
  /\ \A i \in 1 .. Len(stamps) : stamps[i] >= DueTime(i)

\* One period more.
LEMMA DueTimeStep ==
  ASSUME NEW n \in Int, start \in Nat
  PROVE  DueTime(n) \in Int /\ DueTime(n + 1) = DueTime(n) + Period
<1>1. Period \in Nat
  BY ScheduleAssumption
<1>2. (n + 1 - 1) * Period = (n - 1) * Period + Period
  BY <1>1
<1> QED
  BY <1>1, <1>2 DEF DueTime

\* A timespec and its time in nanoseconds.
LEMMA TimespecExact ==
  ASSUME NEW time \in Nat
  PROVE  /\ Schedule!Timespec(time) \in [sec : Nat, nsec : Nat]
         /\ Schedule!Timespec(time).nsec < Second
         /\ Schedule!Time(Schedule!Timespec(time)) = time
<1>1. Second \in Nat \ {0}
  BY ScheduleAssumption
<1> DEFINE s == time \div Second
           r == time % Second
<1>2. s \in Nat /\ r \in Nat /\ r < Second
  BY <1>1
<1>3. time = Second * s + r
  BY <1>1
<1>4. Schedule!Timespec(time) = [sec |-> s, nsec |-> r]
  BY DEF Schedule!Timespec
<1> HIDE DEF s, r
<1>5. s * Second + r = time
  BY <1>1, <1>2, <1>3
<1> QED
  BY <1>2, <1>4, <1>5 DEF Schedule!Time

\* The schedule before the first sample.
LEMMA InitSchedules == Init => ScheduleInv
<1> SUFFICES ASSUME Init PROVE ScheduleInv
  OBVIOUS
<1>1. /\ now \in Nat /\ start = now /\ stamps = <<>> /\ at = "sample"
      /\ next_activation = Schedule!Timespec(now)
  BY ScheduleAssumption DEF Init, Schedule!Init
<1>2. Turns = 1 /\ Len(stamps) = 0 /\ stamps \in Seq(Nat)
  BY <1>1 DEF Turns
<1>3. DueTime(Turns) = start
  BY <1>1, <1>2, ScheduleAssumption DEF DueTime
<1> QED
  BY <1>1, <1>2, <1>3, TimespecExact DEF ScheduleInv

\* Every reachable state satisfies the invariant of the schedule.
LEMMA ScheduleInvariance == Spec => []ScheduleInv
<1>1. ScheduleInv /\ [Next]_vars => ScheduleInv'
  <2> SUFFICES ASSUME ScheduleInv, [Next]_vars PROVE ScheduleInv'
    OBVIOUS
  <2> USE ScheduleAssumption
  <2>1. CASE Turn
    <3>1. /\ at = "sample" /\ at' = "add" /\ stamps' = Append(stamps, now)
          /\ UNCHANGED <<now, next_activation, start>>
      BY <2>1 DEF Turn, Schedule!Sample
    <3>2. stamps' \in Seq(Nat) /\ Len(stamps') = Len(stamps) + 1
          /\ Len(stamps) \in Nat
          /\ stamps'[Len(stamps) + 1] = now
          /\ \A i \in 1 .. Len(stamps) : stamps'[i] = stamps[i]
      BY <3>1 DEF ScheduleInv
    <3>3. Turns' = Turns /\ Turns = Len(stamps) + 1
      BY <3>1, <3>2 DEF Turns
    <3>4. \A n : DueTime(n)' = DueTime(n)
      BY <3>1 DEF DueTime
    <3>5. Schedule!Time(next_activation)' = Schedule!Time(next_activation)
      BY <3>1 DEF Schedule!Time
    <3>6. now >= DueTime(Len(stamps) + 1)
      BY <3>1, <3>3 DEF ScheduleInv
    <3>7. ASSUME NEW i \in 1 .. Len(stamps') PROVE stamps'[i] >= DueTime(i)
      <4>1. i \in 1 .. Len(stamps) \/ i = Len(stamps) + 1
        BY <3>2
      <4>2. ASSUME i \in 1 .. Len(stamps) PROVE stamps[i] >= DueTime(i)
        BY <4>2 DEF ScheduleInv
      <4> QED
        BY <3>2, <3>6, <4>1, <4>2
    <3>8. DueTime(Turns)' = DueTime(Turns)
      BY <3>1, <3>3 DEF DueTime
    <3> QED
      BY <3>1, <3>2, <3>4, <3>5, <3>7, <3>8 DEF ScheduleInv
  <2>2. CASE Rest /\ Schedule!AddNanoseconds
    <3>1. /\ at = "add" /\ at' = "carry"
          /\ next_activation' = [next_activation EXCEPT !.nsec = @ + Period]
          /\ UNCHANGED <<now, start, stamps>>
      BY <2>2 DEF Schedule!AddNanoseconds, Schedule!Added
    <3>2. next_activation \in [sec : Nat, nsec : Nat] /\ start \in Nat
          /\ Len(stamps) \in Nat
      BY DEF ScheduleInv
    <3>3. /\ next_activation' \in [sec : Nat, nsec : Nat]
          /\ next_activation'.sec = next_activation.sec
          /\ next_activation'.nsec = next_activation.nsec + Period
      BY <3>1, <3>2
    <3>4. Schedule!Time(next_activation)' = Schedule!Time(next_activation) + Period
      BY <3>2, <3>3 DEF Schedule!Time
    <3>5. Turns = Len(stamps) /\ Turns' = Len(stamps) + 1
      BY <3>1 DEF Turns
    <3>6. DueTime(Len(stamps) + 1) = DueTime(Len(stamps)) + Period
      BY <3>2, DueTimeStep
    <3>7. DueTime(Turns)' = DueTime(Len(stamps) + 1)
      BY <3>1, <3>5 DEF DueTime
    <3>8. \A n : DueTime(n)' = DueTime(n)
      BY <3>1 DEF DueTime
    <3> QED
      BY <3>1, <3>3, <3>4, <3>5, <3>6, <3>7, <3>8 DEF ScheduleInv
  <2>3. CASE Rest /\ Schedule!Carry
    <3>1. /\ at = "carry" /\ next_activation.nsec >= Second
          /\ next_activation' = [sec |-> next_activation.sec + 1,
                                 nsec |-> next_activation.nsec - Second]
          /\ UNCHANGED <<now, at, start, stamps>>
      BY <2>3 DEF Schedule!Carry, Schedule!MustCarry
    <3>2. next_activation \in [sec : Nat, nsec : Nat]
      BY DEF ScheduleInv
    <3>3. next_activation' \in [sec : Nat, nsec : Nat]
      BY <3>1, <3>2
    <3>4. (next_activation.sec + 1) * Second
            = next_activation.sec * Second + Second
      BY <3>2
    <3>5. Schedule!Time(next_activation)' = Schedule!Time(next_activation)
      BY <3>1, <3>2, <3>4 DEF Schedule!Time
    <3>6. Turns' = Turns /\ DueTime(Turns)' = DueTime(Turns)
          /\ \A n : DueTime(n)' = DueTime(n)
      BY <3>1 DEF Turns, DueTime
    <3> QED
      BY <3>1, <3>3, <3>5, <3>6 DEF ScheduleInv
  <2>4. CASE Rest /\ Schedule!Sleep
    <3>1. /\ at = "carry" /\ at' = "asleep"
          /\ ~(next_activation.nsec >= Second)
          /\ UNCHANGED <<now, next_activation, start, stamps>>
      BY <2>4 DEF Schedule!Sleep, Schedule!MustCarry
    <3>2. Turns' = Turns /\ DueTime(Turns)' = DueTime(Turns)
          /\ \A n : DueTime(n)' = DueTime(n)
      BY <3>1 DEF Turns, DueTime
    <3>3. Schedule!Time(next_activation)' = Schedule!Time(next_activation)
      BY <3>1 DEF Schedule!Time
    <3>4. next_activation.nsec < Second
      BY <3>1 DEF ScheduleInv
    <3> QED
      BY <3>1, <3>2, <3>3, <3>4 DEF ScheduleInv
  <2>5. CASE Wake
    <3>1. /\ at = "asleep" /\ now >= Schedule!Time(next_activation)
          /\ UNCHANGED <<now, next_activation, start, stamps>>
          /\ at' = IF next_activation.nsec < Second THEN "sample" ELSE "failed"
      BY <2>5 DEF Wake, Schedule!Wake, Schedule!Due
    <3>2. at' = "sample" /\ now >= DueTime(Turns)
      BY <3>1 DEF ScheduleInv
    <3>3. Turns' = Turns /\ DueTime(Turns)' = DueTime(Turns)
          /\ \A n : DueTime(n)' = DueTime(n)
      BY <3>1, <3>2 DEF Turns, DueTime
    <3>4. Schedule!Time(next_activation)' = Schedule!Time(next_activation)
      BY <3>1 DEF Schedule!Time
    <3> QED
      BY <3>1, <3>2, <3>3, <3>4 DEF ScheduleInv
  <2>6. CASE TimePasses
    <3>1. now' = now + 1 /\ UNCHANGED <<next_activation, at, start, stamps>>
      BY <2>6 DEF TimePasses, Schedule!TimePasses
    <3>2. Turns' = Turns /\ DueTime(Turns)' = DueTime(Turns)
          /\ \A n : DueTime(n)' = DueTime(n)
      BY <3>1 DEF Turns, DueTime
    <3>3. Schedule!Time(next_activation)' = Schedule!Time(next_activation)
      BY <3>1 DEF Schedule!Time
    <3>4. at = "sample" => now' >= DueTime(Turns)
      <4>1. Turns \in Int /\ now \in Nat /\ start \in Nat
        BY DEF ScheduleInv, Turns
      <4>2. DueTime(Turns) \in Int
        BY <4>1, DueTimeStep
      <4> QED
        BY <3>1, <4>1, <4>2 DEF ScheduleInv
    <3> QED
      BY <3>1, <3>2, <3>3, <3>4 DEF ScheduleInv
  <2>7. CASE Fail \/ UNCHANGED vars
    <3>1. UNCHANGED <<now, next_activation, at, start, stamps>>
      BY <2>7 DEF Fail, vars, clock, work
    <3> QED
      BY <3>1 DEF ScheduleInv, Turns, DueTime, Schedule!Time
  <2> QED
    BY <2>1, <2>2, <2>3, <2>4, <2>5, <2>6, <2>7 DEF Next, Rest
<1> QED
  BY InitSchedules, <1>1, PTL DEF Spec

\* The activation times do not drift and are well formed, for every period,
\* every start and however late the turns are, and no sample precedes its time.
THEOREM ActivationCorrect == Spec => []ActivationExact
<1>1. ScheduleInv => ActivationExact
  BY DEF ScheduleInv, ActivationExact, Turns, DueTime
<1> QED
  BY ScheduleInvariance, <1>1, PTL

=============================================================================
