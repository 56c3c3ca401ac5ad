-------------------------------- MODULE Task1 --------------------------------
(***************************************************************************)
(* task1_lsm9ds1: when its turns are due (ImuSchedule), what the detector  *)
(* finds in their samples (AccidentDetection) and which sample the latency *)
(* is measured from.  A turn is one action, since nobody else looks at its *)
(* locals; how its last steps interleave with the other tasks is modelled  *)
(* in BlackBox, where the latency start is any sample up to the accident.  *)
(***************************************************************************)
EXTENDS AccidentDetection, Integers

CONSTANTS
  Second, Period,   \* nanoseconds in a second, SAMPLE_PERIOD_NS
  MaxTime           \* bound: when the clock stops

ASSUME ScheduleAssumption ==
  {Second, Period} \subseteq Nat \ {0} /\ MaxTime \in Nat

VARIABLES
  stamps,            \* timestamps of the samples so far
  threshold_start,   \* impact_ and rollover_threshold_start_ns, 0 for none
  latency_start, detection,   \* what is stored for task 2
  task,              \* "sampling", "notifying" or "failed"
  now,               \* CLOCK_MONOTONIC, in nanoseconds
  next_activation, at, start   \* the schedule: see ImuSchedule

Schedule == INSTANCE ImuSchedule

clock == <<now, next_activation, at, start>>
work == <<count, detected, event, history, stamps, threshold_start,
          latency_start, detection>>
vars == <<work, task, clock>>

-----------------------------------------------------------------------------

Init ==
  /\ DetectorInit
  /\ Schedule!Init
  /\ threshold_start = [k \in Kind |-> 0]
  /\ latency_start = 0 /\ detection = 0
  /\ task = "sampling"

\* Where the current run of samples above the threshold began.
StartAfter(since, above, time) ==
  IF above THEN (IF since = 0 THEN time ELSE since) ELSE 0

\* Mutant: any run above the impact threshold counts.
LatencyStartAny(time) ==
  IF threshold_start'["impact"] # 0 THEN threshold_start'["impact"]
  ELSE IF threshold_start'["rollover"] # 0 THEN threshold_start'["rollover"]
  ELSE time

\* The start of the run that confirmed the accident, an impact first.
LatencyStart(time) ==
  IF "impact" \in event' /\ threshold_start'["impact"] # 0
  THEN threshold_start'["impact"]
  ELSE IF "rollover" \in event' /\ threshold_start'["rollover"] # 0
  THEN threshold_start'["rollover"]
  ELSE time

\* What a turn does with its sample.
Sample(above, time) ==
  /\ Update(above)
  /\ stamps' = Append(stamps, time)
  /\ threshold_start' =
       [k \in Kind |-> StartAfter(threshold_start[k], k \in above, time)]
  /\ IF event' # {}
     THEN /\ detection' = time
          /\ latency_start' = LatencyStart(time)
          /\ task' = "notifying"
     ELSE UNCHANGED <<detection, latency_start, task>>

Turn ==
  /\ task = "sampling" /\ Len(history) < MaxSamples
  /\ Schedule!Sample
  /\ \E above \in SUBSET Kind : Sample(above, now)

\* The end of a turn without an accident.
Rest ==
  /\ task = "sampling"
  /\ Schedule!AddNanoseconds \/ Schedule!Carry \/ Schedule!Sleep
  /\ UNCHANGED <<work, task>>

Wake ==
  /\ task = "sampling"
  /\ Schedule!Wake
  /\ task' = IF at' = "failed" THEN "failed" ELSE task
  /\ UNCHANGED work

TimePasses == Schedule!TimePasses /\ UNCHANGED <<work, task>>

\* The sensor, a clock, the write or the sleep fails.
Fail ==
  /\ task = "sampling" /\ at \in {"sample", "asleep"}
  /\ task' = "failed"
  /\ UNCHANGED <<work, clock>>

Next == Turn \/ Rest \/ Wake \/ TimePasses \/ Fail

Spec == Init /\ [][Next]_vars

-----------------------------------------------------------------------------

\* Every variable has its type, and the detector and task 1, which test the same
\* threshold on their own, agree on whether a run is going on.
TypeOK ==
  /\ DetectorTypeOK
  /\ now \in Nat \ {0}
  /\ stamps \in Seq(Nat \ {0}) /\ Len(stamps) = Len(history)
  /\ threshold_start \in [Kind -> Nat]
  /\ \A k \in Kind : threshold_start[k] = 0 <=> count[k] = 0
  /\ latency_start \in Nat /\ detection \in Nat
  /\ task \in {"sampling", "notifying", "failed"}

\* The n-th sample began the unbroken run of kind k that lasts until now.
BeganRun(k, n) ==
  /\ \A i \in n .. Len(history) : k \in history[i]
  /\ n > 1 => k \notin history[n - 1]

\* The latency handed to task 2 is counted from the first sample of the very run
\* that confirmed the accident, the impact's if both were confirmed at once;
\* runs that were broken off, or that only overlap it, do not matter.
LatencyStartExact ==
  task = "notifying" =>
    /\ detection = stamps[Len(stamps)]
    /\ LET kind == IF "impact" \in event THEN "impact" ELSE "rollover"
       IN  \E n \in 1 .. Len(history) :
             BeganRun(kind, n) /\ latency_start = stamps[n]

\* Task 1 sleeps until a well-formed time that lies as many periods after its
\* start as it has taken samples, however late its turns were: the schedule
\* does not drift, and the sleep is not refused.  Turns that were missed are
\* made up for at once, but no sample is ever taken ahead of its time.
ActivationExact ==
  /\ at # "failed"
  /\ at = "asleep" => /\ next_activation.nsec < Second
                      /\ Schedule!Time(next_activation) =
                           start + Len(stamps) * Period
  /\ \A n \in 1 .. Len(stamps) : stamps[n] >= start + (n - 1) * Period


=============================================================================
