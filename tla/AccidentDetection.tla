-------------------------- MODULE AccidentDetection --------------------------
(***************************************************************************)
(* The run counting of accident_detection_update.  A sample is the set of  *)
(* kinds of accident whose threshold it reaches: total acceleration for an *)
(* impact, tilt for a rollover (RolloverFilter models where the tilt comes *)
(* from).  Its caller is the module Task1.                                 *)
(***************************************************************************)
EXTENDS Naturals, Sequences

CONSTANTS
  ImpactRequired,     \* IMPACT_REQUIRED_SAMPLES
  RolloverRequired,   \* ROLLOVER_REQUIRED_SAMPLES
  MaxSamples          \* bound: samples in a behaviour

ASSUME RequiredAssumption ==
  ImpactRequired \in Nat \ {0} /\ RolloverRequired \in Nat \ {0}
ASSUME MaxSamplesAssumption == MaxSamples \in Nat

Kind == {"impact", "rollover"}

Required == [k \in Kind |-> IF k = "impact" THEN ImpactRequired
                                            ELSE RolloverRequired]

VARIABLES
  count,      \* impact_samples and rollover_samples
  detected,   \* the kinds whose flag is latched
  event,      \* the kinds the last call returned
  history     \* history: the samples so far

detector == <<count, detected, event, history>>

-----------------------------------------------------------------------------

DetectorInit ==
  /\ count = [k \in Kind |-> 0]
  /\ detected = {}
  /\ event = {}
  /\ history = <<>>

CountAfter(n, above) == IF above THEN n + 1 ELSE 0

\* Mutant: one sample too many is asked for.
LongEnoughStrict(n, required) == n > required
LongEnough(n, required) == n >= required

Update(above) ==
  /\ count' = [k \in Kind |-> CountAfter(count[k], k \in above)]
  /\ event' = {k \in Kind : LongEnough(count'[k], Required[k])} \ detected
  /\ detected' = detected \cup event'
  /\ history' = Append(history, above)

-----------------------------------------------------------------------------

\* Every variable has its type.
DetectorTypeOK ==
  /\ count \in [Kind -> 0 .. MaxSamples]
  /\ detected \subseteq Kind /\ event \subseteq Kind
  /\ history \in Seq(SUBSET Kind)

\* The samples that end at the n-th are enough consecutive ones of kind k.
Confirmed(k, n) ==
  /\ n >= Required[k]
  /\ \A i \in n + 1 - Required[k] .. n : k \in history[i]

\* An accident is reported exactly at the sample that completes the first run of
\* the required length: neither an interrupted run nor the other kind's samples
\* count.  A repetition would be swallowed by the latch, but task 1 takes no
\* sample after the first report, so that none is ever put to it.
EventExact ==
  event = {k \in Kind : /\ Confirmed(k, Len(history))
                        /\ \A n \in 1 .. Len(history) - 1 : ~Confirmed(k, n)}

=============================================================================
