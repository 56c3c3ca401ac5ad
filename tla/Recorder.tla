------------------------------- MODULE Recorder -------------------------------
(***************************************************************************)
(* What the recorder promises, without its tasks, files and devices: it    *)
(* monitors, it may detect one accident, and what it may then keep is the  *)
(* newest samples up to that accident.  BlackBox implements it.  A record  *)
(* may fail to be made, and the recorder may stop or lose its power at any *)
(* moment; it starts again with nothing of before in what it monitors.     *)
(***************************************************************************)
EXTENDS Naturals, Sequences

CONSTANTS
  Retained,       \* how many samples a record has at most
  MaxSamples,     \* bound: samples taken in a behaviour
  MaxRuns         \* bound: starts in a behaviour

VARIABLES
  phase,          \* "starting", "monitoring", "stopped", "accident" or "off"
  now, first,     \* latest sample; the first this run may take
  runs,           \* starts so far
  accident,       \* the sample that confirmed the accident, 0 without one
  record          \* the samples kept of it

vars == <<phase, now, first, runs, accident, record>>

Newest(from, to) ==
  LET oldest == IF to >= from + Retained THEN to - Retained + 1 ELSE from
  IN  [i \in 1 .. to + 1 - oldest |-> oldest + i - 1]

Init ==
  /\ phase = "starting" /\ now = 0 /\ first = 1 /\ runs = 1
  /\ accident = 0 /\ record = <<>>

Begin ==
  /\ phase = "starting" /\ phase' = "monitoring"
  /\ UNCHANGED <<now, first, runs, accident, record>>

Take ==
  /\ phase = "monitoring" /\ now < MaxSamples
  /\ now' = now + 1
  /\ UNCHANGED <<phase, first, runs, accident, record>>

\* Only a sample of this run can be an accident.
Detect ==
  /\ phase = "monitoring" /\ now >= first
  /\ phase' = "accident" /\ accident' = now
  /\ UNCHANGED <<now, first, runs, record>>

Stop ==
  /\ phase = "monitoring" /\ phase' = "stopped"
  /\ UNCHANGED <<now, first, runs, accident, record>>

\* The record is made once, and is complete.
Keep ==
  /\ phase = "accident" /\ record = <<>>
  /\ record' = Newest(first, accident)
  /\ UNCHANGED <<phase, now, first, runs, accident>>

PowerOff ==
  /\ phase # "off" /\ phase' = "off"
  /\ UNCHANGED <<now, first, runs, accident, record>>

PowerOn ==
  /\ phase = "off" /\ runs < MaxRuns
  /\ phase' = "starting" /\ runs' = runs + 1
  /\ first' = now + 1 /\ accident' = 0 /\ record' = <<>>
  /\ UNCHANGED now

Next == Begin \/ Take \/ Detect \/ Stop \/ Keep \/ PowerOff \/ PowerOn

Spec == Init /\ [][Next]_vars

=============================================================================
