------------------------------ MODULE CrashLog ------------------------------
(***************************************************************************)
(* What the crash buffer device promises to its users, free of the way it  *)
(* stores samples: a log of the newest Capacity samples, oldest first,     *)
(* which can be frozen (samples offered meanwhile are dropped) and reset.  *)
(* The driver, CrashBuffer, is shown to implement it.                      *)
(***************************************************************************)
EXTENDS Naturals, Sequences

CONSTANTS
  Capacity,   \* how many samples the log retains
  Sample      \* the samples that may be offered

VARIABLES
  log,        \* the retained samples, oldest first
  frozen      \* no sample is recorded while TRUE

logVars == <<log, frozen>>

-----------------------------------------------------------------------------

LogInit ==
  /\ log = <<>>
  /\ frozen = FALSE

\* The newest Capacity samples of the log extended with s.
Extended(s) ==
  IF Len(log) < Capacity THEN Append(log, s) ELSE Append(Tail(log), s)

Record(s) ==
  /\ ~frozen
  /\ log' = Extended(s)
  /\ UNCHANGED frozen

Freeze ==
  /\ frozen' = TRUE
  /\ UNCHANGED log

Reset ==
  /\ log' = <<>>
  /\ frozen' = FALSE

LogNext ==
  \/ \E s \in Sample : Record(s)
  \/ Freeze
  \/ Reset

LogSpec == LogInit /\ [][LogNext]_logVars

=============================================================================
