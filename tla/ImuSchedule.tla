----------------------------- MODULE ImuSchedule -----------------------------
(***************************************************************************)
(* The periodic activation of task 1: an absolute time that add_nanoseconds *)
(* moves on by one period, with a carry into the seconds, and that          *)
(* clock_nanosleep waits for.  Time passes at any step, so that the work of *)
(* one turn may outlast its period; what the turn does is in Task1.         *)
(***************************************************************************)
EXTENDS Integers, Sequences

CONSTANTS
  Second,    \* nanoseconds in a second
  Period,    \* SAMPLE_PERIOD_NS
  MaxTime    \* bound: when the clock stops

VARIABLES
  now,                \* CLOCK_MONOTONIC, in nanoseconds
  next_activation,    \* a struct timespec
  at,                 \* step of the loop
  start,              \* history: the first activation
  stamps              \* history: timestamps of the samples so far

Timespec(time) == [sec |-> time \div Second, nsec |-> time % Second]
Time(t) == t.sec * Second + t.nsec

-----------------------------------------------------------------------------

Init ==
  /\ now \in 1 .. Second
  /\ next_activation = Timespec(now)
  /\ at = "sample"
  /\ start = now /\ stamps = <<>>

TimePasses ==
  /\ now < MaxTime /\ now' = now + 1
  /\ UNCHANGED <<next_activation, at, start, stamps>>

Sample ==
  /\ at = "sample" /\ at' = "add"
  /\ stamps' = Append(stamps, now)
  /\ UNCHANGED <<now, next_activation, start>>

Added(t) == [t EXCEPT !.nsec = @ + Period]

AddNanoseconds ==
  /\ at = "add" /\ at' = "carry"
  /\ next_activation' = Added(next_activation)
  /\ UNCHANGED <<now, start, stamps>>

\* Mutant: a full second is not carried.
MustCarryAbove(t) == t.nsec > Second
MustCarry(t) == t.nsec >= Second

Carry ==
  /\ at = "carry" /\ MustCarry(next_activation)
  /\ next_activation' = [sec |-> next_activation.sec + 1,
                         nsec |-> next_activation.nsec - Second]
  /\ UNCHANGED <<now, at, start, stamps>>

Sleep ==
  /\ at = "carry" /\ ~MustCarry(next_activation)
  /\ at' = "asleep"
  /\ UNCHANGED <<now, next_activation, start, stamps>>

Due(t) == now >= Time(t)

\* clock_nanosleep returns at once for a time that has passed, and fails with
\* EINVAL for one that is not normalised.
Wake ==
  /\ at = "asleep" /\ Due(next_activation)
  /\ at' = IF next_activation.nsec < Second THEN "sample" ELSE "failed"
  /\ UNCHANGED <<now, next_activation, start, stamps>>

=============================================================================
