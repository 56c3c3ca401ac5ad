----------------------------- MODULE ImageService -----------------------------
(***************************************************************************)
(* What the camera service promises to its caller and to main, without its *)
(* thread, buffers, flags and deadline: there is one picture memory.  It   *)
(* is drawn in only while it is not lent; a call may end with the memory   *)
(* lent, after a picture was served for it, or with nothing; a picture is  *)
(* lent once; a service that has been closed serves no more, and nothing   *)
(* is drawn in its memory once that is gone.  CameraCapture implements it. *)
(***************************************************************************)

VARIABLES
  open,       \* the service has not been told to close
  call,       \* "none", "asked" or "served"
  memory,     \* what it holds: "empty", "picture" or "lent", a picture given out
  freed,      \* the memory is gone
  lent        \* the caller has the memory

service_vars == <<open, call, memory, freed, lent>>

ServiceInit ==
  /\ open = TRUE /\ call = "none"
  /\ memory = "empty" /\ freed = FALSE /\ lent = FALSE

\* Whoever asks gives back what an earlier call has lent.
Ask ==
  /\ open /\ call = "none"
  /\ call' = "asked" /\ lent' = FALSE
  /\ UNCHANGED <<open, memory, freed>>

Refuse ==
  /\ call = "none" /\ lent' = FALSE
  /\ UNCHANGED <<open, call, memory, freed>>

\* Also for a call that is over, or one that comes before the drawing is done.
Draw ==
  /\ ~lent /\ call # "served" /\ ~freed
  /\ memory' = "picture"
  /\ UNCHANGED <<open, call, freed, lent>>

Serve ==
  /\ open /\ call = "asked" /\ memory = "picture"
  /\ call' = "served"
  /\ UNCHANGED <<open, memory, freed, lent>>

Lend ==
  /\ open /\ call = "served"
  /\ call' = "none" /\ memory' = "lent" /\ lent' = TRUE
  /\ UNCHANGED <<open, freed>>

\* A failure, a cancellation, or a deadline, though the picture may be there.
Decline ==
  /\ call # "none" /\ call' = "none"
  /\ UNCHANGED <<open, memory, freed, lent>>

\* A call in progress will not be served any more.
Shut ==
  /\ open /\ open' = FALSE
  /\ call' = IF call = "none" THEN "none" ELSE "asked"
  /\ UNCHANGED <<memory, freed, lent>>

Free ==
  /\ ~open /\ freed' = TRUE
  /\ UNCHANGED <<open, call, memory, lent>>

ServiceNext ==
  Ask \/ Refuse \/ Draw \/ Serve \/ Lend \/ Decline \/ Shut \/ Free

ServiceSpec == ServiceInit /\ [][ServiceNext]_service_vars

=============================================================================
