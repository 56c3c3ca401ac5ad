---------------------------- MODULE CameraCapture ----------------------------
(***************************************************************************)
(* The camera service of camera_capture_v4l2.c after a successful          *)
(* camera_capture_init: the V4L2 driver filling buffers, the stream thread *)
(* draining them, one caller of camera_capture_snapshot (task 2), and      *)
(* camera_capture_deinit.                                                  *)
(*                                                                         *)
(* A section under capture_mutex is one action; a broadcast moves the      *)
(* waiting caller to "woken", the deadline moves it to "timedout", and in  *)
(* both states it still has to get the mutex back.  The memcpy into the    *)
(* secure memory is in progress while the thread is at "copy".  poll and   *)
(* DQBUF are one step: only this thread dequeues, so a readable device     *)
(* stays readable.                                                         *)
(*                                                                         *)
(* What a frame shows is abstracted to whether the device completed it     *)
(* after the latest request (fresh) or before (stale).                     *)
(***************************************************************************)
EXTENDS Naturals, Sequences

CONSTANT BufferCount      \* MMAP buffers the driver granted, 2 to 4

ASSUME BufferCountAssumption == BufferCount \in 2 .. 4

VARIABLES
  queued, filled, lost,   \* buffers: empty in the driver, frames to dequeue,
                          \* and buffers whose QBUF failed
  stream, cur,            \* stream thread: where it is, freshness of its frame
  secure,                 \* what secure_image_memory holds
  capture_requested, capture_ready, capture_error, stop_stream_thread,
  client, image,          \* the caller, and the image its last call returned
  answered,               \* history: a frame was published since the request
  phase                   \* progress of camera_capture_deinit

device  == <<queued, filled, lost>>
flags   == <<capture_requested, capture_ready, capture_error>>
caller  == <<client, image, answered>>
vars    == <<queued, filled, lost, stream, cur, secure, capture_requested,
             capture_ready, capture_error, stop_stream_thread, client, image,
             answered, phase>>

Errors == {"none", "EIO", "EMSGSIZE", "ECANCELED"}

\* Where the thread owns a dequeued buffer.
Holding == {"look", "copy", "publish", "failsize", "qbuf"}

-----------------------------------------------------------------------------

Init ==
  /\ queued = BufferCount /\ filled = <<>> /\ lost = 0
  /\ stream = "check" /\ cur = FALSE
  /\ secure = "empty"
  /\ capture_requested = FALSE /\ capture_ready = FALSE
  /\ capture_error = "none" /\ stop_stream_thread = FALSE
  /\ client = "idle" /\ image = "none" /\ answered = FALSE
  /\ phase = "up"

\* pthread_cond_broadcast(&capture_cond)
Broadcast == client' = IF client = "wait" THEN "woken" ELSE client

\* The driver completes a frame into an empty buffer.
DeviceFill ==
  /\ phase \in {"up", "stopping"} /\ queued > 0
  /\ queued' = queued - 1
  /\ filled' = Append(filled, TRUE)
  /\ UNCHANGED <<lost, stream, cur, secure, flags, stop_stream_thread, caller,
                 phase>>

-----------------------------------------------------------------------------
\* camera_stream_thread

\* Mutant: the thread does not stop while a request is pending or a frame is
\* waiting.
AfterCheckIdleOnly ==
  IF stop_stream_thread /\ ~capture_requested /\ filled = <<>>
  THEN "exited" ELSE "poll"
AfterCheck == IF stop_stream_thread THEN "exited" ELSE "poll"

StreamCheck ==
  /\ stream = "check"
  /\ stream' = AfterCheck
  /\ UNCHANGED <<device, cur, secure, flags, stop_stream_thread, caller, phase>>

\* poll times out.
StreamNoFrame ==
  /\ stream = "poll" /\ filled = <<>>
  /\ stream' = "check"
  /\ UNCHANGED <<device, cur, secure, flags, stop_stream_thread, caller, phase>>

\* poll or DQBUF fails.
StreamDeviceError ==
  /\ stream = "poll"
  /\ stream' = "fail"
  /\ UNCHANGED <<device, cur, secure, flags, stop_stream_thread, caller, phase>>

StreamDequeue ==
  /\ stream = "poll" /\ filled # <<>>
  /\ cur' = Head(filled)
  /\ filled' = Tail(filled)
  /\ stream' = "look"
  /\ UNCHANGED <<queued, lost, secure, flags, stop_stream_thread, caller, phase>>

\* Mutant: a frame is copied whether or not one was asked for.
ShouldCaptureAlways == ~capture_ready
ShouldCapture == capture_requested /\ ~capture_ready

\* The frame is to be copied, has an impossible size, or is not wanted.
StreamLook ==
  /\ stream = "look"
  /\ stream' \in IF ShouldCapture THEN {"copy", "failsize"} ELSE {"qbuf"}
  /\ UNCHANGED <<device, cur, secure, flags, stop_stream_thread, caller, phase>>

StreamCopy ==
  /\ stream = "copy"
  /\ secure' = IF cur THEN "fresh" ELSE "stale"
  /\ stream' = "publish"
  /\ UNCHANGED <<device, cur, flags, stop_stream_thread, caller, phase>>

StreamPublish ==
  /\ stream = "publish"
  /\ stream' = "qbuf"
  /\ IF capture_requested
     THEN /\ capture_requested' = FALSE
          /\ capture_ready' = TRUE
          /\ capture_error' = "none"
          /\ answered' = TRUE
          /\ Broadcast
     ELSE UNCHANGED <<flags, client, answered>>
  /\ UNCHANGED <<device, cur, secure, stop_stream_thread, image, phase>>

\* Mutant: the failure is signalled only while a frame is ready.
FailureConcernsReady == capture_ready
FailureConcerns == capture_requested

\* Where the thread goes after a frame of impossible size.  Mutant: it
\* continues with the next frame, as after the other failures.
AfterBadSizeSkip == "check"
AfterBadSize == "qbuf"

\* signal_capture_failure
StreamFail ==
  /\ stream \in {"fail", "failsize"}
  /\ stream' = IF stream = "fail" THEN "check" ELSE AfterBadSize
  /\ IF FailureConcerns
     THEN /\ capture_requested' = FALSE
          /\ capture_ready' = FALSE
          /\ capture_error' = IF stream = "fail" THEN "EIO" ELSE "EMSGSIZE"
          /\ Broadcast
     ELSE UNCHANGED <<flags, client>>
  /\ UNCHANGED <<device, cur, secure, stop_stream_thread, image, answered, phase>>

StreamQbuf ==
  /\ stream = "qbuf"
  /\ stream' = "check"
  /\ queued' = queued + 1
  /\ UNCHANGED <<filled, lost, cur, secure, flags, stop_stream_thread, caller,
                 phase>>

AfterQbufFailure == "fail"

StreamQbufFails ==
  /\ stream = "qbuf"
  /\ stream' = AfterQbufFailure
  /\ lost' = lost + 1
  /\ UNCHANGED <<queued, filled, cur, secure, flags, stop_stream_thread, caller,
                 phase>>

StreamStep ==
  \/ StreamCheck \/ StreamNoFrame \/ StreamDeviceError \/ StreamDequeue
  \/ StreamLook \/ StreamCopy \/ StreamPublish \/ StreamFail
  \/ StreamQbuf \/ StreamQbufFails

-----------------------------------------------------------------------------
\* camera_capture_snapshot

\* deinit clears the fields the ENODEV test reads without the mutex, so until
\* it takes the mutex again a caller may see them either way.
Available   == phase \in {"up", "stopping", "released"}
Unavailable == phase \in {"released", "down"}

\* ENODEV, or EBUSY while a request is pending.
SnapshotRefused ==
  /\ client = "idle"
  /\ Unavailable \/ capture_requested
  /\ image' = "none"
  /\ UNCHANGED <<device, stream, cur, secure, flags, stop_stream_thread, client,
                 answered, phase>>

\* Everything the device completed so far is stale for the new request.
AgeFrames ==
  /\ filled' = [i \in DOMAIN filled |-> FALSE]
  /\ cur' = FALSE
  /\ secure' = IF secure = "fresh" THEN "stale" ELSE secure

\* Mutant: capture_ready keeps the value the previous call left.
ReadyAtRequestKept == capture_ready
ReadyAtRequest == FALSE

\* The request is made and the loop entered.
SnapshotRequest ==
  /\ client = "idle" /\ Available
  /\ ~capture_requested /\ ~stop_stream_thread
  /\ capture_requested' = TRUE
  /\ capture_ready' = ReadyAtRequest
  /\ capture_error' = "none"
  /\ client' = IF ReadyAtRequest THEN "woken" ELSE "wait"
  /\ image' = "none" /\ answered' = FALSE
  /\ AgeFrames
  /\ UNCHANGED <<queued, lost, stream, stop_stream_thread, phase>>

\* clock_gettime fails: the request just made is withdrawn and the call fails.
SnapshotClockFails ==
  /\ client = "idle" /\ Available
  /\ ~capture_requested
  /\ capture_requested' = FALSE
  /\ capture_ready' = FALSE
  /\ capture_error' = "none"
  /\ image' = "none" /\ answered' = FALSE
  /\ AgeFrames
  /\ UNCHANGED <<queued, lost, stream, stop_stream_thread, client, phase>>

\* deinit has begun: the loop is not entered, the call returns ECANCELED.
SnapshotCanceled ==
  /\ client = "idle" /\ Available
  /\ ~capture_requested /\ stop_stream_thread
  /\ capture_requested' = FALSE
  /\ capture_ready' = FALSE
  /\ capture_error' = "none"
  /\ image' = "none" /\ answered' = FALSE
  /\ AgeFrames
  /\ UNCHANGED <<queued, lost, stream, stop_stream_thread, client, phase>>

\* The deadline passes in pthread_cond_timedwait.
DeadlinePasses ==
  /\ client = "wait"
  /\ client' = "timedout"
  /\ UNCHANGED <<device, stream, cur, secure, flags, stop_stream_thread, image,
                 answered, phase>>

SpuriousWakeup ==
  /\ client = "wait"
  /\ client' = "woken"
  /\ UNCHANGED <<device, stream, cur, secure, flags, stop_stream_thread, image,
                 answered, phase>>

\* Mutants: the request is not withdrawn; the caller goes on waiting.
RequestAfterTimeoutKept == capture_requested
RequestAfterTimeout == FALSE
ClientAfterTimeoutWaits == "wait"
ClientAfterTimeout == "idle"

\* ETIMEDOUT, without another look at capture_ready.
SnapshotTimedOut ==
  /\ client = "timedout"
  /\ capture_requested' = RequestAfterTimeout
  /\ client' = ClientAfterTimeout
  /\ UNCHANGED <<device, stream, cur, secure, capture_ready, capture_error,
                 stop_stream_thread, image, answered, phase>>

\* The loop condition still holds: wait again.
SnapshotWaitAgain ==
  /\ client = "woken"
  /\ ~capture_ready /\ capture_error = "none" /\ ~stop_stream_thread
  /\ client' = "wait"
  /\ UNCHANGED <<device, stream, cur, secure, flags, stop_stream_thread, image,
                 answered, phase>>

SnapshotFails ==
  /\ client = "woken" /\ capture_error # "none"
  /\ capture_requested' = FALSE
  /\ capture_ready' = FALSE
  /\ capture_error' = "none"
  /\ client' = "idle"
  /\ UNCHANGED <<device, stream, cur, secure, stop_stream_thread, image,
                 answered, phase>>

\* secure is marked given, so that a second return of the frame is seen.
SnapshotReturnsImage ==
  /\ client = "woken" /\ capture_error = "none" /\ capture_ready
  /\ image' = secure
  /\ secure' = "given"
  /\ capture_ready' = FALSE
  /\ client' = "idle"
  /\ UNCHANGED <<device, stream, cur, capture_requested, capture_error,
                 stop_stream_thread, answered, phase>>

SnapshotResume ==
  \/ SnapshotTimedOut \/ SnapshotWaitAgain
  \/ SnapshotFails \/ SnapshotReturnsImage

-----------------------------------------------------------------------------
\* camera_capture_deinit

DeinitStop ==
  /\ phase = "up"
  /\ phase' = "stopping"
  /\ stop_stream_thread' = TRUE
  /\ capture_requested' = FALSE
  /\ capture_ready' = FALSE
  /\ capture_error' = "ECANCELED"
  /\ Broadcast
  /\ UNCHANGED <<device, stream, cur, secure, image, answered>>

\* Mutant: deinit does not wait for the thread.
ThreadJoinedNever == TRUE
ThreadJoined == stream = "exited"

\* pthread_join, then STREAMOFF, munmap, free of the secure memory, close.
DeinitRelease ==
  /\ phase = "stopping" /\ ThreadJoined
  /\ phase' = "released"
  /\ queued' = 0 /\ filled' = <<>>
  /\ UNCHANGED <<lost, stream, cur, secure, flags, stop_stream_thread, caller>>

DeinitReset ==
  /\ phase = "released"
  /\ phase' = "down"
  /\ stop_stream_thread' = FALSE
  /\ capture_requested' = FALSE
  /\ capture_ready' = FALSE
  /\ capture_error' = "none"
  /\ UNCHANGED <<device, stream, cur, secure, caller>>

-----------------------------------------------------------------------------

Next ==
  \/ DeviceFill
  \/ StreamStep
  \/ SnapshotRefused \/ SnapshotRequest \/ SnapshotCanceled \/ SnapshotClockFails
  \/ DeadlinePasses \/ SpuriousWakeup
  \/ SnapshotResume
  \/ DeinitStop \/ DeinitRelease \/ DeinitReset

Spec == Init /\ [][Next]_vars

\* The sensor keeps completing frames, threads that can run do run; nothing
\* makes a caller come, the deadline pass or deinit start.
FairSpec ==
  /\ Spec
  /\ WF_vars(DeviceFill)
  /\ WF_vars(StreamStep)
  /\ WF_vars(SnapshotResume)
  /\ WF_vars(DeinitRelease \/ DeinitReset)

-----------------------------------------------------------------------------

\* Every variable has its type.
TypeOK ==
  /\ queued \in 0 .. BufferCount
  /\ filled \in Seq(BOOLEAN) /\ Len(filled) <= BufferCount
  /\ lost \in 0 .. BufferCount
  /\ stream \in {"check", "poll", "fail", "exited"} \cup Holding
  /\ cur \in BOOLEAN
  /\ secure \in {"empty", "fresh", "stale", "given"}
  /\ capture_requested \in BOOLEAN /\ capture_ready \in BOOLEAN
  /\ capture_error \in Errors /\ stop_stream_thread \in BOOLEAN
  /\ client \in {"idle", "wait", "woken", "timedout"}
  /\ image \in {"none", "empty", "fresh", "stale", "given"}
  /\ answered \in BOOLEAN
  /\ phase \in {"up", "stopping", "released", "down"}

\* camera_capture_snapshot returns a pointer into the one secure buffer: the
\* stream thread neither changes it nor is copying over it until the caller
\* asks for another frame.
ImageStable ==
  client = "idle" /\ image # "none" => secure = "given" /\ stream # "copy"

\* An image a call returns was published in answer to that call, and is not the
\* one an earlier call returned: a frame published after a timeout is not
\* mistaken for the answer to the next call.
ImageAnswersCall ==
  client = "idle" /\ image # "none" => answered /\ image \in {"fresh", "stale"}

\* Whatever way a call ends (image, error, timeout, cancellation), its request
\* is withdrawn: the next call is never refused with EBUSY.
NeverBusy == client = "idle" => ~capture_requested

\* Every buffer is in the driver or in the thread's hands, but for those whose
\* QBUF failed: "continuous streaming never stops" needs every path of the loop
\* to return its buffer.
BuffersConserved ==
  phase \in {"up", "stopping"} =>
    queued + Len(filled) + lost + (IF stream \in Holding THEN 1 ELSE 0)
      = BufferCount

\* The one memory, what it holds and who has it.
Service == INSTANCE ImageService WITH
  open   <- phase = "up",
  call   <- IF client = "idle" THEN "none"
            ELSE IF capture_ready THEN "served" ELSE "asked",
  memory <- IF secure \in {"fresh", "stale"} THEN "picture"
            ELSE IF secure = "given" THEN "lent" ELSE "empty",
  freed  <- phase \in {"released", "down"},
  lent   <- image # "none"

\* Thread, caller and deinit together implement the service: no interleaving of
\* the unlocked copy, a timeout, a late frame and the cancellation draws in a
\* memory that is lent or freed, lends a picture twice or one that was not
\* served for the call.
ImplementsService == Service!ServiceSpec

\* The comment of camera_capture_snapshot: it "requests the NEXT fresh frame
\* after this call".
ImageFresh == client = "idle" => image # "stale"

\* While buffers remain a request does not depend on its deadline: the stream
\* thread answers it with a frame or a failure.
RequestAnswered ==
  capture_requested ~> (~capture_requested \/ lost = BufferCount)

\* Time passes: a wait that is entered again and again meets its deadline.  Then
\* a call returns, even when every buffer is lost, the thread is gone or a
\* cancellation was overtaken by the reset that ends deinit.
SnapshotReturns ==
  SF_vars(DeadlinePasses) => ((client # "idle") ~> (client = "idle"))

\* deinit gets its thread joined whatever the thread and the caller are doing.
DeinitCompletes == (phase = "stopping") ~> (phase = "down")

=============================================================================
