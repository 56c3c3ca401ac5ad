----------------------------- MODULE ImageProofs -----------------------------
(***************************************************************************)
(* The image, from the driver's buffers to the colours that are saved.     *)
(*                                                                         *)
(* First the camera service (CameraCapture), for every number of buffers   *)
(* and any number of calls.  The argument: a frame is ready only after its *)
(* request was taken back (ReadyOnce), and nothing is ready while the      *)
(* thread copies or is about to publish (CopyUnready); so when a call      *)
(* returns an image, the thread is not copying, and it does not start to   *)
(* before the next request, since a caller that is not in a call has no    *)
(* request pending (NeverBusy).                                            *)
(*                                                                         *)
(* Then the conversion (Demosaic), for every scene of every size and every *)
(* frame.  The argument: what passes the check is packed with the stride   *)
(* the program assumes (FrameOfScene), a sample is where the program reads *)
(* it (SampleInFrame), and every case of the conversion is a mean of known *)
(* samples.                                                                *)
(***************************************************************************)
EXTENDS Integers, CameraCapture, Demosaic, TLAPS

ReadyOnce == capture_ready => ~capture_requested

CopyUnready == stream \in {"copy", "publish"} => ~capture_ready

PublishFilled == stream = "publish" => secure \in {"fresh", "stale"}

ReadyIsAnswer ==
  capture_ready /\ client # "idle" => answered /\ secure \in {"fresh", "stale"}

NoImageInCall == client # "idle" => image = "none"

ThreadGone == phase \in {"released", "down"} => stream = "exited"

\* The part about the buffers, and the part about requests and images.
BufferInv == TypeOK /\ BuffersConserved /\ ThreadGone

RequestInv ==
  /\ NeverBusy /\ ImageStable /\ ImageAnswersCall
  /\ ReadyOnce /\ CopyUnready /\ PublishFilled /\ ReadyIsAnswer
  /\ NoImageInCall

\* The inductive invariant.
IInv == BufferInv /\ RequestInv

-----------------------------------------------------------------------------

LEMMA InitIInv == Init => IInv
<1> SUFFICES ASSUME Init PROVE IInv
  OBVIOUS
<1>1. BufferInv
  <2>1. filled \in Seq(BOOLEAN) /\ Len(filled) = 0
    BY DEF Init
  <2>2. BufferCount \in Nat
    BY BufferCountAssumption
  <2>3. queued \in 0 .. BufferCount /\ lost \in 0 .. BufferCount
    BY <2>2 DEF Init
  <2>4. /\ stream \in {"check", "poll", "fail", "exited"} \cup Holding
        /\ secure \in {"empty", "fresh", "stale", "given"}
        /\ client \in {"idle", "wait", "woken", "timedout"}
        /\ image \in {"none", "empty", "fresh", "stale", "given"}
        /\ phase \in {"up", "stopping", "released", "down"}
    BY DEF Init
  <2>5. /\ cur \in BOOLEAN /\ answered \in BOOLEAN
        /\ capture_requested \in BOOLEAN /\ capture_ready \in BOOLEAN
        /\ capture_error \in Errors /\ stop_stream_thread \in BOOLEAN
    BY DEF Init, Errors
  <2>6. TypeOK
    BY <2>1, <2>2, <2>3, <2>4, <2>5 DEF TypeOK
  <2>7. stream \notin Holding
    BY DEF Init, Holding
  <2> QED
    BY <2>1, <2>2, <2>6, <2>7 DEF Init, BufferInv, BuffersConserved, ThreadGone
<1>2. RequestInv
  BY DEF Init, RequestInv, NeverBusy, ImageStable, ImageAnswersCall, ReadyOnce,
         CopyUnready, PublishFilled, ReadyIsAnswer, NoImageInCall
<1> QED BY <1>1, <1>2 DEF IInv

-----------------------------------------------------------------------------
\* The buffers.

\* A step that leaves the buffers, the thread and deinit alone.
LEMMA BuffersUntouched ==
  ASSUME BufferInv, UNCHANGED <<device, stream, phase>>, TypeOK'
  PROVE  BufferInv'
BY DEF BufferInv, BuffersConserved, ThreadGone, device

\* A step of the thread that keeps its buffer, or goes on without one.
LEMMA ThreadMoves ==
  ASSUME BufferInv, UNCHANGED <<device, phase>>, TypeOK', stream # "exited",
         stream \in Holding <=> stream' \in Holding
  PROVE  BufferInv'
BY DEF BufferInv, BuffersConserved, ThreadGone, device

LEMMA BufferStep ==
  ASSUME IInv, [Next]_vars PROVE BufferInv'
<1> USE BufferCountAssumption
<1>1. BufferInv
  BY DEF IInv
<1>2. CASE DeviceFill
  <2>1. /\ Append(filled, TRUE) \in Seq(BOOLEAN)
        /\ Len(Append(filled, TRUE)) = Len(filled) + 1
    BY <1>1 DEF BufferInv, TypeOK
  <2> QED
    BY <1>1, <1>2, <2>1
       DEF DeviceFill, BufferInv, TypeOK, BuffersConserved, ThreadGone, Holding,
           flags, caller
<1>3. CASE StreamCheck
  <2>1. TypeOK'
    BY <1>1, <1>3 DEF BufferInv, TypeOK, StreamCheck, AfterCheck, device, flags,
                      caller
  <2> QED
    BY <1>1, <1>3, <2>1, ThreadMoves DEF StreamCheck, AfterCheck, Holding
<1>4. CASE StreamNoFrame \/ StreamDeviceError
  <2>1. TypeOK'
    BY <1>1, <1>4 DEF BufferInv, TypeOK, StreamNoFrame, StreamDeviceError,
                      device, flags, caller
  <2> QED
    BY <1>1, <1>4, <2>1, ThreadMoves
       DEF StreamNoFrame, StreamDeviceError, Holding
<1>5. CASE StreamDequeue
  <2>1. /\ Tail(filled) \in Seq(BOOLEAN) /\ Head(filled) \in BOOLEAN
        /\ Len(Tail(filled)) = Len(filled) - 1
        /\ Len(filled) \in Nat \ {0}
    BY <1>1, <1>5 DEF BufferInv, TypeOK, StreamDequeue
  <2> QED
    BY <1>1, <1>5, <2>1
       DEF StreamDequeue, BufferInv, TypeOK, BuffersConserved, ThreadGone,
           Holding, flags, caller
<1>6. CASE StreamLook
  <2>1. TypeOK'
    BY <1>1, <1>6 DEF BufferInv, TypeOK, StreamLook, Holding, device, flags,
                      caller
  <2> QED
    BY <1>1, <1>6, <2>1, ThreadMoves DEF StreamLook, Holding
<1>7. CASE StreamCopy
  <2>1. TypeOK'
    BY <1>1, <1>7 DEF BufferInv, TypeOK, StreamCopy, Holding, device, flags,
                      caller
  <2> QED
    BY <1>1, <1>7, <2>1, ThreadMoves DEF StreamCopy, Holding
<1>8. CASE StreamPublish
  <2>1. /\ UNCHANGED <<device, cur, secure, stop_stream_thread, image, phase>>
        /\ stream' = "qbuf"
    BY <1>8 DEF StreamPublish
  <2>2. client' \in {"idle", "wait", "woken", "timedout"}
    BY <1>1, <1>8 DEF BufferInv, TypeOK, StreamPublish, Broadcast
  <2>3. /\ capture_requested' \in BOOLEAN /\ capture_ready' \in BOOLEAN
        /\ capture_error' \in Errors /\ answered' \in BOOLEAN
    BY <1>1, <1>8 DEF BufferInv, TypeOK, StreamPublish, Errors, flags
  <2>4. TypeOK'
    BY <1>1, <2>1, <2>2, <2>3 DEF BufferInv, TypeOK, Holding, device
  <2> QED
    BY <1>1, <1>8, <2>1, <2>4, ThreadMoves DEF StreamPublish, Holding
<1>9. CASE StreamFail
  <2>1. /\ UNCHANGED <<device, cur, secure, stop_stream_thread, image, answered,
                        phase>>
        /\ stream' \in {"check", "qbuf"}
    BY <1>9 DEF StreamFail, AfterBadSize
  <2>2. client' \in {"idle", "wait", "woken", "timedout"}
    BY <1>1, <1>9 DEF BufferInv, TypeOK, StreamFail, Broadcast
  <2>3. /\ capture_requested' \in BOOLEAN /\ capture_ready' \in BOOLEAN
        /\ capture_error' \in Errors
    BY <1>1, <1>9 DEF BufferInv, TypeOK, StreamFail, Errors, flags
  <2>4. TypeOK'
    BY <1>1, <2>1, <2>2, <2>3 DEF BufferInv, TypeOK, Holding, device
  <2> QED
    BY <1>1, <1>9, <2>1, <2>4, ThreadMoves DEF StreamFail, AfterBadSize, Holding
<1>10. CASE StreamQbuf \/ StreamQbufFails
  BY <1>1, <1>10
     DEF StreamQbuf, StreamQbufFails, AfterQbufFailure, BufferInv, TypeOK,
         BuffersConserved, ThreadGone, Holding, flags, caller
<1>11. CASE SnapshotRequest \/ SnapshotCanceled \/ SnapshotClockFails
  <2> DEFINE aged == [i \in DOMAIN filled |-> FALSE]
  <2>1. aged \in Seq(BOOLEAN) /\ Len(aged) = Len(filled)
    <3>1. DOMAIN filled = 1 .. Len(filled) /\ Len(filled) \in Nat
      BY <1>1 DEF BufferInv, TypeOK
    <3>2. aged \in [1 .. Len(filled) -> BOOLEAN]
      BY <3>1
    <3> QED BY <3>1, <3>2
  <2>2. filled' = aged /\ cur' = FALSE
        /\ secure' = IF secure = "fresh" THEN "stale" ELSE secure
    BY <1>11 DEF SnapshotRequest, SnapshotCanceled, SnapshotClockFails, AgeFrames
  <2> HIDE DEF aged
  <2>3. TypeOK'
    BY <1>1, <1>11, <2>1, <2>2
       DEF BufferInv, TypeOK, SnapshotRequest, SnapshotCanceled, SnapshotClockFails,
           ReadyAtRequest, Errors
  <2> QED
    BY <1>1, <1>11, <2>1, <2>2, <2>3
       DEF BufferInv, BuffersConserved, ThreadGone, SnapshotRequest,
           SnapshotCanceled, SnapshotClockFails
<1>12. CASE SnapshotRefused \/ DeadlinePasses \/ SpuriousWakeup
  <2>1. TypeOK'
    BY <1>1, <1>12 DEF BufferInv, TypeOK, SnapshotRefused, DeadlinePasses,
                       SpuriousWakeup, device, flags
  <2> QED
    BY <1>1, <1>12, <2>1, BuffersUntouched
       DEF SnapshotRefused, DeadlinePasses, SpuriousWakeup
<1>13. CASE SnapshotResume
  <2>1. UNCHANGED <<device, stream, cur, stop_stream_thread, answered, phase>>
    BY <1>13
       DEF SnapshotResume, SnapshotTimedOut, SnapshotWaitAgain, SnapshotFails,
           SnapshotReturnsImage
  <2>2. /\ client' \in {"idle", "wait"}
        /\ secure' \in {secure, "given"} /\ image' \in {image, secure}
    BY <1>13
       DEF SnapshotResume, SnapshotTimedOut, SnapshotWaitAgain, SnapshotFails,
           SnapshotReturnsImage, ClientAfterTimeout
  <2>3. /\ capture_requested' \in {capture_requested, FALSE}
        /\ capture_ready' \in {capture_ready, FALSE}
        /\ capture_error' \in {capture_error, "none"}
    BY <1>13
       DEF SnapshotResume, SnapshotTimedOut, SnapshotWaitAgain, SnapshotFails,
           SnapshotReturnsImage, RequestAfterTimeout, flags
  <2>4. secure' \in {"empty", "fresh", "stale", "given"}
        /\ image' \in {"none", "empty", "fresh", "stale", "given"}
    BY <1>1, <2>2 DEF BufferInv, TypeOK
  <2>5. /\ capture_requested' \in BOOLEAN /\ capture_ready' \in BOOLEAN
        /\ capture_error' \in Errors
    BY <1>1, <2>3 DEF BufferInv, TypeOK, Errors
  <2>6. TypeOK'
    BY <1>1, <2>1, <2>2, <2>4, <2>5 DEF BufferInv, TypeOK, device
  <2> QED
    BY <1>1, <2>1, <2>6, BuffersUntouched
<1>14. CASE DeinitStop
  BY <1>1, <1>14
     DEF DeinitStop, Broadcast, BufferInv, TypeOK, BuffersConserved, ThreadGone,
         Errors, device
<1>15. CASE DeinitRelease
  BY <1>1, <1>15
     DEF DeinitRelease, ThreadJoined, BufferInv, TypeOK, BuffersConserved,
         ThreadGone, flags, caller
<1>16. CASE DeinitReset
  BY <1>1, <1>16
     DEF DeinitReset, BufferInv, TypeOK, BuffersConserved, ThreadGone, Errors,
         device, caller
<1>17. CASE UNCHANGED vars
  <2>1. TypeOK'
    BY <1>1, <1>17 DEF BufferInv, TypeOK, vars
  <2> QED
    BY <1>1, <1>17, <2>1, BuffersUntouched DEF vars, device
<1> QED
  BY <1>2, <1>3, <1>4, <1>5, <1>6, <1>7, <1>8, <1>9, <1>10, <1>11, <1>12,
     <1>13, <1>14, <1>15, <1>16, <1>17
     DEF Next, StreamStep

-----------------------------------------------------------------------------
\* Requests and images.

LEMMA RequestStep ==
  ASSUME IInv, [Next]_vars PROVE RequestInv'
<1> USE DEF RequestInv, NeverBusy, ImageStable, ImageAnswersCall, ReadyOnce,
            CopyUnready, PublishFilled, ReadyIsAnswer, NoImageInCall
<1>1. RequestInv
  BY DEF IInv
<1>2. CASE DeviceFill
  BY <1>1, <1>2 DEF DeviceFill, flags, caller
<1>3. CASE StreamCheck \/ StreamNoFrame \/ StreamDeviceError
  BY <1>1, <1>3
     DEF StreamCheck, AfterCheck, StreamNoFrame, StreamDeviceError, flags, caller
<1>4. CASE StreamDequeue
  BY <1>1, <1>4 DEF StreamDequeue, flags, caller
<1>5. CASE StreamLook
  \* No request is pending when the caller is not in a call: nothing is copied.
  BY <1>1, <1>5 DEF StreamLook, ShouldCapture, flags, caller
<1>6. CASE StreamCopy
  BY <1>1, <1>6 DEF StreamCopy, flags, caller
<1>7. CASE StreamPublish
  <2>1. CASE capture_requested
    BY <1>1, <1>7, <2>1 DEF StreamPublish, Broadcast
  <2>2. CASE ~capture_requested
    BY <1>1, <1>7, <2>2 DEF StreamPublish, flags
  <2> QED BY <2>1, <2>2
<1>8. CASE StreamFail
  <2>1. CASE capture_requested
    BY <1>1, <1>8, <2>1 DEF StreamFail, FailureConcerns, AfterBadSize, Broadcast
  <2>2. CASE ~capture_requested
    BY <1>1, <1>8, <2>2 DEF StreamFail, FailureConcerns, AfterBadSize, flags
  <2> QED BY <2>1, <2>2
<1>9. CASE StreamQbuf \/ StreamQbufFails
  BY <1>1, <1>9 DEF StreamQbuf, StreamQbufFails, AfterQbufFailure, flags, caller
<1>10. CASE SnapshotRefused \/ DeadlinePasses \/ SpuriousWakeup
  BY <1>1, <1>10 DEF SnapshotRefused, DeadlinePasses, SpuriousWakeup, flags
<1>11. CASE SnapshotRequest \/ SnapshotCanceled \/ SnapshotClockFails
  <2>1. secure' = IF secure = "fresh" THEN "stale" ELSE secure
    BY <1>11 DEF SnapshotRequest, SnapshotCanceled, SnapshotClockFails, AgeFrames
  <2>2. /\ capture_ready' = FALSE /\ image' = "none" /\ stream' = stream
        /\ client' # "idle" \/ capture_requested' = FALSE
    BY <1>11 DEF SnapshotRequest, SnapshotCanceled, SnapshotClockFails, ReadyAtRequest
  <2> QED
    BY <1>1, <2>1, <2>2
<1>12. CASE SnapshotTimedOut
  BY <1>1, <1>12 DEF SnapshotTimedOut, RequestAfterTimeout, ClientAfterTimeout
<1>13. CASE SnapshotWaitAgain \/ SnapshotFails
  BY <1>1, <1>13 DEF SnapshotWaitAgain, SnapshotFails, flags
<1>14. CASE SnapshotReturnsImage
  \* The thread is not copying, and about to publish nothing: CopyUnready.
  BY <1>1, <1>14 DEF SnapshotReturnsImage
<1>15. CASE DeinitStop
  BY <1>1, <1>15 DEF DeinitStop, Broadcast
<1>16. CASE DeinitRelease \/ DeinitReset
  BY <1>1, <1>16 DEF DeinitRelease, DeinitReset, flags, caller
<1>17. CASE UNCHANGED vars
  BY <1>1, <1>17 DEF vars
<1> QED
  BY <1>2, <1>3, <1>4, <1>5, <1>6, <1>7, <1>8, <1>9, <1>10, <1>11, <1>12,
     <1>13, <1>14, <1>15, <1>16, <1>17
     DEF Next, StreamStep, SnapshotResume

-----------------------------------------------------------------------------

LEMMA Invariance == Spec => []IInv
<1>1. IInv /\ [Next]_vars => IInv'
  BY BufferStep, RequestStep DEF IInv
<1> QED
  BY InitIInv, <1>1, PTL DEF Spec

\* Every variable has its type, whatever the number of buffers.
THEOREM CameraTypeCorrect == Spec => []TypeOK
<1>1. IInv => TypeOK
  BY DEF IInv, BufferInv
<1> QED
  BY Invariance, <1>1, PTL

\* Every buffer is queued, filled, held by the thread or lost to a failed QBUF,
\* on every path of the stream loop.
THEOREM CameraBuffersReturn == Spec => []BuffersConserved
<1>1. IInv => BuffersConserved
  BY DEF IInv, BufferInv
<1> QED
  BY Invariance, <1>1, PTL

\* However a call of camera_capture_snapshot ends, its request is withdrawn: the
\* next call never meets EBUSY.
THEOREM CameraNeverBusy == Spec => []NeverBusy
<1>1. IInv => NeverBusy
  BY DEF IInv, RequestInv
<1> QED
  BY Invariance, <1>1, PTL

\* The stream thread leaves the image a call returned alone until the next call.
THEOREM CameraImageStable == Spec => []ImageStable
<1>1. IInv => ImageStable
  BY DEF IInv, RequestInv
<1> QED
  BY Invariance, <1>1, PTL

\* An image a call returns was published in answer to that call.
THEOREM CameraImageAnswers == Spec => []ImageAnswersCall
<1>1. IInv => ImageAnswersCall
  BY DEF IInv, RequestInv
<1> QED
  BY Invariance, <1>1, PTL

-----------------------------------------------------------------------------
(* The safety side of RequestAnswered and DeinitCompletes. *)

\* A caller waits for what is still to come: while a request is pending, for
\* the thread; without one only after deinit has ended, when its cancellation
\* was overtaken by the reset, and then the deadline is all that is left.
NoLostWakeup ==
  client = "wait" =>
    /\ ~capture_ready /\ capture_error = "none" /\ ~stop_stream_thread
    /\ capture_requested \/ phase = "down"

\* A caller that has been woken finds a frame or an error, or waits again, with
\* what NoLostWakeup says of it.
WokenForCause ==
  client = "woken" =>
    \/ capture_ready \/ capture_error # "none"
    \/ ~stop_stream_thread /\ (capture_requested \/ phase = "down")

\* A request is pending only while the thread lives and is not told to stop.
RequestHasThread ==
  capture_requested => phase = "up" /\ stream # "exited" /\ ~stop_stream_thread

\* While a request is pending and not every buffer is lost, there is a frame to
\* come: one is being filled, or waits, or is in the thread's hands.
RequestHasBuffer ==
  capture_requested /\ lost < BufferCount =>
    queued > 0 \/ filled # <<>> \/ stream \in Holding

\* The steps the thread takes at most before it looks at the stop flag again.
LoopLeft ==
  CASE stream = "poll" -> 6
    [] stream = "look" -> 5
    [] stream = "copy" -> 4
    [] stream \in {"publish", "failsize"} -> 3
    [] stream = "qbuf" -> 2
    [] stream = "fail" -> 1
    [] OTHER -> 0

\* Once deinit has set the flag, the thread's next look at it is its last.
HeadsForExit ==
  phase = "stopping" =>
    /\ stop_stream_thread
    /\ stream' = stream \/ stream' = "exited" \/ LoopLeft' < LoopLeft
    /\ stream = "check" => stream' \in {"check", "exited"}

\* What the wakeups rest on: the flag and the thread, by the progress of deinit.
FlagOfPhase ==
  /\ stop_stream_thread <=> phase \in {"stopping", "released"}
  /\ stream = "exited" => phase # "up"

\* No frame is ready once deinit has begun, and a call then in progress finds
\* its cancellation.
ReadyOpen == capture_ready => phase = "up"
StopSeen == stop_stream_thread /\ client # "idle" => capture_error # "none"

Wakeups ==
  /\ FlagOfPhase /\ NoLostWakeup /\ WokenForCause
  /\ RequestHasThread /\ ReadyOpen /\ StopSeen

\* Every step that gives a waiting caller something wakes it.
LEMMA WakeupsKept == IInv /\ Wakeups /\ [Next]_vars => Wakeups'
<1> SUFFICES ASSUME IInv, Wakeups, [Next]_vars PROVE Wakeups'
  OBVIOUS
<1> USE DEF Wakeups, FlagOfPhase, NoLostWakeup, RequestHasThread, WokenForCause,
            ReadyOpen, StopSeen
<1>0. /\ ThreadGone /\ NeverBusy /\ ReadyOnce /\ phase \in {"up", "stopping", "released", "down"}
      /\ stop_stream_thread \in BOOLEAN
  BY DEF IInv, BufferInv, TypeOK, RequestInv
<1>1. CASE DeviceFill \/ StreamNoFrame \/ StreamDeviceError \/ StreamDequeue
           \/ StreamLook \/ StreamCopy \/ StreamQbuf \/ StreamQbufFails
  <2>1. UNCHANGED <<flags, client, stop_stream_thread, phase>>
    BY <1>1
       DEF DeviceFill, StreamNoFrame, StreamDeviceError, StreamDequeue,
           StreamLook, StreamCopy, StreamQbuf, StreamQbufFails, caller
  <2>2. stream' = stream \/ stream' # "exited"
    BY <1>1
       DEF DeviceFill, StreamNoFrame, StreamDeviceError, StreamDequeue,
           StreamLook, StreamCopy, StreamQbuf, StreamQbufFails, AfterQbufFailure
  <2> QED
    BY <1>0, <2>1, <2>2 DEF flags
<1>2. CASE StreamCheck
  BY <1>0, <1>2 DEF StreamCheck, AfterCheck, flags, caller
<1>3. CASE StreamPublish
  BY <1>0, <1>3 DEF StreamPublish, Broadcast, flags
<1>4. CASE StreamFail
  BY <1>0, <1>4 DEF StreamFail, AfterBadSize, FailureConcerns, Broadcast, flags
<1>5. CASE SnapshotRefused \/ DeadlinePasses \/ SpuriousWakeup
  BY <1>0, <1>5 DEF SnapshotRefused, DeadlinePasses, SpuriousWakeup, flags
<1>6. CASE SnapshotRequest \/ SnapshotCanceled \/ SnapshotClockFails
  BY <1>0, <1>6 DEF SnapshotRequest, SnapshotCanceled, SnapshotClockFails,
                    ReadyAtRequest, Available,
                    ThreadGone
<1>7. CASE SnapshotTimedOut \/ SnapshotFails \/ SnapshotReturnsImage
  BY <1>0, <1>7 DEF SnapshotTimedOut, SnapshotFails, SnapshotReturnsImage,
                    ClientAfterTimeout, RequestAfterTimeout
<1>8. CASE SnapshotWaitAgain
  BY <1>0, <1>8 DEF SnapshotWaitAgain, flags
<1>9. CASE DeinitStop \/ DeinitRelease \/ DeinitReset
  BY <1>0, <1>9 DEF DeinitStop, Broadcast, DeinitRelease, DeinitReset, flags, caller
<1>10. CASE UNCHANGED vars
  BY <1>10 DEF vars
<1> QED
  BY <1>1, <1>2, <1>3, <1>4, <1>5, <1>6, <1>7, <1>8, <1>9, <1>10
     DEF Next, StreamStep, SnapshotResume

LEMMA WakeupInvariance == Spec => [](IInv /\ Wakeups)
<1>1. Init => Wakeups
  BY DEF Init, Wakeups, FlagOfPhase, NoLostWakeup, RequestHasThread,
         WokenForCause, ReadyOpen, StopSeen
<1> QED
  BY Invariance, WakeupsKept, <1>1, PTL DEF Spec

\* No wakeup is lost: a caller is never asleep while its frame is ready, its
\* request has failed or deinit has cancelled it, and one that is awake finds
\* one of these or is right to wait again.
THEOREM CameraWakesCaller == Spec => [](NoLostWakeup /\ WokenForCause)
<1>1. Wakeups => NoLostWakeup /\ WokenForCause
  BY DEF Wakeups
<1> QED
  BY WakeupInvariance, <1>1, PTL

\* A pending request has a living thread, and while buffers remain a frame to
\* come, so that it need not wait for its deadline.
THEOREM CameraCanAnswer == Spec => [](RequestHasThread /\ RequestHasBuffer)
<1>1. IInv /\ Wakeups => RequestHasThread /\ RequestHasBuffer
  <2> SUFFICES ASSUME IInv, Wakeups
               PROVE  RequestHasThread /\ RequestHasBuffer
    OBVIOUS
  <2>1. RequestHasThread
    BY DEF Wakeups
  <2>2. RequestHasBuffer
    <3> SUFFICES ASSUME capture_requested, lost < BufferCount, queued = 0,
                        filled = <<>>, stream \notin Holding
                 PROVE  FALSE
      BY DEF RequestHasBuffer, IInv, BufferInv, TypeOK
    <3>1. queued + Len(filled) + lost + 0 = BufferCount
      BY <2>1 DEF IInv, BufferInv, BuffersConserved, RequestHasThread
    <3> QED
      BY <3>1, BufferCountAssumption DEF IInv, BufferInv, TypeOK
  <2> QED
    BY <2>1, <2>2
<1> QED
  BY WakeupInvariance, <1>1, PTL

\* When deinit has set its flag the thread ends within seven of its steps,
\* whatever the device and the caller do: the join in deinit is answered.
THEOREM CameraThreadStops == Spec => [](LoopLeft \in 0 .. 6) /\ [][HeadsForExit]_vars
<1>1. LoopLeft \in 0 .. 6
  BY DEF LoopLeft
<1>2. IInv /\ Wakeups /\ [Next]_vars => [HeadsForExit]_vars
  <2> SUFFICES ASSUME Wakeups, Next, phase = "stopping"
               PROVE  /\ stream' = stream \/ stream' = "exited" \/ LoopLeft' < LoopLeft
                      /\ stream = "check" => stream' \in {"check", "exited"}
                      /\ stop_stream_thread
    BY DEF HeadsForExit
  <2>0. stop_stream_thread
    BY DEF Wakeups, FlagOfPhase
  <2>1. CASE StreamLook
    <3>1. stream = "look" /\ stream' \in {"copy", "failsize", "qbuf"}
      BY <2>1 DEF StreamLook
    <3> QED
      BY <2>0, <3>1 DEF LoopLeft
  <2>2. CASE StreamStep /\ ~StreamLook
    <3>1. \/ stream = "check" /\ stream' = "exited"
          \/ stream = "poll" /\ stream' \in {"check", "fail", "look"}
          \/ stream = "copy" /\ stream' = "publish"
          \/ stream \in {"publish", "failsize"} /\ stream' = "qbuf"
          \/ stream = "qbuf" /\ stream' \in {"check", "fail"}
          \/ stream = "fail" /\ stream' = "check"
      BY <2>0, <2>2
         DEF StreamStep, StreamCheck, AfterCheck, StreamNoFrame,
             StreamDeviceError, StreamDequeue, StreamCopy, StreamPublish,
             StreamFail, AfterBadSize, StreamQbuf, StreamQbufFails, AfterQbufFailure
    <3> QED
      BY <2>0, <3>1 DEF LoopLeft
  <2>3. CASE ~StreamStep
    BY <2>0, <2>3
       DEF Next, DeviceFill, SnapshotRefused, SnapshotRequest, SnapshotCanceled,
           SnapshotClockFails, DeadlinePasses, SpuriousWakeup, SnapshotResume, SnapshotTimedOut,
           SnapshotWaitAgain, SnapshotFails, SnapshotReturnsImage, DeinitStop,
           DeinitRelease, DeinitReset
  <2> QED
    BY <2>1, <2>2, <2>3
<1> QED
  BY WakeupInvariance, <1>1, <1>2, PTL DEF Spec

-----------------------------------------------------------------------------
(* The service that is promised. *)

\* Steps that change nothing of what the caller and main see.
LEMMA Unnoticed ==
  ASSUME UNCHANGED <<secure, capture_ready, client, image, phase>>
  PROVE  UNCHANGED Service!service_vars
BY DEF Service!service_vars

\* Every step of thread, caller and deinit is one of the service's, or none.
LEMMA StepServes ==
  IInv /\ Wakeups /\ [Next]_vars => [Service!ServiceNext]_Service!service_vars
<1> SUFFICES ASSUME IInv, Wakeups, [Next]_vars
             PROVE  Service!ServiceNext \/ UNCHANGED Service!service_vars
  OBVIOUS
<1> USE DEF Service!ServiceNext, Service!service_vars
<1>1. CASE DeviceFill \/ StreamCheck \/ StreamNoFrame \/ StreamDeviceError
           \/ StreamDequeue \/ StreamLook \/ StreamQbuf \/ StreamQbufFails
           \/ UNCHANGED vars
  BY <1>1, Unnoticed
     DEF DeviceFill, StreamCheck, StreamNoFrame, StreamDeviceError, StreamDequeue,
         StreamLook, StreamQbuf, StreamQbufFails, flags, caller, vars
<1>2. CASE StreamCopy
  \* Nothing is lent, served or freed while the thread copies.
  <2>1. ~(image # "none") /\ ~capture_ready /\ phase \notin {"released", "down"}
    BY <1>2 DEF StreamCopy, IInv, BufferInv, ThreadGone, RequestInv, ImageStable,
                CopyUnready, NoImageInCall
  <2>2. /\ secure' \in {"fresh", "stale"}
        /\ UNCHANGED <<capture_ready, client, image, phase>>
    BY <1>2 DEF StreamCopy, flags, caller
  <2>3. Service!Draw
    BY <2>1, <2>2 DEF Service!Draw
  <2> QED
    BY <2>3
<1>3. CASE StreamPublish
  <2>1. CASE capture_requested
    <3>1. /\ phase = "up" /\ client # "idle" /\ ~capture_ready
          /\ secure \in {"fresh", "stale"}
      BY <1>3, <2>1 DEF StreamPublish, IInv, RequestInv, NeverBusy, ReadyOnce,
                        PublishFilled, Wakeups, RequestHasThread
    <3>2. /\ capture_ready' /\ client' # "idle"
          /\ UNCHANGED <<secure, image, phase>>
      BY <1>3, <2>1, <3>1 DEF StreamPublish, Broadcast
    <3>3. Service!Serve
      BY <3>1, <3>2 DEF Service!Serve
    <3> QED
      BY <3>3
  <2>2. CASE ~capture_requested
    BY <1>3, <2>2, Unnoticed DEF StreamPublish, flags
  <2> QED
    BY <2>1, <2>2
<1>4. CASE StreamFail
  <2>1. CASE capture_requested
    <3>1. ~capture_ready /\ client # "idle"
      BY <2>1 DEF IInv, RequestInv, NeverBusy, ReadyOnce
    <3>2. ~capture_ready' /\ client' # "idle" /\ UNCHANGED <<secure, image, phase>>
      BY <1>4, <2>1, <3>1 DEF StreamFail, FailureConcerns, Broadcast
    <3> QED
      BY <3>1, <3>2
  <2>2. CASE ~capture_requested
    BY <1>4, <2>2, Unnoticed DEF StreamFail, FailureConcerns, flags
  <2> QED
    BY <2>1, <2>2
<1>5. CASE SnapshotRefused \/ SnapshotCanceled \/ SnapshotClockFails
  <2>1. /\ client = "idle" /\ client' = "idle" /\ image' = "none" /\ phase' = phase
        /\ secure' = secure \/ (secure = "fresh" /\ secure' = "stale")
    BY <1>5 DEF SnapshotRefused, SnapshotCanceled, SnapshotClockFails, AgeFrames
  <2>2. Service!Refuse
    BY <2>1 DEF Service!Refuse
  <2> QED
    BY <2>2
<1>6. CASE SnapshotRequest
  <2>1. /\ client = "idle" /\ client' = "wait" /\ image' = "none" /\ phase' = phase
        /\ ~capture_ready'
        /\ secure' = secure \/ (secure = "fresh" /\ secure' = "stale")
    BY <1>6 DEF SnapshotRequest, ReadyAtRequest, AgeFrames
  <2>2. phase = "up"
    BY <1>6 DEF SnapshotRequest, Available, Wakeups, FlagOfPhase
  <2>3. Service!Ask
    BY <2>1, <2>2 DEF Service!Ask
  <2> QED
    BY <2>3
<1>7. CASE DeadlinePasses \/ SpuriousWakeup \/ SnapshotWaitAgain
  <2>1. /\ client # "idle" /\ client' # "idle"
        /\ UNCHANGED <<secure, capture_ready, image, phase>>
    BY <1>7 DEF DeadlinePasses, SpuriousWakeup, SnapshotWaitAgain, flags
  <2> QED
    BY <2>1
<1>8. CASE SnapshotTimedOut \/ SnapshotFails
  <2>1. /\ client # "idle" /\ client' = "idle"
        /\ UNCHANGED <<secure, image, phase>>
    BY <1>8 DEF SnapshotTimedOut, ClientAfterTimeout, SnapshotFails
  <2>2. Service!Decline
    BY <2>1 DEF Service!Decline
  <2> QED
    BY <2>2
<1>9. CASE SnapshotReturnsImage
  <2>1. /\ client # "idle" /\ client' = "idle" /\ capture_ready
        /\ image' = secure /\ secure' = "given" /\ phase' = phase
    BY <1>9 DEF SnapshotReturnsImage
  <2>2. phase = "up" /\ secure \in {"fresh", "stale"}
    BY <2>1 DEF IInv, RequestInv, ReadyIsAnswer, Wakeups, ReadyOpen
  <2>3. Service!Lend
    BY <2>1, <2>2 DEF Service!Lend
  <2> QED
    BY <2>3
<1>10. CASE DeinitStop
  <2>1. /\ phase = "up" /\ phase' = "stopping" /\ ~capture_ready'
        /\ client' = "idle" <=> client = "idle"
        /\ UNCHANGED <<secure, image>>
    BY <1>10 DEF DeinitStop, Broadcast
  <2>2. Service!Shut
    BY <2>1 DEF Service!Shut
  <2> QED
    BY <2>2
<1>11. CASE DeinitRelease
  <2>1. /\ phase = "stopping" /\ phase' = "released"
        /\ UNCHANGED <<secure, capture_ready, client, image>>
    BY <1>11 DEF DeinitRelease, flags, caller
  <2>2. Service!Free
    BY <2>1 DEF Service!Free
  <2> QED
    BY <2>2
<1>12. CASE DeinitReset
  <2>1. /\ phase = "released" /\ phase' = "down" /\ ~capture_ready'
        /\ UNCHANGED <<secure, client, image>>
    BY <1>12 DEF DeinitReset, caller
  <2>2. ~capture_ready
    BY <2>1 DEF Wakeups, ReadyOpen
  <2> QED
    BY <2>1, <2>2
<1> QED
  BY <1>1, <1>2, <1>3, <1>4, <1>5, <1>6, <1>7, <1>8, <1>9, <1>10, <1>11, <1>12
     DEF Next, StreamStep, SnapshotResume

\* For any number of buffers and calls, thread, caller and deinit implement the
\* service: nothing is drawn in a memory that is lent or freed, a picture is lent
\* once, for a call it was served for, and after the close none is served.
THEOREM CameraImplementsService == Spec => ImplementsService
<1>1. Init => Service!ServiceInit
  BY DEF Init, Service!ServiceInit
<1> QED
  BY WakeupInvariance, StepServes, <1>1, PTL
     DEF Spec, ImplementsService, Service!ServiceSpec

-----------------------------------------------------------------------------
(* write_praa_color_ppm, for every frame of every size. *)

\* The frame is one the device delivers.
Framed ==
  \E w \in Widths, h \in Heights, padding \in Paddings, told \in BOOLEAN,
     shortage \in Shortages :
    /\ padding = 0 \/ (told /\ MinimumRowBytes(w) + padding > 0)
    /\ scene \in Scenes(w, h)
    /\ frame = Frame(scene, w, h, padding, told, shortage)

\* The check lets pass only what the conversion can read.
Accepted ==
  /\ frame.width > 0 /\ frame.width % 4 = 0 /\ frame.height > 0
  /\ Fits(Stride)

\* The upper eight bits of the scene.
Upper == [p \in (0 .. frame.width - 1) \X (0 .. frame.height - 1) |-> scene[p] \div 4]

\* A row of colours, three bytes each.
Row == [0 .. frame.width - 1 -> [r : 0 .. 255, g : 0 .. 255, b : 0 .. 255]]

\* What has been computed is computed from the scene.
Computed ==
  /\ step \in {"check", "unpack", "rows", "done", "rejected"}
  /\ step \in {"unpack", "rows", "done"} => Accepted
  /\ step \in {"check", "unpack", "rejected"} => rows = <<>>
  /\ step \in {"rows", "done"} =>
       /\ raw8 = Upper
       /\ rows \in Seq(Row) /\ Len(rows) <= frame.height
       /\ \A n \in DOMAIN rows :
            rows[n] = [x \in 0 .. frame.width - 1 |-> Colours(x, n - 1)]

\* The inductive invariant.
ColourInv == Framed /\ Computed

\* A multiple and less than once more: what division and remainder give.
LEMMA DivMod ==
  ASSUME NEW d \in Nat \ {0}, NEW q \in Nat, NEW o \in 0 .. d - 1
  PROVE  (q * d + o) \div d = q /\ (q * d + o) % d = o
OBVIOUS

\* A frame that was accepted is packed from the scene, with the stride the
\* program takes it to have.
LEMMA FrameOfScene ==
  ASSUME Framed
  PROVE  /\ frame.width \in Nat /\ frame.height \in Nat /\ frame.size \in Nat
         /\ Stride \in Int
         /\ scene \in [(0 .. frame.width - 1) \X (0 .. frame.height - 1) -> 0 .. 1023]
         /\ Accepted =>
              /\ Stride >= (frame.width \div 4) * 5
              /\ Stride * frame.height <= frame.size
              /\ \A i \in 0 .. frame.size - 1 :
                   frame.data[i] = PackedByte(scene, frame.width,
                                       frame.height, Stride, i)
<1>1. PICK w \in Widths, h \in Heights, padding \in Paddings, told \in BOOLEAN,
          shortage \in Shortages :
        /\ padding = 0 \/ (told /\ MinimumRowBytes(w) + padding > 0)
        /\ scene \in Scenes(w, h)
        /\ frame = Frame(scene, w, h, padding, told, shortage)
  BY DEF Framed
<1> DEFINE minimum == (w \div 4) * 5
           stride == minimum + padding
           size == IF stride * h > shortage THEN stride * h - shortage ELSE 0
<1>0. w \in Nat /\ h \in Nat /\ padding \in Int /\ shortage \in Int
  BY SizeAssumption, DeviceAssumption
<1>2. minimum \in Nat /\ stride \in Int /\ size \in Nat
  BY <1>0
<1>3. /\ frame.width = w /\ frame.height = h /\ frame.size = size
      /\ frame.bytesperline = IF told THEN stride ELSE 0
      /\ \A i \in 0 .. size - 1 :
           frame.data[i] = IF w % 4 = 0 /\ w > 0 /\ padding >= 0
                           THEN PackedByte(scene, w, h, stride, i)
                           ELSE Filler
  BY <1>1 DEF Frame, MinimumRowBytes
<1>4. padding = 0 \/ (told /\ stride > 0)
  BY <1>1 DEF MinimumRowBytes
<1> HIDE DEF size
<1>5. Stride = stride
  <2>1. Stride = IF frame.bytesperline # 0 THEN frame.bytesperline ELSE minimum
    BY <1>3 DEF Stride, MinimumRowBytes
  <2> QED
    BY <1>2, <1>3, <1>4, <2>1
<1>6. ASSUME Accepted
      PROVE  w > 0 /\ w % 4 = 0 /\ stride >= minimum /\ stride * h <= size
  BY <1>3, <1>5, <1>6 DEF Accepted, Fits, MinimumRowBytes
<1>7. ASSUME Accepted PROVE padding >= 0
  BY <1>0, <1>6, <1>7 DEF minimum, stride
<1> HIDE DEF minimum, stride
<1>8. ASSUME Accepted, NEW i \in 0 .. size - 1
      PROVE  frame.data[i] = PackedByte(scene, w, h, stride, i)
  BY <1>3, <1>6, <1>7, <1>8
<1>9. scene \in [(0 .. w - 1) \X (0 .. h - 1) -> 0 .. 1023]
  <2>1. Scenes(w, h) \subseteq Samples(w, h)
    BY SceneAssumption
  <2>2. scene \in Samples(w, h)
    BY <1>1, <2>1
  <2> QED
    BY <2>2 DEF Samples, Columns
<1>10. minimum = (w \div 4) * 5
  BY DEF minimum
<1> QED
  BY <1>0, <1>2, <1>3, <1>5, <1>6, <1>8, <1>9, <1>10

\* Where a sample is in the frame: inside it, and its own.
LEMMA SampleInFrame ==
  ASSUME Framed, Accepted,
         NEW x \in 0 .. frame.width - 1, NEW y \in 0 .. frame.height - 1
  PROVE  Byte(y * Stride + InputOffset(x) + (x % 4))
           = scene[<<x, y>>] \div 4
<1> DEFINE w == frame.width
           h == frame.height
           S == Stride
           o == 5 * (x \div 4) + (x % 4)
           i == y * S + o
<1>1. /\ w \in Nat /\ h \in Nat /\ frame.size \in Nat /\ S \in Int
      /\ S >= (w \div 4) * 5 /\ S * h <= frame.size
      /\ \A k \in 0 .. frame.size - 1 :
           frame.data[k] = PackedByte(scene, w, h, S, k)
  BY FrameOfScene
<1>2. w > 0 /\ w % 4 = 0
  BY DEF Accepted
<1>3. o \in 0 .. (w \div 4) * 5 - 1 /\ o % 5 = x % 4 /\ o \div 5 = x \div 4
      /\ 4 * (x \div 4) + (x % 4) = x /\ x % 4 < 4
  <2>1. x \in 0 .. w - 1
    OBVIOUS
  <2> HIDE DEF w
  <2>2. x \div 4 \in 0 .. w \div 4 - 1 /\ x % 4 \in 0 .. 3
        /\ 4 * (x \div 4) + (x % 4) = x
    BY <1>1, <1>2, <2>1
  <2>3. \A k \in Nat, l \in 0 .. 3 : (5 * k + l) % 5 = l /\ (5 * k + l) \div 5 = k
    OBVIOUS
  <2> QED
    BY <1>1, <2>2, <2>3
<1>4. S \in Nat \ {0} /\ o \in 0 .. S - 1
  <2> HIDE DEF w, S, o
  <2> QED
    BY <1>1, <1>2, <1>3
<1>5. i \div S = y /\ i % S = o
  <2>1. y \in Nat
    BY <1>1
  <2> HIDE DEF S, o
  <2> QED
    BY <1>4, <2>1, DivMod
<1>6. i \in 0 .. frame.size - 1
  <2> HIDE DEF S, o, h
  <2>1. y \in 0 .. h - 1
    BY DEF h
  <2>2. y * S >= 0 /\ y * S + S = (y + 1) * S /\ (y + 1) * S <= h * S
    BY <1>1, <1>4, <2>1
  <2>3. h * S = S * h
    BY <1>1, <1>4
  <2> QED
    BY <1>1, <1>4, <2>1, <2>2, <2>3
<1>7. frame.data[i] = PackedByte(scene, w, h, S, i)
  <2> HIDE DEF i, w, h, S
  <2> QED
    BY <1>1, <1>6
<1>8. PackedByte(scene, w, h, S, i) = scene[<<x, y>>] \div 4
  <2>1. y < h /\ o < MinimumRowBytes(w) /\ o % 5 < 4
    BY <1>1, <1>3 DEF MinimumRowBytes
  <2>2. 4 * (o \div 5) + (o % 5) = x
    BY <1>3
  <2> HIDE DEF i, o, w, h, S
  <2>3. PackedByte(scene, w, h, S, i)
          = scene[<<4 * (o \div 5) + (o % 5), y>>] \div 4
    BY <1>1, <1>3, <1>5, <2>1 DEF PackedByte, MinimumRowBytes
  <2> QED
    BY <2>2, <2>3
<1>9. y * Stride + InputOffset(x) + (x % 4) = i
  <2>1. InputOffset(x) = 5 * (x \div 4)
    BY DEF InputOffset
  <2> QED
    BY <1>1, <2>1
<1> HIDE DEF i
<1> QED
  BY <1>6, <1>7, <1>8, <1>9 DEF Byte

\* The upper bits of the samples around a place.
Around(x, y) ==
  {scene[p] \div 4 : p \in Neighbourhood(x, y) \cap DOMAIN scene}

Between(n, values) == \E lo, hi \in values : n \in lo .. hi

\* The mean of two or four bytes lies between two of them, and is a byte.
LEMMA MeanOfTwo ==
  ASSUME NEW V \in SUBSET (0 .. 255), NEW a \in V, NEW b \in V
  PROVE  Between((a + b) \div 2, V)
<1>1. CASE a <= b
  <2>1. (a + b) \div 2 \in a .. b
    BY <1>1
  <2> QED
    BY <2>1 DEF Between
<1>2. CASE b <= a
  <2>1. (a + b) \div 2 \in b .. a
    BY <1>2
  <2> QED
    BY <2>1 DEF Between
<1> QED
  BY <1>1, <1>2

LEMMA MeanOfFour ==
  ASSUME NEW V \in SUBSET (0 .. 255), NEW a \in V, NEW b \in V, NEW c \in V, NEW d \in V
  PROVE  Between((a + b + c + d) \div 4, V)
<1>1. PICK lo \in V : lo <= a /\ lo <= b /\ lo <= c /\ lo <= d
  OBVIOUS
<1>2. PICK hi \in V : hi >= a /\ hi >= b /\ hi >= c /\ hi >= d
  OBVIOUS
<1>3. (a + b + c + d) \div 4 \in lo .. hi
  BY <1>1, <1>2
<1> QED
  BY <1>3 DEF Between

LEMMA BetweenIsByte ==
  ASSUME NEW V \in SUBSET (0 .. 255), NEW n, Between(n, V)
  PROVE  n \in 0 .. 255
BY DEF Between

\* What get_pixel returns next to a place: a sample around it, and the one asked
\* for where that is in the image.
LEMMA PixelOfScene ==
  ASSUME Framed, Accepted, raw8 = Upper,
         NEW x \in 0 .. frame.width - 1, NEW y \in 0 .. frame.height - 1,
         NEW a \in x - 1 .. x + 1, NEW b \in y - 1 .. y + 1
  PROVE  /\ Pixel(a, b) \in Around(x, y)
         /\ a \in 0 .. frame.width - 1 /\ b \in 0 .. frame.height - 1 =>
              Pixel(a, b) = scene[<<a, b>>] \div 4
<1> DEFINE w == frame.width
           h == frame.height
           p == Clamped(a, w)
           q == Clamped(b, h)
<1>1. /\ w \in Nat \ {0} /\ h \in Nat \ {0}
      /\ scene \in [(0 .. w - 1) \X (0 .. h - 1) -> 0 .. 1023]
  BY FrameOfScene DEF Accepted
<1>2. raw8 = [r \in (0 .. w - 1) \X (0 .. h - 1) |-> scene[r] \div 4]
  BY DEF Upper
<1>3. Pixel(a, b) = raw8[<<p, q>>]
  BY DEF Pixel
<1>4. x \in 0 .. w - 1 /\ y \in 0 .. h - 1
  OBVIOUS
<1> HIDE DEF w, h
<1>5. /\ p \in 0 .. w - 1 /\ p \in x - 1 .. x + 1
      /\ a \in 0 .. w - 1 => p = a
  BY <1>1, <1>4 DEF Clamped
<1>6. /\ q \in 0 .. h - 1 /\ q \in y - 1 .. y + 1
      /\ b \in 0 .. h - 1 => q = b
  BY <1>1, <1>4 DEF Clamped
<1> HIDE DEF p, q
<1>7. Pixel(a, b) = scene[<<p, q>>] \div 4
  BY <1>2, <1>3, <1>5, <1>6
<1>8. <<p, q>> \in Neighbourhood(x, y) \cap DOMAIN scene
  <2>1. p - x \in -1 .. 1 /\ q - y \in -1 .. 1 /\ p = x + (p - x) /\ q = y + (q - y)
    BY <1>1, <1>4, <1>5, <1>6
  <2>2. <<p, q>> \in Neighbourhood(x, y)
    BY <2>1 DEF Neighbourhood
  <2>3. <<p, q>> \in DOMAIN scene
    BY <1>1, <1>5, <1>6
  <2> QED
    BY <2>2, <2>3
<1>9. Pixel(a, b) \in Around(x, y)
  BY <1>7, <1>8 DEF Around
<1>10. a \in 0 .. w - 1 /\ b \in 0 .. h - 1 =>
         Pixel(a, b) = scene[<<a, b>>] \div 4
  BY <1>5, <1>6, <1>7
<1> QED
  BY <1>9, <1>10 DEF w, h

LEMMA AroundIsBytes ==
  ASSUME Framed, NEW x \in Int, NEW y \in Int
  PROVE  Around(x, y) \in SUBSET (0 .. 255)
<1>1. \A p \in DOMAIN scene : scene[p] \in 0 .. 1023
  BY FrameOfScene
<1> QED
  BY <1>1 DEF Around

\* Every colour of every pixel is between two samples around it.
LEMMA ColoursBetween ==
  ASSUME Framed, Accepted, raw8 = Upper,
         NEW x \in 0 .. frame.width - 1, NEW y \in 0 .. frame.height - 1,
         NEW colour \in {"r", "g", "b"}
  PROVE  Between(Colours(x, y)[colour], Around(x, y))
<1> DEFINE V == Around(x, y)
           C == Colours(x, y)
<1>1. x \in Int /\ y \in Int
  BY FrameOfScene
<1>2. V \in SUBSET (0 .. 255)
  BY <1>1, AroundIsBytes
<1>3. \A a \in x - 1 .. x + 1, b \in y - 1 .. y + 1 : Pixel(a, b) \in V
  BY PixelOfScene
<1> HIDE DEF V
<1>4. /\ Pixel(x, y) \in V
      /\ Pixel(x - 1, y) \in V /\ Pixel(x + 1, y) \in V
      /\ Pixel(x, y - 1) \in V /\ Pixel(x, y + 1) \in V
      /\ Pixel(x - 1, y - 1) \in V /\ Pixel(x + 1, y - 1) \in V
      /\ Pixel(x - 1, y + 1) \in V /\ Pixel(x + 1, y + 1) \in V
  BY <1>1, <1>3
<1>5. Between(Pixel(x, y), V)
  <2>1. Pixel(x, y) \in Pixel(x, y) .. Pixel(x, y)
    BY <1>2, <1>4
  <2> QED
    BY <1>4, <2>1 DEF Between
<1>6. Between(Horizontal(x, y), V) /\ Between(Vertical(x, y), V)
  BY <1>2, <1>4, MeanOfTwo DEF Horizontal, Vertical
<1>7. Between(Cross(x, y), V) /\ Between(Diagonal(x, y), V)
  BY <1>2, <1>4, MeanOfFour DEF Cross, Diagonal
<1>8. C[colour] \in {Pixel(x, y), Horizontal(x, y),
                     Vertical(x, y), Cross(x, y), Diagonal(x, y)}
  <2>1. y % 2 \in {0, 1} /\ x % 2 \in {0, 1}
    BY <1>1
  <2> QED
    BY <2>1 DEF Colours, Green
<1> HIDE DEF C
<1>9. Between(C[colour], V)
  BY <1>5, <1>6, <1>7, <1>8
<1> QED
  BY <1>9 DEF C, V

\* What a neighbour contributes to the interpolated colour, and its weight.
Contributes(colour, x, y, a, b) == <<a, b>> \in Nearest(colour, x, y)
Value(colour, x, y, a, b) ==
  IF Contributes(colour, x, y, a, b) THEN scene[<<a, b>>] \div 4 ELSE 0
Weight(colour, x, y, a, b) == IF Contributes(colour, x, y, a, b) THEN 1 ELSE 0

LEMMA NearestMember ==
  ASSUME NEW x \in Int, NEW y \in Int, NEW colour,
         NEW a \in x - 1 .. x + 1, NEW b \in y - 1 .. y + 1
  PROVE  /\ <<a, b>> \in Neighbourhood(x, y)
         /\ Contributes(colour, x, y, a, b) <=>
              /\ FilterColour(<<a, b>>) = colour
              /\ FilterColour(<<x, y>>) = colour => a = x /\ b = y
<1>1. <<a, b>> \in Neighbourhood(x, y)
  <2>1. a - x \in -1 .. 1 /\ b - y \in -1 .. 1 /\ a = x + (a - x) /\ b = y + (b - y)
    OBVIOUS
  <2> QED
    BY <2>1 DEF Neighbourhood
<1> QED
  BY <1>1 DEF Contributes, Nearest

LEMMA FilterByParity ==
  ASSUME NEW a \in Int, NEW b \in Int
  PROVE  FilterColour(<<a, b>>) =
           IF a % 2 = 0 THEN IF b % 2 = 0 THEN "r" ELSE "g"
                        ELSE IF b % 2 = 0 THEN "g" ELSE "b"
BY DEF FilterColour

\* The interpolated colour as a sum over the nine places.
LEMMA InterpolatedSum ==
  ASSUME NEW x \in Int, NEW y \in Int, NEW colour
  PROVE  Interpolated(colour, x, y) =
           ((Value(colour, x, y, x - 1, y - 1) + Value(colour, x, y, x, y - 1)
               + Value(colour, x, y, x + 1, y - 1))
            + (Value(colour, x, y, x - 1, y) + Value(colour, x, y, x, y)
               + Value(colour, x, y, x + 1, y))
            + (Value(colour, x, y, x - 1, y + 1) + Value(colour, x, y, x, y + 1)
               + Value(colour, x, y, x + 1, y + 1)))
           \div
           ((Weight(colour, x, y, x - 1, y - 1) + Weight(colour, x, y, x, y - 1)
               + Weight(colour, x, y, x + 1, y - 1))
            + (Weight(colour, x, y, x - 1, y) + Weight(colour, x, y, x, y)
               + Weight(colour, x, y, x + 1, y))
            + (Weight(colour, x, y, x - 1, y + 1) + Weight(colour, x, y, x, y + 1)
               + Weight(colour, x, y, x + 1, y + 1)))
<1> DEFINE N == Neighbourhood(x, y)
           values == [p \in N |-> IF p \in Nearest(colour, x, y)
                                  THEN scene[p] \div 4 ELSE 0]
           number == [p \in N |-> IF p \in Nearest(colour, x, y) THEN 1 ELSE 0]
<1>1. Interpolated(colour, x, y)
        = Total(values, x, y) \div Total(number, x, y)
  BY DEF Interpolated
<1>2. \A a \in x - 1 .. x + 1, b \in y - 1 .. y + 1 :
        /\ values[<<a, b>>] = Value(colour, x, y, a, b)
        /\ number[<<a, b>>] = Weight(colour, x, y, a, b)
  BY NearestMember DEF Value, Weight, Contributes
<1> HIDE DEF values, number
<1>3. {x - 1, x, x + 1} \subseteq x - 1 .. x + 1 /\ {y - 1, y, y + 1} \subseteq y - 1 .. y + 1
  OBVIOUS
<1>4. /\ Total(values, x, y) =
           (Value(colour, x, y, x - 1, y - 1) + Value(colour, x, y, x, y - 1)
              + Value(colour, x, y, x + 1, y - 1))
           + (Value(colour, x, y, x - 1, y) + Value(colour, x, y, x, y)
              + Value(colour, x, y, x + 1, y))
           + (Value(colour, x, y, x - 1, y + 1) + Value(colour, x, y, x, y + 1)
              + Value(colour, x, y, x + 1, y + 1))
      /\ Total(number, x, y) =
           (Weight(colour, x, y, x - 1, y - 1) + Weight(colour, x, y, x, y - 1)
              + Weight(colour, x, y, x + 1, y - 1))
           + (Weight(colour, x, y, x - 1, y) + Weight(colour, x, y, x, y)
              + Weight(colour, x, y, x + 1, y))
           + (Weight(colour, x, y, x - 1, y + 1) + Weight(colour, x, y, x, y + 1)
              + Weight(colour, x, y, x + 1, y + 1))
  BY <1>2, <1>3 DEF Total, RowTotal
<1> QED
  BY <1>1, <1>4

\* Away from the border a colour is the mean of the nearest samples of its own.
LEMMA ColoursInside ==
  ASSUME Framed, Accepted, raw8 = Upper,
         NEW x \in 1 .. frame.width - 2, NEW y \in 1 .. frame.height - 2,
         NEW colour \in {"r", "g", "b"}
  PROVE  Colours(x, y)[colour] = Interpolated(colour, x, y)
<1> DEFINE p(a, b) == Pixel(a, b)
           near(a, b) == Contributes(colour, x, y, a, b)
           value(a, b) == IF near(a, b) THEN p(a, b) ELSE 0
           weight(a, b) == IF near(a, b) THEN 1 ELSE 0
           I == Interpolated(colour, x, y)
           C == Colours(x, y)
<1>1. /\ x \in Int /\ y \in Int /\ frame.width \in Int /\ frame.height \in Int
      /\ x \in 0 .. frame.width - 1 /\ y \in 0 .. frame.height - 1
  BY FrameOfScene
<1>2. \A a \in x - 1 .. x + 1, b \in y - 1 .. y + 1 :
        /\ p(a, b) = scene[<<a, b>>] \div 4
        /\ p(a, b) \in 0 .. 255
  <2> SUFFICES ASSUME NEW a \in x - 1 .. x + 1, NEW b \in y - 1 .. y + 1
               PROVE  /\ p(a, b) = scene[<<a, b>>] \div 4
                      /\ p(a, b) \in 0 .. 255
    OBVIOUS
  <2>1. a \in 0 .. frame.width - 1 /\ b \in 0 .. frame.height - 1
    BY <1>1
  <2> QED
    BY <1>1, <2>1, PixelOfScene, AroundIsBytes
<1>3. {x - 1, x, x + 1} \subseteq x - 1 .. x + 1 /\ {y - 1, y, y + 1} \subseteq y - 1 .. y + 1
  BY <1>1
<1>4. \A a \in {x - 1, x, x + 1}, b \in {y - 1, y, y + 1} :
        /\ Value(colour, x, y, a, b) = value(a, b)
        /\ Weight(colour, x, y, a, b) = weight(a, b)
        /\ p(a, b) \in 0 .. 255
  BY <1>2, <1>3 DEF Value, Weight
<1>5. I = (value(x - 1, y - 1) + value(x, y - 1) + value(x + 1, y - 1)
             + (value(x - 1, y) + value(x, y) + value(x + 1, y))
             + (value(x - 1, y + 1) + value(x, y + 1) + value(x + 1, y + 1)))
          \div
          (weight(x - 1, y - 1) + weight(x, y - 1) + weight(x + 1, y - 1)
             + (weight(x - 1, y) + weight(x, y) + weight(x + 1, y))
             + (weight(x - 1, y + 1) + weight(x, y + 1) + weight(x + 1, y + 1)))
  BY <1>1, <1>4, InterpolatedSum
<1>6. \A a \in {x - 1, x, x + 1}, b \in {y - 1, y, y + 1} :
        near(a, b) <=> /\ FilterColour(<<a, b>>) = colour
                       /\ FilterColour(<<x, y>>) = colour => a = x /\ b = y
  <2> SUFFICES ASSUME NEW a \in {x - 1, x, x + 1}, NEW b \in {y - 1, y, y + 1}
               PROVE  near(a, b) <=>
                        /\ FilterColour(<<a, b>>) = colour
                        /\ FilterColour(<<x, y>>) = colour => a = x /\ b = y
    OBVIOUS
  <2>1. a \in x - 1 .. x + 1 /\ b \in y - 1 .. y + 1
    BY <1>3
  <2> QED
    BY <1>1, <2>1, NearestMember
<1>7. /\ (x - 1) % 2 = 1 - (x % 2) /\ (x + 1) % 2 = 1 - (x % 2) /\ x % 2 \in {0, 1}
      /\ (y - 1) % 2 = 1 - (y % 2) /\ (y + 1) % 2 = 1 - (y % 2) /\ y % 2 \in {0, 1}
  BY <1>1
<1> DEFINE own == FilterColour(<<x, y>>)
           side == FilterColour(<<x + 1, y>>)
           above == FilterColour(<<x, y + 1>>)
           corner == FilterColour(<<x + 1, y + 1>>)
<1>8. /\ FilterColour(<<x - 1, y>>) = side
      /\ FilterColour(<<x, y - 1>>) = above
      /\ FilterColour(<<x - 1, y - 1>>) = corner
      /\ FilterColour(<<x + 1, y - 1>>) = corner
      /\ FilterColour(<<x - 1, y + 1>>) = corner
  BY <1>1, <1>7, FilterByParity
<1>9. /\ p(x, y) \in 0 .. 255
      /\ p(x - 1, y) \in 0 .. 255 /\ p(x + 1, y) \in 0 .. 255
      /\ p(x, y - 1) \in 0 .. 255 /\ p(x, y + 1) \in 0 .. 255
      /\ p(x - 1, y - 1) \in 0 .. 255 /\ p(x + 1, y - 1) \in 0 .. 255
      /\ p(x - 1, y + 1) \in 0 .. 255 /\ p(x + 1, y + 1) \in 0 .. 255
  BY <1>4
<1>10. x - 1 # x /\ x + 1 # x /\ y - 1 # y /\ y + 1 # y
  BY <1>1
<1>11. /\ near(x, y) <=> own = colour
       /\ near(x - 1, y) <=> side = colour /\ own # colour
       /\ near(x + 1, y) <=> side = colour /\ own # colour
       /\ near(x, y - 1) <=> above = colour /\ own # colour
       /\ near(x, y + 1) <=> above = colour /\ own # colour
       /\ near(x - 1, y - 1) <=> corner = colour /\ own # colour
       /\ near(x + 1, y - 1) <=> corner = colour /\ own # colour
       /\ near(x - 1, y + 1) <=> corner = colour /\ own # colour
       /\ near(x + 1, y + 1) <=> corner = colour /\ own # colour
  <2> HIDE DEF near
  <2> QED
    BY <1>6, <1>8, <1>10
<1>12. /\ Horizontal(x, y) = (p(x - 1, y) + p(x + 1, y)) \div 2
       /\ Vertical(x, y) = (p(x, y - 1) + p(x, y + 1)) \div 2
       /\ Cross(x, y) =
            (p(x - 1, y) + p(x + 1, y) + p(x, y - 1) + p(x, y + 1)) \div 4
       /\ Diagonal(x, y) =
            (p(x - 1, y - 1) + p(x + 1, y - 1) + p(x - 1, y + 1) + p(x + 1, y + 1)) \div 4
  BY DEF Horizontal, Vertical, Cross, Diagonal
<1> HIDE DEF p, near, I, own, side, above, corner
<1>13. own = colour => I = p(x, y)
  <2>1. own = colour => I = p(x, y) \div 1
    BY <1>5, <1>9, <1>11
  <2> QED
    BY <1>9, <2>1
<1>14. ASSUME own # colour, side = colour, above # colour, corner # colour
       PROVE  I = Horizontal(x, y)
  <2>1. I = (0 + 0 + 0 + (p(x - 1, y) + 0 + p(x + 1, y)) + (0 + 0 + 0))
              \div (0 + 0 + 0 + (1 + 0 + 1) + (0 + 0 + 0))
    BY <1>5, <1>11, <1>14
  <2>2. \A a, b \in 0 .. 255 :
          (0 + 0 + 0 + (a + 0 + b) + (0 + 0 + 0))
            \div (0 + 0 + 0 + (1 + 0 + 1) + (0 + 0 + 0)) = (a + b) \div 2
    OBVIOUS
  <2> QED
    BY <1>9, <1>12, <2>1, <2>2
<1>15. ASSUME own # colour, side # colour, above = colour, corner # colour
       PROVE  I = Vertical(x, y)
  <2>1. I = (0 + p(x, y - 1) + 0 + (0 + 0 + 0) + (0 + p(x, y + 1) + 0))
              \div (0 + 1 + 0 + (0 + 0 + 0) + (0 + 1 + 0))
    BY <1>5, <1>11, <1>15
  <2> QED
    BY <1>9, <1>12, <2>1
<1>16. ASSUME own # colour, side = colour, above = colour, corner # colour
       PROVE  I = Cross(x, y)
  <2>1. I = (0 + p(x, y - 1) + 0 + (p(x - 1, y) + 0 + p(x + 1, y))
               + (0 + p(x, y + 1) + 0))
              \div (0 + 1 + 0 + (1 + 0 + 1) + (0 + 1 + 0))
    BY <1>5, <1>11, <1>16
  <2> DEFINE west == p(x - 1, y)
             east == p(x + 1, y)
             north == p(x, y - 1)
             south == p(x, y + 1)
  <2>2. west \in 0 .. 255 /\ east \in 0 .. 255 /\ north \in 0 .. 255 /\ south \in 0 .. 255
    BY <1>9
  <2>3. I = (0 + north + 0 + (west + 0 + east) + (0 + south + 0))
              \div (0 + 1 + 0 + (1 + 0 + 1) + (0 + 1 + 0))
        /\ Cross(x, y) = (west + east + north + south) \div 4
    BY <1>12, <2>1
  <2> HIDE DEF west, east, north, south
  <2> QED
    BY <2>2, <2>3
<1>17. ASSUME own # colour, side # colour, above # colour, corner = colour
       PROVE  I = Diagonal(x, y)
  <2>1. I = (p(x - 1, y - 1) + 0 + p(x + 1, y - 1) + (0 + 0 + 0)
               + (p(x - 1, y + 1) + 0 + p(x + 1, y + 1)))
              \div (1 + 0 + 1 + (0 + 0 + 0) + (1 + 0 + 1))
    BY <1>5, <1>11, <1>17
  <2> DEFINE nw == p(x - 1, y - 1)
             ne == p(x + 1, y - 1)
             sw == p(x - 1, y + 1)
             se == p(x + 1, y + 1)
  <2>2. nw \in 0 .. 255 /\ ne \in 0 .. 255 /\ sw \in 0 .. 255 /\ se \in 0 .. 255
    BY <1>9
  <2>3. I = (nw + 0 + ne + (0 + 0 + 0) + (sw + 0 + se))
              \div (1 + 0 + 1 + (0 + 0 + 0) + (1 + 0 + 1))
        /\ Diagonal(x, y) = (nw + ne + sw + se) \div 4
    BY <1>12, <2>1
  <2> HIDE DEF nw, ne, sw, se
  <2> QED
    BY <2>2, <2>3
<1>18. ASSUME x % 2 = 0, y % 2 = 0 PROVE C[colour] = I
  <2>1. own = "r" /\ side = "g" /\ above = "g" /\ corner = "b"
    BY <1>1, <1>7, <1>18, FilterByParity DEF own, side, above, corner
  <2>2. C = [r |-> p(x, y), g |-> Cross(x, y), b |-> Diagonal(x, y)]
    BY <1>18 DEF Colours, p
  <2> HIDE DEF C
  <2> QED
    BY <1>13, <1>16, <1>17, <2>1, <2>2
<1>19. ASSUME x % 2 = 1, y % 2 = 1 PROVE C[colour] = I
  <2>1. own = "b" /\ side = "g" /\ above = "g" /\ corner = "r"
    BY <1>1, <1>7, <1>19, FilterByParity DEF own, side, above, corner
  <2>2. C = [r |-> Diagonal(x, y), g |-> Cross(x, y), b |-> p(x, y)]
    BY <1>19 DEF Colours, p
  <2> HIDE DEF C
  <2> QED
    BY <1>13, <1>16, <1>17, <2>1, <2>2
<1>20. ASSUME x % 2 = 1, y % 2 = 0 PROVE C[colour] = I
  <2>1. own = "g" /\ side = "r" /\ above = "b" /\ corner = "g"
    BY <1>1, <1>7, <1>20, FilterByParity DEF own, side, above, corner
  <2>2. C = [r |-> Horizontal(x, y), g |-> p(x, y), b |-> Vertical(x, y)]
    BY <1>20 DEF Colours, Green, p
  <2> HIDE DEF C
  <2> QED
    BY <1>13, <1>14, <1>15, <2>1, <2>2
<1>21. ASSUME x % 2 = 0, y % 2 = 1 PROVE C[colour] = I
  <2>1. own = "g" /\ side = "b" /\ above = "r" /\ corner = "g"
    BY <1>1, <1>7, <1>21, FilterByParity DEF own, side, above, corner
  <2>2. C = [r |-> Vertical(x, y), g |-> p(x, y), b |-> Horizontal(x, y)]
    BY <1>21 DEF Colours, Green, p
  <2> HIDE DEF C
  <2> QED
    BY <1>13, <1>14, <1>15, <2>1, <2>2
<1> QED
  BY <1>7, <1>18, <1>19, <1>20, <1>21 DEF I

\* What does not depend on the step and the rows.
LEMMA ColourUnchanged ==
  ASSUME UNCHANGED <<scene, frame, raw8>>
  PROVE  /\ Framed' = Framed /\ Accepted' = Accepted /\ Upper' = Upper /\ Row' = Row
         /\ \A x, y : Colours(x, y)' = Colours(x, y)
<1>1. Framed' = Framed
  BY DEF Framed
<1>2. Accepted' = Accepted /\ Upper' = Upper /\ Row' = Row
  BY DEF Accepted, Upper, Row, Fits, Stride
<1>3. \A x, y : Colours(x, y)' = Colours(x, y)
  BY DEF Colours, Green, Horizontal, Vertical,
     Cross, Diagonal, Pixel
<1> QED
  BY <1>1, <1>2, <1>3

LEMMA ColourInitially == ColourInit => ColourInv
<1> SUFFICES ASSUME ColourInit PROVE ColourInv
  OBVIOUS
<1>1. Framed
  BY DEF ColourInit, Framed
<1>2. step = "check" /\ rows = <<>>
  BY DEF ColourInit
<1> QED
  BY <1>1, <1>2 DEF ColourInv, Computed

\* The samples unpacked are those of the scene.
LEMMA ColourUnpacked ==
  ASSUME ColourInv, Unpack
  PROVE  ColourInv'
<1>1. /\ step = "unpack" /\ step' = "rows" /\ rows = <<>>
      /\ UNCHANGED <<scene, frame, rows>>
      /\ Framed /\ Accepted
  BY DEF Unpack, ColourInv, Computed
<1>2. raw8' = Upper
  <2>1. raw8' = [p \in (0 .. frame.width - 1) \X (0 .. frame.height - 1) |->
                   Byte(p[2] * Stride + InputOffset(p[1])
                                 + (p[1] % 4))]
    BY DEF Unpack, Columns
  <2>2. \A p \in (0 .. frame.width - 1) \X (0 .. frame.height - 1) :
          Byte(p[2] * Stride + InputOffset(p[1]) + (p[1] % 4))
            = scene[p] \div 4
    <3> SUFFICES ASSUME NEW p \in (0 .. frame.width - 1) \X (0 .. frame.height - 1)
                 PROVE  Byte(p[2] * Stride + InputOffset(p[1])
                                      + (p[1] % 4)) = scene[p] \div 4
      OBVIOUS
    <3>1. p[1] \in 0 .. frame.width - 1 /\ p[2] \in 0 .. frame.height - 1
          /\ p = <<p[1], p[2]>>
      OBVIOUS
    <3> QED
      BY <1>1, <3>1, SampleInFrame
  <2> QED
    BY <2>1, <2>2 DEF Upper
<1>3. Framed' /\ Accepted' /\ Upper' = Upper
  <2>1. Framed'
    BY <1>1 DEF Framed
  <2> QED
    BY <1>1, <2>1 DEF Accepted, Upper, Fits, Stride
<1>4. rows \in Seq(Row') /\ Len(rows) = 0 /\ frame.height \in Nat /\ DOMAIN rows = {}
  BY <1>1, FrameOfScene
<1> QED
  BY <1>1, <1>2, <1>3, <1>4 DEF ColourInv, Computed

\* A row is computed from the samples, and only from them.
LEMMA ColourRowWritten ==
  ASSUME ColourInv, WriteRow
  PROVE  ColourInv'
<1> DEFINE w == frame.width
           y == Len(rows)
           row == [x \in 0 .. w - 1 |-> Colours(x, y)]
<1>1. /\ step = "rows" /\ y < frame.height /\ rows' = Append(rows, row)
      /\ UNCHANGED <<scene, frame, step, raw8>>
  BY DEF WriteRow, Columns
<1>2. /\ Framed /\ Accepted /\ raw8 = Upper /\ rows \in Seq(Row)
      /\ \A n \in DOMAIN rows :
           rows[n] = [x \in 0 .. w - 1 |-> Colours(x, n - 1)]
  BY <1>1 DEF ColourInv, Computed
<1>3. y \in 0 .. frame.height - 1 /\ frame.height \in Nat /\ w \in Nat
  BY <1>1, <1>2, FrameOfScene
<1>4. row \in Row
  <2> SUFFICES ASSUME NEW x \in 0 .. w - 1
               PROVE  Colours(x, y) \in [r : 0 .. 255, g : 0 .. 255, b : 0 .. 255]
    BY DEF Row
  <2> DEFINE C == Colours(x, y)
             V == Around(x, y)
  <2>1. x \in Int /\ y \in Int
    BY <1>3
  <2>2. V \in SUBSET (0 .. 255)
    BY <1>2, <2>1, AroundIsBytes
  <2>3. Between(C["r"], V) /\ Between(C["g"], V) /\ Between(C["b"], V)
    BY <1>2, <1>3, ColoursBetween
  <2>4. C = [r |-> C.r, g |-> C.g, b |-> C.b]
    BY DEF Colours, Green
  <2> HIDE DEF C, V
  <2>5. C.r \in 0 .. 255 /\ C.g \in 0 .. 255 /\ C.b \in 0 .. 255
    BY <2>2, <2>3, BetweenIsByte
  <2>6. [r |-> C.r, g |-> C.g, b |-> C.b] \in [r : 0 .. 255, g : 0 .. 255, b : 0 .. 255]
    BY <2>5
  <2>7. C \in [r : 0 .. 255, g : 0 .. 255, b : 0 .. 255]
    BY <2>4, <2>6
  <2> QED
    BY <2>7 DEF C
<1>5. \A x, z : Colours(x, z)' = Colours(x, z)
  BY <1>1, ColourUnchanged
<1>6. Framed' /\ Accepted' /\ Upper' = Upper /\ Row' = Row
  BY <1>1, <1>2, ColourUnchanged
<1> HIDE DEF row
<1>7. /\ rows' \in Seq(Row) /\ Len(rows') = y + 1 /\ DOMAIN rows' = 1 .. y + 1
      /\ rows'[y + 1] = row /\ \A n \in 1 .. y : rows'[n] = rows[n]
      /\ DOMAIN rows = 1 .. y
  BY <1>1, <1>2, <1>4
<1>8. \A n \in DOMAIN rows' :
        rows'[n] = [x \in 0 .. w - 1 |-> Colours(x, n - 1)]
  <2> SUFFICES ASSUME NEW n \in 1 .. y + 1
               PROVE  rows'[n] = [x \in 0 .. w - 1 |-> Colours(x, n - 1)]
    BY <1>7
  <2>1. CASE n = y + 1
    <3>1. n - 1 = y
      BY <1>3, <2>1
    <3> QED
      BY <1>7, <2>1, <3>1 DEF row
  <2>2. CASE n # y + 1
    <3>1. n \in 1 .. y
      BY <1>3, <2>2
    <3> QED
      BY <1>2, <1>7, <3>1
  <2> QED
    BY <2>1, <2>2
<1>9. Len(rows') <= frame.height
  BY <1>3, <1>7
<1> QED
  BY <1>1, <1>2, <1>5, <1>6, <1>7, <1>8, <1>9 DEF ColourInv, Computed

LEMMA ColourKept == ColourInv /\ [ColourNext]_colour_vars => ColourInv'
<1> SUFFICES ASSUME ColourInv, [ColourNext]_colour_vars PROVE ColourInv'
  OBVIOUS
<1>1. ASSUME UNCHANGED <<scene, frame, raw8>>
      PROVE  /\ Framed' /\ Accepted' = Accepted /\ Upper' = Upper /\ Row' = Row
             /\ \A x, z : Colours(x, z)' = Colours(x, z)
  BY <1>1, ColourUnchanged DEF ColourInv
<1>2. CASE Check
  <2>1. /\ step = "check" /\ step' \in {"rejected", "unpack"}
        /\ UNCHANGED <<scene, frame, raw8, rows>>
        /\ step' = "unpack" =>
             /\ frame.width # 0 /\ frame.height # 0 /\ frame.width % 4 = 0
             /\ Fits(Stride)
    BY <1>2 DEF Check
  <2>2. frame.width \in Nat /\ frame.height \in Nat
    BY FrameOfScene DEF ColourInv
  <2>3. step' = "unpack" => Accepted
    BY <2>1, <2>2 DEF Accepted
  <2>4. rows = <<>>
    BY <2>1 DEF ColourInv, Computed
  <2> QED
    BY <1>1, <2>1, <2>3, <2>4 DEF ColourInv, Computed
<1>3. CASE Unpack
  BY <1>3, ColourUnpacked
<1>4. CASE WriteRow
  BY <1>4, ColourRowWritten
<1>5. CASE Finish
  <2>1. /\ step = "rows" /\ step' = "done"
        /\ UNCHANGED <<scene, frame, raw8, rows>>
    BY <1>5 DEF Finish
  <2> QED
    BY <1>1, <2>1 DEF ColourInv, Computed
<1>6. CASE UNCHANGED colour_vars
  <2>1. UNCHANGED <<scene, frame, step, raw8, rows>>
    BY <1>6 DEF colour_vars
  <2> QED
    BY <1>1, <2>1 DEF ColourInv, Computed
<1> QED
  BY <1>2, <1>3, <1>4, <1>5, <1>6 DEF ColourNext

LEMMA ColourInvariance == ColourSpec => []ColourInv
BY ColourInitially, ColourKept, PTL DEF ColourSpec

\* Whatever size, stride and length the device reports, no byte outside of the
\* frame is read.
THEOREM FrameOverrunExcluded == ColourSpec => []ReadsInFrame
<1>1. ColourInv => ReadsInFrame
  <2> SUFFICES ASSUME ColourInv, step \in {"rows", "done"}
               PROVE  \A p \in DOMAIN raw8 : raw8[p] # -1
    BY DEF ReadsInFrame, Outside
  <2>1. raw8 = Upper /\ Framed
    BY DEF ColourInv, Computed
  <2> DEFINE places == (0 .. frame.width - 1) \X (0 .. frame.height - 1)
  <2>2. \A p \in places : scene[p] \in 0 .. 1023
    BY <2>1, FrameOfScene
  <2>3. \A n \in 0 .. 1023 : n \div 4 # -1
    OBVIOUS
  <2>4. raw8 = [p \in places |-> scene[p] \div 4]
    BY <2>1 DEF Upper
  <2> HIDE DEF places
  <2> QED
    BY <2>2, <2>3, <2>4
<1> QED
  BY <1>1, ColourInvariance, PTL

\* For every scene of every size: away from the border a colour of a pixel is the
\* mean of the nearest samples of that colour.
THEOREM InterpolationIsExact == ColourSpec => []ColoursExact
<1>1. ColourInv => ColoursExact
  <2> SUFFICES ASSUME ColourInv, NEW n \in DOMAIN rows,
                      NEW x \in 1 .. frame.width - 2,
                      n - 1 \in 1 .. frame.height - 2,
                      NEW colour \in {"r", "g", "b"}
               PROVE  rows[n][x][colour] = Interpolated(colour, x, n - 1)
    BY DEF ColoursExact
  <2>1. step \in {"rows", "done"}
    BY DEF ColourInv, Computed
  <2>2. /\ Framed /\ Accepted /\ raw8 = Upper
        /\ rows[n] = [z \in 0 .. frame.width - 1 |-> Colours(z, n - 1)]
    BY <2>1 DEF ColourInv, Computed
  <2>3. x \in 0 .. frame.width - 1
    BY <2>2, FrameOfScene
  <2>4. Colours(x, n - 1)[colour] = Interpolated(colour, x, n - 1)
    BY <2>2, ColoursInside
  <2> QED
    BY <2>2, <2>3, <2>4
<1> QED
  BY <1>1, ColourInvariance, PTL

\* On the border as well, a colour lies between two of the samples around it.
THEOREM ColoursStayBounded == ColourSpec => []ColoursBounded
<1>1. ColourInv => ColoursBounded
  <2> SUFFICES ASSUME ColourInv, NEW n \in DOMAIN rows, NEW x \in DOMAIN rows[n],
                      NEW colour \in {"r", "g", "b"}
               PROVE  \E p, q \in Neighbourhood(x, n - 1) \cap DOMAIN scene :
                        rows[n][x][colour] \in scene[p] \div 4 .. scene[q] \div 4
    BY DEF ColoursBounded
  <2>1. step \in {"rows", "done"}
    BY DEF ColourInv, Computed
  <2>2. /\ Framed /\ Accepted /\ raw8 = Upper /\ rows \in Seq(Row)
        /\ Len(rows) <= frame.height
        /\ rows[n] = [z \in 0 .. frame.width - 1 |-> Colours(z, n - 1)]
    BY <2>1 DEF ColourInv, Computed
  <2>3. x \in 0 .. frame.width - 1 /\ n - 1 \in 0 .. frame.height - 1
    BY <2>2, FrameOfScene
  <2>4. Between(rows[n][x][colour], Around(x, n - 1))
    BY <2>2, <2>3, ColoursBetween
  <2> QED
    BY <2>4 DEF Between, Around
<1> QED
  BY <1>1, ColourInvariance, PTL

=============================================================================
