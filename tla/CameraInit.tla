------------------------------ MODULE CameraInit ------------------------------
(***************************************************************************)
(* camera_capture_init and camera_capture_deinit as the acquisition and    *)
(* release of what the stream needs: every call of the system that can     *)
(* fail, and the four labels the failures unwind through.  The static      *)
(* variables say what the program believes it holds; held counts what it   *)
(* really holds.  The stream thread and the snapshots in between are the   *)
(* module CameraCapture, whose Init is the state a successful init leaves. *)
(***************************************************************************)
EXTENDS Naturals

CONSTANTS
  Asked,       \* CAMERA_BUFFER_COUNT
  MaxGranted,  \* bound: buffers the driver may grant
  MaxImage,    \* CAMERA_MAX_IMAGE_BYTES
  MaxSize,     \* bound: sizeimage the driver may report
  MaxCalls     \* bound: calls of init and deinit

ASSUME AskedAssumption == Asked \in Nat /\ Asked >= 2
ASSUME BoundsAssumption == {MaxGranted, MaxImage, MaxSize, MaxCalls} \subseteq Nat

VARIABLES
  pc, caller,                        \* next step, and the function called
  camera_open, mapped_buffer_count,  \* camera_fd >= 0, ...
  secure, capacity,                  \* secure_image_memory, secure_image_capacity
  streaming_enabled, thread_started,
  granted,                           \* request_buffers.count
  held,                              \* how many of each resource are held
  locked,                            \* bytes locked by mlock
  usable, calls                      \* history: init succeeded since deinit; calls

statics == <<camera_open, mapped_buffer_count, secure, capacity,
             streaming_enabled, thread_started, granted>>
vars == <<pc, caller, statics, held, locked, usable, calls>>

Resource == {"subdevice", "video", "map", "memory", "stream", "thread"}

Init ==
  /\ pc = "idle" /\ caller = "none"
  /\ camera_open = FALSE /\ mapped_buffer_count = 0
  /\ secure = FALSE /\ capacity = 0
  /\ streaming_enabled = FALSE /\ thread_started = FALSE
  /\ granted = 0
  /\ held = [r \in Resource |-> 0]
  /\ locked = 0 /\ usable = FALSE /\ calls = 0

Goto(label) == pc' = label
Acquire(r) == held' = [held EXCEPT ![r] = @ + 1]
Release(r, n) == held' = [held EXCEPT ![r] = @ - n]
Returned == UNCHANGED <<caller, calls>>

-----------------------------------------------------------------------------
(* camera_capture_deinit, which init calls first. *)

\* Mutant: the thread is told nothing and not waited for.
FirstStepRunning == "streamoff"
FirstStep == "join"

Call(function) ==
  /\ pc = "idle" /\ calls < MaxCalls
  /\ caller' = function /\ calls' = calls + 1
  /\ usable' = FALSE
  /\ Goto(FirstStep)
  /\ UNCHANGED <<statics, held, locked>>

JoinThread ==
  /\ pc = "join" /\ Goto("streamoff")
  /\ IF thread_started THEN Release("thread", 1) ELSE held' = held
  /\ thread_started' = FALSE
  /\ UNCHANGED <<camera_open, mapped_buffer_count, secure, capacity,
                 streaming_enabled, granted, locked, usable>> /\ Returned

\* VIDIOC_STREAMOFF, also at fail_streamoff; a failure is at most reported.
StreamOff(label, next) ==
  /\ pc = label /\ Goto(next)
  /\ streaming_enabled' = FALSE
  /\ \/ held' = held
     \/ camera_open /\ streaming_enabled /\ held' = [held EXCEPT !["stream"] = 0]
  /\ UNCHANGED <<camera_open, mapped_buffer_count, secure, capacity,
                 thread_started, granted, locked, usable>> /\ Returned

Unmap(label, next) ==
  /\ pc = label /\ Goto(next)
  /\ Release("map", mapped_buffer_count)
  /\ mapped_buffer_count' = 0
  /\ UNCHANGED <<camera_open, secure, capacity, streaming_enabled,
                 thread_started, granted, locked, usable>> /\ Returned

FreeSecure(label, next) ==
  /\ pc = label /\ Goto(next)
  /\ IF secure THEN /\ Release("memory", 1)
                    /\ locked' = IF locked > capacity THEN locked - capacity ELSE 0
               ELSE UNCHANGED <<held, locked>>
  /\ secure' = FALSE /\ capacity' = 0
  /\ UNCHANGED <<camera_open, mapped_buffer_count, streaming_enabled,
                 thread_started, granted, usable>> /\ Returned

\* Mutant: the number of the closed descriptor is kept.
OpenAfterCloseKept == camera_open
OpenAfterClose == FALSE

\* Closing the device also ends a stream that VIDIOC_STREAMOFF failed to end.
CloseVideo(label, next) ==
  /\ pc = label /\ Goto(next)
  /\ IF camera_open
     THEN held' = [held EXCEPT !["video"] = @ - 1, !["stream"] = 0]
     ELSE held' = held
  /\ camera_open' = OpenAfterClose
  /\ UNCHANGED <<mapped_buffer_count, secure, capacity, streaming_enabled,
                 thread_started, granted, locked, usable>> /\ Returned

Deinit ==
  \/ JoinThread
  \/ StreamOff("streamoff", "unmap")
  \/ Unmap("unmap", "free")
  \/ FreeSecure("free", "close")
  \/ CloseVideo("close", IF caller = "init" THEN "subdevice" ELSE "idle")

-----------------------------------------------------------------------------
(* camera_capture_init. *)

\* Mutant: a failure while mapping only closes the device.
FailsToClose(step) ==
  IF step \in {"map", "queue", "malloc"} THEN "fail_close" ELSE "fail_streamoff"

\* Where each failing step goes.
FailsTo(step) ==
  CASE step \in {"subdevice", "open"}             -> "idle"
    [] step \in {"query", "format", "request"}    -> "fail_close"
    [] step \in {"map", "queue", "malloc"}        -> "fail_unmap"
    [] step = "streamon"                          -> "fail_free_secure"
    [] step = "thread"                            -> "fail_streamoff"

\* A call of the system fails and changes nothing.
Fails(step) ==
  /\ pc = step /\ Goto(FailsTo(step))
  /\ UNCHANGED <<statics, held, locked, usable>> /\ Returned

\* A step that only has to succeed.
Passes(step, next) ==
  /\ pc = step /\ Goto(next)
  /\ UNCHANGED <<statics, held, locked, usable>> /\ Returned

OpenSubdevice ==
  /\ pc = "subdevice" /\ Goto("configure")
  /\ Acquire("subdevice")
  /\ UNCHANGED <<statics, locked, usable>> /\ Returned

\* Whether the mode is set, refused or changed, the subdevice is closed.
ConfigureSubdevice ==
  /\ pc = "configure"
  /\ \E next \in {"open", "idle"} : Goto(next)
  /\ Release("subdevice", 1)
  /\ UNCHANGED <<statics, locked, usable>> /\ Returned

OpenVideo ==
  /\ pc = "open" /\ Goto("query")
  /\ Acquire("video") /\ camera_open' = TRUE
  /\ UNCHANGED <<mapped_buffer_count, secure, capacity, streaming_enabled,
                 thread_started, granted, locked, usable>> /\ Returned

\* The size is stored before it is tested.
SetFormat(size) ==
  /\ pc = "format"
  /\ capacity' = size
  /\ Goto(IF size = 0 \/ size > MaxImage THEN FailsTo("format") ELSE "request")
  /\ UNCHANGED <<camera_open, mapped_buffer_count, secure, streaming_enabled,
                 thread_started, granted, held, locked, usable>> /\ Returned

\* The driver may grant fewer buffers than asked for, or more.
RequestBuffers(n) ==
  /\ pc = "request"
  /\ granted' = n
  /\ IF n < 2 THEN Goto(FailsTo("request")) /\ UNCHANGED mapped_buffer_count
              ELSE Goto("map") /\ mapped_buffer_count' = 0
  /\ UNCHANGED <<camera_open, secure, capacity, streaming_enabled,
                 thread_started, held, locked, usable>> /\ Returned

\* Mutant: the test against the length of the array is missing.
MoreToMapUnbounded == mapped_buffer_count < granted
MoreToMap == mapped_buffer_count < granted /\ mapped_buffer_count < Asked

MapBuffer ==
  /\ pc = "map" /\ MoreToMap /\ Goto("queue")
  /\ Acquire("map") /\ mapped_buffer_count' = mapped_buffer_count + 1
  /\ UNCHANGED <<camera_open, secure, capacity, streaming_enabled,
                 thread_started, granted, locked, usable>> /\ Returned

MapsFinished == ~MoreToMap /\ Passes("map", "malloc")

\* malloc, and mlock, which may fail with a warning.
Allocate ==
  /\ pc = "malloc" /\ Goto("streamon")
  /\ Acquire("memory") /\ secure' = TRUE
  /\ locked' \in {0, capacity}
  /\ UNCHANGED <<camera_open, mapped_buffer_count, capacity, streaming_enabled,
                 thread_started, granted, usable>> /\ Returned

StreamOn ==
  /\ pc = "streamon" /\ Goto("thread")
  /\ Acquire("stream") /\ streaming_enabled' = TRUE
  /\ UNCHANGED <<camera_open, mapped_buffer_count, secure, capacity,
                 thread_started, granted, locked, usable>> /\ Returned

CreateThread ==
  /\ pc = "thread" /\ Goto("idle")
  /\ Acquire("thread") /\ thread_started' = TRUE
  /\ usable' = TRUE
  /\ UNCHANGED <<camera_open, mapped_buffer_count, secure, capacity,
                 streaming_enabled, granted, locked>> /\ Returned

Acquisition ==
  \/ OpenSubdevice \/ ConfigureSubdevice \/ OpenVideo
  \/ Passes("query", "format")
  \/ \E size \in 0 .. MaxSize : SetFormat(size)
  \/ \E n \in 0 .. MaxGranted : RequestBuffers(n)
  \/ MapBuffer \/ Passes("queue", "map") \/ MapsFinished
  \/ Allocate \/ StreamOn \/ CreateThread

Failure ==
  \/ \E step \in {"subdevice", "open", "query", "format", "request", "queue",
                  "malloc", "streamon", "thread"} : Fails(step)
  \/ MoreToMap /\ Fails("map")
  \/ StreamOff("fail_streamoff", "fail_free_secure")
  \/ FreeSecure("fail_free_secure", "fail_unmap")
  \/ Unmap("fail_unmap", "fail_close")
  \/ CloseVideo("fail_close", "idle")

Next ==
  \/ \E function \in {"init", "deinit"} : Call(function)
  \/ Deinit \/ Acquisition \/ Failure

Spec == Init /\ [][Next]_vars

-----------------------------------------------------------------------------

Label == {"idle", "join", "streamoff", "unmap", "free", "close", "subdevice",
          "configure", "open", "query", "format", "request", "map", "queue",
          "malloc", "streamon", "thread", "fail_streamoff",
          "fail_free_secure", "fail_unmap", "fail_close"}

\* Every variable has its type: no more buffers are mapped than the array of
\* mapped_buffers has room for, and nothing is released that is not held.
TypeOK ==
  /\ pc \in Label /\ caller \in {"none", "init", "deinit"}
  /\ camera_open \in BOOLEAN /\ secure \in BOOLEAN /\ usable \in BOOLEAN
  /\ streaming_enabled \in BOOLEAN /\ thread_started \in BOOLEAN
  /\ mapped_buffer_count \in 0 .. Asked
  /\ capacity \in Nat /\ granted \in Nat /\ locked \in Nat /\ calls \in Nat
  /\ held \in [Resource -> Nat]

\* What the static variables say is what is held, at every step of every path:
\* nothing is acquired twice, and no descriptor, mapping or memory that was
\* given back is taken for one still held (the next deinit would release it).
StaticsTrue ==
  /\ held["subdevice"] = (IF pc = "configure" THEN 1 ELSE 0)
  /\ held["video"] = (IF camera_open THEN 1 ELSE 0)
  /\ held["map"] = mapped_buffer_count
  /\ held["memory"] = (IF secure THEN 1 ELSE 0)
  /\ held["thread"] = (IF thread_started THEN 1 ELSE 0)
  /\ held["stream"] # 0 => held["stream"] = 1 /\ camera_open
  /\ locked # 0 => secure /\ locked = capacity

\* A call that fails, wherever it fails, and deinit leave nothing behind: no
\* descriptor, mapping, memory, locked page, stream or thread.
NothingLeaked ==
  pc = "idle" /\ ~usable => /\ \A r \in Resource : held[r] = 0
                            /\ locked = 0

\* A successful init leaves the stream thread running, and as long as the thread
\* lives, everything it touches is there: the device, at least two buffers, all
\* of them counted, and a secure image as large as the capacity frames are
\* compared with.  deinit takes nothing away before the thread is joined, and
\* no failure unwinds with a thread alive.
ThreadHasAll ==
  /\ pc = "idle" /\ usable => held["thread"] = 1
  /\ held["thread"] = 1 =>
    /\ held["video"] = 1 /\ held["memory"] = 1 /\ held["stream"] = 1
    /\ held["map"] = mapped_buffer_count /\ mapped_buffer_count >= 2
    /\ capacity \in 1 .. MaxImage
    /\ locked \in {0, capacity}

=============================================================================
