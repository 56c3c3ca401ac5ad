--------------------------- MODULE CameraInitProofs ---------------------------
(***************************************************************************)
(* The accounting of camera_capture_init and camera_capture_deinit, for    *)
(* every number of buffers, every image size and any number of calls.      *)
(***************************************************************************)
EXTENDS CameraInit, TLAPS

\* Where each resource may still, or already, be held.
HeldOnly ==
  /\ thread_started => pc \in {"idle", "join"}
  /\ usable => pc = "idle" /\ thread_started
  /\ pc = "idle" /\ ~usable =>
       ~camera_open /\ mapped_buffer_count = 0 /\ ~secure /\ ~thread_started
  /\ mapped_buffer_count # 0 =>
       pc \in {"idle", "join", "streamoff", "unmap", "map", "queue", "malloc",
               "streamon", "thread", "fail_streamoff", "fail_free_secure",
               "fail_unmap"}
  /\ secure => pc \in {"idle", "join", "streamoff", "unmap", "free", "streamon",
                       "thread", "fail_streamoff", "fail_free_secure"}
  /\ camera_open => pc \notin {"subdevice", "configure", "open"}
  /\ held["stream"] = 1 =>
       pc \in {"idle", "join", "streamoff", "unmap", "free", "close", "thread",
               "fail_streamoff", "fail_free_secure", "fail_unmap", "fail_close"}

\* What each step of init relies on.
Ready ==
  /\ pc \in {"query", "format", "request", "map", "queue", "malloc", "streamon",
             "thread"} => camera_open
  /\ pc \in {"request", "map", "queue", "malloc", "streamon", "thread"} =>
       capacity \in 1 .. MaxImage
  /\ pc \in {"map", "queue", "malloc", "streamon", "thread"} => granted >= 2
  /\ pc = "queue" => mapped_buffer_count >= 1
  /\ pc \in {"malloc", "streamon", "thread"} => mapped_buffer_count >= 2
  /\ pc \in {"streamon", "thread"} => secure
  /\ pc = "thread" => held["stream"] = 1
  /\ thread_started =>
       /\ camera_open /\ secure /\ held["stream"] = 1
       /\ mapped_buffer_count >= 2 /\ capacity \in 1 .. MaxImage

\* The inductive invariant.
IInv == TypeOK /\ StaticsTrue /\ HeldOnly /\ Ready

-----------------------------------------------------------------------------

\* The initial state: nothing is held.
LEMMA InitEstablishes == Init => IInv
<1> SUFFICES ASSUME Init PROVE IInv
  OBVIOUS
<1> USE AskedAssumption DEF Init, Resource
<1>1. TypeOK
  <2>1. held \in [Resource -> Nat]
    OBVIOUS
  <2>2. pc \in Label /\ caller \in {"none", "init", "deinit"}
    BY DEF Label
  <2>3. mapped_buffer_count \in 0 .. Asked
    OBVIOUS
  <2> QED
    BY <2>1, <2>2, <2>3 DEF TypeOK
<1>2. StaticsTrue
  BY DEF StaticsTrue
<1>3. HeldOnly
  BY DEF HeldOnly
<1>4. Ready
  BY DEF Ready
<1> QED
  BY <1>1, <1>2, <1>3, <1>4 DEF IInv

\* Every step of deinit, of init and of the failure labels keeps the account.
LEMMA StepKeeps == IInv /\ [Next]_vars => IInv'
<1> SUFFICES ASSUME IInv, [Next]_vars PROVE IInv'
  OBVIOUS
<1> USE AskedAssumption, BoundsAssumption
    DEF IInv, TypeOK, StaticsTrue, HeldOnly, Ready, Label, Resource,
        statics, Goto, Acquire, Release, Returned
<1>1. ASSUME NEW function \in {"init", "deinit"}, Call(function) PROVE IInv'
  <2>1. held' \in [Resource -> Nat]
    BY <1>1 DEF Call, FirstStep
  <2>2. TypeOK'
    <3>1. caller' \in {"none", "init", "deinit"} /\ pc' \in Label
      BY <1>1 DEF Call, FirstStep
    <3>2. UNCHANGED statics /\ locked' = locked /\ usable' = FALSE
      BY <1>1 DEF Call
    <3>3. calls' \in Nat
      BY <1>1 DEF Call
    <3> QED
      BY <2>1, <3>1, <3>2, <3>3
  <2>3. StaticsTrue'
    BY <1>1 DEF Call, FirstStep
  <2>4. HeldOnly'
    BY <1>1 DEF Call, FirstStep
  <2>5. Ready'
    BY <1>1 DEF Call, FirstStep
  <2> QED
    BY <2>2, <2>3, <2>4, <2>5
<1>2. CASE JoinThread
  <2>1. held' \in [Resource -> Nat]
    BY <1>2 DEF JoinThread
  <2>2. TypeOK'
    BY <1>2, <2>1 DEF JoinThread
  <2>3. StaticsTrue'
    BY <1>2 DEF JoinThread
  <2>4. HeldOnly'
    BY <1>2 DEF JoinThread
  <2>5. Ready'
    BY <1>2 DEF JoinThread
  <2> QED
    BY <2>2, <2>3, <2>4, <2>5
<1>3. ASSUME NEW label, NEW next, StreamOff(label, next),
             <<label, next>> \in {<<"streamoff", "unmap">>,
                                  <<"fail_streamoff", "fail_free_secure">>}
      PROVE  IInv'
  <2>1. held' \in [Resource -> Nat]
    BY <1>3 DEF StreamOff
  <2>2. TypeOK'
    BY <1>3, <2>1 DEF StreamOff
  <2>3. StaticsTrue'
    BY <1>3 DEF StreamOff
  <2>4. HeldOnly'
    BY <1>3 DEF StreamOff
  <2>5. Ready'
    BY <1>3 DEF StreamOff
  <2> QED
    BY <2>2, <2>3, <2>4, <2>5
<1>4. ASSUME NEW label, NEW next, Unmap(label, next),
             <<label, next>> \in {<<"unmap", "free">>,
                                  <<"fail_unmap", "fail_close">>}
      PROVE  IInv'
  BY <1>4, SMTT(30) DEF Unmap
<1>5. ASSUME NEW label, NEW next, FreeSecure(label, next),
             <<label, next>> \in {<<"free", "close">>,
                                  <<"fail_free_secure", "fail_unmap">>}
      PROVE  IInv'
  <2>1. held' \in [Resource -> Nat]
    BY <1>5 DEF FreeSecure
  <2>2. TypeOK'
    <3>1. locked' \in Nat
      BY <1>5 DEF FreeSecure
    <3>2. UNCHANGED <<caller, camera_open, mapped_buffer_count, granted, calls,
                      streaming_enabled, thread_started, usable>>
      BY <1>5 DEF FreeSecure
    <3> QED
      BY <1>5, <2>1, <3>1, <3>2 DEF FreeSecure
  <2>3. StaticsTrue'
    BY <1>5 DEF FreeSecure
  <2>4. HeldOnly'
    BY <1>5 DEF FreeSecure
  <2>5. Ready'
    BY <1>5 DEF FreeSecure
  <2> QED
    BY <2>2, <2>3, <2>4, <2>5
<1>6. ASSUME NEW label, NEW next, CloseVideo(label, next),
             <<label, next>> \in {<<"close", "subdevice">>, <<"close", "idle">>,
                                  <<"fail_close", "idle">>}
      PROVE  IInv'
  <2>1. held' \in [Resource -> Nat]
    BY <1>6 DEF CloseVideo, OpenAfterClose
  <2>2. TypeOK'
    BY <1>6, <2>1 DEF CloseVideo, OpenAfterClose
  <2>3. StaticsTrue'
    BY <1>6 DEF CloseVideo, OpenAfterClose
  <2>4. HeldOnly'
    BY <1>6 DEF CloseVideo, OpenAfterClose
  <2>5. Ready'
    BY <1>6 DEF CloseVideo, OpenAfterClose
  <2> QED
    BY <2>2, <2>3, <2>4, <2>5
<1>7. CASE OpenSubdevice
  BY <1>7, SMTT(30) DEF OpenSubdevice
<1>8. CASE ConfigureSubdevice
  BY <1>8, SMTT(30) DEF ConfigureSubdevice
<1>9. CASE OpenVideo
  BY <1>9, SMTT(30) DEF OpenVideo
<1>10. ASSUME NEW size \in 0 .. MaxSize, SetFormat(size) PROVE IInv'
  BY <1>10, SMTT(30) DEF SetFormat, FailsTo
<1>11. ASSUME NEW n \in 0 .. MaxGranted, RequestBuffers(n) PROVE IInv'
  BY <1>11, SMTT(30) DEF RequestBuffers, FailsTo
<1>12. CASE MapBuffer
  BY <1>12, SMTT(30) DEF MapBuffer, MoreToMap
<1>13. CASE MapsFinished
  BY <1>13, SMTT(30) DEF MapsFinished, MoreToMap, Passes
<1>14. CASE Allocate
  BY <1>14, SMTT(30) DEF Allocate
<1>15. CASE StreamOn
  <2>1. held' \in [Resource -> Nat]
    BY <1>15 DEF StreamOn
  <2>2. TypeOK'
    BY <1>15, <2>1 DEF StreamOn
  <2>3. StaticsTrue'
    BY <1>15 DEF StreamOn
  <2>4. HeldOnly'
    BY <1>15 DEF StreamOn
  <2>5. Ready'
    BY <1>15 DEF StreamOn
  <2> QED
    BY <2>2, <2>3, <2>4, <2>5
<1>16. CASE CreateThread
  BY <1>16, SMTT(30) DEF CreateThread
<1>17. CASE Passes("query", "format") \/ Passes("queue", "map")
  BY <1>17, SMTT(30) DEF Passes
<1>18. ASSUME NEW step \in {"subdevice", "open", "query", "format", "request",
                            "map", "queue", "malloc", "streamon", "thread"},
              Fails(step)
       PROVE  IInv'
  BY <1>18, SMTT(30) DEF Fails, FailsTo
<1>19. CASE UNCHANGED vars
  BY <1>19, SMTT(30) DEF vars
<1> QED
  BY <1>1, <1>2, <1>3, <1>4, <1>5, <1>6, <1>7, <1>8, <1>9, <1>10, <1>11, <1>12,
     <1>13, <1>14, <1>15, <1>16, <1>17, <1>18, <1>19
     DEF Next, Deinit, Acquisition, Failure

-----------------------------------------------------------------------------

\* Every reachable state satisfies the inductive invariant.
LEMMA Invariance == Spec => []IInv
BY InitEstablishes, StepKeeps, PTL DEF Spec

\* The types hold for every number of buffers, every size and any number of
\* calls: no more mappings than the array has room for, and no resource
\* released that is not held.
THEOREM InitTypeCorrect == Spec => []TypeOK
<1>1. IInv => TypeOK
  BY DEF IInv
<1> QED
  BY Invariance, <1>1, PTL

\* The static variables never lie about what is held.
THEOREM InitStaticsTrue == Spec => []StaticsTrue
<1>1. IInv => StaticsTrue
  BY DEF IInv
<1> QED
  BY Invariance, <1>1, PTL

\* A failing init, whichever of its steps fails, and deinit leave nothing held.
THEOREM InitLeaksNothing == Spec => []NothingLeaked
<1>1. IInv => NothingLeaked
  BY DEF IInv, TypeOK, StaticsTrue, HeldOnly, NothingLeaked, Resource
<1> QED
  BY Invariance, <1>1, PTL

\* The stream thread never runs without the device, the buffers and the memory
\* it uses.
THEOREM InitThreadHasAll == Spec => []ThreadHasAll
<1>1. IInv => ThreadHasAll
  BY DEF IInv, TypeOK, StaticsTrue, HeldOnly, Ready, ThreadHasAll
<1> QED
  BY Invariance, <1>1, PTL

=============================================================================
