---------------------------- MODULE BlackBoxProofs ----------------------------
(***************************************************************************)
(* The safety of the recorder as a whole, for every capacity, number of    *)
(* samples and number of runs, and its refinement of Recorder.             *)
(***************************************************************************)
EXTENDS BlackBox, TLAPS

\* Every place main or a task can be at.
Label == Labels["main"] \cup Labels["task1"] \cup Labels["task2"] \cup Labels["task3"]

\* Task 3 has not been given anything yet.
Waiting == {"none", "lock", "cond_wait"}

\* Which tasks exist, and which have ended, follows from where main is.
Order ==
  /\ ~Running \/ pc["main"] \in {"reset", "imu", "camera", "create3"} =>
       pc["task1"] = "none" /\ pc["task2"] = "none" /\ pc["task3"] = "none"
  /\ pc["main"] = "create2" => pc["task1"] = "none" /\ pc["task2"] = "none"
  /\ pc["main"] = "create1" => pc["task1"] = "none"
  /\ pc["main"] \in {"deinit", "return"} => pc["task3"] \in {"returned", "failed"}

\* Tasks 2 and 3 act only after what they are told: before the notification
\* there is no signal, before the hand-over there are no data and no file.
Quiet ==
  /\ pc["task1"] # "returned" => ~sigrtmin /\ pc["task2"] \in {"none", "sigwait"}
  /\ Running /\ pc["task2"] \notin {"sos", "returned"} => ~storage.data_ready
  /\ Running /\ ~storage.data_ready => pc["task3"] \in Waiting
  /\ Running /\ pc["task3"] \in Waiting => telemetry.state = "none"

\* What the device holds, until task 3 has done with it.
Recorded ==
  /\ pc["main"] = "reset" => clock + 1 = first
  /\ Running /\ pc["task1"] = "none" /\ pc["main"] # "reset" =>
       log = <<>> /\ ~frozen /\ clock + 1 = first
  /\ Running /\ pc["task1"] # "none" /\ pc["task3"] # "returned" =>
       log = NewestUpTo(clock)
  /\ pc["task1"] \in {"sample", "store_detection", "store_latency_start",
                      "freeze"} => ~frozen

\* What task 1 has found and stored.
Detected ==
  /\ Running /\ pc["task1"] \in {"none", "sample", "store_detection"} =>
       detection = 0
  /\ pc["task1"] = "store_detection" => first <= clock
  /\ pc["task1"] \in {"store_latency_start", "freeze", "notify", "returned"} =>
       first <= clock /\ detection = clock
  /\ pc["task1"] = "failed" =>
       detection = 0 \/ (first <= clock /\ detection = clock)
  /\ pc["task1"] \in {"freeze", "notify", "returned"} =>
       latency_start \in first .. clock

\* What is copied from task to task is what task 1 stored.
Copies ==
  /\ pc["task2"] \notin {"none", "sigwait", "load_latency_start"} =>
       seen.latency_start = latency_start
  /\ pc["task2"] \notin {"none", "sigwait", "load_latency_start",
                         "load_detection"} => seen.detection = detection
  /\ storage.data_ready => storage.detection = detection /\ detection # 0
  /\ pc["task3"] \notin Waiting =>
       /\ storage.data_ready
       /\ job.detection = storage.detection /\ job.captured = storage.captured

\* What the telemetry is made of.
Filed ==
  /\ pc["task3"] \in {"open_telemetry", "sync_telemetry"} =>
       job.data = NewestUpTo(detection)
  /\ pc["task3"] \in {"create_directory", "open", "ioctl_lock", "read",
                      "open_telemetry"} => telemetry.state = "none"
  /\ pc["task3"] = "sync_telemetry" => telemetry.state = "partial"
  /\ TelemetryExact

\* While an image is on its way to the file, the camera is open.
ImageHeld ==
  \/ pc["task2"] = "hand_image"
  \/ pc["task3"] \in {"lock", "cond_wait"} /\ storage.data_ready /\ storage.captured
  \/ pc["task3"] \notin Waiting \cup {"returned", "failed"} /\ job.captured

CameraOpen == ImageHeld => camera = "streaming"

\* The inductive invariant.
IInv ==
  /\ TypeOK /\ pc \in [Thread -> Label]
  /\ Order /\ Quiet /\ Recorded /\ Detected /\ Copies /\ Filed /\ CameraOpen

-----------------------------------------------------------------------------

\* Every step keeps the order of the threads' lives.
LEMMA OrderKept == IInv /\ [Next]_vars => Order'
<1> SUFFICES ASSUME IInv, [Next]_vars PROVE Order'
  OBVIOUS
<1> USE DEF Running, Goto, Thread, Waiting
<1>0. pc \in [Thread -> Label] /\ Order /\ Quiet
  BY DEF IInv
<1>1. CASE Main
  BY <1>0, <1>1 DEF Order, Main, MainReset, MainInitImu, MainInitCamera,
     MainCreateTasks, MainCreate, MainJoinTasks, MainJoin, AfterJoin2,
     MainDeinitCamera, MainReturns, MainFails, ProcessEnds
<1>2. CASE Task1
  BY <1>0, <1>2 DEF Order, Task1, Task1Sample, AfterSample, Task1Fails,
     Task1StoreDetection, Task1StoreLatencyStart, Task1Freeze, Notifies,
     AfterNotify, Task1Notify, Task1NotifyFails
<1>3. CASE Task2
  BY <1>0, <1>3 DEF Quiet, Order, Task2, Task2Sigwait, Task2LoadLatencyStart,
     Task2LoadDetection, Task2Capture, WakesTask3, Task2HandOver, Task2Sos
<1>4. CASE Task3 \/ SpuriousWakeup
  BY <1>0, <1>4 DEF Order, Task3, Task3Wait, SpuriousWakeup, Task3Load,
     Task3CreateDirectory, Task3Open, Task3Lock, Task3Read, Task3OpenTelemetry,
     Task3SyncTelemetry, Task3NoImage, Task3OpenRaw, Task3SyncRaw,
     Task3WritePpm, Task3Cleanup, HasData
<1>5. CASE Kill \/ Restart \/ UNCHANGED vars
  BY <1>0, <1>5 DEF Order, Kill, Restart, ProcessEnds, vars
<1> QED
  BY <1>1, <1>2, <1>3, <1>4, <1>5 DEF Next

\* Nothing is handed on before it is there.
LEMMA QuietKept == IInv /\ [Next]_vars => Quiet'
<1> SUFFICES ASSUME IInv, [Next]_vars PROVE Quiet'
  OBVIOUS
<1> USE DEF Running, Goto, Thread, Waiting
<1>0. pc \in [Thread -> Label] /\ Order /\ Quiet /\ Detected /\ Copies
      /\ DOMAIN storage = {"data_ready", "detection", "captured"}
      /\ DOMAIN telemetry = {"state", "samples"}
  BY DEF IInv, TypeOK
<1>1. CASE Main
  BY <1>0, <1>1 DEF shared, files, Order, Quiet, Main, MainReset, MainInitImu,
     MainInitCamera,
     MainCreateTasks, MainCreate, MainJoinTasks, MainJoin, AfterJoin2,
     MainDeinitCamera, MainReturns, MainFails, ProcessEnds
<1>2. CASE Task1
  BY <1>0, <1>2 DEF shared, files, Order, Detected, Quiet, Task1, Task1Sample,
     AfterSample, Task1Fails,
     Task1StoreDetection, Task1StoreLatencyStart, Task1Freeze, Notifies,
     AfterNotify, Task1Notify, Task1NotifyFails
<1>3. CASE Task2
  BY <1>0, <1>3 DEF shared, files, Order, Quiet, Task2, Task2Sigwait,
     Task2LoadLatencyStart,
     Task2LoadDetection, Task2Capture, WakesTask3, Task2HandOver, Task2Sos
<1>4. CASE Task3 \/ SpuriousWakeup
  BY <1>0, <1>4 DEF shared, files, Copies, Quiet, Task3, Task3Wait,
     SpuriousWakeup, Task3Load,
     Task3CreateDirectory, Task3Open, Task3Lock, Task3Read, Task3OpenTelemetry,
     Task3SyncTelemetry, Task3NoImage, Task3OpenRaw, Task3SyncRaw,
     Task3WritePpm, Task3Cleanup, HasData
<1>5. CASE Kill \/ Restart \/ UNCHANGED vars
  BY <1>0, <1>5 DEF Order, NoStorage, NoFile, Quiet, Kill, Restart, ProcessEnds,
     vars
<1> QED
  BY <1>1, <1>2, <1>3, <1>4, <1>5 DEF Next

\* What task 1 stores stays what it found.
LEMMA DetectedKept == IInv /\ [Next]_vars => Detected'
<1> SUFFICES ASSUME IInv, [Next]_vars PROVE Detected'
  OBVIOUS
<1> USE DEF Running, Goto, Thread, Waiting
<1>0. /\ pc \in [Thread -> Label] /\ Order /\ Detected
      /\ clock \in Nat /\ first \in Nat \ {0} /\ clock + 1 >= first
  BY BoundAssumption DEF IInv, TypeOK, Stamp
<1>1. CASE Main
  BY <1>0, <1>1 DEF shared, world, Order, Detected, Main, MainReset,
     MainInitImu, MainInitCamera,
     MainCreateTasks, MainCreate, MainJoinTasks, MainJoin, AfterJoin2,
     MainDeinitCamera, MainReturns, MainFails, ProcessEnds
<1>2. CASE Task1
  BY <1>0, <1>2 DEF shared, world, Order, Detected, Task1, Task1Sample,
     AfterSample, Task1Fails,
     Task1StoreDetection, Task1StoreLatencyStart, Task1Freeze, Notifies,
     AfterNotify, Task1Notify, Task1NotifyFails
<1>3. CASE Task2
  BY <1>0, <1>3 DEF shared, world, Detected, Task2, Task2Sigwait,
     Task2LoadLatencyStart,
     Task2LoadDetection, Task2Capture, WakesTask3, Task2HandOver, Task2Sos
<1>4. CASE Task3 \/ SpuriousWakeup
  BY <1>0, <1>4 DEF shared, world, Detected, Task3, Task3Wait, SpuriousWakeup,
     Task3Load,
     Task3CreateDirectory, Task3Open, Task3Lock, Task3Read, Task3OpenTelemetry,
     Task3SyncTelemetry, Task3NoImage, Task3OpenRaw, Task3SyncRaw,
     Task3WritePpm, Task3Cleanup, HasData
<1>5. CASE Kill \/ Restart \/ UNCHANGED vars
  BY <1>0, <1>5 DEF world, Order, Detected, Kill, Restart, ProcessEnds, vars
<1> QED
  BY <1>1, <1>2, <1>3, <1>4, <1>5 DEF Next

\* What is handed on are the stored values.
LEMMA CopiesKept == IInv /\ [Next]_vars => Copies'
<1> SUFFICES ASSUME IInv, [Next]_vars PROVE Copies'
  OBVIOUS
<1> USE DEF Running, Goto, Thread, Waiting
<1>0. /\ pc \in [Thread -> Label] /\ Order /\ Quiet /\ Detected /\ Copies
      /\ clock \in Nat /\ first \in Nat \ {0}
      /\ seen \in [latency_start : Stamp, detection : Stamp]
      /\ storage \in [data_ready : BOOLEAN, detection : Stamp, captured : BOOLEAN]
      /\ job \in [detection : Stamp, captured : BOOLEAN, locked : BOOLEAN,
                  data : Samples]
  BY BoundAssumption DEF IInv, TypeOK, Stamp
<1>1. CASE Main
  BY <1>0, <1>1 DEF shared, Order, Copies, Main, MainReset, MainInitImu,
     MainInitCamera,
     MainCreateTasks, MainCreate, MainJoinTasks, MainJoin, AfterJoin2,
     MainDeinitCamera, MainReturns, MainFails, ProcessEnds
<1>2. CASE Task1
  BY <1>0, <1>2 DEF shared, Order, Quiet, Copies, Task1, Task1Sample,
     AfterSample, Task1Fails,
     Task1StoreDetection, Task1StoreLatencyStart, Task1Freeze, Notifies,
     AfterNotify, Task1Notify, Task1NotifyFails
<1>3. CASE Task2
  BY <1>0, <1>3 DEF shared, Order, Quiet, Detected, Copies, Task2, Task2Sigwait,
     Task2LoadLatencyStart,
     Task2LoadDetection, Task2Capture, WakesTask3, Task2HandOver, Task2Sos
<1>4. CASE Task3 \/ SpuriousWakeup
  BY <1>0, <1>4 DEF shared, Copies, Task3, Task3Wait, SpuriousWakeup, Task3Load,
     Task3CreateDirectory, Task3Open, Task3Lock, Task3Read, Task3OpenTelemetry,
     Task3SyncTelemetry, Task3NoImage, Task3OpenRaw, Task3SyncRaw,
     Task3WritePpm, Task3Cleanup, HasData
<1>5. CASE Kill \/ Restart \/ UNCHANGED vars
  BY <1>0, <1>5 DEF Order, NoStorage, Copies, Kill, Restart, ProcessEnds, vars
<1> QED
  BY <1>1, <1>2, <1>3, <1>4, <1>5 DEF Next

\* The camera stays open while an image is on its way.
LEMMA CameraOpenKept == IInv /\ [Next]_vars => CameraOpen'
<1> SUFFICES ASSUME IInv, [Next]_vars PROVE CameraOpen'
  OBVIOUS
<1> USE DEF Running, Goto, Thread, Waiting
<1>0. /\ pc \in [Thread -> Label] /\ Order /\ Quiet /\ Copies /\ CameraOpen
      /\ storage \in [data_ready : BOOLEAN, detection : Stamp, captured : BOOLEAN]
      /\ job \in [detection : Stamp, captured : BOOLEAN, locked : BOOLEAN,
                  data : Samples]
  BY DEF IInv, TypeOK
<1>1. CASE Main
  BY <1>0, <1>1 DEF ImageHeld, Order, Quiet, Copies, CameraOpen, Main,
     MainReset, MainInitImu, MainInitCamera,
     MainCreateTasks, MainCreate, MainJoinTasks, MainJoin, AfterJoin2,
     MainDeinitCamera, MainReturns, MainFails, ProcessEnds
<1>2. CASE Task1
  BY <1>0, <1>2 DEF ImageHeld, Order, Quiet, Copies, CameraOpen, Task1,
     Task1Sample, AfterSample, Task1Fails,
     Task1StoreDetection, Task1StoreLatencyStart, Task1Freeze, Notifies,
     AfterNotify, Task1Notify, Task1NotifyFails
<1>3. CASE Task2
  BY <1>0, <1>3 DEF ImageHeld, Order, Quiet, Copies, CameraOpen, Task2,
     Task2Sigwait, Task2LoadLatencyStart,
     Task2LoadDetection, Task2Capture, WakesTask3, Task2HandOver, Task2Sos
<1>4. CASE Task3 \/ SpuriousWakeup
  BY <1>0, <1>4 DEF ImageHeld, Order, Quiet, Copies, CameraOpen, Task3,
     Task3Wait, SpuriousWakeup, Task3Load,
     Task3CreateDirectory, Task3Open, Task3Lock, Task3Read, Task3OpenTelemetry,
     Task3SyncTelemetry, Task3NoImage, Task3OpenRaw, Task3SyncRaw,
     Task3WritePpm, Task3Cleanup, HasData
<1>5. CASE Kill \/ Restart \/ UNCHANGED vars
  BY <1>0, <1>5 DEF ImageHeld, Order, Quiet, Copies, CameraOpen, Kill, Restart,
     ProcessEnds, vars
<1> QED
  BY <1>1, <1>2, <1>3, <1>4, <1>5 DEF Next

-----------------------------------------------------------------------------

\* The window is a sequence of at most Capacity samples of this run.
LEMMA WindowType ==
  ASSUME NEW s \in Nat, first \in Nat \ {0}, first <= s + 1
  PROVE  /\ NewestUpTo(s) \in Seq(1 .. s)
         /\ Len(NewestUpTo(s)) <= Capacity
         /\ Len(NewestUpTo(s)) =
              IF s >= first + Capacity THEN Capacity ELSE s + 1 - first
         /\ \A i \in 1 .. Len(NewestUpTo(s)) :
              NewestUpTo(s)[i] = s - Len(NewestUpTo(s)) + i
<1> DEFINE from == IF s >= first + Capacity THEN s - Capacity + 1 ELSE first
           n == s + 1 - from
           w == [i \in 1 .. n |-> from + i - 1]
<1>1. Capacity \in Nat \ {0}
  BY CapacityAssumption
<1>2. from \in Nat \ {0} /\ n \in Nat /\ n <= Capacity /\ from + n = s + 1
      /\ n = IF s >= first + Capacity THEN Capacity ELSE s + 1 - first
  BY <1>1
<1>3. NewestUpTo(s) = w
  BY DEF NewestUpTo
<1> HIDE DEF from, n
<1>4. w \in Seq(1 .. s)
  <2>1. \A i \in 1 .. n : from + i - 1 \in 1 .. s
    BY <1>2
  <2> QED
    BY <1>2, <2>1
<1>5. Len(w) = n
  BY <1>2
<1>6. \A i \in 1 .. n : w[i] = s - n + i
  BY <1>2
<1> QED
  BY <1>2, <1>3, <1>4, <1>5, <1>6

\* Before the first sample of a run the window is empty.
LEMMA WindowEmpty ==
  ASSUME first \in Nat \ {0}, clock \in Nat, clock + 1 = first
  PROVE  NewestUpTo(clock) = <<>>
<1>1. NewestUpTo(clock) \in Seq(1 .. clock) /\ Len(NewestUpTo(clock)) = 0
  BY WindowType, CapacityAssumption
<1> QED
  BY <1>1

\* Sequences of numbers that agree everywhere are one.
LEMMA SameSequence ==
  ASSUME NEW a \in Seq(Nat), NEW b \in Seq(Nat), Len(a) = Len(b),
         \A i \in 1 .. Len(a) : a[i] = b[i]
  PROVE  a = b
OBVIOUS

\* A sequence with one element more.
LEMMA AppendMembers ==
  ASSUME NEW q \in Seq(Nat), NEW x \in Nat
  PROVE  /\ Append(q, x) \in Seq(Nat) /\ Len(Append(q, x)) = Len(q) + 1
         /\ Append(q, x)[Len(q) + 1] = x
         /\ \A i \in 1 .. Len(q) : Append(q, x)[i] = q[i]
OBVIOUS

\* A sequence without its first element.
LEMMA TailMembers ==
  ASSUME NEW q \in Seq(Nat), q # <<>>
  PROVE  /\ Tail(q) \in Seq(Nat) /\ Len(Tail(q)) = Len(q) - 1
         /\ \A i \in 1 .. Len(q) - 1 : Tail(q)[i] = q[i + 1]
OBVIOUS

\* Recording the next sample moves the window on by one.
LEMMA WindowGrows ==
  ASSUME NEW s \in Nat, NEW t \in Nat, t = s + 1, first \in Nat \ {0},
         first <= s + 1, log = NewestUpTo(s)
  PROVE  Log!Extended(t) = NewestUpTo(t)
<1> DEFINE n == Len(log)
           v == NewestUpTo(t)
           e == Log!Extended(t)
<1>1. Capacity \in Nat \ {0}
  BY CapacityAssumption
<1>2. /\ log \in Seq(Nat) /\ n \in Nat /\ n <= Capacity
      /\ n = (IF s >= first + Capacity THEN Capacity ELSE s + 1 - first)
      /\ \A i \in 1 .. n : log[i] = s - n + i
  <2>1. /\ log \in Seq(1 .. s) /\ Len(log) <= Capacity
        /\ Len(log) = (IF s >= first + Capacity THEN Capacity ELSE s + 1 - first)
        /\ \A i \in 1 .. Len(log) : log[i] = s - Len(log) + i
    BY WindowType
  <2>2. log \in Seq(Nat)
    BY <2>1
  <2> QED
    BY <2>1, <2>2
<1>3. /\ v \in Seq(Nat)
      /\ Len(v) = (IF t >= first + Capacity THEN Capacity ELSE t + 1 - first)
      /\ \A i \in 1 .. Len(v) : v[i] = t - Len(v) + i
  <2>1. first <= t + 1
    OBVIOUS
  <2>2. /\ v \in Seq(1 .. t)
        /\ Len(v) = (IF t >= first + Capacity THEN Capacity ELSE t + 1 - first)
        /\ \A i \in 1 .. Len(v) : v[i] = t - Len(v) + i
    BY <2>1, WindowType
  <2>3. v \in Seq(Nat)
    BY <2>2
  <2> QED
    BY <2>2, <2>3
<1>4. e = IF n < Capacity THEN Append(log, t) ELSE Append(Tail(log), t)
  BY DEF Log!Extended
<1> HIDE DEF n, v, e
<1>5. CASE n < Capacity
  <2>1. Len(v) = n + 1
    BY <1>1, <1>2, <1>3, <1>5
  <2>2. e \in Seq(Nat) /\ Len(e) = n + 1 /\ e[n + 1] = t
        /\ \A i \in 1 .. n : e[i] = log[i]
    BY <1>2, <1>4, <1>5, AppendMembers DEF n
  <2>3. ASSUME NEW i \in 1 .. n + 1 PROVE e[i] = v[i]
    <3>0. v[i] = t - (n + 1) + i
      BY <1>3, <2>1
    <3>1. v[i] = s - n + i
      BY <1>2, <3>0
    <3>2. CASE i = n + 1
      <4>1. e[i] = t
        BY <2>2, <3>2
      <4>2. v[i] = t
        BY <1>2, <3>0, <3>2
      <4> QED
        BY <4>1, <4>2
    <3>3. CASE i # n + 1
      <4>1. i \in 1 .. n
        BY <1>2, <3>3
      <4>2. e[i] = log[i] /\ log[i] = s - n + i
        BY <1>2, <2>2, <4>1
      <4> QED
        BY <3>1, <4>2
    <3> QED
      BY <3>2, <3>3
  <2>4. e = v
    BY <1>3, <2>1, <2>2, <2>3, SameSequence
  <2> QED
    BY <2>4 DEF e, v
<1>6. CASE ~(n < Capacity)
  <2>1. Len(v) = n /\ n \in Nat \ {0}
    BY <1>1, <1>2, <1>3, <1>6
  <2> DEFINE q == Tail(log)
  <2>2. q \in Seq(Nat) /\ Len(q) = n - 1 /\ \A i \in 1 .. n - 1 : q[i] = log[i + 1]
    <3>1. log # <<>>
      BY <2>1 DEF n
    <3> QED
      BY <1>2, <3>1, TailMembers DEF n
  <2>3. e = Append(q, t)
    BY <1>4, <1>6
  <2> HIDE DEF q
  <2>4. e \in Seq(Nat) /\ Len(e) = n /\ e[n] = t
        /\ \A i \in 1 .. n - 1 : e[i] = q[i]
    <3>1. n - 1 + 1 = n /\ t \in Nat
      BY <2>1
    <3> QED
      BY <2>2, <2>3, <3>1, AppendMembers
  <2>5. ASSUME NEW i \in 1 .. n PROVE e[i] = v[i]
    <3>1. v[i] = t - n + i
      BY <1>3, <2>1
    <3>2. CASE i = n
      BY <1>2, <2>4, <3>1, <3>2
    <3>3. CASE i # n
      <4>1. i \in 1 .. n - 1 /\ i + 1 \in 1 .. n
        BY <2>1, <3>3
      <4>2. e[i] = log[i + 1] /\ log[i + 1] = s - n + (i + 1)
        BY <1>2, <2>2, <2>4, <4>1
      <4> QED
        BY <2>1, <3>1, <4>2
    <3> QED
      BY <3>2, <3>3
  <2>6. e = v
    BY <1>3, <2>1, <2>4, <2>5, SameSequence
  <2> QED
    BY <2>6 DEF e, v
<1> QED
  BY <1>5, <1>6

\* The window of a sample does not change during a run.
LEMMA WindowStays == first' = first => \A s : NewestUpTo(s)' = NewestUpTo(s)
BY DEF NewestUpTo

-----------------------------------------------------------------------------

\* The device holds the newest samples of the run until task 3 has done.
LEMMA RecordedKept == IInv /\ [Next]_vars => Recorded'
<1> SUFFICES ASSUME IInv, [Next]_vars PROVE Recorded'
  OBVIOUS
<1> USE DEF Running, Goto, Thread, Waiting
<1>0. /\ pc \in [Thread -> Label] /\ Order /\ Quiet /\ Recorded
      /\ clock \in Nat /\ first \in Nat \ {0} /\ first <= clock + 1
  BY BoundAssumption DEF IInv, TypeOK, Stamp
<1>1. UNCHANGED world => NewestUpTo(clock)' = NewestUpTo(clock)
  BY DEF world, NewestUpTo
<1>2. CASE Main
  <2>1. UNCHANGED world
    BY <1>2 DEF Main, MainReset, MainInitImu, MainInitCamera,
           MainCreateTasks, MainCreate, MainJoinTasks, MainJoin, AfterJoin2,
           MainDeinitCamera, MainReturns, MainFails, ProcessEnds
  <2>2. clock + 1 = first => NewestUpTo(clock) = <<>>
    BY <1>0, WindowEmpty
  <2> QED
    BY <1>0, <1>1, <1>2, <2>1, <2>2
       DEF device, world, Order, Recorded, DeviceAtStart, Log!Reset,
           Main, MainReset, MainInitImu, MainInitCamera,
           MainCreateTasks, MainCreate, MainJoinTasks, MainJoin, AfterJoin2,
           MainDeinitCamera, MainReturns, MainFails, ProcessEnds
<1>3. CASE Task1Sample
  <2>1. /\ pc["task1"] = "sample" /\ clock' = clock + 1 /\ first' = first
        /\ log' = Log!Extended(clock + 1) /\ frozen' = frozen
    BY <1>0, <1>3 DEF Task1Sample, Recorded, Log!Record
  <2>2. log = NewestUpTo(clock)
    BY <1>0, <2>1 DEF Order, Quiet, Recorded
  <2>3. log' = NewestUpTo(clock + 1)
    BY <1>0, <2>1, <2>2, WindowGrows
  <2>4. NewestUpTo(clock)' = NewestUpTo(clock + 1)
    BY <2>1 DEF NewestUpTo
  <2> QED
    BY <1>0, <1>3, <2>1, <2>3, <2>4
       DEF Order, Recorded, Task1Sample, AfterSample
<1>4. CASE Task1 /\ ~Task1Sample
  BY <1>0, <1>1, <1>4
     DEF device, world, Order, Recorded, Log!Freeze, Task1, Task1Fails,
     Task1StoreDetection, Task1StoreLatencyStart, Task1Freeze, Notifies,
     AfterNotify, Task1Notify, Task1NotifyFails
<1>5. CASE Task2
  BY <1>0, <1>1, <1>5
     DEF device, world, Order, Recorded, Task2, Task2Sigwait, Task2LoadLatencyStart,
     Task2LoadDetection, Task2Capture, WakesTask3, Task2HandOver, Task2Sos
<1>6. CASE Task3 \/ SpuriousWakeup
  BY <1>0, <1>1, <1>6
     DEF device, world, Order, Quiet, Recorded, Log!Freeze, Log!Reset, Task3,
         Task3Wait, SpuriousWakeup, Task3Load,
     Task3CreateDirectory, Task3Open, Task3Lock, Task3Read, Task3OpenTelemetry,
     Task3SyncTelemetry, Task3NoImage, Task3OpenRaw, Task3SyncRaw,
     Task3WritePpm, Task3Cleanup, HasData
<1>7. CASE Kill \/ Restart \/ UNCHANGED vars
  BY <1>0, <1>1, <1>7 DEF world, Order, Recorded, Kill, Restart, ProcessEnds, vars
<1> QED
  BY <1>2, <1>3, <1>4, <1>5, <1>6, <1>7 DEF Next

\* The telemetry is made of the samples up to the accident.
LEMMA FiledKept == IInv /\ [Next]_vars => Filed'
<1> SUFFICES ASSUME IInv, [Next]_vars PROVE Filed'
  OBVIOUS
<1> USE DEF Running, Goto, Thread, Waiting
<1>0. /\ pc \in [Thread -> Label] /\ Order /\ Quiet /\ Copies /\ Filed
      /\ telemetry \in [state : {"none", "partial", "synced"}, samples : Samples]
      /\ job \in [detection : Stamp, captured : BOOLEAN, locked : BOOLEAN,
                  data : Samples]
  BY DEF IInv, TypeOK
<1>1. UNCHANGED <<first, detection>> =>
        NewestUpTo(detection)' = NewestUpTo(detection)
  BY DEF NewestUpTo
<1>2. CASE Main
  BY <1>0, <1>1, <1>2
     DEF files, shared, world, Order, Filed, TelemetryExact, Main, MainReset,
         MainInitImu, MainInitCamera,
     MainCreateTasks, MainCreate, MainJoinTasks, MainJoin, AfterJoin2,
     MainDeinitCamera, MainReturns, MainFails, ProcessEnds
<1>3. CASE Task1
  BY <1>0, <1>1, <1>3
     DEF files, shared, world, Order, Quiet, Filed, TelemetryExact, Task1,
         Task1Sample, AfterSample, Task1Fails,
     Task1StoreDetection, Task1StoreLatencyStart, Task1Freeze, Notifies,
     AfterNotify, Task1Notify, Task1NotifyFails
<1>4. CASE Task2
  BY <1>0, <1>1, <1>4
     DEF files, shared, world, Order, Copies, Filed, TelemetryExact, Task2,
         Task2Sigwait, Task2LoadLatencyStart,
     Task2LoadDetection, Task2Capture, WakesTask3, Task2HandOver, Task2Sos
<1>5. CASE Task3Read
  <2>1. pc["task3"] = "read" => log = NewestUpTo(detection)
    BY <1>0 DEF IInv, Order, Quiet, Copies, Recorded, Detected
  <2> QED
    BY <1>0, <1>1, <1>5, <2>1
       DEF files, shared, world, Filed, TelemetryExact, Task3Read
<1>6. CASE (Task3 /\ ~Task3Read) \/ SpuriousWakeup
  BY <1>0, <1>1, <1>6
     DEF files, shared, world, Order, Quiet, Copies, Filed, TelemetryExact,
         Task3, Task3Wait, SpuriousWakeup, Task3Load,
     Task3CreateDirectory, Task3Open, Task3Lock, Task3OpenTelemetry,
     Task3SyncTelemetry, Task3NoImage, Task3OpenRaw, Task3SyncRaw,
     Task3WritePpm, Task3Cleanup, HasData
<1>7. CASE Kill
  BY <1>0, <1>1, <1>7
     DEF files, world, Order, Filed, TelemetryExact, Kill, ProcessEnds
<1>8. CASE Restart
  <2>1. telemetry'.state = "none" /\ pc'["task3"] = "none"
    BY <1>0, <1>8 DEF Restart, NoFile, Order
  <2> QED
    BY <2>1 DEF Filed, TelemetryExact
<1>9. CASE UNCHANGED vars
  BY <1>0, <1>1, <1>9 DEF vars, Filed, TelemetryExact
<1> QED
  BY <1>2, <1>3, <1>4, <1>5, <1>6, <1>7, <1>8, <1>9 DEF Next

\* Every step keeps the types.
LEMMA TypesKept == IInv /\ [Next]_vars => TypeOK' /\ pc' \in [Thread -> Label]
<1> SUFFICES ASSUME IInv, [Next]_vars
             PROVE  TypeOK' /\ pc' \in [Thread -> Label]
  OBVIOUS
<1> USE DEF Running, Goto, Thread, Stamp
<1>0. /\ pc \in [Thread -> Label] /\ TypeOK
      /\ MaxSamples \in Nat /\ MaxRuns \in Nat \ {0} /\ Capacity \in Nat \ {0}
  BY BoundAssumption, CapacityAssumption DEF IInv
<1>1. pc' \in [Thread -> Label]
  <2> USE DEF Label, Labels
  <2>1. CASE Main
    BY <1>0, <2>1 DEF Main, MainReset, MainInitImu, MainInitCamera,
       MainCreateTasks, MainCreate, MainJoinTasks, MainJoin, AfterJoin2,
       MainDeinitCamera, MainReturns, MainFails, ProcessEnds
  <2>2. CASE Task1
    BY <1>0, <2>2 DEF Task1, Task1Sample, AfterSample, Task1Fails,
       Task1StoreDetection, Task1StoreLatencyStart, Task1Freeze, Notifies,
       AfterNotify, Task1Notify, Task1NotifyFails
  <2>3. CASE Task2
    BY <1>0, <2>3 DEF Task2, Task2Sigwait, Task2LoadLatencyStart,
       Task2LoadDetection, Task2Capture, WakesTask3, Task2HandOver, Task2Sos
  <2>4. CASE Task3 \/ SpuriousWakeup
    BY <1>0, <2>4 DEF Task3, Task3Wait, SpuriousWakeup, Task3Load,
       Task3CreateDirectory, Task3Open, Task3Lock, Task3Read, Task3OpenTelemetry,
       Task3SyncTelemetry, Task3NoImage, Task3OpenRaw, Task3SyncRaw,
       Task3WritePpm, Task3Cleanup, HasData
  <2>5. CASE Kill \/ Restart \/ UNCHANGED vars
    BY <1>0, <2>5 DEF Kill, Restart, ProcessEnds, vars
  <2> QED
    BY <2>1, <2>2, <2>3, <2>4, <2>5 DEF Next
<1>2. \A t \in Thread : pc'[t] \in Labels[t]
  <2> SUFFICES /\ pc'["main"] \in Labels["main"] /\ pc'["task1"] \in Labels["task1"]
               /\ pc'["task2"] \in Labels["task2"] /\ pc'["task3"] \in Labels["task3"]
    OBVIOUS
  <2>0. /\ pc \in [Thread -> Label]
        /\ pc["main"] \in Labels["main"] /\ pc["task1"] \in Labels["task1"]
        /\ pc["task2"] \in Labels["task2"] /\ pc["task3"] \in Labels["task3"]
    BY <1>0 DEF TypeOK
  <2>1. CASE Main
    BY <2>0, <2>1 DEF Labels, Main, MainReset, MainInitImu, MainInitCamera,
       MainCreateTasks, MainCreate, MainJoinTasks, MainJoin, AfterJoin2,
       MainDeinitCamera, MainReturns, MainFails, ProcessEnds
  <2>2. CASE Task1
    BY <2>0, <2>2 DEF Labels, Task1, Task1Sample, AfterSample, Task1Fails,
       Task1StoreDetection, Task1StoreLatencyStart, Task1Freeze, Notifies,
       AfterNotify, Task1Notify, Task1NotifyFails
  <2>3. CASE Task2
    BY <2>0, <2>3 DEF Labels, Task2, Task2Sigwait, Task2LoadLatencyStart,
       Task2LoadDetection, Task2Capture, WakesTask3, Task2HandOver, Task2Sos
  <2>4. CASE Task3 \/ SpuriousWakeup
    BY <2>0, <2>4 DEF Labels, Task3, Task3Wait, SpuriousWakeup, Task3Load,
       Task3CreateDirectory, Task3Open, Task3Lock, Task3Read, Task3OpenTelemetry,
       Task3SyncTelemetry, Task3NoImage, Task3OpenRaw, Task3SyncRaw,
       Task3WritePpm, Task3Cleanup, HasData
  <2>5. CASE Kill \/ Restart \/ UNCHANGED vars
    BY <2>0, <2>5 DEF Labels, Kill, Restart, ProcessEnds, vars
  <2> QED
    BY <2>1, <2>2, <2>3, <2>4, <2>5 DEF Next
<1>3. log' \in Samples /\ Len(log') <= Capacity /\ frozen' \in BOOLEAN
  <2>1. log \in Samples /\ Len(log) <= Capacity /\ frozen \in BOOLEAN
    BY <1>0 DEF TypeOK
  <2>2. CASE UNCHANGED <<log, frozen>>
    BY <2>1, <2>2
  <2>3. CASE Log!Freeze \/ Log!Reset
    <3>1. CASE Log!Freeze
      BY <2>1, <3>1 DEF Log!Freeze
    <3>2. CASE Log!Reset
      <4>1. <<>> \in Samples /\ Len(<<>>) = 0
        BY DEF Samples
      <4>2. log' = <<>> /\ frozen' = FALSE
        BY <3>2 DEF Log!Reset
      <4>3. frozen' \in BOOLEAN
        BY <4>2
      <4>4. log' \in Samples /\ Len(log') <= Capacity
        BY <1>0, <4>1, <4>2
      <4> QED
        BY <4>3, <4>4
    <3> QED
      BY <2>3, <3>1, <3>2
  <2>4. CASE Task1Sample
    <3>1. CASE log' = Log!Extended(clock + 1) /\ frozen' = frozen
      <4>1. clock + 1 \in 1 .. MaxSamples
        BY <1>0, <2>4 DEF TypeOK, Task1Sample
      <4>2. CASE Len(log) < Capacity
        BY <1>0, <2>1, <3>1, <4>1, <4>2 DEF Log!Extended, Samples
      <4>3. CASE ~(Len(log) < Capacity)
        <5>1. Len(log) \in Nat \ {0} /\ log # <<>>
          BY <1>0, <2>1, <4>3 DEF Samples
        <5>2. /\ Tail(log) \in Seq(1 .. MaxSamples)
              /\ Len(Tail(log)) = Len(log) - 1
          BY <2>1, <5>1 DEF Samples
        <5> QED
          BY <1>0, <2>1, <3>1, <4>1, <4>3, <5>1, <5>2 DEF Log!Extended, Samples
      <4> QED
        BY <4>2, <4>3
    <3> QED
      BY <2>2, <2>4, <3>1 DEF Task1Sample, Log!Record, device
  <2> QED
    BY <2>2, <2>3, <2>4
       DEF Next, device, Log!Freeze, Log!Reset, DeviceAtStart, Main, MainReset,
           MainInitImu, MainInitCamera,
       MainCreateTasks, MainCreate, MainJoinTasks, MainJoin, AfterJoin2,
       MainDeinitCamera, MainReturns, MainFails, ProcessEnds, Task1,
       Task1Sample, Task1Fails,
       Task1StoreDetection, Task1StoreLatencyStart, Task1Freeze, Task1Notify,
       Task1NotifyFails, Task2, Task2Sigwait, Task2LoadLatencyStart,
       Task2LoadDetection, Task2Capture, Task2HandOver, Task2Sos, Task3,
       Task3Wait, SpuriousWakeup, Task3Load,
       Task3CreateDirectory, Task3Open, Task3Lock, Task3Read, Task3OpenTelemetry,
       Task3SyncTelemetry, Task3NoImage, Task3OpenRaw, Task3SyncRaw,
       Task3WritePpm, Task3Cleanup, Kill, Restart, vars
<1>4. /\ clock' \in Stamp /\ first' \in 1 .. clock' + 1 /\ runs' \in 1 .. MaxRuns
      /\ camera' \in {"off", "streaming", "closed"}
      /\ sigrtmin' \in BOOLEAN /\ raw' \in {"none", "partial", "synced"}
      /\ latency_start' \in Stamp /\ detection' \in Stamp
  <2> USE DEF world, shared, files
  <2>1. CASE Main
    BY <1>0, <2>1 DEF TypeOK, Main, MainReset, MainInitImu, MainInitCamera,
       MainCreateTasks, MainCreate, MainJoinTasks, MainJoin, AfterJoin2,
       MainDeinitCamera, MainReturns, MainFails, ProcessEnds
  <2>2. CASE Task1
    <3>1. CASE Task1Sample
      BY <1>0, <3>1 DEF TypeOK, Task1Sample
    <3>2. CASE Task1StoreLatencyStart
      BY <1>0, <3>2 DEF TypeOK, Task1StoreLatencyStart
    <3>3. CASE Task1 /\ ~Task1Sample /\ ~Task1StoreLatencyStart
      BY <1>0, <3>3 DEF TypeOK, Task1, Task1Fails,
         Task1StoreDetection, Task1Freeze, Notifies,
         AfterNotify, Task1Notify, Task1NotifyFails
    <3> QED
      BY <2>2, <3>1, <3>2, <3>3
  <2>3. CASE Task2
    BY <1>0, <2>3 DEF TypeOK, Task2, Task2Sigwait, Task2LoadLatencyStart,
       Task2LoadDetection, Task2Capture, WakesTask3, Task2HandOver, Task2Sos
  <2>4. CASE Task3 \/ SpuriousWakeup
    BY <1>0, <2>4 DEF TypeOK, Task3, Task3Wait, SpuriousWakeup, Task3Load,
       Task3CreateDirectory, Task3Open, Task3Lock, Task3Read, Task3OpenTelemetry,
       Task3SyncTelemetry, Task3NoImage, Task3OpenRaw, Task3SyncRaw,
       Task3WritePpm, Task3Cleanup, HasData
  <2>5. CASE Kill
    BY <1>0, <2>5 DEF TypeOK, Kill, ProcessEnds
  <2>6. CASE Restart
    BY <1>0, <2>6 DEF TypeOK, Restart
  <2>7. CASE UNCHANGED vars
    BY <1>0, <2>7 DEF TypeOK, vars
  <2> QED
    BY <2>1, <2>2, <2>3, <2>4, <2>5, <2>6, <2>7 DEF Next
<1>5. /\ seen' \in [latency_start : Stamp, detection : Stamp]
      /\ storage' \in [data_ready : BOOLEAN, detection : Stamp, captured : BOOLEAN]
      /\ job' \in [detection : Stamp, captured : BOOLEAN, locked : BOOLEAN,
                   data : Samples]
      /\ telemetry' \in [state : {"none", "partial", "synced"}, samples : Samples]
  <2>0. /\ seen \in [latency_start : Stamp, detection : Stamp]
        /\ storage \in [data_ready : BOOLEAN, detection : Stamp, captured : BOOLEAN]
        /\ job \in [detection : Stamp, captured : BOOLEAN, locked : BOOLEAN,
                    data : Samples]
        /\ telemetry \in [state : {"none", "partial", "synced"}, samples : Samples]
        /\ latency_start \in Stamp /\ detection \in Stamp /\ log \in Samples
    BY <1>0 DEF TypeOK
  <2>1. CASE UNCHANGED <<seen, storage, job, telemetry>>
    BY <2>0, <2>1
  <2>2. CASE Task2LoadLatencyStart
    BY <2>0, <2>2 DEF shared, files, Task2LoadLatencyStart
  <2>3. CASE Task2LoadDetection
    BY <2>0, <2>3 DEF shared, files, Task2LoadDetection
  <2>4. CASE Task2HandOver
    BY <2>0, <2>4 DEF shared, files, Task2HandOver
  <2>5. CASE Task3Load
    BY <2>0, <2>5 DEF shared, files, Task3Load
  <2>6. CASE Task3Lock
    BY <2>0, <2>6 DEF shared, files, Task3Lock, device
  <2>7. CASE Task3Read
    BY <2>0, <2>7 DEF shared, files, Task3Read
  <2>8. CASE Task3OpenTelemetry
    BY <2>0, <2>8 DEF shared, files, Task3OpenTelemetry
  <2>9. CASE Task3SyncTelemetry
    BY <2>0, <2>9 DEF shared, files, Task3SyncTelemetry
  <2>10. CASE Restart
    <3>1. <<>> \in Samples
      BY DEF Samples
    <3>2. 0 \in Stamp
      BY <1>0
    <3> QED
      BY <2>10, <3>1, <3>2 DEF Restart, NoSeen, NoStorage, NoJob, NoFile
  <2> QED
    BY <2>1, <2>2, <2>3, <2>4, <2>5, <2>6, <2>7, <2>8, <2>9, <2>10
       DEF Next, files, Main, MainReset, MainInitImu, MainInitCamera,
       MainCreateTasks, MainCreate, MainJoinTasks, MainJoin, AfterJoin2,
       MainDeinitCamera, MainReturns, MainFails, ProcessEnds, Task1,
       Task1Sample, Task1Fails,
       Task1StoreDetection, Task1StoreLatencyStart, Task1Freeze, Task1Notify,
       Task1NotifyFails, Task2, Task2Sigwait, Task2LoadLatencyStart,
       Task2LoadDetection, Task2Capture, Task2HandOver, Task2Sos, Task3,
       Task3Wait, SpuriousWakeup, Task3Load,
       Task3CreateDirectory, Task3Open, Task3Lock, Task3Read, Task3OpenTelemetry,
       Task3SyncTelemetry, Task3NoImage, Task3OpenRaw, Task3SyncRaw,
       Task3WritePpm, Task3Cleanup, Kill, vars
<1> QED
  BY <1>1, <1>2, <1>3, <1>4, <1>5 DEF TypeOK

-----------------------------------------------------------------------------

\* The first start of the program.
LEMMA InitSatisfies == Init => IInv
<1> SUFFICES ASSUME Init PROVE IInv
  OBVIOUS
<1> USE DEF Init, Log!LogInit, NoSeen, NoStorage, NoJob, NoFile
<1>1. /\ MaxSamples \in Nat /\ MaxRuns \in Nat \ {0} /\ Capacity \in Nat \ {0}
      /\ <<>> \in Samples /\ Len(<<>>) = 0 /\ 0 \in Stamp
  BY BoundAssumption, CapacityAssumption DEF Samples, Stamp
<1>2. pc \in [Thread -> Label] /\ \A t \in Thread : pc[t] \in Labels[t]
  BY DEF Thread, Label, Labels
<1>3. /\ pc["main"] = "reset" /\ pc["task1"] = "none" /\ pc["task2"] = "none"
      /\ pc["task3"] = "none"
  BY DEF Thread
<1>4. TypeOK
  <2>1. log \in Samples /\ Len(log) <= Capacity /\ frozen \in BOOLEAN
        /\ sigrtmin \in BOOLEAN
    <3>1. log = <<>> /\ frozen = FALSE /\ sigrtmin = FALSE
      OBVIOUS
    <3>2. log \in Samples /\ Len(log) <= Capacity
      BY <1>1, <3>1
    <3>3. frozen \in BOOLEAN /\ sigrtmin \in BOOLEAN
      BY <3>1
    <3> QED
      BY <3>2, <3>3
  <2>2. /\ seen \in [latency_start : Stamp, detection : Stamp]
        /\ storage \in [data_ready : BOOLEAN, detection : Stamp, captured : BOOLEAN]
        /\ job \in [detection : Stamp, captured : BOOLEAN, locked : BOOLEAN,
                    data : Samples]
        /\ telemetry \in [state : {"none", "partial", "synced"}, samples : Samples]
    BY <1>1
  <2>3. clock \in Stamp /\ first \in 1 .. clock + 1 /\ runs \in 1 .. MaxRuns
    BY <1>1
  <2>4. DOMAIN pc = Thread /\ \A t \in Thread : pc[t] \in Labels[t]
    BY <1>2
  <2> HIDE DEF NoSeen, NoStorage, NoJob, NoFile
  <2> QED
    BY <1>1, <2>1, <2>2, <2>3, <2>4 DEF TypeOK
<1>5. Order /\ Quiet /\ Recorded /\ Detected
  BY <1>3 DEF Order, Quiet, Recorded, Detected, Waiting
<1>6. Copies /\ Filed /\ CameraOpen
  BY <1>3 DEF Copies, Filed, TelemetryExact, CameraOpen, ImageHeld, Waiting
<1> QED
  BY <1>2, <1>4, <1>5, <1>6 DEF IInv

\* Every reachable state satisfies the inductive invariant.
LEMMA Invariance == Spec => []IInv
<1>1. IInv /\ [Next]_vars => IInv'
  BY OrderKept, QuietKept, DetectedKept, CopiesKept, CameraOpenKept,
     RecordedKept, FiledKept, TypesKept DEF IInv
<1> QED
  BY InitSatisfies, <1>1, PTL DEF Spec

\* The types, and with them the bounds of the log.
THEOREM SystemTypeCorrect == Spec => []TypeOK
<1>1. IInv => TypeOK
  BY DEF IInv
<1> QED
  BY Invariance, <1>1, PTL

\* While task 1 monitors, the device records exactly this run's samples,
\* whatever earlier runs left and wherever they were killed.
THEOREM MonitoringCorrect == Spec => []MonitoringUndisturbed
<1>1. IInv => MonitoringUndisturbed
  BY DEF IInv, Order, Quiet, Recorded, Waiting, MonitoringUndisturbed
<1> QED
  BY Invariance, <1>1, PTL

\* A complete telemetry file holds exactly the samples up to this run's
\* accident, whatever fails.
THEOREM TelemetryCorrect == Spec => []TelemetryExact
<1>1. IInv => TelemetryExact
  BY DEF IInv, Filed
<1> QED
  BY Invariance, <1>1, PTL

\* The two timestamps that cross threads without a mutex are never mixed.
THEOREM TimestampsCorrect == Spec => []TimestampsCoherent
<1>1. IInv => TimestampsCoherent
  <2> SUFFICES ASSUME IInv,
                      pc["task2"] \in {"capture", "hand_image", "hand_nothing",
                                      "sos", "returned"}
               PROVE  /\ seen = [latency_start |-> latency_start,
                                 detection |-> detection]
                      /\ first <= seen.latency_start
                      /\ seen.latency_start <= seen.detection
    BY DEF TimestampsCoherent
  <2>1. seen.latency_start = latency_start /\ seen.detection = detection
    BY DEF IInv, Copies
  <2>2. seen \in [latency_start : Stamp, detection : Stamp]
    BY DEF IInv, TypeOK
  <2>3. pc["task1"] = "returned"
    BY DEF IInv, Quiet
  <2>4. detection = clock /\ latency_start \in first .. clock
    BY <2>3 DEF IInv, Detected
  <2> QED
    BY <2>1, <2>2, <2>4
<1> QED
  BY Invariance, <1>1, PTL

\* The image's memory is there for as long as task 3 writes it to the disk.
THEOREM SecureImageCorrect == Spec => []SecureImageLive
<1>1. IInv => SecureImageLive
  BY DEF IInv, CameraOpen, ImageHeld, Waiting, SecureImageLive
<1> QED
  BY Invariance, <1>1, PTL

-----------------------------------------------------------------------------

\* The record that is kept, as Recorder sees it.
Kept == IF telemetry.state = "synced" THEN telemetry.samples ELSE <<>>

\* What Recorder sees of a state.
LEMMA PhaseOf ==
  ASSUME IInv
  PROVE  /\ ~Running => Phase = "off"
         /\ Running /\ pc["task1"] = "none" => Phase = "starting"
         /\ pc["task1"] \in {"sample", "store_detection"} =>
              Running /\ Phase = "monitoring"
         /\ pc["task1"] \notin {"none", "sample", "store_detection"} =>
              /\ Running
              /\ Phase = IF detection = 0 THEN "stopped" ELSE "accident"
         /\ Running => Phase # "off"
BY DEF IInv, Order, Phase

\* A step that Recorder does not see.
LEMMA Unseen ==
  ASSUME pc'["main"] = pc["main"], pc'["task1"] = pc["task1"],
         UNCHANGED <<clock, first, runs, detection>>, Kept' = Kept
  PROVE  UNCHANGED Recording!vars
BY DEF Recording!vars, Phase, Running, Kept

\* Every step is one of Recorder's, or one it does not see.
LEMMA StepRefines ==
  ASSUME IInv, IInv', [Next]_vars
  PROVE  [Recording!Next]_Recording!vars
<1> USE DEF Goto, Thread
<1>0. pc \in [Thread -> Label] /\ DOMAIN telemetry = {"state", "samples"}
  BY DEF IInv, TypeOK
<1>1. UNCHANGED telemetry => Kept' = Kept
  BY DEF Kept
<1>2. CASE Kill \/ MainReturns \/ MainFails
  <2>1. /\ Running /\ ~Running'
        /\ UNCHANGED <<clock, first, runs, detection, telemetry>>
    BY <1>0, <1>2 DEF Running, Kill, MainReturns, MainFails, ProcessEnds, world,
       files
  <2>2. Phase # "off" /\ Phase' = "off"
    BY <2>1, PhaseOf DEF Phase
  <2>3. Recording!PowerOff
    BY <1>1, <2>1, <2>2 DEF Recording!PowerOff, Kept
  <2> QED
    BY <2>3 DEF Recording!Next
<1>3. CASE Restart
  <2>1. /\ ~Running /\ runs < MaxRuns /\ runs' = runs + 1 /\ first' = clock + 1
        /\ detection' = 0 /\ clock' = clock /\ Kept' = <<>>
    BY <1>3 DEF Restart, NoFile, Kept
  <2>2. pc'["main"] = "reset" /\ pc'["task1"] = "none"
    BY <1>0, <1>3 DEF IInv, Order, Restart
  <2>3. Phase = "off" /\ Phase' = "starting"
    BY <2>1, <2>2, PhaseOf DEF Phase, Running
  <2>4. Recording!PowerOn
    BY <2>1, <2>3 DEF Recording!PowerOn, Kept
  <2> QED
    BY <2>4 DEF Recording!Next
<1>4. CASE MainCreate("create1", "task1", "sample", "join1")
  <2>1. /\ pc["main"] = "create1" /\ pc["task1"] = "none"
        /\ pc'["main"] = "join1" /\ pc'["task1"] = "sample"
        /\ UNCHANGED <<clock, first, runs, detection, telemetry>>
    BY <1>0, <1>4 DEF IInv, Order, MainCreate, world, shared, files
  <2>2. Phase = "starting" /\ Phase' = "monitoring"
    BY <2>1 DEF Phase, Running
  <2>3. Recording!Begin
    BY <1>1, <2>1, <2>2 DEF Recording!Begin, Kept
  <2> QED
    BY <2>3 DEF Recording!Next
<1>5. CASE MainReset \/ MainInitImu \/ MainInitCamera \/ MainJoinTasks
           \/ MainDeinitCamera
           \/ MainCreate("create3", "task3", "lock", "create2")
           \/ MainCreate("create2", "task2", "sigwait", "create1")
  <2>1. /\ Running /\ Running' /\ pc'["task1"] = pc["task1"]
        /\ UNCHANGED <<clock, first, runs, detection, telemetry>>
    BY <1>0, <1>5
       DEF Running, MainReset, MainInitImu, MainInitCamera, MainCreate,
           MainJoinTasks, MainJoin, AfterJoin2, MainDeinitCamera, world, shared,
           files
  <2>2. Phase' = Phase
    BY <2>1 DEF Phase
  <2> QED
    BY <1>1, <2>1, <2>2 DEF Recording!vars, Kept
<1>6. CASE Task1Sample
  <2>1. /\ pc["task1"] = "sample" /\ pc'["task1"] \in {"sample", "store_detection"}
        /\ clock < MaxSamples /\ clock' = clock + 1
        /\ UNCHANGED <<first, runs, detection, telemetry>>
        /\ pc'["main"] = pc["main"]
    BY <1>0, <1>6 DEF Task1Sample, AfterSample, shared, files
  <2>2. Phase = "monitoring" /\ Phase' = Phase
    BY <2>1, PhaseOf DEF Phase, Running
  <2>3. Recording!Take
    BY <1>1, <2>1, <2>2 DEF Recording!Take, Kept
  <2> QED
    BY <2>3 DEF Recording!Next
<1>7. CASE Task1StoreDetection
  <2>1. /\ pc["task1"] = "store_detection" /\ pc'["task1"] = "store_latency_start"
        /\ detection' = clock /\ clock >= first /\ first \in Nat \ {0}
        /\ clock \in Nat
        /\ UNCHANGED <<clock, first, runs, telemetry>> /\ pc'["main"] = pc["main"]
    BY <1>0, <1>7, BoundAssumption
       DEF IInv, TypeOK, Stamp, Detected, Task1StoreDetection, world, files
  <2>2. Phase = "monitoring" /\ Phase' = "accident"
    BY <2>1, PhaseOf DEF Phase, Running
  <2>3. Recording!Detect
    BY <1>1, <2>1, <2>2 DEF Recording!Detect, Kept
  <2> QED
    BY <2>3 DEF Recording!Next
<1>8. CASE Task1Fails
  <2>1. /\ pc["task1"] = "sample" /\ pc'["task1"] = "failed" /\ detection' = 0
        /\ UNCHANGED <<clock, first, runs, detection, telemetry>>
        /\ pc'["main"] = pc["main"]
    BY <1>0, <1>8, PhaseOf DEF IInv, Detected, Task1Fails, world, shared, files
  <2>2. Phase = "monitoring" /\ Phase' = "stopped"
    BY <2>1, PhaseOf DEF Phase, Running
  <2>3. Recording!Stop
    BY <1>1, <2>1, <2>2 DEF Recording!Stop, Kept
  <2> QED
    BY <2>3 DEF Recording!Next
<1>9. CASE Task1StoreLatencyStart \/ Task1Freeze \/ Task1Notify \/ Task1NotifyFails
  <2>1. /\ pc["task1"] \in {"store_latency_start", "freeze", "notify"}
        /\ pc'["task1"] \in {"freeze", "notify", "returned", "failed"}
        /\ UNCHANGED <<clock, first, runs, detection, telemetry>>
        /\ pc'["main"] = pc["main"]
    BY <1>0, <1>9
       DEF Task1StoreLatencyStart, Task1Freeze, Notifies, AfterNotify, Task1Notify,
           Task1NotifyFails, world, shared, files
  <2>2. Phase' = Phase
    BY <2>1 DEF Phase, Running
  <2> QED
    BY <1>1, <2>1, <2>2 DEF Recording!vars, Kept
<1>10. CASE Task2
  <2>1. /\ pc'["main"] = pc["main"] /\ pc'["task1"] = pc["task1"]
        /\ UNCHANGED <<clock, first, runs, detection, telemetry>>
    BY <1>0, <1>10 DEF world, shared, files, Task2, Task2Sigwait,
       Task2LoadLatencyStart,
           Task2LoadDetection, Task2Capture, WakesTask3, Task2HandOver, Task2Sos
  <2> QED
    BY <1>1, <2>1, Unseen
<1>11. CASE Task3OpenTelemetry
  <2>1. /\ pc'["main"] = pc["main"] /\ pc'["task1"] = pc["task1"]
        /\ UNCHANGED <<clock, first, runs, detection>>
    BY <1>0, <1>11 DEF Task3OpenTelemetry, world, shared
  <2>2. Kept = <<>> /\ Kept' = <<>>
    BY <1>0, <1>11 DEF IInv, Filed, Task3OpenTelemetry, Kept
  <2> QED
    BY <2>1, <2>2, Unseen
<1>12. CASE Task3SyncTelemetry
  <2>1. /\ pc["task3"] = "sync_telemetry"
        /\ pc'["main"] = pc["main"] /\ pc'["task1"] = pc["task1"]
        /\ UNCHANGED <<clock, first, runs, detection>>
    BY <1>0, <1>12 DEF Task3SyncTelemetry, world, shared
  <2>2. CASE UNCHANGED telemetry
    BY <1>1, <2>1, <2>2, Unseen
  <2>3. CASE telemetry' = [state |-> "synced", samples |-> job.data]
    <3>1. pc["task1"] = "returned" /\ detection # 0
      BY <2>1 DEF IInv, Order, Quiet, Copies, Waiting, Running
    <3>2. Phase = "accident" /\ Phase' = Phase
      BY <2>1, <3>1, PhaseOf DEF Phase, Running
    <3>3. Kept = <<>> /\ Kept' = NewestUpTo(detection)
      BY <2>1, <2>3 DEF IInv, Filed, Kept
    <3>4. NewestUpTo(detection) = Recording!Newest(first, detection)
      BY DEF NewestUpTo, Recording!Newest
    <3>5. Recording!Keep
      BY <2>1, <3>2, <3>3, <3>4 DEF Recording!Keep, Kept
    <3> QED
      BY <3>5 DEF Recording!Next
  <2> QED
    BY <1>12, <2>2, <2>3 DEF Task3SyncTelemetry
<1>13. CASE SpuriousWakeup \/ (Task3 /\ ~Task3OpenTelemetry /\ ~Task3SyncTelemetry)
  <2>1. /\ pc'["main"] = pc["main"] /\ pc'["task1"] = pc["task1"]
        /\ UNCHANGED <<clock, first, runs, detection, telemetry>>
    BY <1>0, <1>13 DEF world, shared, files, Task3, Task3Wait, SpuriousWakeup,
       Task3Load,
           Task3CreateDirectory, Task3Open, Task3Lock, Task3Read,
           Task3NoImage, Task3OpenRaw, Task3SyncRaw,
           Task3WritePpm, Task3Cleanup, HasData
  <2> QED
    BY <1>1, <2>1, Unseen
<1>14. CASE UNCHANGED vars
  BY <1>14, Unseen DEF vars, Kept
<1> QED
  BY <1>2, <1>3, <1>4, <1>5, <1>6, <1>7, <1>8, <1>9, <1>10, <1>11, <1>12, <1>13,
     <1>14 DEF Next, Main, MainCreateTasks, Task1

\* The tasks, with their signal, their mutex and their device, implement the
\* recorder, for every capacity and any number of runs, kills and failures.
THEOREM Refinement == Spec => ImplementsRecorder
<1>1. Init => Recording!Init
  BY DEF Init, Recording!Init, Phase, Running, Thread, NoFile
<1>2. IInv /\ IInv' /\ [Next]_vars => [Recording!Next]_Recording!vars
  BY StepRefines
<1> QED
  BY Invariance, <1>1, <1>2, PTL DEF Spec, ImplementsRecorder, Recording!Spec

-----------------------------------------------------------------------------
(* The safety side of AccidentHandled: after the notification nobody waits *)
(* for something that will not come, and what is left to do gets less.     *)

\* Task 2 has been notified and the program has not ended.
Notified == Running /\ pc["task1"] = "returned"

\* Who can go on without anybody else.
Task2Turn ==
  /\ pc["task2"] \notin {"none", "returned"}
  /\ pc["task2"] = "sigwait" => sigrtmin

Task3Turn ==
  /\ pc["task3"] \notin {"none", "cond_wait", "returned", "failed"}
  /\ pc["task3"] = "lock" => HasData

MainTurn ==
  \/ pc["main"] \in {"deinit", "return"}
  \/ pc["main"] = "join1" /\ pc["task1"] \in {"returned", "failed"}
  \/ pc["main"] = "join2" /\ pc["task2"] \in {"returned", "failed"}
  \/ pc["main"] = "join3" /\ pc["task3"] \in {"returned", "failed"}

\* The steps a thread has left at most; waiting for data is none.
LeftForMain ==
  CASE pc["main"] = "join1"  -> 5
    [] pc["main"] = "join2"  -> 4
    [] pc["main"] = "join3"  -> 3
    [] pc["main"] = "deinit" -> 2
    [] pc["main"] = "return" -> 1
    [] OTHER -> 0

LeftForTask2 ==
  CASE pc["task2"] = "sigwait"            -> 6
    [] pc["task2"] = "load_latency_start" -> 5
    [] pc["task2"] = "load_detection"     -> 4
    [] pc["task2"] = "capture"            -> 3
    [] pc["task2"] \in {"hand_image", "hand_nothing"} -> 2
    [] pc["task2"] = "sos"                -> 1
    [] OTHER -> 0

LeftForTask3 ==
  CASE pc["task3"] \in {"lock", "cond_wait"} -> 11
    [] pc["task3"] = "create_directory" -> 10
    [] pc["task3"] = "open"             -> 9
    [] pc["task3"] = "ioctl_lock"       -> 8
    [] pc["task3"] = "read"             -> 7
    [] pc["task3"] = "open_telemetry"   -> 6
    [] pc["task3"] = "sync_telemetry"   -> 5
    [] pc["task3"] = "write_raw"        -> 4
    [] pc["task3"] = "sync_raw"         -> 3
    [] pc["task3"] = "write_ppm"        -> 2
    [] pc["task3"] = "cleanup"          -> 1
    [] OTHER -> 0

Left == LeftForMain + LeftForTask2 + LeftForTask3

\* No signal and no wakeup is lost and every join is answered: somebody can go on.
SomebodyGoesOn == Notified => Task2Turn \/ Task3Turn \/ MainTurn

\* Task 3 goes to wait for data that are not there yet, or looks for them.
WaitsForData ==
  /\ ~storage.data_ready
  /\ pc["task3"] \in {"lock", "cond_wait"} /\ pc'["task3"] \in {"lock", "cond_wait"}
  /\ UNCHANGED <<device, world, camera, shared, seen, storage, job, files>>
  /\ \A t \in Thread \ {"task3"} : pc'[t] = pc[t]

\* The program ends, or has less left to do, or task 3 waits for task 2.
LessLeft == Notified => ~Running' \/ (Notified' /\ (Left' < Left \/ WaitsForData))

\* A turn is not taken away: it is used, or the program ends.
TurnsKept ==
  Notified =>
    /\ Task2Turn => (Task2 \/ Task2Turn' \/ ~Running')
    /\ Task3Turn => (Task3 \/ Task3Turn' \/ ~Running')
    /\ MainTurn  => (Main \/ MainTurn' \/ ~Running')

\* What the comment at task 1's LOCK says, as far as it is true: frozen samples
\* are given up only by the start of a run, and by the UNLOCK of a task 3 that
\* had locked the device.
FrozenGivenUp ==
  frozen /\ log # <<>> /\ log' # log =>
    pc["main"] = "reset" \/ (pc["task3"] = "cleanup" /\ job.locked)

\* The tasks that main has created are there.
Lives ==
  /\ pc["main"] \notin {"reset", "imu", "camera", "create3", "exited", "killed"} =>
       pc["task3"] # "none"
  /\ pc["main"] \in {"create1", "join1", "join2", "join3", "deinit", "return"} =>
       pc["task2"] # "none"

\* What a task waits for is there once the task before it has done its part.
Told ==
  /\ pc["task1"] = "returned" /\ pc["task2"] = "sigwait" => sigrtmin
  /\ pc["task2"] \in {"sos", "returned"} => storage.data_ready
  /\ pc["task3"] = "cond_wait" => ~storage.data_ready

\* Main creates the tasks in the order 3, 2, 1.
LEMMA LivesKept == IInv /\ Lives /\ [Next]_vars => Lives'
<1> SUFFICES ASSUME IInv, Lives, [Next]_vars PROVE Lives'
  OBVIOUS
<1> USE DEF Lives, Goto, Thread
<1>0. pc \in [Thread -> Label]
  BY DEF IInv
<1>1. CASE Main
  BY <1>0, <1>1 DEF Main, MainReset, MainInitImu, MainInitCamera,
     MainCreateTasks, MainCreate, MainJoinTasks, MainJoin, AfterJoin2,
     MainDeinitCamera, MainReturns, MainFails, ProcessEnds
<1>2. CASE Task1
  BY <1>0, <1>2 DEF Task1, Task1Sample, AfterSample, Task1Fails,
     Task1StoreDetection, Task1StoreLatencyStart, Task1Freeze, Notifies,
     AfterNotify, Task1Notify, Task1NotifyFails
<1>3. CASE Task2
  BY <1>0, <1>3 DEF Task2, Task2Sigwait, Task2LoadLatencyStart,
     Task2LoadDetection, Task2Capture, WakesTask3, Task2HandOver, Task2Sos
<1>4. CASE Task3 \/ SpuriousWakeup
  BY <1>0, <1>4 DEF Task3, Task3Wait, SpuriousWakeup, Task3Load,
     Task3CreateDirectory, Task3Open, Task3Lock, Task3Read, Task3OpenTelemetry,
     Task3SyncTelemetry, Task3NoImage, Task3OpenRaw, Task3SyncRaw,
     Task3WritePpm, Task3Cleanup
<1>5. CASE Kill \/ Restart \/ UNCHANGED vars
  BY <1>0, <1>5 DEF Kill, Restart, ProcessEnds, vars
<1> QED
  BY <1>1, <1>2, <1>3, <1>4, <1>5 DEF Next

\* No signal and no wakeup is lost.
LEMMA ToldKept == IInv /\ Told /\ [Next]_vars => Told'
<1> SUFFICES ASSUME IInv, Told, [Next]_vars PROVE Told'
  OBVIOUS
<1> USE DEF Told, Running, Goto, Thread, Waiting, shared
<1>0. pc \in [Thread -> Label] /\ Order /\ Quiet
  BY DEF IInv
<1>1. CASE Main
  BY <1>0, <1>1 DEF Order, Quiet, Main, MainReset, MainInitImu, MainInitCamera,
     MainCreateTasks, MainCreate, MainJoinTasks, MainJoin, AfterJoin2,
     MainDeinitCamera, MainReturns, MainFails, ProcessEnds
<1>2. CASE Task1
  BY <1>0, <1>2 DEF Task1, Task1Sample, AfterSample, Task1Fails,
     Task1StoreDetection, Task1StoreLatencyStart, Task1Freeze, Notifies,
     AfterNotify, Task1Notify, Task1NotifyFails
<1>3. CASE Task2
  BY <1>0, <1>3 DEF Task2, Task2Sigwait, Task2LoadLatencyStart,
     Task2LoadDetection, Task2Capture, WakesTask3, Task2HandOver, Task2Sos
<1>4. CASE Task3 \/ SpuriousWakeup
  BY <1>0, <1>4 DEF Task3, Task3Wait, SpuriousWakeup, Task3Load,
     Task3CreateDirectory, Task3Open, Task3Lock, Task3Read, Task3OpenTelemetry,
     Task3SyncTelemetry, Task3NoImage, Task3OpenRaw, Task3SyncRaw,
     Task3WritePpm, Task3Cleanup, HasData
<1>5. CASE Kill \/ Restart \/ UNCHANGED vars
  BY <1>0, <1>5 DEF Order, Kill, Restart, ProcessEnds, vars
<1> QED
  BY <1>1, <1>2, <1>3, <1>4, <1>5 DEF Next

LEMMA ToldInvariance == Spec => [](IInv /\ Lives /\ Told)
<1>1. Init => Lives /\ Told
  BY DEF Init, Lives, Told, Thread
<1>2. IInv /\ Lives /\ Told /\ [Next]_vars => (Lives /\ Told)'
  BY LivesKept, ToldKept
<1> QED
  BY Invariance, <1>1, <1>2, PTL DEF Spec

\* After the notification there is always a task, or main, that can go on by
\* itself: the signal is there for task 2, task 3 does not sleep over data it
\* has been given, and nobody joins a task that never ends.
THEOREM NobodyWaitsInVain == Spec => []SomebodyGoesOn
<1>1. IInv /\ Lives /\ Told => SomebodyGoesOn
  <2> SUFFICES ASSUME IInv, Lives, Told, Notified
               PROVE  Task2Turn \/ Task3Turn \/ MainTurn
    BY DEF SomebodyGoesOn
  <2>1. pc["main"] \in {"join1", "join2", "join3", "deinit", "return"}
    BY DEF IInv, TypeOK, Labels, Thread, Order, Notified, Running
  <2>2. pc["task2"] # "none" /\ pc["task3"] # "none"
    BY <2>1 DEF Lives
  <2> QED
    BY <2>1, <2>2 DEF Told, Notified, Task2Turn, Task3Turn, MainTurn, HasData
<1> QED
  BY ToldInvariance, <1>1, PTL

-----------------------------------------------------------------------------

\* What is left is a number, and at most 22.
LEMMA LeftBounded ==
  /\ LeftForMain \in 0 .. 5 /\ LeftForTask2 \in 0 .. 6 /\ LeftForTask3 \in 0 .. 11
  /\ Left \in 0 .. 22
<1>1. LeftForMain \in 0 .. 5
  BY DEF LeftForMain
<1>2. LeftForTask2 \in 0 .. 6
  BY DEF LeftForTask2
<1>3. LeftForTask3 \in 0 .. 11
  BY DEF LeftForTask3
<1> QED
  BY <1>1, <1>2, <1>3 DEF Left

\* A step of one thread that has less left and leaves the others what they had.
LEMMA OneHasLess ==
  ASSUME LeftForMain' \in 0 .. 5, LeftForTask2' \in 0 .. 6, LeftForTask3' \in 0 .. 11,
         \/ /\ LeftForMain' < LeftForMain
            /\ LeftForTask2' = LeftForTask2 /\ LeftForTask3' = LeftForTask3
         \/ /\ LeftForTask2' < LeftForTask2
            /\ LeftForMain' = LeftForMain /\ LeftForTask3' = LeftForTask3
         \/ /\ LeftForTask3' < LeftForTask3
            /\ LeftForMain' = LeftForMain /\ LeftForTask2' = LeftForTask2
  PROVE  Left' < Left
<1>1. \A a, b, c, x, y, z \in Nat :
        x <= a /\ y <= b /\ z <= c /\ (x < a \/ y < b \/ z < c) =>
          x + y + z < a + b + c
  OBVIOUS
<1>2. Left = LeftForMain + LeftForTask2 + LeftForTask3
      /\ Left' = LeftForMain' + LeftForTask2' + LeftForTask3'
  BY DEF Left
<1>3. LeftForMain \in Nat /\ LeftForTask2 \in Nat /\ LeftForTask3 \in Nat
      /\ LeftForMain' \in Nat /\ LeftForTask2' \in Nat /\ LeftForTask3' \in Nat
  BY LeftBounded
<1>4. LeftForMain' <= LeftForMain /\ LeftForTask2' <= LeftForTask2
      /\ LeftForTask3' <= LeftForTask3
  BY <1>3
<1> QED
  BY <1>1, <1>2, <1>3, <1>4

\* Every step after the notification uses up one of the at most 22 that are left,
\* unless task 3 waits for what task 2 has not handed over yet: the program
\* comes to its end, whatever fails, whatever order the threads run in.
LEMMA StepHasLess == IInv /\ Told /\ [Next]_vars => [LessLeft]_vars
<1> SUFFICES ASSUME IInv, Told, Next, Notified, Running'
             PROVE  Notified' /\ (Left' < Left \/ WaitsForData)
  BY DEF LessLeft
<1> USE DEF Goto, Thread, Notified, Running
<1>0. /\ pc \in [Thread -> Label] /\ Order
      /\ pc["main"] \in {"join1", "join2", "join3", "deinit", "return"}
  BY DEF IInv, TypeOK, Labels, Order
<1>a. LeftForMain' \in 0 .. 5 /\ LeftForTask2' \in 0 .. 6 /\ LeftForTask3' \in 0 .. 11
  BY DEF LeftForMain, LeftForTask2, LeftForTask3
<1>1. CASE Main
  <2>1. MainJoinTasks \/ MainDeinitCamera
    BY <1>0, <1>1 DEF Main, MainReset, MainInitImu, MainInitCamera,
       MainCreateTasks, MainCreate, MainReturns, MainFails, ProcessEnds
  <2>2. \E l \in {"join2", "join3", "deinit", "return"} :
          /\ pc' = [pc EXCEPT !["main"] = l]
          /\ \/ pc["main"] = "join1" /\ l = "join2"
             \/ pc["main"] = "join2" /\ l = "join3"
             \/ pc["main"] = "join3" /\ l = "deinit"
             \/ pc["main"] = "deinit" /\ l = "return"
    BY <2>1 DEF MainJoinTasks, MainJoin, AfterJoin2, MainDeinitCamera
  <2>3. /\ pc'["task1"] = pc["task1"] /\ pc'["task2"] = pc["task2"]
        /\ pc'["task3"] = pc["task3"]
    BY <1>0, <2>2
  <2>4. LeftForMain' < LeftForMain
    BY <1>0, <2>2 DEF LeftForMain
  <2>5. LeftForTask2' = LeftForTask2 /\ LeftForTask3' = LeftForTask3
    BY <2>3 DEF LeftForTask2, LeftForTask3
  <2> QED
    BY <1>a, <2>3, <2>4, <2>5, OneHasLess
<1>2. CASE Task1
  BY <1>2 DEF Task1, Task1Sample, Task1Fails, Task1StoreDetection,
     Task1StoreLatencyStart, Task1Freeze, Notifies, Task1Notify, Task1NotifyFails
<1>3. CASE Task2
  <2>1. /\ pc'["task1"] = pc["task1"] /\ pc'["main"] = pc["main"]
        /\ LeftForTask3' = LeftForTask3
    BY <1>0, <1>3 DEF LeftForTask3, Task2, Task2Sigwait, Task2LoadLatencyStart,
       Task2LoadDetection, Task2Capture, WakesTask3, Task2HandOver, Task2Sos
  <2>2. LeftForTask2' < LeftForTask2
    BY <1>0, <1>3 DEF LeftForTask2, Task2, Task2Sigwait, Task2LoadLatencyStart,
       Task2LoadDetection, Task2Capture, WakesTask3, Task2HandOver, Task2Sos
  <2>3. LeftForMain' = LeftForMain
    BY <2>1 DEF LeftForMain
  <2> QED
    BY <1>a, <2>1, <2>2, <2>3, OneHasLess
<1>4. CASE Task3Wait \/ SpuriousWakeup
  <2>1. /\ pc["task3"] \in {"lock", "cond_wait"} /\ pc'["task3"] \in {"lock", "cond_wait"}
        /\ \A t \in Thread \ {"task3"} : pc'[t] = pc[t]
        /\ UNCHANGED <<device, world, camera, shared, seen, storage, job, files>>
    BY <1>0, <1>4 DEF Task3Wait, SpuriousWakeup
  <2>2. ~storage.data_ready
    BY <1>4 DEF Task3Wait, SpuriousWakeup, HasData, Told
  <2> QED
    BY <2>1, <2>2 DEF WaitsForData
<1>5. CASE Task3 /\ ~Task3Wait
  <2>1. /\ pc'["task1"] = pc["task1"] /\ pc'["main"] = pc["main"]
        /\ pc'["task2"] = pc["task2"] /\ LeftForTask3' < LeftForTask3
    BY <1>0, <1>5 DEF LeftForTask3, Task3, Task3Load, Task3CreateDirectory,
       Task3Open, Task3Lock, Task3Read, Task3OpenTelemetry, Task3SyncTelemetry,
       Task3NoImage, Task3OpenRaw, Task3SyncRaw, Task3WritePpm, Task3Cleanup
  <2>2. LeftForMain' = LeftForMain /\ LeftForTask2' = LeftForTask2
    BY <2>1 DEF LeftForMain, LeftForTask2
  <2> QED
    BY <1>a, <2>1, <2>2, OneHasLess
<1>6. CASE Kill \/ Restart
  BY <1>0, <1>6 DEF Kill, Restart, ProcessEnds
<1> QED
  BY <1>1, <1>2, <1>3, <1>4, <1>5, <1>6 DEF Next

\* At most 22 steps after the notification, other than task 3's waiting for task
\* 2, the program has ended.
THEOREM EndsInSteps == Spec => [](Left \in 0 .. 22) /\ [][LessLeft]_vars
<1>1. Left \in 0 .. 22
  BY LeftBounded
<1>2. IInv /\ Lives /\ Told /\ [Next]_vars => [LessLeft]_vars
  BY StepHasLess
<1> QED
  BY ToldInvariance, <1>1, <1>2, PTL DEF Spec

\* A turn is used or the program ends: no step of one thread makes another wait
\* that could have gone on.
THEOREM TurnsAreKept == Spec => [][TurnsKept]_vars
<1>1. IInv /\ Told /\ [Next]_vars => [TurnsKept]_vars
  <2> SUFFICES ASSUME IInv, Told, Next, Notified, Running'
               PROVE  /\ Task2Turn => (Task2 \/ Task2Turn')
                      /\ Task3Turn => (Task3 \/ Task3Turn')
                      /\ MainTurn  => (Main \/ MainTurn')
    BY DEF TurnsKept
  <2> USE DEF Goto, Thread, Notified, Running, Task2Turn, Task3Turn, MainTurn
  <2>0. /\ pc \in [Thread -> Label] /\ Order /\ Quiet
        /\ pc["main"] \in {"join1", "join2", "join3", "deinit", "return"}
    BY DEF IInv, TypeOK, Labels, Order
  <2>1. CASE Main
    <3>1. /\ \A t \in Thread \ {"main"} : pc'[t] = pc[t]
          /\ UNCHANGED <<sigrtmin, storage>>
      BY <2>0, <2>1 DEF shared, Main, MainReset, MainInitImu, MainInitCamera,
         MainCreateTasks, MainCreate, MainJoinTasks, MainJoin, AfterJoin2,
         MainDeinitCamera, MainReturns, MainFails, ProcessEnds
    <3> QED
      BY <2>1, <3>1 DEF HasData
  <2>2. CASE Task1
    BY <2>2 DEF Task1, Task1Sample, Task1Fails, Task1StoreDetection,
       Task1StoreLatencyStart, Task1Freeze, Notifies, Task1Notify, Task1NotifyFails
  <2>3. CASE Task2
    <3>1. /\ pc'["task1"] = pc["task1"] /\ pc'["main"] = pc["main"]
          /\ pc'["task3"] = pc["task3"] \/ pc["task3"] = "cond_wait"
          /\ pc["task2"] # "returned"
          /\ storage' = storage \/ storage'.data_ready
      BY <2>0, <2>3 DEF Task2, Task2Sigwait, Task2LoadLatencyStart,
         Task2LoadDetection, Task2Capture, WakesTask3, Task2HandOver, Task2Sos
    <3> QED
      BY <2>3, <3>1 DEF HasData, Told, Task2, Task2Sigwait, Task2LoadLatencyStart,
         Task2LoadDetection, Task2Capture, Task2HandOver, Task2Sos
  <2>4. CASE Task3 \/ SpuriousWakeup
    <3>1. /\ \A t \in Thread \ {"task3"} : pc'[t] = pc[t]
          /\ UNCHANGED <<sigrtmin, storage>>
          /\ Task3 \/ pc["task3"] = "cond_wait"
          /\ pc["task3"] \notin {"returned", "failed"}
      BY <2>0, <2>4 DEF shared, Task3, Task3Wait, SpuriousWakeup, Task3Load,
         Task3CreateDirectory, Task3Open, Task3Lock, Task3Read,
         Task3OpenTelemetry, Task3SyncTelemetry, Task3NoImage, Task3OpenRaw,
         Task3SyncRaw, Task3WritePpm, Task3Cleanup
    <3> QED
      BY <2>4, <3>1
  <2>5. CASE Kill \/ Restart
    BY <2>0, <2>5 DEF Kill, Restart, ProcessEnds
  <2> QED
    BY <2>1, <2>2, <2>3, <2>4, <2>5 DEF Next
<1> QED
  BY ToldInvariance, <1>1, PTL DEF Spec

\* What is left of the promise that freezing keeps the samples from being
\* overwritten: they are given up only where a run starts, and in the UNLOCK of
\* a task 3 whose own LOCK succeeded, never by a write.
THEOREM FrozenSamplesKept == Spec => [][FrozenGivenUp]_vars
<1>1. [Next]_vars => [FrozenGivenUp]_vars
  <2> SUFFICES ASSUME Next, frozen, log' # log
               PROVE  pc["main"] = "reset" \/ (pc["task3"] = "cleanup" /\ job.locked)
    BY DEF FrozenGivenUp
  <2> USE DEF device
  <2>1. CASE Main
    BY <2>1 DEF Main, MainReset, MainInitImu, MainInitCamera, MainCreateTasks,
       MainCreate, MainJoinTasks, MainJoin, MainDeinitCamera, MainReturns, MainFails
  <2>2. CASE Task1
    BY <2>2 DEF Task1, Task1Sample, Task1Fails, Task1StoreDetection,
       Task1StoreLatencyStart, Task1Freeze, Task1Notify, Task1NotifyFails,
       Log!Freeze
  <2>3. CASE Task2
    BY <2>3 DEF Task2, Task2Sigwait, Task2LoadLatencyStart, Task2LoadDetection,
       Task2Capture, Task2HandOver, Task2Sos
  <2>4. CASE Task3 \/ SpuriousWakeup \/ Kill \/ Restart
    BY <2>4 DEF Task3, Task3Wait, SpuriousWakeup, Task3Load,
       Task3CreateDirectory, Task3Open, Task3Lock, Task3Read,
       Task3OpenTelemetry, Task3SyncTelemetry, Task3NoImage, Task3OpenRaw,
       Task3SyncRaw, Task3WritePpm, Task3Cleanup, Log!Freeze, Kill, Restart
  <2> QED
    BY <2>1, <2>2, <2>3, <2>4 DEF Next
<1> QED
  BY <1>1, PTL DEF Spec

=============================================================================
