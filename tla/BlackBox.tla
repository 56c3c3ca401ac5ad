------------------------------- MODULE BlackBox -------------------------------
(***************************************************************************)
(* The recorder as a whole: main and the three tasks of src/, over the     *)
(* crash buffer device (CrashLog, which the driver implements) and the     *)
(* camera service.  One behaviour may hold several runs of the program:    *)
(* the process can be killed at any moment and started again, while the    *)
(* device, being in the kernel, keeps what it holds.                       *)
(*                                                                         *)
(* A sample is its timestamp, counted from 1 on a clock that goes on       *)
(* across runs, so 0 is the value of a static nobody wrote.  What makes a  *)
(* sample an accident is left open; so is the first sample above the       *)
(* threshold, somewhere before.  A section under storage_args.mutex is one *)
(* action.  sigwait cannot fail for the valid signal set it is given, so   *)
(* task 2's early return is left out.                                      *)
(***************************************************************************)
EXTENDS Naturals, Sequences

CONSTANTS
  Capacity,     \* BUFFER_SIZE
  MaxSamples,   \* bound: samples taken in a behaviour
  MaxRuns       \* bound: starts of the program in a behaviour

ASSUME CapacityAssumption == Capacity \in Nat \ {0}
ASSUME BoundAssumption == MaxSamples \in Nat /\ MaxRuns \in Nat \ {0}

VARIABLES
  log, frozen,            \* the crash buffer device
  pc,                     \* where main and the tasks are
  clock, first,           \* latest sample; the first this run may take
  runs,                   \* starts of the program so far
  camera,                 \* "off", "streaming" or "closed"
  latency_start, detection,   \* main's two shared timestamps
  sigrtmin,               \* SIGRTMIN is pending for task 2
  seen,                   \* task 2's copies of the two timestamps
  storage,                \* storage_args
  job,                    \* task 3's locals
  telemetry, raw          \* the files of the crash directory

device == <<log, frozen>>
shared == <<latency_start, detection, sigrtmin>>
files  == <<telemetry, raw>>
world  == <<clock, first, runs>>
vars   == <<log, frozen, pc, clock, first, runs, camera, latency_start,
            detection, sigrtmin, seen, storage, job, telemetry, raw>>

Log == INSTANCE CrashLog WITH Sample <- 1 .. MaxSamples

Thread == {"main", "task1", "task2", "task3"}

\* Statics and zeroed structures, and a crash directory that does not exist.
NoSeen    == [latency_start |-> 0, detection |-> 0]
NoStorage == [data_ready |-> FALSE, detection |-> 0, captured |-> FALSE]
NoJob     == [detection |-> 0, captured |-> FALSE, locked |-> FALSE,
              data |-> <<>>]
NoFile    == [state |-> "none", samples |-> <<>>]

Goto(t, label) == pc' = [pc EXCEPT ![t] = label]

-----------------------------------------------------------------------------

Init ==
  /\ Log!LogInit
  /\ pc = [t \in Thread |-> IF t = "main" THEN "reset" ELSE "none"]
  /\ clock = 0 /\ first = 1 /\ runs = 1
  /\ camera = "off"
  /\ latency_start = 0 /\ detection = 0 /\ sigrtmin = FALSE
  /\ seen = NoSeen /\ storage = NoStorage /\ job = NoJob
  /\ telemetry = NoFile /\ raw = "none"

\* However the process ends, its threads end with it.
ProcessEnds(how) ==
  /\ pc' = [t \in Thread |-> IF t = "main" THEN how ELSE "none"]
  /\ camera' = "off" /\ sigrtmin' = FALSE

Running == pc["main"] \notin {"exited", "killed"}

Kill ==
  /\ Running
  /\ ProcessEnds("killed")
  /\ UNCHANGED <<device, world, latency_start, detection, seen, storage, job,
                 files>>

Restart ==
  /\ ~Running /\ runs < MaxRuns
  /\ runs' = runs + 1
  /\ first' = clock + 1
  /\ Goto("main", "reset")
  /\ latency_start' = 0 /\ detection' = 0
  /\ seen' = NoSeen /\ storage' = NoStorage /\ job' = NoJob
  /\ telemetry' = NoFile /\ raw' = "none"
  /\ UNCHANGED <<device, clock, camera, sigrtmin>>

-----------------------------------------------------------------------------
\* main

\* A failing step of the start-up cleans up and leaves the program.
MainFails ==
  /\ pc["main"] \in {"reset", "imu", "create3", "create2", "create1"}
  /\ ProcessEnds("exited")
  /\ UNCHANGED <<device, world, latency_start, detection, seen, storage, job,
                 files>>

\* Mutant: the buffer a former run left is used as it is.
DeviceAtStartKept == UNCHANGED <<log, frozen>>
DeviceAtStart == Log!Reset

MainReset ==
  /\ pc["main"] = "reset"
  /\ DeviceAtStart
  /\ Goto("main", "imu")
  /\ UNCHANGED <<world, camera, shared, seen, storage, job, files>>

\* lsm9ds1_open, lsm9ds1_init and SIGRTMIN blocked.
MainInitImu ==
  /\ pc["main"] = "imu"
  /\ Goto("main", "camera")
  /\ UNCHANGED <<device, world, camera, shared, seen, storage, job, files>>

\* Without a camera the program goes on.
MainInitCamera ==
  /\ pc["main"] = "camera"
  /\ camera' \in {"streaming", "off"}
  /\ Goto("main", "create3")
  /\ UNCHANGED <<device, world, shared, seen, storage, job, files>>

MainCreate(step, task, at, next) ==
  /\ pc["main"] = step
  /\ pc' = [pc EXCEPT !["main"] = next, ![task] = at]
  /\ UNCHANGED <<device, world, camera, shared, seen, storage, job, files>>

MainCreateTasks ==
  \/ MainCreate("create3", "task3", "lock", "create2")
  \/ MainCreate("create2", "task2", "sigwait", "create1")
  \/ MainCreate("create1", "task1", "sample", "join1")

MainJoin(step, task, next) ==
  /\ pc["main"] = step /\ pc[task] \in {"returned", "failed"}
  /\ Goto("main", next)
  /\ UNCHANGED <<device, world, camera, shared, seen, storage, job, files>>

\* Mutant: main does not wait for task 3.
AfterJoin2Deinit == "deinit"
AfterJoin2 == "join3"

MainJoinTasks ==
  \/ MainJoin("join1", "task1", "join2")
  \/ MainJoin("join2", "task2", AfterJoin2)
  \/ MainJoin("join3", "task3", "deinit")

\* The secure image memory is gone from here on.
MainDeinitCamera ==
  /\ pc["main"] = "deinit"
  /\ camera' = "closed"
  /\ Goto("main", "return")
  /\ UNCHANGED <<device, world, shared, seen, storage, job, files>>

MainReturns ==
  /\ pc["main"] = "return"
  /\ ProcessEnds("exited")
  /\ UNCHANGED <<device, world, latency_start, detection, seen, storage, job,
                 files>>

Main == MainReset \/ MainInitImu \/ MainInitCamera \/ MainCreateTasks
        \/ MainJoinTasks \/ MainDeinitCamera \/ MainReturns \/ MainFails

-----------------------------------------------------------------------------
\* task1_lsm9ds1

\* Where task 1 goes when the sample confirms an accident, and when it does
\* not.
AfterSample(accident) == IF accident THEN "store_detection" ELSE "sample"

\* One period: read the sensor, write the sample to the device, detect.
Task1Sample ==
  /\ pc["task1"] = "sample" /\ clock < MaxSamples
  /\ clock' = clock + 1
  /\ IF frozen THEN UNCHANGED device ELSE Log!Record(clock + 1)
  /\ \E accident \in BOOLEAN : Goto("task1", AfterSample(accident))
  /\ UNCHANGED <<first, runs, camera, shared, seen, storage, job, files>>

\* The sensor, a clock, the write or the sleep fails: the loop is left.
Task1Fails ==
  /\ pc["task1"] = "sample"
  /\ Goto("task1", "failed")
  /\ UNCHANGED <<device, world, camera, shared, seen, storage, job, files>>

Task1StoreDetection ==
  /\ pc["task1"] = "store_detection"
  /\ detection' = clock
  /\ Goto("task1", "store_latency_start")
  /\ UNCHANGED <<device, world, camera, latency_start, sigrtmin, seen, storage,
                 job, files>>

\* The first sample of the run above the threshold.
Task1StoreLatencyStart ==
  /\ pc["task1"] = "store_latency_start"
  /\ latency_start' \in first .. clock
  /\ Goto("task1", "freeze")
  /\ UNCHANGED <<device, world, camera, detection, sigrtmin, seen, storage, job,
                 files>>

Task1Freeze ==
  /\ pc["task1"] = "freeze"
  /\ Log!Freeze \/ UNCHANGED device
  /\ Goto("task1", "notify")
  /\ UNCHANGED <<world, camera, shared, seen, storage, job, files>>

\* Mutant: task 2 is notified before the timestamps are complete.
NotifiesEarly == pc["task1"] \in {"store_latency_start", "notify"}
Notifies == pc["task1"] = "notify"

\* Mutant: task 1 goes on sampling after an accident.
AfterNotifySample == "sample"
AfterNotify == "returned"

Task1Notify ==
  /\ Notifies
  /\ sigrtmin' = TRUE
  /\ Goto("task1", AfterNotify)
  /\ UNCHANGED <<device, world, camera, latency_start, detection, seen, storage,
                 job, files>>

\* pthread_kill fails, the real-time signal cannot be queued.
Task1NotifyFails ==
  /\ pc["task1"] = "notify"
  /\ Goto("task1", "failed")
  /\ UNCHANGED <<device, world, camera, shared, seen, storage, job, files>>

Task1 == Task1Sample \/ Task1Fails \/ Task1StoreDetection
         \/ Task1StoreLatencyStart \/ Task1Freeze \/ Task1Notify
         \/ Task1NotifyFails

-----------------------------------------------------------------------------
\* task2_camera

Task2Sigwait ==
  /\ pc["task2"] = "sigwait" /\ sigrtmin
  /\ sigrtmin' = FALSE
  /\ Goto("task2", "load_latency_start")
  /\ UNCHANGED <<device, world, camera, latency_start, detection, seen, storage,
                 job, files>>

Task2LoadLatencyStart ==
  /\ pc["task2"] = "load_latency_start"
  /\ seen' = [seen EXCEPT !.latency_start = latency_start]
  /\ Goto("task2", "load_detection")
  /\ UNCHANGED <<device, world, camera, shared, storage, job, files>>

Task2LoadDetection ==
  /\ pc["task2"] = "load_detection"
  /\ seen' = [seen EXCEPT !.detection = detection]
  /\ Goto("task2", "capture")
  /\ UNCHANGED <<device, world, camera, shared, storage, job, files>>

\* camera_capture_snapshot returns; the label remembers how.
Task2Capture ==
  /\ pc["task2"] = "capture"
  /\ \/ camera = "streaming" /\ Goto("task2", "hand_image")
     \/ Goto("task2", "hand_nothing")
  /\ UNCHANGED <<device, world, camera, shared, seen, storage, job, files>>

\* Mutant: the hand-over is not announced to a task 3 that already waits.
WakesTask3Never(label) == label
WakesTask3(label) == IF label = "cond_wait" THEN "lock" ELSE label

Task2HandOver ==
  /\ pc["task2"] \in {"hand_image", "hand_nothing"}
  /\ storage' = [data_ready |-> TRUE,
                 detection  |-> seen.detection,
                 captured   |-> pc["task2"] = "hand_image"]
  /\ pc' = [pc EXCEPT !["task2"] = "sos", !["task3"] = WakesTask3(@)]
  /\ UNCHANGED <<device, world, camera, shared, seen, job, files>>

Task2Sos ==
  /\ pc["task2"] = "sos"
  /\ Goto("task2", "returned")
  /\ UNCHANGED <<device, world, camera, shared, seen, storage, job, files>>

Task2 == Task2Sigwait \/ Task2LoadLatencyStart \/ Task2LoadDetection
         \/ Task2Capture \/ Task2HandOver \/ Task2Sos

-----------------------------------------------------------------------------
\* storage_task and storage_task_save_crash_data

\* Mutant: waking up is taken for having data.
HasDataAssumed == TRUE
HasData == storage.data_ready

Task3Wait ==
  /\ pc["task3"] = "lock" /\ ~HasData
  /\ Goto("task3", "cond_wait")
  /\ UNCHANGED <<device, world, camera, shared, seen, storage, job, files>>

SpuriousWakeup ==
  /\ pc["task3"] = "cond_wait"
  /\ Goto("task3", "lock")
  /\ UNCHANGED <<device, world, camera, shared, seen, storage, job, files>>

Task3Load ==
  /\ pc["task3"] = "lock" /\ HasData
  /\ job' = [job EXCEPT !.detection = storage.detection,
                        !.captured = storage.captured]
  /\ Goto("task3", "create_directory")
  /\ UNCHANGED <<device, world, camera, shared, seen, storage, files>>

\* Without a directory the device is left as it is.
Task3CreateDirectory ==
  /\ pc["task3"] = "create_directory"
  /\ Goto("task3", "open") \/ Goto("task3", "failed")
  /\ UNCHANGED <<device, world, camera, shared, seen, storage, job, files>>

Task3Open ==
  /\ pc["task3"] = "open"
  /\ Goto("task3", "ioctl_lock") \/ Goto("task3", "cleanup")
  /\ UNCHANGED <<device, world, camera, shared, seen, storage, job, files>>

\* A failing LOCK is only a warning, but then there is no UNLOCK either.
Task3Lock ==
  /\ pc["task3"] = "ioctl_lock"
  /\ \/ Log!Freeze /\ job' = [job EXCEPT !.locked = TRUE]
     \/ UNCHANGED <<device, job>>
  /\ Goto("task3", "read")
  /\ UNCHANGED <<world, camera, shared, seen, storage, files>>

\* malloc or read may fail.
Task3Read ==
  /\ pc["task3"] = "read"
  /\ \/ job' = [job EXCEPT !.data = log] /\ Goto("task3", "open_telemetry")
     \/ UNCHANGED job /\ Goto("task3", "cleanup")
  /\ UNCHANGED <<device, world, camera, shared, seen, storage, files>>

Task3OpenTelemetry ==
  /\ pc["task3"] = "open_telemetry"
  /\ \/ /\ telemetry' = [telemetry EXCEPT !.state = "partial"]
        /\ Goto("task3", "sync_telemetry")
     \/ UNCHANGED telemetry /\ Goto("task3", "cleanup")
  /\ UNCHANGED <<device, world, camera, shared, seen, storage, job, raw>>

\* fflush and fsync are tested, the fprintfs before them are not: success may
\* also leave a file with lines missing.
Task3SyncTelemetry ==
  /\ pc["task3"] = "sync_telemetry"
  /\ \/ /\ telemetry' = [state |-> "synced", samples |-> job.data]
        /\ Goto("task3", "write_raw")
     \/ UNCHANGED telemetry /\ Goto("task3", "write_raw")
     \/ UNCHANGED telemetry /\ Goto("task3", "cleanup")
  /\ UNCHANGED <<device, world, camera, shared, seen, storage, job, raw>>

Task3NoImage ==
  /\ pc["task3"] = "write_raw" /\ ~job.captured
  /\ Goto("task3", "cleanup")
  /\ UNCHANGED <<device, world, camera, shared, seen, storage, job, files>>

Task3OpenRaw ==
  /\ pc["task3"] = "write_raw" /\ job.captured
  /\ \/ raw' = "partial" /\ Goto("task3", "sync_raw")
     \/ UNCHANGED raw /\ Goto("task3", "cleanup")
  /\ UNCHANGED <<device, world, camera, shared, seen, storage, job, telemetry>>

Task3SyncRaw ==
  /\ pc["task3"] = "sync_raw"
  /\ \/ raw' = "synced" /\ Goto("task3", "write_ppm")
     \/ UNCHANGED raw /\ Goto("task3", "cleanup")
  /\ UNCHANGED <<device, world, camera, shared, seen, storage, job, telemetry>>

\* The preview may fail, nothing depends on it.
Task3WritePpm ==
  /\ pc["task3"] = "write_ppm"
  /\ Goto("task3", "cleanup")
  /\ UNCHANGED <<device, world, camera, shared, seen, storage, job, files>>

\* UNLOCK empties the device if this task locked it, saved or not.
Task3Cleanup ==
  /\ pc["task3"] = "cleanup"
  /\ IF job.locked THEN Log!Reset \/ UNCHANGED device ELSE UNCHANGED device
  /\ Goto("task3", "returned")
  /\ UNCHANGED <<world, camera, shared, seen, storage, job, files>>

Task3 == Task3Wait \/ Task3Load \/ Task3CreateDirectory \/ Task3Open
         \/ Task3Lock \/ Task3Read \/ Task3OpenTelemetry \/ Task3SyncTelemetry
         \/ Task3NoImage \/ Task3OpenRaw \/ Task3SyncRaw \/ Task3WritePpm
         \/ Task3Cleanup

-----------------------------------------------------------------------------

Next == Main \/ Task1 \/ Task2 \/ Task3 \/ SpuriousWakeup \/ Kill \/ Restart

Spec == Init /\ [][Next]_vars

\* Threads that can run do run; nothing obliges a sample to be taken, the
\* process to be killed or started again.
FairSpec ==
  /\ Spec
  /\ WF_vars(Main)
  /\ WF_vars(Task1 /\ pc["task1"] # "sample")
  /\ WF_vars(Task2)
  /\ WF_vars(Task3)

-----------------------------------------------------------------------------

Labels == [main  |-> {"reset", "imu", "camera", "create3", "create2", "create1",
                      "join1", "join2", "join3", "deinit", "return", "exited",
                      "killed"},
           task1 |-> {"none", "sample", "store_detection",
                      "store_latency_start", "freeze", "notify", "returned",
                      "failed"},
           task2 |-> {"none", "sigwait", "load_latency_start", "load_detection",
                      "capture", "hand_image", "hand_nothing", "sos",
                      "returned"},
           task3 |-> {"none", "lock", "cond_wait", "create_directory", "open",
                      "ioctl_lock", "read", "open_telemetry", "sync_telemetry",
                      "write_raw", "sync_raw", "write_ppm", "cleanup",
                      "returned", "failed"}]

Samples == Seq(1 .. MaxSamples)
Stamp   == 0 .. MaxSamples

\* Every variable has its type.
TypeOK ==
  /\ log \in Samples /\ Len(log) <= Capacity /\ frozen \in BOOLEAN
  /\ DOMAIN pc = Thread /\ \A t \in Thread : pc[t] \in Labels[t]
  /\ clock \in Stamp /\ first \in 1 .. clock + 1 /\ runs \in 1 .. MaxRuns
  /\ camera \in {"off", "streaming", "closed"}
  /\ latency_start \in Stamp /\ detection \in Stamp /\ sigrtmin \in BOOLEAN
  /\ seen \in [latency_start : Stamp, detection : Stamp]
  /\ storage \in [data_ready : BOOLEAN, detection : Stamp, captured : BOOLEAN]
  /\ job \in [detection : Stamp, captured : BOOLEAN, locked : BOOLEAN,
              data : Samples]
  /\ telemetry \in [state : {"none", "partial", "synced"}, samples : Samples]
  /\ raw \in {"none", "partial", "synced"}

\* The newest samples of this run, as many as the device retains, up to s.
NewestUpTo(s) ==
  LET from == IF s >= first + Capacity THEN s - Capacity + 1 ELSE first
  IN  [i \in 1 .. s + 1 - from |-> from + i - 1]

\* While task 1 monitors, nothing another task or an earlier run did keeps the
\* device from holding exactly the newest samples of this run.
MonitoringUndisturbed ==
  pc["task1"] = "sample" => ~frozen /\ log = NewestUpTo(clock)

\* A complete telemetry file holds the samples before the accident, up to the
\* one that confirmed it and none after, and lies in the directory named after
\* it, whichever of the LOCKs failed and whatever an earlier run left behind.
TelemetryExact ==
  telemetry.state = "synced" =>
    /\ job.detection = detection /\ detection # 0
    /\ telemetry.samples = NewestUpTo(detection)

\* The two timestamps task 2 copied without a mutex belong to one detection, of
\* this run, and the latency starts no later than the detection.
TimestampsCoherent ==
  pc["task2"] \in {"capture", "hand_image", "hand_nothing", "sos", "returned"} =>
    /\ seen = [latency_start |-> latency_start, detection |-> detection]
    /\ first <= seen.latency_start /\ seen.latency_start <= seen.detection

\* Task 3 writes the image out of the camera's secure memory only while that
\* memory exists: main has not deinitialised the camera.
SecureImageLive ==
  job.captured /\ pc["task3"] \in {"write_raw", "sync_raw", "write_ppm"} =>
    camera = "streaming"

\* What the program is doing, seen from outside.
Phase ==
  CASE ~Running -> "off"
    [] Running /\ pc["task1"] = "none" -> "starting"
    [] Running /\ pc["task1"] \in {"sample", "store_detection"} -> "monitoring"
    [] OTHER -> IF detection = 0 THEN "stopped" ELSE "accident"

Recording == INSTANCE Recorder WITH
  Retained <- Capacity, now <- clock, phase <- Phase, accident <- detection,
  record <- IF telemetry.state = "synced" THEN telemetry.samples ELSE <<>>

\* The tasks, with their signal, their mutex and their device, implement the
\* recorder: in a run at most one accident is detected, after which no sample
\* is taken, and the one file ever completed holds the newest samples up to it.
ImplementsRecorder == Recording!Spec

\* Once task 2 is notified the program runs to its end: no wakeup of task 3 is
\* lost and no join waits for ever, whatever fails on the way.
AccidentHandled == sigrtmin ~> ~Running

\* The comment at the LOCK of task 1: the buffer is frozen to prevent the
\* pre-accident data "from being overwritten"; so a frozen buffer that holds
\* samples keeps them until they are in a file.
FrozenDataKept ==
  [][frozen /\ log # <<>> /\ log' # log => telemetry.state = "synced"]_vars

=============================================================================
