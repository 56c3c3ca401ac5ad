# Verification of the vehicle black box

The program records 500 IMU samples a second into a kernel ring buffer. When it
detects an impact or a rollover it freezes the buffer, takes a camera frame, saves
both and ends. This directory holds TLA+ models of it, TLC configurations and
TLAPS proofs. Paths are relative to the repository root.

## The system

| part | source | state | operations | talks to |
|---|---|---|---|---|
| crash buffer driver | `dev/crash_buffer.c` | `ring_buffer`, `head`, `tail`, `count`, `is_buffer_locked` | write, read, LOCK, UNLOCK (resets) | task 1 writes and locks; task 3 locks, reads, unlocks; main unlocks at start |
| camera service | `src/camera_capture_v4l2.c` | descriptors, mapped V4L2 buffers, one secure image buffer, request/ready/error flags, stop flag | init, stream thread, snapshot, deinit | task 2 calls snapshot; main calls init and deinit; V4L2 fills buffers |
| main | `src/main.c` | two shared timestamps, thread handles | start-up with cleanup, joins, shutdown | creates everything |
| task 1 | `src/task1_lsm9ds1.c` | next activation, detector, starts of the threshold runs | sleep, sample, write, detect; then stores, LOCK, `pthread_kill(SIGRTMIN)` | task 2, driver, IMU |
| task 2 | `src/task2_camera.c` | copies of the timestamps, image | `sigwait`, capture, hand-over under a mutex and condition, SOS | camera, task 3 |
| task 3 | `src/storage.c` | `data_ready`, files, lock held | wait, create directories, LOCK, read, telemetry, RAW, PPM, UNLOCK | driver, disk, camera memory |
| accident detection | `src/accident_detection.c` | complementary filter, run lengths, latched flags | init, update | task 1 |
| IMU access | `src/lsm9ds1.c` | registers over I2C | open, init, read | task 1 |
| image conversion | `src/storage.c` | none | demosaicing to PPM | task 3 |
| LED matrix | `src/task2_camera.c` | position of the message, open files | SOS | task 2 |
| build and tests | `Makefile`, `dev/Makefile`, `tests/` | | | not modelled |

What is hard: the driver's read has two critical sections; the camera hands out a
pointer into a single buffer that a background thread fills outside its mutex, with
timeouts and cancellation racing it; two timestamps cross threads with no mutex,
ordered only by a signal; one buffer outlives the process that uses it; almost every
step can fail and the failure paths differ in what they undo; saving goes through
the C library's buffer and the page cache, and the power may be cut at any time;
angles, nanoseconds and columns wrap around. The file `PROJECT.json` lists these
hazards at their lines, with the properties that are about them.

What makes each part correct: the driver is a bounded log that freezes and resets;
a camera call always returns, with an image that is its own and stays put; the
recorder saves, for the accident it detected, exactly the samples up to it, and
then ends; the detector reports what the samples show, no more and no less, and what
it is given are whole measurements at the configured scale; what is reported saved
is on the disk; nothing acquired is leaked or released twice.


## Modules

| module | what it is |
|---|---|
| `CrashLog` | the promise of the driver: a log of the newest `Capacity` samples with Record, Freeze, Reset |
| `CrashBuffer`, `CrashBufferProofs` | the driver, one action per critical section |
| `CameraInit`, `CameraInitProofs` | `camera_capture_init` and `_deinit`: acquiring and releasing |
| `ImageService` | the promise of the camera service: one picture memory that is drawn in, served, lent and freed |
| `CameraCapture`, `ImageProofs` | the stream thread, `camera_capture_snapshot` and deinit after a successful init |
| `Lsm9ds1`, `SenseHatProofs` | the access to the sensor's registers |
| `RolloverFilter`, `RolloverProofs` | the complementary filter and the rollover threshold |
| `AccidentDetection` | the run counting of the detector |
| `ImuSchedule` | the periodic activation of task 1 |
| `Task1`, `DetectionProofs` | task 1's loop, composed of the two above |
| `Storage`, `StorageProofs` | `storage_task_save_crash_data` down to the disk |
| `Demosaic`, `ImageProofs` | the colours of the PPM file |
| `SosDisplay`, `SenseHatProofs` | the LED matrix |
| `Recorder` | the promise of the whole: what is monitored, detected and kept |
| `BlackBox`, `BlackBoxProofs` | main and the three tasks over `CrashLog` and the camera, with process kill and restart |
| `MCCrashBuffer`, `MCRolloverFilter`, `MCDemosaic` | values of constants for TLC |

How they fit together. `BlackBox` uses the driver through an instance of `CrashLog`;
the refinement proved for `CrashBuffer` justifies that, and, for reads,
`SealedReadExact`: task 3 reads a buffer nobody writes any more, so its read is one
step there. It holds the camera as one step too, a call that succeeds or not, and a
memory that is there until deinit: `CameraCapture` implements `ImageService`, which
says that a call ends with a picture served for it or with nothing, that the memory is
not drawn in while it is lent, and that deinit frees it only when nobody draws in it
any more. `BlackBox` implements `Recorder`. Where `BlackBox` leaves a choice open,
another module says which way the code decides: any sample may be the accident (and
any before it the start of the latency), which `Task1` narrows down to what
`AccidentDetection` confirms; a sample's tilt is a truth value in
`AccidentDetection`, which `RolloverFilter` computes; that a sample is what the sensor
measured is the subject of `Lsm9ds1`; a file is partial or complete in `BlackBox`, and
goes line by line to the disk in `Storage`. `CameraCapture` starts where a successful
init of `CameraInit` ends, which is why `ThreadHasAll` matters. `Task1` holds its
schedule as an instance of `ImuSchedule`, since both move together. `SosDisplay` and
`Demosaic` name their specifications and variables after their subject (`LedSpec`,
`ColourSpec`), so that one module of proofs can extend one of them together with
another component of the same device.

### CrashBuffer

The variables are the driver's statics; `written` counts samples and serves as the
timestamp of the next; `rd` is the call of `dev_read` in progress per file handle.
`DevReadSnapshot` and `DevReadCopy` are the two sections under the spinlock, between
which kmalloc lets everybody else run; `DevReadFail` is ENOMEM or EFAULT. Slots start
as `Uninit`, because `kmalloc_array` does not clear. A sample is its timestamp: the
driver never looks at its content. Early returns that change nothing are stuttering.

### CameraInit

Each call of the system is a step that succeeds or fails, and `FailsTo` is the table
of the four labels. The static variables are what the program believes, `held` is what
it really holds, so that a descriptor closed and believed open, a mapping forgotten or
a buffer freed twice shows as a difference (`StaticsTrue`). init may be called again
without deinit, or after a failed init; it begins with a deinit, which is modelled
with it. mlock and STREAMOFF may fail without failing the call.

### CameraCapture

Each section under `capture_mutex` is an action. A broadcast moves the caller to
`woken`, the deadline moves it to `timedout`; in both it still has to get the mutex,
and meanwhile the thread may publish or fail. The thread is at `copy` while the
`memcpy` runs. A frame is only its freshness relative to the latest request. The
driver's queue is `queued` (empty buffers), `filled` (frames in order), and `lost`
(buffers whose QBUF failed). Frame sizes and device errors are chosen freely, and reading the clock
for the deadline may fail. deinit
may come at any moment, also during a call: main joins task 2 first, but the code is
written for the concurrent case (it sets ECANCELED and broadcasts) and the model
holds it to that; the fields the ENODEV test reads while deinit changes them without
the mutex are seen either way. There is one caller, as in the program: with one
caller EBUSY is never met, which is what `NeverBusy` says.

`ImageService` knows the caller, the memory and whether the service is open, and no
thread. The mapping (`Service`) takes `open` from the progress of deinit, `call` from
the caller's place and `capture_ready`, `memory` from what the last copy left, and
`freed` from deinit's release. A copy of the thread is a `Draw`, publishing a `Serve`,
the stop flag a `Shut`; every other step of the thread stutters.

### Lsm9ds1

The device is part of the model, and external to the program: it measures between any
two bytes the program reads, keeps its registers from one session to the next, and
obeys the bits for block data update and address increment. A byte is known by
sensor, axis, half, number of the measurement and whether rate and scale were set
then; a word is right when its bytes agree. The increment flag of the address and the
20 ms of waiting after the configuration are what the two properties depend on. Any
transfer may fail. The scale factors themselves are not modelled.

### AccidentDetection, ImuSchedule, Task1

A sample is the set of kinds (impact, rollover) whose threshold it reaches. The code
counts; the properties speak of the history of samples, which the model keeps beside
the counters, so `EventExact` compares the counting with its definition. Task 1 tests
the thresholds a second time to know when a run began; `TypeOK` of `Task1`, which is
proved and which no run repeats, includes that its view and the detector's agree. Task 1
takes no sample after the first report, so the latch of the detector is never put to the
test. A `timespec` has its two fields and the carry
is a step of its own; time passes between any steps, so a turn may outlast its period.

### RolloverFilter

The vehicle's real roll is a variable; it may turn over its roof either way, or lie on
it. Reliable measurements are wrong by `Noise` at most, the gyro's change of angle by
`Drift` at most in every sample; a sample may be unreliable, the first one too, and the
accelerometer then shows any of `Disturbed` angles. The filter is computed in integers,
rounding down, with the weights of `COMPLEMENTARY_ALPHA` as constants. The vehicle rolls
and does not pitch, which makes the tilt the size of the roll.

How good the filter can be depends on what has happened, and history variables account
for that, from the vehicle's movement and the reliability of the samples alone, never
from what the filter computed. `off` bounds the difference of the two angles as numbers:
after an unreliable first sample it is anything, without reliable samples it grows by the
drift, each reliable sample leaves of it the gyro's weight, and when some angle may pass
half a turn it is anything again (two angles beside the roof are +179 and -179 degrees,
and their mix is near 0). `around` bounds their difference as directions, the shorter
way around: there the gyro does no harm on the roof, and a mix turns the filter by the
accelerometer's weight of what is between the angles at most, even when it turns it the
wrong way. `FilterFollows` is that both accounts are right. `RolloverDetected` and
`NoFalseAlarm` relate the detection to runs of samples in which the vehicle was tilted by
more than `around`, or possibly tilted within it, so that they speak about every
behaviour: a vehicle on its roof, a run of unreliable samples, a bad first sample.
`Recovers` says that the error is passing: after `Recovery` reliable samples of a vehicle
that rests off its roof it is `Settled` at most, wherever the filter was. How large
`Settled` must be follows from noise, drift and weights (`RecoveryAssumption`).

What they do not promise is what the code does not do: lying on its roof, a vehicle's
measured angle may jump between the two signs, each reliable sample then drags the filter
towards upright, and after enough of them `around` is half a turn and nothing is claimed.

### Storage

`pc` is the call or test that comes next; `FailsTo` of this module is `Abandon`: what
the failing step gives back, and whether the record as a whole has failed or only its
colours. A file passes through three places: the stream's buffer (at most `Capacity`
lines; a failed write discards what it could not write and what came with it), the
cache (what a reader would find) and the disk (what fsync has forced there, at least).
`PowerCut` may come at any step and leaves of each file something between what was
synced and what was written. Lines and rows are their numbers. Task 1 may have locked
the driver before, or its ioctl may have failed.

### Demosaic

The scene is what the sensor saw, `Frame` packs it as the device does (external), and
the program's steps check, unpack and interpolate. A byte outside of the frame reads
as `Outside`. Size, stride and length are independent of each other: rows may be too
short, exact or padded, the stride told or not, the frame short or with bytes to spare.
`Samples` is the set of all scenes of a size, of which TLC sees `Scenes` and the proofs
any; bytes that are no samples are `Filler`. `ColoursExact` recomputes every colour from the scene, by the colours of
the sensor's filter and not by the code's cases.

### SosDisplay

The framebuffer is looked for among `Framebuffers` devices whose name files are
missing, empty, of another device or of the Sense HAT. A frame is written in pieces
(all, half, one pixel, or none when interrupted); `shown` is the set of lit pixels.

### BlackBox and Recorder

`pc` holds where main and each task are; the labels name the code's steps. A sample
is a number on a clock that continues across runs. Every step that can fail in the
code can fail here, with what the code undoes and what it does not: for instance a
failing directory leaves the buffer frozen, a failing LOCK leaves out the UNLOCK.
`Kill` ends the process between any two steps; `Restart` starts it again over the
device as it was left, with fresh statics and a new crash directory. `Recorder` knows
none of that: it monitors, detects at most one accident per start, and may keep, once,
the newest samples up to it. The mapping is `Phase` and the telemetry file, when
complete.

## Runs

| run | shows | bounds |
|---|---|---|
| `driver_safety` | sealed reads are exact, other reads never return uninitialised or outdated slots, the ring implements `CrashLog` | ring of 3, 7 samples: the ring wraps twice, also after a reset; 2 readers, asking for less than the ring and for all of it |
| `camera_init` | nothing leaked, released twice, or missing when the thread starts | 3 buffers asked for and up to 4 granted, sizes of 0 to 3 with 2 the largest allowed, 4 calls: an init after a failed one, after a successful one and after a deinit |
| `camera_service` | the image is stable and answers its call, requests are withdrawn, buffers conserved, the image service implemented; requests are answered without the deadline, deinit completes, every call returns | 3 buffers, so that at one moment one is empty, one filled, one in hand, and exhaustion is reached; calls are not bounded |
| `camera_fresh` | **violated**: a frame from before the request is returned | 2 buffers |
| `imu_registers` | words are whole and of their axis, nothing measured before the configuration is used | 2 measurements of each sensor, at any point |
| `rollover_filter` | the error of the filter is what the samples explain, and it passes; a tilt beyond it is detected, and what is detected was tilted within it | 36 units for half a turn (5 degrees each), a threshold of 12 as in the code, 2 samples required; steps of 30 degrees all the way around, over the roof and resting on it; noise and drift of 1, unreliable samples anywhere that show upright, a tilt to either side or the roof; weights of one half instead of 98 to 2, so that one mix of two sides of the roof is upright and recovery takes 18 samples instead of some hundred |
| `task1_loop` | events at exactly the required sample, the latency from the right run, activations without drift | 2 and 3 samples required and 5 taken: a run broken off and a full one, both kinds overlapping; seconds of 3 and periods of 2 units: carries with and without remainder; turns may be late by several periods |
| `system` | monitoring undisturbed, telemetry exact, timestamps coherent, image memory alive, `Recorder` implemented, a notified accident leads to the end of the program | device of 2, 4 samples, 2 runs: the log wraps, and a second run meets what a killed one left |
| `system_frozen_data` | **violated**: a failed save discards the frozen samples | 2 samples, 1 run, so that it is not the start-up that empties the buffer |
| `storage_paths` | nothing stays held, what is reported saved is on the disk, a power cut keeps the order of the files | 5 samples, stream of 2 lines: several flushes, a failing one followed by good ones; a frame written in up to 3 pieces; 2 rows of colours |
| `image_colours` | no read outside of the frame, right colours inside, bounded ones at the border | widths 0, 4, 6, 8, heights 0, 1, 4, rows padded by -1, 0 or 2 bytes, strides told or missing, frames short by -1, 0, 1 or 6 bytes; dark or bright scenes with any one sample of the other brightness, which shows every weight |
| `sos_display` | the right window, a dark matrix and closed files at the end, the end itself | 3 devices; the real message and matrix |

The real sizes (2500 samples, 4 buffers, 2 and 250 samples required, 2 ms of 1 s)
differ from these only in how long it takes to wrap, to run out or to be reached; the
proofs cover every size of the safety properties, and of liveness the part below.
No symmetry is used.

Deadlock is checked in `driver_safety`, `camera_service`, `camera_fresh` and
`rollover_filter`. The others model code that ends (a function returns, the program
exits or hangs when task 1 fails, see below), or stop at a bound on calls or
measurements; each cfg says which.

### Findings

Two runs show where the code departs from what the repository says of it.

* `camera_fresh`: `camera_capture_snapshot` "requests the NEXT fresh frame after this
  call" (`include/camera_capture.h:40`), but the thread decides after DQBUF and does
  not look at the frame's time, so a frame completed before the call may answer it.
* `system_frozen_data`: the cleanup of `storage_task_save_crash_data` resets the
  frozen buffer even if the telemetry was not written: the samples frozen to prevent
  them "from being overwritten" (`src/task1_lsm9ds1.c:140`) are lost although no copy
  exists.

Known limits that the models reproduce without a run of their own:

* `dev_read` is chronological only while nothing is written between its two
  sections. The program reads under LOCK, where the order is proved; a program that
  does not, as a test tool may, can get newer samples before older ones.
* A single I2C error ends task 1; main then waits in `pthread_join` for a task 2 that
  nobody will notify, with monitoring over (`AccidentHandled` therefore starts at the
  signal).
* A vehicle lying on its roof may be measured on either side of it, and the mix then
  passes through upright: see `RolloverFilter` above. A first sample that is not
  reliable sets the filter to whatever the accelerometer shows, and a rollover may be
  detected that is none until the error has faded (`NoFalseAlarm` accounts for it).
* A failed write of the C library in the middle of the telemetry is not noticed, and
  the file counts as saved: `SavedExact` excepts exactly the lines lost that way.
* The comment at `src/lsm9ds1.c:26` gives 0.122 mg/LSB for the range of 16 g; the code
  multiplies by 0.732, the datasheet's value.
* "Shared accident timestamps protected by a mutex" (`src/main.c:34`) has no mutex
  behind it, its declaration being commented out; the order of stores, signal and
  loads does the work (`TimestampsCoherent`).

## Fairness

`CameraCapture.FairSpec`: the sensor completes frames while it streams and has an
empty buffer; the thread, a woken caller and a begun deinit go on when they can.
Nothing is assumed of callers, the deadline or the start of deinit, so
`RequestAnswered` does not lean on the timeout. `SnapshotReturns` needs it, and has
it as a premise, `SF_vars(DeadlinePasses)`: spurious wakeups leave and enter the wait
again and again, but time passes all the while. `BlackBox.FairSpec`: main and the
tasks go on when they can; nothing forces a sample, a kill or a restart.
`SosDisplay.LedSpec`: task 2 goes on, and since a write that was interrupted before its
first pixel changes nothing, that includes that a write is not interrupted for ever;
the program has no timer that would do so. No fairness is put on a particular outcome:
a step that may fail may always fail.

## Proofs

Every theorem is about all values of the constants, under the named assumptions only:
sizes and bounds are naturals, the ring, a frame, a stream's buffer, a period and the
required runs are not empty, the camera's array has room for two buffers or more, the
service works with 2 to 4 of them, the accelerometer has some weight and recovery enough
samples. What follows is the strengthening that makes each
invariant inductive.

**`CrashBufferProofs`**: the three invariants of `driver_safety` and
`Spec => ImplementsCrashLog`. `IInv` adds that the ring is either filling up from
slot 0 or full with `head = tail` (`RingShape`), that what is stored is older than the
next sample and sorted along the window (`SlotsOlder`, `WindowSorted`), that a reader
between its sections names slots whose content only gets newer (`ReadsFresh`), and
that if its snapshot was sealed nothing has moved since (`ReadsSealed`). The slot
arithmetic (`SlotOfShift`, `SlotOfInjective`) removes the remainder from everything
else; `WriteEffect` and `WriteKeeps` say what a store does to the window, for the
invariant and for the refinement alike.

**`CameraInitProofs`**: the four invariants of `camera_init`. `HeldOnly` says at which
steps each resource may be held, `Ready` what each step of init may rely on; with
them every label releases exactly what is held when it is reached.

**`ImageProofs`**, camera: the invariants of `camera_service`, and the type invariant,
which no run repeats. `IInv` has a part about the buffers, where deinit's join matters
(`ThreadGone`), and a part about requests: a frame is ready only after its request was
taken back (`ReadyOnce`), and nothing is ready while the thread copies or is about to
publish (`CopyUnready`). So when a call returns an image nobody is copying over it,
and nobody starts to before the next request, since a caller outside a call has none
pending (`NeverBusy`). `ReadyIsAnswer`, `PublishFilled` and `NoImageInCall` say what a
ready frame, the memory about to be published and the caller's image may be meanwhile.
`CameraImplementsService` maps every step to one of `ImageService` or a stutter. The
safety side of the liveness properties rests on `Wakeups`, which says when the stop
flag is set (`FlagOfPhase`) and that no request outlives its thread. It gives
`CameraWakesCaller` (no wakeup is lost: who sleeps has nothing to wake for, and who was
woken finds a reason), `CameraCanAnswer` (a pending request has a living thread and,
unless all are lost, a buffer) and `CameraThreadStops` (after the flag every step of
the thread lowers `LoopLeft`, at most six, until it tests the flag).

**`ImageProofs`**, colours: the three invariants of `image_colours`. `Framed` says
that the frame is the scene packed in some way, `Computed` that an accepted frame has
passed the test of its size and that what was unpacked and written so far is computed
from it. With them `FrameOfScene` finds that the stride the program assumes is the one
the frame was packed with, and `SampleInFrame` every sample, inside the frame, where the
program reads it. `InterpolatedSum` and `ColoursInside` take the sensor's filter by the
parity of row and column; `ColoursBetween` is the bound, also where a clamped neighbour
is of another colour.

**`DetectionProofs`**: the three invariants of `task1_loop`, and the type invariant,
which no run repeats. `RunLength` ties the
counter to the history (`CounterDecides`: comparing the counter is comparing the last
samples), the start of a run to the sample it names, and the next activation to start
and number of samples while the carry is in progress.

**`RolloverProofs`**: the four invariants of `rollover_filter` and the type invariant, for
every weight, wherever the vehicle turns. `Close` shows the account of the straight error
right: where no angle passes half a turn, normalisation changes nothing and the mix lies
where the weights put both errors (`MixClose`), rounding included (`Shared`). `Around`
does it for directions: turning both by the same angle changes nothing (`TurnedApart`),
and a mix is the predicted angle moved by the accelerometer's part of a distance
(`MixTurns`). A tilt is the distance from the upright direction, so what is closer than
the error is tilted alike but for the error (`TiltBetween`), and the detector's run lies
between the vehicle's surely and possibly tilted runs (`RunsAgree`). `Recovering` counts
what the calm samples have taken from the error, at least `Pace` each (`CalmShrinks`).

**`SenseHatProofs`**, sensor: `AxesWhole` and `MeasuredAsConfigured`. An odd number of bytes
means that the device holds the partner of the last one back (`Reading`), and from the
end of the configuration on, all that is in the output registers was measured with it
(`Configuration`), also for what a read that broke off has left frozen.

**`SenseHatProofs`**, display: `ShowsWindow` and `EndsClean`, and `DisplayEnds`. `LedInv`
says which pixels are lit after part of a frame, what is open at each place and that the
matrix is dark from the clearing on unless a write failed; `LedPixels` turns a pixel's
number in memory back to row and column, so that no letter wraps. `LedLeft` counts
devices to look at, frames and pixels, and every step but an interrupted write lowers it.

**`StorageProofs`**: the three invariants of `storage_paths`, and the type invariant,
which no run repeats. `HeldAt` is the table of what is held before each step; `Written`
says that cache and stream together hold the lines printed so far, in order and
without those lost; `Order` that a file is begun only when the one before it is on the
disk. `SavingEnds` counts the calls, lines, rows and units of the frame that are left:
every step but an interrupted write lowers `CallsLeft`, so saving returns.

**`BlackBoxProofs`**: the invariants of `system`, the type invariant, which no run
repeats, and `Spec => ImplementsRecorder`. `Order` derives which tasks live from where main is; `Quiet` says that tasks 2 and 3
do nothing before they are told; `Recorded` that until task 3 is done the log is the
newest samples of the run; `Detected` and `Copies` follow the two timestamps from
task 1 through task 2 to task 3; `ImageHeld` keeps the camera open while an image is
on its way.

The same module has what `AccidentHandled` rests on. `Lives` (the tasks main has created
are there) and `Told` (a signal or a hand-over is there for whoever needs it) make the
rest inductive: `NobodyWaitsInVain` (after the notification some thread has a turn until
the program has ended), `EndsInSteps` (at most 22 steps are left, task 3's waiting
apart) and `TurnsAreKept` (a turn is used, not taken away). A turn is written out as a
predicate, where fairness would say ENABLED.

Only model-checked: the five liveness properties. Each has its safety side proved
(`AccidentHandled` and `Ends` by a measure and a turn, `DeinitCompletes` by a measure,
`RequestAnswered` and `SnapshotReturns` by the wakeups); what remains for TLC is the
step from there to the property, which needs fairness and ENABLED, and these the proof
system does not reason about.

## Not modelled

* Loading and unloading of the kernel module, and its device files: before and after
  any use of the buffer.
* Scheduling priorities and real time: a task that can go on may be delayed for any
  time, which only adds behaviours.
* The multiplications by the scale, the magnitude of the acceleration and the
  combination of roll and pitch: floating-point functions without state.
* The entries of the directories after a power cut: the directories are not synced,
  and what then remains is the file system's business; the models speak of contents.
* The tearing of a 64-bit timestamp on a 32-bit processor: `TimestampsCoherent` shows
  task 2 never reads between the stores, so it could not be seen.
* The build, and the tests, which were read for what they say of the program.
* The wording and number formats of the telemetry, and all logging.

## Plan

Done, in this order: the driver and its promise, on which everything rests; the camera
service; the program as a whole; then what these left open, in the order in which a
sample travels: sensor, filter, detector, schedule, and the saving down to the disk;
the resources of the camera; the display and the colours; the abstract recorder; and
the proofs of each.

Next:

1. A filter with pitch as well as roll.
2. `Storage` shown to implement the saving of `BlackBox` and `CameraInit` the opening
   and closing of `ImageService`, so that every step `BlackBox` takes whole is justified
   by a refinement.
3. The composition of `Storage` and the driver: two starts of the program over one
   disk, with a power cut between them.
