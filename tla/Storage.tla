------------------------------- MODULE Storage -------------------------------
(***************************************************************************)
(* storage_task_save_crash_data with the functions it calls: what it       *)
(* acquires and gives back on every path, how its three files get through  *)
(* the streams of the C library and the page cache to the disk, and what a *)
(* power cut leaves of them.  The colours of the PPM file are in Demosaic, *)
(* the crash buffer it locks, reads and unlocks in CrashBuffer, the mutex  *)
(* it is called after in BlackBox.                                         *)
(***************************************************************************)
EXTENDS Integers, Sequences

CONSTANTS
  MaxSamples,    \* bound on the samples read from the crash buffer
  ImageSize,     \* size of a camera frame, in units of a write
  ImageHeight,   \* its rows
  Capacity       \* of the buffer of a stream, in lines

ASSUME BoundAssumption ==
  /\ MaxSamples \in Nat /\ ImageHeight \in Nat
  /\ ImageSize \in Nat \ {0} /\ Capacity \in Nat \ {0}

VARIABLES
  pc,             \* the call or test that comes next; "off" after a power cut
  dirs,           \* what the two paths of directories name
  image,          \* "none", "praa" or another "format"
  held,           \* how often each resource was acquired and not given back
  buffer_locked,  \* the local variable
  device_locked,  \* whether the driver is locked
  count,          \* sample_count
  i,              \* the next line or row to print
  remaining,      \* of the RAW frame, to be written
  stream,         \* what the open stream holds back
  lost,           \* of each file, what a failed write has discarded
  cache,          \* of each file, what a read would find
  synced,         \* of each file, how much is known to be on the disk
  survived,       \* of each file, how much a power cut has left
  warned,         \* that the PPM file was not created
  ret

directory == <<dirs, image>>
device == <<buffer_locked, device_locked, count>>
stdio  == <<stream, lost>>
files  == <<cache, synced, survived>>
result == <<warned, ret>>

vars == <<pc, dirs, image, held, buffer_locked, device_locked, count, i,
          remaining, stream, lost, cache, synced, survived, warned, ret>>

Resource == {"fd_dev", "buffer_data", "fp", "fd", "raw8", "rgb_row"}
File == {"telemetry", "raw", "ppm"}
Directory == {"base", "crash_dir"}

Elements(s) == {s[k] : k \in DOMAIN s}

\* Task 1 has locked the driver before the notification, unless its ioctl failed.
Init ==
  /\ pc = "base"
  /\ dirs \in [Directory -> {"absent", "directory", "other"}]
  /\ image \in {"none", "praa", "format"}
  /\ held = [r \in Resource |-> 0]
  /\ buffer_locked = FALSE /\ device_locked \in BOOLEAN
  /\ count = 0 /\ i = 0 /\ remaining = 0
  /\ stream = <<>> /\ lost = [f \in File |-> {}]
  /\ cache = [f \in File |-> <<>>]
  /\ synced = [f \in File |-> 0] /\ survived = [f \in File |-> 0]
  /\ warned = FALSE /\ ret = -1

-----------------------------------------------------------------------------
(* Acquiring, releasing, and the streams of the C library. *)

Goto(step, next) == pc = step /\ pc' = next

Acquire(r) == held' = [held EXCEPT ![r] = @ + 1]
Release(rs) == held' = [r \in Resource |-> IF r \in rs THEN held[r] - 1 ELSE held[r]]

\* The library writes the first n lines of its buffer; when the write fails it
\* discards the others.
Flush(f, n) ==
  /\ cache' = [cache EXCEPT ![f] = @ \o SubSeq(stream, 1, n)]
  /\ lost' = [lost EXCEPT ![f] = @ \cup Elements(SubSeq(stream, n + 1, Len(stream)))]

\* fprintf or fwrite: a full buffer is written first.
Put(f, line) ==
  /\ IF Len(stream) < Capacity
     THEN UNCHANGED <<cache, lost>>
     ELSE Flush(f, Len(stream))
  /\ stream' = Append(IF Len(stream) < Capacity THEN stream ELSE <<>>, line)

\* The same when that write fails: the line is lost with those held back.
PutFails(f, line) ==
  /\ Len(stream) = Capacity
  /\ \E n \in 0 .. Len(stream) - 1 :
       /\ cache' = [cache EXCEPT ![f] = @ \o SubSeq(stream, 1, n)]
       /\ lost' = [lost EXCEPT ![f] =
                     @ \cup Elements(SubSeq(stream, n + 1, Len(stream))) \cup {line}]
  /\ stream' = <<>>

Kept == UNCHANGED <<cache, lost, stream>>

-----------------------------------------------------------------------------
(* What a failing step gives back, and where it goes. *)

\* Mutant: a failing fflush frees again what was freed after the rows.
ReleasedByTwice(step) ==
  CASE step \in {"fflush", "fsync", "ppm_fsync"} -> {"fp"}
    [] step \in {"raw_write", "raw_fsync"} -> {"fd"}
    [] step = "ppm_fopen" -> {"raw8"}
    [] step \in {"header", "rgb_row"} -> {"fp", "raw8"}
    [] step \in {"rows", "ppm_fflush"} -> {"fp", "raw8", "rgb_row"}
    [] OTHER -> {}
ReleasedBy(step) ==
  CASE step \in {"fflush", "fsync", "ppm_fflush", "ppm_fsync"} -> {"fp"}
    [] step \in {"raw_write", "raw_fsync"} -> {"fd"}
    [] step = "ppm_fopen" -> {"raw8"}
    [] step \in {"header", "rgb_row"} -> {"fp", "raw8"}
    [] step = "rows" -> {"fp", "raw8", "rgb_row"}
    [] OTHER -> {}

Needed == {"open", "malloc", "read", "fopen", "fflush", "fsync",
           "raw_open", "raw_write", "raw_fsync"}
Optional == {"check", "raw8", "ppm_fopen", "header", "rgb_row", "rows",
             "ppm_fflush", "ppm_fsync"}

\* Without the PPM file the record is complete: a warning.
Abandon(step) ==
  /\ Goto(step, IF step \in Needed THEN "cleanup" ELSE "saved")
  /\ warned' = (warned \/ step \in Optional)
  /\ Release(ReleasedBy(step))
  /\ UNCHANGED <<directory, device, i, remaining, synced, survived, ret>>

\* A call that fails and changes nothing; fclose writes what the stream holds.
Fails(step) ==
  /\ Abandon(step)
  /\ IF step = "rgb_row"
     THEN \E n \in 0 .. Len(stream) : Flush("ppm", n) /\ stream' = <<>>
     ELSE Kept

FlushFails(step, f) ==
  /\ Abandon(step)
  /\ \E n \in 0 .. Len(stream) - 1 : Flush(f, n)
  /\ stream' = <<>>

-----------------------------------------------------------------------------
(* The directories and the crash buffer. *)

\* create_directory: stat, mkdir, and another program that may come first.
CreateDirectory(step, next) ==
  /\ dirs[step] # "other"
  /\ step = "crash_dir" => dirs["base"] = "directory"
  /\ Goto(step, next)
  /\ dirs' = [dirs EXCEPT ![step] = "directory"]
  /\ UNCHANGED <<image, held, device, i, remaining, stdio, files, result>>

\* The path names something else, or stat or mkdir fails.
DirectoryFails(step) ==
  /\ Goto(step, "returned")
  /\ UNCHANGED <<directory, held, device, i, remaining, stdio, files, result>>

Acquires(step, r, next) ==
  /\ Goto(step, next) /\ Acquire(r)
  /\ UNCHANGED <<directory, device, i, remaining, stdio, files, result>>

\* CRASH_BUFFER_IOC_LOCK; a failure is only reported.
Lock ==
  /\ Goto("lock", "malloc")
  /\ \/ buffer_locked' = TRUE /\ device_locked' = TRUE
     \/ UNCHANGED <<buffer_locked, device_locked>>
  /\ UNCHANGED <<directory, held, count, i, remaining, stdio, files, result>>

ReadSamples(n) ==
  /\ Goto("read", "fopen") /\ count' = n
  /\ UNCHANGED <<directory, held, buffer_locked, device_locked, i, remaining,
                 stdio, files, result>>

CrashBuffer ==
  \/ CreateDirectory("base", "crash_dir") \/ CreateDirectory("crash_dir", "open")
  \/ \E step \in Directory : DirectoryFails(step)
  \/ Acquires("open", "fd_dev", "lock") \/ Lock
  \/ Acquires("malloc", "buffer_data", "read")
  \/ \E n \in 0 .. MaxSamples : ReadSamples(n)
  \/ \E step \in {"open", "malloc", "read"} : Fails(step)

-----------------------------------------------------------------------------
(* The three files. *)

\* fopen; the head of the file is line 0.
Fopen(step, next) ==
  /\ Goto(step, next) /\ Acquire("fp") /\ i' = 0
  /\ UNCHANGED <<directory, device, remaining, stdio, files, result>>

\* fprintf of a line of telemetry, whose result is not looked at.
PrintLine ==
  /\ i <= count /\ Goto("print", "print")
  /\ i' = i + 1
  /\ Put("telemetry", i) \/ PutFails("telemetry", i)
  /\ UNCHANGED <<directory, held, device, remaining, synced, survived, result>>

LinesPrinted ==
  /\ i > count /\ Goto("print", "fflush")
  /\ UNCHANGED <<directory, held, device, i, remaining, stdio, files, result>>

Fflush(step, f, next) ==
  /\ Goto(step, next)
  /\ Flush(f, Len(stream)) /\ stream' = <<>>
  /\ UNCHANGED <<directory, held, device, i, remaining, synced, survived, result>>

\* Mutant: the file is closed without fsync.
SyncedByNot(f) == synced
SyncedBy(f) == [synced EXCEPT ![f] = Len(cache[f])]

\* fsync, and the file is closed.
Fsync(step, f, r, next) ==
  /\ Goto(step, next)
  /\ synced' = SyncedBy(f) /\ Release({r})
  /\ UNCHANGED <<directory, device, i, remaining, stdio, cache, survived, result>>

\* With a frame in a format no PPM file is made of, the RAW file is the last one.
AfterTelemetry == IF image = "none" THEN "saved" ELSE "raw_open"
AfterRaw == IF image = "praa" THEN "check" ELSE "saved"

OpenRaw ==
  /\ Goto("raw_open", "raw_write") /\ Acquire("fd")
  /\ remaining' = ImageSize
  /\ UNCHANGED <<directory, device, i, stdio, files, result>>

MoreToWrite == remaining > 0

\* Mutant: what a short write has written is not subtracted.
LeftAfterAll(n) == 0
LeftAfter(n) == remaining - n

\* write, which may write less than it was given, or nothing (EINTR).
WriteRaw ==
  /\ MoreToWrite /\ Goto("raw_write", "raw_write")
  /\ \E n \in 0 .. remaining :
       LET done == ImageSize - remaining
       IN  /\ cache' = [cache EXCEPT !["raw"] = @ \o [k \in 1 .. n |-> done + k]]
           /\ remaining' = IF n = 0 THEN remaining ELSE LeftAfter(n)
  /\ UNCHANGED <<directory, held, device, i, stdio, synced, survived, result>>

Passes(step, next) ==
  /\ Goto(step, next)
  /\ UNCHANGED <<directory, held, device, i, remaining, stdio, files, result>>

\* A line of the PPM file (its head, then its rows); a failure is noticed.
PrintRow(step, next) ==
  /\ Goto(step, next) /\ i' = i + 1
  /\ Put("ppm", i)
  /\ UNCHANGED <<directory, held, device, remaining, synced, survived, result>>

RowFails(step) == Abandon(step) /\ PutFails("ppm", i)

RowsWritten ==
  /\ i > ImageHeight /\ Goto("rows", "ppm_fflush")
  /\ Release({"rgb_row", "raw8"})
  /\ UNCHANGED <<directory, device, i, remaining, stdio, files, result>>

Telemetry ==
  \/ Fopen("fopen", "print") \/ PrintLine \/ LinesPrinted
  \/ Fflush("fflush", "telemetry", "fsync") \/ FlushFails("fflush", "telemetry")
  \/ Fsync("fsync", "telemetry", "fp", AfterTelemetry)
  \/ \E step \in {"fopen", "fsync"} : Fails(step)

Raw ==
  \/ OpenRaw \/ WriteRaw
  \/ ~MoreToWrite /\ Passes("raw_write", "raw_fsync")
  \/ MoreToWrite /\ Fails("raw_write")
  \/ Fsync("raw_fsync", "raw", "fd", AfterRaw)
  \/ \E step \in {"raw_open", "raw_fsync"} : Fails(step)

Ppm ==
  \/ Passes("check", "raw8")
  \/ Acquires("raw8", "raw8", "ppm_fopen")
  \/ Fopen("ppm_fopen", "header") \/ PrintRow("header", "rgb_row")
  \/ Acquires("rgb_row", "rgb_row", "rows")
  \/ i <= ImageHeight /\ (PrintRow("rows", "rows") \/ RowFails("rows"))
  \/ RowsWritten
  \/ Fflush("ppm_fflush", "ppm", "ppm_fsync") \/ FlushFails("ppm_fflush", "ppm")
  \/ Fsync("ppm_fsync", "ppm", "fp", "saved")
  \/ \E step \in {"check", "raw8", "ppm_fopen", "header", "rgb_row",
                 "ppm_fsync"} : Fails(step)

-----------------------------------------------------------------------------
(* The end. *)

Saved ==
  /\ Goto("saved", "cleanup") /\ ret' = 0
  /\ UNCHANGED <<directory, held, device, i, remaining, stdio, files, warned>>

\* CRASH_BUFFER_IOC_UNLOCK; a failure is only reported.
Unlock ==
  /\ Goto("cleanup", "release")
  /\ \/ buffer_locked /\ device_locked' = FALSE
     \/ UNCHANGED device_locked
  /\ UNCHANGED <<directory, held, buffer_locked, count, i, remaining, stdio,
                 files, result>>

\* free and close of what is there.
ReleaseAll ==
  /\ Goto("release", "returned")
  /\ Release({r \in {"buffer_data", "fd_dev"} : held[r] # 0})
  /\ UNCHANGED <<directory, device, i, remaining, stdio, files, result>>

Program == CrashBuffer \/ Telemetry \/ Raw \/ Ppm \/ Saved \/ Unlock \/ ReleaseAll

MayBeLeft(f) == synced[f] .. Len(cache[f])

\* Of every file at least what was synced is left, at most what was written.
PowerCut ==
  /\ pc # "off" /\ pc' = "off"
  /\ \E t \in MayBeLeft("telemetry"), r \in MayBeLeft("raw"), p \in MayBeLeft("ppm") :
       survived' = [telemetry |-> t, raw |-> r, ppm |-> p]
  /\ UNCHANGED <<directory, held, device, i, remaining, stdio, cache, synced, result>>

Next == Program \/ PowerCut

Spec == Init /\ [][Next]_vars

-----------------------------------------------------------------------------
Label == Directory \cup Needed \cup Optional \cup
         {"lock", "print", "saved", "cleanup", "release", "returned", "off"}

\* Every variable has its type: nothing is released that is not held, on no path.
TypeOK ==
  /\ pc \in Label
  /\ dirs \in [Directory -> {"absent", "directory", "other"}]
  /\ image \in {"none", "praa", "format"}
  /\ held \in [Resource -> {0, 1}]
  /\ buffer_locked \in BOOLEAN /\ device_locked \in BOOLEAN /\ warned \in BOOLEAN
  /\ count \in Nat /\ i \in Nat /\ remaining \in Nat
  /\ stream \in Seq(Nat) /\ Len(stream) <= Capacity
  /\ lost \in [File -> SUBSET Nat]
  /\ cache \in [File -> Seq(Nat)]
  /\ synced \in [File -> Nat] /\ survived \in [File -> Nat]
  /\ ret \in {-1, 0}

\* Whichever call fails, nothing is closed or freed twice, and
\* storage_task_save_crash_data returns with every descriptor and stream closed
\* and all memory freed.
NothingHeld ==
  /\ \A r \in Resource : held[r] \in {0, 1}
  /\ pc = "returned" => \A r \in Resource : held[r] = 0

\* What each file has to hold, by line or unit: of the telemetry, whose fprintfs
\* nobody tests, the lines that no failed write has discarded.
Content == [telemetry |-> (0 .. count) \ lost["telemetry"],
            raw       |-> 1 .. ImageSize,
            ppm       |-> 0 .. ImageHeight]

Increasing(s) == \A j, k \in DOMAIN s : j < k => s[j] < s[k]

\* A file holds all of that, once and in its order.
Whole(f) == Elements(cache[f]) = Content[f] /\ Increasing(cache[f])

\* The files a successful call has made.
Made == {"telemetry"} \cup (IF image # "none" THEN {"raw"} ELSE {})
                      \cup (IF image = "praa" /\ ~warned THEN {"ppm"} ELSE {})

\* When the crash data is reported as saved, the files are in directories, are
\* on the disk and hold all of the frame, all of its colours unless there was a
\* warning, and of the telemetry every line but those a write lost unnoticed.
SavedExact ==
  ret = 0 =>
    /\ \A d \in Directory : dirs[d] = "directory"
    /\ \A f \in Made : Whole(f) /\ synced[f] = Len(cache[f])

SurvivedWhole(f) == Whole(f) /\ survived[f] = Len(cache[f])

\* A power cut at any moment leaves no frame without the telemetry it belongs
\* to and no colours without the whole of the frame they were made of.
CutKeepsOrder ==
  pc = "off" =>
    /\ survived["raw"] # 0 => SurvivedWhole("telemetry")
    /\ survived["ppm"] # 0 => SurvivedWhole("raw")

=============================================================================
