----------------------------- MODULE CrashBuffer -----------------------------
(***************************************************************************)
(* The kernel driver behind /dev/crash_buffer (dev/crash_buffer.c).        *)
(*                                                                         *)
(* A section between spin_lock_irqsave and spin_unlock_irqrestore is one   *)
(* action.  dev_read has two of them with a kmalloc in between, so another *)
(* process may write, lock or reset between its snapshot of the indices    *)
(* and its copy of the slots.                                              *)
(*                                                                         *)
(* A sample is represented by its timestamp: the n-th sample offered to    *)
(* dev_write is n, whether it is stored or dropped.  Early returns that    *)
(* change nothing (a wrong length, a faulting user buffer of dev_write, an *)
(* unknown ioctl) are stuttering steps.                                    *)
(***************************************************************************)
EXTENDS Integers, Sequences

CONSTANTS
  BufferSize,   \* BUFFER_SIZE: slots of the ring
  Readers,      \* file handles on which dev_read may run concurrently
  ReadLens,     \* lengths passed to dev_read, in whole samples
  MaxWrites     \* bound: samples offered to dev_write in a behaviour

ASSUME BufferSizeAssumption == BufferSize \in Nat \ {0}
ASSUME ReadLensAssumption   == ReadLens \subseteq Nat
ASSUME MaxWritesAssumption  == MaxWrites \in Nat

VARIABLES
  ring_buffer,        \* the slots
  head, tail, count,  \* next slot to fill, oldest slot, filled slots
  is_buffer_locked,
  written,            \* samples offered so far, the next sample's timestamp
  rd                  \* per reader, the call of dev_read in progress or done

buffer == <<ring_buffer, head, tail, count, is_buffer_locked>>
vars   == <<ring_buffer, head, tail, count, is_buffer_locked, written, rd>>

Slots  == 0 .. BufferSize - 1
Uninit == -1                    \* what kmalloc_array leaves in a slot

-----------------------------------------------------------------------------

(***************************************************************************)
(* A call of dev_read.  tail and n are the locals current_tail and         *)
(* bytes_to_read (in samples), out is what reached the user.  Two fields   *)
(* are history: oldest is the oldest sample when the indices were taken,   *)
(* sealed says that the buffer was locked then and was not reset since.    *)
(***************************************************************************)
NoBytes(pc) == [pc |-> pc, tail |-> 0, n |-> 0, out |-> <<>>,
                oldest |-> 0, sealed |-> FALSE]

\* crash_buffer_init: memory from kmalloc_array is not cleared, the statics are.
Init ==
  /\ ring_buffer = [i \in Slots |-> Uninit]
  /\ head = 0 /\ tail = 0 /\ count = 0
  /\ is_buffer_locked = FALSE
  /\ written = 0
  /\ rd = [r \in Readers |-> NoBytes("idle")]

NextSlot(i) == (i + 1) % BufferSize

\* The slot of the i-th oldest sample when the oldest is in slot t.
SlotOf(t, i) == (t + i - 1) % BufferSize

\* dev_write on a locked buffer drops the sample and reports success.
DevWriteLocked ==
  /\ written < MaxWrites
  /\ is_buffer_locked
  /\ written' = written + 1
  /\ UNCHANGED <<buffer, rd>>

\* Whether dev_write stores the sample.  Mutant: the lock is not tested.
AcceptsAlways == TRUE
Accepts == ~is_buffer_locked

\* The slot dev_write fills.  Mutant: head is advanced before the store.
FilledSlotAdvanced == NextSlot(head)
FilledSlot == head

\* A full ring gives up its oldest slot.  Mutant: tail stays behind head.
TailAfterWriteStuck == tail
TailAfterWrite == IF count < BufferSize THEN tail ELSE NextSlot(tail)

\* Mutant: count goes past the capacity.
CountAfterWriteUnbounded == count + 1
CountAfterWrite == IF count < BufferSize THEN count + 1 ELSE count

DevWrite ==
  /\ written < MaxWrites
  /\ Accepts
  /\ ring_buffer' = [ring_buffer EXCEPT ![FilledSlot] = written]
  /\ head' = NextSlot(head)
  /\ tail' = TailAfterWrite
  /\ count' = CountAfterWrite
  /\ written' = written + 1
  /\ UNCHANGED <<is_buffer_locked, rd>>

\* dev_read, first critical section: take count and tail, size the answer.
DevReadSnapshot(r, len) ==
  /\ rd[r].pc # "copy"
  /\ rd' = [rd EXCEPT ![r] =
       IF count = 0
       THEN NoBytes("done")
       ELSE [pc     |-> "copy",
             tail   |-> tail,
             n      |-> IF len < count THEN len ELSE count,
             out    |-> <<>>,
             oldest |-> ring_buffer[tail],
             sealed |-> is_buffer_locked]]
  /\ UNCHANGED <<buffer, written>>

\* dev_read, second critical section: copy the slots the snapshot named.
DevReadCopy(r) ==
  /\ rd[r].pc = "copy"
  /\ rd' = [rd EXCEPT
       ![r].pc  = "done",
       ![r].out = [i \in 1 .. rd[r].n |->
                     ring_buffer[SlotOf(rd[r].tail, i)]]]
  /\ UNCHANGED <<buffer, written>>

\* dev_read fails with ENOMEM before the copy or with EFAULT after it.
DevReadFail(r) ==
  /\ rd[r].pc = "copy"
  /\ rd' = [rd EXCEPT ![r] = NoBytes("idle")]
  /\ UNCHANGED <<buffer, written>>

IoctlLock ==
  /\ is_buffer_locked' = TRUE
  /\ UNCHANGED <<ring_buffer, head, tail, count, written, rd>>

\* CRASH_BUFFER_IOC_UNLOCK also empties the ring; the slots keep their bytes.
IoctlUnlock ==
  /\ is_buffer_locked' = FALSE
  /\ head' = 0 /\ tail' = 0 /\ count' = 0
  /\ rd' = [r \in Readers |-> [rd[r] EXCEPT !.sealed = FALSE]]
  /\ UNCHANGED <<ring_buffer, written>>

Next ==
  \/ DevWriteLocked
  \/ DevWrite
  \/ \E r \in Readers, len \in ReadLens : DevReadSnapshot(r, len)
  \/ \E r \in Readers : DevReadCopy(r)
  \/ \E r \in Readers : DevReadFail(r)
  \/ IoctlLock
  \/ IoctlUnlock

Spec == Init /\ [][Next]_vars

-----------------------------------------------------------------------------

\* The samples the ring holds, oldest first.
Window == [i \in 1 .. count |-> ring_buffer[SlotOf(tail, i)]]

ReadCall ==
  [pc : {"idle", "copy", "done"}, tail : Slots, n : 0 .. BufferSize,
   out : Seq(Nat \cup {Uninit}), oldest : Nat, sealed : BOOLEAN]

\* Every variable has its type; head, tail and count stay within the ring.
TypeOK ==
  /\ ring_buffer \in [Slots -> Nat \cup {Uninit}]
  /\ head \in Slots
  /\ tail \in Slots
  /\ count \in 0 .. BufferSize
  /\ is_buffer_locked \in BOOLEAN
  /\ written \in Nat
  /\ rd \in [Readers -> ReadCall]

\* A read of a locked buffer that no UNLOCK overtakes returns exactly the
\* oldest n retained samples in order, whatever is written meanwhile: the
\* guarantee storage_task_save_crash_data relies on when it locks, then reads.
SealedReadExact ==
  \A r \in Readers :
    rd[r].pc = "done" /\ rd[r].sealed => rd[r].out = SubSeq(Window, 1, rd[r].n)

\* However writes, locks and resets interleave with its two sections, dev_read
\* never returns a slot kmalloc_array left uninitialised nor a sample that had
\* already been overwritten when the call took its snapshot.
ReadNeverStale ==
  \A r \in Readers :
    rd[r].pc = "done" =>
      \A i \in 1 .. Len(rd[r].out) :
        rd[r].out[i] # Uninit /\ rd[r].out[i] >= rd[r].oldest

\* The driver implements the abstract log: each store, lock and reset is the
\* abstract one on the window, every other step leaves the window alone.
Log == INSTANCE CrashLog WITH
         Capacity <- BufferSize,
         Sample   <- 0 .. MaxWrites,
         log      <- Window,
         frozen   <- is_buffer_locked

ImplementsCrashLog == Log!LogSpec

=============================================================================
