-------------------------- MODULE CrashBufferProofs --------------------------
(***************************************************************************)
(* For every ring size, set of readers and number of writes: the driver's  *)
(* types, the two guarantees of dev_read, and that the ring implements the *)
(* abstract log.                                                           *)
(*                                                                         *)
(* The argument.  tail moves only when the ring is full, so the ring has   *)
(* two shapes (RingShape): filling up from slot 0, or full with head on    *)
(* tail.  The window is sorted by timestamp and everything stored is older *)
(* than the next sample (WindowSorted, SlotsOlder).  A reader between its  *)
(* two sections names slots whose content can only get newer (ReadsFresh); *)
(* if its snapshot was taken under the lock, nothing has moved since       *)
(* (ReadsSealed).                                                          *)
(***************************************************************************)
EXTENDS CrashBuffer, SequenceTheorems, TLAPS

RingShape ==
  /\ count < BufferSize => tail = 0 /\ head = count
  /\ count = BufferSize => head = tail

SlotsOlder == \A i \in Slots : ring_buffer[i] < written

WindowSorted ==
  /\ \A i \in 1 .. count : ring_buffer[SlotOf(tail, i)] \in Nat
  /\ \A i, j \in 1 .. count :
       i < j => ring_buffer[SlotOf(tail, i)] < ring_buffer[SlotOf(tail, j)]

ReadsFresh ==
  \A r \in Readers :
    rd[r].pc = "copy" =>
      \A i \in 1 .. rd[r].n :
        ring_buffer[SlotOf(rd[r].tail, i)] >= rd[r].oldest

ReadsSealed ==
  \A r \in Readers :
    rd[r].sealed =>
      /\ is_buffer_locked
      /\ rd[r].n <= count
      /\ rd[r].pc = "copy" => rd[r].tail = tail

\* The inductive invariant.
IInv ==
  /\ TypeOK
  /\ RingShape
  /\ SlotsOlder
  /\ WindowSorted
  /\ ReadsFresh
  /\ ReadsSealed
  /\ SealedReadExact
  /\ ReadNeverStale

-----------------------------------------------------------------------------

\* Slot arithmetic without the remainder.
LEMMA ModSmall ==
  ASSUME NEW a \in Nat, a < BufferSize PROVE a % BufferSize = a
BY BufferSizeAssumption

LEMMA ModWrap ==
  ASSUME NEW a \in Nat, a >= BufferSize, a < 2 * BufferSize
  PROVE  a % BufferSize = a - BufferSize
BY BufferSizeAssumption

LEMMA SlotOfValue ==
  ASSUME NEW t \in Slots, NEW i \in 1 .. BufferSize
  PROVE  /\ SlotOf(t, i) \in Slots
         /\ t + i - 1 < BufferSize  => SlotOf(t, i) = t + i - 1
         /\ t + i - 1 >= BufferSize => SlotOf(t, i) = t + i - 1 - BufferSize
BY ModSmall, ModWrap, BufferSizeAssumption DEF SlotOf, Slots

LEMMA NextSlotValue ==
  ASSUME NEW t \in Slots
  PROVE  /\ NextSlot(t) \in Slots
         /\ t + 1 < BufferSize => NextSlot(t) = t + 1
         /\ t + 1 = BufferSize => NextSlot(t) = 0
BY ModSmall, ModWrap, BufferSizeAssumption DEF NextSlot, Slots

\* From the slot after t, position i is position i + 1 from t.
LEMMA SlotOfShift ==
  ASSUME NEW t \in Slots, NEW i \in 1 .. BufferSize - 1
  PROVE  SlotOf(NextSlot(t), i) = SlotOf(t, i + 1)
<1> DEFINE u == NextSlot(t)
<1>1. i \in 1 .. BufferSize /\ i + 1 \in 1 .. BufferSize
  BY BufferSizeAssumption
<1>2. u \in Slots
  BY NextSlotValue
<1>3. /\ u + i - 1 < BufferSize  => SlotOf(u, i) = u + i - 1
      /\ u + i - 1 >= BufferSize => SlotOf(u, i) = u + i - 1 - BufferSize
  BY <1>1, <1>2, SlotOfValue
<1>4. /\ t + i < BufferSize  => SlotOf(t, i + 1) = t + i
      /\ t + i >= BufferSize => SlotOf(t, i + 1) = t + i - BufferSize
  BY <1>1, SlotOfValue, BufferSizeAssumption DEF Slots
<1>5. CASE t + 1 < BufferSize
  <2>1. u = t + 1
    BY <1>5, NextSlotValue
  <2> QED BY <1>3, <1>4, <2>1, BufferSizeAssumption DEF Slots
<1>6. CASE t + 1 = BufferSize
  <2>1. u = 0
    BY <1>6, NextSlotValue
  <2> QED BY <1>3, <1>4, <1>6, <2>1, BufferSizeAssumption DEF Slots
<1> QED BY <1>5, <1>6, BufferSizeAssumption DEF Slots

\* Different positions are in different slots.
LEMMA SlotOfInjective ==
  ASSUME NEW t \in Slots, NEW i \in 1 .. BufferSize, NEW j \in 1 .. BufferSize,
         SlotOf(t, i) = SlotOf(t, j)
  PROVE  i = j
<1>1. /\ t + i - 1 < BufferSize  => SlotOf(t, i) = t + i - 1
      /\ t + i - 1 >= BufferSize => SlotOf(t, i) = t + i - 1 - BufferSize
  BY SlotOfValue
<1>2. /\ t + j - 1 < BufferSize  => SlotOf(t, j) = t + j - 1
      /\ t + j - 1 >= BufferSize => SlotOf(t, j) = t + j - 1 - BufferSize
  BY SlotOfValue
<1> QED BY <1>1, <1>2, BufferSizeAssumption DEF Slots

-----------------------------------------------------------------------------

\* What a storing dev_write does to the ring, by the shape of the ring.
LEMMA WriteEffect ==
  ASSUME TypeOK, RingShape, DevWrite
  PROVE  /\ ring_buffer' = [ring_buffer EXCEPT ![head] = written]
         /\ tail' \in Slots
         /\ count' \in 1 .. BufferSize
         /\ SlotOf(tail', count') = head
         /\ count < BufferSize => count' = count + 1 /\ tail' = tail
         /\ count = BufferSize => count' = count /\ tail' = NextSlot(tail)
<1>1. /\ ring_buffer' = [ring_buffer EXCEPT ![head] = written]
      /\ tail' = IF count < BufferSize THEN tail ELSE NextSlot(tail)
      /\ count' = IF count < BufferSize THEN count + 1 ELSE count
  BY DEF DevWrite, FilledSlot, TailAfterWrite, CountAfterWrite
<1>2. tail \in Slots /\ head \in Slots /\ count \in 0 .. BufferSize
  BY DEF TypeOK
<1>3. CASE count < BufferSize
  <2>1. tail = 0 /\ head = count
    BY <1>3 DEF RingShape
  <2>2. 0 \in Slots /\ count + 1 \in 1 .. BufferSize
    BY <1>2, <1>3, BufferSizeAssumption DEF Slots
  <2>3. SlotOf(0, count + 1) = count
    BY <1>2, <1>3, <2>2, SlotOfValue, BufferSizeAssumption
  <2> QED BY <1>1, <1>2, <1>3, <2>1, <2>2, <2>3, BufferSizeAssumption
<1>4. CASE count = BufferSize
  <2>1. head = tail
    BY <1>4 DEF RingShape
  <2>2. NextSlot(tail) \in Slots /\ BufferSize \in 1 .. BufferSize
    BY <1>2, NextSlotValue, BufferSizeAssumption
  <2>3. SlotOf(NextSlot(tail), BufferSize) = tail
    <3>1. CASE tail + 1 < BufferSize
      <4>1. NextSlot(tail) = tail + 1
        BY <1>2, <3>1, NextSlotValue
      <4> QED BY <1>2, <2>2, <3>1, <4>1, SlotOfValue, BufferSizeAssumption
              DEF Slots
    <3>2. CASE tail + 1 = BufferSize
      <4>1. NextSlot(tail) = 0
        BY <1>2, <3>2, NextSlotValue
      <4> QED BY <1>2, <2>2, <3>2, <4>1, SlotOfValue, BufferSizeAssumption
              DEF Slots
    <3> QED BY <1>2, <3>1, <3>2, BufferSizeAssumption DEF Slots
  <2> QED BY <1>1, <1>4, <2>1, <2>2, <2>3, BufferSizeAssumption
<1> QED BY <1>2, <1>3, <1>4, BufferSizeAssumption

\* The sample at position i of the new window, the last excepted, was at
\* Kept(i) of the old one, in the same slot, which the write did not touch.
Kept(i) == IF count < BufferSize THEN i ELSE i + 1

LEMMA WriteKeeps ==
  ASSUME TypeOK, RingShape, DevWrite, NEW i \in 1 .. count', i # count'
  PROVE  /\ SlotOf(tail', i) \in Slots
         /\ SlotOf(tail', i) # head
         /\ Kept(i) \in 1 .. count
         /\ SlotOf(tail', i) = SlotOf(tail, Kept(i))
<1>1. /\ tail' \in Slots
      /\ count' \in 1 .. BufferSize
      /\ SlotOf(tail', count') = head
      /\ count < BufferSize => count' = count + 1 /\ tail' = tail
      /\ count = BufferSize => count' = count /\ tail' = NextSlot(tail)
  BY WriteEffect
<1>2. tail \in Slots /\ count \in 0 .. BufferSize
  BY DEF TypeOK
<1>3. i \in 1 .. BufferSize /\ i < count'
  BY <1>1, BufferSizeAssumption
<1>4. SlotOf(tail', i) # head
  BY <1>1, <1>3, SlotOfInjective
<1>5. SlotOf(tail', i) \in Slots
  BY <1>1, <1>3, SlotOfValue
<1>6. CASE count < BufferSize
  BY <1>1, <1>2, <1>3, <1>4, <1>5, <1>6 DEF Kept
<1>7. CASE count = BufferSize
  <2>1. i \in 1 .. BufferSize - 1
    BY <1>1, <1>3, <1>7, BufferSizeAssumption
  <2>2. SlotOf(NextSlot(tail), i) = SlotOf(tail, i + 1)
    BY <1>2, <2>1, SlotOfShift
  <2> QED BY <1>1, <1>2, <1>4, <1>5, <1>7, <2>1, <2>2 DEF Kept
<1> QED BY <1>2, <1>6, <1>7, BufferSizeAssumption

-----------------------------------------------------------------------------

LEMMA InitIInv == Init => IInv
<1> SUFFICES ASSUME Init PROVE IInv
  OBVIOUS
<1> USE BufferSizeAssumption
<1>1. rd \in [Readers -> ReadCall]
  <2>1. NoBytes("idle") \in ReadCall
    BY DEF NoBytes, ReadCall, Slots
  <2> QED BY <2>1 DEF Init
<1>2. TypeOK
  <2>1. ring_buffer \in [Slots -> Nat \cup {Uninit}]
    BY DEF Init
  <2>2. 0 \in Slots /\ 0 \in 0 .. BufferSize
    BY DEF Slots
  <2> QED BY <1>1, <2>1, <2>2 DEF Init, TypeOK
<1>3. RingShape /\ SlotsOlder /\ WindowSorted
  BY DEF Init, RingShape, SlotsOlder, WindowSorted, Uninit
<1>4. \A r \in Readers : rd[r].pc = "idle" /\ rd[r].sealed = FALSE
  BY DEF Init, NoBytes
<1>5. ReadsFresh /\ ReadsSealed /\ SealedReadExact /\ ReadNeverStale
  BY <1>4 DEF ReadsFresh, ReadsSealed, SealedReadExact, ReadNeverStale
<1> QED BY <1>2, <1>3, <1>5 DEF IInv

\* The window depends on ring_buffer, tail and count only.
LEMMA WindowUnchanged ==
  ASSUME UNCHANGED <<ring_buffer, tail, count>>
  PROVE  Window' = Window /\ (WindowSorted => WindowSorted')
BY DEF Window, WindowSorted, SlotOf

LEMMA DevWriteLockedStep ==
  ASSUME IInv, DevWriteLocked PROVE IInv'
<1>1. /\ UNCHANGED <<ring_buffer, head, tail, count, is_buffer_locked, rd>>
      /\ written \in Nat /\ written' = written + 1
  BY DEF IInv, TypeOK, DevWriteLocked, buffer
<1>2. Window' = Window /\ WindowSorted'
  BY <1>1, WindowUnchanged DEF IInv
<1>3. TypeOK'
  BY <1>1 DEF IInv, TypeOK
<1>4. SlotsOlder'
  <2>1. ASSUME NEW i \in Slots PROVE ring_buffer[i] < written + 1
    BY <1>1 DEF IInv, SlotsOlder, TypeOK, Uninit
  <2> QED BY <1>1, <2>1 DEF SlotsOlder
<1>5. RingShape' /\ ReadsFresh' /\ ReadsSealed' /\ ReadNeverStale'
  BY <1>1 DEF IInv, RingShape, ReadsFresh, ReadsSealed, ReadNeverStale, SlotOf
<1>6. SealedReadExact'
  BY <1>1, <1>2 DEF IInv, SealedReadExact
<1> QED BY <1>2, <1>3, <1>4, <1>5, <1>6 DEF IInv

LEMMA DevWriteStep ==
  ASSUME IInv, DevWrite PROVE IInv'
<1> USE BufferSizeAssumption
<1>1. TypeOK /\ RingShape /\ SlotsOlder /\ WindowSorted
  BY DEF IInv
<1>2. /\ ring_buffer' = [ring_buffer EXCEPT ![head] = written]
      /\ tail' \in Slots
      /\ count' \in 1 .. BufferSize
      /\ SlotOf(tail', count') = head
      /\ count < BufferSize => count' = count + 1 /\ tail' = tail
      /\ count = BufferSize => count' = count /\ tail' = NextSlot(tail)
  BY <1>1, WriteEffect
<1>3. /\ written \in Nat /\ written' = written + 1
      /\ head \in Slots /\ tail \in Slots /\ count \in 0 .. BufferSize
      /\ head' = NextSlot(head)
      /\ is_buffer_locked = FALSE
      /\ UNCHANGED <<is_buffer_locked, rd>>
  BY <1>1 DEF TypeOK, DevWrite, Accepts
<1>4. TypeOK'
  BY <1>1, <1>2, <1>3, NextSlotValue DEF TypeOK
<1>5. RingShape'
  BY <1>1, <1>2, <1>3, NextSlotValue DEF RingShape, Slots
<1>6. \A i \in Slots :
        ring_buffer'[i] = IF i = head THEN written ELSE ring_buffer[i]
  BY <1>1, <1>2 DEF TypeOK
<1>7. SlotsOlder'
  <2>1. ASSUME NEW i \in Slots PROVE ring_buffer'[i] < written + 1
    <3>1. ring_buffer[i] < written /\ ring_buffer[i] \in Int
      BY <1>1 DEF SlotsOlder, TypeOK, Uninit
    <3> QED BY <1>3, <1>6, <3>1
  <2> QED BY <1>3, <2>1 DEF SlotsOlder
<1>8. ASSUME NEW i \in 1 .. count', i # count'
      PROVE  /\ Kept(i) \in 1 .. count
             /\ ring_buffer'[SlotOf(tail', i)] = ring_buffer[SlotOf(tail, Kept(i))]
             /\ ring_buffer'[SlotOf(tail', i)] \in Nat
             /\ ring_buffer'[SlotOf(tail', i)] < written
  <2>1. /\ SlotOf(tail', i) \in Slots
        /\ SlotOf(tail', i) # head
        /\ Kept(i) \in 1 .. count
        /\ SlotOf(tail', i) = SlotOf(tail, Kept(i))
    BY <1>1, <1>8, WriteKeeps
  <2>2. ring_buffer'[SlotOf(tail', i)] = ring_buffer[SlotOf(tail, Kept(i))]
    BY <1>6, <2>1
  <2> QED BY <1>1, <2>1, <2>2 DEF WindowSorted, SlotsOlder
<1>9. ring_buffer'[SlotOf(tail', count')] = written
  BY <1>2, <1>3, <1>6
<1>10. WindowSorted'
  <2>1. ASSUME NEW i \in 1 .. count' PROVE ring_buffer'[SlotOf(tail', i)] \in Nat
    BY <1>3, <1>8, <1>9
  <2>2. ASSUME NEW i \in 1 .. count', NEW j \in 1 .. count', i < j
        PROVE  ring_buffer'[SlotOf(tail', i)] < ring_buffer'[SlotOf(tail', j)]
    <3>1. i # count'
      BY <1>2, <2>2
    <3>2. CASE j = count'
      BY <1>8, <1>9, <3>1, <3>2
    <3>3. CASE j # count'
      <4>1. Kept(i) \in 1 .. count /\ Kept(j) \in 1 .. count
        BY <1>8, <3>1, <3>3
      <4>2. Kept(i) < Kept(j)
        BY <1>2, <2>2 DEF Kept
      <4>3. ring_buffer[SlotOf(tail, Kept(i))] < ring_buffer[SlotOf(tail, Kept(j))]
        BY <1>1, <4>1, <4>2 DEF WindowSorted
      <4> QED BY <1>8, <3>1, <3>3, <4>3
    <3> QED BY <3>2, <3>3
  <2>3. /\ \A i \in 1 .. count' : ring_buffer'[SlotOf(tail', i)] \in Nat
        /\ \A i, j \in 1 .. count' :
             i < j => ring_buffer'[SlotOf(tail', i)] < ring_buffer'[SlotOf(tail', j)]
    BY <2>1, <2>2
  <2> QED BY <2>3 DEF WindowSorted, SlotOf
<1>11. ReadsFresh'
  <2>1. ASSUME NEW r \in Readers, rd[r].pc = "copy", NEW i \in 1 .. rd[r].n
        PROVE  ring_buffer'[SlotOf(rd[r].tail, i)] >= rd[r].oldest
    <3>1. /\ rd[r].tail \in Slots /\ rd[r].n \in 0 .. BufferSize
          /\ rd[r].oldest \in Nat
      BY <1>1 DEF TypeOK, ReadCall
    <3>2. i \in 1 .. BufferSize
      BY <2>1, <3>1
    <3>3. SlotOf(rd[r].tail, i) \in Slots
      BY <3>1, <3>2, SlotOfValue
    <3>4. /\ ring_buffer[SlotOf(rd[r].tail, i)] >= rd[r].oldest
          /\ ring_buffer[SlotOf(rd[r].tail, i)] < written
          /\ ring_buffer[SlotOf(rd[r].tail, i)] \in Int
      BY <1>1, <2>1, <3>3 DEF IInv, ReadsFresh, SlotsOlder, TypeOK, Uninit
    <3> QED BY <1>3, <1>6, <3>1, <3>3, <3>4
  <2> QED BY <1>3, <2>1 DEF ReadsFresh, SlotOf
<1>12. \A r \in Readers : rd[r].sealed = FALSE
  BY <1>1, <1>3 DEF IInv, ReadsSealed, TypeOK, ReadCall
<1>13. ReadsSealed' /\ SealedReadExact'
  BY <1>3, <1>12 DEF ReadsSealed, SealedReadExact
<1>14. ReadNeverStale'
  BY <1>3 DEF IInv, ReadNeverStale
<1> QED BY <1>4, <1>5, <1>7, <1>10, <1>11, <1>13, <1>14 DEF IInv

\* A step that only changes rd keeps the invariants about the ring.
LEMMA RingUnchanged ==
  ASSUME IInv, UNCHANGED <<buffer, written>>, rd' \in [Readers -> ReadCall]
  PROVE  /\ TypeOK' /\ RingShape' /\ SlotsOlder' /\ WindowSorted'
         /\ Window' = Window
<1>1. UNCHANGED <<ring_buffer, head, tail, count, is_buffer_locked, written>>
  BY DEF buffer
<1> QED BY <1>1, WindowUnchanged DEF IInv, TypeOK, RingShape, SlotsOlder

\* The window is a sequence, and a prefix of it is named slot by slot.
LEMMA WindowSeq ==
  ASSUME TypeOK
  PROVE  /\ Window \in Seq(Nat \cup {Uninit})
         /\ Len(Window) = count
         /\ \A n \in 0 .. count :
              SubSeq(Window, 1, n) = [i \in 1 .. n |-> ring_buffer[SlotOf(tail, i)]]
<1>1. count \in 0 .. BufferSize /\ count \in Nat /\ tail \in Slots
  BY BufferSizeAssumption DEF TypeOK
<1>2. ASSUME NEW i \in 1 .. count
      PROVE  ring_buffer[SlotOf(tail, i)] \in Nat \cup {Uninit}
  <2>1. i \in 1 .. BufferSize
    BY <1>1, BufferSizeAssumption
  <2>2. SlotOf(tail, i) \in Slots
    BY <1>1, <2>1, SlotOfValue
  <2> QED BY <2>2 DEF TypeOK
<1>3. Window \in Seq(Nat \cup {Uninit}) /\ Len(Window) = count
  BY <1>1, <1>2 DEF Window
<1>4. ASSUME NEW n \in 0 .. count
      PROVE  SubSeq(Window, 1, n) = [i \in 1 .. n |-> ring_buffer[SlotOf(tail, i)]]
  <2>1. /\ SubSeq(Window, 1, n) \in Seq(Nat \cup {Uninit})
        /\ Len(SubSeq(Window, 1, n)) = n
        /\ \A i \in 1 .. n : SubSeq(Window, 1, n)[i] = Window[i]
    BY <1>1, <1>3
  <2>2. \A i \in 1 .. n : Window[i] = ring_buffer[SlotOf(tail, i)]
    BY <1>1 DEF Window
  <2> QED BY <2>1, <2>2
<1> QED BY <1>3, <1>4

LEMMA DevReadSnapshotStep ==
  ASSUME IInv, NEW r \in Readers, NEW len \in ReadLens, DevReadSnapshot(r, len)
  PROVE  IInv'
<1> USE BufferSizeAssumption, ReadLensAssumption
<1>1. TypeOK /\ len \in Nat /\ UNCHANGED <<buffer, written>>
  BY DEF IInv, DevReadSnapshot
<1>2. tail \in Slots /\ count \in 0 .. BufferSize /\ is_buffer_locked \in BOOLEAN
  BY <1>1 DEF TypeOK
<1> DEFINE empty == NoBytes("done")
           taken == [pc     |-> "copy",
                     tail   |-> tail,
                     n      |-> IF len < count THEN len ELSE count,
                     out    |-> <<>>,
                     oldest |-> ring_buffer[tail],
                     sealed |-> is_buffer_locked]
           call == IF count = 0 THEN empty ELSE taken
<1>3. rd' = [rd EXCEPT ![r] = call] /\ rd \in [Readers -> ReadCall]
  BY <1>1 DEF DevReadSnapshot, TypeOK
<1>4. empty \in ReadCall /\ empty.pc = "done" /\ ~empty.sealed /\ empty.out = <<>>
  BY DEF NoBytes, ReadCall, Slots
<1>5. CASE count = 0
  <2>1. rd' = [rd EXCEPT ![r] = empty]
    BY <1>3, <1>5
  <2>2. rd' \in [Readers -> ReadCall]
    BY <1>3, <1>4, <2>1
  <2>3. TypeOK' /\ RingShape' /\ SlotsOlder' /\ WindowSorted' /\ Window' = Window
    BY <1>1, <2>2, RingUnchanged
  <2>4. \A q \in Readers : q # r => rd'[q] = rd[q]
    BY <1>3, <2>1
  <2>5. rd'[r] = empty
    BY <1>3, <2>1
  <2> HIDE DEF empty
  <2>6. ReadsFresh' /\ ReadsSealed'
    BY <1>1, <1>4, <2>4, <2>5 DEF IInv, ReadsFresh, ReadsSealed, buffer, SlotOf
  <2>7. SealedReadExact'
    BY <1>4, <2>3, <2>4, <2>5 DEF IInv, SealedReadExact
  <2>8. ReadNeverStale'
    BY <1>4, <2>4, <2>5 DEF IInv, ReadNeverStale
  <2> QED BY <2>3, <2>6, <2>7, <2>8 DEF IInv
<1>6. CASE count # 0
  <2>1. rd' = [rd EXCEPT ![r] = taken]
    BY <1>3, <1>6
  <2>2. SlotOf(tail, 1) = tail
    BY <1>2, SlotOfValue DEF Slots
  <2>3. ring_buffer[tail] \in Nat
    BY <1>2, <1>6, <2>2 DEF IInv, WindowSorted
  <2>4. taken.n \in 0 .. BufferSize /\ taken.n <= count /\ taken.n \in Nat
    BY <1>1, <1>2
  <2>5. taken \in ReadCall
    BY <1>2, <2>3, <2>4 DEF ReadCall
  <2>6. rd' \in [Readers -> ReadCall]
    BY <1>3, <2>1, <2>5
  <2>7. TypeOK' /\ RingShape' /\ SlotsOlder' /\ WindowSorted' /\ Window' = Window
    BY <1>1, <2>6, RingUnchanged
  <2>8. (\A q \in Readers : q # r => rd'[q] = rd[q]) /\ rd'[r] = taken
    BY <1>3, <2>1
  <2>9. ASSUME NEW i \in 1 .. taken.n
        PROVE  ring_buffer[SlotOf(tail, i)] >= ring_buffer[tail]
    <3>1. i \in 1 .. count
      BY <1>2, <2>4
    <3>2. CASE i = 1
      BY <2>2, <2>3, <3>2
    <3>3. CASE i # 1
      BY <1>2, <1>6, <2>2, <2>3, <3>1, <3>3 DEF IInv, WindowSorted
    <3> QED BY <3>2, <3>3
  <2>10. /\ taken.pc = "copy" /\ taken.tail = tail /\ taken.oldest = ring_buffer[tail]
         /\ taken.sealed = is_buffer_locked
    OBVIOUS
  <2> HIDE DEF taken
  <2>11. ReadsFresh'
    <3>1. \A q \in Readers : rd'[q].pc = "copy" =>
            \A i \in 1 .. rd'[q].n :
               ring_buffer[SlotOf(rd'[q].tail, i)] >= rd'[q].oldest
      BY <2>8, <2>9, <2>10 DEF IInv, ReadsFresh
    <3> QED BY <1>1, <3>1 DEF ReadsFresh, buffer, SlotOf
  <2>12. ReadsSealed'
    BY <1>1, <2>4, <2>8, <2>10 DEF IInv, ReadsSealed, buffer
  <2>13. SealedReadExact'
    BY <2>7, <2>8, <2>10 DEF IInv, SealedReadExact
  <2>14. ReadNeverStale'
    BY <2>8, <2>10 DEF IInv, ReadNeverStale
  <2> QED BY <2>7, <2>11, <2>12, <2>13, <2>14 DEF IInv
<1> QED BY <1>5, <1>6

LEMMA DevReadCopyStep ==
  ASSUME IInv, NEW r \in Readers, DevReadCopy(r) PROVE IInv'
<1> USE BufferSizeAssumption
<1> DEFINE slot(i) == SlotOf(rd[r].tail, i)
           out == [i \in 1 .. rd[r].n |-> ring_buffer[slot(i)]]
<1>1. /\ TypeOK /\ rd[r].pc = "copy"
      /\ rd' = [rd EXCEPT ![r].pc = "done", ![r].out = out]
      /\ UNCHANGED <<buffer, written>>
  BY DEF IInv, DevReadCopy
<1>2. /\ rd \in [Readers -> ReadCall] /\ rd[r] \in ReadCall
      /\ rd[r].n \in 0 .. BufferSize /\ rd[r].n \in Nat
      /\ rd[r].tail \in Slots /\ rd[r].oldest \in Nat
  BY <1>1 DEF TypeOK, ReadCall
<1>3. ASSUME NEW i \in 1 .. rd[r].n
      PROVE  /\ ring_buffer[slot(i)] \in Nat \cup {Uninit}
             /\ ring_buffer[slot(i)] >= rd[r].oldest
             /\ ring_buffer[slot(i)] # Uninit
  <2>1. i \in 1 .. BufferSize
    BY <1>2
  <2>2. slot(i) \in Slots
    BY <1>2, <2>1, SlotOfValue
  <2>3. ring_buffer[slot(i)] \in Nat \cup {Uninit}
    BY <1>1, <2>2 DEF TypeOK
  <2>4. ring_buffer[slot(i)] >= rd[r].oldest
    BY <1>1 DEF IInv, ReadsFresh
  <2> QED BY <1>2, <2>3, <2>4 DEF Uninit
<1>4. /\ out \in Seq(Nat \cup {Uninit}) /\ Len(out) = rd[r].n
      /\ \A i \in 1 .. rd[r].n : out[i] = ring_buffer[slot(i)]
  BY <1>2, <1>3
<1>5. rd[r].sealed => out = SubSeq(Window, 1, rd[r].n)
  <2>1. SUFFICES ASSUME rd[r].sealed PROVE out = SubSeq(Window, 1, rd[r].n)
    OBVIOUS
  <2>2. rd[r].tail = tail /\ rd[r].n <= count
    BY <1>1, <2>1 DEF IInv, ReadsSealed
  <2>3. rd[r].n \in 0 .. count
    BY <1>1, <1>2, <2>2 DEF TypeOK
  <2>4. SubSeq(Window, 1, rd[r].n)
          = [i \in 1 .. rd[r].n |-> ring_buffer[SlotOf(tail, i)]]
    BY <1>1, <2>3, WindowSeq
  <2> QED BY <2>2, <2>4
<1> DEFINE new == [rd[r] EXCEPT !.pc = "done", !.out = out]
<1> HIDE DEF out
<1>6. new \in ReadCall
  BY <1>2, <1>4 DEF ReadCall
<1>7. /\ new.pc = "done" /\ new.out = out
      /\ new.n = rd[r].n /\ new.oldest = rd[r].oldest
      /\ new.sealed = rd[r].sealed
  BY <1>2 DEF ReadCall
<1>8. rd'[r] = new /\ \A q \in Readers : q # r => rd'[q] = rd[q]
  BY <1>1, <1>2
<1>9. rd' \in [Readers -> ReadCall]
  <2>1. rd' = [rd EXCEPT ![r] = new]
    BY <1>1, <1>2
  <2> QED BY <1>2, <1>6, <2>1
<1> HIDE DEF new
<1>10. TypeOK' /\ RingShape' /\ SlotsOlder' /\ WindowSorted' /\ Window' = Window
  BY <1>1, <1>9, RingUnchanged
<1>11. ReadsFresh' /\ ReadsSealed'
  <2>1. UNCHANGED <<ring_buffer, tail, count, is_buffer_locked>>
    BY <1>1 DEF buffer
  <2>2. ReadsFresh'
    BY <1>7, <1>8, <2>1 DEF IInv, ReadsFresh, SlotOf
  <2>3. ReadsSealed'
    BY <1>7, <1>8, <2>1 DEF IInv, ReadsSealed
  <2> QED BY <2>2, <2>3
<1>12. SealedReadExact'
  BY <1>5, <1>7, <1>8, <1>10 DEF IInv, SealedReadExact
<1>13. ReadNeverStale'
  <2>1. \A i \in 1 .. Len(out) : out[i] # Uninit /\ out[i] >= rd[r].oldest
    BY <1>3, <1>4
  <2> QED BY <1>7, <1>8, <2>1 DEF IInv, ReadNeverStale
<1> QED BY <1>10, <1>11, <1>12, <1>13 DEF IInv

LEMMA DevReadFailStep ==
  ASSUME IInv, NEW r \in Readers, DevReadFail(r) PROVE IInv'
<1> DEFINE none == NoBytes("idle")
<1>1. /\ TypeOK /\ rd' = [rd EXCEPT ![r] = none]
      /\ UNCHANGED <<buffer, written>>
  BY DEF IInv, DevReadFail
<1>2. none \in ReadCall /\ none.pc = "idle" /\ none.sealed = FALSE
  BY BufferSizeAssumption DEF NoBytes, ReadCall, Slots
<1>3. rd' \in [Readers -> ReadCall]
  BY <1>1, <1>2 DEF TypeOK
<1>4. TypeOK' /\ RingShape' /\ SlotsOlder' /\ WindowSorted' /\ Window' = Window
  BY <1>1, <1>3, RingUnchanged
<1>5. rd'[r] = none /\ \A q \in Readers : q # r => rd'[q] = rd[q]
  BY <1>1 DEF TypeOK
<1> HIDE DEF none
<1>6. ReadsFresh' /\ ReadsSealed'
  BY <1>1, <1>2, <1>5 DEF IInv, ReadsFresh, ReadsSealed, buffer, SlotOf
<1>7. SealedReadExact' /\ ReadNeverStale'
  BY <1>2, <1>4, <1>5 DEF IInv, SealedReadExact, ReadNeverStale
<1> QED BY <1>4, <1>6, <1>7 DEF IInv

LEMMA IoctlLockStep ==
  ASSUME IInv, IoctlLock PROVE IInv'
<1>1. /\ UNCHANGED <<ring_buffer, head, tail, count, written, rd>>
      /\ is_buffer_locked' = TRUE
  BY DEF IoctlLock
<1>2. Window' = Window /\ WindowSorted'
  BY <1>1, WindowUnchanged DEF IInv
<1>3. TypeOK' /\ RingShape' /\ SlotsOlder'
  BY <1>1 DEF IInv, TypeOK, RingShape, SlotsOlder
<1>4. ReadsFresh' /\ ReadsSealed' /\ SealedReadExact' /\ ReadNeverStale'
  BY <1>1, <1>2 DEF IInv, ReadsFresh, ReadsSealed, SealedReadExact,
                    ReadNeverStale, SlotOf
<1> QED BY <1>2, <1>3, <1>4 DEF IInv

LEMMA IoctlUnlockStep ==
  ASSUME IInv, IoctlUnlock PROVE IInv'
<1> USE BufferSizeAssumption
<1>1. /\ UNCHANGED <<ring_buffer, written>>
      /\ is_buffer_locked' = FALSE
      /\ head' = 0 /\ tail' = 0 /\ count' = 0
      /\ rd' = [r \in Readers |-> [rd[r] EXCEPT !.sealed = FALSE]]
  BY DEF IoctlUnlock
<1>2. ASSUME NEW r \in Readers
      PROVE  /\ rd'[r] \in ReadCall
             /\ rd'[r].sealed = FALSE
             /\ rd'[r].pc = rd[r].pc /\ rd'[r].tail = rd[r].tail
             /\ rd'[r].n = rd[r].n /\ rd'[r].out = rd[r].out
             /\ rd'[r].oldest = rd[r].oldest
  <2>1. rd[r] \in ReadCall /\ rd'[r] = [rd[r] EXCEPT !.sealed = FALSE]
    BY <1>1 DEF IInv, TypeOK
  <2> QED BY <2>1 DEF ReadCall
<1>3. rd' \in [Readers -> ReadCall]
  BY <1>1, <1>2
<1>4. TypeOK'
  <2>1. 0 \in Slots /\ 0 \in 0 .. BufferSize
    BY DEF Slots
  <2>2. UNCHANGED <<ring_buffer, written>>
    BY <1>1
  <2>3. head' = 0 /\ tail' = 0 /\ count' = 0 /\ is_buffer_locked' = FALSE
    BY <1>1
  <2> QED BY <1>3, <2>1, <2>2, <2>3 DEF IInv, TypeOK
<1>5. RingShape' /\ SlotsOlder' /\ WindowSorted'
  BY <1>1 DEF IInv, RingShape, SlotsOlder, WindowSorted
<1>6. ReadsFresh'
  BY <1>1, <1>2 DEF IInv, ReadsFresh, SlotOf
<1>7. ReadsSealed' /\ SealedReadExact'
  BY <1>2 DEF ReadsSealed, SealedReadExact
<1>8. ReadNeverStale'
  BY <1>2 DEF IInv, ReadNeverStale
<1> QED BY <1>4, <1>5, <1>6, <1>7, <1>8 DEF IInv

LEMMA StutterStep ==
  ASSUME IInv, UNCHANGED vars PROVE IInv'
<1>1. UNCHANGED <<buffer, written>> /\ rd' = rd
  BY DEF vars, buffer
<1>2. TypeOK' /\ RingShape' /\ SlotsOlder' /\ WindowSorted' /\ Window' = Window
  BY <1>1, RingUnchanged DEF IInv, TypeOK
<1>3. ReadsFresh' /\ ReadsSealed' /\ SealedReadExact' /\ ReadNeverStale'
  BY <1>1, <1>2 DEF IInv, ReadsFresh, ReadsSealed, SealedReadExact,
                    ReadNeverStale, SlotOf, buffer
<1> QED BY <1>2, <1>3 DEF IInv

\* The strengthened invariant holds of the driver.
THEOREM Invariance == Spec => []IInv
<1>1. Init => IInv
  BY InitIInv
<1>2. IInv /\ [Next]_vars => IInv'
  <2> SUFFICES ASSUME IInv, [Next]_vars PROVE IInv'
    OBVIOUS
  <2>1. CASE DevWriteLocked
    BY <2>1, DevWriteLockedStep
  <2>2. CASE DevWrite
    BY <2>2, DevWriteStep
  <2>3. CASE \E r \in Readers, len \in ReadLens : DevReadSnapshot(r, len)
    BY <2>3, DevReadSnapshotStep
  <2>4. CASE \E r \in Readers : DevReadCopy(r)
    BY <2>4, DevReadCopyStep
  <2>5. CASE \E r \in Readers : DevReadFail(r)
    BY <2>5, DevReadFailStep
  <2>6. CASE IoctlLock
    BY <2>6, IoctlLockStep
  <2>7. CASE IoctlUnlock
    BY <2>7, IoctlUnlockStep
  <2>8. CASE UNCHANGED vars
    BY <2>8, StutterStep
  <2> QED BY <2>1, <2>2, <2>3, <2>4, <2>5, <2>6, <2>7, <2>8 DEF Next
<1> QED BY <1>1, <1>2, PTL DEF Spec

\* Types: the indices never leave the ring, count never passes its size.
THEOREM TypeCorrect == Spec => []TypeOK
<1>1. IInv => TypeOK
  BY DEF IInv
<1> QED BY <1>1, Invariance, PTL

\* What task 3 relies on: a read under the lock returns exactly the oldest
\* retained samples, for every ring size and any number of other readers.
THEOREM SealedReadCorrect == Spec => []SealedReadExact
<1>1. IInv => SealedReadExact
  BY DEF IInv
<1> QED BY <1>1, Invariance, PTL

\* An unlocked read, raced by writes and resets, returns neither uninitialised
\* memory nor a sample overwritten before the call.
THEOREM ReadFreshness == Spec => []ReadNeverStale
<1>1. IInv => ReadNeverStale
  BY DEF IInv
<1> QED BY <1>1, Invariance, PTL

-----------------------------------------------------------------------------

\* A storing dev_write records the sample in the abstract log.
LEMMA DevWriteRecords ==
  ASSUME IInv, DevWrite PROVE Log!Record(written)
<1> USE BufferSizeAssumption
<1>1. TypeOK /\ TypeOK' /\ RingShape
  BY DevWriteStep DEF IInv
<1>2. /\ ring_buffer' = [ring_buffer EXCEPT ![head] = written]
      /\ count' \in 1 .. BufferSize
      /\ SlotOf(tail', count') = head
      /\ count < BufferSize => count' = count + 1
      /\ count = BufferSize => count' = count
  BY <1>1, WriteEffect
<1>3. /\ Window \in Seq(Nat \cup {Uninit}) /\ Len(Window) = count
      /\ count \in 0 .. BufferSize /\ written \in Nat
      /\ head \in Slots
  BY <1>1, WindowSeq DEF TypeOK
<1>4. Window' = [i \in 1 .. count' |-> ring_buffer'[SlotOf(tail', i)]]
  BY DEF Window, SlotOf
<1>5. \A i \in Slots :
        ring_buffer'[i] = IF i = head THEN written ELSE ring_buffer[i]
  BY <1>1, <1>2 DEF TypeOK
<1>6. ring_buffer'[SlotOf(tail', count')] = written
  BY <1>2, <1>3, <1>5
<1>7. ASSUME NEW i \in 1 .. count', i # count'
      PROVE  ring_buffer'[SlotOf(tail', i)] = Window[Kept(i)]
  <2>1. /\ SlotOf(tail', i) \in Slots /\ SlotOf(tail', i) # head
        /\ Kept(i) \in 1 .. count
        /\ SlotOf(tail', i) = SlotOf(tail, Kept(i))
    BY <1>1, <1>7, WriteKeeps
  <2>2. Window[Kept(i)] = ring_buffer[SlotOf(tail, Kept(i))]
    BY <2>1 DEF Window
  <2> QED BY <1>5, <2>1, <2>2
<1>8. /\ Window' \in Seq(Nat \cup {Uninit}) /\ Len(Window') = count'
      /\ \A i \in 1 .. count' : Window'[i] = ring_buffer'[SlotOf(tail', i)]
  <2>1. ASSUME NEW i \in 1 .. count'
        PROVE  ring_buffer'[SlotOf(tail', i)] \in Nat \cup {Uninit}
    <3>1. i \in 1 .. BufferSize /\ tail' \in Slots
      BY <1>1, <1>2 DEF TypeOK
    <3>2. SlotOf(tail', i) \in Slots
      BY <3>1, SlotOfValue
    <3> QED BY <1>1, <3>2 DEF TypeOK
  <2>2. count' \in Nat
    BY <1>2
  <2> QED BY <1>4, <2>1, <2>2
<1> DEFINE appended == Log!Extended(written)
<1>9. ASSUME count < BufferSize PROVE Window' = appended
  <2>1. appended = Append(Window, written)
    BY <1>3, <1>9 DEF Log!Extended
  <2>2. /\ Len(Append(Window, written)) = count + 1
        /\ \A i \in 1 .. count : Append(Window, written)[i] = Window[i]
        /\ Append(Window, written)[count + 1] = written
        /\ Append(Window, written) \in Seq(Nat \cup {Uninit})
    BY <1>3
  <2>3. \A i \in 1 .. count' :
          ring_buffer'[SlotOf(tail', i)] = Append(Window, written)[i]
    BY <1>2, <1>3, <1>6, <1>7, <1>9, <2>2 DEF Kept
  <2>4. Window' = Append(Window, written)
    BY <1>2, <1>9, <1>8, <2>2, <2>3, SeqEqual
  <2> QED BY <2>1, <2>4
<1>10. ASSUME count = BufferSize PROVE Window' = appended
  <2> DEFINE rest == Tail(Window)
  <2>1. appended = Append(rest, written)
    BY <1>3, <1>10 DEF Log!Extended
  <2>2. /\ rest \in Seq(Nat \cup {Uninit}) /\ Len(rest) = count - 1
        /\ \A i \in 1 .. count - 1 : rest[i] = Window[i + 1]
    BY <1>3, <1>10
  <2> HIDE DEF rest
  <2>3. /\ Len(Append(rest, written)) = count
        /\ \A i \in 1 .. count - 1 : Append(rest, written)[i] = rest[i]
        /\ Append(rest, written)[count] = written
        /\ Append(rest, written) \in Seq(Nat \cup {Uninit})
    BY <1>3, <1>10, <2>2
  <2>4. \A i \in 1 .. count' :
          ring_buffer'[SlotOf(tail', i)] = Append(rest, written)[i]
    BY <1>2, <1>3, <1>6, <1>7, <1>10, <2>2, <2>3 DEF Kept
  <2>5. Window' = Append(rest, written)
    BY <1>2, <1>10, <1>8, <2>3, <2>4, SeqEqual
  <2> QED BY <2>1, <2>5
<1>11. Window' = appended
  BY <1>3, <1>9, <1>10
<1>12. is_buffer_locked = FALSE /\ is_buffer_locked' = is_buffer_locked
  BY <1>1 DEF DevWrite, Accepts, TypeOK
<1> QED BY <1>11, <1>12 DEF Log!Record

\* The ring implements the abstract log: a store is a Record, LOCK a Freeze,
\* UNLOCK a Reset, and reads and dropped samples leave the log alone.
THEOREM Refinement == Spec => ImplementsCrashLog
<1>1. Init => Log!LogInit
  <2> SUFFICES ASSUME Init PROVE Log!LogInit
    OBVIOUS
  <2>1. Window = <<>>
    BY DEF Init, Window
  <2> QED BY <2>1 DEF Init, Log!LogInit
<1>2. IInv /\ [Next]_vars => [Log!LogNext]_(Log!logVars)
  <2> SUFFICES ASSUME IInv, [Next]_vars
               PROVE  Log!LogNext \/ UNCHANGED Log!logVars
    OBVIOUS
  <2>1. CASE UNCHANGED <<ring_buffer, tail, count, is_buffer_locked>>
    BY <2>1, WindowUnchanged DEF Log!logVars
  <2>2. CASE DevWrite
    <3>1. written \in 0 .. MaxWrites
      BY <2>2, MaxWritesAssumption DEF IInv, TypeOK, DevWrite
    <3> QED BY <2>2, <3>1, DevWriteRecords DEF Log!LogNext
  <2>3. CASE IoctlLock
    <3>1. Window' = Window /\ is_buffer_locked' = TRUE
      BY <2>3, WindowUnchanged DEF IoctlLock
    <3> QED BY <3>1 DEF Log!LogNext, Log!Freeze
  <2>4. CASE IoctlUnlock
    <3>1. Window' = <<>> /\ is_buffer_locked' = FALSE
      BY <2>4 DEF IoctlUnlock, Window
    <3> QED BY <3>1 DEF Log!LogNext, Log!Reset
  <2> QED
    BY <2>1, <2>2, <2>3, <2>4
       DEF Next, DevWriteLocked, DevReadSnapshot, DevReadCopy, DevReadFail,
           vars, buffer
<1> QED BY <1>1, <1>2, Invariance, PTL DEF Spec, ImplementsCrashLog, Log!LogSpec

=============================================================================
