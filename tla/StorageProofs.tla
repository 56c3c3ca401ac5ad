---------------------------- MODULE StorageProofs ----------------------------
(***************************************************************************)
(* What saving holds and what it leaves on the disk, and that it ends, for *)
(* any number of samples, size of a frame and size of the C library's      *)
(* buffer.                                                                 *)
(***************************************************************************)
EXTENDS Storage, TLAPS

\* The steps in their order.
Opening == {"base", "crash_dir", "open", "lock", "malloc", "read", "fopen"}
Printing == {"print", "fflush", "fsync"}
Copying == {"raw_open", "raw_write", "raw_fsync"}
Colouring == Optional
Ending == {"cleanup", "release", "returned", "off"}

\* What is held before a step, by what the calls before it acquired.
HeldAt(step) ==
  (IF step \in {"base", "crash_dir", "open", "returned"} THEN {} ELSE {"fd_dev"})
  \cup (IF step \in {"base", "crash_dir", "open", "lock", "malloc", "returned"}
        THEN {} ELSE {"buffer_data"})
  \cup (IF step \in Printing \cup {"header", "rgb_row", "rows", "ppm_fflush", "ppm_fsync"}
        THEN {"fp"} ELSE {})
  \cup (IF step \in {"raw_write", "raw_fsync"} THEN {"fd"} ELSE {})
  \cup (IF step \in {"ppm_fopen", "header", "rgb_row", "rows"} THEN {"raw8"} ELSE {})
  \cup (IF step = "rows" THEN {"rgb_row"} ELSE {})

\* At the end what a failing step had not acquired may be missing.
Holding ==
  /\ pc \notin {"cleanup", "release", "off"} =>
       \A r \in Resource : held[r] = (IF r \in HeldAt(pc) THEN 1 ELSE 0)
  /\ pc \in {"cleanup", "release"} =>
       \A r \in Resource \ {"fd_dev", "buffer_data"} : held[r] = 0

\* A file is empty before it is opened, and so is the stream.
Untouched ==
  /\ pc \in Opening => cache["telemetry"] = <<>> /\ lost["telemetry"] = {}
  /\ pc \in Opening \cup Printing \cup {"raw_open"} => cache["raw"] = <<>>
  /\ pc \in Opening \cup Printing \cup Copying \cup {"check", "raw8", "ppm_fopen"} =>
       cache["ppm"] = <<>>
  /\ pc \in Opening \cup Printing \cup Copying \cup Colouring => lost["ppm"] = {}
  /\ pc \in Opening \cup Copying \cup {"fsync", "check", "raw8", "ppm_fopen", "ppm_fsync"} =>
       stream = <<>>

\* Why a step is there.
Reasons ==
  /\ pc \in Copying => image # "none"
  /\ pc \in Colouring => image = "praa"
  /\ pc \notin {"base", "returned", "off"} => dirs["base"] = "directory"
  /\ pc \notin {"base", "crash_dir", "returned", "off"} => dirs["crash_dir"] = "directory"
  /\ ret = 0 => /\ pc \in Ending
                /\ \A d \in Directory : dirs[d] = "directory"

\* The lines printed so far are in the file, in the stream or lost.
Written(f) ==
  /\ Increasing(cache[f] \o stream)
  /\ Elements(cache[f] \o stream) = (0 .. i - 1) \ lost[f]
  /\ lost[f] \subseteq 0 .. i - 1

OnDisk(f) == Whole(f) /\ synced[f] = Len(cache[f])

\* How far each file has come.
Progress ==
  /\ pc = "print" => Written("telemetry") /\ i <= count + 1
  /\ pc = "fflush" => Written("telemetry") /\ i = count + 1
  /\ pc = "fsync" => Whole("telemetry")
  /\ pc = "raw_write" =>
       /\ remaining <= ImageSize
       /\ cache["raw"] = [k \in 1 .. ImageSize - remaining |-> k]
  /\ pc = "raw_fsync" => Whole("raw")
  /\ pc = "header" => i = 0
  /\ pc \in {"header", "rgb_row", "rows"} => Written("ppm") /\ i <= ImageHeight + 1
  /\ pc = "ppm_fflush" => Written("ppm") /\ i = ImageHeight + 1
  /\ pc = "ppm_fsync" => Whole("ppm")

\* A file is begun only after the one before it is on the disk.
Order ==
  /\ pc \in Copying \cup Colouring \/ cache["raw"] # <<>> => OnDisk("telemetry")
  /\ pc \in Colouring \/ cache["ppm"] # <<>> => OnDisk("raw")
  /\ pc = "saved" \/ ret = 0 => \A f \in Made : OnDisk(f)

\* What is on the disk was written before, and a power cut leaves it.
Survives ==
  /\ \A f \in File : synced[f] <= Len(cache[f])
  /\ pc = "off" => \A f \in File : synced[f] <= survived[f] /\ survived[f] <= Len(cache[f])

\* The inductive invariant.
IInv ==
  TypeOK /\ Holding /\ Untouched /\ Reasons /\ Progress /\ Order /\ Survives

-----------------------------------------------------------------------------
(* Sequences of lines. *)

\* A line put after smaller ones.
LEMMA AppendLine ==
  ASSUME NEW s \in Seq(Nat), NEW x \in Nat, Increasing(s),
         \A k \in DOMAIN s : s[k] < x
  PROVE  /\ Increasing(Append(s, x))
         /\ Elements(Append(s, x)) = Elements(s) \cup {x}
<1> DEFINE t == Append(s, x)
<1>1. /\ t \in Seq(Nat) /\ Len(t) = Len(s) + 1 /\ t[Len(s) + 1] = x
      /\ \A k \in 1 .. Len(s) : t[k] = s[k]
      /\ DOMAIN s = 1 .. Len(s) /\ DOMAIN t = 1 .. Len(s) + 1 /\ Len(s) \in Nat
  OBVIOUS
<1> HIDE DEF t
<1>2. Increasing(t)
  <2> SUFFICES ASSUME NEW j \in 1 .. Len(s) + 1, NEW k \in 1 .. Len(s) + 1, j < k
               PROVE  t[j] < t[k]
    BY <1>1 DEF Increasing
  <2>1. j \in 1 .. Len(s) /\ t[j] = s[j]
    BY <1>1
  <2>2. CASE k = Len(s) + 1
    BY <1>1, <2>1, <2>2
  <2>3. CASE k # Len(s) + 1
    <3>1. Len(s) \in Nat
      OBVIOUS
    <3>2. k \in 1 .. Len(s)
      BY <2>3, <3>1
    <3>3. t[k] = s[k] /\ s[j] < s[k]
      BY <1>1, <2>1, <3>2 DEF Increasing
    <3> QED
      BY <2>1, <3>3
  <2> QED
    BY <2>2, <2>3
<1>3. \A e \in Elements(t) : e \in Elements(s) \cup {x}
  BY <1>1 DEF Elements
<1>4. \A e \in Elements(s) \cup {x} : e \in Elements(t)
  <2>1. 1 .. Len(s) \subseteq DOMAIN t /\ Len(s) + 1 \in DOMAIN t
    BY <1>1
  <2> QED
    BY <1>1, <2>1 DEF Elements
<1>5. Elements(t) = Elements(s) \cup {x}
  BY <1>3, <1>4
<1> QED
  BY <1>2, <1>5 DEF t

\* Cutting a file in two parts its lines.
LEMMA CutLines ==
  ASSUME NEW s \in Seq(Nat), Increasing(s), NEW n \in 0 .. Len(s)
  PROVE  LET p == SubSeq(s, 1, n)
             q == SubSeq(s, n + 1, Len(s))
         IN  /\ p \in Seq(Nat) /\ q \in Seq(Nat)
             /\ Increasing(p)
             /\ Elements(p) = Elements(s) \ Elements(q)
             /\ Elements(q) \subseteq Elements(s)
<1> DEFINE p == SubSeq(s, 1, n)
           q == SubSeq(s, n + 1, Len(s))
           l == Len(s)
<1>1. l \in Nat /\ n \in Nat /\ n <= l /\ DOMAIN s = 1 .. l
  OBVIOUS
<1>2. /\ p \in Seq(Nat) /\ DOMAIN p = 1 .. n
      /\ \A k \in 1 .. n : p[k] = s[k]
  OBVIOUS
<1>3. /\ q \in Seq(Nat) /\ DOMAIN q = 1 .. l - n
      /\ \A k \in 1 .. l - n : q[k] = s[n + k]
  OBVIOUS
<1> HIDE DEF p, q, l
<1>4. Increasing(p)
  BY <1>1, <1>2 DEF Increasing
<1>5. Elements(q) \subseteq Elements(s)
  <2>1. \A k \in 1 .. l - n : n + k \in DOMAIN s
    BY <1>1
  <2> QED
    BY <1>3, <2>1 DEF Elements
<1>6. \A e \in Elements(p) : e \in Elements(s) /\ e \notin Elements(q)
  <2> SUFFICES ASSUME NEW j \in 1 .. n
               PROVE  p[j] \in Elements(s) /\ \A k \in 1 .. l - n : q[k] # p[j]
    BY <1>2, <1>3 DEF Elements
  <2>1. j \in DOMAIN s /\ p[j] = s[j]
    BY <1>1, <1>2
  <2>2. \A k \in 1 .. l - n : n + k \in DOMAIN s /\ j < n + k
    BY <1>1
  <2>3. \A k \in 1 .. l - n : s[j] < s[n + k] /\ s[j] \in Nat
    BY <2>1, <2>2 DEF Increasing
  <2> QED
    BY <1>3, <2>1, <2>3 DEF Elements
<1>7. \A e \in Elements(s) : e \in Elements(p) \/ e \in Elements(q)
  <2> SUFFICES ASSUME NEW k \in 1 .. l
               PROVE  s[k] \in Elements(p) \/ s[k] \in Elements(q)
    BY <1>1 DEF Elements
  <2>1. CASE k <= n
    BY <1>1, <1>2, <2>1 DEF Elements
  <2>2. CASE k > n
    <3>1. k - n \in 1 .. l - n /\ n + (k - n) = k
      BY <1>1, <2>2
    <3> QED
      BY <1>3, <3>1 DEF Elements
  <2> QED
    BY <1>1, <2>1, <2>2
<1>8. Elements(p) = Elements(s) \ Elements(q)
  BY <1>6, <1>7
<1> QED
  BY <1>2, <1>3, <1>4, <1>5, <1>8 DEF p, q, l

\* The first lines of a sequence.
LEMMA Front ==
  ASSUME NEW s \in Seq(Nat), NEW n \in 0 .. Len(s)
  PROVE  /\ SubSeq(s, 1, n) \in Seq(Nat) /\ Len(SubSeq(s, 1, n)) = n
         /\ \A k \in 1 .. n : SubSeq(s, 1, n)[k] = s[k]
OBVIOUS

\* What is put behind, or taken off, the end of the second of two sequences.
LEMMA EndOfTwo ==
  ASSUME NEW c \in Seq(Nat), NEW t \in Seq(Nat), NEW x \in Nat
  PROVE  /\ c \o Append(t, x) = Append(c \o t, x)
         /\ c \o <<>> = c /\ c \o t \in Seq(Nat)
         /\ Len(c \o t) = Len(c) + Len(t)
         /\ \A n \in 0 .. Len(t) :
              /\ c \o SubSeq(t, 1, n) = SubSeq(c \o t, 1, Len(c) + n)
              /\ SubSeq(t, n + 1, Len(t)) =
                   SubSeq(c \o t, Len(c) + n + 1, Len(c \o t))
<1>1. c \o Append(t, x) = Append(c \o t, x)
  OBVIOUS
<1>2. c \o <<>> = c /\ c \o t \in Seq(Nat) /\ Len(c \o t) = Len(c) + Len(t)
  OBVIOUS
<1>3. ASSUME NEW n \in 0 .. Len(t)
      PROVE  c \o SubSeq(t, 1, n) = SubSeq(c \o t, 1, Len(c) + n)
  <2> DEFINE front == SubSeq(t, 1, n)
             both == c \o t
  <2>1. /\ front \in Seq(Nat) /\ Len(front) = n
        /\ \A k \in 1 .. n : front[k] = t[k]
    OBVIOUS
  <2>2. /\ both \in Seq(Nat) /\ Len(both) = Len(c) + Len(t)
        /\ \A k \in 1 .. Len(c) : both[k] = c[k]
        /\ \A k \in 1 .. Len(t) : both[Len(c) + k] = t[k]
    OBVIOUS
  <2> DEFINE left == c \o front
             right == SubSeq(both, 1, Len(c) + n)
  <2>3. /\ left \in Seq(Nat) /\ Len(left) = Len(c) + n
        /\ \A k \in 1 .. Len(c) : left[k] = c[k]
        /\ \A k \in 1 .. n : left[Len(c) + k] = t[k]
    BY <2>1
  <2>4. /\ right \in Seq(Nat) /\ Len(right) = Len(c) + n
        /\ \A k \in 1 .. Len(c) + n : right[k] = both[k]
    <3>1. Len(c) + n \in 0 .. Len(both)
      BY <2>2
    <3> HIDE DEF both
    <3> QED
      BY <2>2, <3>1, Front
  <2>5. ASSUME NEW k \in 1 .. Len(c) + n PROVE left[k] = right[k]
    <3>1. CASE k <= Len(c)
      BY <3>1, <2>2, <2>3, <2>4
    <3>2. CASE k > Len(c)
      <4>1. k - Len(c) \in 1 .. n /\ k = Len(c) + (k - Len(c))
        BY <3>2
      <4> QED
        BY <4>1, <2>2, <2>3, <2>4
    <3> QED
      BY <3>1, <3>2
  <2> QED
    BY <2>3, <2>4, <2>5
<1>4. ASSUME NEW n \in 0 .. Len(t)
      PROVE  SubSeq(t, n + 1, Len(t)) =
               SubSeq(c \o t, Len(c) + n + 1, Len(c \o t))
  OBVIOUS
<1> QED
  BY <1>1, <1>2, <1>3, <1>4

-----------------------------------------------------------------------------
(* The streams. *)

\* A call that may move lines out of the stream of file f.
Moves(f) ==
  \/ Put(f, i) \/ PutFails(f, i)
  \/ \E n \in 0 .. Len(stream) : Flush(f, n) /\ stream' = <<>>

\* Whatever it moves, only this file grows.
LEMMA OnlyGrows ==
  ASSUME TypeOK, NEW f \in File, Moves(f)
  PROVE  /\ cache' \in [File -> Seq(Nat)] /\ lost' \in [File -> SUBSET Nat]
         /\ stream' \in Seq(Nat) /\ Len(stream') <= Capacity
         /\ Len(cache[f]) <= Len(cache'[f])
         /\ \A g \in File \ {f} : cache'[g] = cache[g] /\ lost'[g] = lost[g]
<1>0. /\ cache \in [File -> Seq(Nat)] /\ lost \in [File -> SUBSET Nat]
      /\ stream \in Seq(Nat) /\ Len(stream) <= Capacity /\ i \in Nat
      /\ Capacity \in Nat \ {0} /\ Len(stream) \in Nat /\ cache[f] \in Seq(Nat)
      /\ lost[f] \subseteq Nat /\ <<>> \in Seq(Nat) /\ Len(<<>>) = 0
  BY BoundAssumption DEF TypeOK
<1> DEFINE Rest(n) == Elements(SubSeq(stream, n + 1, Len(stream)))
<1>1. \A n \in 0 .. Len(stream) :
        /\ SubSeq(stream, 1, n) \in Seq(Nat) /\ Rest(n) \subseteq Nat
        /\ cache[f] \o SubSeq(stream, 1, n) \in Seq(Nat)
        /\ Len(cache[f]) <= Len(cache[f] \o SubSeq(stream, 1, n))
  <2> SUFFICES ASSUME NEW n \in 0 .. Len(stream)
               PROVE  /\ SubSeq(stream, 1, n) \in Seq(Nat) /\ Rest(n) \subseteq Nat
                      /\ cache[f] \o SubSeq(stream, 1, n) \in Seq(Nat)
                      /\ Len(cache[f]) <= Len(cache[f] \o SubSeq(stream, 1, n))
    OBVIOUS
  <2>1. SubSeq(stream, 1, n) \in Seq(Nat)
    BY <1>0
  <2>2. SubSeq(stream, n + 1, Len(stream)) \in Seq(Nat)
    BY <1>0
  <2>3. Rest(n) \subseteq Nat
    BY <2>2 DEF Elements
  <2> QED
    BY <1>0, <2>1, <2>3
<1> HIDE DEF Rest
<1>2. ASSUME NEW n \in 0 .. Len(stream), NEW more \in SUBSET Nat,
             cache' = [cache EXCEPT ![f] = @ \o SubSeq(stream, 1, n)],
             lost' = [lost EXCEPT ![f] = @ \cup more]
      PROVE  /\ cache' \in [File -> Seq(Nat)] /\ lost' \in [File -> SUBSET Nat]
             /\ Len(cache[f]) <= Len(cache'[f])
             /\ \A g \in File \ {f} : cache'[g] = cache[g] /\ lost'[g] = lost[g]
  BY <1>0, <1>1, <1>2
<1>3. CASE Put(f, i)
  <2>1. CASE Len(stream) < Capacity
    <3>1. UNCHANGED <<cache, lost>> /\ stream' = Append(stream, i)
      BY <1>3, <2>1 DEF Put
    <3> QED
      BY <1>0, <2>1, <3>1
  <2>2. CASE ~(Len(stream) < Capacity)
    <3>1. Flush(f, Len(stream)) /\ stream' = Append(<<>>, i)
      BY <1>3, <2>2 DEF Put
    <3>2. stream' \in Seq(Nat) /\ Len(stream') = 1
      BY <1>0, <3>1
    <3> QED
      BY <1>0, <1>1, <1>2, <3>1, <3>2 DEF Flush, Rest
  <2> QED
    BY <2>1, <2>2
<1>4. CASE PutFails(f, i)
  <2>1. PICK n \in 0 .. Len(stream) - 1 :
          /\ cache' = [cache EXCEPT ![f] = @ \o SubSeq(stream, 1, n)]
          /\ lost' = [lost EXCEPT ![f] = @ \cup Rest(n) \cup {i}]
    BY <1>4 DEF PutFails, Rest
  <2>2. n \in 0 .. Len(stream)
    BY <1>0
  <2>3. lost' = [lost EXCEPT ![f] = @ \cup (Rest(n) \cup {i})]
    BY <2>1
  <2>4. Rest(n) \cup {i} \in SUBSET Nat
    BY <1>0, <1>1, <2>2
  <2>5. stream' = <<>>
    BY <1>4 DEF PutFails
  <2> QED
    BY <1>0, <1>2, <2>1, <2>2, <2>3, <2>4, <2>5
<1>5. CASE \E n \in 0 .. Len(stream) : Flush(f, n) /\ stream' = <<>>
  BY <1>0, <1>1, <1>2, <1>5 DEF Flush, Rest
<1> QED
  BY <1>3, <1>4, <1>5 DEF Moves

\* Writing all of the stream loses nothing.
LEMMA FlushAll ==
  ASSUME TypeOK, NEW f \in File, Flush(f, Len(stream))
  PROVE  /\ cache'[f] = cache[f] \o stream
         /\ lost' = lost
<1>0. /\ cache \in [File -> Seq(Nat)] /\ lost \in [File -> SUBSET Nat]
      /\ stream \in Seq(Nat)
  BY DEF TypeOK
<1>1. SubSeq(stream, 1, Len(stream)) = stream
      /\ SubSeq(stream, Len(stream) + 1, Len(stream)) = <<>>
  BY <1>0
<1>2. Elements(<<>>) = {}
  BY DEF Elements
<1> QED
  BY <1>0, <1>1, <1>2 DEF Flush

\* A line printed is in the file, in the stream or among the lost.
LEMMA LinePrinted ==
  ASSUME TypeOK, NEW f \in File, Written(f), i' = i + 1, Put(f, i) \/ PutFails(f, i)
  PROVE  Written(f)'
<1> DEFINE c == cache[f]
           s == c \o stream
<1>0. /\ cache \in [File -> Seq(Nat)] /\ lost \in [File -> SUBSET Nat]
      /\ stream \in Seq(Nat) /\ i \in Nat /\ c \in Seq(Nat)
      /\ lost[f] \subseteq Nat /\ Len(stream) \in Nat /\ Len(c) \in Nat
  BY DEF TypeOK
<1>1. /\ s \in Seq(Nat) /\ Increasing(s) /\ Elements(s) = (0 .. i - 1) \ lost[f]
      /\ lost[f] \subseteq 0 .. i - 1
  BY <1>0 DEF Written
<1>2. \A k \in DOMAIN s : s[k] < i
  <2>1. \A k \in DOMAIN s : s[k] \in Elements(s)
    BY DEF Elements
  <2> QED
    BY <1>0, <1>1, <2>1
<1>3. 0 .. i' - 1 = (0 .. i - 1) \cup {i} /\ i \notin lost[f]
  BY <1>0, <1>1
<1>4. /\ Increasing(Append(s, i)) /\ Elements(Append(s, i)) = Elements(s) \cup {i}
  BY <1>0, <1>1, <1>2, AppendLine
<1>5. CASE Put(f, i)
  <2>1. cache'[f] \o stream' = Append(s, i) /\ lost'[f] = lost[f]
    <3>1. CASE Len(stream) < Capacity
      <4>1. cache' = cache /\ lost' = lost /\ stream' = Append(stream, i)
        BY <1>5, <3>1 DEF Put
      <4> QED
        BY <1>0, <4>1, EndOfTwo
    <3>2. CASE ~(Len(stream) < Capacity)
      <4>1. Flush(f, Len(stream)) /\ stream' = Append(<<>>, i)
        BY <1>5, <3>2 DEF Put
      <4>2. cache'[f] = s /\ lost' = lost
        BY <4>1, FlushAll
      <4>3. s \o Append(<<>>, i) = Append(s \o <<>>, i) /\ s \o <<>> = s
        BY <1>0, <1>1
      <4> QED
        BY <4>1, <4>2, <4>3
    <3> QED
      BY <3>1, <3>2
  <2> HIDE DEF s
  <2> QED
    BY <1>1, <1>3, <1>4, <2>1 DEF Written
<1>6. CASE PutFails(f, i)
  <2>1. PICK n \in 0 .. Len(stream) - 1 :
          /\ cache' = [cache EXCEPT ![f] = @ \o SubSeq(stream, 1, n)]
          /\ lost' = [lost EXCEPT ![f] =
                         @ \cup Elements(SubSeq(stream, n + 1, Len(stream))) \cup {i}]
    BY <1>6 DEF PutFails
  <2> DEFINE m == Len(c) + n
             q == SubSeq(s, m + 1, Len(s))
  <2>2. n \in 0 .. Len(stream) /\ m \in 0 .. Len(s)
    BY <1>0
  <2>3. /\ c \o SubSeq(stream, 1, n) = SubSeq(s, 1, m)
        /\ SubSeq(stream, n + 1, Len(stream)) = q
    BY <1>0, <2>2, EndOfTwo
  <2>4. /\ SubSeq(s, 1, m) \in Seq(Nat) /\ Increasing(SubSeq(s, 1, m))
        /\ Elements(SubSeq(s, 1, m)) = Elements(s) \ Elements(q)
        /\ Elements(q) \subseteq Elements(s)
    BY <1>1, <2>2, CutLines
  <2>5. /\ cache'[f] = SubSeq(s, 1, m) /\ stream' = <<>>
        /\ lost'[f] = lost[f] \cup Elements(q) \cup {i}
    BY <1>0, <1>6, <2>1, <2>3 DEF PutFails
  <2>6. cache'[f] \o stream' = SubSeq(s, 1, m)
    BY <2>4, <2>5
  <2> HIDE DEF s, q, m
  <2> QED
    BY <1>1, <1>3, <2>4, <2>5, <2>6 DEF Written
<1> QED
  BY <1>5, <1>6

-----------------------------------------------------------------------------
(* The steps. *)

\* What a step does with the files: nothing, or it moves lines of one of them.
LEMMA FilesOf ==
  ASSUME TypeOK, Next
  PROVE  \/ UNCHANGED <<cache, lost, stream>>
         \/ Moves("telemetry") /\ pc \in {"print", "fflush"}
         \/ Moves("ppm") /\ pc \in {"header", "rgb_row", "rows", "ppm_fflush"}
         \/ WriteRaw
<1>0. Len(stream) \in Nat
  BY DEF TypeOK
<1>1. \A n \in 0 .. Len(stream) - 1 : n \in 0 .. Len(stream)
  BY <1>0
<1>2. Len(stream) \in 0 .. Len(stream)
  BY <1>0
<1>3. CASE CrashBuffer \/ Saved \/ Unlock \/ ReleaseAll \/ PowerCut
  BY <1>3 DEF CrashBuffer, CreateDirectory, DirectoryFails, Acquires, Lock,
     ReadSamples, Fails, Kept, Saved, Unlock, ReleaseAll, PowerCut, stdio, files
<1>4. CASE Telemetry
  <2>1. CASE PrintLine
    BY <2>1 DEF PrintLine, Goto, Moves
  <2>2. CASE Fflush("fflush", "telemetry", "fsync")
    BY <1>2, <2>2 DEF Fflush, Goto, Moves
  <2>3. CASE FlushFails("fflush", "telemetry")
    BY <1>1, <2>3 DEF FlushFails, Abandon, Goto, Moves
  <2>4. CASE Fopen("fopen", "print") \/ LinesPrinted
             \/ Fsync("fsync", "telemetry", "fp", AfterTelemetry)
             \/ \E step \in {"fopen", "fsync"} : Fails(step)
    BY <2>4 DEF Fopen, LinesPrinted, Fsync, Fails, Kept, stdio, files
  <2> QED
    BY <1>4, <2>1, <2>2, <2>3, <2>4 DEF Telemetry
<1>5. CASE Raw
  BY <1>5 DEF Raw, OpenRaw, Passes, Fails, Kept, Fsync, stdio, files
<1>6. CASE Ppm
  <2>1. CASE PrintRow("header", "rgb_row") \/ PrintRow("rows", "rows")
    BY <2>1 DEF PrintRow, Goto, Moves
  <2>2. CASE Fflush("ppm_fflush", "ppm", "ppm_fsync")
    BY <1>2, <2>2 DEF Fflush, Goto, Moves
  <2>3. CASE FlushFails("ppm_fflush", "ppm") \/ RowFails("rows") \/ Fails("rgb_row")
    BY <1>1, <2>3 DEF FlushFails, RowFails, Fails, Abandon, Goto, Moves
  <2>4. CASE Passes("check", "raw8") \/ Acquires("raw8", "raw8", "ppm_fopen")
             \/ Fopen("ppm_fopen", "header")
             \/ Acquires("rgb_row", "rgb_row", "rows") \/ RowsWritten
             \/ Fsync("ppm_fsync", "ppm", "fp", "saved")
    BY <2>4 DEF Passes, Acquires, Fopen, RowsWritten, Fsync, stdio, files
  <2>5. ASSUME NEW step \in {"check", "raw8", "ppm_fopen", "header", "ppm_fsync"},
               Fails(step)
        PROVE  UNCHANGED <<cache, lost, stream>>
    BY <2>5 DEF Fails, Kept
  <2> QED
    BY <1>6, <2>1, <2>2, <2>3, <2>4, <2>5 DEF Ppm
<1> QED
  BY <1>3, <1>4, <1>5, <1>6 DEF Next, Program

\* The part of the frame that a write adds.
LEMMA FrameGrows ==
  ASSUME TypeOK, Progress, WriteRaw
  PROVE  /\ remaining' \in Nat /\ remaining' <= ImageSize
         /\ cache'["raw"] = [k \in 1 .. ImageSize - remaining' |-> k]
         /\ cache' \in [File -> Seq(Nat)]
         /\ \A f \in File \ {"raw"} : cache'[f] = cache[f]
         /\ Len(cache["raw"]) <= Len(cache'["raw"])
<1>0. /\ ImageSize \in Nat /\ remaining \in Nat /\ remaining <= ImageSize
      /\ cache \in [File -> Seq(Nat)] /\ "raw" \in File
      /\ cache["raw"] = [k \in 1 .. ImageSize - remaining |-> k]
  BY BoundAssumption DEF TypeOK, Progress, WriteRaw, Goto, File
<1> DEFINE done == ImageSize - remaining
<1>1. PICK n \in 0 .. remaining :
        /\ cache' = [cache EXCEPT !["raw"] = @ \o [k \in 1 .. n |-> done + k]]
        /\ remaining' = IF n = 0 THEN remaining ELSE remaining - n
  BY DEF WriteRaw, LeftAfter
<1>2. done \in Nat /\ n \in Nat /\ remaining' = remaining - n
      /\ ImageSize - remaining' = done + n
  BY <1>0, <1>1
<1> HIDE DEF done
<1> DEFINE whole == [k \in 1 .. done + n |-> k]
           more == [k \in 1 .. n |-> done + k]
<1>3. cache["raw"] = [k \in 1 .. done |-> k]
  BY <1>0 DEF done
<1>4. /\ cache["raw"] \in Seq(Nat) /\ Len(cache["raw"]) = done
      /\ more \in Seq(Nat) /\ Len(more) = n
      /\ whole \in Seq(Nat) /\ Len(whole) = done + n
  BY <1>2, <1>3
<1>5. cache["raw"] \o more = whole
  BY <1>2, <1>3, <1>4
<1>6. cache'["raw"] = whole /\ \A f \in File \ {"raw"} : cache'[f] = cache[f]
  BY <1>0, <1>1, <1>5
<1>7. cache' \in [File -> Seq(Nat)]
  BY <1>0, <1>1, <1>4, <1>5
<1>8. remaining' \in Nat /\ remaining' <= ImageSize
  BY <1>0, <1>1, <1>2
<1>9. Len(cache["raw"]) <= Len(cache'["raw"])
  BY <1>2, <1>4, <1>6
<1> QED
  BY <1>2, <1>6, <1>7, <1>8, <1>9

\* A failing step gives back what it, or a step before it in its function, has.
LEMMA AbandonHolds ==
  ASSUME TypeOK, Holding, NEW step \in Needed \cup Optional, Abandon(step)
  PROVE  held' \in [Resource -> {0, 1}] /\ Holding'
<1>0. /\ held \in [Resource -> {0, 1}] /\ pc = step
      /\ \A r \in Resource : held[r] = (IF r \in HeldAt(step) THEN 1 ELSE 0)
  BY DEF TypeOK, Holding, Abandon, Goto, Needed, Optional
<1>1. ReleasedBy(step) \subseteq HeldAt(step)
  BY DEF ReleasedBy, HeldAt, Needed, Optional, Opening, Printing
<1>2. held' = [r \in Resource |-> IF r \in HeldAt(step) \ ReleasedBy(step) THEN 1 ELSE 0]
  BY <1>0, <1>1 DEF Abandon, Release
<1>3. CASE step \in Needed
  <2>1. pc' = "cleanup"
    BY <1>3 DEF Abandon, Goto
  <2>2. HeldAt(step) \ ReleasedBy(step) \subseteq {"fd_dev", "buffer_data"}
    BY <1>3 DEF ReleasedBy, HeldAt, Needed, Opening, Printing
  <2> QED
    BY <1>2, <2>1, <2>2 DEF Holding
<1>4. CASE step \in Optional /\ step \notin Needed
  <2>1. pc' = "saved"
    BY <1>4 DEF Abandon, Goto
  <2>2. HeldAt(step) \ ReleasedBy(step) = HeldAt("saved")
    BY <1>4 DEF ReleasedBy, HeldAt, Optional, Opening, Printing
  <2> QED
    BY <1>2, <2>1, <2>2 DEF Holding
<1> QED
  BY <1>3, <1>4

\* Every path gives back what it has acquired, and nothing twice.
LEMMA HoldingKept ==
  ASSUME IInv, Next
  PROVE  held' \in [Resource -> {0, 1}] /\ Holding'
<1>0. TypeOK /\ Holding /\ Reasons /\ held \in [Resource -> {0, 1}]
  BY DEF IInv, TypeOK
<1> USE DEF Opening, Printing, Resource
<1>1. ASSUME NEW step \in Needed \cup Optional, Abandon(step)
      PROVE  held' \in [Resource -> {0, 1}] /\ Holding'
  BY <1>0, <1>1, AbandonHolds
<1>2. ASSUME NEW step \in Label, NEW r \in Resource, NEW next \in Label,
             pc = step, pc' = next, Acquire(r),
             HeldAt(next) = HeldAt(step) \cup {r}, r \notin HeldAt(step),
             {step, next} \cap {"cleanup", "release", "off"} = {}
      PROVE  held' \in [Resource -> {0, 1}] /\ Holding'
  <2>1. pc = step /\ pc' = next /\ held' = [held EXCEPT ![r] = @ + 1]
    BY <1>2 DEF Acquire
  <2>2. \A q \in Resource : held[q] = (IF q \in HeldAt(step) THEN 1 ELSE 0)
    BY <1>0, <1>2, <2>1 DEF Holding
  <2>3. \A q \in Resource : held'[q] = (IF q \in HeldAt(next) THEN 1 ELSE 0)
    BY <1>0, <1>2, <2>1, <2>2
  <2>4. held' \in [Resource -> {0, 1}]
    BY <1>0, <2>1, <2>3
  <2> HIDE DEF Resource
  <2> QED
    BY <1>2, <2>1, <2>3, <2>4 DEF Holding
<1>3. CASE CrashBuffer
  <2>1. CASE Acquires("open", "fd_dev", "lock")
    <3>1. pc = "open" /\ pc' = "lock" /\ Acquire("fd_dev")
      BY <2>1 DEF Acquires, Goto
    <3>2. HeldAt("lock") = HeldAt("open") \cup {"fd_dev"} /\ "fd_dev" \notin HeldAt("open")
      BY DEF HeldAt
    <3> QED
      BY <1>2, <3>1, <3>2 DEF Label, Needed, Optional
  <2>2. CASE Acquires("malloc", "buffer_data", "read")
    <3>1. pc = "malloc" /\ pc' = "read" /\ Acquire("buffer_data")
      BY <2>2 DEF Acquires, Goto
    <3>2. HeldAt("read") = HeldAt("malloc") \cup {"buffer_data"} /\ "buffer_data" \notin HeldAt("malloc")
      BY DEF HeldAt
    <3> QED
      BY <1>2, <3>1, <3>2 DEF Label, Needed, Optional
  <2>3. CASE \E step \in {"open", "malloc", "read"} : Fails(step)
    BY <1>1, <2>3 DEF Fails, Needed
  <2>4. CASE Lock \/ (\E n \in 0 .. MaxSamples : ReadSamples(n))
             \/ CreateDirectory("base", "crash_dir")
             \/ CreateDirectory("crash_dir", "open")
             \/ \E step \in Directory : DirectoryFails(step)
    BY <1>0, <2>4 DEF Holding, HeldAt, Lock, ReadSamples, CreateDirectory,
       DirectoryFails, Directory, Goto
  <2> QED
    BY <1>3, <2>1, <2>2, <2>3, <2>4 DEF CrashBuffer
<1>4. CASE Telemetry
  <2>1. CASE Fopen("fopen", "print")
    <3>1. pc = "fopen" /\ pc' = "print" /\ Acquire("fp")
      BY <2>1 DEF Fopen, Goto
    <3>2. HeldAt("print") = HeldAt("fopen") \cup {"fp"} /\ "fp" \notin HeldAt("fopen")
      BY DEF HeldAt
    <3> QED
      BY <1>2, <3>1, <3>2 DEF Label, Needed, Optional
  <2>2. CASE PrintLine \/ LinesPrinted \/ Fflush("fflush", "telemetry", "fsync")
    BY <1>0, <2>2 DEF Holding, HeldAt, PrintLine, LinesPrinted, Fflush, Goto
  <2>3. CASE FlushFails("fflush", "telemetry")
             \/ \E step \in {"fopen", "fsync"} : Fails(step)
    BY <1>1, <2>3 DEF Fails, FlushFails, Needed
  <2>4. CASE Fsync("fsync", "telemetry", "fp", AfterTelemetry)
    BY <1>0, <2>4 DEF Holding, HeldAt, Fsync, Goto, Release, AfterTelemetry
  <2> QED
    BY <1>4, <2>1, <2>2, <2>3, <2>4 DEF Telemetry
<1>5. CASE Raw
  <2>1. CASE OpenRaw
    BY <1>0, <2>1 DEF Holding, HeldAt, OpenRaw, Goto, Acquire
  <2>2. CASE WriteRaw \/ Passes("raw_write", "raw_fsync")
    BY <1>0, <2>2 DEF Holding, HeldAt, WriteRaw, Passes, Goto
  <2>3. CASE Fails("raw_write") \/ \E step \in {"raw_open", "raw_fsync"} : Fails(step)
    BY <1>1, <2>3 DEF Fails, Needed
  <2>4. CASE Fsync("raw_fsync", "raw", "fd", AfterRaw)
    BY <1>0, <2>4 DEF Holding, HeldAt, Fsync, Goto, Release, AfterRaw
  <2> QED
    BY <1>5, <2>1, <2>2, <2>3, <2>4 DEF Raw
<1>6. CASE Ppm
  <2>1. CASE Acquires("raw8", "raw8", "ppm_fopen")
    <3>1. pc = "raw8" /\ pc' = "ppm_fopen" /\ Acquire("raw8")
      BY <2>1 DEF Acquires, Goto
    <3>2. HeldAt("ppm_fopen") = HeldAt("raw8") \cup {"raw8"} /\ "raw8" \notin HeldAt("raw8")
      BY DEF HeldAt
    <3> QED
      BY <1>2, <3>1, <3>2 DEF Label, Needed, Optional
  <2>2. CASE Fopen("ppm_fopen", "header")
    <3>1. pc = "ppm_fopen" /\ pc' = "header" /\ Acquire("fp")
      BY <2>2 DEF Fopen, Goto
    <3>2. HeldAt("header") = HeldAt("ppm_fopen") \cup {"fp"} /\ "fp" \notin HeldAt("ppm_fopen")
      BY DEF HeldAt
    <3> QED
      BY <1>2, <3>1, <3>2 DEF Label, Needed, Optional
  <2>3. CASE Acquires("rgb_row", "rgb_row", "rows")
    <3>1. pc = "rgb_row" /\ pc' = "rows" /\ Acquire("rgb_row")
      BY <2>3 DEF Acquires, Goto
    <3>2. HeldAt("rows") = HeldAt("rgb_row") \cup {"rgb_row"} /\ "rgb_row" \notin HeldAt("rgb_row")
      BY DEF HeldAt
    <3> QED
      BY <1>2, <3>1, <3>2 DEF Label, Needed, Optional
  <2>4. CASE Passes("check", "raw8") \/ PrintRow("header", "rgb_row")
             \/ PrintRow("rows", "rows") \/ Fflush("ppm_fflush", "ppm", "ppm_fsync")
    BY <1>0, <2>4 DEF Holding, HeldAt, Passes, PrintRow, Fflush, Goto
  <2>5. CASE RowsWritten
    BY <1>0, <2>5 DEF Holding, HeldAt, RowsWritten, Release, Goto
  <2>6. CASE Fsync("ppm_fsync", "ppm", "fp", "saved")
    BY <1>0, <2>6 DEF Holding, HeldAt, Fsync, Goto, Release
  <2>7. CASE RowFails("rows") \/ FlushFails("ppm_fflush", "ppm")
             \/ \E step \in {"check", "raw8", "ppm_fopen", "header", "rgb_row",
                             "ppm_fsync"} : Fails(step)
    BY <1>1, <2>7 DEF Fails, FlushFails, RowFails, Optional
  <2> QED
    BY <1>6, <2>1, <2>2, <2>3, <2>4, <2>5, <2>6, <2>7 DEF Ppm
<1>7. CASE Saved \/ Unlock \/ PowerCut
  BY <1>0, <1>7 DEF Holding, HeldAt, Saved, Unlock, PowerCut, Goto
<1>8. CASE ReleaseAll
  BY <1>0, <1>8 DEF Holding, HeldAt, ReleaseAll, Release, Goto
<1> QED
  BY <1>3, <1>4, <1>5, <1>6, <1>7, <1>8 DEF Next, Program

\* The files and what a power cut leaves of them.
LEMMA FilesTyped ==
  ASSUME IInv, Next
  PROVE  /\ cache' \in [File -> Seq(Nat)] /\ lost' \in [File -> SUBSET Nat]
         /\ stream' \in Seq(Nat) /\ Len(stream') <= Capacity
         /\ synced' \in [File -> Nat] /\ survived' \in [File -> Nat]
         /\ \A f \in File : Len(cache[f]) <= Len(cache'[f])
         /\ Survives'
<1>0. /\ TypeOK /\ Progress /\ Survives
      /\ cache \in [File -> Seq(Nat)] /\ synced \in [File -> Nat]
      /\ survived \in [File -> Nat]
  BY DEF IInv, TypeOK
<1>1. /\ cache' \in [File -> Seq(Nat)] /\ lost' \in [File -> SUBSET Nat]
      /\ stream' \in Seq(Nat) /\ Len(stream') <= Capacity
      /\ \A f \in File : Len(cache[f]) <= Len(cache'[f])
  <2>1. CASE UNCHANGED <<cache, lost, stream>>
    BY <1>0, <2>1 DEF TypeOK
  <2>2. ASSUME NEW f \in {"telemetry", "ppm"}, Moves(f)
        PROVE  /\ cache' \in [File -> Seq(Nat)] /\ lost' \in [File -> SUBSET Nat]
               /\ stream' \in Seq(Nat) /\ Len(stream') <= Capacity
               /\ \A g \in File : Len(cache[g]) <= Len(cache'[g])
    BY <1>0, <2>2, OnlyGrows DEF File
  <2>3. CASE WriteRaw
    <3>1. UNCHANGED <<lost, stream>>
      BY <2>3 DEF WriteRaw, stdio
    <3>2. /\ lost \in [File -> SUBSET Nat] /\ stream \in Seq(Nat)
          /\ Len(stream) <= Capacity
      BY <1>0 DEF TypeOK
    <3>3. /\ cache' \in [File -> Seq(Nat)]
          /\ \A f \in File \ {"raw"} : cache'[f] = cache[f]
          /\ Len(cache["raw"]) <= Len(cache'["raw"])
      BY <1>0, <2>3, FrameGrows
    <3>4. \A f \in File : Len(cache[f]) \in Nat
      BY <1>0
    <3>5. \A f \in File : Len(cache[f]) <= Len(cache'[f])
      <4>1. TAKE f \in File
      <4>2. CASE f = "raw"
        BY <4>2, <3>3
      <4>3. CASE f # "raw"
        BY <4>3, <3>3, <3>4
      <4> QED
        BY <4>2, <4>3
    <3> QED
      BY <3>1, <3>2, <3>3, <3>5
  <2> QED
    BY <1>0, <2>1, <2>2, <2>3, FilesOf
<1>2. CASE UNCHANGED <<synced, survived>> /\ pc' # "off"
  <2>1. \A f \in File : /\ Len(cache[f]) \in Nat /\ Len(cache'[f]) \in Nat
                       /\ synced[f] \in Nat /\ synced[f] <= Len(cache[f])
    BY <1>0, <1>1 DEF Survives
  <2> QED
    BY <1>0, <1>1, <1>2, <2>1 DEF Survives
<1>3. ASSUME NEW f \in File, NEW step, NEW r, NEW next,
             Fsync(step, f, r, next), next # "off"
      PROVE  synced' \in [File -> Nat] /\ survived' \in [File -> Nat] /\ Survives'
  <2>1. /\ synced' = [synced EXCEPT ![f] = Len(cache[f])]
        /\ UNCHANGED <<cache, survived>> /\ pc' # "off"
    BY <1>3 DEF Fsync, SyncedBy, Goto
  <2>2. Len(cache[f]) \in Nat
    BY <1>0
  <2> QED
    BY <1>0, <2>1, <2>2 DEF Survives
<1>4. CASE PowerCut
  <2>1. PICK t \in MayBeLeft("telemetry"), r \in MayBeLeft("raw"), p \in MayBeLeft("ppm") :
          survived' = [telemetry |-> t, raw |-> r, ppm |-> p]
    BY <1>4 DEF PowerCut
  <2>2. UNCHANGED <<cache, synced>>
    BY <1>4 DEF PowerCut
  <2>3. \A f \in File : /\ survived'[f] \in Nat /\ synced[f] <= survived'[f]
                       /\ survived'[f] <= Len(cache[f])
    <3>1. \A f \in File : survived'[f] \in MayBeLeft(f)
      BY <2>1 DEF File
    <3>2. \A f \in File : synced[f] \in Nat /\ Len(cache[f]) \in Nat
      BY <1>0
    <3> QED
      BY <3>1, <3>2 DEF MayBeLeft
  <2>4. survived' \in [File -> Nat]
    BY <2>1, <2>3 DEF File
  <2> QED
    BY <1>0, <1>1, <2>2, <2>3, <2>4 DEF Survives
<1>5. CASE CrashBuffer \/ Saved \/ Unlock \/ ReleaseAll
  <2>1. UNCHANGED <<synced, survived>> /\ pc' # "off"
    BY <1>5 DEF CrashBuffer, CreateDirectory, DirectoryFails, Acquires, Lock,
       ReadSamples, Fails, Abandon, Saved, Unlock, ReleaseAll, files, Goto
  <2> QED
    BY <1>0, <1>1, <1>2, <2>1
<1>6. CASE Telemetry
  <2>1. CASE Fsync("fsync", "telemetry", "fp", AfterTelemetry)
    BY <1>1, <1>3, <2>1 DEF File, AfterTelemetry
  <2>2. CASE ~Fsync("fsync", "telemetry", "fp", AfterTelemetry)
    <3>1. UNCHANGED <<synced, survived>> /\ pc' # "off"
      BY <1>6, <2>2 DEF Telemetry, Fopen, PrintLine, LinesPrinted, Fflush,
         FlushFails, Fails, Abandon, files, Goto
    <3> QED
      BY <1>0, <1>1, <1>2, <3>1
  <2> QED
    BY <2>1, <2>2
<1>7. CASE Raw
  <2>1. CASE Fsync("raw_fsync", "raw", "fd", AfterRaw)
    BY <1>1, <1>3, <2>1 DEF File, AfterRaw
  <2>2. CASE ~Fsync("raw_fsync", "raw", "fd", AfterRaw)
    <3>1. UNCHANGED <<synced, survived>> /\ pc' # "off"
      BY <1>7, <2>2 DEF Raw, OpenRaw, WriteRaw, Passes, Fails, Abandon, files, Goto
    <3> QED
      BY <1>0, <1>1, <1>2, <3>1
  <2> QED
    BY <2>1, <2>2
<1>8. CASE Ppm
  <2>1. CASE Fsync("ppm_fsync", "ppm", "fp", "saved")
    BY <1>1, <1>3, <2>1 DEF File
  <2>2. CASE ~Fsync("ppm_fsync", "ppm", "fp", "saved")
    <3>1. UNCHANGED <<synced, survived>> /\ pc' # "off"
      BY <1>8, <2>2 DEF Ppm, Passes, Acquires, Fopen, PrintRow, RowFails,
         RowsWritten, Fflush, FlushFails, Fails, Abandon, files, Goto
    <3> QED
      BY <1>0, <1>1, <1>2, <3>1
  <2> QED
    BY <2>1, <2>2
<1> QED
  BY <1>1, <1>4, <1>5, <1>6, <1>7, <1>8 DEF Next, Program

\* Every step keeps the types.
LEMMA TypesKept == IInv /\ Next => TypeOK'
<1> SUFFICES ASSUME IInv, Next PROVE TypeOK'
  OBVIOUS
<1>0. /\ TypeOK /\ Progress /\ ImageSize \in Nat /\ ImageHeight \in Nat
      /\ count \in Nat /\ i \in Nat /\ remaining \in Nat
  BY BoundAssumption DEF IInv, TypeOK
<1>1. /\ held' \in [Resource -> {0, 1}]
      /\ stream' \in Seq(Nat) /\ Len(stream') <= Capacity
      /\ lost' \in [File -> SUBSET Nat] /\ cache' \in [File -> Seq(Nat)]
      /\ synced' \in [File -> Nat] /\ survived' \in [File -> Nat]
  BY HoldingKept, FilesTyped
<1>2. /\ pc' \in Label /\ dirs' \in [Directory -> {"absent", "directory", "other"}]
      /\ image' \in {"none", "praa", "format"} /\ ret' \in {-1, 0}
  <2>0. /\ pc \in Label /\ dirs \in [Directory -> {"absent", "directory", "other"}]
        /\ image \in {"none", "praa", "format"} /\ ret \in {-1, 0}
    BY <1>0 DEF TypeOK
  <2> USE DEF Goto, directory, result
  <2>1. CASE CrashBuffer
    BY <2>0, <2>1 DEF Label, Directory, Needed, CrashBuffer, CreateDirectory,
       DirectoryFails, Acquires, Lock, ReadSamples, Fails, Abandon
  <2>2. CASE Telemetry
    BY <2>0, <2>2 DEF Label, Needed, Telemetry, Fopen, PrintLine, LinesPrinted,
       Fflush, FlushFails, Fsync, Fails, Abandon, AfterTelemetry
  <2>3. CASE Raw
    BY <2>0, <2>3 DEF Label, Needed, Optional, Raw, OpenRaw, WriteRaw, Passes,
       Fsync, Fails, Abandon, AfterRaw
  <2>4. CASE Ppm
    BY <2>0, <2>4 DEF Label, Optional, Ppm, Passes, Acquires, Fopen, PrintRow,
       RowFails, RowsWritten, Fflush, FlushFails, Fsync, Fails, Abandon, Needed
  <2>5. CASE Saved \/ Unlock \/ ReleaseAll \/ PowerCut
    BY <2>0, <2>5 DEF Label, Saved, Unlock, ReleaseAll, PowerCut
  <2> QED
    BY <2>1, <2>2, <2>3, <2>4, <2>5 DEF Next, Program
<1>3. count' \in Nat /\ i' \in Nat /\ remaining' \in Nat
  <2> USE DEF device
  <2>1. CASE CrashBuffer
    BY <1>0, <2>1 DEF CrashBuffer, CreateDirectory, DirectoryFails, Acquires,
       Lock, ReadSamples, Fails, Abandon
  <2>2. CASE Telemetry
    BY <1>0, <2>2 DEF Telemetry, Fopen, PrintLine, LinesPrinted, Fflush,
       FlushFails, Fsync, Fails, Abandon
  <2>3. CASE Raw
    <3>1. CASE WriteRaw
      BY <1>0, <3>1, FrameGrows DEF WriteRaw
    <3>2. CASE ~WriteRaw
      BY <1>0, <2>3, <3>2 DEF Raw, OpenRaw, Passes, Fsync, Fails, Abandon
    <3> QED
      BY <3>1, <3>2
  <2>4. CASE Ppm
    BY <1>0, <2>4 DEF Ppm, Passes, Acquires, Fopen, PrintRow, RowFails,
       RowsWritten, Fflush, FlushFails, Fsync, Fails, Abandon
  <2>5. CASE Saved \/ Unlock \/ ReleaseAll \/ PowerCut
    BY <1>0, <2>5 DEF Saved, Unlock, ReleaseAll, PowerCut
  <2> QED
    BY <2>1, <2>2, <2>3, <2>4, <2>5 DEF Next, Program
<1>4. buffer_locked' \in BOOLEAN /\ device_locked' \in BOOLEAN /\ warned' \in BOOLEAN
  <2>0. buffer_locked \in BOOLEAN /\ device_locked \in BOOLEAN /\ warned \in BOOLEAN
    BY <1>0 DEF TypeOK
  <2> USE DEF device, result
  <2>1. CASE Lock
    BY <2>0, <2>1 DEF Lock
  <2>2. CASE Unlock
    BY <2>0, <2>2 DEF Unlock
  <2>3. ASSUME NEW step, Abandon(step)
        PROVE  /\ buffer_locked' \in BOOLEAN /\ device_locked' \in BOOLEAN
               /\ warned' \in BOOLEAN
    <3>1. (warned \/ step \in Optional) \in BOOLEAN
      OBVIOUS
    <3>2. UNCHANGED <<buffer_locked, device_locked>>
          /\ warned' = (warned \/ step \in Optional)
      BY <2>3 DEF Abandon
    <3>3. warned' \in BOOLEAN
      BY <3>1, <3>2
    <3> QED
      BY <2>0, <3>2, <3>3
  <2>4. CASE UNCHANGED <<buffer_locked, device_locked, warned>>
    BY <2>0, <2>4
  <2> QED
    BY <2>1, <2>2, <2>3, <2>4 DEF Next, Program, CrashBuffer, CreateDirectory,
       DirectoryFails, Acquires, ReadSamples, Fails, Telemetry, Fopen, PrintLine,
       LinesPrinted, Fflush, FlushFails, Fsync, Raw, OpenRaw, WriteRaw, Passes,
       Ppm, PrintRow, RowFails, RowsWritten, Saved, ReleaseAll, PowerCut
<1> QED
  BY <1>1, <1>2, <1>3, <1>4 DEF TypeOK

\* No file is touched before its turn, and no step is reached without a reason.
LEMMA TurnsKept == IInv /\ Next => Untouched' /\ Reasons'
<1> SUFFICES ASSUME IInv, Next PROVE Untouched' /\ Reasons'
  OBVIOUS
<1>0. /\ TypeOK /\ Untouched /\ Reasons
      /\ cache \in [File -> Seq(Nat)] /\ lost \in [File -> SUBSET Nat]
      /\ dirs \in [Directory -> {"absent", "directory", "other"}]
  BY DEF IInv, TypeOK
<1> USE DEF Goto, directory, result, stdio, files, Kept, Opening, Printing,
        Copying, Colouring, Ending, Needed, Optional
<1>1. CASE CrashBuffer
  BY <1>0, <1>1 DEF Untouched, Reasons, Directory, CrashBuffer, CreateDirectory,
     DirectoryFails, Acquires, Lock, ReadSamples, Fails, Abandon
<1>2. CASE Telemetry
  <2>1. CASE UNCHANGED <<cache, lost, stream>>
    BY <1>0, <1>2, <2>1 DEF Untouched, Reasons, Telemetry, Fopen, PrintLine,
       LinesPrinted, Fflush, FlushFails, Fsync, Fails, Abandon, AfterTelemetry
  <2>2. CASE Moves("telemetry")
    <3>1. /\ cache'["raw"] = cache["raw"] /\ lost'["raw"] = lost["raw"]
          /\ cache'["ppm"] = cache["ppm"] /\ lost'["ppm"] = lost["ppm"]
      BY <1>0, <2>2, OnlyGrows DEF File
    <3> QED
      BY <1>0, <1>2, <3>1 DEF Untouched, Reasons, Telemetry, Fopen, PrintLine,
         LinesPrinted, Fflush, FlushFails, Fsync, Fails, Abandon, AfterTelemetry
  <2>3. pc \in Printing \cup {"fopen"} /\ ~WriteRaw
    BY <1>2 DEF Telemetry, Fopen, PrintLine, LinesPrinted, Fflush, FlushFails,
       Fsync, Fails, Abandon, WriteRaw
  <2> QED
    BY <1>0, <2>1, <2>2, <2>3, FilesOf
<1>3. CASE Raw
  <2>1. CASE WriteRaw
    <3>1. /\ cache'["telemetry"] = cache["telemetry"]
          /\ cache'["ppm"] = cache["ppm"]
      BY <1>0, <2>1, FrameGrows DEF IInv, File
    <3> QED
      BY <1>0, <2>1, <3>1 DEF Untouched, Reasons, WriteRaw
  <2>2. CASE ~WriteRaw
    BY <1>0, <1>3, <2>2 DEF Untouched, Reasons, Raw, OpenRaw, Passes, Fsync,
       Fails, Abandon, AfterRaw
  <2> QED
    BY <2>1, <2>2
<1>4. CASE Ppm
  <2>1. CASE UNCHANGED <<cache, lost, stream>>
    BY <1>0, <1>4, <2>1 DEF Untouched, Reasons, Ppm, Passes, Acquires, Fopen,
       PrintRow, RowFails, RowsWritten, Fflush, FlushFails, Fsync, Fails, Abandon
  <2>2. CASE Moves("ppm")
    <3>1. /\ cache'["raw"] = cache["raw"] /\ lost'["raw"] = lost["raw"]
          /\ cache'["telemetry"] = cache["telemetry"]
          /\ lost'["telemetry"] = lost["telemetry"]
      BY <1>0, <2>2, OnlyGrows DEF File
    <3>2. pc' \in {"rgb_row", "rows", "ppm_fsync"} => lost' = lost
      <4>1. CASE PrintRow("header", "rgb_row") \/ PrintRow("rows", "rows")
        BY <1>0, <4>1, FlushAll DEF PrintRow, Put, File
      <4>2. CASE Fflush("ppm_fflush", "ppm", "ppm_fsync")
        BY <1>0, <4>2, FlushAll DEF Fflush, File
      <4>3. CASE ~(PrintRow("header", "rgb_row") \/ PrintRow("rows", "rows"))
                 /\ ~Fflush("ppm_fflush", "ppm", "ppm_fsync")
        BY <1>4, <4>3 DEF Ppm, Passes, Acquires, Fopen, RowFails, RowsWritten,
           FlushFails, Fsync, Fails, Abandon
      <4> QED
        BY <4>1, <4>2, <4>3
    <3> QED
      BY <1>0, <1>4, <3>1, <3>2 DEF Untouched, Reasons, Ppm, Passes, Acquires,
         Fopen, PrintRow, RowFails, RowsWritten, Fflush, FlushFails, Fsync, Fails,
         Abandon
  <2>3. pc \in Colouring /\ ~WriteRaw
    BY <1>4 DEF Ppm, Passes, Acquires, Fopen, PrintRow, RowFails, RowsWritten,
       Fflush, FlushFails, Fsync, Fails, Abandon, WriteRaw
  <2> QED
    BY <1>0, <2>1, <2>2, <2>3, FilesOf
<1>5. CASE Saved \/ Unlock \/ ReleaseAll \/ PowerCut
  BY <1>0, <1>5 DEF Untouched, Reasons, Directory, Saved, Unlock, ReleaseAll,
     PowerCut
<1> QED
  BY <1>1, <1>2, <1>3, <1>4, <1>5 DEF Next, Program

\* A file just opened, and one all of whose lines the stream has given.
LEMMA FirstAndLast ==
  ASSUME TypeOK, NEW f \in File
  PROVE  /\ cache[f] = <<>> /\ stream = <<>> /\ lost[f] = {}
              /\ UNCHANGED <<cache, stream, lost>> /\ i' = 0 => Written(f)'
         /\ Written(f) /\ Flush(f, Len(stream)) /\ UNCHANGED count
              /\ Content[f] = (0 .. i - 1) \ lost[f] => Whole(f)'
<1>1. ASSUME cache[f] = <<>>, stream = <<>>, lost[f] = {},
             UNCHANGED <<cache, stream, lost>>, i' = 0
      PROVE  Written(f)'
  <2>1. cache'[f] \o stream' = <<>> /\ DOMAIN <<>> = {}
    BY <1>1
  <2>2. Increasing(<<>>) /\ Elements(<<>>) = {}
    BY <2>1 DEF Increasing, Elements
  <2>3. 0 .. i' - 1 = {}
    BY <1>1
  <2> QED
    BY <1>1, <2>1, <2>2, <2>3 DEF Written
<1>2. ASSUME Written(f), Flush(f, Len(stream)), UNCHANGED count,
             Content[f] = (0 .. i - 1) \ lost[f]
      PROVE  Whole(f)'
  <2>1. cache'[f] = cache[f] \o stream /\ lost' = lost
    BY <1>2, FlushAll
  <2>2. Content' = Content
    BY <1>2, <2>1 DEF Content
  <2> QED
    BY <1>2, <2>1, <2>2 DEF Whole, Written
<1> QED
  BY <1>1, <1>2

\* Every file comes as far as its steps say.
LEMMA ProgressKept == IInv /\ Next => Progress'
<1> SUFFICES ASSUME IInv, Next PROVE Progress'
  OBVIOUS
<1>0. /\ TypeOK /\ Untouched /\ Reasons /\ Progress
      /\ count \in Nat /\ i \in Nat /\ ImageSize \in Nat /\ ImageHeight \in Nat
      /\ {"telemetry", "ppm"} \subseteq File
  BY BoundAssumption DEF IInv, TypeOK, File
<1> USE DEF Goto
<1>1. ASSUME pc' \notin {"print", "fflush", "fsync", "raw_write", "raw_fsync",
                        "header", "rgb_row", "rows", "ppm_fflush", "ppm_fsync"}
      PROVE  Progress'
  BY <1>1 DEF Progress
<1>2. CASE CrashBuffer \/ Saved \/ Unlock \/ ReleaseAll \/ PowerCut
  BY <1>1, <1>2 DEF CrashBuffer, CreateDirectory, DirectoryFails, Acquires, Lock,
     ReadSamples, Fails, Abandon, Needed, Saved, Unlock, ReleaseAll, PowerCut
<1>3. CASE Telemetry
  <2>1. CASE Fopen("fopen", "print")
    <3>1. /\ pc = "fopen" /\ pc' = "print" /\ i' = 0 /\ count' = count
          /\ UNCHANGED <<cache, stream, lost>>
      BY <2>1 DEF Fopen, device, stdio, files
    <3>2. Written("telemetry")'
      BY <1>0, <3>1, FirstAndLast DEF Untouched, Opening
    <3> QED
      BY <1>0, <3>1, <3>2 DEF Progress
  <2>2. CASE PrintLine
    <3>1. /\ pc = "print" /\ pc' = "print" /\ i <= count /\ i' = i + 1 /\ count' = count
          /\ Put("telemetry", i) \/ PutFails("telemetry", i)
      BY <2>2 DEF PrintLine, device
    <3>2. Written("telemetry")'
      BY <1>0, <3>1, LinePrinted DEF Progress
    <3> QED
      BY <1>0, <3>1, <3>2 DEF Progress
  <2>3. CASE LinesPrinted
    <3>1. /\ pc = "print" /\ pc' = "fflush" /\ i > count
          /\ UNCHANGED <<i, count, cache, stream, lost>>
      BY <2>3 DEF LinesPrinted, device, stdio, files
    <3> QED
      BY <1>0, <3>1 DEF Progress, Written
  <2>4. CASE Fflush("fflush", "telemetry", "fsync")
    <3>1. /\ pc = "fflush" /\ pc' = "fsync" /\ Flush("telemetry", Len(stream))
          /\ count' = count
      BY <2>4 DEF Fflush, device
    <3>2. Written("telemetry") /\ i - 1 = count
      BY <1>0, <3>1 DEF Progress
    <3>3. Content["telemetry"] = (0 .. i - 1) \ lost["telemetry"]
      BY <3>2 DEF Content
    <3>4. Whole("telemetry")'
      BY <1>0, <3>1, <3>2, <3>3, FirstAndLast
    <3> QED
      BY <3>1, <3>4 DEF Progress
  <2>5. CASE FlushFails("fflush", "telemetry")
             \/ Fsync("fsync", "telemetry", "fp", AfterTelemetry)
             \/ \E step \in {"fopen", "fsync"} : Fails(step)
    BY <1>1, <2>5 DEF FlushFails, Fsync, Fails, Abandon, Needed, AfterTelemetry
  <2> QED
    BY <1>3, <2>1, <2>2, <2>3, <2>4, <2>5 DEF Telemetry
<1>4. CASE Raw
  <2>1. CASE OpenRaw
    <3>1. /\ pc = "raw_open" /\ pc' = "raw_write" /\ remaining' = ImageSize
          /\ cache' = cache
      BY <2>1 DEF OpenRaw, files
    <3>2. cache'["raw"] = <<>>
      BY <1>0, <3>1 DEF Untouched
    <3>3. [k \in 1 .. ImageSize - remaining' |-> k] = <<>>
      <4>1. 1 .. ImageSize - remaining' = {}
        BY <1>0, <3>1
      <4> QED
        BY <4>1
    <3> QED
      BY <1>0, <3>1, <3>2, <3>3 DEF Progress
  <2>2. CASE WriteRaw
    BY <1>0, <2>2, FrameGrows DEF WriteRaw, Progress
  <2>3. CASE ~MoreToWrite /\ Passes("raw_write", "raw_fsync")
    <3>1. /\ pc = "raw_write" /\ pc' = "raw_fsync" /\ ~(remaining > 0)
          /\ cache' = cache
      BY <2>3 DEF Passes, MoreToWrite, files
    <3>2. cache["raw"] = [k \in 1 .. ImageSize |-> k]
      BY <1>0, <3>1 DEF Progress, TypeOK
    <3>3. Elements(cache["raw"]) = 1 .. ImageSize /\ Increasing(cache["raw"])
      BY <1>0, <3>2 DEF Elements, Increasing
    <3>4. Whole("raw")'
      BY <3>1, <3>3 DEF Whole, Content
    <3> QED
      BY <3>1, <3>4 DEF Progress
  <2>4. CASE Fails("raw_write") \/ Fsync("raw_fsync", "raw", "fd", AfterRaw)
             \/ \E step \in {"raw_open", "raw_fsync"} : Fails(step)
    BY <1>1, <2>4 DEF Fsync, Fails, Abandon, Needed, AfterRaw
  <2> QED
    BY <1>4, <2>1, <2>2, <2>3, <2>4 DEF Raw
<1>5. CASE Ppm
  <2>1. CASE Fopen("ppm_fopen", "header")
    <3>1. /\ pc = "ppm_fopen" /\ pc' = "header" /\ i' = 0
          /\ UNCHANGED <<cache, stream, lost>>
      BY <2>1 DEF Fopen, stdio, files
    <3>2. Written("ppm")'
      BY <1>0, <3>1, FirstAndLast DEF Untouched, Colouring, Optional
    <3> QED
      BY <1>0, <3>1, <3>2 DEF Progress
  <2>2. CASE \/ PrintRow("header", "rgb_row")
             \/ i <= ImageHeight /\ PrintRow("rows", "rows")
    <3>1. /\ pc' \in {"rgb_row", "rows"} /\ i <= ImageHeight /\ i' = i + 1
          /\ pc \in {"header", "rows"} /\ Put("ppm", i)
      BY <1>0, <2>2 DEF PrintRow, Progress
    <3>2. Written("ppm")'
      BY <1>0, <3>1, LinePrinted DEF Progress
    <3> QED
      BY <1>0, <3>1, <3>2 DEF Progress
  <2>3. CASE Acquires("rgb_row", "rgb_row", "rows") \/ RowsWritten
    <3>1. /\ UNCHANGED <<i, cache, stream, lost>>
          /\ \/ pc = "rgb_row" /\ pc' = "rows"
             \/ pc = "rows" /\ pc' = "ppm_fflush" /\ i > ImageHeight
      BY <2>3 DEF Acquires, RowsWritten, stdio, files
    <3> QED
      BY <1>0, <3>1 DEF Progress, Written
  <2>4. CASE Fflush("ppm_fflush", "ppm", "ppm_fsync")
    <3>1. /\ pc = "ppm_fflush" /\ pc' = "ppm_fsync" /\ Flush("ppm", Len(stream))
          /\ count' = count
      BY <2>4 DEF Fflush, device
    <3>2. Written("ppm") /\ i - 1 = ImageHeight /\ lost["ppm"] = {}
      BY <1>0, <3>1 DEF Progress, Untouched, Colouring, Optional
    <3>3. Content["ppm"] = (0 .. i - 1) \ lost["ppm"]
      BY <3>2 DEF Content
    <3>4. Whole("ppm")'
      BY <1>0, <3>1, <3>2, <3>3, FirstAndLast
    <3> QED
      BY <3>1, <3>4 DEF Progress
  <2>5. CASE Passes("check", "raw8") \/ Acquires("raw8", "raw8", "ppm_fopen")
             \/ RowFails("rows") \/ FlushFails("ppm_fflush", "ppm")
             \/ Fsync("ppm_fsync", "ppm", "fp", "saved")
             \/ \E step \in {"check", "raw8", "ppm_fopen", "header", "rgb_row",
                             "ppm_fsync"} : Fails(step)
    BY <1>1, <2>5 DEF Passes, Acquires, RowFails, FlushFails, Fsync, Fails, Abandon,
       Needed
  <2> QED
    BY <1>5, <2>1, <2>2, <2>3, <2>4, <2>5 DEF Ppm
<1> QED
  BY <1>2, <1>3, <1>4, <1>5 DEF Next, Program

\* What is on the disk stays there, and fsync puts a whole file there.
LEMMA DiskKeeps ==
  ASSUME TypeOK, NEW f \in File, UNCHANGED <<count, lost>> \/ f # "telemetry",
         cache'[f] = cache[f]
  PROVE  /\ OnDisk(f) /\ synced'[f] = synced[f] => OnDisk(f)'
         /\ Whole(f) /\ synced'[f] = Len(cache[f]) => OnDisk(f)'
<1>1. Content'[f] = Content[f]
  <2>1. CASE f = "telemetry"
    <3>1. count' = count /\ lost' = lost
      BY <2>1
    <3> QED
      BY <3>1 DEF Content
  <2>2. CASE f = "raw"
    BY <2>2 DEF Content
  <2>3. CASE f = "ppm"
    BY <2>3 DEF Content
  <2> QED
    BY <2>1, <2>2, <2>3 DEF File
<1> QED
  BY <1>1 DEF OnDisk, Whole

\* Lines of the colours move: the two other files stay as they are.
LEMMA OthersKept ==
  ASSUME TypeOK, Moves("ppm"), UNCHANGED <<count, synced>>
  PROVE  /\ OnDisk("telemetry") => OnDisk("telemetry")'
         /\ OnDisk("raw") => OnDisk("raw")'
<1>1. \A g \in File \ {"ppm"} : cache'[g] = cache[g] /\ lost'[g] = lost[g]
  BY OnlyGrows DEF File
<1>2. Content'["telemetry"] = Content["telemetry"] /\ Content'["raw"] = Content["raw"]
  BY <1>1 DEF Content, File
<1> QED
  BY <1>1, <1>2 DEF OnDisk, Whole, File

\* Every file waits for the one before it.
LEMMA OrderKept == IInv /\ Next => Order'
<1> SUFFICES ASSUME IInv, Next PROVE Order'
  OBVIOUS
<1>0. /\ TypeOK /\ Untouched /\ Reasons /\ Progress /\ Order
      /\ synced \in [File -> Nat] /\ File = {"telemetry", "raw", "ppm"}
  BY DEF IInv, TypeOK, File
<1> USE DEF Goto, Opening, Printing, Copying, Colouring, Ending
<1>1. CASE CrashBuffer
  <2>1. /\ pc \in Opening /\ pc' \notin Copying \cup Colouring \cup {"saved"}
        /\ UNCHANGED <<cache, ret>>
    BY <1>1 DEF CrashBuffer, CreateDirectory, DirectoryFails, Directory, Acquires,
       Lock, ReadSamples, Fails, Kept, Abandon, Needed, Optional, files, result
  <2> QED
    BY <1>0, <2>1 DEF Order, Untouched, Reasons
<1>2. CASE Telemetry
  <2>1. pc \in Printing \cup {"fopen"} /\ ret' = ret /\ image' = image
    BY <1>2 DEF Telemetry, Fopen, PrintLine, LinesPrinted, Fflush, FlushFails,
       Fsync, Fails, Abandon, directory, result
  <2>2. /\ cache["raw"] = <<>> /\ cache["ppm"] = <<>> /\ ret # 0
    BY <1>0, <2>1 DEF Untouched, Reasons
  <2>3. cache'["raw"] = <<>> /\ cache'["ppm"] = <<>>
    <3>1. ~WriteRaw /\ ~(pc \in {"header", "rgb_row", "rows", "ppm_fflush"})
      BY <2>1 DEF WriteRaw
    <3>2. CASE Moves("telemetry")
      BY <1>0, <2>2, <3>2, OnlyGrows
    <3>3. CASE UNCHANGED cache
      BY <2>2, <3>3
    <3> QED
      BY <1>0, <3>1, <3>2, <3>3, FilesOf
  <2>4. CASE Fsync("fsync", "telemetry", "fp", AfterTelemetry)
    <3>1. /\ pc = "fsync" /\ pc' = AfterTelemetry
          /\ synced' = [synced EXCEPT !["telemetry"] = Len(cache["telemetry"])]
          /\ UNCHANGED <<count, lost, cache>>
      BY <2>4 DEF Fsync, SyncedBy, device, stdio
    <3>2. OnDisk("telemetry")'
      BY <1>0, <3>1, DiskKeeps DEF Progress
    <3>3. pc' = "saved" => Made' = {"telemetry"}
      BY <2>1, <3>1 DEF AfterTelemetry, Made
    <3>4. pc' \in {"raw_open", "saved"}
      BY <3>1 DEF AfterTelemetry
    <3> QED
      BY <2>1, <2>2, <2>3, <3>2, <3>3, <3>4 DEF Order, Optional
  <2>5. CASE ~Fsync("fsync", "telemetry", "fp", AfterTelemetry)
    <3>1. pc' \notin Copying \cup Colouring \cup {"saved"}
      BY <1>2, <2>5 DEF Telemetry, Fopen, PrintLine, LinesPrinted, Fflush,
         FlushFails, Fails, Abandon, Needed, Optional
    <3> QED
      BY <2>1, <2>2, <2>3, <3>1 DEF Order
  <2> QED
    BY <2>4, <2>5
<1>3. CASE Raw
  <2>1. /\ pc \in Copying /\ ret' = ret /\ image' = image
        /\ UNCHANGED <<count, lost>>
    BY <1>3 DEF Raw, OpenRaw, WriteRaw, Passes, Fsync, Fails, Kept, Abandon,
       directory, device, stdio, result
  <2>2. /\ ret # 0 /\ cache["ppm"] = <<>> /\ OnDisk("telemetry") /\ image # "none"
    BY <1>0, <2>1 DEF Untouched, Reasons, Order
  <2>3. cache'["telemetry"] = cache["telemetry"] /\ cache'["ppm"] = <<>>
    <3>1. CASE WriteRaw
      BY <1>0, <2>2, <3>1, FrameGrows
    <3>2. CASE ~WriteRaw
      BY <1>3, <2>2, <3>2 DEF Raw, OpenRaw, Passes, Fsync, Fails, Kept, files
    <3> QED
      BY <3>1, <3>2
  <2>4. CASE Fsync("raw_fsync", "raw", "fd", AfterRaw)
    <3>1. /\ pc = "raw_fsync" /\ pc' = AfterRaw /\ cache' = cache
          /\ synced' = [synced EXCEPT !["raw"] = Len(cache["raw"])]
      BY <2>4 DEF Fsync, SyncedBy
    <3>2. OnDisk("raw")'
      BY <1>0, <3>1, DiskKeeps DEF Progress
    <3>3. OnDisk("telemetry")'
      BY <1>0, <2>1, <2>2, <3>1, DiskKeeps
    <3>4. pc' = "saved" => Made' = {"telemetry", "raw"}
      BY <2>1, <2>2, <3>1 DEF AfterRaw, Made
    <3> QED
      BY <2>1, <2>2, <2>3, <3>2, <3>3, <3>4 DEF Order
  <2>5. CASE ~Fsync("raw_fsync", "raw", "fd", AfterRaw)
    <3>1. pc' \notin Colouring \cup {"saved"} /\ synced' = synced
      BY <1>3, <2>5 DEF Raw, OpenRaw, WriteRaw, Passes, Fails, Abandon, Needed,
         Optional, files
    <3>2. OnDisk("telemetry")'
      BY <1>0, <2>1, <2>2, <2>3, <3>1, DiskKeeps
    <3> QED
      BY <2>1, <2>2, <2>3, <3>1, <3>2 DEF Order
  <2> QED
    BY <2>4, <2>5
<1>4. CASE Ppm
  <2>1. pc \in Colouring /\ ret' = ret /\ image' = image /\ count' = count
    BY <1>4 DEF Ppm, Passes, Acquires, Fopen, PrintRow, RowFails, RowsWritten,
       Fflush, FlushFails, Fsync, Fails, Abandon, directory, device, result, Optional
  <2>2. OnDisk("telemetry") /\ OnDisk("raw") /\ ret # 0
    BY <1>0, <2>1 DEF Order, Reasons, Optional
  <2>3. CASE Fsync("ppm_fsync", "ppm", "fp", "saved")
    <3>1. /\ pc = "ppm_fsync" /\ cache' = cache /\ lost' = lost
          /\ synced' = [synced EXCEPT !["ppm"] = Len(cache["ppm"])]
      BY <2>3 DEF Fsync, SyncedBy, stdio
    <3>2. OnDisk("ppm")'
      BY <1>0, <3>1, DiskKeeps DEF Progress
    <3>3. OnDisk("telemetry")' /\ OnDisk("raw")'
      BY <1>0, <2>1, <2>2, <3>1, DiskKeeps
    <3>4. Made' \subseteq {"telemetry", "raw", "ppm"}
      BY DEF Made
    <3> QED
      BY <3>2, <3>3, <3>4 DEF Order
  <2>4. CASE ~Fsync("ppm_fsync", "ppm", "fp", "saved")
    <3>1. synced' = synced /\ (pc' = "saved" => warned')
      BY <1>4, <2>4 DEF Ppm, Passes, Acquires, Fopen, PrintRow, RowFails,
         RowsWritten, Fflush, FlushFails, Fails, Abandon, files, Optional
    <3>2. OnDisk("telemetry")' /\ OnDisk("raw")'
      <4>1. CASE Moves("ppm")
        BY <1>0, <2>1, <2>2, <3>1, <4>1, OthersKept
      <4>2. CASE UNCHANGED <<cache, lost, stream>>
        BY <1>0, <2>1, <2>2, <3>1, <4>2, DiskKeeps
      <4>3. pc \notin {"print", "fflush"} /\ ~WriteRaw
        BY <2>1 DEF Optional, WriteRaw
      <4> QED
        BY <1>0, <4>1, <4>2, <4>3, FilesOf
    <3>3. pc' = "saved" => Made' \subseteq {"telemetry", "raw"}
      BY <3>1 DEF Made
    <3> QED
      BY <2>1, <2>2, <3>2, <3>3 DEF Order
  <2> QED
    BY <2>3, <2>4
<1>5. CASE Saved \/ Unlock \/ ReleaseAll \/ PowerCut
  <2>1. UNCHANGED <<count, lost, cache, synced, image, warned>>
    BY <1>5 DEF Saved, Unlock, ReleaseAll, PowerCut, directory, device, stdio, files,
       result
  <2>2. /\ pc' \in Ending /\ (ret' = 0 => pc = "saved" \/ ret = 0)
    BY <1>5 DEF Saved, Unlock, ReleaseAll, PowerCut, result
  <2>3. Made' = Made /\ \A f \in File : OnDisk(f) => OnDisk(f)'
    BY <1>0, <2>1, DiskKeeps DEF Made
  <2>4. Made \subseteq File
    BY <1>0 DEF Made
  <2> QED
    BY <1>0, <2>1, <2>2, <2>3, <2>4 DEF Order, Optional
<1> QED
  BY <1>1, <1>2, <1>3, <1>4, <1>5 DEF Next, Program

-----------------------------------------------------------------------------

\* When saving is called.
LEMMA InitSatisfies == Init => IInv
<1> SUFFICES ASSUME Init PROVE IInv
  OBVIOUS
<1>1. /\ pc = "base" /\ stream = <<>> /\ ret = -1
      /\ cache = [f \in File |-> <<>>] /\ lost = [f \in File |-> {}]
      /\ synced = [f \in File |-> 0] /\ survived = [f \in File |-> 0]
      /\ held = [r \in Resource |-> 0]
      /\ buffer_locked = FALSE /\ warned = FALSE
      /\ count = 0 /\ i = 0 /\ remaining = 0
  BY DEF Init
<1>2. TypeOK
  <2>1. /\ dirs \in [Directory -> {"absent", "directory", "other"}]
        /\ image \in {"none", "praa", "format"}
    BY DEF Init
  <2>2. device_locked \in BOOLEAN
    BY DEF Init
  <2>3. buffer_locked \in BOOLEAN /\ warned \in BOOLEAN
    BY <1>1
  <2>4. stream \in Seq(Nat) /\ Len(stream) <= Capacity
    <3>1. Len(stream) = 0 /\ stream \in Seq(Nat)
      BY <1>1
    <3> QED
      BY <3>1, BoundAssumption
  <2>5. cache \in [File -> Seq(Nat)] /\ lost \in [File -> SUBSET Nat]
    BY <1>1
  <2>6. /\ synced \in [File -> Nat] /\ survived \in [File -> Nat]
        /\ held \in [Resource -> {0, 1}]
    BY <1>1
  <2>7. pc \in Label /\ ret \in {-1, 0} /\ count \in Nat /\ i \in Nat /\ remaining \in Nat
    BY <1>1 DEF Label, Directory
  <2> QED
    BY <2>1, <2>2, <2>3, <2>4, <2>5, <2>6, <2>7 DEF TypeOK
<1>3. Holding
  BY <1>1 DEF Holding, HeldAt, Opening, Printing, Resource
<1>4. Untouched /\ Reasons
  BY <1>1 DEF Untouched, Reasons, Opening, Printing, Copying, Colouring, Ending,
     Optional, File
<1>5. Progress /\ Order
  BY <1>1 DEF Progress, Order, Copying, Colouring, Optional, File
<1>6. Survives
  <2>1. \A f \in File : Len(cache[f]) = 0 /\ synced[f] = 0
    BY <1>1
  <2> QED
    BY <1>1, <2>1 DEF Survives
<1> QED
  BY <1>2, <1>3, <1>4, <1>5, <1>6 DEF IInv

\* Every reachable state satisfies the inductive invariant.
LEMMA Invariance == Spec => []IInv
<1>1. IInv /\ Next => IInv'
  BY HoldingKept, FilesTyped, TypesKept, TurnsKept, ProgressKept, OrderKept DEF IInv
<1>2. ASSUME IInv, UNCHANGED vars PROVE IInv'
  <2>1. /\ UNCHANGED <<pc, dirs, image, held, buffer_locked, device_locked, count, i>>
        /\ UNCHANGED <<remaining, stream, lost, cache, synced, survived, warned, ret>>
    BY <1>2 DEF vars
  <2>2. TypeOK'
    BY <1>2, <2>1 DEF IInv, TypeOK
  <2>3. Holding'
    BY <1>2, <2>1 DEF IInv, Holding
  <2>4. Untouched' /\ Reasons'
    BY <1>2, <2>1 DEF IInv, Untouched, Reasons
  <2>5. Content' = Content /\ \A f \in File : OnDisk(f)' <=> OnDisk(f)
    BY <2>1 DEF Content, OnDisk, Whole
  <2>6. Progress'
    <3>1. \A f \in File : (Written(f)' <=> Written(f)) /\ (Whole(f)' <=> Whole(f))
      BY <2>1, <2>5 DEF Written, Whole
    <3> QED
      BY <1>2, <2>1, <3>1 DEF IInv, Progress, File
  <2>7. Order'
    BY <1>2, <2>1, <2>5 DEF IInv, Order, File, Made
  <2>8. Survives'
    BY <1>2, <2>1, <2>5 DEF IInv, Survives, File
  <2> QED
    BY <2>2, <2>3, <2>4, <2>6, <2>7, <2>8 DEF IInv
<1> QED
  BY InitSatisfies, <1>1, <1>2, PTL DEF Spec

\* Every variable has its type: nothing is released that is not held.
THEOREM StorageTypeCorrect == Spec => []TypeOK
<1>1. IInv => TypeOK
  BY DEF IInv
<1> QED
  BY Invariance, <1>1, PTL

\* Whichever call fails, saving returns with everything given back, once.
THEOREM HoldsNothing == Spec => []NothingHeld
<1>1. IInv => NothingHeld
  <2>1. HeldAt("returned") = {}
    BY DEF HeldAt, Printing
  <2> QED
    BY <2>1 DEF IInv, TypeOK, Holding, NothingHeld
<1> QED
  BY Invariance, <1>1, PTL

\* What is reported as saved is whole and on the disk, however many samples
\* there are, however large the frame and wherever writes were cut short.
THEOREM SavedCorrect == Spec => []SavedExact
<1>1. IInv => SavedExact
  BY DEF IInv, Reasons, Order, OnDisk, SavedExact
<1> QED
  BY Invariance, <1>1, PTL

\* Whenever the power is cut, no file is on the disk without the whole of the
\* one before it.
THEOREM CutCorrect == Spec => []CutKeepsOrder
<1>1. IInv => CutKeepsOrder
  <2> SUFFICES ASSUME IInv, pc = "off"
               PROVE  /\ survived["raw"] # 0 => SurvivedWhole("telemetry")
                      /\ survived["ppm"] # 0 => SurvivedWhole("raw")
    BY DEF CutKeepsOrder
  <2>1. \A f \in File : /\ synced[f] \in Nat /\ survived[f] \in Nat
                       /\ cache[f] \in Seq(Nat) /\ Len(cache[f]) \in Nat
                       /\ synced[f] <= survived[f] /\ survived[f] <= Len(cache[f])
    BY DEF IInv, TypeOK, Survives
  <2>2. \A f \in File : survived[f] # 0 => cache[f] # <<>>
    <3>1. Len(<<>>) = 0
      OBVIOUS
    <3> QED
      BY <2>1, <3>1
  <2>3. \A f \in File : OnDisk(f) => SurvivedWhole(f)
    BY <2>1 DEF OnDisk, SurvivedWhole
  <2> QED
    BY <2>2, <2>3 DEF IInv, Order, File
<1> QED
  BY Invariance, <1>1, PTL

-----------------------------------------------------------------------------
(* The function ends: BlackBox counts on that where it joins task 3.         *)

\* How many steps saving may still take before it returns, or the power is cut:
\* a step for each call, line, row and unit of the frame.
CallsLeft ==
  LET frame == ImageHeight + ImageSize
  IN  CASE pc = "base"       -> 27 + frame + MaxSamples
        [] pc = "crash_dir"  -> 26 + frame + MaxSamples
        [] pc = "open"       -> 25 + frame + MaxSamples
        [] pc = "lock"       -> 24 + frame + MaxSamples
        [] pc = "malloc"     -> 23 + frame + MaxSamples
        [] pc = "read"       -> 22 + frame + MaxSamples
        [] pc = "fopen"      -> 21 + frame + count
        [] pc = "print"      -> 20 + frame + count - i
        [] pc = "fflush"     -> 18 + frame
        [] pc = "fsync"      -> 17 + frame
        [] pc = "raw_open"   -> 16 + frame
        [] pc = "raw_write"  -> 15 + ImageHeight + remaining
        [] pc = "raw_fsync"  -> 14 + ImageHeight
        [] pc = "check"      -> 13 + ImageHeight
        [] pc = "raw8"       -> 12 + ImageHeight
        [] pc = "ppm_fopen"  -> 11 + ImageHeight
        [] pc = "header"     -> 10 + ImageHeight
        [] pc = "rgb_row"    -> 9 + ImageHeight
        [] pc = "rows"       -> 8 + ImageHeight - i
        [] pc = "ppm_fflush" -> 6
        [] pc = "ppm_fsync"  -> 5
        [] pc = "saved"      -> 4
        [] pc = "cleanup"    -> 3
        [] pc = "release"    -> 2
        [] pc = "returned"   -> 1
        [] OTHER             -> 0

FewerCalls == CallsLeft' < CallsLeft

LEMMA CallsCounted == IInv => CallsLeft \in Nat
<1> SUFFICES ASSUME IInv PROVE CallsLeft \in Nat
  OBVIOUS
<1>1. /\ count \in Nat /\ i \in Nat /\ remaining \in Nat
      /\ pc = "print" => i <= count + 1
      /\ pc = "rows" => i <= ImageHeight + 1
  BY DEF IInv, TypeOK, Progress
<1> QED
  BY <1>1, BoundAssumption DEF CallsLeft

\* A failing call leads to the end of the function, or of the colours.
LEMMA AbandonEnds ==
  ASSUME IInv, NEW step \in Needed \cup Optional, Abandon(step)
  PROVE  FewerCalls
<1>1. /\ count \in Nat /\ i \in Nat /\ remaining \in Nat
      /\ pc = "print" => i <= count + 1
      /\ pc = "rows" => i <= ImageHeight + 1
  BY DEF IInv, TypeOK, Progress
<1>2. \/ pc \in Needed /\ pc' = "cleanup"
      \/ pc \in Optional /\ pc' = "saved"
  BY DEF Abandon, Goto
<1>3. CASE pc \in Needed /\ pc' = "cleanup"
  BY <1>1, <1>3, BoundAssumption DEF Needed, FewerCalls, CallsLeft
<1>4. CASE pc \in Optional /\ pc' = "saved"
  BY <1>1, <1>4, BoundAssumption DEF Optional, FewerCalls, CallsLeft
<1> QED
  BY <1>2, <1>3, <1>4

LEMMA BufferCalls == IInv /\ CrashBuffer => FewerCalls
<1> SUFFICES ASSUME IInv, CrashBuffer PROVE FewerCalls
  OBVIOUS
<1>0. count \in Nat /\ i \in Nat /\ remaining \in Nat
  BY DEF IInv, TypeOK
<1>1. CASE CreateDirectory("base", "crash_dir") \/ CreateDirectory("crash_dir", "open")
  BY <1>0, <1>1, BoundAssumption DEF CreateDirectory, Goto, FewerCalls, CallsLeft
<1>2. CASE \E step \in Directory : DirectoryFails(step)
  BY <1>0, <1>2, BoundAssumption
     DEF Directory, DirectoryFails, Goto, FewerCalls, CallsLeft
<1>3. CASE \/ Acquires("open", "fd_dev", "lock") \/ Lock
           \/ Acquires("malloc", "buffer_data", "read")
  BY <1>0, <1>3, BoundAssumption DEF Acquires, Lock, Goto, FewerCalls, CallsLeft
<1>4. CASE \E n \in 0 .. MaxSamples : ReadSamples(n)
  BY <1>0, <1>4, BoundAssumption DEF ReadSamples, Goto, FewerCalls, CallsLeft
<1>5. CASE \E step \in {"open", "malloc", "read"} : Fails(step)
  BY <1>5, AbandonEnds DEF Fails, Needed
<1> QED
  BY <1>1, <1>2, <1>3, <1>4, <1>5 DEF CrashBuffer

LEMMA TelemetryCalls == IInv /\ Telemetry => FewerCalls
<1> SUFFICES ASSUME IInv, Telemetry PROVE FewerCalls
  OBVIOUS
<1>0. /\ count \in Nat /\ i \in Nat /\ remaining \in Nat
      /\ pc = "print" => i <= count + 1
  BY DEF IInv, TypeOK, Progress
<1>1. CASE Fopen("fopen", "print")
  BY <1>0, <1>1, BoundAssumption DEF Fopen, device, Goto, FewerCalls, CallsLeft
<1>2. CASE PrintLine
  BY <1>0, <1>2, BoundAssumption DEF PrintLine, device, Goto, FewerCalls, CallsLeft
<1>3. CASE LinesPrinted
  BY <1>0, <1>3, BoundAssumption DEF LinesPrinted, device, Goto, FewerCalls, CallsLeft
<1>4. CASE Fflush("fflush", "telemetry", "fsync")
  BY <1>0, <1>4, BoundAssumption DEF Fflush, device, Goto, FewerCalls, CallsLeft
<1>5. CASE Fsync("fsync", "telemetry", "fp", AfterTelemetry)
  BY <1>0, <1>5, BoundAssumption DEF Fsync, AfterTelemetry, Goto, FewerCalls, CallsLeft
<1>6. CASE \/ FlushFails("fflush", "telemetry")
           \/ \E step \in {"fopen", "fsync"} : Fails(step)
  BY <1>6, AbandonEnds DEF Fails, FlushFails, Needed
<1> QED
  BY <1>1, <1>2, <1>3, <1>4, <1>5, <1>6 DEF Telemetry

\* A write that was interrupted before its first byte changes nothing.
LEMMA RawCalls == IInv /\ Raw => FewerCalls \/ UNCHANGED vars
<1> SUFFICES ASSUME IInv, Raw PROVE FewerCalls \/ UNCHANGED vars
  OBVIOUS
<1>0. /\ count \in Nat /\ i \in Nat /\ remaining \in Nat
      /\ cache \in [File -> Seq(Nat)]
  BY DEF IInv, TypeOK
<1>1. CASE OpenRaw
  BY <1>0, <1>1, BoundAssumption DEF OpenRaw, Goto, FewerCalls, CallsLeft
<1>2. CASE WriteRaw
  <2>1. PICK n \in 0 .. remaining :
          /\ cache' = [cache EXCEPT !["raw"] =
                         @ \o [k \in 1 .. n |-> ImageSize - remaining + k]]
          /\ remaining' = IF n = 0 THEN remaining ELSE remaining - n
    BY <1>2 DEF WriteRaw, LeftAfter
  <2>2. CASE n = 0
    <3>1. cache' = cache
      <4>1. [k \in 1 .. n |-> ImageSize - remaining + k] = <<>>
        BY <2>2
      <4>2. cache["raw"] \in Seq(Nat) /\ cache["raw"] \o <<>> = cache["raw"]
        BY <1>0 DEF File
      <4> QED
        BY <1>0, <2>1, <4>1, <4>2
    <3> QED
      BY <1>2, <2>1, <2>2, <3>1
         DEF WriteRaw, Goto, vars, directory, device, stdio, result
  <2>3. CASE n # 0
    BY <1>0, <1>2, <2>1, <2>3, BoundAssumption
       DEF WriteRaw, Goto, FewerCalls, CallsLeft
  <2> QED
    BY <2>2, <2>3
<1>3. CASE Passes("raw_write", "raw_fsync")
  BY <1>0, <1>3, BoundAssumption DEF Passes, Goto, FewerCalls, CallsLeft
<1>4. CASE Fsync("raw_fsync", "raw", "fd", AfterRaw)
  BY <1>0, <1>4, BoundAssumption DEF Fsync, AfterRaw, Goto, FewerCalls, CallsLeft
<1>5. CASE \E step \in {"raw_open", "raw_write", "raw_fsync"} : Fails(step)
  BY <1>5, AbandonEnds DEF Fails, Needed
<1> QED
  BY <1>1, <1>2, <1>3, <1>4, <1>5 DEF Raw

LEMMA PpmCalls == IInv /\ Ppm => FewerCalls
<1> SUFFICES ASSUME IInv, Ppm PROVE FewerCalls
  OBVIOUS
<1>0. /\ count \in Nat /\ i \in Nat /\ remaining \in Nat
      /\ pc = "rows" => i <= ImageHeight + 1
  BY DEF IInv, TypeOK, Progress
<1>1. CASE Passes("check", "raw8") \/ Acquires("raw8", "raw8", "ppm_fopen")
  BY <1>0, <1>1, BoundAssumption DEF Passes, Acquires, Goto, FewerCalls, CallsLeft
<1>2. CASE Fopen("ppm_fopen", "header")
  BY <1>0, <1>2, BoundAssumption DEF Fopen, Goto, FewerCalls, CallsLeft
<1>3. CASE PrintRow("header", "rgb_row")
  BY <1>0, <1>3, BoundAssumption DEF PrintRow, Goto, FewerCalls, CallsLeft
<1>4. CASE Acquires("rgb_row", "rgb_row", "rows")
  BY <1>0, <1>4, BoundAssumption DEF Acquires, Goto, FewerCalls, CallsLeft
<1>5. CASE i <= ImageHeight /\ PrintRow("rows", "rows")
  BY <1>0, <1>5, BoundAssumption DEF PrintRow, Goto, FewerCalls, CallsLeft
<1>6. CASE RowsWritten
  BY <1>0, <1>6, BoundAssumption DEF RowsWritten, Goto, FewerCalls, CallsLeft
<1>7. CASE Fflush("ppm_fflush", "ppm", "ppm_fsync") \/ Fsync("ppm_fsync", "ppm", "fp", "saved")
  BY <1>0, <1>7, BoundAssumption DEF Fflush, Fsync, Goto, FewerCalls, CallsLeft
<1>8. CASE \/ RowFails("rows") \/ FlushFails("ppm_fflush", "ppm")
           \/ \E step \in {"check", "raw8", "ppm_fopen", "header", "rgb_row",
                           "ppm_fsync"} : Fails(step)
  BY <1>8, AbandonEnds DEF Fails, FlushFails, RowFails, Optional
<1> QED
  BY <1>1, <1>2, <1>3, <1>4, <1>5, <1>6, <1>7, <1>8 DEF Ppm

\* Saving comes to its end whichever calls fail and however many lines, rows and
\* pieces of a frame there are: each step but an interrupted write is one of
\* boundedly many, and what is left of them never grows.
THEOREM SavingEnds == Spec => [](CallsLeft \in Nat) /\ [][FewerCalls]_vars
<1>1. IInv /\ [Next]_vars => [FewerCalls]_vars
  <2> SUFFICES ASSUME IInv, Next, ~UNCHANGED vars PROVE FewerCalls
    OBVIOUS
  <2>0. count \in Nat /\ i \in Nat /\ remaining \in Nat
    BY DEF IInv, TypeOK
  <2>1. CASE Saved \/ Unlock \/ ReleaseAll
    BY <2>1 DEF Saved, Unlock, ReleaseAll, Goto, FewerCalls, CallsLeft
  <2>2. CASE PowerCut
    <3>1. CallsLeft' = 0
      BY <2>2 DEF PowerCut, CallsLeft
    <3>2. CallsLeft > 0
      <4>1. pc \in Label /\ pc # "off"
        BY <2>2 DEF IInv, TypeOK, PowerCut
      <4>2. /\ pc = "print" => i <= count + 1
            /\ pc = "rows" => i <= ImageHeight + 1
        BY DEF IInv, Progress
      <4> QED
        BY <2>0, <4>1, <4>2, BoundAssumption
           DEF Label, Directory, Needed, Optional, CallsLeft
    <3> QED
      BY <3>1, <3>2 DEF FewerCalls
  <2> QED
    BY <2>1, <2>2, BufferCalls, TelemetryCalls, RawCalls, PpmCalls DEF Next, Program
<1> QED
  BY Invariance, CallsCounted, <1>1, PTL DEF Spec

=============================================================================
