--------------------------- MODULE SenseHatProofs ---------------------------
(***************************************************************************)
(* The two devices of the Sense HAT.  What a sample of the inertial sensor *)
(* is made of, for any number of measurements between any two bytes and    *)
(* any registers the device had (Lsm9ds1), and what the LED matrix shows,  *)
(* for any number of framebuffers and however a frame is cut into writes   *)
(* (SosDisplay).                                                           *)
(***************************************************************************)
EXTENDS Lsm9ds1, SosDisplay, TLAPS

Part == {"low", "high"}

Byte == [sensor : Sensor, axis : Axis, part : Part, n : Nat, configured : BOOLEAN]

Step == {"closed", "opened", "configure", "ready", "gyro", "bytes"}

\* The types of what the invariant speaks of.
Types ==
  /\ registers \in [Register -> {"set", "other"}]
  /\ out \in [Sensor -> [Axis -> [Part -> Byte]]]
  /\ frozen \subseteq Sensor \X Axis
  /\ measured \in [Sensor -> Nat]
  /\ step \in Step /\ written \in 0 .. 5
  /\ pointer \in [sensor : Sensor, k : 0 .. 5] /\ increments \in BOOLEAN
  /\ bytes \in Seq(Byte) /\ Len(bytes) <= 6
  /\ raw \in [Sensor -> Seq(Byte)] /\ sample \in [Sensor -> Seq(Byte)]

\* The two bytes of an axis, from one measurement.
Pair(low, high, sensor, axis) ==
  /\ low.sensor = sensor /\ low.axis = axis /\ low.part = "low"
  /\ high.sensor = sensor /\ high.axis = axis /\ high.part = "high"
  /\ low.n = high.n

\* The output registers of an axis always hold one measurement.
OutWhole ==
  \A sensor \in Sensor, axis \in Axis :
    Pair(out[sensor][axis]["low"], out[sensor][axis]["high"], sensor, axis)

AllSet == \A r \in Register : registers[r] = "set"

AllConfigured ==
  \A sensor \in Sensor, axis \in Axis, part \in Part :
    out[sensor][axis][part].configured

\* While the program configures, what it has written is set.  Once it has
\* finished, and as long as the device holds a byte of a read that began after,
\* all registers are set and everything to be read was measured that way.
Configuration ==
  /\ step = "configure" =>
       \A k \in 1 .. written : registers[Control[k]] = "set"
  /\ step \in {"ready", "gyro", "bytes"} \/ frozen # {} => AllSet /\ AllConfigured

\* The bytes read so far: whole axes, and at an odd number a low byte whose
\* partner the device keeps.
Reading ==
  step = "bytes" =>
    /\ increments
    /\ pointer.k = (IF Len(bytes) < 6 THEN Len(bytes) ELSE 5)
    /\ \A k \in 1 .. Len(bytes) : bytes[k].configured
    /\ \A axis \in Axis : 2 * axis + 2 <= Len(bytes) =>
         Pair(bytes[2 * axis + 1], bytes[2 * axis + 2], pointer.sensor, axis)
    /\ \A axis \in Axis : Len(bytes) = 2 * axis + 1 =>
         /\ <<pointer.sensor, axis>> \in frozen
         /\ bytes[2 * axis + 1] = out[pointer.sensor][axis]["low"]

\* A vector that was read to its end.
Vector(v, sensor) ==
  /\ Len(v) = 6
  /\ \A k \in 1 .. 6 : v[k].configured
  /\ \A axis \in Axis : Pair(v[2 * axis + 1], v[2 * axis + 2], sensor, axis)

Vectors ==
  \A sensor \in Sensor :
    /\ raw[sensor] # None => Vector(raw[sensor], sensor)
    /\ sample[sensor] # None => Vector(sample[sensor], sensor)

\* The inductive invariant.
IInv == Types /\ OutWhole /\ Configuration /\ Reading /\ Vectors

-----------------------------------------------------------------------------

\* A measurement replaces the bytes of an axis together, but for the axes BDU
\* holds; with the governing registers set it is one to be read.
LEMMA RefreshedWhole ==
  ASSUME Types, OutWhole, NEW sensor \in Sensor, NEW n \in Nat
  PROVE  /\ Refreshed(sensor, n) \in [Axis -> [Part -> Byte]]
         /\ \A axis \in Axis :
              /\ Pair(Refreshed(sensor, n)[axis]["low"],
                      Refreshed(sensor, n)[axis]["high"], sensor, axis)
              /\ <<sensor, axis>> \in frozen =>
                   Refreshed(sensor, n)[axis] = out[sensor][axis]
         /\ AllSet /\ (frozen = {} \/ AllConfigured) =>
              \A axis \in Axis, part \in Part :
                Refreshed(sensor, n)[axis][part].configured
<1> DEFINE set == \A r \in Governing(sensor) : registers[r] = "set"
           m(axis) == Measured(sensor, axis, n, set)
<1>1. set \in BOOLEAN
  OBVIOUS
<1>2. AllSet => set
  BY DEF AllSet, Governing, Register, Control
<1> HIDE DEF set
<1>3. \A axis \in Axis :
        /\ m(axis) \in [Part -> Byte]
        /\ Pair(m(axis)["low"], m(axis)["high"], sensor, axis)
        /\ AllSet => \A part \in Part : m(axis)[part].configured
  BY <1>1, <1>2 DEF Measured, Part, Byte, Pair
<1>4. Refreshed(sensor, n) =
        [axis \in Axis |-> IF <<sensor, axis>> \in frozen
                           THEN out[sensor][axis] ELSE m(axis)]
  BY DEF Refreshed, set
<1> HIDE DEF m
<1>5. \A axis \in Axis :
        /\ out[sensor][axis] \in [Part -> Byte]
        /\ Pair(out[sensor][axis]["low"], out[sensor][axis]["high"], sensor, axis)
  BY DEF Types, OutWhole
<1>6. frozen # {} /\ AllConfigured =>
        \A axis \in Axis, part \in Part : out[sensor][axis][part].configured
  BY DEF AllConfigured
<1> QED
  BY <1>3, <1>4, <1>5, <1>6

\* Every step keeps the types.
LEMMA TypesKept == IInv /\ [Next]_vars => Types'
<1> SUFFICES ASSUME IInv, [Next]_vars PROVE Types'
  OBVIOUS
<1> USE DEF Types, Step
<1>0. Types /\ OutWhole /\ None \in Seq(Byte)
  BY DEF IInv, None
<1>1. ASSUME NEW sensor \in Sensor, Measure(sensor) PROVE Types'
  <2>0. measured[sensor] + 1 \in Nat
    BY <1>0
  <2>1. Refreshed(sensor, measured[sensor] + 1) \in [Axis -> [Part -> Byte]]
    BY <1>0, <2>0, RefreshedWhole
  <2> QED
    BY <1>0, <1>1, <2>1 DEF Measure, program
<1>2. CASE Configured
  <2>0. \A sensor \in Sensor : measured[sensor] + 1 \in Nat
    BY <1>0
  <2>1. \A sensor \in Sensor :
          Refreshed(sensor, measured[sensor] + 1) \in [Axis -> [Part -> Byte]]
    BY <1>0, <2>0, RefreshedWhole
  <2>2. out' \in [Sensor -> [Axis -> [Part -> Byte]]]
    BY <1>0, <1>2, <2>1 DEF Configured
  <2>3. measured' \in [Sensor -> Nat]
    BY <1>0, <1>2 DEF Configured
  <2> QED
    BY <1>0, <1>2, <2>2, <2>3 DEF Configured
<1>3. CASE WriteControl
  BY <1>0, <1>3 DEF WriteControl, Setting, Control, Register
<1>4. CASE Open \/ Close \/ ReadWhoAmI \/ WriteControlFails
  BY <1>0, <1>4 DEF Open, Close, ReadWhoAmI, WriteControlFails, device
<1>5. CASE Address("ready", "xl") \/ Address("gyro", "g")
  <2>1. increments' \in BOOLEAN
    BY <1>5 DEF Address, Multiple, IfAddInc
  <2>2. pointer' \in [sensor : Sensor, k : 0 .. 5] /\ step' = "bytes"
    BY <1>5 DEF Address, Sensor
  <2>3. raw' \in [Sensor -> Seq(Byte)]
    BY <1>0, <1>5 DEF Address
  <2>4. bytes' \in Seq(Byte) /\ Len(bytes') <= 6
    <3>1. bytes' = <<>>
      BY <1>5 DEF Address
    <3> QED
      BY <3>1
  <2>5. UNCHANGED <<device, written, sample>>
    BY <1>5 DEF Address
  <2> QED
    BY <1>0, <2>1, <2>2, <2>3, <2>4, <2>5 DEF device
<1>6. CASE ReadByte
  <2> DEFINE axis == pointer.k \div 2
             part == IF pointer.k % 2 = 0 THEN "low" ELSE "high"
  <2>1. axis \in Axis /\ part \in Part /\ pointer.sensor \in Sensor
    BY <1>0 DEF Axis, Part
  <2>2. out[pointer.sensor][axis][part] \in Byte
    BY <1>0, <2>1
  <2>3. bytes' = Append(bytes, out[pointer.sensor][axis][part])
    BY <1>6 DEF ReadByte
  <2>4. frozen' \subseteq frozen \cup {<<pointer.sensor, axis>>}
    BY <1>6 DEF ReadByte
  <2>5. bytes' \in Seq(Byte) /\ Len(bytes') <= 6
    BY <1>0, <1>6, <2>2, <2>3 DEF ReadByte
  <2>6. pointer' \in [sensor : Sensor, k : 0 .. 5]
    <3>1. pointer' = [pointer EXCEPT !.k = IF increments /\ pointer.k < 5
                                          THEN pointer.k + 1 ELSE pointer.k]
      BY <1>6 DEF ReadByte
    <3>2. (IF increments /\ pointer.k < 5 THEN pointer.k + 1 ELSE pointer.k)
            \in 0 .. 5
      BY <1>0
    <3> QED
      BY <1>0, <3>1, <3>2
  <2>7. frozen' \subseteq Sensor \X Axis
    BY <1>0, <2>1, <2>4
  <2> HIDE DEF axis, part
  <2> QED
    BY <1>0, <1>6, <2>5, <2>6, <2>7 DEF ReadByte
<1>7. CASE VectorRead
  BY <1>0, <1>7 DEF VectorRead, device
<1>8. CASE ReadFails \/ UNCHANGED vars
  BY <1>0, <1>8 DEF ReadFails, device, vars
<1> QED
  BY <1>1, <1>2, <1>3, <1>4, <1>5, <1>6, <1>7, <1>8 DEF Next

\* However often the device measures, its registers hold whole words.
LEMMA WholeKept == IInv /\ [Next]_vars => OutWhole'
<1> SUFFICES ASSUME IInv, [Next]_vars PROVE OutWhole'
  OBVIOUS
<1>0. Types /\ OutWhole
  BY DEF IInv
<1>1. ASSUME NEW sensor \in Sensor, Measure(sensor) PROVE OutWhole'
  <2>1. out' = [out EXCEPT ![sensor] = Refreshed(sensor, measured[sensor] + 1)]
        /\ measured[sensor] + 1 \in Nat
    BY <1>0, <1>1 DEF Measure, Types
  <2>2. \A axis \in Axis :
          Pair(Refreshed(sensor, measured[sensor] + 1)[axis]["low"],
               Refreshed(sensor, measured[sensor] + 1)[axis]["high"], sensor, axis)
    BY <1>0, <2>1, RefreshedWhole
  <2> QED
    BY <1>0, <2>1, <2>2 DEF OutWhole, Types
<1>2. CASE Configured
  <2>1. \A sensor \in Sensor : measured[sensor] + 1 \in Nat
    BY <1>0 DEF Types
  <2>2. \A sensor \in Sensor, axis \in Axis :
          Pair(Refreshed(sensor, measured[sensor] + 1)[axis]["low"],
               Refreshed(sensor, measured[sensor] + 1)[axis]["high"], sensor, axis)
    BY <1>0, <2>1, RefreshedWhole
  <2>3. \A sensor \in Sensor :
          \/ out'[sensor] = Refreshed(sensor, measured[sensor] + 1)
          \/ out'[sensor] = out[sensor]
    BY <1>2 DEF Configured
  <2> QED
    BY <1>0, <2>2, <2>3 DEF OutWhole
<1>3. CASE UNCHANGED out
  BY <1>0, <1>3 DEF OutWhole
<1> QED
  BY <1>1, <1>2, <1>3 DEF Next, Open, Close, ReadWhoAmI, WriteControl,
     WriteControlFails, Address, ReadByte, VectorRead, ReadFails, vars, device

\* Nothing is read before everything is configured, and nothing un-configures.
LEMMA ConfigurationKept == IInv /\ [Next]_vars => Configuration'
<1> SUFFICES ASSUME IInv, [Next]_vars PROVE Configuration'
  OBVIOUS
<1>0. Types /\ OutWhole /\ Configuration
  BY DEF IInv
<1>1. ASSUME NEW sensor \in Sensor, Measure(sensor) PROVE Configuration'
  <2>1. /\ out' = [out EXCEPT ![sensor] = Refreshed(sensor, measured[sensor] + 1)]
        /\ measured[sensor] + 1 \in Nat
        /\ UNCHANGED <<registers, step, written, frozen>>
    BY <1>0, <1>1 DEF Measure, Types, program
  <2>2. AllSet /\ AllConfigured =>
          \A axis \in Axis, part \in Part :
            Refreshed(sensor, measured[sensor] + 1)[axis][part].configured
    BY <1>0, <2>1, RefreshedWhole
  <2>3. AllSet /\ AllConfigured => AllConfigured'
    BY <1>0, <2>1, <2>2 DEF AllConfigured, Types
  <2> QED
    BY <1>0, <2>1, <2>3 DEF Configuration, AllSet
<1>2. CASE Configured
  <2>1. AllSet
    <3>1. \A k \in 1 .. 5 : registers[Control[k]] = "set"
      BY <1>0, <1>2 DEF Configured, Configuration, Types, Control
    <3> QED
      BY <3>1 DEF AllSet, Register, Control
  <2>2. frozen = {} \/ AllConfigured
    BY <1>0 DEF Configuration
  <2>3. \A sensor \in Sensor : measured[sensor] + 1 \in Nat
    BY <1>0 DEF Types
  <2>4. \A sensor \in Sensor, axis \in Axis, part \in Part :
          Refreshed(sensor, measured[sensor] + 1)[axis][part].configured
    BY <1>0, <2>1, <2>2, <2>3, RefreshedWhole
  <2>5. \A sensor \in Sensor : out'[sensor] = Refreshed(sensor, measured[sensor] + 1)
    BY <1>2 DEF Configured, MeasuredIn, Delay
  <2>6. AllConfigured'
    BY <2>4, <2>5 DEF AllConfigured
  <2> QED
    BY <1>2, <2>1, <2>6 DEF Configured, Configuration, AllSet
<1>3. CASE WriteControl
  <2>1. written \in 0 .. 4 /\ written' = written + 1 /\ step = "configure"
        /\ step' = "configure" /\ UNCHANGED <<frozen, out>>
    BY <1>0, <1>3 DEF WriteControl, Types, Control
  <2>2. registers' = [registers EXCEPT ![Control[written + 1]] = "set"]
    BY <1>3 DEF WriteControl, Setting
  <2>3. \A k \in 1 .. written : Control[k] \in Register
    BY <2>1 DEF Register, Control
  <2>4. Control[written + 1] \in Register
    BY <2>1 DEF Register, Control
  <2>5. \A k \in 1 .. written' : registers'[Control[k]] = "set"
    BY <1>0, <2>1, <2>2, <2>3, <2>4 DEF Types, Configuration
  <2>6. AllSet => AllSet'
    BY <1>0, <2>2, <2>4 DEF AllSet, Types
  <2>7. AllConfigured => AllConfigured'
    BY <2>1 DEF AllConfigured
  <2> QED
    BY <1>0, <2>1, <2>5, <2>6, <2>7 DEF Configuration
<1>4. CASE Open \/ Close \/ ReadWhoAmI \/ WriteControlFails
  BY <1>0, <1>4 DEF Types, Configuration, AllSet, AllConfigured, Open, Close,
     ReadWhoAmI, WriteControlFails, device
<1>5. CASE Address("ready", "xl") \/ Address("gyro", "g")
  BY <1>0, <1>5 DEF Configuration, AllSet, AllConfigured, Address, device
<1>6. CASE ReadByte
  BY <1>0, <1>6 DEF Configuration, AllSet, AllConfigured, ReadByte
<1>7. CASE VectorRead \/ ReadFails \/ UNCHANGED vars
  BY <1>0, <1>7 DEF Configuration, AllSet, AllConfigured, VectorRead, ReadFails,
     device, vars
<1> QED
  BY <1>1, <1>2, <1>3, <1>4, <1>5, <1>6, <1>7 DEF Next

\* The byte the device returns continues what was read before.
LEMMA ByteContinues ==
  ASSUME IInv, ReadByte
  PROVE  Reading'
<1> DEFINE n == Len(bytes)
           axis == pointer.k \div 2
           part == IF pointer.k % 2 = 0 THEN "low" ELSE "high"
           byte == out[pointer.sensor][axis][part]
<1>0. Types /\ OutWhole /\ Configuration /\ Reading /\ step = "bytes" /\ n < 6
  BY DEF IInv, ReadByte
<1>1. increments /\ pointer.k = n /\ n \in 0 .. 5 /\ AllSet /\ AllConfigured
  BY <1>0 DEF Types, Reading, Configuration
<1>2. axis \in Axis /\ part \in Part /\ pointer.sensor \in Sensor
  BY <1>0, <1>1 DEF Axis, Part, Types
<1>3. /\ bytes' = Append(bytes, byte) /\ step' = "bytes"
      /\ UNCHANGED <<out, increments>>
  BY <1>0 DEF ReadByte
<1>4. frozen' = IF part = "low" THEN frozen \cup {<<pointer.sensor, axis>>}
                               ELSE frozen \ {<<pointer.sensor, axis>>}
  <2>1. Bdu
    BY <1>1 DEF Bdu, AllSet, Register, Control
  <2> QED
    BY <2>1 DEF ReadByte
<1>5. pointer'.sensor = pointer.sensor
      /\ pointer'.k = (IF n + 1 < 6 THEN n + 1 ELSE 5)
  <2>1. pointer' = [pointer EXCEPT !.k = IF increments /\ pointer.k < 5
                                        THEN pointer.k + 1 ELSE pointer.k]
    BY DEF ReadByte
  <2> QED
    BY <1>0, <1>1, <2>1 DEF Types
<1>6. /\ byte \in Byte /\ byte.configured
      /\ Pair(out[pointer.sensor][axis]["low"], out[pointer.sensor][axis]["high"],
              pointer.sensor, axis)
  BY <1>0, <1>1, <1>2 DEF Types, AllConfigured, OutWhole
<1>7. bytes \in Seq(Byte) /\ n \in Nat
  BY <1>0 DEF Types
<1> HIDE DEF byte
<1>8. /\ Len(bytes') = n + 1 /\ bytes'[n + 1] = byte
      /\ \A k \in 1 .. n : bytes'[k] = bytes[k]
  BY <1>3, <1>6, <1>7
<1>9. \A k \in 1 .. n + 1 : bytes'[k].configured
  BY <1>0, <1>6, <1>7, <1>8 DEF Reading
<1>10. \A a \in Axis : 2 * a + 2 <= n =>
         Pair(bytes'[2 * a + 1], bytes'[2 * a + 2], pointer.sensor, a)
  <2> SUFFICES ASSUME NEW a \in Axis, 2 * a + 2 <= n
               PROVE  Pair(bytes'[2 * a + 1], bytes'[2 * a + 2], pointer.sensor, a)
    OBVIOUS
  <2>1. 2 * a + 1 \in 1 .. n /\ 2 * a + 2 \in 1 .. n
    BY <1>7 DEF Axis
  <2> QED
    BY <1>0, <1>8, <2>1 DEF Reading
<1>11. CASE part = "low"
  <2>1. n = 2 * axis /\ byte = out[pointer.sensor][axis]["low"]
    BY <1>1, <1>11 DEF byte
  <2>2. \A a \in Axis : 2 * a + 2 <= n + 1 => 2 * a + 2 <= n
    BY <1>1, <1>2, <2>1 DEF Axis
  <2>3. \A a \in Axis : n + 1 = 2 * a + 1 => a = axis
    BY <1>1, <1>2, <2>1 DEF Axis
  <2>4. <<pointer.sensor, axis>> \in frozen'
    BY <1>4, <1>11
  <2> HIDE DEF axis, part
  <2> QED
    BY <1>1, <1>3, <1>5, <1>8, <1>9, <1>10, <2>1, <2>2, <2>3, <2>4 DEF Reading
<1>12. CASE part = "high"
  <2>1. n = 2 * axis + 1 /\ byte = out[pointer.sensor][axis]["high"]
    BY <1>1, <1>12 DEF byte
  <2>2. bytes[2 * axis + 1] = out[pointer.sensor][axis]["low"]
    BY <1>0, <1>2, <2>1 DEF Reading
  <2>3. Pair(bytes'[2 * axis + 1], bytes'[2 * axis + 2], pointer.sensor, axis)
    BY <1>1, <1>2, <1>6, <1>8, <2>1, <2>2 DEF Axis
  <2>4. \A a \in Axis : 2 * a + 2 <= n + 1 => a = axis \/ 2 * a + 2 <= n
    BY <1>1, <1>2, <2>1 DEF Axis
  <2>5. \A a \in Axis : n + 1 # 2 * a + 1
    BY <1>1, <1>2, <2>1 DEF Axis
  <2> HIDE DEF axis, part
  <2> QED
    BY <1>1, <1>3, <1>5, <1>8, <1>9, <1>10, <2>1, <2>3, <2>4, <2>5 DEF Reading
<1> QED
  BY <1>2, <1>11, <1>12 DEF Part

\* What is being read stays whole, although the device goes on measuring.
LEMMA ReadingKept == IInv /\ [Next]_vars => Reading'
<1> SUFFICES ASSUME IInv, [Next]_vars PROVE Reading'
  OBVIOUS
<1>0. Types /\ OutWhole /\ Configuration /\ Reading
  BY DEF IInv
<1>1. ASSUME NEW sensor \in Sensor, Measure(sensor) PROVE Reading'
  <2>1. /\ out' = [out EXCEPT ![sensor] = Refreshed(sensor, measured[sensor] + 1)]
        /\ measured[sensor] + 1 \in Nat
        /\ UNCHANGED <<step, increments, pointer, bytes, frozen>>
    BY <1>0, <1>1 DEF Measure, Types, program
  <2>2. \A axis \in Axis : <<sensor, axis>> \in frozen =>
          Refreshed(sensor, measured[sensor] + 1)[axis] = out[sensor][axis]
    BY <1>0, <2>1, RefreshedWhole
  <2>3. \A axis \in Axis : <<pointer.sensor, axis>> \in frozen =>
          out'[pointer.sensor][axis] = out[pointer.sensor][axis]
    BY <1>0, <2>1, <2>2 DEF Types
  <2> QED
    BY <1>0, <2>1, <2>3 DEF Reading
<1>2. CASE Address("ready", "xl") \/ Address("gyro", "g")
  <2>1. increments' /\ step' = "bytes" /\ bytes' = <<>> /\ pointer'.k = 0
    <3>1. AllSet
      BY <1>0, <1>2 DEF Address, Configuration
    <3>2. IfAddInc
      BY <3>1 DEF AllSet, IfAddInc, Register, Control
    <3>3. increments' = (Multiple(6) /\ IfAddInc)
      BY <1>2 DEF Address
    <3>4. Multiple(6)
      BY DEF Multiple
    <3>5. increments'
      BY <3>2, <3>3, <3>4
    <3>6. step' = "bytes" /\ bytes' = <<>> /\ pointer'.k = 0
      BY <1>2 DEF Address
    <3> QED
      BY <3>5, <3>6
  <2>2. Len(bytes') = 0
    BY <2>1
  <2> QED
    BY <2>1, <2>2 DEF Reading, Axis
<1>3. CASE ReadByte
  BY <1>3, ByteContinues
<1>4. CASE Configured \/ WriteControl
  <2>1. step' # "bytes"
    BY <1>4 DEF Configured, WriteControl
  <2> QED
    BY <2>1 DEF Reading
<1>5. CASE Open \/ Close \/ ReadWhoAmI \/ WriteControlFails \/ VectorRead \/ ReadFails
  <2>1. step' # "bytes"
    BY <1>5 DEF Open, Close, ReadWhoAmI, WriteControlFails, VectorRead, ReadFails
  <2> QED
    BY <2>1 DEF Reading
<1>6. CASE UNCHANGED vars
  BY <1>0, <1>6 DEF Reading, vars
<1> QED
  BY <1>1, <1>2, <1>3, <1>4, <1>5, <1>6 DEF Next

\* What has been read to its end is whole and of the configured scale.
LEMMA VectorsKept == IInv /\ [Next]_vars => Vectors'
<1> SUFFICES ASSUME IInv, [Next]_vars PROVE Vectors'
  OBVIOUS
<1>0. Types /\ Reading /\ Vectors
  BY DEF IInv
<1>1. CASE VectorRead
  <2>1. step = "bytes" /\ Len(bytes) = 6 /\ pointer.sensor \in Sensor
    BY <1>0, <1>1 DEF VectorRead, Types
  <2>2. Vector(bytes, pointer.sensor)
    BY <1>0, <2>1 DEF Reading, Vector, Axis
  <2>3. raw' = [raw EXCEPT ![pointer.sensor] = bytes]
        /\ (UNCHANGED sample \/ sample' = raw')
    BY <1>1 DEF VectorRead
  <2>4. \A sensor \in Sensor : raw'[sensor] # None => Vector(raw'[sensor], sensor)
    BY <1>0, <2>1, <2>2, <2>3 DEF Types, Vectors
  <2> QED
    BY <1>0, <2>3, <2>4 DEF Vectors
<1>2. CASE Close \/ Address("ready", "xl") \/ Address("gyro", "g")
  BY <1>0, <1>2 DEF Vectors, Close, Address, device
<1>3. CASE UNCHANGED <<raw, sample>>
  BY <1>0, <1>3 DEF Vectors
<1> QED
  BY <1>1, <1>2, <1>3 DEF Next, Measure, Open, ReadWhoAmI, WriteControl,
     WriteControlFails, Configured, ReadByte, ReadFails, vars, program

\* Before the first session.
LEMMA InitSatisfies == Init => IInv
<1> SUFFICES ASSUME Init PROVE IInv
  OBVIOUS
<1>1. out \in [Sensor -> [Axis -> [Part -> Byte]]] /\ OutWhole
  <2>1. \A sensor \in Sensor, axis \in Axis :
          /\ Measured(sensor, axis, 0, FALSE) \in [Part -> Byte]
          /\ Pair(Measured(sensor, axis, 0, FALSE)["low"],
                  Measured(sensor, axis, 0, FALSE)["high"], sensor, axis)
    BY DEF Measured, Part, Byte, Pair
  <2> QED
    BY <2>1 DEF Init, OutWhole
<1>2. bytes = <<>> /\ raw = [sensor \in Sensor |-> <<>>]
      /\ sample = [sensor \in Sensor |-> <<>>] /\ step = "closed" /\ frozen = {}
  BY DEF Init, None
<1>3. Types
  <2>1. bytes \in Seq(Byte) /\ Len(bytes) = 0
    BY <1>2
  <2>2. raw \in [Sensor -> Seq(Byte)] /\ sample \in [Sensor -> Seq(Byte)]
    BY <1>2
  <2>3. increments \in BOOLEAN
    <3>1. increments = FALSE
      BY DEF Init
    <3> QED
      BY <3>1
  <2>4. pointer \in [sensor : Sensor, k : 0 .. 5]
    <3>1. pointer = [sensor |-> "xl", k |-> 0]
      BY DEF Init
    <3> QED
      BY <3>1 DEF Sensor
  <2>5. measured \in [Sensor -> Nat] /\ written \in 0 .. 5
    BY DEF Init
  <2>6. registers \in [Register -> {"set", "other"}]
    BY DEF Init
  <2>7. step \in Step /\ frozen \subseteq Sensor \X Axis
    BY <1>2 DEF Step
  <2> QED
    BY <1>1, <2>1, <2>2, <2>3, <2>4, <2>5, <2>6, <2>7 DEF Types
<1>4. Configuration /\ Reading
  BY <1>2 DEF Configuration, Reading
<1>5. Vectors
  BY <1>2 DEF Vectors, None
<1> QED
  BY <1>1, <1>3, <1>4, <1>5 DEF IInv

\* Every reachable state satisfies the inductive invariant.
LEMMA Invariance == Spec => []IInv
<1>1. IInv /\ [Next]_vars => IInv'
  BY TypesKept, WholeKept, ConfigurationKept, ReadingKept, VectorsKept DEF IInv
<1> QED
  BY InitSatisfies, <1>1, PTL DEF Spec

\* However often the device measures between the bytes of a read, and wherever
\* an earlier read broke off, every word of a sample is one axis, measured once.
THEOREM WordsWhole == Spec => []AxesWhole
<1>1. IInv => AxesWhole
  BY DEF IInv, Vectors, Vector, Pair, AxesWhole, Complete
<1> QED
  BY Invariance, <1>1, PTL

\* Whatever registers an earlier session left, every byte of a sample was
\* measured at the rate and scale the conversion assumes.
THEOREM ScaleIsConfigured == Spec => []MeasuredAsConfigured
<1>1. IInv => MeasuredAsConfigured
  BY DEF IInv, Vectors, Vector, MeasuredAsConfigured, Complete
<1> QED
  BY Invariance, <1>1, PTL

-----------------------------------------------------------------------------
(* The LED matrix: display_sos_led_matrix, for any number of framebuffers. *)

\* Where the function is, and what it has open there.
LedPlaces ==
  /\ pc \in {"search", "name", "open", "frame", "clear", "close", "returned"}
  /\ name_file = (IF pc = "name" THEN 1 ELSE 0)
  /\ framebuffer = (IF pc \in {"frame", "clear", "close"} THEN 1 ELSE 0)

\* What is written of a frame is on the matrix; the rest is what was there.  The
\* message has left the matrix before it is cleared.
LedFrame ==
  /\ message_x \in -11 .. 8 /\ drawn \in 0 .. 64 /\ failed \in BOOLEAN
  /\ shown \subseteq 0 .. 63
  /\ pc = "frame" =>
       \A k \in 0 .. drawn - 1 : k \in shown <=> k \in Pixels
  /\ pc \in {"search", "name", "open"} =>
       shown = {} /\ drawn = 0 /\ message_x = 8
  /\ pc = "clear" => shown = {}
  /\ pc \in {"close", "returned"} /\ ~failed => shown = {}

\* The inductive invariant.
LedInv == LedPlaces /\ LedFrame

\* A pixel of the frame is a letter's over the matrix, at the one place the index
\* names: rows are never mixed up.
LEMMA LedPixels ==
  ASSUME message_x \in -11 .. 8, NEW x \in 0 .. 7, NEW y \in 0 .. 7
  PROVE  8 * y + x \in Pixels <=>
           /\ x - message_x \in 0 .. 10 /\ y \in 1 .. 5
           /\ sos[y][x - message_x + 1] = 1
<1>1. 8 * y + x \in Pixels <=>
        \E p \in (0 .. 10) \X (0 .. 4) :
          /\ sos[p[2] + 1][p[1] + 1] = 1
          /\ message_x + p[1] >= 0 /\ message_x + p[1] < 8
          /\ 8 * y + x = 8 * (p[2] + 1) + message_x + p[1]
  BY DEF Pixels, Letters, OnScreen, MATRIX_WIDTH, MESSAGE_WIDTH
<1>2. ASSUME NEW p \in (0 .. 10) \X (0 .. 4),
             message_x + p[1] >= 0, message_x + p[1] < 8,
             8 * y + x = 8 * (p[2] + 1) + message_x + p[1]
      PROVE  y = p[2] + 1 /\ x - message_x = p[1]
  BY <1>2
<1>3. ASSUME x - message_x \in 0 .. 10, y \in 1 .. 5
      PROVE  /\ <<x - message_x, y - 1>> \in (0 .. 10) \X (0 .. 4)
             /\ message_x + (x - message_x) = x /\ (y - 1) + 1 = y
  BY <1>3
<1>4. ASSUME NEW p \in (0 .. 10) \X (0 .. 4)
      PROVE  p[1] \in 0 .. 10 /\ p[2] \in 0 .. 4
  OBVIOUS
<1>5. ASSUME NEW p \in (0 .. 10) \X (0 .. 4),
             sos[p[2] + 1][p[1] + 1] = 1,
             message_x + p[1] >= 0, message_x + p[1] < 8,
             8 * y + x = 8 * (p[2] + 1) + message_x + p[1]
      PROVE  /\ x - message_x \in 0 .. 10 /\ y \in 1 .. 5
             /\ sos[y][x - message_x + 1] = 1
  <2>1. y = p[2] + 1 /\ x - message_x = p[1]
    BY <1>2, <1>5
  <2>2. p[1] \in 0 .. 10 /\ p[2] \in 0 .. 4
    BY <1>4
  <2>3. x - message_x \in 0 .. 10 /\ y \in 1 .. 5
    BY <2>1, <2>2
  <2>4. sos[y][x - message_x + 1] = 1
    BY <1>5, <2>1
  <2> QED
    BY <2>3, <2>4
<1>6. ASSUME x - message_x \in 0 .. 10, y \in 1 .. 5,
             sos[y][x - message_x + 1] = 1
      PROVE  \E p \in (0 .. 10) \X (0 .. 4) :
               /\ sos[p[2] + 1][p[1] + 1] = 1
               /\ message_x + p[1] >= 0 /\ message_x + p[1] < 8
               /\ 8 * y + x = 8 * (p[2] + 1) + message_x + p[1]
  <2>1. <<x - message_x, y - 1>> \in (0 .. 10) \X (0 .. 4)
        /\ message_x + (x - message_x) = x /\ (y - 1) + 1 = y
    BY <1>3, <1>6
  <2> USE <2>1
  <2> WITNESS <<x - message_x, y - 1>> \in (0 .. 10) \X (0 .. 4)
  <2> QED
    BY <1>6
<1> QED
  BY <1>1, <1>5, <1>6

\* The message has left the matrix, or the frame is not the last.
LEMMA LedGone == message_x = -11 => Pixels = {}
BY DEF Pixels, Letters, OnScreen, MATRIX_WIDTH, MESSAGE_WIDTH

LEMMA LedInitially == LedInit => LedInv
<1> SUFFICES ASSUME LedInit PROVE LedInv
  OBVIOUS
<1>1. failed \in BOOLEAN
  <2>1. failed = FALSE
    BY DEF LedInit
  <2> QED
    BY <2>1
<1> QED
  BY <1>1 DEF LedInit, MATRIX_WIDTH, LedInv, LedPlaces, LedFrame

\* What a write adds to a frame is right, whatever its length.
LEMMA LedWritten ==
  ASSUME LedInv, WritePixels
  PROVE  LedInv'
<1>1. PICK n \in {0, 1, (64 - drawn) \div 2, 64 - drawn} :
        /\ drawn' = drawn + n
        /\ shown' = (shown \ (drawn .. drawn + n - 1))
                      \cup (Frame \cap (drawn .. drawn + n - 1))
  BY DEF WritePixels, Size, MATRIX_WIDTH, MATRIX_HEIGHT
<1>2. /\ drawn \in 0 .. 63 /\ pc \in {"frame", "clear"}
      /\ UNCHANGED <<pc, name_file, framebuffer, message_x, failed>>
  BY DEF WritePixels, Writing, Size, MATRIX_WIDTH,
     MATRIX_HEIGHT, LedInv, LedFrame
<1>3. n \in 0 .. 64 - drawn
  BY <1>2
<1>4. shown' \subseteq 0 .. 63 /\ drawn' \in 0 .. 64
  <2>1. drawn .. drawn + n - 1 \subseteq 0 .. 63
    BY <1>2, <1>3
  <2>2. drawn' \in 0 .. 64
    BY <1>1, <1>2, <1>3
  <2> QED
    BY <1>1, <2>1, <2>2 DEF LedInv, LedFrame
<1>5. Pixels' = Pixels
  BY <1>2 DEF Pixels, OnScreen
<1>6. pc = "clear" => shown' = {}
  BY <1>1 DEF LedInv, LedFrame, Frame
<1>7. ASSUME pc = "frame", NEW k \in 0 .. drawn' - 1
      PROVE  k \in shown' <=> k \in Pixels
  <2>1. Frame = Pixels
    BY <1>7 DEF Frame
  <2>2. CASE k \in drawn .. drawn + n - 1
    BY <1>1, <2>1, <2>2
  <2>3. CASE k \notin drawn .. drawn + n - 1
    <3>1. k \in 0 .. drawn - 1
      BY <1>1, <1>2, <1>3, <1>7, <2>3
    <3> QED
      BY <1>1, <1>7, <2>3, <3>1 DEF LedInv, LedFrame
  <2> QED
    BY <2>2, <2>3
<1> QED
  BY <1>2, <1>4, <1>5, <1>6, <1>7 DEF LedInv, LedPlaces, LedFrame

\* The next frame starts unwritten; the matrix is cleared only once no letter is
\* on it.
LEMMA LedScrolled ==
  ASSUME LedInv, NextFrame
  PROVE  LedInv'
<1> USE DEF LedInv, LedPlaces, LedFrame
<1>1. /\ pc = "frame" /\ drawn = 64 /\ drawn' = 0
      /\ UNCHANGED <<name_file, framebuffer, shown, failed>>
      /\ \/ message_x > -11 /\ message_x' = message_x - 1 /\ UNCHANGED pc
         \/ message_x <= -11 /\ pc' = "clear" /\ UNCHANGED message_x
  BY DEF NextFrame, ScrollsOn, MESSAGE_WIDTH, Size,
     MATRIX_WIDTH, MATRIX_HEIGHT
<1>2. CASE message_x > -11
  BY <1>1, <1>2
<1>3. CASE message_x <= -11
  <2>1. message_x = -11
    BY <1>3
  <2>2. shown = {}
    BY <1>1, <2>1, LedGone
  <2> QED
    BY <1>1, <1>3, <2>2
<1> QED
  BY <1>2, <1>3

LEMMA LedKept == LedInv /\ [LedNext]_led_vars => LedInv'
<1> SUFFICES ASSUME LedInv, [LedNext]_led_vars PROVE LedInv'
  OBVIOUS
<1>1. CASE OpenName
  BY <1>1 DEF LedInv, LedPlaces, LedFrame, OpenName
<1>2. CASE ReadName
  BY <1>2 DEF LedInv, LedPlaces, LedFrame, ReadName, NamesClosed
<1>3. CASE OpenFramebuffer
  BY <1>3 DEF LedInv, LedPlaces, LedFrame, OpenFramebuffer
<1>4. CASE NotFound
  BY <1>4 DEF LedInv, LedPlaces, LedFrame, NotFound, Goto
<1>5. CASE WritePixels
  BY <1>5, LedWritten
<1>6. CASE WriteFails
  BY <1>6 DEF LedInv, LedPlaces, LedFrame, WriteFails, Writing
<1>7. CASE NextFrame
  BY <1>7, LedScrolled
<1>8. CASE Cleared
  BY <1>8 DEF LedInv, LedPlaces, LedFrame, Cleared, Goto
<1>9. CASE CloseFramebuffer
  BY <1>9 DEF LedInv, LedPlaces, LedFrame, CloseFramebuffer, Goto
<1>10. CASE UNCHANGED led_vars
  <2>1. UNCHANGED <<pc, name_file, framebuffer, message_x, drawn, shown, failed>>
    BY <1>10 DEF led_vars
  <2> QED
    BY <2>1 DEF LedInv, LedPlaces, LedFrame, Pixels, OnScreen
<1> QED
  BY <1>1, <1>2, <1>3, <1>4, <1>5, <1>6, <1>7, <1>8, <1>9, <1>10 DEF LedNext

LEMMA LedInvariance == LedSpec => []LedInv
BY LedInitially, LedKept, PTL DEF LedSpec

\* However the frames are cut into writes and whatever was on the matrix before,
\* a frame completely written shows its part of the message and nothing else.
THEOREM WindowIsShown == LedSpec => []ShowsWindow
<1>1. LedInv => ShowsWindow
  <2> SUFFICES ASSUME LedInv, pc = "frame", drawn = 64,
                      NEW x \in 0 .. 7, NEW y \in 0 .. 7
               PROVE  8 * y + x \in shown <=>
                        /\ x - message_x \in 0 .. 10 /\ y \in 1 .. 5
                        /\ sos[y][x - message_x + 1] = 1
    <3>1. /\ MATRIX_WIDTH = 8 /\ MATRIX_HEIGHT = 8
          /\ MESSAGE_WIDTH = 11 /\ Size = 64
      BY DEF MATRIX_WIDTH, MATRIX_HEIGHT, MESSAGE_WIDTH, Size
    <3>2. 0 .. MATRIX_WIDTH - 1 = 0 .. 7 /\ 0 .. MATRIX_HEIGHT - 1 = 0 .. 7
          /\ 0 .. MESSAGE_WIDTH - 1 = 0 .. 10
      BY <3>1
    <3> QED
      BY <3>1, <3>2, Zenon DEF ShowsWindow
  <2>1. 8 * y + x \in 0 .. 63 /\ message_x \in -11 .. 8
    BY DEF LedInv, LedFrame
  <2>2. 8 * y + x \in shown <=> 8 * y + x \in Pixels
    BY <2>1 DEF LedInv, LedFrame
  <2> QED
    BY <2>1, <2>2, LedPixels
<1> QED
  BY <1>1, LedInvariance, PTL

\* Whichever call fails, on the return from every path all that was opened is
\* closed, and a message completely shown leaves the matrix dark.
THEOREM MatrixLeftClean == LedSpec => []EndsClean
<1>1. LedInv => EndsClean
  BY DEF LedInv, LedPlaces, LedFrame, EndsClean
<1> QED
  BY <1>1, LedInvariance, PTL

-----------------------------------------------------------------------------
(* The safety side of Ends: every step that is not an interrupted write gets  *)
(* the function nearer to its return, and there is always one to take.        *)

\* What is left to write: pixels of this frame, and one frame more than there
\* are positions of the message to come.
FramesLeft == 65 * (message_x + 12) + (64 - drawn)

\* The most steps there are: 1366 to show the message, three for each device.
LedLeft ==
  CASE pc = "search"   -> 1368 + 3 * (Framebuffers - index)
    [] pc = "name"     -> 1367 + 3 * (Framebuffers - index)
    [] pc = "open"     -> 1366 + 3 * (Framebuffers - index)
    [] pc = "frame"    -> 2 + FramesLeft
    [] pc = "clear"    -> 2 + 64 - drawn
    [] pc = "close"    -> 1
    [] OTHER           -> 0

LedNearer == LedLeft' < LedLeft

\* The devices looked at are those there are.
LedSearch ==
  /\ index \in 0 .. Framebuffers
  /\ pc \in {"name", "open"} => index < Framebuffers

\* The function has returned, or one of its steps can be taken: a test of the
\* places and counters on which the guards of the steps depend.
LedGoesOn ==
  \/ pc \in {"returned", "name", "open", "close"}
  \/ pc = "search" /\ (index < Framebuffers \/ index = Framebuffers)
  \/ pc \in {"frame", "clear"} /\ (drawn < Size \/ drawn = Size)

LEMMA LedSearchKept == LedInv /\ LedSearch /\ [LedNext]_led_vars => LedSearch'
<1> SUFFICES ASSUME LedInv, LedSearch, [LedNext]_led_vars PROVE LedSearch'
  OBVIOUS
<1> USE FramebuffersAssumption DEF LedSearch
<1>1. CASE OpenName
  BY <1>1 DEF OpenName
<1>2. CASE ReadName
  BY <1>2 DEF ReadName
<1>3. CASE OpenFramebuffer
  BY <1>3 DEF OpenFramebuffer, AfterFailedOpen
<1>4. CASE NotFound \/ WritePixels \/ WriteFails \/ NextFrame \/ Cleared
           \/ CloseFramebuffer
  BY <1>4 DEF NotFound, WritePixels, Writing, WriteFails, NextFrame, Cleared,
     CloseFramebuffer, Goto
<1>5. CASE UNCHANGED led_vars
  BY <1>5 DEF led_vars
<1> QED
  BY <1>1, <1>2, <1>3, <1>4, <1>5 DEF LedNext

LEMMA LedSearchInvariance == LedSpec => [](LedInv /\ LedSearch)
<1>1. LedInit => LedSearch
  BY FramebuffersAssumption DEF LedInit, LedSearch
<1> QED
  BY LedInvariance, LedSearchKept, <1>1, PTL DEF LedSpec

\* A write that gets anything done leaves less to do.
LEMMA LedWritesLess ==
  ASSUME LedInv, WritePixels, led_vars' # led_vars
  PROVE  LedLeft' < LedLeft
<1>1. PICK n \in {0, 1, (64 - drawn) \div 2, 64 - drawn} :
        /\ drawn' = drawn + n
        /\ shown' = (shown \ (drawn .. drawn + n - 1))
                      \cup (Frame \cap (drawn .. drawn + n - 1))
  BY DEF WritePixels, Size, MATRIX_WIDTH, MATRIX_HEIGHT
<1>2. /\ drawn \in 0 .. 63 /\ pc \in {"frame", "clear"} /\ message_x \in -11 .. 8
      /\ UNCHANGED <<names, pc, index, name_file, framebuffer, message_x, failed>>
  BY DEF WritePixels, Writing, Size, MATRIX_WIDTH, MATRIX_HEIGHT, LedInv, LedFrame
<1>3. n \in 0 .. 64 - drawn
  BY <1>2
<1>4. n # 0
  <2>1. n = 0 => drawn .. drawn + n - 1 = {}
    BY <1>2
  <2>2. n = 0 => drawn' = drawn /\ shown' = shown
    BY <1>1, <1>2, <2>1
  <2> QED
    BY <1>2, <2>2 DEF led_vars
<1>5. drawn' \in 0 .. 64 /\ drawn < drawn'
  BY <1>1, <1>2, <1>3, <1>4
<1>6. message_x' = message_x /\ pc' = pc /\ message_x \in Int /\ drawn \in Int
  BY <1>2
<1>7. CASE pc = "frame"
  <2>1. LedLeft = 2 + (65 * (message_x + 12) + (64 - drawn))
    BY <1>7 DEF LedLeft, FramesLeft
  <2>2. LedLeft' = 2 + (65 * (message_x + 12) + (64 - drawn'))
    BY <1>6, <1>7 DEF LedLeft, FramesLeft
  <2>3. \A z, a, b \in Int : a < b => 2 + (z + (64 - b)) < 2 + (z + (64 - a))
    OBVIOUS
  <2>4. 65 * (message_x + 12) \in Int /\ drawn' \in Int
    BY <1>5, <1>6
  <2> QED
    BY <1>5, <1>6, <2>1, <2>2, <2>3, <2>4
<1>8. CASE pc = "clear"
  BY <1>2, <1>5, <1>8 DEF LedLeft
<1> QED
  BY <1>2, <1>7, <1>8

\* The function comes to its end, whatever fails and whichever devices there
\* are: each of its steps but an interrupted write leaves less to do, and there
\* is a step until it has returned.
THEOREM DisplayEnds ==
  LedSpec => [](LedLeft \in Nat /\ LedGoesOn) /\ [][LedNearer]_led_vars
<1>1. LedInv /\ LedSearch => LedLeft \in Nat
  BY FramebuffersAssumption
     DEF LedInv, LedPlaces, LedFrame, LedSearch, LedLeft, FramesLeft
<1>2. LedInv /\ LedSearch => LedGoesOn
  BY FramebuffersAssumption
     DEF LedInv, LedPlaces, LedFrame, LedSearch, LedGoesOn, Size, MATRIX_WIDTH,
         MATRIX_HEIGHT
<1>3. LedInv /\ LedSearch /\ [LedNext]_led_vars => [LedNearer]_led_vars
  <2> SUFFICES ASSUME LedInv, LedSearch, LedNext, led_vars' # led_vars
               PROVE  LedLeft' < LedLeft
    BY DEF LedNearer
  <2>0. /\ index \in 0 .. Framebuffers /\ Framebuffers \in Nat
        /\ message_x \in -11 .. 8 /\ drawn \in 0 .. 64
        /\ pc \in {"search", "name", "open"} => message_x = 8 /\ drawn = 0
        /\ pc \in {"name", "open"} => index < Framebuffers
    BY FramebuffersAssumption DEF LedInv, LedFrame, LedSearch
  <2>1. CASE OpenName
    BY <2>0, <2>1 DEF OpenName, LedLeft
  <2>2. CASE ReadName
    BY <2>0, <2>2 DEF ReadName, LedLeft
  <2>3. CASE OpenFramebuffer
    BY <2>0, <2>3 DEF OpenFramebuffer, AfterFailedOpen, LedLeft, FramesLeft
  <2>4. CASE NotFound
    BY <2>0, <2>4 DEF NotFound, Goto, LedLeft
  <2>5. CASE WritePixels
    BY <2>5, LedWritesLess
  <2>6. CASE WriteFails
    BY <2>0, <2>6 DEF WriteFails, Writing, LedLeft, FramesLeft
  <2>7. CASE NextFrame
    BY <2>0, <2>7 DEF NextFrame, ScrollsOn, MESSAGE_WIDTH, Size, MATRIX_WIDTH,
       MATRIX_HEIGHT, LedLeft, FramesLeft
  <2>8. CASE Cleared
    BY <2>0, <2>8 DEF Cleared, Goto, LedLeft
  <2>9. CASE CloseFramebuffer
    BY <2>0, <2>9 DEF CloseFramebuffer, Goto, LedLeft
  <2> QED
    BY <2>1, <2>2, <2>3, <2>4, <2>5, <2>6, <2>7, <2>8, <2>9 DEF LedNext
<1> QED
  BY LedSearchInvariance, <1>1, <1>2, <1>3, PTL DEF LedSpec

=============================================================================
