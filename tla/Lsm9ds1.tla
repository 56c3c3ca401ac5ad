------------------------------- MODULE Lsm9ds1 -------------------------------
(***************************************************************************)
(* The access to the inertial sensor over I2C: lsm9ds1_open, _init,        *)
(* _read_sample and _close against a device that goes on measuring while   *)
(* its registers are read byte by byte, and that may have kept the         *)
(* registers of an earlier session.                                        *)
(***************************************************************************)
EXTENDS Integers, Sequences

CONSTANT MaxMeasurements     \* bound on what the device measures

ASSUME BoundAssumption == MaxMeasurements \in Nat

VARIABLES
  registers,     \* control registers of the device: as the program sets them, or not
  identity,      \* WHO_AM_I
  out,           \* output registers: by sensor and axis the low and the high byte
  frozen,        \* axes of which BDU holds the bytes until the other one is read
  measured,      \* how often each sensor has measured
  step,          \* where the program is
  written,       \* how many control registers lsm9ds1_init has written
  pointer,       \* the output register the device returns next
  increments,    \* whether the pointer advances with every byte
  bytes,         \* the bytes of the vector being read
  raw,           \* the vectors of the sample being read, as bytes
  sample         \* the last complete sample

device == <<registers, identity, out, frozen, measured>>
program == <<step, written, pointer, increments, bytes, raw, sample>>
vars == <<registers, identity, out, frozen, measured, step, written, pointer,
          increments, bytes, raw, sample>>

Sensor == {"xl", "g"}
Axis == 0 .. 2
None == <<>>

\* CTRL_REG8 has BDU and IF_ADD_INC, the others axes, rate and scale of a sensor.
Control == <<"CTRL_REG8", "CTRL_REG4", "CTRL_REG5_XL", "CTRL_REG1_G", "CTRL_REG6_XL">>
Register == {Control[k] : k \in DOMAIN Control}

Governing(sensor) == IF sensor = "xl" THEN {"CTRL_REG5_XL", "CTRL_REG6_XL"}
                                      ELSE {"CTRL_REG4", "CTRL_REG1_G"}

\* A byte of an output register is known by where and when it was measured.
Measured(sensor, axis, n, configured) ==
  [part \in {"low", "high"} |->
     [sensor |-> sensor, axis |-> axis, part |-> part, n |-> n,
      configured |-> configured]]

\* The session that set the registers before did not end within a read.
Init ==
  /\ registers \in [Register -> {"set", "other"}]
  /\ identity \in {"expected", "other"}
  /\ out = [sensor \in Sensor |->
              [axis \in Axis |-> Measured(sensor, axis, 0, FALSE)]]
  /\ frozen = {} /\ measured = [sensor \in Sensor |-> 0]
  /\ step = "closed" /\ written = 0
  /\ pointer = [sensor |-> "xl", k |-> 0] /\ increments = FALSE
  /\ bytes = <<>> /\ raw = [sensor \in Sensor |-> None]
  /\ sample = [sensor \in Sensor |-> None]

-----------------------------------------------------------------------------
(* The device. *)

Bdu == registers["CTRL_REG8"] = "set"
IfAddInc == registers["CTRL_REG8"] = "set"

Refreshed(sensor, n) ==
  [axis \in Axis |->
     IF <<sensor, axis>> \in frozen THEN out[sensor][axis]
     ELSE Measured(sensor, axis, n,
                   \A r \in Governing(sensor) : registers[r] = "set")]

Measure(sensor) ==
  /\ measured[sensor] < MaxMeasurements
  /\ measured' = [measured EXCEPT ![sensor] = @ + 1]
  /\ out' = [out EXCEPT ![sensor] = Refreshed(sensor, measured[sensor] + 1)]
  /\ UNCHANGED <<registers, identity, frozen, program>>

-----------------------------------------------------------------------------
(* lsm9ds1_open, lsm9ds1_close and lsm9ds1_init. *)

\* When the ioctl fails, the descriptor is closed again.
Open ==
  /\ step = "closed"
  /\ step' \in {"opened", "closed"}
  /\ UNCHANGED <<device, written, pointer, increments, bytes, raw, sample>>

Close ==
  /\ step \in {"opened", "ready"}
  /\ step' = "closed"
  /\ sample' = [sensor \in Sensor |-> None]
  /\ UNCHANGED <<device, written, pointer, increments, bytes, raw>>

\* Any other device, or one that does not answer, is left alone.
ReadWhoAmI ==
  /\ step = "opened"
  /\ IF identity = "expected" THEN step' \in {"configure", "opened"}
                              ELSE step' = "opened"
  /\ written' = 0
  /\ UNCHANGED <<device, pointer, increments, bytes, raw, sample>>

\* Mutant: CTRL_REG8 gets a value without BDU and IF_ADD_INC.
SettingReset(r) == IF r = "CTRL_REG8" THEN "other" ELSE "set"
Setting(r) == "set"

WriteControl ==
  /\ step = "configure" /\ written < Len(Control)
  /\ registers' = [registers EXCEPT ![Control[written + 1]] =
                     Setting(Control[written + 1])]
  /\ written' = written + 1
  /\ UNCHANGED <<identity, out, frozen, measured, step, pointer, increments,
                 bytes, raw, sample>>

WriteControlFails ==
  /\ step = "configure" /\ written < Len(Control)
  /\ step' = "opened"
  /\ UNCHANGED <<device, written, pointer, increments, bytes, raw, sample>>

\* Mutant: lsm9ds1_init returns at once.
DelayNone == 0
\* The nanosleep of lsm9ds1_init, in ms.
Delay == 20

\* At 952 Hz every sensor measures within 2 ms; the last measurement counts.
MeasuredIn(delay) == IF delay >= 2 THEN Sensor ELSE {}

Configured ==
  /\ step = "configure" /\ written = Len(Control)
  /\ step' = "ready"
  /\ \A sensor \in Sensor : measured[sensor] < MaxMeasurements
  /\ measured' = [sensor \in Sensor |->
       measured[sensor] + IF sensor \in MeasuredIn(Delay) THEN 1 ELSE 0]
  /\ out' = [sensor \in Sensor |->
       IF sensor \in MeasuredIn(Delay) THEN Refreshed(sensor, measured[sensor] + 1)
                                       ELSE out[sensor]]
  /\ UNCHANGED <<registers, identity, frozen, written, pointer, increments,
                 bytes, raw, sample>>

-----------------------------------------------------------------------------
(* lsm9ds1_read_sample: the accelerometer, then the gyroscope. *)

\* Mutant: the flag of reads of several registers is missing.
MultipleNever(length) == FALSE
Multiple(length) == length > 1

Address(from, sensor) ==
  /\ step = from /\ step' = "bytes"
  /\ pointer' = [sensor |-> sensor, k |-> 0]
  /\ increments' = (Multiple(6) /\ IfAddInc)
  /\ bytes' = <<>>
  /\ raw' = IF sensor = "xl" THEN [s \in Sensor |-> None] ELSE raw
  /\ UNCHANGED <<device, written, sample>>

\* The device returns the byte the pointer is at.
ReadByte ==
  /\ step = "bytes" /\ Len(bytes) < 6
  /\ LET axis == pointer.k \div 2
         part == IF pointer.k % 2 = 0 THEN "low" ELSE "high"
         pair == <<pointer.sensor, axis>>
     IN  /\ bytes' = Append(bytes, out[pointer.sensor][axis][part])
         /\ frozen' = IF Bdu /\ part = "low" THEN frozen \cup {pair}
                                             ELSE frozen \ {pair}
  /\ pointer' = [pointer EXCEPT !.k = IF increments /\ @ < 5 THEN @ + 1 ELSE @]
  /\ UNCHANGED <<registers, identity, out, measured, step, written, increments,
                 raw, sample>>

\* The words are put together: low byte, then high byte, of x, y and z.
VectorRead ==
  /\ step = "bytes" /\ Len(bytes) = 6
  /\ raw' = [raw EXCEPT ![pointer.sensor] = bytes]
  /\ IF pointer.sensor = "xl" THEN step' = "gyro" /\ UNCHANGED sample
                              ELSE step' = "ready" /\ sample' = raw'
  /\ UNCHANGED <<device, written, pointer, increments, bytes>>

\* The write of the address or the read of the bytes fails: no sample.
ReadFails ==
  /\ step \in {"gyro", "bytes"} /\ Len(bytes) <= 6
  /\ step' = "ready"
  /\ UNCHANGED <<device, written, pointer, increments, bytes, raw, sample>>

Next ==
  \/ \E sensor \in Sensor : Measure(sensor)
  \/ Open \/ Close \/ ReadWhoAmI
  \/ WriteControl \/ WriteControlFails \/ Configured
  \/ Address("ready", "xl") \/ Address("gyro", "g")
  \/ ReadByte \/ VectorRead \/ ReadFails

Spec == Init /\ [][Next]_vars

-----------------------------------------------------------------------------

Complete == \A sensor \in Sensor : sample[sensor] # None

\* Of every axis of a sample the low and the high byte come from that axis of
\* that sensor and from one measurement, although the device goes on measuring
\* between the bytes and although an earlier read may have ended in the middle.
AxesWhole ==
  Complete => \A sensor \in Sensor, axis \in Axis :
    LET low == sample[sensor][2 * axis + 1]
        high == sample[sensor][2 * axis + 2]
    IN  /\ low.part = "low" /\ high.part = "high"
        /\ low.n = high.n
        /\ \A b \in {low, high} : b.sensor = sensor /\ b.axis = axis

\* No sample holds a value measured before the rate and the scale were set that
\* its conversion to g and rad/s assumes.
MeasuredAsConfigured ==
  Complete => \A sensor \in Sensor, k \in 1 .. 6 : sample[sensor][k].configured

=============================================================================
