---------------------------- MODULE MCCrashBuffer ----------------------------
(***************************************************************************)
(* TLC instance of the driver: a ring of three slots, written more than    *)
(* twice round, with two concurrent readers.                               *)
(***************************************************************************)
EXTENDS CrashBuffer

CONSTANTS r1, r2

MCReaders == {r1, r2}

=============================================================================
