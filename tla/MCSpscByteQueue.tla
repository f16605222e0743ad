---------------------------- MODULE MCSpscByteQueue ----------------------------
(***************************************************************************)
(* A ring of eight three-valued bytes and records of one to three bytes:   *)
(* the longest need both bytes of the header for their length, one of one  *)
(* byte and one of two fill the ring to its last usable byte.              *)
(***************************************************************************)
EXTENDS SpscByteQueue

SomeRecords == UNION {[1 .. n -> {0, 2}] : n \in 1 .. 3}

=============================================================================
