---------------------------- MODULE MCBuddyAlloc ----------------------------
(* A heap of 128 bytes with the header of 4 bytes and the min_order 1 of   *)
(* init.c, so that the smallest block handed out has 16 bytes.             *)
EXTENDS BuddyAlloc
MCBlockSize == [o \in MinOrder .. MaxOrder |-> 2 ^ o]
=============================================================================
