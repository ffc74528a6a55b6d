---------------------------- MODULE RegionAlloc ----------------------------
(***************************************************************************)
(* What kmalloc/kfree promise the rest of the kernel: every block handed   *)
(* out lies in the heap, is as long as was asked for, and shares no byte   *)
(* with a block somebody still holds.  Nothing is said about where a block *)
(* is placed or about when memory runs out.                                *)
(***************************************************************************)
EXTENDS Integers

CONSTANTS
  HeapStart, HeapEnd,  \* the heap is the addresses HeapStart .. HeapEnd - 1
  Requests             \* the sizes callers ask for, in bytes

VARIABLE owned         \* [start of a block somebody holds -> its length]

Apart(a, m, b, n) == a + m <= b \/ b + n <= a

Init == owned = << >>

(* Hand out a block of the asked size that nobody holds any byte of. *)
Alloc(size) ==
  \E a \in HeapStart .. HeapEnd - 1 :
    /\ a + size <= HeapEnd
    /\ a \notin DOMAIN owned
    /\ \A b \in DOMAIN owned : Apart(a, size, b, owned[b])
    /\ owned' = [b \in DOMAIN owned \cup {a} |-> IF b = a THEN size ELSE owned[b]]

Release(a) ==
  /\ a \in DOMAIN owned
  /\ owned' = [b \in DOMAIN owned \ {a} |-> owned[b]]

Next ==
  \/ \E a \in DOMAIN owned : Release(a)
  \/ \E size \in Requests : Alloc(size)

Spec == Init /\ [][Next]_owned
=============================================================================
