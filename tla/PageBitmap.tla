------------------------------ MODULE PageBitmap ------------------------------
(***************************************************************************)
(* The page bitmap (memory/bitmap.c): a bit per page of the machine, and   *)
(* the search for a run of free pages that bitmap_malloc makes from where  *)
(* it last found one.  An iteration of the search is a step; its caller is *)
(* a system call, so nobody touches the bitmap meanwhile.                  *)
(*                                                                         *)
(* A page is its index, and page 0 is what callers take for NULL; it is    *)
(* marked and handed out like the others.  bitmap_free has no caller.      *)
(***************************************************************************)
EXTENDS Integers, FiniteSetsExt

CONSTANTS
  NumPages,   \* bitmap_size * 8
  ByteBits,   \* pages a byte stands for, 8
  WordBytes,  \* bytes looked at together, 4
  Reserved,   \* pages the memory map marks
  Requests    \* lengths callers ask for

Pages == 0 .. NumPages - 1

ASSUME PageConstants ==
  /\ NumPages \in Nat \ {0} /\ ByteBits \in Nat \ {0} /\ WordBytes \in Nat \ {0}
  /\ Reserved \subseteq Pages
  /\ Requests \subseteq 1 .. NumPages

VARIABLES
  used,   \* pages whose bit is set
  last,   \* last_allocated
  pc,     \* "idle", or "search" inside bitmap_malloc
  i,      \* the loop's index
  want,   \* n
  owned   \* history: start of a run handed out and not given back -> length

vars == <<used, last, pc, i, want, owned>>

Run(start, len) == start .. start + len - 1
Held == UNION {Run(a, owned[a]) : a \in DOMAIN owned}

(* Slip: the index is not taken back to the start.                         *)
FollowingUnbounded(k) == k + 1
Following(k) == (k + 1) % NumPages

(* Slip: one set bit is enough.                                            *)
FullWordAny(k) ==
  LET first == (k \div ByteBits) * ByteBits
  IN  first .. first + WordBytes * ByteBits - 1 \cap used # {}
(* The word at the byte of bit k is all ones.  A word that reaches behind  *)
(* the bitmap is not: the linker keeps room for a much longer one there,   *)
(* and nobody ever sets those bits.                                        *)
FullWord(k) ==
  LET first == (k \div ByteBits) * ByteBits
  IN  first .. first + WordBytes * ByteBits - 1 \subseteq used

(* Slip: only set bits end the run.                                        *)
StopsInside(k) == {j \in Run(k, want) : j \in used}
(* The indices at which the run from k that is wanted comes to an end.     *)
Stops(k) == {j \in Run(k, want) : j >= NumPages \/ j \in used}

-----------------------------------------------------------------------------
Malloc(n) ==
  /\ pc = "idle"
  /\ pc' = "search" /\ i' = last + 1 /\ want' = n
  /\ UNCHANGED <<used, last, owned>>

(* Back where it started: NULL.                                            *)
Exhausted ==
  /\ pc = "search" /\ i = last
  /\ pc' = "idle"
  /\ UNCHANGED <<used, last, i, want, owned>>

SkipWord ==
  /\ pc = "search" /\ i # last /\ FullWord(i)
  /\ i' = Following(i + ByteBits - 1)
  /\ UNCHANGED <<used, last, pc, want, owned>>

SkipPage ==
  /\ pc = "search" /\ i # last /\ ~FullWord(i)
  /\ i \notin Pages \ used
  /\ i' = Following(i)
  /\ UNCHANGED <<used, last, pc, want, owned>>

(* The run is cut short: the search goes on behind what cuts it, or from   *)
(* the start if that is the end of the bitmap; and one further, as the     *)
(* loop steps as well.                                                     *)
SkipRun ==
  /\ pc = "search" /\ i # last /\ i \in Pages \ used
  /\ Stops(i) # {}
  /\ i' = Following(IF Min(Stops(i)) >= NumPages THEN 0 ELSE Min(Stops(i)) + 1)
  /\ UNCHANGED <<used, last, pc, want, owned>>

Find ==
  /\ pc = "search" /\ i # last /\ i \in Pages \ used
  /\ Stops(i) = {}
  /\ pc' = "idle" /\ last' = i
  /\ used' = used \cup Run(i, want)
  /\ owned' = [a \in DOMAIN owned \cup {i} |-> IF a = i THEN want ELSE owned[a]]
  /\ UNCHANGED <<i, want>>

Search == Exhausted \/ SkipWord \/ SkipPage \/ SkipRun \/ Find

(* bitmap_alloc                                                            *)
AllocPage ==
  /\ pc = "idle" /\ Pages \ used # {}
  /\ LET page == Min(Pages \ used)
     IN  /\ used' = used \cup {page}
         /\ owned' = [a \in DOMAIN owned \cup {page} |->
                        IF a = page THEN 1 ELSE owned[a]]
  /\ UNCHANGED <<last, pc, i, want>>

(* Slip: the loop clears one page more.                                    *)
FreeBeyond(a) ==
  /\ pc = "idle" /\ a \in DOMAIN owned
  /\ used' = used \ Run(a, owned[a] + 1)
  /\ owned' = [b \in DOMAIN owned \ {a} |-> owned[b]]
  /\ UNCHANGED <<last, pc, i, want>>
(* bitmap_frees of a run as it was handed out; what callers give back      *)
(* instead is in Tasks.                                                    *)
Free(a) ==
  /\ pc = "idle" /\ a \in DOMAIN owned
  /\ used' = used \ Run(a, owned[a])
  /\ owned' = [b \in DOMAIN owned \ {a} |-> owned[b]]
  /\ UNCHANGED <<last, pc, i, want>>

-----------------------------------------------------------------------------
(* The bitmap once the memory map has been scanned.                        *)
Init ==
  /\ used = Reserved /\ last = 0
  /\ pc = "idle" /\ i = 0 /\ want = 0
  /\ owned = << >>

Next ==
  \/ \E n \in Requests : Malloc(n)
  \/ Search
  \/ AllocPage
  \/ \E a \in Pages : Free(a)

Spec == Init /\ [][Next]_vars

(* The search is a loop: it goes on as long as it can.                     *)
FairSpec == Spec /\ WF_vars(Search)

-----------------------------------------------------------------------------
TypeOK ==
  /\ used \subseteq Pages /\ last \in Pages
  /\ pc \in {"idle", "search"}
  /\ i \in 0 .. NumPages /\ want \in Requests \cup {0}
  /\ DOMAIN owned \subseteq Pages
  /\ \A a \in DOMAIN owned : owned[a] \in 1 .. NumPages

(* The bits set are those of the pages reserved and of the runs handed     *)
(* out: no page is lost by a search, and no reserved page is handed out.   *)
Accounted == used = Reserved \cup Held /\ Reserved \cap Held = {}

(* What callers get are runs of the length asked for, inside the machine   *)
(* and apart from each other: the promise of RegionAlloc.                  *)
Abstract == INSTANCE RegionAlloc
              WITH HeapStart <- 0, HeapEnd <- NumPages, Requests <- Requests \cup {1}
ImplementsRegionAlloc == Abstract!Spec

(* With a page free, the search for one page ends, over whole words in use *)
(* and the place it started from.                                          *)
OnePageEnds == pc = "search" /\ want = 1 /\ Pages \ used # {} ~> pc = "idle"

(* syscalls.md on register_mem: "returns NULL if error": the search ends   *)
(* (bitmap.c, "if (!found) return NULL").                                  *)
SearchEnds == pc = "search" ~> pc = "idle"
=============================================================================
