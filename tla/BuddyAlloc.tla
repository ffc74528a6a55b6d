----------------------------- MODULE BuddyAlloc -----------------------------
(***************************************************************************)
(* The kernel heap: buddy_init, buddy_malloc and buddy_free of             *)
(* src/buddy_alloc.c.  A block is named by the address of its header; the  *)
(* pointer a caller gets is HeaderSize bytes further.                      *)
(*                                                                         *)
(* The allocator runs to completion (no interrupt handler allocates), so   *)
(* one call is in progress at a time.  Its two loops are modelled one      *)
(* iteration per step, with the locals of the call as variables; nothing   *)
(* else can happen until the call returns.                                 *)
(***************************************************************************)
EXTENDS Integers, Sequences, SequencesExt

CONSTANTS
  HeapBase,            \* heap_base, the address of _kernel_heap
  MinOrder, MaxOrder,  \* min_order and max_order
  BlockSize,           \* [order -> 1 << order]
  HeaderSize,          \* sizeof(block_header)
  WordSize,            \* 2^32 of a size_t, scaled down
  Requests             \* the sizes callers pass to kmalloc

Orders == MinOrder .. MaxOrder

ASSUME BuddyConstants ==
  /\ HeapBase \in Nat \ {0}
  /\ MinOrder \in Nat /\ MaxOrder \in Nat /\ MinOrder <= MaxOrder
  /\ HeaderSize \in Nat
  /\ WordSize \in Nat \ {0}
  /\ Requests \subseteq 0 .. WordSize - 1

(* All the correctness of the allocator needs to know about 1 << order. *)
ASSUME BlockSizes ==
  /\ BlockSize \in [Orders -> Nat \ {0}]
  /\ \A o \in Orders : o + 1 \in Orders => BlockSize[o + 1] = 2 * BlockSize[o]

VARIABLES
  freeList,   \* free_list: for each order the addresses on its list, head first
  header,     \* [block off the lists -> the order its header holds]
  asked,      \* [block whose pointer a caller holds -> the size it asked for]
  pc,         \* "idle", or the loop the call in progress is in
  blk,        \* to_alloc of buddy_malloc, block_addr of buddy_free
  ord,        \* real_order of buddy_malloc, order of buddy_free
  target,     \* target_order of buddy_malloc
  req         \* size, the argument of buddy_malloc

vars == <<freeList, header, asked, pc, blk, ord, target, req>>

held == DOMAIN asked

HeapEnd == HeapBase + BlockSize[MaxOrder]

-----------------------------------------------------------------------------
(* The header is counted twice, by buddy_malloc and again by size2order,   *)
(* each time in the arithmetic of a size_t.                                *)
AllocSize(size) == (size + HeaderSize) % WordSize
(* Slip: size2order not rounding the logarithm up. *)
FittingRoundedDown(size) ==
  {o \in Orders : 2 * BlockSize[o] > (AllocSize(size) + HeaderSize) % WordSize}
Fitting(size) ==
  {o \in Orders : BlockSize[o] >= (AllocSize(size) + HeaderSize) % WordSize}

(* size2order does not return -1. *)
HasOrder(size) == size # 0 /\ AllocSize(size) # 0 /\ Fitting(size) # {}
TargetOrder(size) == Min(Fitting(size))

(* Slip: the search for a list starting at the smallest order. *)
NonEmptyAnywhere(o) == {p \in Orders : freeList[p] # <<>>}
NonEmptyFrom(o) == {p \in o .. MaxOrder : freeList[p] # <<>>}

(* getBuddyAddr: the ABSOLUTE address exclusive-or the block size. *)
Buddy(addr, o) ==
  IF (addr \div BlockSize[o]) % 2 = 0 THEN addr + BlockSize[o]
                                      ELSE addr - BlockSize[o]

(* Slip: the lower bound of the heap taken to be exclusive. *)
AcceptableInside(addr, o) ==
  /\ o \in Orders
  /\ addr > HeapBase /\ addr < HeapEnd
  /\ (addr - HeapBase) % BlockSize[o] = 0

(* The checks of buddy_free on the header and address of a block. *)
Acceptable(addr, o) ==
  /\ o \in Orders
  /\ addr >= HeapBase /\ addr < HeapEnd
  /\ (addr - HeapBase) % BlockSize[o] = 0

Push(o, addr) == freeList' = [freeList EXCEPT ![o] = <<addr>> \o @]

-----------------------------------------------------------------------------
Init ==
  /\ freeList = [o \in Orders |-> IF o = MaxOrder THEN <<HeapBase>> ELSE <<>>]
  /\ header = << >>
  /\ asked = << >>
  /\ pc = "idle"
  /\ blk = 0 /\ ord = 0 /\ target = 0 /\ req = 0

Return == pc' = "idle" /\ blk' = 0 /\ ord' = 0 /\ target' = 0 /\ req' = 0

(* buddy_malloc up to its splitting loop: the head of the first non-empty  *)
(* list of a sufficient order is taken off.                                *)
MallocEnter(size) ==
  /\ pc = "idle"
  /\ HasOrder(size)
  /\ NonEmptyFrom(TargetOrder(size)) # {}
  /\ LET found == Min(NonEmptyFrom(TargetOrder(size)))
     IN  /\ blk' = Head(freeList[found])
         /\ freeList' = [freeList EXCEPT ![found] = Tail(@)]
         /\ ord' = found
  /\ target' = TargetOrder(size)
  /\ req' = size
  /\ pc' = "split"
  /\ UNCHANGED <<header, asked>>

(* buddy_malloc returning NULL. *)
MallocFail(size) ==
  /\ pc = "idle"
  /\ HasOrder(size) => NonEmptyFrom(TargetOrder(size)) = {}
  /\ UNCHANGED vars

(* Slip: the lower half goes on the list and is handed out as well. *)
SplitListingLower ==
  /\ pc = "split"
  /\ ord > target
  /\ ord' = ord - 1
  /\ Push(ord - 1, blk)
  /\ UNCHANGED <<header, asked, pc, blk, target, req>>

(* One iteration of the splitting loop: the upper half goes on a list. *)
Split ==
  /\ pc = "split"
  /\ ord > target
  /\ ord' = ord - 1
  /\ Push(ord - 1, blk + BlockSize[ord - 1])
  /\ UNCHANGED <<header, asked, pc, blk, target, req>>

MallocReturn ==
  /\ pc = "split"
  /\ ord <= target
  /\ header' = [b \in DOMAIN header \cup {blk} |->
                  IF b = blk THEN target ELSE header[b]]
  /\ asked' = [b \in held \cup {blk} |-> IF b = blk THEN req ELSE asked[b]]
  /\ Return
  /\ UNCHANGED freeList

(* buddy_free up to its coalescing loop. *)
FreeEnter(addr) ==
  /\ pc = "idle"
  /\ addr \in held
  /\ Acceptable(addr, header[addr])
  /\ asked' = Restrict(asked, held \ {addr})
  /\ header' = Restrict(header, DOMAIN header \ {addr})
  /\ blk' = addr
  /\ ord' = header[addr]
  /\ pc' = "coalesce"
  /\ UNCHANGED <<freeList, target, req>>

(* buddy_free printing "Free Err" and returning: the caller has dropped    *)
(* the pointer and the block stays off every list.                         *)
FreeRefused(addr) ==
  /\ pc = "idle"
  /\ addr \in held
  /\ ~Acceptable(addr, header[addr])
  /\ asked' = Restrict(asked, held \ {addr})
  /\ UNCHANGED <<freeList, header, pc, blk, ord, target, req>>

(* Slips: merging stops an order early; only the head of the list is tried. *)
BuddyIsFreeBelowTop ==
  ord < MaxOrder - 1 /\ \E i \in DOMAIN freeList[ord] : freeList[ord][i] = Buddy(blk, ord)
BuddyIsHead ==
  ord < MaxOrder /\ freeList[ord] # <<>> /\ Head(freeList[ord]) = Buddy(blk, ord)

BuddyIsFree ==
  ord < MaxOrder /\ \E i \in DOMAIN freeList[ord] : freeList[ord][i] = Buddy(blk, ord)

(* Slip: the merged block keeps the address of the freed half. *)
CoalesceAtFreed ==
  /\ pc = "coalesce"
  /\ ord < MaxOrder
  /\ \E i \in DOMAIN freeList[ord] :
       /\ freeList[ord][i] = Buddy(blk, ord)
       /\ freeList' = [freeList EXCEPT ![ord] = RemoveAt(@, i)]
  /\ ord' = ord + 1
  /\ UNCHANGED <<header, asked, pc, blk, target, req>>

(* One iteration of the coalescing loop that finds the buddy. *)
Coalesce ==
  /\ pc = "coalesce"
  /\ ord < MaxOrder
  /\ \E i \in DOMAIN freeList[ord] :
       /\ freeList[ord][i] = Buddy(blk, ord)
       /\ freeList' = [freeList EXCEPT ![ord] = RemoveAt(@, i)]
  /\ blk' = IF blk <= Buddy(blk, ord) THEN blk ELSE Buddy(blk, ord)
  /\ ord' = ord + 1
  /\ UNCHANGED <<header, asked, pc, target, req>>

FreeReturn ==
  /\ pc = "coalesce"
  /\ ~BuddyIsFree
  /\ Push(ord, blk)
  /\ Return
  /\ UNCHANGED <<header, asked>>

Next ==
  \/ \E size \in Requests : MallocEnter(size) \/ MallocFail(size)
  \/ Split \/ MallocReturn
  \/ \E addr \in held : FreeEnter(addr) \/ FreeRefused(addr)
  \/ Coalesce \/ FreeReturn

Spec == Init /\ [][Next]_vars

-----------------------------------------------------------------------------
Addresses == HeapBase .. HeapEnd - 1

TypeOK ==
  /\ freeList \in [Orders -> Seq(Addresses)]
  /\ DOMAIN header \subseteq Addresses
  /\ header \in [DOMAIN header -> Orders]
  /\ held \subseteq DOMAIN header
  /\ asked \in [held -> Requests]
  /\ pc \in {"idle", "split", "coalesce"}
  /\ pc = "idle" => blk = 0 /\ ord = 0
  /\ pc # "idle" => blk \in Addresses /\ ord \in Orders
  /\ pc = "split" => target \in Orders /\ target <= ord /\ req \in Requests
  /\ pc # "split" => target = 0 /\ req = 0

Apart(a, o, b, p) == a + BlockSize[o] <= b \/ b + BlockSize[p] <= a
Inside(a, o) == a >= HeapBase /\ a + BlockSize[o] <= HeapEnd

FreeBlocksInside == \A o \in Orders : \A i \in DOMAIN freeList[o] : Inside(freeList[o][i], o)
UsedBlocksInside == \A a \in DOMAIN header : Inside(a, header[a])
CurrentInside == pc # "idle" => Inside(blk, ord)

FreeApartFromFree ==
  \A o, p \in Orders : \A i \in DOMAIN freeList[o], j \in DOMAIN freeList[p] :
    (o # p \/ i # j) => Apart(freeList[o][i], o, freeList[p][j], p)
FreeApartFromUsed ==
  \A o \in Orders : \A i \in DOMAIN freeList[o] : \A a \in DOMAIN header :
    Apart(freeList[o][i], o, a, header[a])
UsedApartFromUsed ==
  \A a, b \in DOMAIN header : a # b => Apart(a, header[a], b, header[b])
CurrentApart ==
  pc # "idle" =>
    /\ \A o \in Orders : \A i \in DOMAIN freeList[o] : Apart(blk, ord, freeList[o][i], o)
    /\ \A a \in DOMAIN header : Apart(blk, ord, a, header[a])

(* No two blocks overlap, whatever the address of the heap: neither two    *)
(* blocks handed out, nor one handed out and one on a free list, nor the   *)
(* block that buddy_malloc is splitting or buddy_free is merging.          *)
NoOverlap ==
  /\ FreeBlocksInside /\ UsedBlocksInside /\ CurrentInside
  /\ FreeApartFromFree /\ FreeApartFromUsed /\ UsedApartFromUsed /\ CurrentApart

(* Splitting and merging lose no byte: each belongs to a block on a list,  *)
(* to a block off the lists, or to the block of the call in progress.      *)
Within(x, a, o) == a <= x /\ x < a + BlockSize[o]
Coverage ==
  \A x \in Addresses :
    \/ \E o \in Orders : \E i \in DOMAIN freeList[o] : Within(x, freeList[o][i], o)
    \/ \E a \in DOMAIN header : Within(x, a, header[a])
    \/ pc # "idle" /\ Within(x, blk, ord)

(* After every call, no free block has its buddy on the list of the same   *)
(* order: buddy_free has merged all that its buddy function can merge.     *)
FullyMerged ==
  pc = "idle" =>
    \A o \in Orders \ {MaxOrder} :
      ToSet(freeList[o]) \cap {Buddy(a, o) : a \in ToSet(freeList[o])} = {}

(* A block that buddy_malloc returned passes the checks of buddy_free, so  *)
(* that every block off the lists is one some caller still holds.          *)
NothingStranded == pc = "idle" => DOMAIN header = held

(* Once everything is freed the heap is a single block again.              *)
HeapRestored ==
  pc = "idle" /\ held = {} => freeList[MaxOrder] = <<HeapBase>>

(* What callers see of the blocks they hold is a RegionAlloc: behind the   *)
(* header, as many bytes as they asked for.                                *)
UserRegions == [p \in {a + HeaderSize : a \in held} |-> asked[p - HeaderSize]]
Region == INSTANCE RegionAlloc WITH HeapStart <- HeapBase, owned <- UserRegions
ImplementsRegionAlloc == Region!Spec
=============================================================================
