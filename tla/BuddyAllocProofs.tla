-------------------------- MODULE BuddyAllocProofs --------------------------
(***************************************************************************)
(* TypeOK and NoOverlap hold of BuddyAlloc whatever the address and the    *)
(* size of the heap.  Neither is inductive alone: a list entry is a heap   *)
(* address because the block being split lies inside the heap, and the     *)
(* blocks stay apart because the lists have the type they have.            *)
(***************************************************************************)
EXTENDS BuddyAlloc, ProofLemmas

IInv == TypeOK /\ NoOverlap

LEMMA SizeFacts ==
  /\ Orders \subseteq Nat
  /\ \A o \in Orders : BlockSize[o] \in Nat \ {0}
  /\ MaxOrder \in Orders /\ MinOrder \in Orders
  /\ HeapBase \in Nat \ {0} /\ HeapEnd \in Nat /\ HeapBase < HeapEnd
  /\ Addresses \subseteq Nat
BY BuddyConstants, BlockSizes DEF Orders, HeapEnd, Addresses

LEMMA EntryFacts ==
  ASSUME freeList \in [Orders -> Seq(Addresses)],
         NEW p \in Orders, NEW i \in DOMAIN freeList[p]
  PROVE  freeList[p][i] \in Addresses /\ freeList[p][i] \in Nat
<1>1. freeList[p] \in Seq(Addresses)
  OBVIOUS
<1>2. i \in 1 .. Len(freeList[p])
  BY <1>1
<1>3. freeList[p][i] \in Addresses
  BY <1>1, <1>2, ElementOfSeq
<1> QED
  BY <1>3, SizeFacts

(* The two halves of a block are apart from whatever it is apart from.     *)
LEMMA HalvesApart ==
  ASSUME NEW o \in Orders, NEW whole \in Orders, BlockSize[whole] = 2 * BlockSize[o],
         NEW a \in Nat, NEW b \in Nat, NEW p \in Orders, Apart(a, whole, b, p)
  PROVE  /\ Apart(a, o, b, p) /\ Apart(b, p, a, o)
         /\ Apart(a + BlockSize[o], o, b, p) /\ Apart(b, p, a + BlockSize[o], o)
<1>1. BlockSize[o] \in Nat /\ BlockSize[p] \in Nat
  BY SizeFacts
<1> QED
  BY <1>1 DEF Apart

LEMMA OrderOfMalloc ==
  ASSUME NEW size \in Requests, HasOrder(size),
         freeList \in [Orders -> Seq(Addresses)],
         NonEmptyFrom(TargetOrder(size)) # {}
  PROVE  LET found == Min(NonEmptyFrom(TargetOrder(size)))
         IN  /\ TargetOrder(size) \in Orders
             /\ found \in Orders
             /\ TargetOrder(size) <= found
             /\ freeList[found] # <<>>
<1>1. Fitting(size) \in SUBSET Nat /\ Fitting(size) # {}
  BY SizeFacts DEF Fitting, HasOrder
<1>2. TargetOrder(size) \in Fitting(size)
  BY <1>1, MinFacts DEF TargetOrder
<1>3. TargetOrder(size) \in Orders
  BY <1>2 DEF Fitting
<1>4. NonEmptyFrom(TargetOrder(size)) \in SUBSET Nat
  BY <1>3, SizeFacts, BuddyConstants DEF NonEmptyFrom, Orders
<1>5. Min(NonEmptyFrom(TargetOrder(size))) \in NonEmptyFrom(TargetOrder(size))
  BY <1>4, MinFacts
<1> QED
  BY <1>3, <1>5, BuddyConstants, SizeFacts DEF NonEmptyFrom, Orders

LEMMA InitIInv == Init => IInv
<1> SUFFICES ASSUME Init PROVE IInv
  OBVIOUS
<1>1. <<HeapBase>> \in Seq(Addresses) /\ <<>> \in Seq(Addresses)
  BY SizeFacts DEF Addresses
<1>2. DOMAIN header = {}
  BY DEF Init
<1>3. TypeOK
  <2>1. held = {} /\ asked = [b \in {} |-> asked[b]]
    BY DEF Init, held
  <2> QED
    BY <1>1, <1>2, <2>1, SizeFacts DEF Init, TypeOK
<1>4. \A o \in Orders : \A i \in DOMAIN freeList[o] :
        o = MaxOrder /\ i = 1 /\ freeList[o][i] = HeapBase
  BY SizeFacts DEF Init
<1>5. NoOverlap
  BY <1>2, <1>4, SizeFacts
     DEF Init, NoOverlap, FreeBlocksInside, UsedBlocksInside, CurrentInside,
         FreeApartFromFree, FreeApartFromUsed, UsedApartFromUsed, CurrentApart,
         Inside, HeapEnd
<1> QED
  BY <1>3, <1>5 DEF IInv

LEMMA MallocEnterIInv ==
  ASSUME IInv, NEW size \in Requests, MallocEnter(size)
  PROVE  IInv'
<1> DEFINE found == Min(NonEmptyFrom(TargetOrder(size)))
<1>1. /\ pc = "idle" /\ pc' = "split"
      /\ target' = TargetOrder(size) /\ ord' = found
      /\ blk' = Head(freeList[found])
      /\ freeList' = [freeList EXCEPT ![found] = Tail(@)]
      /\ header' = header /\ held' = held /\ asked' = asked /\ req' = size
  BY DEF MallocEnter, held
<1>2. /\ TargetOrder(size) \in Orders /\ found \in Orders
      /\ TargetOrder(size) <= found /\ freeList[found] # <<>>
  BY OrderOfMalloc DEF IInv, TypeOK, MallocEnter
<1> HIDE DEF found
<1>3. freeList \in [Orders -> Seq(Addresses)]
  BY DEF IInv, TypeOK
<1>4. /\ freeList'[found] = Tail(freeList[found])
      /\ \A o \in Orders : o # found => freeList'[o] = freeList[o]
      /\ freeList' \in [Orders -> Seq(Addresses)]
      /\ DOMAIN freeList'[found] = 1 .. Len(freeList[found]) - 1
      /\ \A i \in 1 .. Len(freeList[found]) - 1 : freeList'[found][i] = freeList[found][i + 1]
      /\ blk' = freeList[found][1] /\ blk' \in Addresses
      /\ Len(freeList[found]) \in Nat \ {0}
      /\ \A o \in Orders : DOMAIN freeList[o] = 1 .. Len(freeList[o])
  BY <1>1, <1>2, <1>3, TailFacts
<1>5. TypeOK'
  BY <1>1, <1>2, <1>4, SizeFacts DEF IInv, TypeOK
\* the entries of the new lists are old entries, none of them the head taken
<1>6. \A o \in Orders : \A i \in DOMAIN freeList'[o] :
        \E k \in DOMAIN freeList[o] :
          /\ k = (IF o = found THEN i + 1 ELSE i)
          /\ freeList'[o][i] = freeList[o][k]
  <2> SUFFICES ASSUME NEW o \in Orders, NEW i \in DOMAIN freeList'[o]
               PROVE  /\ (IF o = found THEN i + 1 ELSE i) \in DOMAIN freeList[o]
                      /\ freeList'[o][i] = freeList[o][IF o = found THEN i + 1 ELSE i]
    OBVIOUS
  <2>1. CASE o = found
    <3>1. i \in 1 .. Len(freeList[o]) - 1
      BY <1>4, <2>1
    <3>2. i + 1 \in 1 .. Len(freeList[o])
      BY <1>4, <2>1, <3>1
    <3> QED
      BY <1>4, <2>1, <3>1, <3>2
  <2>2. CASE o # found
    BY <1>4, <2>2
  <2> QED
    BY <2>1, <2>2
<1>7. 1 \in DOMAIN freeList[found]
  BY <1>2, <1>4
<1>8. NoOverlap'
  <2>1. FreeBlocksInside' /\ UsedBlocksInside' /\ CurrentInside'
    BY <1>1, <1>2, <1>4, <1>6, <1>7
       DEF IInv, NoOverlap, FreeBlocksInside, UsedBlocksInside, CurrentInside, Inside
  <2>2. FreeApartFromFree'
    <3> SUFFICES ASSUME NEW o \in Orders, NEW p \in Orders,
                        NEW i \in DOMAIN freeList'[o], NEW j \in DOMAIN freeList'[p],
                        o # p \/ i # j
                 PROVE  Apart(freeList'[o][i], o, freeList'[p][j], p)
      BY DEF FreeApartFromFree, Apart
    <3>1. i \in Int /\ j \in Int
      BY <1>4
    <3> QED
      BY <1>6, <3>1 DEF IInv, NoOverlap, FreeApartFromFree
  <2>3. FreeApartFromUsed' /\ UsedApartFromUsed'
    BY <1>1, <1>6 DEF IInv, NoOverlap, FreeApartFromUsed, UsedApartFromUsed, Apart
  <2>4. CurrentApart'
    <3>1. ASSUME NEW o \in Orders, NEW i \in DOMAIN freeList'[o]
          PROVE  Apart(blk', found, freeList'[o][i], o)
      <4>1. PICK k \in DOMAIN freeList[o] :
              /\ k = (IF o = found THEN i + 1 ELSE i)
              /\ freeList'[o][i] = freeList[o][k]
        BY <1>6, <3>1
      <4>2. found # o \/ 1 # k
        BY <1>4, <3>1, <4>1
      <4>3. FreeApartFromFree
        BY DEF IInv, NoOverlap
      <4>4. Apart(freeList[found][1], found, freeList[o][k], o)
        BY <1>2, <1>7, <4>2, <4>3 DEF FreeApartFromFree
      <4> QED
        BY <1>4, <4>1, <4>4
    <3>2. ASSUME NEW a \in DOMAIN header
          PROVE  Apart(blk', found, a, header[a])
      BY <1>2, <1>4, <1>7, <3>2 DEF IInv, NoOverlap, FreeApartFromUsed
    <3> QED
      BY <1>1, <3>1, <3>2 DEF CurrentApart, Apart
  <2> QED
    BY <2>1, <2>2, <2>3, <2>4 DEF NoOverlap
<1> QED
  BY <1>5, <1>8 DEF IInv

(* Push(o, addr) puts a block in front of one list and moves the others of *)
(* that list one place on.                                                 *)
LEMMA PushEntries ==
  ASSUME freeList \in [Orders -> Seq(Addresses)],
         NEW o \in Orders, NEW addr \in Addresses, Push(o, addr)
  PROVE  /\ freeList' \in [Orders -> Seq(Addresses)]
         /\ \A p \in Orders : \A i \in DOMAIN freeList'[p] :
              \/ p = o /\ i = 1 /\ freeList'[p][i] = addr
              \/ /\ p = o /\ i # 1 /\ i - 1 \in DOMAIN freeList[p]
                 /\ freeList'[p][i] = freeList[p][i - 1]
              \/ /\ p # o /\ i \in DOMAIN freeList[p]
                 /\ freeList'[p][i] = freeList[p][i]
         /\ \A p \in Orders : \A i \in DOMAIN freeList'[p] : i \in Int
<1>1. freeList'[o] = <<addr>> \o freeList[o]
  BY DEF Push
<1>2. \A p \in Orders : p # o => freeList'[p] = freeList[p]
  BY DEF Push
<1>3. /\ freeList'[o] \in Seq(Addresses)
      /\ DOMAIN freeList'[o] = 1 .. Len(freeList[o]) + 1
      /\ DOMAIN freeList[o] = 1 .. Len(freeList[o]) /\ Len(freeList[o]) \in Nat
      /\ freeList'[o][1] = addr
      /\ \A j \in 2 .. Len(freeList[o]) + 1 : freeList'[o][j] = freeList[o][j - 1]
  BY <1>1, PushFacts
<1>4. freeList' \in [Orders -> Seq(Addresses)]
  BY <1>3 DEF Push
<1>5. ASSUME NEW p \in Orders, NEW i \in DOMAIN freeList'[p]
      PROVE  /\ \/ p = o /\ i = 1 /\ freeList'[p][i] = addr
                \/ /\ p = o /\ i # 1 /\ i - 1 \in DOMAIN freeList[p]
                   /\ freeList'[p][i] = freeList[p][i - 1]
                \/ /\ p # o /\ i \in DOMAIN freeList[p]
                   /\ freeList'[p][i] = freeList[p][i]
             /\ i \in Int
  <2>1. CASE p = o
    <3>1. i \in 1 .. Len(freeList[o]) + 1
      BY <1>3, <1>5, <2>1
    <3>2. i # 1 => i \in 2 .. Len(freeList[o]) + 1 /\ i - 1 \in 1 .. Len(freeList[o])
      BY <1>3, <3>1
    <3> QED
      BY <1>3, <2>1, <3>1, <3>2
  <2>2. CASE p # o
    <3>1. i \in 1 .. Len(freeList[p])
      BY <1>2, <1>5, <2>2
    <3> QED
      BY <1>2, <1>5, <2>2, <3>1
  <2> QED
    BY <2>1, <2>2
<1> QED
  BY <1>4, <1>5

(* Halving the block at blk of order ord into blk itself and its upper     *)
(* half keeps each half apart from whatever the whole was apart from.      *)
LEMMA SplitIInv ==
  ASSUME IInv, Split
  PROVE  IInv'
<1> DEFINE o == ord - 1
           up == blk + BlockSize[ord - 1]
<1>1. /\ pc = "split" /\ pc' = pc /\ ord > target /\ ord' = o
      /\ header' = header /\ held' = held /\ blk' = blk /\ target' = target
      /\ asked' = asked /\ req' = req
      /\ Push(o, up)
  BY DEF Split, held
<1>2. /\ ord \in Orders /\ o \in Orders /\ target \in Orders /\ target <= o
      /\ blk \in Addresses /\ freeList \in [Orders -> Seq(Addresses)]
  BY <1>1, SizeFacts, BuddyConstants DEF IInv, TypeOK, Orders
<1>3. BlockSize[ord] = 2 * BlockSize[o]
  <2>1. o + 1 = ord
    BY <1>2, SizeFacts
  <2> QED
    BY <1>2, <2>1, BlockSizes
<1>4. /\ BlockSize[o] \in Nat \ {0} /\ blk \in Nat /\ up \in Nat
      /\ up = blk + BlockSize[o]
      /\ blk >= HeapBase /\ blk + 2 * BlockSize[o] <= HeapEnd
  <2>1. blk \in Nat /\ BlockSize[o] \in Nat \ {0}
    BY <1>2, SizeFacts
  <2>2. Inside(blk, ord)
    BY <1>1 DEF IInv, NoOverlap, CurrentInside
  <2> QED
    BY <1>3, <2>1, <2>2 DEF Inside
<1> HIDE DEF o, up
<1>5. up \in Addresses
  BY <1>4, SizeFacts DEF Addresses
<1>6. /\ freeList' \in [Orders -> Seq(Addresses)]
      /\ \A p \in Orders : \A i \in DOMAIN freeList'[p] :
            \/ p = o /\ i = 1 /\ freeList'[p][i] = up
            \/ /\ p = o /\ i # 1 /\ i - 1 \in DOMAIN freeList[p]
               /\ freeList'[p][i] = freeList[p][i - 1]
            \/ /\ p # o /\ i \in DOMAIN freeList[p]
               /\ freeList'[p][i] = freeList[p][i]
      /\ \A p \in Orders : \A i \in DOMAIN freeList'[p] : i \in Int
  BY <1>1, <1>2, <1>5, PushEntries
<1>7. TypeOK'
  BY <1>1, <1>2, <1>6 DEF IInv, TypeOK
\* both halves are apart from every other block
<1>8. ASSUME NEW p \in Orders, NEW i \in DOMAIN freeList[p]
      PROVE  /\ Apart(up, o, freeList[p][i], p) /\ Apart(freeList[p][i], p, up, o)
             /\ Apart(blk, o, freeList[p][i], p)
  <2>1. Apart(blk, ord, freeList[p][i], p)
    BY <1>1, <1>8 DEF IInv, NoOverlap, CurrentApart
  <2>2. freeList[p][i] \in Nat
    BY <1>2, <1>8, EntryFacts
  <2> QED
    BY <1>2, <1>3, <1>4, <2>1, <2>2, HalvesApart
<1>9. ASSUME NEW a \in DOMAIN header
      PROVE  Apart(up, o, a, header[a]) /\ Apart(blk, o, a, header[a])
  <2>1. Apart(blk, ord, a, header[a])
    BY <1>1, <1>9 DEF IInv, NoOverlap, CurrentApart
  <2>2. a \in Nat /\ header[a] \in Orders
    BY <1>9, SizeFacts DEF IInv, TypeOK
  <2> QED
    BY <1>2, <1>3, <1>4, <2>1, <2>2, HalvesApart
<1>10. FreeBlocksInside' /\ UsedBlocksInside' /\ CurrentInside'
  <2>1. ASSUME NEW p \in Orders, NEW i \in DOMAIN freeList'[p]
        PROVE  Inside(freeList'[p][i], p)
    <3>1. Inside(up, o)
      BY <1>4, SizeFacts DEF Inside
    <3> QED
      BY <1>6, <2>1, <3>1 DEF IInv, NoOverlap, FreeBlocksInside
  <2>2. Inside(blk, o)
    BY <1>4, SizeFacts DEF Inside
  <2> QED
    BY <1>1, <2>1, <2>2
       DEF IInv, NoOverlap, FreeBlocksInside, UsedBlocksInside, CurrentInside, Inside
<1>11. FreeApartFromFree'
  <2> SUFFICES ASSUME NEW p \in Orders, NEW q \in Orders,
                      NEW i \in DOMAIN freeList'[p], NEW j \in DOMAIN freeList'[q],
                      p # q \/ i # j
               PROVE  Apart(freeList'[p][i], p, freeList'[q][j], q)
    BY DEF FreeApartFromFree, Apart
  <2>1. CASE p = o /\ i = 1
    BY <1>6, <1>8, <2>1
  <2>2. CASE q = o /\ j = 1
    BY <1>6, <1>8, <2>2
  <2>3. CASE ~(p = o /\ i = 1) /\ ~(q = o /\ j = 1)
    <3>1. PICK k \in DOMAIN freeList[p] :
            freeList'[p][i] = freeList[p][k] /\ k = IF p = o THEN i - 1 ELSE i
      BY <1>6, <2>3
    <3>2. PICK l \in DOMAIN freeList[q] :
            freeList'[q][j] = freeList[q][l] /\ l = IF q = o THEN j - 1 ELSE j
      BY <1>6, <2>3
    <3>3. p # q \/ k # l
      BY <1>6, <3>1, <3>2
    <3> QED
      BY <3>1, <3>2, <3>3 DEF IInv, NoOverlap, FreeApartFromFree
  <2> QED
    BY <2>1, <2>2, <2>3
<1>12. FreeApartFromUsed' /\ UsedApartFromUsed'
  <2>1. ASSUME NEW p \in Orders, NEW i \in DOMAIN freeList'[p], NEW a \in DOMAIN header
        PROVE  Apart(freeList'[p][i], p, a, header[a])
    BY <1>6, <1>9, <2>1 DEF IInv, NoOverlap, FreeApartFromUsed
  <2> QED
    BY <1>1, <2>1 DEF IInv, NoOverlap, FreeApartFromUsed, UsedApartFromUsed, Apart
<1>13. CurrentApart'
  <2>1. Apart(blk, o, up, o)
    BY <1>4 DEF Apart
  <2>2. ASSUME NEW p \in Orders, NEW i \in DOMAIN freeList'[p]
        PROVE  Apart(blk, o, freeList'[p][i], p)
    BY <1>6, <1>8, <2>1, <2>2
  <2> QED
    BY <1>1, <1>9, <2>2 DEF CurrentApart, Apart
<1> QED
  BY <1>7, <1>10, <1>11, <1>12, <1>13 DEF IInv, NoOverlap

LEMMA MallocReturnIInv ==
  ASSUME IInv, MallocReturn
  PROVE  IInv'
<1>1. /\ pc = "split" /\ pc' = "idle" /\ blk' = 0 /\ ord' = 0 /\ target' = 0 /\ req' = 0
      /\ header' = [b \in DOMAIN header \cup {blk} |-> IF b = blk THEN target ELSE header[b]]
      /\ asked' = [b \in held \cup {blk} |-> IF b = blk THEN req ELSE asked[b]]
      /\ held' = held \cup {blk} /\ freeList' = freeList
  BY DEF MallocReturn, Return, held
<1>2. ord = target /\ ord \in Orders /\ blk \in Addresses
  BY <1>1, SizeFacts DEF IInv, TypeOK, MallocReturn
<1>3. /\ DOMAIN header' = DOMAIN header \cup {blk}
      /\ header'[blk] = ord
      /\ \A b \in DOMAIN header : b # blk => header'[b] = header[b]
  BY <1>1, <1>2
<1>4. blk \notin DOMAIN header
  <2> SUFFICES ASSUME blk \in DOMAIN header PROVE FALSE
    OBVIOUS
  <2>1. Apart(blk, ord, blk, header[blk]) /\ header[blk] \in Orders
    BY <1>1 DEF IInv, TypeOK, NoOverlap, CurrentApart
  <2>2. blk \in Nat /\ BlockSize[ord] \in Nat \ {0} /\ BlockSize[header[blk]] \in Nat \ {0}
    BY <1>2, <2>1, SizeFacts
  <2> QED
    BY <2>1, <2>2 DEF Apart
<1>5. TypeOK'
  BY <1>1, <1>2, <1>3 DEF IInv, TypeOK
<1>6. FreeBlocksInside' /\ UsedBlocksInside' /\ CurrentInside'
  BY <1>1, <1>2, <1>3, <1>4
     DEF IInv, NoOverlap, FreeBlocksInside, UsedBlocksInside, CurrentInside, Inside
<1>7. FreeApartFromFree' /\ CurrentApart'
  BY <1>1 DEF IInv, NoOverlap, FreeApartFromFree, CurrentApart, Apart
<1>8. FreeApartFromUsed' /\ UsedApartFromUsed'
  <2>1. ASSUME NEW p \in Orders, NEW i \in DOMAIN freeList[p], NEW a \in DOMAIN header'
        PROVE  Apart(freeList[p][i], p, a, header'[a])
    <3>1. Apart(blk, ord, freeList[p][i], p)
      BY <1>1, <2>1 DEF IInv, NoOverlap, CurrentApart
    <3>2. a # blk => Apart(freeList[p][i], p, a, header[a])
      BY <1>3, <2>1 DEF IInv, NoOverlap, FreeApartFromUsed
    <3> QED
      BY <1>3, <3>1, <3>2, <2>1 DEF Apart
  <2>2. ASSUME NEW a \in DOMAIN header', NEW b \in DOMAIN header', a # b
        PROVE  Apart(a, header'[a], b, header'[b])
    BY <1>1, <1>3, <1>4, <2>2 DEF IInv, NoOverlap, CurrentApart, UsedApartFromUsed, Apart
  <2> QED
    BY <1>1, <2>1, <2>2 DEF FreeApartFromUsed, UsedApartFromUsed, Apart
<1> QED
  BY <1>5, <1>6, <1>7, <1>8 DEF IInv, NoOverlap

LEMMA FreeEnterIInv ==
  ASSUME IInv, NEW addr \in held, FreeEnter(addr)
  PROVE  IInv'
<1>1. /\ pc = "idle" /\ pc' = "coalesce" /\ blk' = addr /\ ord' = header[addr]
      /\ header' = Restrict(header, DOMAIN header \ {addr})
      /\ asked' = Restrict(asked, held \ {addr})
      /\ held' = held \ {addr} /\ freeList' = freeList /\ target' = target /\ req' = req
  BY DEF FreeEnter, held, Restrict
<1>2. addr \in DOMAIN header /\ addr \in Addresses /\ header[addr] \in Orders
  BY DEF IInv, TypeOK
<1>3. /\ DOMAIN header' = DOMAIN header \ {addr}
      /\ \A b \in DOMAIN header' : header'[b] = header[b]
  BY <1>1 DEF Restrict
<1>4. TypeOK'
  BY <1>1, <1>2, <1>3 DEF IInv, TypeOK, Restrict
<1>5. FreeBlocksInside' /\ UsedBlocksInside' /\ CurrentInside'
  BY <1>1, <1>2, <1>3
     DEF IInv, NoOverlap, FreeBlocksInside, UsedBlocksInside, CurrentInside, Inside
<1>6. FreeApartFromFree' /\ FreeApartFromUsed' /\ UsedApartFromUsed'
  BY <1>1, <1>3
     DEF IInv, NoOverlap, FreeApartFromFree, FreeApartFromUsed, UsedApartFromUsed, Apart
<1>7. CurrentApart'
  <2>1. ASSUME NEW o \in Orders, NEW i \in DOMAIN freeList[o]
        PROVE  Apart(addr, header[addr], freeList[o][i], o)
    BY <1>2, <2>1 DEF IInv, NoOverlap, FreeApartFromUsed, Apart
  <2>2. ASSUME NEW a \in DOMAIN header'
        PROVE  Apart(addr, header[addr], a, header'[a])
    BY <1>2, <1>3, <2>2 DEF IInv, NoOverlap, UsedApartFromUsed
  <2> QED
    BY <1>1, <2>1, <2>2 DEF CurrentApart, Apart
<1> QED
  BY <1>4, <1>5, <1>6, <1>7 DEF IInv, NoOverlap

(* Whichever of the two buddies is the lower one, the merged block is made *)
(* of exactly the two, so what is apart from both is apart from it.        *)
LEMMA MergedApart ==
  ASSUME NEW o \in Orders, NEW whole \in Orders, BlockSize[whole] = 2 * BlockSize[o],
         NEW a \in Nat, NEW c \in Nat, c = a + BlockSize[o] \/ a = c + BlockSize[o],
         NEW b \in Nat, NEW p \in Orders, Apart(a, o, b, p), Apart(c, o, b, p)
  PROVE  Apart(IF a <= c THEN a ELSE c, whole, b, p)
<1>1. BlockSize[o] \in Nat \ {0} /\ BlockSize[p] \in Nat \ {0}
  BY SizeFacts
<1>2. CASE c = a + BlockSize[o]
  BY <1>1, <1>2 DEF Apart
<1>3. CASE a = c + BlockSize[o]
  BY <1>1, <1>3 DEF Apart
<1> QED
  BY <1>2, <1>3

LEMMA CoalesceIInv ==
  ASSUME IInv, Coalesce
  PROVE  IInv'
<1> DEFINE c == Buddy(blk, ord)
<1>1. /\ pc = "coalesce" /\ pc' = pc /\ ord < MaxOrder /\ ord' = ord + 1
      /\ header' = header /\ held' = held /\ target' = target
      /\ asked' = asked /\ req' = req
      /\ blk' = IF blk <= c THEN blk ELSE c
  BY DEF Coalesce, held
<1>2. PICK k \in DOMAIN freeList[ord] :
        /\ freeList[ord][k] = c
        /\ freeList' = [freeList EXCEPT ![ord] = RemoveAt(@, k)]
  BY DEF Coalesce
<1>3. /\ freeList \in [Orders -> Seq(Addresses)] /\ blk \in Addresses
      /\ ord \in Orders /\ ord + 1 \in Orders
      /\ BlockSize[ord] \in Nat \ {0} /\ BlockSize[ord + 1] = 2 * BlockSize[ord]
  <2>1. freeList \in [Orders -> Seq(Addresses)] /\ blk \in Addresses /\ ord \in Orders
    BY <1>1 DEF IInv, TypeOK
  <2>2. ord + 1 \in Orders
    BY <1>1, <2>1, BuddyConstants DEF Orders
  <2> QED
    BY <2>1, <2>2, BlockSizes, SizeFacts
<1>4. c \in Addresses /\ c \in Nat /\ blk \in Nat
  BY <1>2, <1>3, EntryFacts, SizeFacts
<1>5. c = blk + BlockSize[ord] \/ blk = c + BlockSize[ord]
  <2>1. c = blk + BlockSize[ord] \/ c = blk - BlockSize[ord]
    BY DEF Buddy
  <2> QED
    BY <1>3, <1>4, <2>1
<1>6. /\ freeList' \in [Orders -> Seq(Addresses)]
      /\ \A p \in Orders : \A i \in DOMAIN freeList'[p] :
           LET j == IF p # ord \/ i < k THEN i ELSE i + 1
           IN  /\ i \in Int /\ j \in DOMAIN freeList[p]
               /\ freeList'[p][i] = freeList[p][j]
               /\ p # ord \/ j # k
  <2>1. k \in 1 .. Len(freeList[ord]) /\ Len(freeList[ord]) \in Nat
    BY <1>3
  <2>2. /\ RemoveAt(freeList[ord], k) \in Seq(Addresses)
        /\ Len(RemoveAt(freeList[ord], k)) = Len(freeList[ord]) - 1
        /\ \A i \in 1 .. Len(freeList[ord]) - 1 : RemoveAt(freeList[ord], k)[i] =
              IF i < k THEN freeList[ord][i] ELSE freeList[ord][i + 1]
    BY <1>3, <2>1, RemoveAtFacts
  <2>3. /\ freeList'[ord] = RemoveAt(freeList[ord], k)
        /\ \A p \in Orders : p # ord => freeList'[p] = freeList[p]
        /\ freeList' \in [Orders -> Seq(Addresses)]
    BY <1>2, <1>3, <2>2
  <2>4. ASSUME NEW p \in Orders, NEW i \in DOMAIN freeList'[p]
        PROVE  LET j == IF p # ord \/ i < k THEN i ELSE i + 1
               IN  /\ i \in Int /\ j \in DOMAIN freeList[p]
                   /\ freeList'[p][i] = freeList[p][j]
                   /\ p # ord \/ j # k
    <3>1. CASE p = ord
      <4>1. i \in 1 .. Len(freeList[ord]) - 1
        BY <2>2, <2>3, <2>4, <3>1
      <4>2. i \in 1 .. Len(freeList[ord]) /\ i + 1 \in 1 .. Len(freeList[ord])
        BY <2>1, <4>1
      <4>3. DOMAIN freeList[ord] = 1 .. Len(freeList[ord])
        BY <1>3
      <4> QED
        BY <2>1, <2>2, <2>3, <3>1, <4>1, <4>2, <4>3
    <3>2. CASE p # ord
      <4>1. i \in 1 .. Len(freeList[p])
        BY <1>3, <2>3, <2>4, <3>2
      <4> QED
        BY <2>3, <2>4, <3>2, <4>1
    <3> QED
      BY <3>1, <3>2
  <2> QED
    BY <2>3, <2>4
<1> HIDE DEF c
<1>7. blk' \in Nat /\ blk' \in Addresses /\ Inside(blk', ord + 1)
  <2>1. Inside(blk, ord) /\ Inside(c, ord)
    BY <1>1, <1>2, <1>3 DEF IInv, NoOverlap, CurrentInside, FreeBlocksInside
  <2>2. HeapBase \in Nat /\ HeapEnd \in Nat
    BY SizeFacts
  <2>3. CASE c = blk + BlockSize[ord]
    BY <1>1, <1>3, <1>4, <2>1, <2>2, <2>3 DEF Inside
  <2>4. CASE blk = c + BlockSize[ord]
    BY <1>1, <1>3, <1>4, <2>1, <2>2, <2>4 DEF Inside
  <2> QED
    BY <1>5, <2>3, <2>4
<1>8. TypeOK'
  BY <1>1, <1>3, <1>6, <1>7 DEF IInv, TypeOK
<1>9. ASSUME NEW p \in Orders, NEW i \in DOMAIN freeList'[p]
      PROVE  Apart(blk', ord + 1, freeList'[p][i], p)
  <2>1. PICK j \in DOMAIN freeList[p] :
          freeList'[p][i] = freeList[p][j] /\ (p # ord \/ j # k)
    BY <1>6, <1>9
  <2>2. Apart(blk, ord, freeList[p][j], p)
    BY <1>1, <2>1 DEF IInv, NoOverlap, CurrentApart
  <2>3. Apart(c, ord, freeList[p][j], p)
    BY <1>2, <1>3, <2>1 DEF IInv, NoOverlap, FreeApartFromFree
  <2>4. freeList[p][j] \in Nat
    BY <1>3, <2>1, EntryFacts
  <2> QED
    BY <1>1, <1>3, <1>4, <1>5, <2>1, <2>2, <2>3, <2>4, MergedApart
<1>10. ASSUME NEW a \in DOMAIN header
       PROVE  Apart(blk', ord + 1, a, header[a])
  <2>1. Apart(blk, ord, a, header[a]) /\ Apart(c, ord, a, header[a])
    BY <1>1, <1>2, <1>3, <1>10 DEF IInv, NoOverlap, CurrentApart, FreeApartFromUsed
  <2>2. a \in Nat /\ header[a] \in Orders
    BY <1>10, SizeFacts DEF IInv, TypeOK
  <2> QED
    BY <1>1, <1>3, <1>4, <1>5, <2>1, <2>2, MergedApart
<1>11. FreeBlocksInside' /\ UsedBlocksInside' /\ CurrentInside'
  <2>1. ASSUME NEW p \in Orders, NEW i \in DOMAIN freeList'[p]
        PROVE  Inside(freeList'[p][i], p)
    BY <1>6, <2>1 DEF IInv, NoOverlap, FreeBlocksInside
  <2> QED
    BY <1>1, <1>7, <2>1
       DEF IInv, NoOverlap, FreeBlocksInside, UsedBlocksInside, CurrentInside, Inside
<1>12. FreeApartFromFree'
  <2> SUFFICES ASSUME NEW p \in Orders, NEW q \in Orders,
                      NEW i \in DOMAIN freeList'[p], NEW j \in DOMAIN freeList'[q],
                      p # q \/ i # j
               PROVE  Apart(freeList'[p][i], p, freeList'[q][j], q)
    BY DEF FreeApartFromFree, Apart
  <2>1. PICK m \in DOMAIN freeList[p] :
          freeList'[p][i] = freeList[p][m] /\ m = IF p # ord \/ i < k THEN i ELSE i + 1
    BY <1>6
  <2>2. PICK n \in DOMAIN freeList[q] :
          freeList'[q][j] = freeList[q][n] /\ n = IF q # ord \/ j < k THEN j ELSE j + 1
    BY <1>6
  <2>3. i \in Int /\ j \in Int /\ k \in Int
    BY <1>3, <1>6
  <2>4. p # q \/ m # n
    BY <2>1, <2>2, <2>3
  <2> QED
    BY <2>1, <2>2, <2>4 DEF IInv, NoOverlap, FreeApartFromFree
<1>13. FreeApartFromUsed' /\ UsedApartFromUsed'
  BY <1>1, <1>6 DEF IInv, NoOverlap, FreeApartFromUsed, UsedApartFromUsed, Apart
<1>14. CurrentApart'
  BY <1>1, <1>9, <1>10 DEF CurrentApart, Apart
<1> QED
  BY <1>8, <1>11, <1>12, <1>13, <1>14 DEF IInv, NoOverlap

LEMMA FreeReturnIInv ==
  ASSUME IInv, FreeReturn
  PROVE  IInv'
<1>1. /\ pc = "coalesce" /\ pc' = "idle" /\ blk' = 0 /\ ord' = 0 /\ target' = 0 /\ req' = 0
      /\ header' = header /\ held' = held /\ asked' = asked /\ Push(ord, blk)
  BY DEF FreeReturn, Return, held
<1>2. /\ freeList \in [Orders -> Seq(Addresses)] /\ blk \in Addresses /\ ord \in Orders
  BY <1>1 DEF IInv, TypeOK
<1>3. /\ freeList' \in [Orders -> Seq(Addresses)]
      /\ \A p \in Orders : \A i \in DOMAIN freeList'[p] :
            \/ p = ord /\ i = 1 /\ freeList'[p][i] = blk
            \/ /\ p = ord /\ i # 1 /\ i - 1 \in DOMAIN freeList[p]
               /\ freeList'[p][i] = freeList[p][i - 1]
            \/ /\ p # ord /\ i \in DOMAIN freeList[p]
               /\ freeList'[p][i] = freeList[p][i]
      /\ \A p \in Orders : \A i \in DOMAIN freeList'[p] : i \in Int
  BY <1>1, <1>2, PushEntries
<1>4. TypeOK'
  BY <1>1, <1>3 DEF IInv, TypeOK
<1>5. FreeBlocksInside' /\ UsedBlocksInside' /\ CurrentInside'
  <2>1. ASSUME NEW p \in Orders, NEW i \in DOMAIN freeList'[p]
        PROVE  Inside(freeList'[p][i], p)
    BY <1>1, <1>3, <2>1 DEF IInv, NoOverlap, CurrentInside, FreeBlocksInside
  <2> QED
    BY <1>1, <2>1
       DEF IInv, NoOverlap, FreeBlocksInside, UsedBlocksInside, CurrentInside, Inside
<1>6. FreeApartFromFree'
  <2> SUFFICES ASSUME NEW p \in Orders, NEW q \in Orders,
                      NEW i \in DOMAIN freeList'[p], NEW j \in DOMAIN freeList'[q],
                      p # q \/ i # j
               PROVE  Apart(freeList'[p][i], p, freeList'[q][j], q)
    BY DEF FreeApartFromFree, Apart
  <2>0. ASSUME NEW r \in Orders, NEW m \in DOMAIN freeList'[r], ~(r = ord /\ m = 1)
        PROVE  Apart(blk, ord, freeList'[r][m], r) /\ Apart(freeList'[r][m], r, blk, ord)
    <3>1. PICK n \in DOMAIN freeList[r] : freeList'[r][m] = freeList[r][n]
      BY <1>3, <2>0
    <3>2. Apart(blk, ord, freeList[r][n], r)
      BY <1>1, <3>1 DEF IInv, NoOverlap, CurrentApart
    <3> QED
      BY <3>1, <3>2 DEF Apart
  <2>1. CASE p = ord /\ i = 1
    <3>1. freeList'[p][i] = blk /\ ~(q = ord /\ j = 1)
      BY <1>3, <2>1
    <3> QED
      BY <2>0, <2>1, <3>1
  <2>2. CASE q = ord /\ j = 1
    <3>1. freeList'[q][j] = blk /\ ~(p = ord /\ i = 1)
      BY <1>3, <2>2
    <3> QED
      BY <2>0, <2>2, <3>1
  <2>3. CASE ~(p = ord /\ i = 1) /\ ~(q = ord /\ j = 1)
    <3>1. PICK k \in DOMAIN freeList[p] :
            freeList'[p][i] = freeList[p][k] /\ k = IF p = ord THEN i - 1 ELSE i
      BY <1>3, <2>3
    <3>2. PICK l \in DOMAIN freeList[q] :
            freeList'[q][j] = freeList[q][l] /\ l = IF q = ord THEN j - 1 ELSE j
      BY <1>3, <2>3
    <3>3. p # q \/ k # l
      BY <1>3, <3>1, <3>2
    <3> QED
      BY <3>1, <3>2, <3>3 DEF IInv, NoOverlap, FreeApartFromFree
  <2> QED
    BY <2>1, <2>2, <2>3
<1>7. FreeApartFromUsed' /\ UsedApartFromUsed' /\ CurrentApart'
  <2>1. ASSUME NEW p \in Orders, NEW i \in DOMAIN freeList'[p], NEW a \in DOMAIN header
        PROVE  Apart(freeList'[p][i], p, a, header[a])
    BY <1>1, <1>3, <2>1 DEF IInv, NoOverlap, CurrentApart, FreeApartFromUsed
  <2> QED
    BY <1>1, <2>1
       DEF IInv, NoOverlap, FreeApartFromUsed, UsedApartFromUsed, CurrentApart, Apart
<1> QED
  BY <1>4, <1>5, <1>6, <1>7 DEF IInv, NoOverlap

(* A step that changes none of the block lists, or only what callers hold. *)
LEMMA SameBlocksIInv ==
  ASSUME IInv, UNCHANGED <<freeList, header, pc, blk, ord, target, req>>,
         held' \subseteq held, asked' \in [held' -> Requests]
  PROVE  IInv'
BY DEF IInv, TypeOK, NoOverlap, FreeBlocksInside, UsedBlocksInside, CurrentInside, Inside,
       FreeApartFromFree, FreeApartFromUsed, UsedApartFromUsed, CurrentApart, Apart

LEMMA NextIInv == IInv /\ [Next]_vars => IInv'
<1> SUFFICES ASSUME IInv, [Next]_vars PROVE IInv'
  OBVIOUS
<1>1. ASSUME NEW size \in Requests, MallocEnter(size) PROVE IInv'
  BY <1>1, MallocEnterIInv
<1>2. ASSUME NEW size \in Requests, MallocFail(size) PROVE IInv'
  <2>1. UNCHANGED <<freeList, header, pc, blk, ord, target, req, asked>> /\ held' = held
    BY <1>2 DEF MallocFail, vars, held
  <2> QED
    BY <2>1, SameBlocksIInv DEF IInv, TypeOK
<1>3. CASE Split
  BY <1>3, SplitIInv
<1>4. CASE MallocReturn
  BY <1>4, MallocReturnIInv
<1>5. ASSUME NEW addr \in held, FreeEnter(addr) PROVE IInv'
  BY <1>5, FreeEnterIInv
<1>6. ASSUME NEW addr \in held, FreeRefused(addr) PROVE IInv'
  <2>1. /\ held' = held \ {addr} /\ asked' = Restrict(asked, held')
        /\ UNCHANGED <<freeList, header, pc, blk, ord, target, req>>
    BY <1>6 DEF FreeRefused, held, Restrict
  <2>2. asked' \in [held' -> Requests]
    BY <2>1 DEF IInv, TypeOK, Restrict
  <2> QED
    BY <2>1, <2>2, SameBlocksIInv
<1>7. CASE Coalesce
  BY <1>7, CoalesceIInv
<1>8. CASE FreeReturn
  BY <1>8, FreeReturnIInv
<1>9. CASE UNCHANGED vars
  <2>1. UNCHANGED <<freeList, header, pc, blk, ord, target, req, asked>> /\ held' = held
    BY <1>9 DEF vars, held
  <2> QED
    BY <2>1, SameBlocksIInv DEF IInv, TypeOK
<1> QED
  BY <1>1, <1>2, <1>3, <1>4, <1>5, <1>6, <1>7, <1>8, <1>9 DEF Next

(* The inductive invariant holds of every behaviour of the allocator.      *)
THEOREM Invariance == Spec => []IInv
BY InitIInv, NextIInv, PTL DEF Spec

(* The lists, headers and locals of buddy_malloc and buddy_free keep their *)
(* types: in particular every pointer on a free list is a heap address.    *)
THEOREM TypeCorrect == Spec => []TypeOK
<1>1. IInv => TypeOK
  BY DEF IInv
<1> QED
  BY Invariance, <1>1, PTL

(* No two blocks ever overlap, for every heap address and size, aligned or *)
(* not: buddy_malloc never hands out a byte somebody holds, and buddy_free *)
(* never merges a block with one that is in use.                           *)
THEOREM BlocksNeverOverlap == Spec => []NoOverlap
<1>1. IInv => NoOverlap
  BY DEF IInv
<1> QED
  BY Invariance, <1>1, PTL

-----------------------------------------------------------------------------
(* Refinement.  The block being split was chosen for the request in hand,  *)
(* and every block handed out is long enough for its request and a header: *)
(* neither is in IInv.                                                     *)
ServesRequest ==
  pc = "split" => req \in Requests /\ HasOrder(req) /\ target = TargetOrder(req)
LongEnough ==
  \A a \in held : asked[a] \in Nat /\ asked[a] + HeaderSize <= BlockSize[header[a]]
RInv == ServesRequest /\ LongEnough

(* No caller asks for so much that adding the header twice wraps around.   *)
NoWrap == \A size \in Requests : size + 2 * HeaderSize < WordSize

LEMMA TargetIsBigEnough ==
  ASSUME NoWrap, NEW size \in Requests, HasOrder(size)
  PROVE  /\ TargetOrder(size) \in Orders
         /\ BlockSize[TargetOrder(size)] >= size + HeaderSize
         /\ size \in Nat /\ HeaderSize \in Nat
<1>1. Fitting(size) \in SUBSET Nat /\ Fitting(size) # {}
  BY SizeFacts DEF Fitting, HasOrder
<1>2. TargetOrder(size) \in Fitting(size)
  BY <1>1, MinFacts DEF TargetOrder
<1>3. size \in Nat /\ HeaderSize \in Nat /\ WordSize \in Nat
  BY BuddyConstants
<1>4. AllocSize(size) = size + HeaderSize
  BY <1>3 DEF AllocSize, NoWrap
<1>5. (AllocSize(size) + HeaderSize) % WordSize = size + 2 * HeaderSize
  BY <1>3, <1>4 DEF NoWrap
<1>6. TargetOrder(size) \in Orders /\ BlockSize[TargetOrder(size)] >= size + 2 * HeaderSize
  BY <1>2, <1>5 DEF Fitting
<1>7. BlockSize[TargetOrder(size)] \in Nat
  BY <1>6, SizeFacts
<1> QED
  BY <1>3, <1>6, <1>7

LEMMA MallocReturnRInv ==
  ASSUME IInv, RInv, NoWrap, MallocReturn
  PROVE  RInv'
<1>1. /\ pc = "split" /\ pc' = "idle" /\ held' = held \cup {blk}
      /\ asked' = [b \in held \cup {blk} |-> IF b = blk THEN req ELSE asked[b]]
      /\ header' = [b \in DOMAIN header \cup {blk} |-> IF b = blk THEN target ELSE header[b]]
  BY DEF MallocReturn, Return, held
<1>2. req \in Nat /\ req + HeaderSize <= BlockSize[target]
  <2>1. req \in Requests /\ HasOrder(req) /\ target = TargetOrder(req)
    BY <1>1 DEF RInv, ServesRequest
  <2>2. BlockSize[target] \in Nat
    BY <2>1, TargetIsBigEnough, SizeFacts
  <2> QED
    BY <2>1, <2>2, TargetIsBigEnough
<1>3. ASSUME NEW a \in held'
      PROVE  asked'[a] \in Nat /\ asked'[a] + HeaderSize <= BlockSize[header'[a]]
  <2>1. CASE a = blk
    BY <1>1, <1>2, <2>1
  <2>2. CASE a # blk
    <3>1. a \in held /\ a \in DOMAIN header
      BY <1>1, <1>3, <2>2 DEF IInv, TypeOK
    <3>2. asked'[a] = asked[a] /\ header'[a] = header[a]
      BY <1>1, <2>2, <3>1
    <3> QED
      BY <3>1, <3>2 DEF RInv, LongEnough
  <2> QED
    BY <2>1, <2>2
<1> QED
  BY <1>1, <1>3 DEF RInv, ServesRequest, LongEnough

LEMMA NextRInv == NoWrap /\ IInv /\ RInv /\ [Next]_vars => RInv'
<1> SUFFICES ASSUME NoWrap, IInv, RInv, [Next]_vars PROVE RInv'
  OBVIOUS
<1>1. CASE MallocReturn
  BY <1>1, MallocReturnRInv
<1>2. ASSUME UNCHANGED <<asked, header>> PROVE LongEnough'
  BY <1>2 DEF RInv, LongEnough, held
<1>3. ASSUME NEW addr \in held, asked' = Restrict(asked, held \ {addr}),
             \/ header' = header
             \/ header' = Restrict(header, DOMAIN header \ {addr})
      PROVE  LongEnough'
  <2>1. held' = held \ {addr} /\ held' \subseteq DOMAIN header
    BY <1>3 DEF held, Restrict, IInv, TypeOK
  <2>2. \A a \in held' : asked'[a] = asked[a] /\ header'[a] = header[a]
    BY <1>3, <2>1 DEF Restrict
  <2> QED
    BY <2>1, <2>2 DEF RInv, LongEnough
<1>4. ASSUME NEW size \in Requests, MallocEnter(size) PROVE ServesRequest'
  BY <1>4 DEF MallocEnter, ServesRequest, HasOrder, TargetOrder, Fitting, AllocSize
<1>5. ASSUME UNCHANGED <<pc, target, req>> PROVE ServesRequest'
  BY <1>5 DEF RInv, ServesRequest, HasOrder, TargetOrder, Fitting, AllocSize
<1>6. ASSUME pc' # "split" PROVE ServesRequest'
  BY <1>6 DEF ServesRequest
<1>7. ~MallocReturn => LongEnough'
  BY <1>2, <1>3
     DEF Next, vars, MallocEnter, MallocFail, Split, FreeEnter, FreeRefused, Coalesce, FreeReturn
<1>8. ~MallocReturn => ServesRequest'
  BY <1>4, <1>5, <1>6
     DEF Next, vars, MallocFail, Split, FreeEnter, FreeRefused, Coalesce, FreeReturn, Return
<1> QED
  BY <1>1, <1>7, <1>8 DEF RInv

(* As long as no request wraps around, every block handed out is long      *)
(* enough for what its caller asked for.                                   *)
LEMMA RInvariance == NoWrap => (Spec => []RInv)
<1> SUFFICES ASSUME NoWrap PROVE Spec => []RInv
  OBVIOUS
<1>1. Init => RInv
  BY DEF Init, RInv, ServesRequest, LongEnough, held
<1>2. IInv /\ RInv /\ [Next]_vars => RInv'
  BY NextRInv
<1> QED
  BY <1>1, <1>2, Invariance, PTL DEF Spec

(* What the callers of two blocks asked for is apart when the blocks are.  *)
LEMMA RegionsApart ==
  ASSUME NEW a \in Nat, NEW b \in Nat, NEW o \in Orders, NEW p \in Orders,
         NEW m \in Nat, NEW n \in Nat,
         m + HeaderSize <= BlockSize[o], n + HeaderSize <= BlockSize[p],
         Apart(a, o, b, p)
  PROVE  Region!Apart(a + HeaderSize, m, b + HeaderSize, n)
BY SizeFacts, BuddyConstants DEF Apart, Region!Apart

LEMMA MallocReturnRefines ==
  ASSUME IInv, RInv, NoWrap, MallocReturn
  PROVE  Region!Next
<1>1. /\ pc = "split" /\ held' = held \cup {blk}
      /\ asked' = [b \in held \cup {blk} |-> IF b = blk THEN req ELSE asked[b]]
  BY DEF MallocReturn, held
<1>2. ord = target /\ ord \in Orders /\ blk \in Addresses /\ held \subseteq DOMAIN header
      /\ DOMAIN header \subseteq Nat
      /\ \A a \in DOMAIN header : header[a] \in Orders
  BY <1>1, SizeFacts DEF IInv, TypeOK, MallocReturn
<1>3. req \in Requests /\ HasOrder(req) /\ target = TargetOrder(req)
  BY <1>1 DEF RInv, ServesRequest
<1>4. /\ BlockSize[ord] >= req + HeaderSize /\ req \in Nat /\ req # 0
      /\ HeaderSize \in Nat /\ BlockSize[ord] \in Nat /\ blk \in Nat
      /\ HeapBase \in Nat /\ HeapEnd \in Nat /\ blk >= HeapBase
      /\ blk + BlockSize[ord] <= HeapEnd
  <2>1. Inside(blk, ord)
    BY <1>1 DEF IInv, NoOverlap, CurrentInside
  <2> QED
    BY <1>2, <1>3, <2>1, TargetIsBigEnough, SizeFacts, BuddyConstants DEF Inside, HasOrder
<1>5. \A b \in DOMAIN header : Apart(blk, ord, b, header[b])
  BY <1>1 DEF IInv, NoOverlap, CurrentApart
<1>6. blk \notin DOMAIN header
  <2> SUFFICES ASSUME blk \in DOMAIN header PROVE FALSE
    OBVIOUS
  <2>1. Apart(blk, ord, blk, header[blk]) /\ BlockSize[header[blk]] \in Nat \ {0}
        /\ BlockSize[ord] \in Nat \ {0}
    BY <1>2, <1>5, SizeFacts
  <2> QED
    BY <1>4, <2>1 DEF Apart
<1> DEFINE p == blk + HeaderSize
<1>7. p \in HeapBase .. HeapEnd - 1 /\ p + req <= HeapEnd
  BY <1>2, <1>4
<1>8. DOMAIN UserRegions = {a + HeaderSize : a \in held}
  BY DEF UserRegions
<1>9. \A b \in DOMAIN UserRegions : \E a \in held :
        b = a + HeaderSize /\ b - HeaderSize = a /\ UserRegions[b] = asked[a]
  BY <1>2, <1>4 DEF UserRegions
<1>10. p \notin DOMAIN UserRegions
  BY <1>2, <1>4, <1>6, <1>9
<1>11. \A b \in DOMAIN UserRegions : Region!Apart(p, req, b, UserRegions[b])
  <2> SUFFICES ASSUME NEW b \in DOMAIN UserRegions
               PROVE  Region!Apart(p, req, b, UserRegions[b])
    OBVIOUS
  <2>1. PICK a \in held : b = a + HeaderSize /\ UserRegions[b] = asked[a]
    BY <1>9
  <2>2. asked[a] \in Nat /\ asked[a] + HeaderSize <= BlockSize[header[a]]
    BY <2>1 DEF RInv, LongEnough
  <2>3. a \in Nat /\ header[a] \in Orders /\ Apart(blk, ord, a, header[a])
    BY <1>2, <1>5, <2>1
  <2> QED
    BY <1>2, <1>4, <2>1, <2>2, <2>3, RegionsApart
<1>12. UserRegions' = [b \in DOMAIN UserRegions \cup {p} |->
                         IF b = p THEN req ELSE UserRegions[b]]
  <2>1. {a + HeaderSize : a \in held'} = DOMAIN UserRegions \cup {p}
    BY <1>1, <1>8
  <2>2. ASSUME NEW b \in DOMAIN UserRegions \cup {p}
        PROVE  asked'[b - HeaderSize] = IF b = p THEN req ELSE UserRegions[b]
    <3>1. CASE b = p
      <4>1. b - HeaderSize = blk
        BY <1>4, <3>1
      <4> QED
        BY <1>1, <1>2, <3>1, <4>1
    <3>2. CASE b # p
      <4>1. PICK a \in held : b - HeaderSize = a /\ UserRegions[b] = asked[a]
        BY <1>9, <3>2
      <4>2. asked'[a] = asked[a]
        BY <1>1, <1>2, <1>6
      <4> QED
        BY <3>2, <4>1, <4>2
    <3> QED
      BY <3>1, <3>2
  <2> QED
    BY <2>1, <2>2, Zenon DEF UserRegions
<1> HIDE DEF p
<1>13. Region!Alloc(req)
  BY <1>7, <1>10, <1>11, <1>12 DEF Region!Alloc
<1> QED
  BY <1>3, <1>13 DEF Region!Next

(* buddy_free takes its region away from the caller, accepted or refused.  *)
LEMMA FreeRefines ==
  ASSUME IInv, NEW addr \in held, asked' = Restrict(asked, held \ {addr})
  PROVE  Region!Next
<1>1. held \subseteq Nat /\ HeaderSize \in Nat
  BY SizeFacts, BuddyConstants DEF IInv, TypeOK
<1>2. held' = held \ {addr} /\ \A a \in held' : asked'[a] = asked[a]
  BY DEF held, Restrict
<1> DEFINE p == addr + HeaderSize
<1>3. DOMAIN UserRegions = {a + HeaderSize : a \in held} /\ p \in DOMAIN UserRegions
  BY DEF UserRegions
<1>4. {a + HeaderSize : a \in held'} = DOMAIN UserRegions \ {p}
  BY <1>1, <1>2, <1>3
<1>5. ASSUME NEW b \in DOMAIN UserRegions \ {p}
      PROVE  asked'[b - HeaderSize] = UserRegions[b]
  <2>1. b \in {a + HeaderSize : a \in held'}
    BY <1>4, <1>5
  <2>2. b - HeaderSize \in held'
    BY <1>1, <1>2, <2>1
  <2> QED
    BY <1>2, <1>3, <1>5, <2>2 DEF UserRegions
<1>6. UserRegions' = [b \in DOMAIN UserRegions \ {p} |-> UserRegions[b]]
  BY <1>4, <1>5, Zenon DEF UserRegions
<1>7. Region!Release(p)
  BY <1>3, <1>6 DEF Region!Release
<1> QED
  BY <1>3, <1>7 DEF Region!Next

LEMMA NextRefines ==
  NoWrap /\ IInv /\ RInv /\ [Next]_vars => Region!Next \/ UNCHANGED UserRegions
<1> SUFFICES ASSUME NoWrap, IInv, RInv, [Next]_vars
             PROVE  Region!Next \/ UNCHANGED UserRegions
  OBVIOUS
<1>1. CASE MallocReturn
  BY <1>1, MallocReturnRefines
<1>2. ASSUME NEW addr \in held, FreeEnter(addr) PROVE Region!Next
  BY <1>2, FreeRefines DEF FreeEnter
<1>3. ASSUME NEW addr \in held, FreeRefused(addr) PROVE Region!Next
  BY <1>3, FreeRefines DEF FreeRefused
<1>4. CASE UNCHANGED asked
  BY <1>4 DEF UserRegions, held
<1> QED
  BY <1>1, <1>2, <1>3, <1>4
     DEF Next, vars, MallocEnter, MallocFail, Split, Coalesce, FreeReturn

(* For every heap address, aligned or not, and as long as no request wraps *)
(* around, callers see a RegionAlloc: the memory behind each pointer is as *)
(* long as was asked for and disjoint from everybody else's.               *)
THEOREM Refinement == NoWrap => (Spec => ImplementsRegionAlloc)
<1> SUFFICES ASSUME NoWrap PROVE Spec => ImplementsRegionAlloc
  OBVIOUS
<1>1. Init => Region!Init
  <2> SUFFICES ASSUME Init PROVE UserRegions = << >>
    BY DEF Region!Init
  <2>1. held = {}
    BY DEF Init, held
  <2>2. UserRegions = [p \in {} |-> asked[p - HeaderSize]]
    BY <2>1 DEF UserRegions
  <2>3. {} = 1 .. 0
    OBVIOUS
  <2> QED
    BY <2>2, <2>3
<1>2. IInv /\ RInv /\ [Next]_vars => [Region!Next]_UserRegions
  BY NextRefines
<1> QED
  BY <1>1, <1>2, Invariance, RInvariance, PTL
     DEF Spec, ImplementsRegionAlloc, Region!Spec

-----------------------------------------------------------------------------
(***************************************************************************)
(* What becomes of the memory of the heap.  Splitting and merging lose no  *)
(* byte of it, wherever it starts.  When it starts at a multiple of its    *)
(* own size every block is at a multiple of its size too, and from that    *)
(* follow the other three: nothing handed out is refused by buddy_free, no *)
(* two halves stay on a list side by side, and with all given back the     *)
(* heap is one block again.                                                *)
(***************************************************************************)

Listed(a, o) == a \in ToSet(freeList[o])

LEMMA ListedFacts ==
  ASSUME freeList \in [Orders -> Seq(Addresses)], NEW o \in Orders
  PROVE  /\ \A a : Listed(a, o) <=> \E i \in DOMAIN freeList[o] : freeList[o][i] = a
         /\ \A a : Listed(a, o) => a \in Addresses
<1>1. \A i \in DOMAIN freeList[o] : freeList[o][i] \in Addresses
  BY EntryFacts
<1> QED
  BY <1>1 DEF Listed, ToSet

(* What the steps of the allocator do to the lists, as sets of blocks.     *)
LEMMA PushListed ==
  ASSUME freeList \in [Orders -> Seq(Addresses)], NEW o \in Orders,
         NEW addr \in Addresses, Push(o, addr)
  PROVE  \A p \in Orders : \A a : Listed(a, p)' <=> Listed(a, p) \/ (p = o /\ a = addr)
<1>1. /\ freeList'[o] = <<addr>> \o freeList[o]
      /\ \A p \in Orders : p # o => freeList'[p] = freeList[p]
  BY DEF Push
<1>2. ToSet(freeList'[o]) = ToSet(freeList[o]) \cup {addr}
  BY <1>1, PushSet
<1> QED
  BY <1>1, <1>2 DEF Listed

LEMMA EnterListed ==
  ASSUME IInv, NEW size \in Requests, MallocEnter(size)
  PROVE  /\ ord' \in Orders
         /\ \A p \in Orders : \A a : Listed(a, p) <=> Listed(a, p)' \/ (p = ord' /\ a = blk')
<1> DEFINE found == Min(NonEmptyFrom(TargetOrder(size)))
<1>1. /\ freeList \in [Orders -> Seq(Addresses)]
      /\ found \in Orders /\ freeList[found] # <<>> /\ freeList[found] \in Seq(Addresses)
  BY OrderOfMalloc DEF IInv, TypeOK, MallocEnter
<1>2. /\ ord' = found /\ blk' = Head(freeList[found])
      /\ freeList' = [freeList EXCEPT ![found] = Tail(@)]
  BY DEF MallocEnter
<1> HIDE DEF found
<1>3. ToSet(freeList[found]) = ToSet(Tail(freeList[found])) \cup {Head(freeList[found])}
  BY <1>1, TailSet
<1> QED
  BY <1>1, <1>2, <1>3 DEF Listed

LEMMA CoalesceListed ==
  ASSUME IInv, Coalesce
  PROVE  /\ ord \in Orders /\ ord + 1 \in Orders /\ Listed(Buddy(blk, ord), ord)
         /\ \A p \in Orders : \A a :
              Listed(a, p) <=> Listed(a, p)' \/ (p = ord /\ a = Buddy(blk, ord))
<1>1. PICK i \in DOMAIN freeList[ord] :
        /\ freeList[ord][i] = Buddy(blk, ord)
        /\ freeList' = [freeList EXCEPT ![ord] = RemoveAt(@, i)]
  BY DEF Coalesce
<1>2. freeList \in [Orders -> Seq(Addresses)] /\ ord \in Orders /\ ord < MaxOrder
  BY DEF IInv, TypeOK, Coalesce
<1>3. i \in 1 .. Len(freeList[ord]) /\ freeList[ord] \in Seq(Addresses)
  BY <1>1, <1>2
<1>4. ToSet(freeList[ord]) = ToSet(RemoveAt(freeList[ord], i)) \cup {freeList[ord][i]}
  BY <1>3, RemoveAtSet
<1>5. ord + 1 \in Orders
  BY <1>2, BuddyConstants DEF Orders
<1> QED
  BY <1>1, <1>2, <1>4, <1>5 DEF Listed

-----------------------------------------------------------------------------
(* No byte is lost.                                                        *)
Covered(x) ==
  \/ \E o \in Orders : \E a \in Addresses : Listed(a, o) /\ Within(x, a, o)
  \/ \E a \in DOMAIN header : Within(x, a, header[a])
  \/ pc # "idle" /\ Within(x, blk, ord)

LEMMA CoverageFacts ==
  ASSUME IInv
  PROVE  Coverage <=> \A x \in Addresses : Covered(x)
<1>1. freeList \in [Orders -> Seq(Addresses)]
  BY DEF IInv, TypeOK
<1>2. ASSUME NEW x
      PROVE  (\E o \in Orders : \E i \in DOMAIN freeList[o] : Within(x, freeList[o][i], o))
             <=> \E o \in Orders : \E a \in Addresses : Listed(a, o) /\ Within(x, a, o)
  BY <1>1, ListedFacts, Zenon
<1> QED
  BY <1>2, Zenon DEF Coverage, Covered

(* A byte of a block that is split is in one of its halves.                *)
LEMMA SplitCovers ==
  ASSUME IInv, Split, NEW x \in Addresses, Covered(x)
  PROVE  Covered(x)'
<1> DEFINE o == ord - 1
           up == blk + BlockSize[ord - 1]
<1>1. /\ pc = "split" /\ pc' = pc /\ ord' = o /\ blk' = blk /\ header' = header /\ Push(o, up)
      /\ ord > target
  BY DEF Split
<1>2. /\ ord \in Orders /\ o \in Orders /\ target \in Orders
      /\ blk \in Addresses /\ freeList \in [Orders -> Seq(Addresses)]
  BY <1>1, SizeFacts, BuddyConstants DEF IInv, TypeOK, Orders
<1>3. BlockSize[ord] = 2 * BlockSize[o]
  <2>1. o + 1 = ord
    BY <1>2, SizeFacts
  <2> QED
    BY <1>2, <2>1, BlockSizes
<1>4. /\ BlockSize[o] \in Nat \ {0} /\ blk \in Nat /\ x \in Nat
      /\ up = blk + BlockSize[o] /\ blk + 2 * BlockSize[o] <= HeapEnd
  <2>1. blk \in Nat /\ BlockSize[o] \in Nat \ {0} /\ x \in Nat
    BY <1>2, SizeFacts
  <2>2. Inside(blk, ord)
    BY <1>1 DEF IInv, NoOverlap, CurrentInside
  <2> QED
    BY <1>3, <2>1, <2>2 DEF Inside
<1> HIDE DEF o, up
<1>5. up \in Addresses
  <2>1. blk >= HeapBase /\ HeapBase \in Nat /\ HeapEnd \in Nat
    BY <1>2, SizeFacts DEF Addresses
  <2>2. up \in Nat /\ up >= HeapBase /\ up < HeapEnd
    BY <1>4, <2>1
  <2> QED
    BY <2>1, <2>2 DEF Addresses
<1>6. \A p \in Orders : \A a : Listed(a, p)' <=> Listed(a, p) \/ (p = o /\ a = up)
  BY <1>1, <1>2, <1>5, PushListed
<1>7. ASSUME Within(x, blk, ord) PROVE Within(x, blk, o) \/ Within(x, up, o)
  BY <1>3, <1>4, <1>7 DEF Within
<1>8. Addresses' = Addresses /\ \A a, p : Within(x, a, p)' <=> Within(x, a, p)
  BY DEF Within
<1>9. CASE Within(x, blk, ord)
  BY <1>1, <1>2, <1>5, <1>6, <1>7, <1>9 DEF Covered, Within
<1>10. CASE \E a \in DOMAIN header : Within(x, a, header[a])
  BY <1>1, <1>10 DEF Covered, Within
<1>11. ASSUME NEW p \in Orders, NEW a \in Addresses, Listed(a, p), Within(x, a, p)
       PROVE  Covered(x)'
  BY <1>6, <1>11 DEF Covered, Within
<1> QED
  BY <1>9, <1>10, <1>11 DEF Covered

(* The two halves that buddy_free merges are the merged block.             *)
LEMMA BuddyBeside ==
  ASSUME NEW a \in Nat, NEW o \in Orders
  PROVE  Buddy(a, o) = a + BlockSize[o] \/ Buddy(a, o) = a - BlockSize[o]
BY DEF Buddy

LEMMA CoalesceCovers ==
  ASSUME IInv, Coalesce, NEW x \in Addresses, Covered(x)
  PROVE  Covered(x)'
<1> DEFINE half == Buddy(blk, ord)
<1>1. /\ pc = "coalesce" /\ pc' = pc /\ ord' = ord + 1 /\ header' = header
      /\ blk' = IF blk <= half THEN blk ELSE half
  BY DEF Coalesce
<1>2. /\ ord \in Orders /\ ord + 1 \in Orders /\ Listed(half, ord)
      /\ \A p \in Orders : \A a : Listed(a, p) <=> Listed(a, p)' \/ (p = ord /\ a = half)
  BY CoalesceListed
<1>3. blk \in Addresses /\ freeList \in [Orders -> Seq(Addresses)]
  BY <1>1 DEF IInv, TypeOK
<1>4. half \in Addresses
  BY <1>2, <1>3, ListedFacts
<1>5. /\ BlockSize[ord] \in Nat \ {0} /\ blk \in Nat /\ half \in Nat /\ x \in Nat
      /\ BlockSize[ord + 1] = 2 * BlockSize[ord]
      /\ half = blk + BlockSize[ord] \/ half = blk - BlockSize[ord]
  BY <1>2, <1>3, <1>4, SizeFacts, BlockSizes, BuddyBeside
<1> HIDE DEF half
<1>6. ASSUME Within(x, blk, ord) \/ Within(x, half, ord)
      PROVE  Within(x, blk', ord + 1)
  BY <1>1, <1>5, <1>6 DEF Within
<1>7. ASSUME Within(x, blk', ord + 1) PROVE Covered(x)'
  BY <1>1, <1>7 DEF Covered, Within
<1>8. CASE Within(x, blk, ord)
  BY <1>6, <1>7, <1>8
<1>9. CASE \E a \in DOMAIN header : Within(x, a, header[a])
  BY <1>1, <1>9 DEF Covered, Within
<1>10. ASSUME NEW p \in Orders, NEW a \in Addresses, Listed(a, p), Within(x, a, p)
       PROVE  Covered(x)'
  <2>1. CASE p = ord /\ a = half
    BY <1>6, <1>7, <1>10, <2>1
  <2>2. CASE Listed(a, p)'
    BY <1>10, <2>2 DEF Covered, Within
  <2> QED
    BY <1>2, <1>10, <2>1, <2>2
<1> QED
  BY <1>8, <1>9, <1>10 DEF Covered

LEMMA NextCoverage == IInv /\ Coverage /\ [Next]_vars => Coverage'
<1> SUFFICES ASSUME IInv, Coverage, [Next]_vars PROVE Coverage'
  OBVIOUS
<1>1. freeList \in [Orders -> Seq(Addresses)] /\ IInv'
  BY NextIInv DEF IInv, TypeOK
<1> SUFFICES ASSUME NEW x \in Addresses PROVE Covered(x)'
  <2>1. Coverage' <=> (\A x \in Addresses : Covered(x))'
    BY <1>1, CoverageFacts, PTL
  <2> QED
    BY <2>1
<1>2. Covered(x)
  BY CoverageFacts
<1>3. ASSUME NEW size \in Requests, MallocEnter(size) PROVE Covered(x)'
  <2>1. /\ ord' \in Orders
        /\ \A p \in Orders : \A a : Listed(a, p) <=> Listed(a, p)' \/ (p = ord' /\ a = blk')
    BY <1>3, EnterListed
  <2>2. pc = "idle" /\ pc' = "split" /\ header' = header
    BY <1>3 DEF MallocEnter
  <2> QED
    BY <1>2, <2>1, <2>2 DEF Covered, Within
<1>4. CASE Split
  BY <1>2, <1>4, SplitCovers
<1>5. CASE MallocReturn
  <2>1. /\ pc = "split" /\ ord = target /\ freeList' = freeList
        /\ header' = [b \in DOMAIN header \cup {blk} |-> IF b = blk THEN target ELSE header[b]]
    <3>1. pc = "split" /\ ord <= target
      BY <1>5 DEF MallocReturn
    <3>2. ord \in Nat /\ target \in Nat /\ target <= ord
      BY <3>1, SizeFacts DEF IInv, TypeOK
    <3> QED
      BY <1>5, <3>1, <3>2 DEF MallocReturn
  <2>2. blk \notin DOMAIN header
    <3> SUFFICES ASSUME blk \in DOMAIN header PROVE FALSE
      OBVIOUS
    <3>1. Apart(blk, ord, blk, header[blk])
      BY <2>1 DEF IInv, NoOverlap, CurrentApart
    <3>2. blk \in Nat /\ ord \in Orders /\ header[blk] \in Orders
      BY <2>1, SizeFacts DEF IInv, TypeOK
    <3>3. BlockSize[ord] \in Nat \ {0} /\ BlockSize[header[blk]] \in Nat \ {0}
      BY <3>2, SizeFacts
    <3> QED
      BY <3>1, <3>2, <3>3 DEF Apart
  <2>3. CASE Within(x, blk, ord)
    <3>1. blk \in DOMAIN header' /\ header'[blk] = ord
      BY <2>1
    <3> QED
      BY <2>3, <3>1 DEF Covered, Within
  <2>4. ASSUME NEW a \in DOMAIN header, Within(x, a, header[a]) PROVE Covered(x)'
    <3>1. a \in DOMAIN header' /\ header'[a] = header[a]
      BY <2>1, <2>2
    <3> QED
      BY <2>4, <3>1 DEF Covered, Within
  <2>5. CASE \E o \in Orders : \E a \in Addresses : Listed(a, o) /\ Within(x, a, o)
    BY <2>1, <2>5 DEF Covered, Within, Listed
  <2> QED
    BY <1>2, <2>3, <2>4, <2>5 DEF Covered
<1>6. ASSUME NEW addr \in held, FreeEnter(addr) PROVE Covered(x)'
  <2>1. /\ header' = Restrict(header, DOMAIN header \ {addr})
        /\ pc = "idle" /\ pc' = "coalesce" /\ blk' = addr /\ ord' = header[addr]
        /\ freeList' = freeList
    BY <1>6 DEF FreeEnter
  <2>2. /\ DOMAIN header' = DOMAIN header \ {addr}
        /\ \A a \in DOMAIN header' : header'[a] = header[a]
    BY <2>1 DEF Restrict
  <2> QED
    BY <1>2, <2>1, <2>2 DEF Covered, Within, Listed
<1>7. CASE Coalesce
  BY <1>2, <1>7, CoalesceCovers
<1>8. CASE FreeReturn
  <2>1. pc = "coalesce" /\ Push(ord, blk) /\ header' = header
    BY <1>8 DEF FreeReturn
  <2>2. blk \in Addresses /\ ord \in Orders
    BY <2>1 DEF IInv, TypeOK
  <2>3. \A p \in Orders : \A a : Listed(a, p)' <=> Listed(a, p) \/ (p = ord /\ a = blk)
    BY <1>1, <2>1, <2>2, PushListed
  <2> QED
    BY <1>2, <2>1, <2>2, <2>3 DEF Covered, Within
<1>9. CASE UNCHANGED <<freeList, header, pc, blk, ord>>
  BY <1>2, <1>9 DEF Covered, Within, Listed
<1> QED
  BY <1>3, <1>4, <1>5, <1>6, <1>7, <1>8, <1>9 DEF Next, vars, MallocFail, FreeRefused

(* Wherever the heap starts, every byte of it belongs to a block on a      *)
(* list, to a block off the lists or to the block of the call in progress: *)
(* the loops of buddy_malloc and buddy_free lose nothing.                  *)
THEOREM NoByteLost == Spec => []Coverage
<1>1. Init => Coverage
  <2> SUFFICES ASSUME Init, NEW x \in Addresses
               PROVE  \E o \in Orders : \E i \in DOMAIN freeList[o] : Within(x, freeList[o][i], o)
    BY DEF Coverage
  <2>1. MaxOrder \in Orders /\ freeList[MaxOrder] = <<HeapBase>>
    BY SizeFacts DEF Init
  <2>2. 1 \in DOMAIN freeList[MaxOrder] /\ freeList[MaxOrder][1] = HeapBase
    BY <2>1
  <2>3. Within(x, HeapBase, MaxOrder)
    BY SizeFacts DEF Within, Addresses, HeapEnd
  <2> QED
    BY <2>1, <2>2, <2>3
<1> QED
  BY <1>1, NextCoverage, Invariance, PTL DEF Spec
-----------------------------------------------------------------------------
(* A heap that starts at a multiple of its size.                           *)
Aligned == HeapBase % BlockSize[MaxOrder] = 0

BlocksAligned ==
  /\ \A o \in Orders : \A a \in Addresses : Listed(a, o) => a % BlockSize[o] = 0
  /\ \A a \in DOMAIN header : a % BlockSize[header[a]] = 0
  /\ pc # "idle" => blk % BlockSize[ord] = 0

NoPairs ==
  \A o \in Orders \ {MaxOrder} : \A a \in Addresses : Listed(a, o) => ~Listed(Buddy(a, o), o)

AInv == BlocksAligned /\ NoPairs /\ DOMAIN header = held

(* The size of a block is a multiple of all smaller sizes. *)
LEMMA SizesDivide ==
  ASSUME NEW o \in Orders, NEW p \in Orders, o <= p
  PROVE  Multiple(BlockSize[p], BlockSize[o])
<1> DEFINE Bad == {d \in Nat : o + d \in Orders /\ ~Multiple(BlockSize[o + d], BlockSize[o])}
<1>1. o \in Nat /\ p \in Nat /\ p - o \in Nat /\ o + (p - o) = p
  BY SizeFacts
<1>2. Bad = {}
  <2> SUFFICES ASSUME Bad # {} PROVE FALSE
    OBVIOUS
  <2>1. Bad \in SUBSET Nat
    OBVIOUS
  <2> DEFINE d == Min(Bad)
  <2>2. d \in Bad /\ \A e \in Bad : d <= e
    BY <2>1, MinFacts
  <2> HIDE DEF d
  <2>3. BlockSize[o] \in Nat \ {0} /\ o + 0 = o
    BY <1>1, SizeFacts
  <2>4. CASE d = 0
    <3>1. Multiple(BlockSize[o], BlockSize[o])
      BY <2>3, MultipleOfItself
    <3> QED
      BY <2>2, <2>3, <2>4, <3>1
  <2>5. CASE d # 0
    <3>1. d - 1 \in Nat /\ d - 1 \notin Bad
      BY <2>2, <2>5
    <3>2. o + (d - 1) \in Orders /\ (o + (d - 1)) + 1 = o + d
      BY <1>1, <2>2, <2>5, BuddyConstants DEF Orders
    <3>3. Multiple(BlockSize[o + (d - 1)], BlockSize[o])
      BY <3>1, <3>2
    <3>4. BlockSize[o + d] = 2 * BlockSize[o + (d - 1)]
      BY <2>2, <3>2, BlockSizes
    <3>5. BlockSize[o + d] \in Int /\ BlockSize[o + (d - 1)] \in Int
      BY <2>2, <3>2, SizeFacts
    <3>6. Multiple(BlockSize[o + d], BlockSize[o + (d - 1)])
      BY <3>4 DEF Multiple
    <3>7. Multiple(BlockSize[o + d], BlockSize[o])
      BY <2>3, <3>3, <3>5, <3>6, MultiplesCompose
    <3> QED
      BY <2>2, <3>7
  <2> QED
    BY <2>4, <2>5
<1>3. p - o \notin Bad
  BY <1>2
<1> QED
  BY <1>1, <1>3

(* So both ends of an aligned heap are multiples of every size. *)
LEMMA EndsAligned ==
  ASSUME Aligned, NEW o \in Orders
  PROVE  Multiple(HeapBase, BlockSize[o]) /\ Multiple(HeapEnd, BlockSize[o])
<1>1. /\ MaxOrder \in Orders /\ o <= MaxOrder /\ HeapBase \in Nat
      /\ BlockSize[MaxOrder] \in Nat \ {0} /\ BlockSize[o] \in Nat \ {0}
  BY SizeFacts, BuddyConstants DEF Orders
<1>2. Multiple(HeapBase, BlockSize[MaxOrder]) /\ Multiple(BlockSize[MaxOrder], BlockSize[o])
  BY <1>1, MultipleOfRemainder, SizesDivide DEF Aligned
<1>3. Multiple(HeapBase, BlockSize[o])
  BY <1>1, <1>2, MultiplesCompose
<1> QED
  BY <1>1, <1>2, <1>3, MultiplesAdd DEF HeapEnd

(* Each of the two halves of a block is the buddy of the other, and the    *)
(* lower is where the block is.                                            *)
LEMMA BuddyFacts ==
  ASSUME NEW a \in Nat, NEW o \in Orders, Multiple(a, BlockSize[o])
  PROVE  LET n == BlockSize[o]
             b == Buddy(a, o)
         IN  /\ Multiple(b, n) /\ Buddy(b, o) = a
             /\ \/ b = a + n /\ Multiple(a, 2 * n)
                \/ b = a - n /\ Multiple(b, 2 * n)
<1> DEFINE n == BlockSize[o]
           b == Buddy(a, o)
<1>1. n \in Nat \ {0} /\ 2 * n \in Nat \ {0} /\ a \in Int /\ Multiple(a, n)
  BY SizeFacts
<1>4. b = IF (a \div n) % 2 = 0 THEN a + n ELSE a - n
  BY DEF Buddy
<1>5. Buddy(b, o) = IF (b \div n) % 2 = 0 THEN b + n ELSE b - n
  BY DEF Buddy
<1> HIDE DEF n, b
<1>2. /\ (a \div n) % 2 = 0 => Multiple(a, 2 * n)
      /\ (a \div n) % 2 # 0 => Multiple(a - n, 2 * n)
      /\ ((a + n) \div n) % 2 = 0 <=> (a \div n) % 2 # 0
      /\ ((a - n) \div n) % 2 = 0 <=> (a \div n) % 2 # 0
  BY <1>1, MultipleOfDouble, Zenon
<1>3. Multiple(n, n) /\ Multiple(a + n, n) /\ Multiple(a - n, n)
  <2>1. Multiple(n, n)
    BY <1>1, MultipleOfItself
  <2> QED
    BY <1>1, <2>1, MultiplesAdd
<1>6. CASE (a \div n) % 2 = 0
  <2>1. b = a + n /\ Buddy(b, o) = b - n
    BY <1>2, <1>4, <1>5, <1>6
  <2> QED
    BY <1>1, <1>2, <1>3, <1>6, <2>1 DEF n, b
<1>7. CASE (a \div n) % 2 # 0
  <2>1. b = a - n /\ Buddy(b, o) = b + n
    BY <1>2, <1>4, <1>5, <1>7
  <2> QED
    BY <1>1, <1>2, <1>3, <1>7, <2>1 DEF n, b
<1> QED
  BY <1>6, <1>7

(* BlocksAligned, in terms of multiples. *)
OnMultiples ==
  /\ \A o \in Orders : \A a \in Addresses : Listed(a, o) => Multiple(a, BlockSize[o])
  /\ \A a \in DOMAIN header : Multiple(a, BlockSize[header[a]])
  /\ pc # "idle" => Multiple(blk, BlockSize[ord])

LEMMA AlignedFacts ==
  ASSUME IInv
  PROVE  BlocksAligned <=> OnMultiples
<1>1. \A a \in Nat, o \in Orders : a % BlockSize[o] = 0 <=> Multiple(a, BlockSize[o])
  BY SizeFacts, MultipleOfRemainder
<1>2. /\ Addresses \subseteq Nat /\ DOMAIN header \subseteq Addresses
      /\ \A a \in DOMAIN header : header[a] \in Orders
      /\ pc # "idle" => blk \in Addresses /\ ord \in Orders
  BY SizeFacts DEF IInv, TypeOK
<1> QED
  BY <1>1, <1>2 DEF BlocksAligned, OnMultiples

-----------------------------------------------------------------------------
(* The alignment of the blocks is kept by every step. *)
LEMMA SplitAligned ==
  ASSUME IInv, AInv, Aligned, Split
  PROVE  BlocksAligned' /\ NoPairs'
<1> DEFINE o == ord - 1
           up == blk + BlockSize[ord - 1]
<1>1. /\ pc = "split" /\ pc' = pc /\ ord' = o /\ blk' = blk /\ header' = header /\ Push(o, up)
      /\ ord > target
  BY DEF Split
<1>2. /\ ord \in Orders /\ o \in Orders /\ target \in Orders /\ o + 1 = ord
      /\ blk \in Addresses /\ freeList \in [Orders -> Seq(Addresses)]
  BY <1>1, SizeFacts, BuddyConstants DEF IInv, TypeOK, Orders
<1>3. BlockSize[ord] = 2 * BlockSize[o]
  BY <1>2, BlockSizes
<1>4. BlockSize[o] \in Nat \ {0} /\ blk \in Nat
  BY <1>2, SizeFacts
<1>5. up \in Addresses /\ up = blk + BlockSize[o]
  <2>1. blk + BlockSize[ord] <= HeapEnd /\ HeapBase <= blk /\ HeapBase \in Nat /\ HeapEnd \in Nat
    BY <1>1, <1>2, SizeFacts DEF IInv, NoOverlap, CurrentInside, Inside, Addresses
  <2>2. up = blk + BlockSize[o]
    OBVIOUS
  <2> HIDE DEF o, up
  <2>3. up \in Nat /\ HeapBase <= up /\ up < HeapEnd
    BY <1>3, <1>4, <2>1, <2>2
  <2> QED
    BY <2>1, <2>2, <2>3 DEF Addresses
<1> HIDE DEF o, up
<1>6. \A p \in Orders : \A a : Listed(a, p)' <=> Listed(a, p) \/ (p = o /\ a = up)
  BY <1>1, <1>2, <1>5, PushListed
<1>7. Multiple(blk, 2 * BlockSize[o]) /\ Multiple(blk, BlockSize[o]) /\ Multiple(up, BlockSize[o])
  <2>1. Multiple(blk, BlockSize[ord])
    BY <1>1, AlignedFacts DEF AInv, OnMultiples
  <2>2. Multiple(2 * BlockSize[o], BlockSize[o]) /\ Multiple(BlockSize[o], BlockSize[o])
    BY <1>4, MultipleOfItself
  <2>3. Multiple(blk, BlockSize[o])
    BY <1>3, <1>4, <2>1, <2>2, MultiplesCompose
  <2> QED
    BY <1>3, <1>4, <1>5, <2>1, <2>2, <2>3, MultiplesAdd
<1>8. BlocksAligned'
  <2>1. IInv'
    BY NextIInv DEF Next
  <2>2. BlocksAligned' <=> OnMultiples'
    BY <2>1, AlignedFacts, PTL
  <2> QED
    BY <1>1, <1>6, <1>7, <2>2, AlignedFacts DEF AInv, OnMultiples, Multiple
\* the buddy of the upper half is the lower, which is no list's yet
<1>9. Buddy(up, o) = blk
  <2>1. \/ Buddy(blk, o) = up /\ Buddy(up, o) = blk
        \/ Multiple(blk - BlockSize[o], 2 * BlockSize[o])
    BY <1>2, <1>4, <1>5, <1>7, BuddyFacts
  <2>2. ~Multiple(blk - BlockSize[o], 2 * BlockSize[o])
    <3> SUFFICES ASSUME Multiple(blk - BlockSize[o], 2 * BlockSize[o]) PROVE FALSE
      OBVIOUS
    <3>1. blk - BlockSize[o] < blk /\ 2 * BlockSize[o] \in Nat \ {0} /\ blk - BlockSize[o] \in Int
      BY <1>4
    <3>2. (blk - BlockSize[o]) + 2 * BlockSize[o] <= blk
      BY <1>4, <1>7, <3>1, MultiplesApart
    <3> QED
      BY <1>4, <3>2
  <2> QED
    BY <2>1, <2>2
<1>10. ~Listed(blk, o) /\ ~Listed(up, o)
  <2>1. ASSUME NEW a, Listed(a, o), a = blk \/ a = up PROVE FALSE
    <3>1. PICK i \in DOMAIN freeList[o] : freeList[o][i] = a
      BY <1>2, <2>1, ListedFacts
    <3>2. Apart(blk, ord, a, o)
      BY <1>1, <1>2, <3>1 DEF IInv, NoOverlap, CurrentApart
    <3> QED
      BY <1>3, <1>4, <1>5, <2>1, <3>2 DEF Apart
  <2> QED
    BY <2>1
<1>11. NoPairs'
  <2> SUFFICES ASSUME NEW p \in Orders \ {MaxOrder}, NEW a \in Addresses,
                      Listed(a, p)', Listed(Buddy(a, p), p)'
               PROVE  FALSE
    BY DEF NoPairs, Buddy
  <2>1. CASE p = o /\ a = up
    <3>1. blk # up
      BY <1>4, <1>5
    <3> QED
      BY <1>6, <1>9, <1>10, <2>1, <3>1
  <2>2. CASE p = o /\ Buddy(a, o) = up /\ a # up
    <3>1. Listed(a, o) /\ a \in Nat
      BY <1>6, <2>2, SizeFacts
    <3>2. Multiple(a, BlockSize[o])
      BY <1>2, <3>1, AlignedFacts DEF AInv, OnMultiples
    <3>3. Buddy(up, o) = a
      BY <1>2, <2>2, <3>1, <3>2, BuddyFacts
    <3> QED
      BY <1>9, <1>10, <3>1, <3>3
  <2>3. CASE ~(p = o /\ a = up) /\ ~(p = o /\ Buddy(a, o) = up)
    BY <1>6, <2>3 DEF AInv, NoPairs
  <2> QED
    BY <2>1, <2>2, <2>3
<1> QED
  BY <1>8, <1>11

LEMMA CoalesceAligned ==
  ASSUME IInv, AInv, Coalesce
  PROVE  BlocksAligned' /\ NoPairs'
<1> DEFINE half == Buddy(blk, ord)
<1>1. /\ pc = "coalesce" /\ pc' = pc /\ ord' = ord + 1 /\ header' = header
      /\ blk' = IF blk <= half THEN blk ELSE half
  BY DEF Coalesce
<1>2. /\ ord \in Orders /\ ord + 1 \in Orders /\ Listed(half, ord)
      /\ \A p \in Orders : \A a : Listed(a, p) <=> Listed(a, p)' \/ (p = ord /\ a = half)
  BY CoalesceListed
<1>3. blk \in Nat /\ BlockSize[ord] \in Nat \ {0} /\ BlockSize[ord + 1] = 2 * BlockSize[ord]
  BY <1>1, <1>2, SizeFacts, BlockSizes DEF IInv, TypeOK
<1>4. Multiple(blk, BlockSize[ord])
  BY <1>1, AlignedFacts DEF AInv, OnMultiples
<1>5. \/ half = blk + BlockSize[ord] /\ Multiple(blk, 2 * BlockSize[ord])
      \/ half = blk - BlockSize[ord] /\ Multiple(half, 2 * BlockSize[ord])
  BY <1>2, <1>3, <1>4, BuddyFacts
<1> HIDE DEF half
<1>6. Multiple(blk', BlockSize[ord + 1])
  BY <1>1, <1>3, <1>5
<1>7. BlocksAligned'
  <2>1. IInv'
    BY NextIInv DEF Next
  <2>2. BlocksAligned' <=> OnMultiples'
    BY <2>1, AlignedFacts, PTL
  <2> QED
    BY <1>1, <1>2, <1>6, <2>2, AlignedFacts DEF AInv, OnMultiples, Multiple
<1>8. NoPairs'
  BY <1>2 DEF AInv, NoPairs, Buddy
<1> QED
  BY <1>7, <1>8
(* A block put back on a list whose buddy is not on it makes no pair.      *)
LEMMA FreeReturnAligned ==
  ASSUME IInv, AInv, FreeReturn
  PROVE  BlocksAligned' /\ NoPairs'
<1>1. /\ pc = "coalesce" /\ pc' = "idle" /\ header' = header /\ Push(ord, blk)
      /\ ~BuddyIsFree
  BY DEF FreeReturn, Return
<1>2. /\ ord \in Orders /\ blk \in Addresses /\ blk \in Nat
      /\ freeList \in [Orders -> Seq(Addresses)]
  BY <1>1, SizeFacts DEF IInv, TypeOK
<1>3. \A p \in Orders : \A a : Listed(a, p)' <=> Listed(a, p) \/ (p = ord /\ a = blk)
  BY <1>1, <1>2, PushListed
<1>4. blk % BlockSize[ord] = 0 /\ Multiple(blk, BlockSize[ord])
  BY <1>1, AlignedFacts DEF AInv, BlocksAligned, OnMultiples
<1>5. BlocksAligned'
  BY <1>1, <1>3, <1>4 DEF AInv, BlocksAligned
<1>6. ASSUME ord # MaxOrder PROVE ~Listed(Buddy(blk, ord), ord)
  <2>1. ord < MaxOrder
    BY <1>2, <1>6, SizeFacts, BuddyConstants DEF Orders
  <2>2. ~\E i \in DOMAIN freeList[ord] : freeList[ord][i] = Buddy(blk, ord)
    BY <1>1, <2>1 DEF BuddyIsFree
  <2> QED
    BY <1>2, <2>2, ListedFacts
<1>7. NoPairs'
  <2> SUFFICES ASSUME NEW p \in Orders \ {MaxOrder}, NEW a \in Addresses,
                      Listed(a, p)', Listed(Buddy(a, p), p)'
               PROVE  FALSE
    BY DEF NoPairs, Buddy
  <2>0. a \in Nat
    BY SizeFacts
  <2>1. CASE p = ord /\ a = blk
    <3>1. Buddy(blk, ord) # blk
      <4>1. \/ Buddy(blk, ord) = blk + BlockSize[ord]
            \/ Buddy(blk, ord) = blk - BlockSize[ord]
        BY <1>2, BuddyBeside
      <4>2. BlockSize[ord] \in Nat \ {0}
        BY <1>2, SizeFacts
      <4> QED
        BY <1>2, <4>1, <4>2
    <3> QED
      BY <1>3, <1>6, <2>1, <3>1
  <2>2. CASE p = ord /\ Buddy(a, ord) = blk /\ a # blk
    <3>1. Listed(a, ord)
      BY <1>3, <2>2
    <3>2. Multiple(a, BlockSize[ord])
      BY <1>2, <3>1, AlignedFacts DEF AInv, OnMultiples
    <3>3. Buddy(blk, ord) = a
      BY <1>2, <2>0, <2>2, <3>2, BuddyFacts
    <3> QED
      BY <1>6, <2>2, <3>1, <3>3
  <2>3. CASE ~(p = ord /\ a = blk) /\ ~(p = ord /\ Buddy(a, ord) = blk)
    BY <1>3, <2>3 DEF AInv, NoPairs
  <2> QED
    BY <2>1, <2>2, <2>3
<1> QED
  BY <1>5, <1>7

(* On an aligned heap buddy_free accepts every block.                      *)
LEMMA AcceptedWhenAligned ==
  ASSUME IInv, AInv, Aligned, NEW addr \in held
  PROVE  Acceptable(addr, header[addr])
<1>1. /\ addr \in DOMAIN header /\ addr \in Addresses /\ header[addr] \in Orders
  BY DEF IInv, TypeOK
<1>2. /\ addr \in Nat /\ HeapBase \in Nat /\ HeapEnd \in Nat
      /\ addr >= HeapBase /\ addr < HeapEnd
      /\ BlockSize[header[addr]] \in Nat \ {0}
  <2>1. /\ HeapBase \in Nat /\ HeapEnd \in Nat
        /\ BlockSize[header[addr]] \in Nat \ {0}
    BY <1>1, SizeFacts
  <2> QED
    BY <1>1, <2>1 DEF Addresses
<1>3. Multiple(addr, BlockSize[header[addr]]) /\ Multiple(HeapBase, BlockSize[header[addr]])
  BY <1>1, EndsAligned, AlignedFacts DEF AInv, OnMultiples
<1>4. Multiple(addr - HeapBase, BlockSize[header[addr]]) /\ addr - HeapBase \in Nat
  BY <1>2, <1>3, MultiplesAdd
<1>5. (addr - HeapBase) % BlockSize[header[addr]] = 0
  BY <1>2, <1>4, MultipleOfRemainder
<1> QED
  BY <1>1, <1>2, <1>5 DEF Acceptable

LEMMA NextAInv == Aligned /\ IInv /\ AInv /\ [Next]_vars => AInv'
<1> SUFFICES ASSUME Aligned, IInv, AInv, [Next]_vars PROVE AInv'
  OBVIOUS
<1>1. ASSUME NEW size \in Requests, MallocEnter(size) PROVE AInv'
  <2>1. /\ ord' \in Orders
        /\ \A p \in Orders : \A a : Listed(a, p) <=> Listed(a, p)' \/ (p = ord' /\ a = blk')
    BY <1>1, EnterListed
  <2>2. /\ header' = header /\ held' = held /\ pc' = "split"
    BY <1>1 DEF MallocEnter, held
  <2>3. Listed(blk', ord') /\ blk' \in Addresses
    <3>1. freeList \in [Orders -> Seq(Addresses)]
      BY DEF IInv, TypeOK
    <3> QED
      BY <2>1, <3>1, ListedFacts
  <2> QED
    BY <2>1, <2>2, <2>3 DEF AInv, BlocksAligned, NoPairs, Buddy
<1>2. CASE Split
  BY <1>2, SplitAligned DEF Split, AInv, held
<1>3. CASE MallocReturn
  <2>1. /\ pc = "split" /\ pc' = "idle" /\ ord = target /\ freeList' = freeList
        /\ header' = [b \in DOMAIN header \cup {blk} |-> IF b = blk THEN target ELSE header[b]]
        /\ held' = held \cup {blk}
    <3>1. pc = "split" /\ ord <= target
      BY <1>3 DEF MallocReturn
    <3>2. ord \in Nat /\ target \in Nat /\ target <= ord
      BY <3>1, SizeFacts DEF IInv, TypeOK
    <3> QED
      BY <1>3, <3>1, <3>2 DEF MallocReturn, Return, held
  <2> QED
    BY <2>1 DEF AInv, BlocksAligned, NoPairs, Buddy, Listed
<1>4. ASSUME NEW addr \in held, FreeEnter(addr) PROVE AInv'
  <2>1. /\ header' = Restrict(header, DOMAIN header \ {addr}) /\ held' = held \ {addr}
        /\ pc = "idle" /\ pc' = "coalesce" /\ blk' = addr /\ ord' = header[addr]
        /\ freeList' = freeList
    BY <1>4 DEF FreeEnter, held, Restrict
  <2>2. /\ DOMAIN header' = DOMAIN header \ {addr}
        /\ \A a \in DOMAIN header' : header'[a] = header[a]
    BY <2>1 DEF Restrict
  <2> QED
    BY <2>1, <2>2 DEF AInv, BlocksAligned, NoPairs, Buddy, Listed
<1>5. ASSUME NEW addr \in held, FreeRefused(addr) PROVE FALSE
  BY <1>5, AcceptedWhenAligned DEF FreeRefused
<1>6. CASE Coalesce
  BY <1>6, CoalesceAligned DEF Coalesce, AInv, held
<1>7. CASE FreeReturn
  BY <1>7, FreeReturnAligned DEF FreeReturn, AInv, held
<1>8. CASE UNCHANGED vars
  BY <1>8 DEF AInv, BlocksAligned, NoPairs, Buddy, Listed, vars, held
<1> QED
  BY <1>1, <1>2, <1>3, <1>4, <1>5, <1>6, <1>7, <1>8 DEF Next, MallocFail

LEMMA AInvariance == Aligned => (Spec => []AInv)
<1> SUFFICES ASSUME Aligned PROVE Spec => []AInv
  OBVIOUS
<1>1. Init => AInv
  <2> SUFFICES ASSUME Init PROVE AInv
    OBVIOUS
  <2>1. \A o \in Orders : \A a : Listed(a, o) <=> o = MaxOrder /\ a = HeapBase
    <3>1. freeList \in [Orders -> Seq(Addresses)] /\ MaxOrder \in Orders
      BY InitIInv, SizeFacts DEF IInv, TypeOK
    <3>2. \A o \in Orders : \A i \in DOMAIN freeList[o] :
            o = MaxOrder /\ i = 1 /\ freeList[o][i] = HeapBase
      BY SizeFacts DEF Init
    <3>3. freeList[MaxOrder] = <<HeapBase>>
      BY <3>1 DEF Init
    <3>4. 1 \in DOMAIN freeList[MaxOrder] /\ freeList[MaxOrder][1] = HeapBase
      BY <3>3
    <3> QED
      BY <3>1, <3>2, <3>4, ListedFacts
  <2>2. DOMAIN header = {} /\ held = {} /\ pc = "idle"
    BY DEF Init, held
  <2> QED
    BY <2>1, <2>2 DEF AInv, BlocksAligned, NoPairs, Aligned
<1>2. IInv /\ AInv /\ [Next]_vars => AInv'
  BY NextAInv
<1> QED
  BY <1>1, <1>2, Invariance, PTL DEF Spec

(* On a heap that starts at a multiple of its size, buddy_free never       *)
(* refuses a block of buddy_malloc's, so that the blocks off the lists are *)
(* exactly those some caller holds.                                        *)
THEOREM FreesAccepted == Aligned => (Spec => []NothingStranded)
<1> SUFFICES ASSUME Aligned PROVE Spec => []NothingStranded
  OBVIOUS
<1>1. AInv => NothingStranded
  BY DEF AInv, NothingStranded
<1> QED
  BY <1>1, AInvariance, PTL

(* On such a heap no two halves of a block are ever both on a list.        *)
THEOREM HalvesMerged == Aligned => (Spec => []FullyMerged)
<1> SUFFICES ASSUME Aligned PROVE Spec => []FullyMerged
  OBVIOUS
<1>1. IInv /\ AInv => FullyMerged
  <2> SUFFICES ASSUME IInv, AInv, NEW o \in Orders \ {MaxOrder}, NEW a, Listed(a, o)
               PROVE  ~Listed(Buddy(a, o), o)
    BY DEF FullyMerged, Listed
  <2>1. a \in Addresses
    BY ListedFacts DEF IInv, TypeOK
  <2> QED
    BY <2>1 DEF AInv, NoPairs
<1> QED
  BY <1>1, Invariance, AInvariance, PTL

-----------------------------------------------------------------------------
(* With nothing handed out, a block below the highest order would have its *)
(* buddy covered: by a smaller block, which there is none, by the buddy    *)
(* itself, which is not listed, or by a larger block, which would cover    *)
(* the first one too.                                                      *)
LEMMA NoneBelowTheTop ==
  ASSUME IInv, AInv, Aligned, Coverage, pc = "idle", held = {},
         NEW o \in Orders \ {MaxOrder}, NEW a, Listed(a, o),
         \A p \in Orders : \A c : Listed(c, p) => p >= o
  PROVE  FALSE
<1> DEFINE n == BlockSize[o]
           b == Buddy(a, o)
<1>1. o + 1 \in Orders /\ o \in Nat
  BY SizeFacts, BuddyConstants DEF Orders
<1>2. freeList \in [Orders -> Seq(Addresses)] /\ DOMAIN header = {}
  BY DEF IInv, TypeOK, AInv
<1>3. a \in Addresses /\ a \in Nat /\ n \in Nat \ {0} /\ BlockSize[o + 1] = 2 * n
  BY <1>1, <1>2, ListedFacts, SizeFacts, BlockSizes
<1>4. Multiple(a, n)
  BY <1>3, AlignedFacts DEF AInv, OnMultiples
<1>5. /\ Multiple(b, n)
      /\ \/ b = a + n /\ Multiple(a, 2 * n)
         \/ b = a - n /\ Multiple(b, 2 * n)
  BY <1>3, <1>4, BuddyFacts
<1>6. Multiple(HeapBase, 2 * n) /\ Multiple(HeapEnd, 2 * n)
  BY <1>1, <1>3, EndsAligned
<1>7. /\ HeapBase \in Nat /\ HeapEnd \in Nat /\ HeapBase <= a /\ a < HeapEnd
      /\ 2 * n \in Nat \ {0}
  BY <1>3, SizeFacts DEF Addresses
<1>8. PICK low \in {a, b} : /\ Multiple(low, 2 * n) /\ low \in Int
                            /\ \/ a = low /\ b = low + n
                               \/ a = low + n /\ b = low
  <2>1. CASE b = a + n /\ Multiple(a, 2 * n)
    BY <1>3, <2>1
  <2>2. CASE b = a - n /\ Multiple(b, 2 * n)
    BY <1>3, <2>2
  <2> QED
    BY <1>5, <2>1, <2>2
<1>9. ~Listed(b, o)
  BY <1>3 DEF AInv, NoPairs
<1> HIDE DEF n, b
\* the buddy is inside the heap
<1>10. b \in Addresses
  <2>1. HeapBase <= low
    <3> SUFFICES ASSUME low < HeapBase PROVE FALSE
      BY <1>7, <1>8
    <3>1. low + 2 * n <= HeapBase
      BY <1>6, <1>7, <1>8, MultiplesApart
    <3> QED
      BY <1>3, <1>7, <1>8, <3>1
  <2>2. low + 2 * n <= HeapEnd
    <3>1. low < HeapEnd
      BY <1>3, <1>7, <1>8
    <3> QED
      BY <1>6, <1>7, <1>8, <3>1, MultiplesApart
  <2>3. b \in Nat /\ HeapBase <= b /\ b < HeapEnd
    BY <1>3, <1>7, <1>8, <2>1, <2>2
  <2> QED
    BY <1>7, <2>3 DEF Addresses
<1>11. PICK p \in Orders, c \in Addresses : Listed(c, p) /\ Within(b, c, p)
  <2>1. Covered(b)
    BY <1>10, CoverageFacts
  <2> QED
    BY <1>2, <2>1 DEF Covered
<1>12. /\ p \in Nat /\ p >= o /\ c \in Nat /\ BlockSize[p] \in Nat \ {0}
       /\ Multiple(c, BlockSize[p]) /\ c <= b /\ b < c + BlockSize[p] /\ b \in Int
  <2>1. Multiple(c, BlockSize[p])
    BY <1>11, AlignedFacts DEF AInv, OnMultiples
  <2>2. p \in Nat /\ o \in Nat /\ c \in Nat /\ BlockSize[p] \in Nat \ {0}
    BY <1>1, <1>11, SizeFacts
  <2>3. p >= o
    BY <1>11
  <2>4. b \in Int
    BY <1>3, <1>8
  <2> QED
    BY <1>11, <2>1, <2>2, <2>3, <2>4 DEF Within
<1>13. CASE p = o
  <2>1. BlockSize[p] = n
    BY <1>13 DEF n
  <2>2. c = b
    <3> SUFFICES ASSUME c < b PROVE FALSE
      BY <1>12
    <3>1. c + n <= b
      BY <1>3, <1>5, <1>12, <2>1, MultiplesApart
    <3> QED
      BY <1>3, <1>12, <2>1, <3>1
  <2> QED
    BY <1>9, <1>11, <1>13, <2>2
<1>14. CASE p > o
  <2> DEFINE d == c + BlockSize[p]
  <2>1. Multiple(BlockSize[p], 2 * n)
    <3>1. o + 1 <= p
      BY <1>1, <1>12, <1>14
    <3> QED
      BY <1>1, <1>3, <3>1, SizesDivide
  <2>2. Multiple(c, 2 * n)
    BY <1>7, <1>12, <2>1, MultiplesCompose
  <2>3. Multiple(d, 2 * n) /\ d \in Int
    <3>1. c \in Int /\ BlockSize[p] \in Int /\ d \in Int
      BY <1>12
    <3> QED
      BY <1>7, <2>1, <2>2, <3>1, MultiplesAdd, Zenon
  <2>4. b < d
    BY <1>12
  <2> HIDE DEF d
  <2>5. c <= low
    <3> SUFFICES ASSUME low < c PROVE FALSE
      BY <1>8, <1>12
    <3>1. low + 2 * n <= c
      BY <1>7, <1>8, <1>12, <2>2, MultiplesApart
    <3> QED
      BY <1>3, <1>8, <1>12, <3>1
  <2>6. low + 2 * n <= d
    <3>1. low < d
      BY <1>3, <1>8, <2>3, <2>4
    <3> QED
      BY <1>7, <1>8, <2>3, <3>1, MultiplesApart
  <2>7. Apart(a, o, c, p)
    <3>1. PICK i \in DOMAIN freeList[o] : freeList[o][i] = a
      BY <1>2, ListedFacts
    <3>2. PICK j \in DOMAIN freeList[p] : freeList[p][j] = c
      BY <1>2, <1>11, ListedFacts
    <3>3. o # p
      BY <1>1, <1>12, <1>14
    <3> QED
      BY <3>1, <3>2, <3>3 DEF IInv, NoOverlap, FreeApartFromFree
  <2>8. a + n <= c \/ d <= a
    BY <2>7 DEF Apart, n, d
  <2> QED
    BY <1>3, <1>8, <1>12, <2>3, <2>5, <2>6, <2>8
<1> QED
  BY <1>1, <1>12, <1>13, <1>14

LEMMA WholeAgain ==
  ASSUME IInv, AInv, Aligned, Coverage
  PROVE  HeapRestored
<1> SUFFICES ASSUME pc = "idle", held = {} PROVE freeList[MaxOrder] = <<HeapBase>>
  BY DEF HeapRestored
<1>1. freeList \in [Orders -> Seq(Addresses)] /\ DOMAIN header = {} /\ MaxOrder \in Orders
  BY SizeFacts DEF IInv, TypeOK, AInv
<1>2. \A o \in Orders \ {MaxOrder} : \A a : ~Listed(a, o)
  <2> DEFINE S == {o \in Orders : \E a : Listed(a, o)}
  <2> SUFFICES ASSUME NEW o1 \in Orders \ {MaxOrder}, NEW a1, Listed(a1, o1) PROVE FALSE
    OBVIOUS
  <2>1. S \in SUBSET Nat /\ o1 \in S
    BY SizeFacts
  <2>2. Min(S) \in S /\ \A p \in S : Min(S) <= p
    BY <2>1, MinFacts
  <2> DEFINE o == Min(S)
  <2>3. PICK a : Listed(a, o)
    BY <2>2
  <2>4. o \in Orders /\ o <= o1
    BY <2>1, <2>2
  <2>5. o # MaxOrder
    BY <2>4, SizeFacts, BuddyConstants DEF Orders
  <2>6. \A p \in Orders : \A c : Listed(c, p) => p >= o
    BY <2>2, <2>4, SizeFacts
  <2> HIDE DEF o
  <2> QED
    BY <2>3, <2>4, <2>5, <2>6, NoneBelowTheTop
<1> DEFINE s == freeList[MaxOrder]
<1>3. s \in Seq(Addresses) /\ DOMAIN s = 1 .. Len(s) /\ Len(s) \in Nat
  BY <1>1
<1>4. \A i \in DOMAIN s : s[i] = HeapBase
  <2> SUFFICES ASSUME NEW i \in DOMAIN s PROVE s[i] = HeapBase
    OBVIOUS
  <2>1. Inside(s[i], MaxOrder) /\ s[i] \in Nat
    BY <1>1, EntryFacts DEF IInv, NoOverlap, FreeBlocksInside
  <2> QED
    BY <1>1, <2>1, SizeFacts DEF Inside, HeapEnd
<1>5. Len(s) # 0
  <2>1. HeapBase \in Addresses
    BY SizeFacts DEF Addresses
  <2>2. Covered(HeapBase)
    BY <2>1, CoverageFacts
  <2>3. PICK a : Listed(a, MaxOrder)
    BY <1>1, <1>2, <2>2 DEF Covered
  <2>4. PICK i \in DOMAIN s : s[i] = a
    BY <1>1, <2>3, ListedFacts
  <2> QED
    BY <1>3, <2>4
<1>6. ~(2 <= Len(s))
  <2> SUFFICES ASSUME 2 <= Len(s) PROVE FALSE
    OBVIOUS
  <2>1. 1 \in DOMAIN s /\ 2 \in DOMAIN s
    BY <1>3
  <2>2. Apart(s[1], MaxOrder, s[2], MaxOrder)
    BY <1>1, <2>1 DEF IInv, NoOverlap, FreeApartFromFree
  <2> QED
    BY <1>1, <1>4, <2>1, <2>2, SizeFacts DEF Apart
<1>7. Len(s) = 1 /\ s[1] = HeapBase
  <2> HIDE DEF s
  <2>1. Len(s) = 1
    BY <1>3, <1>5, <1>6
  <2>2. 1 \in DOMAIN s
    BY <1>3, <2>1
  <2> QED
    BY <1>4, <2>1, <2>2
<1> HIDE DEF s
<1>8. s = <<HeapBase>>
  BY <1>3, <1>7
<1> QED
  BY <1>8 DEF s

(* On a heap that starts at a multiple of its size, whatever was handed    *)
(* out and given back in whatever order, once nobody holds anything the    *)
(* heap is the single block of buddy_init again.                           *)
THEOREM AllGivenBack == Aligned => (Spec => []HeapRestored)
<1> SUFFICES ASSUME Aligned PROVE Spec => []HeapRestored
  OBVIOUS
<1>1. IInv /\ AInv /\ Coverage => HeapRestored
  BY WholeAgain
<1> QED
  BY <1>1, Invariance, AInvariance, NoByteLost, PTL
=============================================================================
