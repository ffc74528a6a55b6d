---------------------------- MODULE KbRingProofs ----------------------------
(***************************************************************************)
(* The keyboard ring is a queue whatever its size and however interrupts   *)
(* fall between the steps of buffer_pop.                                   *)
(***************************************************************************)
EXTENDS KbRing, TLAPS

IInv == TypeOK /\ LoadedKeyIsOldest /\ NothingLost

LEMMA AdvanceFacts ==
  ASSUME NEW i \in 0 .. Size - 1
  PROVE  /\ Advance(i) \in 0 .. Size - 1
         /\ Advance(i) = IF i + 1 = Size THEN 0 ELSE i + 1
<1>1. CASE i + 1 = Size
  BY <1>1, RingConstants DEF Advance
<1>2. CASE i + 1 # Size
  BY <1>2, RingConstants DEF Advance
<1> QED
  BY <1>1, <1>2

LEMMA SlotFacts ==
  ASSUME head \in 0 .. Size - 1, tail \in 0 .. Size - 1
  PROVE  /\ Count \in 0 .. Size - 1
         /\ Empty <=> Count = 0
         /\ Full <=> Count = Size - 1
         /\ Slot(0) = tail
         /\ Slot(Count) = head
         /\ \A i \in 0 .. Size - 1 : Slot(i) \in 0 .. Size - 1
         /\ \A i, j \in 0 .. Size - 1 : i # j => Slot(i) # Slot(j)
<1>1. Size \in Nat \ {0, 1}
  BY RingConstants
<1>2. Full <=> Count = Size - 1
  BY <1>1, AdvanceFacts DEF Full, Count
<1> QED
  BY <1>1, <1>2 DEF Count, Slot, Empty

LEMMA InitIInv == Init => IInv
BY RingConstants DEF Init, IInv, TypeOK, LoadedKeyIsOldest, NothingLost, Count, Contents, Keys

LEMMA StoreEffect ==
  ASSUME TypeOK, NEW code \in Scancodes, InterruptKey(code), ~Full
  PROVE  /\ TypeOK'
         /\ Count' = Count + 1
         /\ \A i \in 1 .. Count : Contents'[i] = Contents[i]
         /\ Contents'[Count + 1] = <<code, extended>>
         /\ ring'[tail'] = IF Count = 0 THEN <<code, extended>> ELSE ring[tail]
<1>1. /\ ring' = [ring EXCEPT ![head] = <<code, extended>>]
      /\ head' = Advance(head) /\ stored' = stored + 1 /\ extended' = 0
      /\ tail' = tail /\ pc' = pc /\ ch' = ch /\ got' = got /\ taken' = taken
  BY DEF InterruptKey
<1>2. <<code, extended>> \in Keys
  BY DEF TypeOK, Keys
<1>3. TypeOK'
  BY <1>1, <1>2, AdvanceFacts DEF TypeOK
<1>4. /\ head \in 0 .. Size - 1 /\ tail \in 0 .. Size - 1 /\ Size \in Nat \ {0, 1}
      /\ head' = (IF head + 1 = Size THEN 0 ELSE head + 1)
  BY <1>1, AdvanceFacts, RingConstants DEF TypeOK
<1>5. Count' = Count + 1 /\ Count \in 0 .. Size - 2
  <2>1. Count # Size - 1 /\ Count \in 0 .. Size - 1
    BY <1>4, SlotFacts
  <2> QED
    BY <1>1, <1>4, <2>1 DEF Count
<1>6. \A i \in 0 .. Size - 1 : Slot(i)' = Slot(i)
  BY <1>1 DEF Slot
<1>7. \A i \in 1 .. Count : Slot(i - 1) # head /\ Slot(i - 1) \in 0 .. Size - 1
  <2> SUFFICES ASSUME NEW i \in 1 .. Count
               PROVE  Slot(i - 1) # head /\ Slot(i - 1) \in 0 .. Size - 1
    OBVIOUS
  <2>1. i - 1 \in 0 .. Size - 1 /\ Count \in 0 .. Size - 1 /\ i - 1 # Count
    BY <1>4, <1>5
  <2> QED
    BY <1>4, <2>1, SlotFacts
<1>8. \A i \in 1 .. Count : Contents'[i] = Contents[i]
  <2> SUFFICES ASSUME NEW i \in 1 .. Count PROVE Contents'[i] = Contents[i]
    OBVIOUS
  <2>1. i \in 1 .. Count' /\ i - 1 \in 0 .. Size - 1
    BY <1>4, <1>5
  <2>2. ring'[Slot(i - 1)] = ring[Slot(i - 1)]
    BY <1>1, <1>7 DEF TypeOK
  <2> QED
    BY <1>6, <2>1, <2>2 DEF Contents
<1>9. Contents'[Count + 1] = <<code, extended>>
  <2>1. Count + 1 \in 1 .. Count' /\ (Count + 1) - 1 = Count /\ Count \in 0 .. Size - 1
    BY <1>4, <1>5
  <2>2. ring'[Slot(Count)] = <<code, extended>>
    BY <1>1, <1>4, SlotFacts DEF TypeOK
  <2> QED
    BY <1>6, <2>1, <2>2 DEF Contents
<1>10. ring'[tail'] = IF Count = 0 THEN <<code, extended>> ELSE ring[tail]
  BY <1>1, <1>4, SlotFacts DEF TypeOK, Empty
<1> QED
  BY <1>3, <1>5, <1>8, <1>9, <1>10

LEMMA TakeEffect ==
  ASSUME TypeOK, AdvanceTail, Count > 0
  PROVE  /\ TypeOK'
         /\ Count' = Count - 1
         /\ \A i \in 1 .. Count - 1 : Contents'[i] = Contents[i + 1]
<1>1. /\ tail' = Advance(tail) /\ got' = ch /\ ch' = NoKey /\ pc' = "poll"
      /\ taken' = taken + 1 /\ ring' = ring /\ head' = head /\ extended' = extended
      /\ stored' = stored
  BY DEF AdvanceTail
<1>2. /\ head \in 0 .. Size - 1 /\ tail \in 0 .. Size - 1 /\ Size \in Nat \ {0, 1}
      /\ tail' = (IF tail + 1 = Size THEN 0 ELSE tail + 1)
      /\ tail' \in 0 .. Size - 1
  BY <1>1, AdvanceFacts, RingConstants DEF TypeOK
<1>3. TypeOK'
  BY <1>1, <1>2 DEF TypeOK
<1>4. Count' = Count - 1 /\ Count \in 1 .. Size - 1
  <2>1. Count \in 1 .. Size - 1
    BY <1>2, SlotFacts
  <2> QED
    BY <1>1, <1>2, <2>1 DEF Count
<1>5. ASSUME NEW i \in 1 .. Count - 1
      PROVE  Contents'[i] = Contents[i + 1]
  <2>1. i \in 1 .. Count' /\ i + 1 \in 1 .. Count /\ (i + 1) - 1 = i /\ i \in 1 .. Size - 2
    BY <1>2, <1>4
  <2>2. Slot(i - 1)' = Slot(i)
    BY <1>1, <1>2, <2>1 DEF Slot
  <2> QED
    BY <1>1, <2>1, <2>2 DEF Contents
<1> QED
  BY <1>3, <1>4, <1>5

LEMMA NextIInv == IInv /\ [Next]_vars => IInv'
<1> SUFFICES ASSUME IInv, [Next]_vars PROVE IInv'
  OBVIOUS
<1>0. /\ TypeOK /\ head \in 0 .. Size - 1 /\ tail \in 0 .. Size - 1
      /\ Size \in Nat \ {0, 1} /\ Count \in 0 .. Size - 1
      /\ stored = taken + Count /\ \A i \in 1 .. Count : Contents[i] \in Keys
  BY RingConstants, SlotFacts DEF IInv, TypeOK, NothingLost
<1>1. ASSUME UNCHANGED <<ring, head, tail, pc, ch, stored, taken>>,
             extended' \in {0, 1}, got' \in {got, NoKey}
      PROVE  IInv'
  BY <1>1 DEF IInv, TypeOK, LoadedKeyIsOldest, NothingLost, Count, Contents, Slot
<1>2. ASSUME NEW code \in Scancodes, InterruptKey(code), ~Full
      PROVE  IInv'
  <2>1. /\ TypeOK' /\ Count' = Count + 1
        /\ \A i \in 1 .. Count : Contents'[i] = Contents[i]
        /\ Contents'[Count + 1] = <<code, extended>>
        /\ ring'[tail'] = IF Count = 0 THEN <<code, extended>> ELSE ring[tail]
    BY <1>0, <1>2, StoreEffect
  <2>2. /\ stored' = stored + 1 /\ taken' = taken /\ pc' = pc /\ ch' = ch
    BY <1>2 DEF InterruptKey
  <2>3. <<code, extended>> \in Keys
    BY DEF IInv, TypeOK, Keys
  <2>4. LoadedKeyIsOldest'
    BY <1>0, <2>1, <2>2 DEF IInv, LoadedKeyIsOldest
  <2>5. NothingLost'
    <3>1. \A i \in 1 .. Count' : Contents'[i] \in Keys
      BY <1>0, <2>1, <2>3
    <3>2. stored' = taken' + Count'
      BY <1>0, <2>1, <2>2 DEF TypeOK
    <3> QED
      BY <3>1, <3>2 DEF NothingLost
  <2> QED
    BY <2>1, <2>4, <2>5 DEF IInv
<1>3. CASE PollKey
  <2>1. Count > 0
    BY <1>0, <1>3, SlotFacts DEF PollKey
  <2> QED
    BY <1>3, <2>1
       DEF PollKey, IInv, TypeOK, LoadedKeyIsOldest, NothingLost, Count, Contents, Slot
<1>4. CASE LoadKey
  <2>1. ring[tail] \in Keys \cup {NoKey}
    BY <1>0 DEF TypeOK
  <2> QED
    BY <1>4, <2>1
       DEF LoadKey, IInv, TypeOK, LoadedKeyIsOldest, NothingLost, Count, Contents, Slot
<1>5. CASE AdvanceTail
  <2>1. Count > 0
    BY <1>5 DEF AdvanceTail, IInv, LoadedKeyIsOldest
  <2>2. /\ TypeOK' /\ Count' = Count - 1
        /\ \A i \in 1 .. Count - 1 : Contents'[i] = Contents[i + 1]
    BY <1>0, <1>5, <2>1, TakeEffect
  <2>3. pc' = "poll" /\ taken' = taken + 1 /\ stored' = stored
    BY <1>5 DEF AdvanceTail
  <2>4. \A i \in 1 .. Count' : Contents'[i] \in Keys
    BY <1>0, <2>1, <2>2
  <2>5. stored' = taken' + Count'
    BY <1>0, <2>2, <2>3 DEF TypeOK
  <2> QED
    BY <2>2, <2>3, <2>4, <2>5 DEF IInv, LoadedKeyIsOldest, NothingLost
<1>6. CASE InterruptPrefix
  BY <1>1, <1>6 DEF InterruptPrefix
<1>7. ASSUME NEW code \in Scancodes, InterruptKey(code), Full
      PROVE  IInv'
  BY <1>1, <1>7 DEF InterruptKey
<1>8. CASE PollEmpty
  BY <1>1, <1>8 DEF PollEmpty, IInv, TypeOK
<1>9. CASE UNCHANGED vars
  BY <1>1, <1>9 DEF vars, IInv, TypeOK
<1> QED
  BY <1>2, <1>3, <1>4, <1>5, <1>6, <1>7, <1>8, <1>9 DEF Next, Interrupt, Poll

THEOREM Invariance == Spec => []IInv
BY InitIInv, NextIInv, PTL DEF Spec

(* The indices stay in the buffer and every value read is a key or NoKey.  *)
THEOREM TypeCorrect == Spec => []TypeOK
<1>1. IInv => TypeOK
  BY DEF IInv
<1> QED
  BY Invariance, <1>1, PTL

(* An interrupt between the two steps of buffer_pop never replaces the key *)
(* that was loaded.                                                        *)
THEOREM NoOverwrite == Spec => []LoadedKeyIsOldest
<1>1. IInv => LoadedKeyIsOldest
  BY DEF IInv
<1> QED
  BY Invariance, <1>1, PTL

(* Keys stored are read once or still buffered, none lost, none doubled.   *)
THEOREM KeysConserved == Spec => []NothingLost
<1>1. IInv => NothingLost
  BY DEF IInv
<1> QED
  BY Invariance, <1>1, PTL

-----------------------------------------------------------------------------
ContentsShape == Contents \in Seq(Keys) /\ Len(Contents) = Count

LEMMA ContentsSeq == IInv => ContentsShape
<1> SUFFICES ASSUME IInv PROVE ContentsShape
  OBVIOUS
<1>1. Count \in 0 .. Size - 1 /\ Size \in Nat
  BY SlotFacts, RingConstants DEF IInv, TypeOK
<1>2. Contents = [i \in 1 .. Count |-> Contents[i]]
  BY DEF Contents
<1>3. \A i \in 1 .. Count : Contents[i] \in Keys
  BY DEF IInv, NothingLost
<1> QED
  BY <1>1, <1>2, <1>3 DEF ContentsShape

LEMMA ContentsSeqAfter == IInv' => ContentsShape'
BY ContentsSeq, PTL

LEMMA NextRefines == IInv /\ IInv' /\ [Next]_vars => [Fifo!Next]_<<Contents, got>>
<1> SUFFICES ASSUME IInv, IInv', [Next]_vars
             PROVE  Fifo!Next \/ UNCHANGED <<Contents, got>>
  OBVIOUS
<1>0. /\ Contents \in Seq(Keys) /\ Len(Contents) = Count
      /\ Count \in 0 .. Size - 1 /\ Size \in Nat \ {0, 1}
      /\ Contents' \in Seq(Keys) /\ Len(Contents') = Count'
      /\ TypeOK /\ head \in 0 .. Size - 1 /\ tail \in 0 .. Size - 1
  <2>1. ContentsShape /\ ContentsShape'
    BY ContentsSeq, ContentsSeqAfter
  <2> QED
    BY <2>1, SlotFacts, RingConstants DEF IInv, TypeOK, ContentsShape
<1>1. ASSUME NEW code \in Scancodes, InterruptKey(code), ~Full
      PROVE  Fifo!Next
  <2> DEFINE key == <<code, extended>>
  <2>1. key \in Keys
    BY DEF IInv, TypeOK, Keys
  <2>2. /\ Count' = Count + 1 /\ \A i \in 1 .. Count : Contents'[i] = Contents[i]
        /\ Contents'[Count + 1] = key
    BY <1>0, <1>1, StoreEffect
  <2>3. Len(Contents) < Size - 1
    BY <1>0, <1>1, SlotFacts
  <2> HIDE DEF key
  <2>4. Contents' = Append(Contents, key)
    BY <1>0, <2>1, <2>2
  <2>5. got' = got
    BY <1>1 DEF InterruptKey
  <2>6. Fifo!Type(key)
    BY <2>3, <2>4, <2>5 DEF Fifo!Type
  <2> QED
    BY <2>1, <2>6 DEF Fifo!Next
<1>2. CASE AdvanceTail
  <2>1. Count > 0 /\ ch = ring[tail] /\ got' = ch
    BY <1>2 DEF AdvanceTail, IInv, LoadedKeyIsOldest
  <2>2. /\ Count' = Count - 1
        /\ \A i \in 1 .. Count - 1 : Contents'[i] = Contents[i + 1]
    BY <1>0, <1>2, <2>1, TakeEffect
  <2>3. Contents # <<>> /\ Contents' = Tail(Contents)
    BY <1>0, <2>1, <2>2
  <2>4. Head(Contents) = ring[tail]
    <3>1. Slot(0) = tail /\ 1 \in 1 .. Count
      BY <1>0, <2>1, SlotFacts
    <3>2. Contents[1] = ring[Slot(0)]
      BY <3>1 DEF Contents
    <3> QED
      BY <1>0, <2>3, <3>1, <3>2
  <2>5. Fifo!Read
    BY <2>1, <2>3, <2>4 DEF Fifo!Read
  <2> QED
    BY <2>5 DEF Fifo!Next
<1>3. CASE PollEmpty
  <2>1. Count = 0 /\ Contents' = Contents /\ got' = NoKey
    BY <1>0, <1>3, SlotFacts DEF PollEmpty, Contents, Count, Slot
  <2>2. Contents = <<>>
    BY <1>0, <2>1
  <2> QED
    BY <2>1, <2>2 DEF Fifo!Next, Fifo!ReadNothing
<1>4. CASE UNCHANGED <<ring, head, tail, got>>
  BY <1>4 DEF Contents, Count, Slot
<1> QED
  BY <1>1, <1>2, <1>3, <1>4
     DEF Next, Interrupt, Poll, InterruptPrefix, InterruptKey, PollKey, LoadKey, vars

(* Whatever the size of the buffer, the ring read by buffer_pop and filled *)
(* by the interrupt handler is a bounded first-in first-out queue.         *)
THEOREM Refinement == Spec => ImplementsFifo
<1>1. Init => Fifo!Init
  <2> SUFFICES ASSUME Init PROVE Contents = <<>> /\ got = NoKey
    BY DEF Fifo!Init
  <2>1. Count = 0
    BY DEF Init, Count
  <2> QED
    BY <2>1 DEF Init, Contents
<1>2. IInv /\ IInv' /\ [Next]_vars => [Fifo!Next]_<<Contents, got>>
  BY NextRefines
<1> QED
  BY <1>1, <1>2, Invariance, PTL DEF Spec, ImplementsFifo, Fifo!Spec
=============================================================================
