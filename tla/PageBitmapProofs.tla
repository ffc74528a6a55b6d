--------------------------- MODULE PageBitmapProofs ---------------------------
(***************************************************************************)
(* Proofs about PageBitmap, for every number of pages, every width of byte *)
(* and word, and every set of lengths asked for: the types, that the bits  *)
(* account for every page, and that callers get what RegionAlloc promises. *)
(* That the search ends is not among them: it need not.                    *)
(***************************************************************************)
EXTENDS PageBitmap, ProofLemmas

(* Runs handed out lie in the machine and apart from each other.           *)
Inside == \A a \in DOMAIN owned : a + owned[a] <= NumPages
Disjoint ==
  \A a \in DOMAIN owned : \A b \in DOMAIN owned \ {a} :
    Abstract!Apart(a, owned[a], b, owned[b])
Wanted == pc = "search" => want \in Requests

Inv == TypeOK /\ Accounted /\ Inside /\ Disjoint /\ Wanted

LEMMA PageFacts ==
  /\ Pages \subseteq Nat /\ 0 \in Pages /\ NumPages \in Nat \ {0}
  /\ \A k \in Nat : Following(k) \in Pages
  /\ Requests \subseteq 1 .. NumPages
BY PageConstants, SMT DEF Pages, Following

LEMMA Initially == Init => Inv
<1> SUFFICES ASSUME Init PROVE Inv
  OBVIOUS
<1>1. DOMAIN owned = {}
  BY DEF Init
<1>2. Held = {}
  BY <1>1 DEF Held
<1>3. TypeOK
  BY <1>1, PageFacts, PageConstants DEF Init, TypeOK
<1> QED
  BY <1>1, <1>2, <1>3 DEF Init, Inv, Accounted, Inside, Disjoint, Wanted

(* Handing out a free run keeps everything in its place.                   *)
LEMMA HandingOut ==
  ASSUME Inv, NEW start \in Pages, NEW len \in 1 .. NumPages,
         Run(start, len) \subseteq Pages \ used,
         used' = used \cup Run(start, len),
         owned' = [a \in DOMAIN owned \cup {start} |->
                     IF a = start THEN len ELSE owned[a]]
  PROVE  /\ used' \subseteq Pages /\ Accounted'
         /\ DOMAIN owned' \subseteq Pages
         /\ \A a \in DOMAIN owned' : owned'[a] \in 1 .. NumPages
         /\ Inside' /\ Disjoint'
         /\ start \notin DOMAIN owned /\ start + len <= NumPages
         /\ \A a \in DOMAIN owned : Abstract!Apart(start, len, a, owned[a])
<1> USE DEF Inv
<1>1. start \in Run(start, len) /\ start + len - 1 \in Run(start, len)
      /\ start \in Nat /\ len \in Nat
  BY PageFacts DEF Run
<1>2. start + len <= NumPages
  BY <1>1, PageFacts DEF Pages
<1>3. \A a \in DOMAIN owned : a \in Nat /\ owned[a] \in Nat \ {0}
  <2> SUFFICES ASSUME NEW a \in DOMAIN owned
               PROVE  a \in Nat /\ owned[a] \in Nat \ {0}
    OBVIOUS
  <2>1. a \in Pages /\ owned[a] \in 1 .. NumPages
    BY DEF TypeOK
  <2> HIDE DEF Inv
  <2> QED
    BY <2>1, PageFacts
<1>4. \A a \in DOMAIN owned : Run(a, owned[a]) \cap Run(start, len) = {}
  <2> SUFFICES ASSUME NEW a \in DOMAIN owned, NEW p \in Run(a, owned[a]),
                      p \in Run(start, len)
               PROVE  FALSE
    OBVIOUS
  <2>1. p \in Held
    BY DEF Held
  <2> QED
    BY <2>1 DEF Accounted
<1>5. \A a \in DOMAIN owned : a # start /\ Abstract!Apart(start, len, a, owned[a])
  <2> SUFFICES ASSUME NEW a \in DOMAIN owned
               PROVE  a # start /\ Abstract!Apart(start, len, a, owned[a])
    OBVIOUS
  <2>1. a \in Nat /\ owned[a] \in Nat \ {0}
    BY <1>3
  <2>2. Run(a, owned[a]) \cap Run(start, len) = {}
    BY <1>4
  <2> HIDE DEF Inv
  <2>3. ~(start \in Run(a, owned[a])) /\ ~(a \in Run(start, len))
    <3>1. a \in Run(a, owned[a])
      BY <2>1 DEF Run
    <3> QED
      BY <1>1, <2>2, <3>1
  <2> QED
    BY <1>1, <2>1, <2>3 DEF Run, Abstract!Apart
<1>6. /\ DOMAIN owned' = DOMAIN owned \cup {start} /\ owned'[start] = len
      /\ \A a \in DOMAIN owned : owned'[a] = owned[a]
  BY <1>5
<1>7. Held' = Held \cup Run(start, len)
  BY <1>6 DEF Held
<1>8. Accounted'
  BY <1>7 DEF Accounted
<1>9. used' \subseteq Pages /\ DOMAIN owned' \subseteq Pages
      /\ \A a \in DOMAIN owned' : owned'[a] \in 1 .. NumPages
  BY <1>6 DEF TypeOK
<1>10. Inside'
  BY <1>2, <1>6 DEF Inside
<1>11. Disjoint'
  <2> SUFFICES ASSUME NEW a \in DOMAIN owned', NEW b \in DOMAIN owned' \ {a}
               PROVE  Abstract!Apart(a, owned'[a], b, owned'[b])
    BY DEF Disjoint
  <2>1. CASE a = start
    BY <1>5, <1>6, <2>1
  <2>2. CASE b = start
    BY <1>5, <1>6, <2>2 DEF Abstract!Apart
  <2>3. CASE a # start /\ b # start
    BY <1>6, <2>3 DEF Disjoint
  <2> QED
    BY <2>1, <2>2, <2>3
<1> QED
  BY <1>2, <1>5, <1>8, <1>9, <1>10, <1>11

LEMMA FoundRun ==
  ASSUME Inv, Find
  PROVE  /\ i \in Pages /\ want \in Requests /\ want \in 1 .. NumPages
         /\ Run(i, want) \subseteq Pages \ used
<1>1. i \in Pages /\ want \in Requests /\ want \in 1 .. NumPages
  BY PageFacts DEF Inv, Find, Wanted
<1>2. \A j \in Run(i, want) : j \in Nat /\ j < NumPages /\ j \notin used
  BY <1>1, PageFacts DEF Find, Stops, Run
<1> QED
  BY <1>1, <1>2, PageFacts DEF Pages

LEMMA FoundPage ==
  ASSUME Inv, AllocPage
  PROVE  /\ Min(Pages \ used) \in Pages \ used
         /\ Run(Min(Pages \ used), 1) = {Min(Pages \ used)}
         /\ 1 \in 1 .. NumPages
<1>1. Pages \ used \in SUBSET Nat
  BY PageFacts
<1>2. Min(Pages \ used) \in Pages \ used
  BY <1>1, MinFacts DEF AllocPage
<1>3. Min(Pages \ used) \in Nat
  BY <1>1, <1>2
<1> HIDE DEF Min
<1> QED
  BY <1>2, <1>3, PageFacts DEF Run

(* The search goes from one index to another and changes nothing else.     *)
LEMMA SearchingOn ==
  ASSUME Inv, SkipWord \/ SkipPage \/ SkipRun
  PROVE  i' \in Pages /\ UNCHANGED <<used, last, pc, want, owned>>
<1> USE DEF Inv
<1>1. i \in Nat
  BY PageFacts DEF TypeOK
<1>2. CASE SkipWord
  BY <1>1, <1>2, PageFacts, PageConstants DEF SkipWord
<1>3. CASE SkipPage
  BY <1>1, <1>3, PageFacts DEF SkipPage
<1>4. CASE SkipRun
  <2>1. Stops(i) \in SUBSET Nat /\ Stops(i) # {}
    BY <1>1, <1>4 DEF SkipRun, Stops, Run, TypeOK
  <2>2. Min(Stops(i)) \in Nat
    BY <2>1, MinFacts
  <2>3. (IF Min(Stops(i)) >= NumPages THEN 0 ELSE Min(Stops(i)) + 1) \in Nat
    BY <2>2
  <2> HIDE DEF Stops
  <2> QED
    BY <1>4, <2>3, PageFacts DEF SkipRun
<1> QED
  BY <1>2, <1>3, <1>4

LEMMA GivingBack ==
  ASSUME Inv, NEW start \in Pages, Free(start)
  PROVE  /\ used' \subseteq Pages /\ Accounted'
         /\ DOMAIN owned' \subseteq Pages
         /\ \A a \in DOMAIN owned' : owned'[a] \in 1 .. NumPages
         /\ Inside' /\ Disjoint'
<1> USE DEF Inv
<1>1. /\ DOMAIN owned' = DOMAIN owned \ {start}
      /\ \A a \in DOMAIN owned' : owned'[a] = owned[a]
      /\ used' = used \ Run(start, owned[start]) /\ start \in DOMAIN owned
  BY DEF Free
<1>2. \A a \in DOMAIN owned' : Run(a, owned[a]) \cap Run(start, owned[start]) = {}
  <2> SUFFICES ASSUME NEW a \in DOMAIN owned', NEW p \in Run(a, owned[a]),
                      p \in Run(start, owned[start])
               PROVE  FALSE
    OBVIOUS
  <2>1. Abstract!Apart(a, owned[a], start, owned[start])
    BY <1>1 DEF Disjoint
  <2>2. a \in Nat /\ owned[a] \in Nat /\ start \in Nat /\ owned[start] \in Nat
    BY <1>1, PageFacts DEF TypeOK
  <2> QED
    BY <2>1, <2>2 DEF Abstract!Apart, Run
<1>3. Held' = Held \ Run(start, owned[start])
  BY <1>1, <1>2 DEF Held
<1>4. Run(start, owned[start]) \cap Reserved = {}
  BY <1>1 DEF Accounted, Held
<1>5. Accounted'
  BY <1>1, <1>3, <1>4 DEF Accounted
<1>6. Inside'
  BY <1>1 DEF Inside
<1>7. Disjoint'
  BY <1>1 DEF Disjoint
<1> QED
  BY <1>1, <1>5, <1>6, <1>7 DEF TypeOK

LEMMA Steady ==
  ASSUME Inv, [Next]_vars
  PROVE  Inv'
<1> USE DEF Inv
<1>1. ASSUME UNCHANGED <<used, owned>> PROVE (Accounted /\ Inside /\ Disjoint)'
  BY <1>1 DEF Accounted, Inside, Disjoint, Held
<1>2. CASE \E n \in Requests : Malloc(n)
  <2>1. last + 1 \in 0 .. NumPages
    BY PageFacts DEF TypeOK, Pages
  <2> QED
    BY <1>1, <1>2, <2>1 DEF Malloc, TypeOK, Wanted
<1>3. CASE Exhausted
  BY <1>1, <1>3 DEF Exhausted, TypeOK, Wanted
<1>4. CASE SkipWord \/ SkipPage \/ SkipRun
  <2>1. i' \in 0 .. NumPages
    BY <1>4, SearchingOn, PageFacts DEF Pages
  <2> QED
    BY <1>1, <1>4, <2>1, SearchingOn DEF TypeOK, Wanted
<1>5. CASE Find
  <2>1. /\ used' \subseteq Pages /\ Accounted' /\ DOMAIN owned' \subseteq Pages
        /\ \A a \in DOMAIN owned' : owned'[a] \in 1 .. NumPages
        /\ Inside' /\ Disjoint'
    BY <1>5, FoundRun, HandingOut DEF Find
  <2> QED
    BY <1>5, <2>1, FoundRun DEF Find, TypeOK, Wanted
<1>6. CASE AllocPage
  <2>1. /\ used' \subseteq Pages /\ Accounted' /\ DOMAIN owned' \subseteq Pages
        /\ \A a \in DOMAIN owned' : owned'[a] \in 1 .. NumPages
        /\ Inside' /\ Disjoint'
    BY <1>6, FoundPage, HandingOut DEF AllocPage
  <2> QED
    BY <1>6, <2>1 DEF AllocPage, TypeOK, Wanted
<1>7. CASE \E a \in Pages : Free(a)
  BY <1>7, GivingBack DEF Free, TypeOK, Wanted
<1>8. CASE UNCHANGED vars
  BY <1>1, <1>8 DEF vars, TypeOK, Wanted
<1> QED
  BY <1>2, <1>3, <1>4, <1>5, <1>6, <1>7, <1>8 DEF Next, Search

-----------------------------------------------------------------------------
THEOREM Invariance == Spec => []Inv
BY Initially, Steady, PTL DEF Spec

(* The index of bitmap_malloc stays in the bitmap, or one behind it, and   *)
(* no bit outside it is ever set.                                          *)
THEOREM TypeCorrect == Spec => []TypeOK
BY Invariance, PTL DEF Inv

(* The bits set in the bitmap are those of the reserved pages and of the   *)
(* runs callers hold.                                                      *)
THEOREM BitsAccountForPages == Spec => []Accounted
BY Invariance, PTL DEF Inv

(* bitmap_malloc, bitmap_alloc and bitmap_frees implement RegionAlloc.     *)
THEOREM Refinement == Spec => ImplementsRegionAlloc
<1>1. Init => Abstract!Init
  BY DEF Init, Abstract!Init
<1>2. Inv /\ [Next]_vars => [Abstract!Next]_owned
  <2> SUFFICES ASSUME Inv, [Next]_vars, owned' # owned PROVE Abstract!Next
    OBVIOUS
  <2>1. CASE Find
    <3>1. Abstract!Alloc(want)
      <4>1. i \in 0 .. NumPages - 1
        BY <2>1, FoundRun DEF Pages
      <4>2. /\ i + want <= NumPages /\ i \notin DOMAIN owned
            /\ \A a \in DOMAIN owned : Abstract!Apart(i, want, a, owned[a])
        BY <2>1, FoundRun, HandingOut DEF Find
      <4> QED
        BY <2>1, <4>1, <4>2 DEF Find, Abstract!Alloc
    <3> QED
      BY <2>1, <3>1, FoundRun DEF Abstract!Next
  <2>2. CASE AllocPage
    <3> DEFINE page == Min(Pages \ used)
    <3>1. Abstract!Alloc(1)
      <4>1. page \in 0 .. NumPages - 1
        BY <2>2, FoundPage DEF Pages
      <4>2. /\ page + 1 <= NumPages /\ page \notin DOMAIN owned
            /\ \A a \in DOMAIN owned : Abstract!Apart(page, 1, a, owned[a])
        BY <2>2, FoundPage, HandingOut DEF AllocPage
      <4> QED
        BY <2>2, <4>1, <4>2 DEF AllocPage, Abstract!Alloc
    <3> QED
      BY <3>1 DEF Abstract!Next
  <2>3. CASE \E a \in Pages : Free(a)
    BY <2>3 DEF Free, Abstract!Next, Abstract!Release
  <2> QED
    BY <2>1, <2>2, <2>3
       DEF Next, Search, Malloc, Exhausted, SkipWord, SkipPage, SkipRun, vars
<1> QED
  BY <1>1, <1>2, Invariance, PTL DEF Spec, ImplementsRegionAlloc, Abstract!Spec
=============================================================================
