--------------------------- MODULE MfsVolumeProofs ---------------------------
(***************************************************************************)
(* Proofs about MfsVolume, for every size of volume and directory, every   *)
(* set of names and sizes, and any number of crashes: the types, that      *)
(* chains ascend, that listing is complete, that free blocks are not       *)
(* undercounted, that the root stays, and that crashes damage one file     *)
(* each.                                                                   *)
(***************************************************************************)
EXTENDS MfsVolume, ProofLemmas, FiniteSetTheorems

(* Choosing from a table that has enough free blocks yields some.          *)
LEMMA LowestExists ==
  ASSUME NEW ones \in SUBSET Nat, NEW n \in Nat \ {0},
         n <= Cardinality(ones), IsFiniteSet(ones)
  PROVE  /\ {b \in ones : Cardinality({c \in ones : c < b}) < n} # {}
         /\ ones # {}
<1>1. ones # {}
  BY FS_EmptySet, SMT
<1>2. Min(ones) \in ones /\ \A y \in ones : Min(ones) <= y
  BY <1>1, MinFacts
<1>3. {c \in ones : c < Min(ones)} = {}
  <2> SUFFICES ASSUME NEW c \in ones, c < Min(ones) PROVE FALSE
    OBVIOUS
  <2>1. Min(ones) <= c /\ Min(ones) \in Nat /\ c \in Nat
    BY <1>2
  <2> QED
    BY <2>1, SMT
<1>4. Cardinality({c \in ones : c < Min(ones)}) = 0
  BY <1>3, FS_EmptySet, Zenon
<1>5. Min(ones) \in {b \in ones : Cardinality({c \in ones : c < b}) < n}
  BY <1>2, <1>4, SMT
<1> QED
  BY <1>1, <1>5, Zenon

(* The constants, as the other proofs use them.                            *)
LEMMA BlockFacts ==
  /\ Blocks \subseteq Nat \ {0} /\ IsFiniteSet(Blocks)
  /\ Free \notin Blocks /\ Tombstone \notin Blocks
  /\ Bad \notin Blocks /\ End \notin Blocks
  /\ Slots \subseteq Nat /\ Kept \subseteq Slots
<1>1. IsFiniteSet(Blocks)
  BY MfsConstants, FS_Interval DEF Blocks
<1> QED
  BY <1>1, MfsConstants, SMT DEF Blocks, Free, Tombstone, Bad, End, Slots, Kept

-----------------------------------------------------------------------------
(* Chains.  A walk exists because links that a walk follows ascend: it is  *)
(* built from the highest block downwards.                                 *)
Onward(t, f, c) == {c} \cup IF t[c] \in Blocks /\ t[c] > c THEN f[t[c]] ELSE {}

LEMMA WalksExist ==
  ASSUME NEW t
  PROVE  \E f : f = [c \in Blocks |-> Onward(t, f, c)]
<1> DEFINE Built(f, m) == /\ f = [c \in Blocks |-> f[c]]
                          /\ \A c \in Blocks : c > NumBlocks - m => f[c] = Onward(t, f, c)
           Unbuilt == {m \in Nat : ~\E f : Built(f, m)}
<1>1. NumBlocks \in Nat /\ Blocks \subseteq Nat /\ \A c \in Blocks : c > 0 /\ c < NumBlocks
  BY MfsConstants DEF Blocks
<1>2. Unbuilt = {}
  <2> SUFFICES ASSUME Unbuilt # {} PROVE FALSE
    OBVIOUS
  <2>1. Unbuilt \in SUBSET Nat
    OBVIOUS
  <2> DEFINE m == Min(Unbuilt)
  <2>2. m \in Unbuilt /\ \A n \in Unbuilt : m <= n
    BY <2>1, MinFacts
  <2> HIDE DEF m
  <2>3. CASE m = 0
    <3> DEFINE f == [c \in Blocks |-> {}]
    <3>1. Built(f, 0)
      BY <1>1
    <3> QED
      BY <2>2, <2>3, <3>1
  <2>4. CASE m # 0
    <3>1. m - 1 \in Nat /\ m - 1 \notin Unbuilt
      BY <2>2, <2>4
    <3>2. PICK f : Built(f, m - 1)
      BY <3>1
    <3> DEFINE k == NumBlocks - (m - 1)
               g == [c \in Blocks |-> IF c = k THEN Onward(t, f, c) ELSE f[c]]
    <3>3. ASSUME NEW c \in Blocks, c > NumBlocks - m PROVE g[c] = Onward(t, g, c)
      <4>1. c >= k
        BY <1>1, <2>2, <3>3
      <4>2. ASSUME t[c] \in Blocks, t[c] > c PROVE g[t[c]] = f[t[c]]
        <5>1. c \in Nat /\ t[c] \in Nat /\ k \in Int
          BY <1>1, <2>2, <4>2
        <5>2. t[c] # k
          BY <4>1, <4>2, <5>1
        <5> QED
          BY <4>2, <5>2
      <4>3. Onward(t, g, c) = Onward(t, f, c)
        BY <4>2 DEF Onward
      <4>4. g[c] = Onward(t, f, c)
        BY <1>1, <2>2, <3>2, <4>1
      <4> QED
        BY <4>3, <4>4
    <3>4. Built(g, m)
      BY <3>3
    <3> QED
      BY <2>2, <3>4
  <2> QED
    BY <2>3, <2>4
<1>3. PICK f : Built(f, NumBlocks)
  BY <1>1, <1>2
<1>4. \A c \in Blocks : f[c] = Onward(t, f, c)
  BY <1>1, <1>3
<1>5. f = [c \in Blocks |-> f[c]]
  BY <1>3
<1>6. f = [c \in Blocks |-> Onward(t, f, c)]
  BY <1>4, <1>5, Zenon
<1> QED
  BY <1>6, Zenon

LEMMA WalkStep ==
  ASSUME NEW t, Ascends(t), NEW b \in Blocks
  PROVE  Walk(t, b) = {b} \cup IF t[b] \in Blocks THEN Walk(t, t[b]) ELSE {}
<1> DEFINE w == CHOOSE f : f = [c \in Blocks |-> Onward(t, f, c)]
<1>1. w = [c \in Blocks |-> Onward(t, w, c)]
  BY WalksExist, Zenon
<1>2. Walks(t) = w
  BY DEF Walks, Onward
<1> HIDE DEF w
<1>3. w[b] = Onward(t, w, b)
  BY <1>1
<1>4. t[b] \in Blocks => t[b] > b
  BY DEF Ascends
<1> QED
  BY <1>2, <1>3, <1>4 DEF Walk, Onward

LEMMA HighestBlock ==
  ASSUME NEW S \in SUBSET Blocks, S # {}
  PROVE  Max(S) \in S /\ \A c \in S : c <= Max(S)
<1>1. NumBlocks \in Nat /\ S \in SUBSET Nat /\ \A c \in S : c <= NumBlocks
  BY MfsConstants DEF Blocks
<1> QED
  BY <1>1, MaxFacts

(* A walk begins where it begins, goes upwards and is closed under links.  *)
LEMMA WalkFacts ==
  ASSUME NEW t, Ascends(t), NEW b \in Blocks
  PROVE  /\ b \in Walk(t, b) /\ Walk(t, b) \subseteq Blocks
         /\ \A c \in Walk(t, b) : c >= b /\ (t[c] \in Blocks => t[c] \in Walk(t, b))
<1> DEFINE Good(c) == /\ c \in Walk(t, c) /\ Walk(t, c) \subseteq Blocks
                      /\ \A d \in Walk(t, c) :
                           d >= c /\ (t[d] \in Blocks => t[d] \in Walk(t, c))
           Poor == {c \in Blocks : ~Good(c)}
<1>1. Poor = {}
  <2> SUFFICES ASSUME Poor # {} PROVE FALSE
    OBVIOUS
  <2> DEFINE m == Max(Poor)
  <2>1. m \in Poor /\ \A c \in Poor : c <= m
    BY HighestBlock
  <2> HIDE DEF m
  <2>2. /\ m \in Blocks /\ m \in Nat /\ ~Good(m)
        /\ t[m] \in Blocks => t[m] > m /\ t[m] \in Nat
    BY <2>1, BlockFacts DEF Ascends
  <2>3. Walk(t, m) = {m} \cup IF t[m] \in Blocks THEN Walk(t, t[m]) ELSE {}
    BY <2>2, WalkStep
  <2>4. CASE t[m] \in Blocks
    <3>1. t[m] \notin Poor
      BY <2>1, <2>2, <2>4
    <3>2. Good(t[m])
      BY <2>4, <3>1
    <3>3. Walk(t, m) = {m} \cup Walk(t, t[m])
      BY <2>3, <2>4
    <3>4. \A d \in Walk(t, t[m]) : d \in Nat /\ d >= m
      <4> SUFFICES ASSUME NEW d \in Walk(t, t[m]) PROVE d \in Nat /\ d >= m
        OBVIOUS
      <4>1. d \in Nat /\ d >= t[m]
        BY <3>2, BlockFacts
      <4> QED
        BY <2>2, <2>4, <4>1
    <3> QED
      BY <2>2, <2>4, <3>2, <3>3, <3>4
  <2>5. CASE t[m] \notin Blocks
    BY <2>2, <2>3, <2>5
  <2> QED
    BY <2>4, <2>5
<1>2. Good(b)
  BY <1>1
<1> QED
  BY <1>2

(* It is the least set that does.                                          *)
LEMMA WalkLeast ==
  ASSUME NEW t, Ascends(t), NEW b \in Blocks, NEW S, b \in S,
         \A c \in Blocks \cap S : t[c] \in Blocks => t[c] \in S
  PROVE  Walk(t, b) \subseteq S
<1> DEFINE Poor == {c \in Blocks \cap S : ~(Walk(t, c) \subseteq S)}
<1>1. Poor = {}
  <2> SUFFICES ASSUME Poor # {} PROVE FALSE
    OBVIOUS
  <2> DEFINE m == Max(Poor)
  <2>1. m \in Poor /\ \A c \in Poor : c <= m
    BY HighestBlock
  <2> HIDE DEF m
  <2>2. /\ m \in Blocks /\ m \in Nat /\ m \in S
        /\ t[m] \in Blocks => t[m] > m /\ t[m] \in Nat /\ t[m] \in S
    BY <2>1, BlockFacts DEF Ascends
  <2>3. Walk(t, m) = {m} \cup IF t[m] \in Blocks THEN Walk(t, t[m]) ELSE {}
    BY <2>2, WalkStep
  <2>4. t[m] \in Blocks => Walk(t, t[m]) \subseteq S
    BY <2>1, <2>2
  <2> QED
    BY <2>1, <2>2, <2>3, <2>4
<1> QED
  BY <1>1

(* So two tables that agree on a walk have it in common.                   *)
LEMMA SameWalk ==
  ASSUME NEW t, NEW u, Ascends(t), Ascends(u), NEW b \in Blocks,
         \A c \in Walk(t, b) : u[c] = t[c]
  PROVE  Walk(u, b) = Walk(t, b) /\ (Intact(u, b) <=> Intact(t, b))
<1>1. b \in Walk(t, b) /\ b \in Walk(u, b)
  BY WalkFacts
<1>2. Walk(u, b) \subseteq Walk(t, b)
  <2>1. \A c \in Blocks \cap Walk(t, b) : u[c] \in Blocks => u[c] \in Walk(t, b)
    BY WalkFacts
  <2> QED
    BY <1>1, <2>1, WalkLeast
<1>3. Walk(t, b) \subseteq Walk(u, b)
  <2>1. \A c \in Blocks \cap Walk(u, b) : t[c] \in Blocks => t[c] \in Walk(u, b)
    BY <1>2, WalkFacts
  <2> QED
    BY <1>1, <2>1, WalkLeast
<1> QED
  BY <1>2, <1>3 DEF Intact

(* A chain has one end: if it is whole, every block on it but the last is  *)
(* linked to a block, and none is marked free.                             *)
LEMMA WholeChain ==
  ASSUME NEW t, Ascends(t), NEW b \in Blocks
  PROVE  Intact(t, b) <=> \A c \in Walk(t, b) : t[c] \in Blocks \cup {End}
<1>1. ASSUME Intact(t, b), NEW c \in Walk(t, b), t[c] \notin Blocks PROVE t[c] = End
  <2>1. PICK e \in Walk(t, b) : t[e] = End
    BY <1>1 DEF Intact
  <2> DEFINE S == {x \in Blocks : e \in Walk(t, x)}
  <2>2. b \in S /\ End \notin Blocks
    BY BlockFacts
  <2>3. \A x \in Blocks \cap S : t[x] \in Blocks => t[x] \in S
    <3> SUFFICES ASSUME NEW x \in S, t[x] \in Blocks PROVE e \in Walk(t, t[x])
      OBVIOUS
    <3>1. Walk(t, x) = {x} \cup Walk(t, t[x])
      BY WalkStep
    <3>2. e # x
      BY <2>1, <2>2
    <3> QED
      BY <3>1, <3>2
  <2>4. c \in S
    BY <1>1, <2>2, <2>3, WalkLeast
  <2>5. Walk(t, c) = {c}
    BY <1>1, <2>4, WalkStep
  <2> QED
    BY <2>1, <2>4, <2>5
<1>2. ASSUME \A c \in Walk(t, b) : t[c] \in Blocks \cup {End} PROVE Intact(t, b)
  <2> DEFINE m == Max(Walk(t, b))
  <2>1. m \in Walk(t, b) /\ \A c \in Walk(t, b) : c <= m
    BY WalkFacts, HighestBlock
  <2> HIDE DEF m
  <2>2. m \in Blocks
    BY <2>1, WalkFacts
  <2>3. t[m] \notin Blocks
    <3> SUFFICES ASSUME t[m] \in Blocks PROVE FALSE
      OBVIOUS
    <3>1. t[m] \in Walk(t, b) /\ t[m] > m /\ t[m] \in Nat /\ m \in Nat
      BY <2>1, <2>2, WalkFacts, BlockFacts DEF Ascends
    <3> QED
      BY <2>1, <3>1
  <2> QED
    BY <1>2, <2>1, <2>3 DEF Intact
<1> QED
  BY <1>1, <1>2

(* The n lowest of a set of at least n are n.                              *)
Lowest(ones, n) == {b \in ones : Cardinality({c \in ones : c < b}) < n}

LEMMA LowestCount ==
  ASSUME NEW ones \in SUBSET Nat, IsFiniteSet(ones), NEW n \in Nat, n <= Cardinality(ones)
  PROVE  Cardinality(Lowest(ones, n)) = n
<1> DEFINE Below(b) == {c \in ones : c < b}
           Poor == {k \in Nat : k <= Cardinality(ones) /\ Cardinality(Lowest(ones, k)) # k}
<1>1. /\ \A S \in SUBSET ones : IsFiniteSet(S) /\ Cardinality(S) \in Nat
      /\ Cardinality(ones) \in Nat
  BY FS_Subset, FS_CardinalityType
<1>2. \A b \in ones : Below(b) \in SUBSET ones
  OBVIOUS
<1>3. Poor = {}
  <2> SUFFICES ASSUME Poor # {} PROVE FALSE
    OBVIOUS
  <2>1. Poor \in SUBSET Nat
    OBVIOUS
  <2> DEFINE k == Min(Poor)
  <2>2. k \in Poor /\ \A j \in Poor : k <= j
    BY <2>1, MinFacts
  <2> HIDE DEF k
  <2>3. CASE k = 0
    <3>1. \A b \in ones : ~(Cardinality(Below(b)) < 0)
      BY <1>1
    <3>2. Lowest(ones, 0) = {}
      BY <3>1 DEF Lowest
    <3> QED
      BY <2>2, <2>3, <3>2, FS_EmptySet
  <2>4. CASE k # 0
    <3> DEFINE j == k - 1
               low == Lowest(ones, j)
               rest == ones \ low
               m == Min(rest)
    <3>1. j \in Nat /\ j + 1 = k /\ j < Cardinality(ones) /\ j \notin Poor
      BY <1>1, <2>2, <2>4
    <3>2. Cardinality(low) = j
      BY <1>1, <3>1
    <3>3. low \in SUBSET ones /\ IsFiniteSet(low)
      BY <1>1 DEF Lowest
    <3>4. rest # {} /\ rest \in SUBSET Nat
      <4>1. low # ones
        BY <1>1, <3>1, <3>2
      <4> QED
        BY <3>3, <4>1
    <3>5. m \in rest /\ \A c \in rest : m <= c
      BY <3>4, MinFacts
    <3> HIDE DEF j, m
    \* whatever is below one of the lowest is one of them
    <3>6. ASSUME NEW b \in low, NEW c \in ones, c <= b PROVE c \in low
      <4>1. Below(c) \subseteq Below(b) /\ IsFiniteSet(Below(b))
        <5>1. b \in ones /\ b \in Nat /\ c \in Nat /\ ones \subseteq Nat
          BY <3>3, <3>6
        <5>2. \A d \in ones : d < c => d < b
          BY <3>6, <5>1
        <5> QED
          BY <1>1, <1>2, <5>1, <5>2
      <4>2. Cardinality(Below(c)) <= Cardinality(Below(b))
        BY <4>1, FS_Subset
      <4>3. Cardinality(Below(b)) < j /\ Cardinality(Below(b)) \in Nat /\ Cardinality(Below(c)) \in Nat
        BY <1>1, <3>6 DEF Lowest
      <4> QED
        BY <3>1, <4>2, <4>3 DEF Lowest
    <3> HIDE DEF low
    <3>7. Below(m) = low
      <4>1. ASSUME NEW c \in ones, c < m PROVE c \in low
        BY <3>4, <3>5, <4>1
      <4>2. ASSUME NEW c \in low PROVE c < m
        <5>1. c \in Nat /\ m \in Nat /\ m \in ones /\ m \notin low
          BY <3>3, <3>5, <4>2
        <5> QED
          BY <3>6, <4>2, <5>1
      <4> QED
        BY <3>3, <4>1, <4>2
    <3>8. Lowest(ones, k) = low \cup {m}
      <4>1. ASSUME NEW b \in low PROVE b \in Lowest(ones, k)
        <5>1. Cardinality(Below(b)) < j /\ Cardinality(Below(b)) \in Nat /\ b \in ones
          BY <1>1, <3>3, <4>1 DEF low, Lowest
        <5> QED
          BY <3>1, <5>1 DEF Lowest
      <4>2. m \in Lowest(ones, k)
        BY <3>1, <3>2, <3>5, <3>7 DEF Lowest
      <4>3. ASSUME NEW b \in Lowest(ones, k), b \notin low, b # m PROVE FALSE
        <5>1. b \in ones /\ Cardinality(Below(b)) < k /\ b \in rest
          BY <4>3 DEF Lowest
        <5>2. m < b /\ m \in ones
          BY <3>4, <3>5, <4>3, <5>1
        <5>3. low \cup {m} \subseteq Below(b)
          <6>1. \A c \in low : c < m /\ c \in ones
            BY <3>7
          <6>2. m \in Nat /\ b \in Nat /\ low \subseteq Nat
            BY <3>3, <5>1, <5>2
          <6>3. \A c \in low : c < b
            BY <5>2, <6>1, <6>2
          <6> QED
            BY <5>2, <6>1, <6>3
        <5>4. Cardinality(low \cup {m}) = j + 1
          BY <3>2, <3>3, <3>5, FS_AddElement
        <5>5. Cardinality(low \cup {m}) <= Cardinality(Below(b))
          BY <1>1, <5>3, FS_Subset
        <5>6. Cardinality(Below(b)) \in Nat
          BY <1>1
        <5> QED
          BY <3>1, <5>1, <5>4, <5>5, <5>6
      <4> QED
        BY <4>1, <4>2, <4>3
    <3>9. Cardinality(low \cup {m}) = j + 1
      BY <3>2, <3>3, <3>5, FS_AddElement
    <3> QED
      BY <2>2, <3>1, <3>8, <3>9
  <2> QED
    BY <2>3, <2>4
<1> QED
  BY <1>3

LEMMA EmptyFacts ==
  /\ NoEntry.first \in Values /\ Garbage.first \in Values
  /\ \A name, first : Entry(name, first).first = first
  /\ DOMAIN NoDir = Slots /\ \A s \in Slots : NoDir[s].first \in Values
BY DEF NoEntry, Garbage, Entry, Values, NoDir

(* A set of free blocks, each linked to the next higher one and the last   *)
(* one ended, leaves an ascending table ascending.                         *)
LEMMA LinkingAscends ==
  ASSUME NEW t \in [Blocks -> Values], NEW chosen \in SUBSET Blocks, Ascends(t),
         NEW u,
         u = [b \in Blocks |->
                IF b \notin chosen THEN t[b]
                ELSE IF {c \in chosen : c > b} = {} THEN End
                     ELSE Min({c \in chosen : c > b})]
  PROVE  u \in [Blocks -> Values] /\ Ascends(u)
<1> SUFFICES ASSUME NEW b \in Blocks
             PROVE  u[b] \in Values /\ (u[b] \in Blocks => u[b] > b)
  BY DEF Ascends
<1>1. CASE b \notin chosen
  BY <1>1 DEF Ascends
<1>2. CASE b \in chosen /\ {c \in chosen : c > b} = {}
  <2>1. u[b] = End
    BY <1>2, Zenon
  <2>2. End \in Values /\ End \notin Blocks
    BY BlockFacts DEF Values
  <2> QED
    BY <2>1, <2>2, Zenon
<1>3. CASE b \in chosen /\ {c \in chosen : c > b} # {}
  <2>1. {c \in chosen : c > b} \in SUBSET Nat
    <3>1. chosen \subseteq Nat
      BY BlockFacts
    <3> QED
      BY <3>1, Zenon
  <2>2. Min({c \in chosen : c > b}) \in {c \in chosen : c > b}
    BY <2>1, <1>3, MinFacts
  <2>3. u[b] = Min({c \in chosen : c > b})
    BY <1>3
  <2> QED
    BY <2>2, <2>3, SMT DEF Values
<1> QED
  BY <1>1, <1>2, <1>3

(* What allocating does to a table: the n lowest of the blocks marked free *)
(* become a chain that begins with the lowest of them.                     *)
LinkUp(t, chosen) ==
  [b \in Blocks |->
     IF b \notin chosen THEN t[b]
     ELSE IF {c \in chosen : c > b} = {} THEN End ELSE Min({c \in chosen : c > b})]

LEMMA LinkUpFacts ==
  ASSUME NEW t \in [Blocks -> Values], Ascends(t), NEW n \in Nat \ {0}, n <= Cardinality(Ones(t))
  PROVE  LET chosen == Lowest(Ones(t), n)
             u == LinkUp(t, chosen)
         IN  /\ chosen \subseteq Ones(t) /\ Cardinality(chosen) = n
             /\ Min(chosen) \in chosen /\ Min(chosen) = Min(Ones(t))
             /\ u \in [Blocks -> Values] /\ Ascends(u)
             /\ \A b \in Blocks \ chosen : u[b] = t[b]
             /\ \A b \in chosen : u[b] \in chosen \cup {End}
             /\ Walk(u, Min(chosen)) = chosen /\ Intact(u, Min(chosen))
             /\ Ones(u) = Ones(t) \ chosen
             /\ Cardinality(Ones(u)) = Cardinality(Ones(t)) - n
<1> DEFINE ones == Ones(t)
           chosen == Lowest(Ones(t), n)
           u == LinkUp(t, chosen)
           m == Min(chosen)
<1>1. ones \in SUBSET Nat /\ ones \subseteq Blocks /\ IsFiniteSet(ones)
  BY BlockFacts, FS_Subset DEF Ones
<1>2. chosen # {} /\ ones # {}
  BY <1>1, LowestExists DEF Lowest
<1>3. chosen \subseteq ones /\ Cardinality(chosen) = n
  BY <1>1, LowestCount DEF Lowest
<1>4. u \in [Blocks -> Values] /\ Ascends(u)
  BY <1>1, <1>3, LinkingAscends, Zenon DEF LinkUp
<1> HIDE DEF chosen
<1>5. chosen \in SUBSET Nat /\ chosen \in SUBSET Blocks
  BY <1>1, <1>3
<1>6. m \in chosen /\ \A c \in chosen : m <= c
  BY <1>2, <1>5, MinFacts
<1>7. m = Min(ones)
  <2> DEFINE k == Min(ones)
  <2>1. k \in ones /\ \A y \in ones : k <= y
    BY <1>1, <1>2, MinFacts
  <2> HIDE DEF k
  <2>2. {c \in ones : c < k} = {}
    <3> SUFFICES ASSUME NEW c \in ones, c < k PROVE FALSE
      OBVIOUS
    <3>1. k <= c /\ k \in Nat /\ c \in Nat
      BY <1>1, <2>1
    <3> QED
      BY <3>1
  <2>3. Cardinality({c \in ones : c < k}) = 0
    BY <2>2, FS_EmptySet, Zenon
  <2>4. k \in chosen
    BY <2>1, <2>3 DEF chosen, Lowest
  <2> HIDE DEF m
  <2>5. m <= k /\ k <= m /\ m \in Nat /\ k \in Nat
    BY <1>1, <1>3, <1>5, <1>6, <2>1, <2>4
  <2>6. m = k
    BY <2>5
  <2> QED
    BY <2>6 DEF k
<1>8. \A b \in Blocks \ chosen : u[b] = t[b]
  BY DEF LinkUp
<1>9. ASSUME NEW b \in chosen
      PROVE  LET after == {c \in chosen : c > b}
             IN  IF after = {} THEN u[b] = End
                 ELSE u[b] \in after /\ \A c \in after : u[b] <= c
  <2> DEFINE after == {c \in chosen : c > b}
  <2>1. b \in Blocks /\ after \in SUBSET Nat
    BY <1>5
  <2>2. u[b] = IF after = {} THEN End ELSE Min(after)
    BY <2>1 DEF LinkUp
  <2> HIDE DEF after
  <2>3. after # {} => Min(after) \in after /\ \A c \in after : Min(after) <= c
    BY <2>1, MinFacts
  <2>4. IF after = {} THEN u[b] = End ELSE u[b] \in after /\ \A c \in after : u[b] <= c
    BY <2>2, <2>3
  <2> QED
    BY <2>4 DEF after
<1>10. \A b \in chosen : u[b] \in chosen \cup {End}
  BY <1>9
<1> HIDE DEF u
<1>11. Walk(u, m) \subseteq chosen
  <2>1. \A b \in Blocks \cap chosen : u[b] \in Blocks => u[b] \in chosen
    BY <1>10, BlockFacts
  <2> QED
    BY <1>4, <1>5, <1>6, <2>1, WalkLeast
<1>12. chosen \subseteq Walk(u, m)
  <2> DEFINE Missed == chosen \ Walk(u, m)
  <2> SUFFICES ASSUME Missed # {} PROVE FALSE
    OBVIOUS
  <2> DEFINE b == Min(Missed)
             before == {c \in chosen : c < b}
             p == Max(before)
  <2>1. b \in Missed /\ \A c \in Missed : b <= c
    BY <1>5, MinFacts
  <2>2. m \in Walk(u, m)
    BY <1>4, <1>5, <1>6, WalkFacts
  <2> HIDE DEF b, m
  <2>3. b \in chosen /\ b \in Nat /\ m \in Nat /\ m <= b /\ m # b
    BY <1>5, <1>6, <2>1, <2>2
  <2>4. m \in before /\ before \in SUBSET Blocks
    <3>1. m < b
      BY <2>3
    <3>2. m \in chosen
      BY <1>6
    <3> QED
      BY <1>5, <3>1, <3>2
  <2>5. p \in before /\ \A c \in before : c <= p
    BY <2>4, HighestBlock
  <2> HIDE DEF p
  <2>6. p \in chosen /\ p < b /\ p \in Nat /\ p \in Blocks
    BY <1>5, <2>5
  <2>7. p \in Walk(u, m)
    BY <2>1, <2>3, <2>6
  <2>8. b \in {c \in chosen : c > p}
    BY <2>3, <2>6
  <2>9. u[p] \in chosen /\ u[p] > p /\ u[p] <= b
    BY <1>9, <2>6, <2>8
  <2>10. u[p] = b
    <3>1. ~(u[p] < b)
      <4> SUFFICES ASSUME u[p] < b PROVE FALSE
        OBVIOUS
      <4>1. u[p] \in before
        BY <2>9
      <4>2. u[p] <= p /\ u[p] \in Nat
        BY <1>5, <2>5, <2>9, <4>1
      <4> QED
        BY <2>6, <2>9, <4>2
    <3>2. u[p] \in Nat
      BY <1>5, <2>9
    <3> QED
      BY <2>3, <2>9, <3>1, <3>2
  <2>11. b \in Walk(u, m)
    BY <1>4, <1>5, <1>6, <2>3, <2>7, <2>10, WalkFacts
  <2> QED
    BY <2>1, <2>11
<1>13. Walk(u, m) = chosen
  BY <1>11, <1>12
<1>14. Intact(u, m)
  <2>1. \A c \in Walk(u, m) : u[c] \in Blocks \cup {End}
    BY <1>5, <1>10, <1>13
  <2>2. m \in Blocks
    BY <1>5, <1>6
  <2> HIDE DEF m
  <2> QED
    BY <1>4, <2>1, <2>2, WholeChain
<1>15. Ones(u) = ones \ chosen
  <2>1. \A b \in chosen : u[b] # Free
    BY <1>5, <1>10, BlockFacts, MfsConstants DEF End, Free
  <2> QED
    BY <1>3, <1>5, <1>8, <2>1 DEF Ones
<1>16. Cardinality(ones \ chosen) = Cardinality(ones) - n
  <2>1. ones \cap chosen = chosen
    BY <1>3
  <2> QED
    BY <1>1, <1>3, <2>1, FS_Difference
<1>17. Cardinality(Ones(u)) = Cardinality(ones) - n
  BY <1>15, <1>16
<1> HIDE DEF m, ones
<1> QED
  BY <1>3, <1>4, <1>6, <1>7, <1>8, <1>10, <1>13, <1>14, <1>15, <1>17 DEF chosen, u, m, ones

LEMMA LinkedFacts ==
  ASSUME TypeOK, LinksAscend, NEW n \in Nat
  PROVE  /\ Linked(n) \in [Blocks -> Values] /\ Ascends(Linked(n))
         /\ n # 0 /\ Enough(n) => Min(Chosen(n)) \in Blocks
<1>1. Chosen(n) \in SUBSET Blocks
  BY DEF Chosen, Ones
<1>2. Linked(n) \in [Blocks -> Values] /\ Ascends(Linked(n))
  BY <1>1, LinkingAscends, Zenon DEF Linked, TypeOK, LinksAscend
<1>3. ASSUME n # 0, Enough(n) PROVE Min(Chosen(n)) \in Blocks
  <2>1. Ones(table) \in SUBSET Nat /\ IsFiniteSet(Ones(table))
    BY BlockFacts, FS_Subset DEF Ones
  <2>2. Chosen(n) # {}
    BY <1>3, <2>1, LowestExists DEF Chosen, Enough
  <2>3. Chosen(n) \in SUBSET Nat
    BY <1>1, BlockFacts
  <2> QED
    BY <2>2, <2>3, <1>1, MinFacts
<1> QED
  BY <1>2, <1>3

LEMMA FreshFacts ==
  ASSUME TypeOK, LinksAscend, DirBlocks <= Cardinality(Ones(diskTable))
  PROVE  /\ FreshTable \in [Blocks -> Values] /\ Ascends(FreshTable)
         /\ FreshRoot \in Blocks
<1>1. FreshTable \in [Blocks -> Values] /\ Ascends(FreshTable)
  <2> DEFINE chosen == {b \in Ones(diskTable) :
                          Cardinality({c \in Ones(diskTable) : c < b}) < DirBlocks}
  <2>1. chosen \in SUBSET Blocks
    BY DEF Ones
  <2>2. FreshTable = [b \in Blocks |->
                IF b \notin chosen THEN diskTable[b]
                ELSE IF {c \in chosen : c > b} = {} THEN End
                     ELSE Min({c \in chosen : c > b})]
    BY Zenon DEF FreshTable
  <2> HIDE DEF chosen
  <2>3. diskTable \in [Blocks -> Values] /\ Ascends(diskTable)
    BY DEF TypeOK, LinksAscend
  <2> QED
    BY <2>1, <2>2, <2>3, LinkingAscends, Zenon
<1>2. FreshRoot \in Blocks
  <2>1. Ones(diskTable) \in SUBSET Nat /\ IsFiniteSet(Ones(diskTable))
        /\ Ones(diskTable) \subseteq Blocks
    BY BlockFacts, FS_Subset DEF Ones
  <2>2. Ones(diskTable) # {}
    BY <2>1, LowestExists, MfsConstants
  <2> QED
    BY <2>1, <2>2, MinFacts DEF FreshRoot
<1> QED
  BY <1>1, <1>2

(* What is queued to be written is made of known writes.                   *)
Steps == {"dir", "newdir", "table", "super"} \X Nat
LEMMA WriteFacts ==
  /\ \A t : SaveDir(t) \in Seq(Steps)
  /\ SaveSuper \in Seq(Steps) /\ SaveTable \in Seq(Steps)
  /\ MountWrites \in Seq(Steps)
<1>1. \A t : SaveDir(t) \in Seq(Steps)
  BY DEF SaveDir, Steps
<1>2. SaveSuper \in Seq(Steps)
  BY DEF SaveSuper, Steps
<1>3. SaveTable \in Seq(Steps)
  <2>1. LastSector + 1 \in Nat
    <3>1. CASE NumBlocks = 1
      BY <3>1, MfsConstants
    <3>2. CASE NumBlocks # 1
      <4>1. NumBlocks - 2 \in Nat
        BY <3>2, MfsConstants
      <4>2. (NumBlocks - 2) \div PerSector \in Nat
        BY <4>1, MfsConstants, SMT
      <4> QED
        BY <4>2 DEF LastSector
    <3> QED
      BY <3>1, <3>2
  <2>2. \A i \in 1 .. LastSector + 1 : <<"table", i - 1>> \in Steps
    BY <2>1 DEF Steps
  <2> QED
    BY <2>1, <2>2 DEF SaveTable
<1>4. MountWrites \in Seq(Steps)
  <2>1. <<<<"dir", 0>>>> \in Seq(Steps)
    BY DEF Steps
  <2> QED
    BY <2>1, <1>2, <1>3 DEF MountWrites
<1> QED
  BY <1>1, <1>2, <1>3, <1>4
-----------------------------------------------------------------------------
(* The inductive invariant needs nothing but the two properties proved.    *)
Inv == TypeOK /\ LinksAscend

LEMMA Initially == Init => Inv
<1> SUFFICES ASSUME Init PROVE Inv
  OBVIOUS
<1>1. NoTable \in [Blocks -> Values] /\ Ascends(NoTable)
  BY BlockFacts DEF NoTable, Values, Ascends
<1>2. NumBlocks \in Int /\ Free \in Values
  BY MfsConstants DEF Values
<1>3. DOMAIN diskDir = Kept /\ \A s \in Kept : diskDir[s].first \in Values
  BY EmptyFacts DEF Init
<1>4. DOMAIN dir = Slots /\ \A s \in Slots : dir[s].first \in Values
  BY EmptyFacts DEF Init
<1>5. /\ writes \in Seq(Steps) /\ crashes \in 0 .. MaxCrashes
      /\ loose \in BOOLEAN /\ dotted \in BOOLEAN /\ gone \subseteq Slots
  <2>1. /\ MaxCrashes \in Nat /\ crashes = 0 /\ writes = <<>>
        /\ loose = FALSE /\ dotted = FALSE /\ gone = {}
    BY MfsConstants DEF Init
  <2>2. writes \in Seq(Steps)
    BY <2>1
  <2>3. crashes \in 0 .. MaxCrashes
    BY <2>1, SMT
  <2> QED
    BY <2>1, <2>2, <2>3, Zenon
<1>6. TypeOK
  BY <1>1, <1>2, <1>3, <1>4, <1>5 DEF TypeOK, Init, Steps
<1>7. LinksAscend
  BY <1>1 DEF LinksAscend, Init
<1> QED
  BY <1>6, <1>7 DEF Inv

(* What a new entry does to a directory's types, and what mkdir can leave  *)
(* where the root is.                                                      *)
LEMMA EntryFacts ==
  ASSUME NEW d, DOMAIN d = Slots, \A s \in Slots : d[s].first \in Values,
         NEW name, NEW first \in Values
  PROVE  /\ DOMAIN WithEntry(d, name, first) = Slots
         /\ \A s \in Slots : WithEntry(d, name, first)[s].first \in Values
<1> DEFINE open == {s \in Slots : d[s].first \in {Free, Tombstone}}
<1>1. CASE open = {}
  BY <1>1, Zenon DEF WithEntry
<1>2. CASE open # {}
  <2>1. WithEntry(d, name, first) = [d EXCEPT ![Min(open)] = Entry(name, first)]
    BY <1>2, Zenon DEF WithEntry
  <2> HIDE DEF open
  <2> QED
    BY <2>1 DEF Entry
<1> QED
  BY <1>1, <1>2

LEMMA NewDirFacts ==
  ASSUME root \in Values, NEW e \in NewDirs
  PROVE  DOMAIN e = Kept /\ \A s \in Kept : e[s].first \in Values
<1>1. PICK d \in [Slots -> {NoEntry, Garbage}] :
        e = LET new == WithEntry(WithEntry(d, ".", root), "..", root)
            IN  [s \in Kept |-> new[s]]
  BY Zenon DEF NewDirs
<1>2. DOMAIN d = Slots /\ \A s \in Slots : d[s].first \in Values
  <2>1. \A s \in Slots : d[s] = NoEntry \/ d[s] = Garbage
    BY <1>1
  <2> QED
    BY <1>1, <2>1, EmptyFacts, Zenon
<1> DEFINE mid == WithEntry(d, ".", root)
           new == WithEntry(mid, "..", root)
<1>3. DOMAIN mid = Slots /\ \A s \in Slots : mid[s].first \in Values
  BY <1>2, EntryFacts
<1> HIDE DEF mid
<1>4. DOMAIN new = Slots /\ \A s \in Slots : new[s].first \in Values
  BY <1>3, EntryFacts
<1>5. e = [s \in Kept |-> new[s]]
  BY <1>1, Zenon DEF mid
<1> HIDE DEF new
<1> QED
  BY <1>4, <1>5, BlockFacts

(* The first block of an entry that is found is a block or a marker.       *)
LEMMA FoundFacts ==
  ASSUME TypeOK, NEW name, Found(name)
  PROVE  First(name) \in Values /\ Min(Matches(name)) \in Slots
<1>1. Matches(name) \in SUBSET Slots /\ Matches(name) \in SUBSET Nat
  BY BlockFacts DEF Matches
<1>2. Min(Matches(name)) \in Slots
  BY <1>1, MinFacts DEF Found
<1> QED
  BY <1>2 DEF First, TypeOK

(* Marking blocks keeps a table's types and its links ascending.           *)
LEMMA MarkingAscends ==
  ASSUME NEW t \in [Blocks -> Values], Ascends(t), NEW u \in [Blocks -> Values],
         \A b \in Blocks : u[b] = t[b] \/ u[b] \notin Blocks
  PROVE  Ascends(u)
BY DEF Ascends

LEMMA CreateKeeps ==
  ASSUME Inv, NEW name, NEW size \in Nat, Creatable(name, size), Create(name, size)
  PROVE  /\ table' \in [Blocks -> Values] /\ Ascends(table')
         /\ free \in Int => free' \in Int
         /\ root' = root
         /\ DOMAIN dir' = Slots /\ \A s \in Slots : dir'[s].first \in Values
<1>1. /\ Linked(size) \in [Blocks -> Values] /\ Ascends(Linked(size))
      /\ Min(Chosen(size)) \in Blocks
  BY LinkedFacts, SMT DEF Inv, Creatable
<1>2. Min(Chosen(size)) \in Values
  BY <1>1 DEF Values
<1>3. DOMAIN dir' = Slots /\ \A s \in Slots : dir'[s].first \in Values
  BY <1>2, EntryFacts, Zenon DEF Create, Inv, TypeOK
<1> QED
  BY <1>1, <1>3 DEF Create

LEMMA Steady ==
  ASSUME Inv, [Next]_vars
  PROVE  Inv'
<1> USE DEF Inv
<1>1. CASE Write
  <2>1. diskTable' = [b \in Blocks |->
           IF Head(writes)[1] = "table" /\ Sector(b) = Head(writes)[2]
           THEN table[b] ELSE diskTable[b]]
    BY <1>1, Zenon DEF Write
  <2>2. diskTable' \in [Blocks -> Values] /\ Ascends(diskTable')
    BY <2>1 DEF TypeOK, LinksAscend, Ascends
  <2>3. writes' \in Seq(Steps)
    BY <1>1 DEF Write, TypeOK, Steps
  <2>4. diskRoot' \in Blocks \cup {0} /\ diskFree' \in Int
    BY <1>1 DEF Write, TypeOK, memory
  <2>5. DOMAIN diskDir' = Kept /\ \A s \in Kept : diskDir'[s].first \in Values
    <3>1. CASE Head(writes)[1] = "newdir"
      <4>1. diskDir' \in NewDirs
        BY <1>1, <3>1 DEF Write
      <4>2. root \in Values
        BY DEF TypeOK, Values, Free
      <4> QED
        BY <4>1, <4>2, NewDirFacts
    <3>2. CASE Head(writes)[1] # "newdir"
      BY <1>1, <3>2, BlockFacts DEF Write, TypeOK
    <3> QED
      BY <3>1, <3>2
  <2>6. UNCHANGED <<phase, table, root, free, dir, fd, ret, crashes, loose, dotted, gone>>
    BY <1>1 DEF Write, memory, past
  <2> QED
    BY <2>2, <2>3, <2>4, <2>5, <2>6 DEF TypeOK, LinksAscend, Steps
<1>2. ASSUME LoseMemory, crashes' \in 0 .. MaxCrashes PROVE Inv'
  <2>1. NoTable \in [Blocks -> Values] /\ Ascends(NoTable)
    BY BlockFacts DEF NoTable, Values, Ascends
  <2> QED
    BY <1>2, <2>1, EmptyFacts DEF LoseMemory, TypeOK, LinksAscend, disk, Values, Free, Steps
<1>3. CASE Reboot
  BY <1>3, <1>2, Zenon DEF Reboot, TypeOK
<1>4. CASE Crash
  <2>1. crashes' \in 0 .. MaxCrashes
    BY <1>4, MfsConstants DEF Crash, TypeOK
  <2> QED
    BY <1>4, <2>1, <1>2 DEF Crash
<1>5. CASE MountOld
  <2>1. DOMAIN dir' = Slots /\ \A s \in Slots : dir'[s].first \in Values
    <3>1. PICK behind \in {NoEntry, Garbage} :
            dir' = [s \in Slots |-> IF s \in Kept THEN diskDir[s] ELSE behind]
      BY <1>5 DEF MountOld
    <3> QED
      BY <3>1, EmptyFacts DEF TypeOK
  <2> QED
    BY <1>5, <2>1 DEF MountOld, TypeOK, LinksAscend, disk, past
<1>6. CASE MountNew
  <2>1. FreshTable \in [Blocks -> Values] /\ Ascends(FreshTable) /\ FreshRoot \in Blocks
    BY <1>6, FreshFacts DEF MountNew
  <2>2. DOMAIN dir' = Slots /\ \A s \in Slots : dir'[s].first \in Values
    <3>1. PICK behind \in {NoEntry, Garbage} : dir' = FreshDir(behind)
      BY <1>6 DEF MountNew
    <3>2. behind.first \in Values /\ FreshRoot \in Values
      BY <2>1, EmptyFacts DEF Values
    <3> QED
      BY <3>1, <3>2, EmptyFacts DEF FreshDir
  <2>3. free' \in Int
    BY <1>6, MfsConstants DEF MountNew, TypeOK
  <2> QED
    BY <1>6, <2>1, <2>2, <2>3, WriteFacts
       DEF MountNew, TypeOK, LinksAscend, disk, past, Steps
<1>7. CASE MountFails
  <2>1. SaveTable \o SaveSuper \in Seq(Steps)
    BY WriteFacts
  <2> QED
    BY <1>7, <2>1 DEF MountFails, TypeOK, LinksAscend, disk, past, Steps
<1>8. CASE Fails
  BY <1>8 DEF Fails, TypeOK, LinksAscend, disk, memory, past
<1>9. CASE \E name \in Names, size \in Sizes : Touch(name, size)
  <2>1. PICK name \in Names, size \in Sizes : Touch(name, size)
    BY <1>9
  <2>2. CASE Creatable(name, size)
    <3>1. size \in Nat
      BY MfsConstants
    <3>2. Create(name, size) /\ UNCHANGED <<phase, disk, fd, past>>
          /\ writes' = SaveDir(table') \o SaveTable /\ ret' = 0
      BY <2>1, <2>2 DEF Touch
    <3>3. writes' \in Seq(Steps)
      BY <3>2, WriteFacts
    <3> QED
      BY <3>1, <3>2, <3>3, <2>2, CreateKeeps DEF TypeOK, LinksAscend, disk, past, Steps
  <2>3. CASE ~Creatable(name, size)
    BY <2>1, <2>3, <1>8 DEF Touch
  <2> QED
    BY <2>2, <2>3
<1>10. ASSUME NEW name \in Names, Mkdir(name) PROVE Inv'
  <2>1. ASSUME NEW saved \in Seq(Steps), MkdirEnds(saved)
        PROVE  ret' \in {-1, 0, 1} /\ writes' \in Seq(Steps)
    <3>1. SaveTable \in Seq(Steps) /\ SaveSuper \in Seq(Steps)
          /\ <<>> \in Seq(Steps)
      BY WriteFacts
    <3>2. PICK r \in {-1, 0, 1} :
            /\ ret' = r
            /\ writes' = saved \o SaveTable
                           \o IF r = 0 THEN SaveSuper \o SaveTable ELSE <<>>
      BY <2>1 DEF MkdirEnds
    <3> QED
      BY <3>1, <3>2
  <2>0. dotted' \in BOOLEAN /\ UNCHANGED <<phase, disk, fd, crashes, gone>>
    BY <1>10 DEF Mkdir, TypeOK
  <2>2. CASE Found(name) /\ MkdirEnds(Overwriting(name)) /\ UNCHANGED <<memory, loose>>
    <3>1. Overwriting(name) \in Seq(Steps)
      BY DEF Overwriting, Steps
    <3>2. ret' \in {-1, 0, 1} /\ writes' \in Seq(Steps)
      BY <2>1, <2>2, <3>1, Zenon
    <3> QED
      BY <2>0, <2>2, <3>2 DEF TypeOK, LinksAscend, memory, disk, Steps
  <2>3. CASE /\ Creatable(name, DirBlocks) /\ Create(name, DirBlocks)
             /\ IF Found(name)' THEN MkdirEnds(SaveDir(table')) /\ UNCHANGED loose
                ELSE ret' = -1 /\ writes' = SaveDir(table') /\ loose' = TRUE
    <3>1. SaveDir(table') \in Seq(Steps)
      BY WriteFacts
    <3>2. ret' \in {-1, 0, 1} /\ writes' \in Seq(Steps)
      BY <2>1, <2>3, <3>1
    <3>3. DirBlocks \in Nat
      BY MfsConstants
    <3>4. loose' \in BOOLEAN
      BY <2>3 DEF TypeOK
    <3> QED
      BY <2>0, <2>3, <3>2, <3>3, <3>4, CreateKeeps
         DEF TypeOK, LinksAscend, disk, Steps
  <2>4. CASE ret' = -1 /\ UNCHANGED <<memory, writes, loose>>
    BY <2>0, <2>4 DEF TypeOK, LinksAscend, memory, disk
  <2> QED
    BY <1>10, <2>2, <2>3, <2>4 DEF Mkdir
<1>11. ASSUME NEW name \in Names, Open(name) PROVE Inv'
  <2>1. First(name) \in Values
    BY <1>11, FoundFacts DEF Open
  <2> QED
    BY <1>11, <2>1 DEF Open, TypeOK, LinksAscend, memory, disk, past
<1>12. ASSUME NEW name \in Removable, RemoveFile(name) PROVE Inv'
  <2>1. CASE Found(name)
    <3>1. table' = Removed(First(name)) /\ ret' = 0
          /\ writes' = SaveDir(table') \o SaveTable
          /\ UNCHANGED <<phase, root, free, dir, disk, fd, crashes, loose>>
      BY <1>12, <2>1 DEF RemoveFile
    <3>2. table' \in [Blocks -> Values]
      BY <3>1 DEF Removed, TypeOK, Values
    <3>3. Ascends(table')
      <4>1. \A b \in Blocks : table'[b] = table[b] \/ table'[b] \notin Blocks
        BY <3>1, BlockFacts DEF Removed
      <4> QED
        BY <3>2, <4>1, MarkingAscends DEF TypeOK, LinksAscend
    <3>4. writes' \in Seq(Steps)
      BY <3>1, WriteFacts
    <3>5. gone' \subseteq Slots /\ dotted' \in BOOLEAN
      <4>1. Min(Matches(name)) \in Slots
        BY <2>1, FoundFacts
      <4> QED
        BY <1>12, <2>1, <4>1 DEF RemoveFile, TypeOK
    <3> QED
      BY <3>1, <3>2, <3>3, <3>4, <3>5 DEF TypeOK, LinksAscend, disk, Steps
  <2>2. CASE ~Found(name)
    BY <1>12, <2>2, <1>8 DEF RemoveFile
  <2> QED
    BY <2>1, <2>2
<1>13. CASE Clean
  <2>1. table' \in [Blocks -> Values]
    BY <1>13 DEF Clean, Cleaned, TypeOK, Values
  <2>2. Ascends(table')
    <3>1. \A b \in Blocks : table'[b] = table[b] \/ table'[b] \notin Blocks
      BY <1>13, BlockFacts DEF Clean, Cleaned
    <3> QED
      BY <2>1, <3>1, MarkingAscends DEF TypeOK, LinksAscend
  <2>3. free' \in Int
    <3>1. IsFiniteSet(Tombs(table))
      BY BlockFacts, FS_Subset DEF Tombs
    <3>2. Cardinality(Tombs(table)) \in Nat
      BY <3>1, FS_CardinalityType
    <3> QED
      BY <1>13, <3>2 DEF Clean, TypeOK
  <2>4. SaveTable \o SaveSuper \in Seq(Steps)
    BY WriteFacts
  <2> QED
    BY <1>13, <2>1, <2>2, <2>3, <2>4 DEF Clean, TypeOK, LinksAscend, disk, Steps
<1>14. CASE Chmod
  BY <1>14, WriteFacts DEF Chmod, TypeOK, LinksAscend, memory, disk, past, Steps
<1>15. CASE Extend
  <2>1. table' \in [Blocks -> Values] /\ Ascends(table') /\ free' \in Int
    <3>1. CASE Enough(1)
      BY <1>15, <3>1, LinkedFacts DEF Extend, TypeOK
    <3>2. CASE ~Enough(1)
      BY <1>15, <3>2 DEF Extend, TypeOK, LinksAscend
    <3> QED
      BY <3>1, <3>2
  <2>2. writes' \in Seq(Steps)
    <3>1. SaveTable \in Seq(Steps) /\ <<>> \in Seq(Steps)
      BY WriteFacts
    <3> QED
      BY <1>15, <3>1 DEF Extend
  <2> QED
    BY <1>15, <2>1, <2>2 DEF Extend, TypeOK, LinksAscend, disk, past, Steps
<1>16. CASE UNCHANGED vars
  BY <1>16 DEF vars, memory, disk, past, TypeOK, LinksAscend
<1> QED
  BY <1>1, <1>3, <1>4, <1>5, <1>6, <1>7, <1>9, <1>10, <1>11, <1>12, <1>13,
     <1>14, <1>15, <1>16 DEF Next

-----------------------------------------------------------------------------
(* What every state satisfies, after any number of operations and crashes: *)
(* the types, and that links lead upwards in memory and on the disk.       *)
THEOREM Invariance == Spec => []Inv
BY Initially, Steady, PTL DEF Spec

(* The explorer's copies and the disk have the types that TypeOK states,   *)
(* whatever operations are made and wherever the machine stops.            *)
THEOREM TypeCorrect == Spec => []TypeOK
BY Invariance, PTL DEF Inv

(* Every chain ascends, in memory and on the disk, torn writes of the      *)
(* table included: no loop of ifat.c over a chain can run forever.         *)
THEOREM ChainsAscend == Spec => []LinksAscend
BY Invariance, PTL DEF Inv

-----------------------------------------------------------------------------
(* What is queued.  The superblock is never due but behind a save of the   *)
(* whole table.                                                            *)
TableIn(w, b, n) == \E j \in 1 .. n : j \in DOMAIN w /\ w[j] = <<"table", Sector(b)>>
WholeTable(w) == \A b \in Blocks : TableIn(w, b, Len(w))
TableFirst(w) ==
  \A i \in DOMAIN w : w[i][1] = "super" => \A b \in Blocks : TableIn(w, b, i - 1)
NoSuper(w) == \A i \in DOMAIN w : w[i][1] # "super"
NoWild(w) == \A i \in DOMAIN w : w[i][1] # "newdir"
HasDir(w) == \E i \in DOMAIN w : w[i][1] = "dir"

LEMMA AppendFacts ==
  ASSUME NEW p \in Seq(Steps), NEW q \in Seq(Steps)
  PROVE  /\ p \o q \in Seq(Steps) /\ Len(p \o q) = Len(p) + Len(q)
         /\ DOMAIN p = 1 .. Len(p) /\ DOMAIN q = 1 .. Len(q)
         /\ DOMAIN (p \o q) = 1 .. Len(p) + Len(q)
         /\ Len(p) \in Nat /\ Len(q) \in Nat
         /\ \A i \in DOMAIN p : (p \o q)[i] = p[i]
         /\ \A i \in DOMAIN q : (p \o q)[Len(p) + i] = q[i]
         /\ \A i \in DOMAIN (p \o q) :
              i \in DOMAIN p \/ i - Len(p) \in DOMAIN q
BY SMT

LEMMA AppendKeeps ==
  ASSUME NEW p \in Seq(Steps), NEW q \in Seq(Steps)
  PROVE  /\ HasDir(p) \/ HasDir(q) => HasDir(p \o q)
         /\ WholeTable(p) \/ WholeTable(q) => WholeTable(p \o q)
         /\ NoSuper(p) /\ NoSuper(q) => NoSuper(p \o q)
         /\ NoWild(p) /\ NoWild(q) => NoWild(p \o q)
         /\ TableFirst(p) /\ NoSuper(q) => TableFirst(p \o q)
         /\ NoSuper(p) /\ TableFirst(q) => TableFirst(p \o q)
<1> DEFINE w == p \o q
<1>1. /\ w \in Seq(Steps) /\ Len(w) = Len(p) + Len(q)
      /\ DOMAIN p = 1 .. Len(p) /\ DOMAIN q = 1 .. Len(q) /\ DOMAIN w = 1 .. Len(p) + Len(q)
      /\ Len(p) \in Nat /\ Len(q) \in Nat
      /\ \A i \in DOMAIN p : w[i] = p[i]
      /\ \A i \in DOMAIN q : w[Len(p) + i] = q[i]
      /\ \A i \in DOMAIN w : i \in DOMAIN p \/ i - Len(p) \in DOMAIN q
  BY AppendFacts
<1> HIDE DEF w
<1>2. \A i \in DOMAIN q : Len(p) + i \in DOMAIN w
  BY <1>1
<1>3. \A i \in DOMAIN p : i \in DOMAIN w
  BY <1>1
<1>4. ASSUME NEW i \in DOMAIN w
      PROVE  \/ i \in DOMAIN p /\ w[i] = p[i]
             \/ i - Len(p) \in DOMAIN q /\ w[i] = q[i - Len(p)]
  <2>1. i \in Int /\ Len(p) + (i - Len(p)) = i
    BY <1>1, <1>4
  <2>2. ASSUME i - Len(p) \in DOMAIN q PROVE w[i] = q[i - Len(p)]
    <3>1. w[Len(p) + (i - Len(p))] = q[i - Len(p)]
      BY <1>1, <2>2
    <3> QED
      BY <2>1, <3>1
  <2> QED
    BY <1>1, <1>4, <2>2
<1>5. HasDir(p) \/ HasDir(q) => HasDir(w)
  BY <1>1, <1>2, <1>3 DEF HasDir
<1>6. ASSUME NEW b \in Blocks, NEW n \in Nat, TableIn(q, b, n)
      PROVE  TableIn(w, b, Len(p) + n)
  <2>1. PICK j \in 1 .. n : j \in DOMAIN q /\ q[j] = <<"table", Sector(b)>>
    BY <1>6 DEF TableIn
  <2>2. Len(p) + j \in DOMAIN w /\ w[Len(p) + j] = <<"table", Sector(b)>>
    BY <1>1, <1>2, <2>1
  <2>3. Len(p) + j \in 1 .. Len(p) + n
    BY <1>1, <2>1
  <2> QED
    BY <2>2, <2>3 DEF TableIn
<1>7. ASSUME NEW b \in Blocks, NEW n \in Nat, NEW m \in Nat, n <= m, TableIn(p, b, n)
      PROVE  TableIn(w, b, m)
  <2>1. PICK j \in 1 .. n : j \in DOMAIN p /\ p[j] = <<"table", Sector(b)>>
    BY <1>7 DEF TableIn
  <2>2. j \in DOMAIN w /\ w[j] = <<"table", Sector(b)>> /\ j \in 1 .. m
    BY <1>1, <1>3, <1>7, <2>1
  <2> QED
    BY <2>2 DEF TableIn
<1>8. WholeTable(p) \/ WholeTable(q) => WholeTable(w)
  <2>1. Len(w) \in Nat /\ Len(p) <= Len(w)
    BY <1>1
  <2> QED
    BY <1>1, <1>6, <1>7, <2>1 DEF WholeTable
<1>9. NoSuper(p) /\ NoSuper(q) => NoSuper(w)
  BY <1>4 DEF NoSuper
<1>12. NoWild(p) /\ NoWild(q) => NoWild(w)
  BY <1>4 DEF NoWild
<1>10. ASSUME TableFirst(p), NoSuper(q) PROVE TableFirst(w)
  <2> SUFFICES ASSUME NEW i \in DOMAIN w, w[i][1] = "super", NEW b \in Blocks
               PROVE  TableIn(w, b, i - 1)
    BY DEF TableFirst
  <2>1. i \in DOMAIN p /\ p[i][1] = "super"
    BY <1>4, <1>10 DEF NoSuper
  <2>2. TableIn(p, b, i - 1) /\ i - 1 \in Nat
    BY <1>1, <1>10, <2>1 DEF TableFirst
  <2> QED
    BY <1>7, <2>2
<1>11. ASSUME NoSuper(p), TableFirst(q) PROVE TableFirst(w)
  <2> SUFFICES ASSUME NEW i \in DOMAIN w, w[i][1] = "super", NEW b \in Blocks
               PROVE  TableIn(w, b, i - 1)
    BY DEF TableFirst
  <2>1. i - Len(p) \in DOMAIN q /\ q[i - Len(p)][1] = "super"
    BY <1>4, <1>11 DEF NoSuper
  <2>2. TableIn(q, b, (i - Len(p)) - 1) /\ (i - Len(p)) - 1 \in Nat /\ i \in Int
    BY <1>1, <1>11, <2>1 DEF TableFirst
  <2>3. Len(p) + ((i - Len(p)) - 1) = i - 1
    BY <1>1, <2>2
  <2>4. TableIn(w, b, Len(p) + ((i - Len(p)) - 1))
    BY <1>6, <2>2
  <2> QED
    BY <2>3, <2>4
<1> QED
  BY <1>5, <1>8, <1>9, <1>10, <1>11, <1>12 DEF w

(* The pieces: a save of the directory, of the table, of the superblock.   *)
LEMMA PieceFacts ==
  /\ WholeTable(SaveTable) /\ NoSuper(SaveTable) /\ TableFirst(SaveTable)
  /\ \A t : NoSuper(SaveDir(t)) /\ TableFirst(SaveDir(t))
  /\ \A t : Intact(t, root) => HasDir(SaveDir(t))
  /\ NoSuper(<<>>) /\ TableFirst(<<>>)
  /\ NoWild(SaveTable) /\ NoWild(SaveSuper) /\ NoWild(<<>>) /\ \A t : NoWild(SaveDir(t))
  /\ \A p \in Seq(Steps) : WholeTable(p) /\ NoSuper(p) => TableFirst(p \o SaveSuper)
<1>1. ASSUME NEW b \in Blocks PROVE Sector(b) + 1 \in 1 .. LastSector + 1
  <2>1. b - 1 \in Nat /\ NumBlocks - 2 \in Nat /\ b - 1 <= NumBlocks - 2
    BY MfsConstants DEF Blocks
  <2>2. PerSector \in Nat \ {0}
    BY MfsConstants
  <2>3. (b - 1) \div PerSector \in Nat /\ (NumBlocks - 2) \div PerSector \in Nat
        /\ (b - 1) \div PerSector <= (NumBlocks - 2) \div PerSector
    BY <2>1, <2>2, DivMonotonic
  <2> QED
    BY <2>3 DEF Sector, LastSector
<1>2. SaveTable \in Seq(Steps)
  BY WriteFacts
<1>3. DOMAIN SaveTable = 1 .. LastSector + 1
      /\ \A i \in DOMAIN SaveTable : SaveTable[i] = <<"table", i - 1>>
  BY DEF SaveTable
<1>4. WholeTable(SaveTable)
  <2> SUFFICES ASSUME NEW b \in Blocks PROVE TableIn(SaveTable, b, Len(SaveTable))
    BY DEF WholeTable
  <2>0. DOMAIN SaveTable = 1 .. Len(SaveTable)
    BY <1>2
  <2>1. Sector(b) + 1 \in DOMAIN SaveTable /\ Sector(b) + 1 \in 1 .. Len(SaveTable)
    BY <1>1, <1>3, <2>0
  <2>2. Sector(b) \in Int
    BY <1>1, MfsConstants DEF Sector, Blocks
  <2>3. SaveTable[Sector(b) + 1] = <<"table", Sector(b)>>
    BY <1>3, <2>1, <2>2
  <2> QED
    BY <2>1, <2>3 DEF TableIn
<1>5. NoSuper(SaveTable) /\ TableFirst(SaveTable)
  BY <1>3 DEF NoSuper, TableFirst
<1>6. \A t : NoSuper(SaveDir(t)) /\ TableFirst(SaveDir(t))
  BY DEF SaveDir, NoSuper, TableFirst
<1>7. \A t : Intact(t, root) => HasDir(SaveDir(t))
  <2>1. HasDir(<<<<"dir", 0>>>>)
    <3>1. 1 \in DOMAIN <<<<"dir", 0>>>> /\ <<<<"dir", 0>>>>[1][1] = "dir"
      OBVIOUS
    <3> QED
      BY <3>1 DEF HasDir
  <2> QED
    BY <2>1 DEF SaveDir
<1>8. NoSuper(<<>>) /\ TableFirst(<<>>)
  BY DEF NoSuper, TableFirst
<1>9. ASSUME NEW p \in Seq(Steps), WholeTable(p), NoSuper(p) PROVE TableFirst(p \o SaveSuper)
  <2> DEFINE w == p \o SaveSuper
  <2>1. SaveSuper \in Seq(Steps) /\ Len(SaveSuper) = 1
    BY WriteFacts DEF SaveSuper
  <2>2. /\ DOMAIN p = 1 .. Len(p) /\ DOMAIN w = 1 .. Len(p) + 1 /\ Len(p) \in Nat
        /\ \A i \in DOMAIN p : w[i] = p[i]
    BY <2>1, AppendFacts
  <2> HIDE DEF w
  <2> SUFFICES ASSUME NEW i \in DOMAIN w, w[i][1] = "super", NEW b \in Blocks
               PROVE  TableIn(w, b, i - 1)
    BY DEF TableFirst, w
  <2>3. i = Len(p) + 1
    BY <1>9, <2>2 DEF NoSuper
  <2>4. PICK j \in 1 .. Len(p) : j \in DOMAIN p /\ p[j] = <<"table", Sector(b)>>
    BY <1>9 DEF WholeTable, TableIn
  <2>5. j \in DOMAIN w /\ w[j] = <<"table", Sector(b)>> /\ j \in 1 .. i - 1
    BY <2>2, <2>3, <2>4
  <2> QED
    BY <2>5 DEF TableIn
<1>10. NoWild(SaveTable) /\ NoWild(SaveSuper) /\ NoWild(<<>>) /\ \A t : NoWild(SaveDir(t))
  BY <1>3 DEF NoWild, SaveSuper, SaveDir
<1> QED
  BY <1>4, <1>5, <1>6, <1>7, <1>8, <1>9, <1>10
-----------------------------------------------------------------------------
(* The operations a caller can make, by what they do to the copies in      *)
(* memory: nothing, a new file or directory, a removal, cleaning, and the  *)
(* block that extend takes.                                                *)
Operation ==
  \/ \E name \in Names, size \in Sizes : Touch(name, size)
  \/ \E name \in Names : Mkdir(name) \/ Open(name)
  \/ \E name \in Removable : RemoveFile(name)
  \/ Clean \/ Chmod \/ Extend

Older == (loose => loose') /\ (dotted => dotted') /\ gone \subseteq gone'
Leaves == UNCHANGED <<table, free, dir>>
Creates(name, size) ==
  /\ Creatable(name, size) /\ Create(name, size)
  /\ WholeTable(writes') \/ loose'
  /\ Intact(table', root) => HasDir(writes')
Removes(name) ==
  /\ Found(name)
  /\ table' = Removed(First(name))
  /\ UNCHANGED <<free, dir>>
  /\ WholeTable(writes')
  /\ Min(Matches(name)) \in gone' /\ (name = "." => dotted')
Cleans ==
  /\ table' = Cleaned /\ free' = free + Cardinality(Tombs(table))
  /\ UNCHANGED dir
  /\ loose' /\ ~NoSuper(writes')
Takes ==
  /\ Enough(1) /\ table' = Linked(1) /\ free' = free - 1
  /\ UNCHANGED dir

(* What mkdir does to a directory there is: the only sector ever queued    *)
(* that does not hold what is in memory goes over the root.                *)
Rewrites(name) == Found(name) /\ First(name) = root /\ (name = "." => dotted')

LEMMA MkdirQueue ==
  ASSUME NEW saved \in Seq(Steps), NoSuper(saved), MkdirEnds(saved)
  PROVE  /\ writes' \in Seq(Steps) /\ TableFirst(writes') /\ WholeTable(writes')
         /\ HasDir(saved) => HasDir(writes')
         /\ NoWild(saved) => NoWild(writes')
<1> DEFINE p == saved \o SaveTable
<1>1. SaveTable \in Seq(Steps) /\ SaveSuper \in Seq(Steps) /\ <<>> \in Seq(Steps)
  BY WriteFacts
<1>2. /\ p \in Seq(Steps) /\ NoSuper(p) /\ WholeTable(p) /\ TableFirst(p)
      /\ HasDir(saved) => HasDir(p)
      /\ NoWild(saved) => NoWild(p)
  <2>1. p \in Seq(Steps)
    BY <1>1, AppendFacts
  <2>2. NoSuper(p) /\ WholeTable(p) /\ (HasDir(saved) => HasDir(p)) /\ TableFirst(p)
        /\ (NoWild(saved) => NoWild(p))
    BY <1>1, AppendKeeps, PieceFacts
  <2> QED
    BY <2>1, <2>2
<1>3. PICK r \in {-1, 0, 1} : writes' = p \o IF r = 0 THEN SaveSuper \o SaveTable ELSE <<>>
  BY DEF MkdirEnds
<1> HIDE DEF p
<1>4. CASE r # 0
  <2>1. writes' = p
    BY <1>2, <1>3, <1>4
  <2> QED
    BY <1>2, <2>1
<1>5. CASE r = 0
  <2>1. writes' = p \o (SaveSuper \o SaveTable)
    BY <1>3, <1>5
  <2>2. writes' = (p \o SaveSuper) \o SaveTable
    BY <1>1, <1>2, <2>1
  <2>3. p \o SaveSuper \in Seq(Steps) /\ TableFirst(p \o SaveSuper)
        /\ WholeTable(p \o SaveSuper) /\ (HasDir(p) => HasDir(p \o SaveSuper))
        /\ (NoWild(p) => NoWild(p \o SaveSuper))
    BY <1>1, <1>2, AppendFacts, AppendKeeps, PieceFacts
  <2>4. writes' \in Seq(Steps)
    BY <1>1, <2>2, <2>3, AppendFacts
  <2>5. TableFirst(writes') /\ WholeTable(writes') /\ (HasDir(p) => HasDir(writes'))
        /\ (NoWild(p) => NoWild(writes'))
    BY <1>1, <2>2, <2>3, AppendKeeps, PieceFacts
  <2> QED
    BY <1>2, <2>4, <2>5
<1> QED
  BY <1>4, <1>5

LEMMA OperationShape ==
  ASSUME Inv, Operation
  PROVE  /\ Ready /\ phase' = phase /\ UNCHANGED <<disk, root, crashes>> /\ Older
         /\ writes' \in Seq(Steps) /\ TableFirst(writes')
         /\ NoWild(writes') \/ \E name \in Names : Rewrites(name)
         /\ \/ Leaves
            \/ \E name \in Names, size \in Nat \ {0} : Creates(name, size)
            \/ \E name \in Removable : Removes(name)
            \/ Cleans
            \/ Takes
<1>1. SaveTable \in Seq(Steps) /\ SaveSuper \in Seq(Steps) /\ <<>> \in Seq(Steps)
      /\ \A t : SaveDir(t) \in Seq(Steps)
  BY WriteFacts
<1>2. ASSUME NEW t
      PROVE  /\ SaveDir(t) \o SaveTable \in Seq(Steps)
             /\ TableFirst(SaveDir(t) \o SaveTable) /\ WholeTable(SaveDir(t) \o SaveTable)
             /\ NoWild(SaveDir(t) \o SaveTable)
             /\ Intact(t, root) => HasDir(SaveDir(t) \o SaveTable)
  <2>1. SaveDir(t) \in Seq(Steps) /\ NoSuper(SaveDir(t)) /\ TableFirst(SaveDir(t))
        /\ NoWild(SaveDir(t))
        /\ (Intact(t, root) => HasDir(SaveDir(t)))
    BY <1>1, PieceFacts
  <2> QED
    BY <1>1, <2>1, AppendFacts, AppendKeeps, PieceFacts
<1>3. ASSUME Fails, Ready
      PROVE  /\ Ready /\ phase' = phase /\ UNCHANGED <<disk, root, crashes>>
             /\ Older /\ NoWild(writes')
             /\ writes' \in Seq(Steps) /\ TableFirst(writes') /\ Leaves
  BY <1>1, <1>3, PieceFacts DEF Fails, Ready, memory, past, Older, Leaves
<1>4. ASSUME NEW name \in Names, NEW size \in Sizes, Touch(name, size)
      PROVE  /\ Ready /\ phase' = phase /\ UNCHANGED <<disk, root, crashes>>
             /\ Older /\ NoWild(writes')
             /\ writes' \in Seq(Steps) /\ TableFirst(writes')
             /\ Leaves \/ \E n \in Names, s \in Nat \ {0} : Creates(n, s)
  <2>1. CASE Creatable(name, size)
    <3>1. size \in Nat \ {0}
      BY <2>1, MfsConstants DEF Creatable
    <3>2. /\ Ready /\ Create(name, size) /\ writes' = SaveDir(table') \o SaveTable
          /\ UNCHANGED <<phase, disk, fd, past>>
      BY <1>4, <2>1 DEF Touch
    <3>3. Creates(name, size)
      BY <1>2, <2>1, <3>2 DEF Creates
    <3> QED
      BY <1>2, <3>1, <3>2, <3>3 DEF Create, past, Older
  <2>2. CASE ~Creatable(name, size)
    BY <1>3, <1>4, <2>2 DEF Touch
  <2> QED
    BY <2>1, <2>2
<1>5. ASSUME NEW name \in Names, Mkdir(name)
      PROVE  /\ Ready /\ phase' = phase /\ UNCHANGED <<disk, root, crashes>> /\ Older
             /\ NoWild(writes') \/ Rewrites(name)
             /\ writes' \in Seq(Steps) /\ TableFirst(writes')
             /\ Leaves \/ \E n \in Names, s \in Nat \ {0} : Creates(n, s)
  <2>0. Ready /\ UNCHANGED <<phase, disk, fd, crashes, gone>>
    BY <1>5 DEF Mkdir
  <2>1. CASE /\ Found(name) /\ MkdirEnds(Overwriting(name))
             /\ dotted' = (dotted \/ name = ".") /\ UNCHANGED <<memory, loose>>
    <3>1. Overwriting(name) \in Seq(Steps) /\ NoSuper(Overwriting(name))
      BY DEF Overwriting, Steps, NoSuper
    <3>2. /\ writes' \in Seq(Steps) /\ TableFirst(writes')
          /\ NoWild(Overwriting(name)) => NoWild(writes')
      BY <2>1, <3>1, MkdirQueue
    <3>3. NoWild(Overwriting(name)) \/ First(name) = root
      BY PieceFacts DEF Overwriting
    <3> QED
      BY <2>0, <2>1, <3>2, <3>3 DEF memory, Leaves, Older, Rewrites
  <2>2. CASE /\ Creatable(name, DirBlocks) /\ Create(name, DirBlocks)
             /\ IF Found(name)' THEN MkdirEnds(SaveDir(table')) /\ UNCHANGED loose
                ELSE ret' = -1 /\ writes' = SaveDir(table') /\ loose' = TRUE
             /\ UNCHANGED dotted
    <3>1. DirBlocks \in Nat \ {0}
      BY MfsConstants
    <3>2. /\ SaveDir(table') \in Seq(Steps) /\ NoSuper(SaveDir(table'))
          /\ NoWild(SaveDir(table'))
          /\ TableFirst(SaveDir(table'))
          /\ Intact(table', root) => HasDir(SaveDir(table'))
      BY <1>1, PieceFacts
    <3>3. CASE Found(name)'
      <4>1. MkdirEnds(SaveDir(table')) /\ loose' = loose
        BY <2>2, <3>3
      <4>2. /\ writes' \in Seq(Steps) /\ TableFirst(writes') /\ WholeTable(writes')
            /\ NoWild(writes') /\ (HasDir(SaveDir(table')) => HasDir(writes'))
        BY <3>2, <4>1, MkdirQueue
      <4>3. Creates(name, DirBlocks)
        BY <2>2, <3>2, <4>2 DEF Creates
      <4> QED
        BY <2>0, <2>2, <3>1, <4>1, <4>2, <4>3 DEF Create, Older
    <3>4. CASE ~Found(name)'
      <4>1. writes' = SaveDir(table') /\ loose'
        BY <2>2, <3>4
      <4>2. Creates(name, DirBlocks)
        BY <2>2, <3>2, <4>1 DEF Creates
      <4> QED
        BY <2>0, <2>2, <3>1, <3>2, <4>1, <4>2 DEF Create, Older
    <3> QED
      BY <3>3, <3>4
  <2>3. CASE UNCHANGED <<memory, writes, loose, dotted>>
    BY <1>1, <2>0, <2>3, PieceFacts DEF memory, Leaves, Ready, Older
  <2> QED
    BY <1>5, <2>1, <2>2, <2>3 DEF Mkdir
<1>6. ASSUME NEW name \in Removable, RemoveFile(name)
      PROVE  /\ Ready /\ phase' = phase /\ UNCHANGED <<disk, root, crashes>>
             /\ Older /\ NoWild(writes')
             /\ writes' \in Seq(Steps) /\ TableFirst(writes')
             /\ Leaves \/ Removes(name)
  <2>1. CASE Found(name)
    BY <1>2, <1>6, <2>1 DEF RemoveFile, Removes, Older
  <2>2. CASE ~Found(name)
    BY <1>3, <1>6, <2>2 DEF RemoveFile
  <2> QED
    BY <2>1, <2>2
<1>7. ASSUME Clean
      PROVE  /\ Ready /\ phase' = phase /\ UNCHANGED <<disk, root, crashes>>
             /\ Older /\ NoWild(writes')
             /\ writes' \in Seq(Steps) /\ TableFirst(writes') /\ Cleans
  <2>1. /\ Ready /\ writes' = SaveTable \o SaveSuper
        /\ UNCHANGED <<phase, root, dir, disk, fd, crashes, dotted, gone>>
        /\ table' = Cleaned /\ free' = free + Cardinality(Tombs(table)) /\ loose'
    BY <1>7 DEF Clean
  <2>2. writes' \in Seq(Steps) /\ TableFirst(writes') /\ NoWild(writes')
    BY <1>1, <2>1, AppendFacts, AppendKeeps, PieceFacts
  <2>3. ~NoSuper(writes')
    <3>1. Len(SaveSuper) = 1 /\ 1 \in DOMAIN SaveSuper /\ SaveSuper[1][1] = "super"
      BY DEF SaveSuper
    <3>2. /\ DOMAIN writes' = 1 .. Len(SaveTable) + 1 /\ Len(SaveTable) \in Nat
          /\ writes'[Len(SaveTable) + 1] = SaveSuper[1]
      <4> DEFINE p == SaveTable
                 q == SaveSuper
      <4>1. p \in Seq(Steps) /\ q \in Seq(Steps) /\ writes' = p \o q
            /\ Len(q) = 1 /\ 1 \in DOMAIN q
        BY <1>1, <2>1, <3>1
      <4> HIDE DEF p, q
      <4>2. /\ DOMAIN (p \o q) = 1 .. Len(p) + Len(q) /\ Len(p) \in Nat
            /\ (p \o q)[Len(p) + 1] = q[1]
        BY <4>1, AppendFacts
      <4> QED
        BY <4>1, <4>2 DEF p, q
    <3>3. Len(SaveTable) + 1 \in DOMAIN writes'
      BY <3>2
    <3> QED
      BY <3>1, <3>2, <3>3 DEF NoSuper
  <2> QED
    BY <2>1, <2>2, <2>3 DEF Cleans, Older
<1>8. ASSUME Chmod \/ \E name \in Names : Open(name)
      PROVE  /\ Ready /\ phase' = phase /\ UNCHANGED <<disk, root, crashes>>
             /\ Older /\ NoWild(writes')
             /\ writes' \in Seq(Steps) /\ TableFirst(writes') /\ Leaves
  <2>1. CASE Chmod
    <3>1. writes' = SaveDir(table) /\ Ready /\ UNCHANGED <<phase, memory, disk, past>>
      BY <2>1 DEF Chmod
    <3> QED
      BY <1>1, <3>1, PieceFacts DEF memory, past, Leaves, Older
  <2>2. ASSUME NEW name \in Names, Open(name)
        PROVE  Ready /\ UNCHANGED <<phase, memory, disk, writes, past>>
    BY <2>2 DEF Open
  <2>3. CASE \E name \in Names : Open(name)
    BY <1>1, <2>2, <2>3, PieceFacts DEF memory, past, Leaves, Ready, Older
  <2> QED
    BY <1>8, <2>1, <2>3
<1>9. ASSUME Extend
      PROVE  /\ Ready /\ phase' = phase /\ UNCHANGED <<disk, root, crashes>>
             /\ Older /\ NoWild(writes')
             /\ writes' \in Seq(Steps) /\ TableFirst(writes') /\ (Leaves \/ Takes)
  <2>1. /\ Ready /\ writes' = IF Intact(table', fd) THEN SaveTable ELSE <<>>
        /\ UNCHANGED <<phase, root, dir, disk, fd, past>>
        /\ \/ Enough(1) /\ table' = Linked(1) /\ free' = free - 1
           \/ UNCHANGED <<table, free>>
    BY <1>9 DEF Extend
  <2>2. writes' \in Seq(Steps) /\ TableFirst(writes') /\ NoWild(writes')
    BY <1>1, <2>1, PieceFacts
  <2> QED
    BY <2>1, <2>2 DEF Leaves, Takes, past, Older
<1> QED
  BY <1>4, <1>5, <1>6, <1>7, <1>8, <1>9 DEF Operation
LEMMA NextShape ==
  ASSUME [Next]_vars
  PROVE  \/ Write \/ Reboot \/ Crash
         \/ MountOld \/ MountNew \/ MountFails
         \/ Operation \/ UNCHANGED vars
BY DEF Next, Operation

(* What a write leaves of the queue, and what it does to the disk.         *)
LEMMA WriteShape ==
  ASSUME Inv, Write
  PROVE  /\ UNCHANGED <<phase, table, root, free, dir, crashes, loose, dotted, gone>>
         /\ 1 \in DOMAIN writes
         /\ \A i \in DOMAIN writes' : i \in Nat /\ i + 1 \in DOMAIN writes /\ writes'[i] = writes[i + 1]
         /\ \A i \in DOMAIN writes : i \in Nat /\ (i # 1 => i - 1 \in DOMAIN writes' /\ writes'[i - 1] = writes[i])
         /\ writes[1][1] # "newdir" =>
              diskDir' = IF writes[1][1] = "dir" THEN [s \in Kept |-> dir[s]] ELSE diskDir
         /\ diskTable' = [b \in Blocks |-> IF writes[1] = <<"table", Sector(b)>>
                                           THEN table[b] ELSE diskTable[b]]
         /\ diskRoot' = IF writes[1][1] = "super" THEN root ELSE diskRoot
         /\ diskFree' = IF writes[1][1] = "super" THEN free ELSE diskFree
<1>1. writes \in Seq(Steps) /\ writes # <<>>
  BY DEF Write, Inv, TypeOK, Steps
<1>2. /\ Head(writes) = writes[1] /\ 1 \in DOMAIN writes /\ writes[1] \in Steps
      /\ writes' = Tail(writes)
  BY <1>1 DEF Write
<1>3. \A b : writes[1] = <<"table", Sector(b)>> <=>
             writes[1][1] = "table" /\ Sector(b) = writes[1][2]
  BY <1>2 DEF Steps
<1>4. diskTable' = [b \in Blocks |-> IF writes[1] = <<"table", Sector(b)>>
                                     THEN table[b] ELSE diskTable[b]]
  <2>1. diskTable' = [b \in Blocks |-> IF writes[1][1] = "table" /\ Sector(b) = writes[1][2]
                                       THEN table[b] ELSE diskTable[b]]
    BY <1>2, Zenon DEF Write
  <2> QED
    BY <1>3, <2>1
<1>5. \A i \in DOMAIN writes' : i \in Nat /\ i + 1 \in DOMAIN writes /\ writes'[i] = writes[i + 1]
  BY <1>1, <1>2
<1>6. \A i \in DOMAIN writes :
        i \in Nat /\ (i # 1 => i - 1 \in DOMAIN writes' /\ writes'[i - 1] = writes[i])
  BY <1>1, <1>2
<1> QED
  BY <1>2, <1>4, <1>5, <1>6 DEF Write, memory, past

(* A new entry takes the lowest slot that is free or was removed.          *)
LEMMA WithEntryFacts ==
  ASSUME NEW name, NEW first
  PROVE  \/ WithEntry(dir, name, first) = dir
         \/ \E m \in Slots :
              /\ dir[m].first \in {Free, Tombstone}
              /\ \A t \in 1 .. m - 1 : dir[t].first \notin {Free, Tombstone}
              /\ WithEntry(dir, name, first) = [dir EXCEPT ![m] = Entry(name, first)]
<1> DEFINE open == {s \in Slots : dir[s].first \in {Free, Tombstone}}
           m == Min(open)
<1>1. CASE open = {}
  BY <1>1, Zenon DEF WithEntry
<1>2. CASE open # {}
  <2>1. WithEntry(dir, name, first) = [dir EXCEPT ![m] = Entry(name, first)]
    BY <1>2, Zenon DEF WithEntry
  <2>2. m \in open /\ \A s \in open : m <= s
    <3>1. open \in SUBSET Nat
      BY BlockFacts
    <3> QED
      BY <1>2, <3>1, MinFacts
  <2> HIDE DEF m
  <2>3. ASSUME NEW t \in 1 .. m - 1 PROVE t \notin open
    <3>1. m \in Nat /\ t < m /\ t \in Int
      BY <2>2, BlockFacts
    <3> QED
      BY <2>2, <3>1
  <2>4. \A t \in 1 .. m - 1 : t \in Slots
    <3>1. m \in Slots
      BY <2>2
    <3> HIDE DEF open
    <3> QED
      BY <3>1, MfsConstants DEF Slots
  <2> QED
    BY <2>1, <2>2, <2>3, <2>4
<1> QED
  BY <1>1, <1>2

-----------------------------------------------------------------------------
(* Listing.  A slot that is free has nothing a caller named behind it, in  *)
(* memory and on the disk.  NoEntry has the empty name, so no name may be  *)
(* stored as that.                                                         *)
NamesGiven == "" \notin {Stored[n] : n \in Names}

Compact(d, slots) ==
  \A s \in slots : \A t \in 1 .. s - 1 :
    d[s].name \in {Stored[n] : n \in Names} => d[t].first # Free
LInv == Compact(dir, Slots) /\ Compact(diskDir, Kept)

LEMMA CreateCompact ==
  ASSUME Inv, Compact(dir, Slots), NEW name \in Names, NEW size \in Nat \ {0},
         Creatable(name, size), Create(name, size)
  PROVE  Compact(dir', Slots)
<1> DEFINE first == Min(Chosen(size))
<1>1. dir' = WithEntry(dir, Stored[name], first)
  BY DEF Create
<1>2. first # Free
  <2>1. first \in Blocks
    BY LinkedFacts DEF Inv, Creatable
  <2> QED
    BY <2>1, BlockFacts
<1> HIDE DEF first
<1>3. CASE dir' = dir
  BY <1>3 DEF Compact
<1>4. ASSUME NEW m \in Slots,
             \A t \in 1 .. m - 1 : dir[t].first \notin {Free, Tombstone},
             dir' = [dir EXCEPT ![m] = Entry(Stored[name], first)]
      PROVE  Compact(dir', Slots)
  <2>1. DOMAIN dir = Slots
    BY DEF Inv, TypeOK
  <2>2. dir'[m].first = first /\ \A s \in Slots : s # m => dir'[s] = dir[s]
    BY <1>4, <2>1 DEF Entry
  <2> SUFFICES ASSUME NEW s \in Slots, NEW t \in 1 .. s - 1,
                      dir'[s].name \in {Stored[n] : n \in Names}
               PROVE  dir'[t].first # Free
    BY DEF Compact
  <2>3. t \in Slots /\ t # s
    <3>1. NumSlots \in Nat /\ s \in 1 .. NumSlots /\ t \in 1 .. s - 1
      BY MfsConstants DEF Slots
    <3> QED
      BY <3>1 DEF Slots
  <2>4. CASE t = m
    BY <1>2, <2>2, <2>4
  <2>5. CASE t # m /\ s = m
    BY <1>4, <2>2, <2>3, <2>5
  <2>6. CASE t # m /\ s # m
    BY <2>2, <2>3, <2>6 DEF Compact
  <2> QED
    BY <2>4, <2>5, <2>6
<1> QED
  BY <1>1, <1>3, <1>4, WithEntryFacts

LEMMA StaysCompact ==
  ASSUME NamesGiven, Inv, LInv, NoWild(writes), [Next]_vars
  PROVE  LInv'
<1>0. /\ Kept \subseteq Slots /\ NoEntry.name = "" /\ Garbage.name = ""
      /\ \A s \in Kept : \A t \in 1 .. s - 1 : t \in Kept
      /\ \A s \in Slots : 1 .. s - 1 \subseteq Kept
  BY MfsConstants DEF Slots, Kept, NoEntry, Garbage, Entry
<1>1. CASE Write
  <2>1. /\ dir' = dir
        /\ diskDir' = IF writes[1][1] = "dir" THEN [s \in Kept |-> dir[s]] ELSE diskDir
    BY <1>1, WriteShape DEF NoWild
  <2>2. Compact([s \in Kept |-> dir[s]], Kept)
    BY <1>0 DEF LInv, Compact
  <2> QED
    BY <2>1, <2>2 DEF LInv
<1>2. CASE Reboot \/ Crash
  <2>1. dir' = NoDir /\ diskDir' = diskDir
    BY <1>2 DEF Reboot, Crash, LoseMemory, disk
  <2>2. Compact(NoDir, Slots)
    BY <1>0 DEF Compact, NoDir, NamesGiven
  <2> QED
    BY <2>1, <2>2 DEF LInv
<1>3. CASE MountOld
  <2>1. PICK behind \in {NoEntry, Garbage} :
          dir' = [s \in Slots |-> IF s \in Kept THEN diskDir[s] ELSE behind]
    BY <1>3 DEF MountOld
  <2>2. diskDir' = diskDir /\ behind.name = ""
    BY <1>0, <1>3 DEF MountOld, disk
  <2>3. Compact(dir', Slots)
    <3> SUFFICES ASSUME NEW s \in Slots, NEW t \in 1 .. s - 1,
                        dir'[s].name \in {Stored[n] : n \in Names}
                 PROVE  dir'[t].first # Free
      BY Zenon DEF Compact
    <3>1. s \in Kept
      BY <2>1, <2>2 DEF NamesGiven
    <3>2. t \in Kept /\ dir'[t] = diskDir[t] /\ dir'[s] = diskDir[s]
      BY <1>0, <2>1, <3>1
    <3> QED
      BY <3>1, <3>2 DEF LInv, Compact
  <2> QED
    BY <2>2, <2>3 DEF LInv
<1>4. CASE MountNew
  <2>1. PICK behind \in {NoEntry, Garbage} : dir' = FreshDir(behind)
    BY <1>4 DEF MountNew
  <2>2. diskDir' = diskDir /\ behind.name = ""
    BY <1>0, <1>4 DEF MountNew, disk
  <2>3. \A s \in Slots : s # 1 => dir'[s].name = ""
    BY <1>0, <2>1, <2>2 DEF FreshDir
  <2>4. Compact(dir', Slots)
    <3> SUFFICES ASSUME NEW s \in Slots, NEW t \in 1 .. s - 1,
                        dir'[s].name \in {Stored[n] : n \in Names}
                 PROVE  FALSE
      BY Zenon DEF Compact
    <3>1. s = 1
      BY <2>3 DEF NamesGiven
    <3> QED
      BY <3>1
  <2> QED
    BY <2>2, <2>4 DEF LInv
<1>5. CASE MountFails
  BY <1>5 DEF MountFails, disk, LInv
<1>6. CASE Operation
  <2>1. diskDir' = diskDir
    BY <1>6, OperationShape DEF disk
  <2>2. CASE dir' = dir
    BY <2>1, <2>2 DEF LInv
  <2>3. ASSUME NEW name \in Names, NEW size \in Nat \ {0}, Creates(name, size) PROVE LInv'
    <3>1. Compact(dir', Slots)
      BY <2>3, CreateCompact DEF Creates, LInv
    <3> QED
      BY <2>1, <3>1 DEF LInv
  <2> QED
    BY <1>6, <2>2, <2>3, OperationShape DEF Leaves, Removes, Cleans, Takes
<1>7. CASE UNCHANGED vars
  BY <1>7 DEF vars, memory, disk, LInv
<1> QED
  BY <1>1, <1>2, <1>3, <1>4, <1>5, <1>6, <1>7, NextShape

(* What is still to be written keeps these promises: once the superblock   *)
(* is next, the table on the disk is the one in memory; a root that is not *)
(* on the disk yet is on its way, its directory before it.                 *)
DirOut == \A s \in Kept : diskDir[s] = dir[s]
DirBefore(w, i) == \E j \in 1 .. i - 1 : j \in DOMAIN w /\ w[j][1] = "dir"
QInv ==
  /\ phase = "off" => writes = <<>>
  /\ phase = "broken" => root = 0 /\ diskRoot = 0
  /\ phase = "mounted" => root \in Blocks
  /\ \A i \in DOMAIN writes : writes[i][1] = "super" =>
       \A b \in Blocks : diskTable[b] = table[b] \/ TableIn(writes, b, i - 1)
  /\ phase = "mounted" /\ diskRoot = 0 =>
       /\ ~NoSuper(writes) /\ NoWild(writes)
       /\ \A i \in DOMAIN writes : writes[i][1] = "super" => DirOut \/ DirBefore(writes, i)

LEMMA Mounting ==
  /\ TableFirst(MountWrites) /\ ~NoSuper(MountWrites) /\ NoWild(MountWrites)
  /\ \A i \in DOMAIN MountWrites : MountWrites[i][1] = "super" => DirBefore(MountWrites, i)
  /\ TableFirst(SaveTable \o SaveSuper)
<1> DEFINE d == <<<<"dir", 0>>>>
           p == d \o SaveTable
<1>1. /\ d \in Seq(Steps) /\ SaveTable \in Seq(Steps) /\ SaveSuper \in Seq(Steps)
      /\ Len(d) = 1 /\ d[1] = <<"dir", 0>> /\ NoSuper(d) /\ NoWild(d)
      /\ Len(SaveSuper) = 1 /\ SaveSuper[1] = <<"super", 0>>
  BY WriteFacts DEF Steps, NoSuper, NoWild, SaveSuper
<1>2. MountWrites = p \o SaveSuper
  BY DEF MountWrites
<1> HIDE DEF d
<1>3. p \in Seq(Steps) /\ Len(p) \in Nat /\ 1 \in DOMAIN p /\ p[1] = <<"dir", 0>>
  BY <1>1, AppendFacts
<1>4. NoSuper(p) /\ WholeTable(p) /\ NoWild(p)
  BY <1>1, AppendKeeps, PieceFacts
<1> HIDE DEF p
<1>5. /\ DOMAIN MountWrites = 1 .. Len(p) + 1 /\ MountWrites[Len(p) + 1] = <<"super", 0>>
      /\ MountWrites[1] = <<"dir", 0>>
  <2> DEFINE q == SaveSuper
  <2>1. q \in Seq(Steps) /\ Len(q) = 1 /\ q[1] = <<"super", 0>> /\ MountWrites = p \o q
    BY <1>1, <1>2
  <2> HIDE DEF q
  <2>2. 1 \in DOMAIN q
    BY <2>1
  <2>3. /\ DOMAIN (p \o q) = 1 .. Len(p) + Len(q)
        /\ \A i \in DOMAIN p : (p \o q)[i] = p[i]
        /\ \A i \in DOMAIN q : (p \o q)[Len(p) + i] = q[i]
    BY <1>3, <2>1, AppendFacts
  <2> QED
    BY <1>3, <2>1, <2>2, <2>3
<1>6. TableFirst(MountWrites) /\ NoWild(MountWrites)
  BY <1>1, <1>2, <1>3, <1>4, AppendKeeps, PieceFacts
<1>7. ~NoSuper(MountWrites)
  <2>1. Len(p) + 1 \in DOMAIN MountWrites
    BY <1>3, <1>5
  <2> QED
    BY <1>5, <2>1 DEF NoSuper
<1>8. ASSUME NEW i \in DOMAIN MountWrites, MountWrites[i][1] = "super"
      PROVE  DirBefore(MountWrites, i)
  <2>1. i # 1 /\ i \in 1 .. Len(p) + 1
    BY <1>5, <1>8
  <2>2. 1 \in 1 .. i - 1 /\ 1 \in DOMAIN MountWrites
    BY <1>3, <1>5, <2>1
  <2> QED
    BY <1>5, <2>2 DEF DirBefore
<1> QED
  BY <1>1, <1>6, <1>7, <1>8, PieceFacts

LEMMA QueueKept ==
  ASSUME Inv, QInv, [Next]_vars
  PROVE  QInv'
<1>0. \A w : TableFirst(w) =>
        \A i \in DOMAIN w : w[i][1] = "super" => \A b \in Blocks : TableIn(w, b, i - 1)
  BY DEF TableFirst
<1>1. CASE Write
  <2> DEFINE w == writes'
  <2>1. /\ UNCHANGED <<phase, table, root, dir>> /\ 1 \in DOMAIN writes
        /\ \A i \in DOMAIN w : i \in Nat /\ i + 1 \in DOMAIN writes /\ w[i] = writes[i + 1]
        /\ \A i \in DOMAIN writes : i \in Nat /\ (i # 1 => i - 1 \in DOMAIN w /\ w[i - 1] = writes[i])
        /\ writes[1][1] # "newdir" =>
             diskDir' = IF writes[1][1] = "dir" THEN [s \in Kept |-> dir[s]] ELSE diskDir
        /\ diskTable' = [b \in Blocks |-> IF writes[1] = <<"table", Sector(b)>>
                                          THEN table[b] ELSE diskTable[b]]
        /\ diskRoot' = IF writes[1][1] = "super" THEN root ELSE diskRoot
    BY <1>1, WriteShape
  <2> HIDE DEF w
  <2>2. phase # "off"
    BY <2>1 DEF QInv
  <2>3. ASSUME NEW i \in DOMAIN w, w[i][1] = "super", NEW b \in Blocks
        PROVE  diskTable'[b] = table[b] \/ TableIn(w, b, i - 1)
    <3>1. i + 1 \in DOMAIN writes /\ writes[i + 1][1] = "super" /\ i \in Nat /\ (i + 1) - 1 = i
      BY <2>1, <2>3
    <3>2. diskTable[b] = table[b] \/ TableIn(writes, b, i)
      BY <3>1 DEF QInv
    <3>3. CASE diskTable[b] = table[b]
      BY <2>1, <3>3
    <3>4. ASSUME NEW j \in 1 .. i, j \in DOMAIN writes, writes[j] = <<"table", Sector(b)>>
          PROVE  diskTable'[b] = table[b] \/ TableIn(w, b, i - 1)
      <4>1. CASE j = 1
        BY <2>1, <3>4, <4>1
      <4>2. CASE j # 1
        <5>1. j - 1 \in 1 .. i - 1
          BY <3>1, <4>2
        <5>2. j - 1 \in DOMAIN w /\ w[j - 1] = <<"table", Sector(b)>>
          BY <2>1, <3>4, <4>2
        <5> QED
          BY <5>1, <5>2 DEF TableIn
      <4> QED
        BY <4>1, <4>2
    <3> QED
      BY <3>2, <3>3, <3>4 DEF TableIn
  <2>4. ASSUME phase = "mounted", diskRoot' = 0
        PROVE  /\ ~NoSuper(w) /\ NoWild(w)
               /\ \A i \in DOMAIN w : w[i][1] = "super" => DirOut' \/ DirBefore(w, i)
    <3>1. root \in Blocks /\ root # 0
      BY <2>4, BlockFacts DEF QInv
    <3>2. writes[1][1] # "super" /\ diskRoot = 0
      BY <2>1, <2>4, <3>1
    <3>3. PICK k \in DOMAIN writes : writes[k][1] = "super"
      BY <2>4, <3>2 DEF QInv, NoSuper
    <3>6. NoWild(writes)
      BY <2>4, <3>2 DEF QInv
    <3>7. NoWild(w) /\ writes[1][1] # "newdir"
      BY <2>1, <3>6 DEF NoWild
    <3>4. k - 1 \in DOMAIN w /\ w[k - 1][1] = "super"
      BY <2>1, <3>2, <3>3
    <3>5. ASSUME NEW i \in DOMAIN w, w[i][1] = "super" PROVE DirOut' \/ DirBefore(w, i)
      <4>1. i + 1 \in DOMAIN writes /\ writes[i + 1][1] = "super" /\ i \in Nat /\ (i + 1) - 1 = i
        BY <2>1, <3>5
      <4>2. DirOut \/ DirBefore(writes, i + 1)
        BY <2>4, <3>2, <4>1 DEF QInv
      <4>3. CASE DirOut
        BY <2>1, <3>7, <4>3 DEF DirOut
      <4>4. ASSUME NEW j \in 1 .. i, j \in DOMAIN writes, writes[j][1] = "dir"
            PROVE  DirOut' \/ DirBefore(w, i)
        <5>1. CASE j = 1
          BY <2>1, <3>7, <4>4, <5>1 DEF DirOut
        <5>2. CASE j # 1
          <6>1. j - 1 \in 1 .. i - 1
            BY <4>1, <5>2
          <6>2. j - 1 \in DOMAIN w /\ w[j - 1][1] = "dir"
            BY <2>1, <4>4, <5>2
          <6> QED
            BY <6>1, <6>2 DEF DirBefore
        <5> QED
          BY <5>1, <5>2
      <4> QED
        BY <4>1, <4>2, <4>3, <4>4 DEF DirBefore
    <3> QED
      BY <3>4, <3>5, <3>7 DEF NoSuper
  <2>5. phase = "broken" => root = 0 /\ diskRoot' = 0
    BY <2>1 DEF QInv
  <2>6. phase' = phase /\ root' = root /\ table' = table /\ (phase = "mounted" => root \in Blocks)
    BY <2>1 DEF QInv
  <2> QED
    BY <2>2, <2>3, <2>4, <2>5, <2>6 DEF QInv, w
<1>2. CASE Reboot \/ Crash
  <2>1. phase' = "off" /\ writes' = <<>>
    BY <1>2 DEF Reboot, Crash, LoseMemory
  <2> QED
    BY <2>1 DEF QInv
<1>3. CASE MountOld
  <2>1. phase' = "mounted" /\ writes' = <<>> /\ root' \in Blocks /\ diskRoot' # 0
    BY <1>3 DEF MountOld, QInv, Inv, TypeOK, disk
  <2> QED
    BY <2>1 DEF QInv
<1>4. CASE MountNew
  <2>1. phase' = "mounted" /\ writes' = MountWrites /\ root' \in Blocks
    BY <1>4, FreshFacts DEF MountNew, Inv
  <2> QED
    BY <1>0, <2>1, Mounting DEF QInv
<1>5. CASE MountFails
  <2>1. phase' = "broken" /\ writes' = SaveTable \o SaveSuper /\ root' = 0 /\ diskRoot' = 0
    BY <1>5 DEF MountFails, disk
  <2> QED
    BY <1>0, <2>1, Mounting DEF QInv
<1>6. CASE Operation
  <2>1. /\ phase = "mounted" /\ writes = <<>> /\ phase' = phase
        /\ diskRoot' = diskRoot /\ root' = root /\ TableFirst(writes')
    BY <1>6, OperationShape DEF Ready, disk
  <2>2. diskRoot # 0 /\ root \in Blocks
    <3>1. NoSuper(<<>>)
      BY PieceFacts
    <3> QED
      BY <2>1, <3>1 DEF QInv
  <2> QED
    BY <1>0, <2>1, <2>2 DEF QInv
<1>7. CASE UNCHANGED vars
  BY <1>7 DEF vars, memory, disk, QInv, DirOut
<1> QED
  BY <1>1, <1>2, <1>3, <1>4, <1>5, <1>6, <1>7, NextShape

LEMMA QueueInitially == Init => QInv
BY DEF Init, QInv

-----------------------------------------------------------------------------
(* Counting free blocks.  As long as the machine has not stopped amid      *)
(* writes, the count on the disk covers the table on the disk, unless a    *)
(* superblock is about to replace it, and operations only take from what   *)
(* is free there.                                                          *)
Count(t) == Cardinality(Ones(t))
FInv ==
  crashes = 0 =>
    /\ phase # "off" => free > Count(table)
    /\ NoSuper(writes) => /\ diskFree > Count(diskTable)
                          /\ phase # "off" => Ones(table) \subseteq Ones(diskTable)

LEMMA CountFacts ==
  /\ \A t : IsFiniteSet(Ones(t)) /\ Count(t) \in Nat
  /\ \A t, u : Ones(u) \subseteq Ones(t) => Count(u) <= Count(t)
<1>1. \A t : Ones(t) \subseteq Blocks
  BY DEF Ones
<1> QED
  BY <1>1, BlockFacts, FS_Subset, FS_CardinalityType DEF Count

(* How many blocks each operation leaves free.                             *)
LEMMA ChosenIsLowest ==
  ASSUME NEW n
  PROVE  /\ Chosen(n) = Lowest(Ones(table), n) /\ Linked(n) = LinkUp(table, Chosen(n))
         /\ FreshTable = LinkUp(diskTable, Lowest(Ones(diskTable), DirBlocks))
         /\ FreshRoot = Min(Ones(diskTable))
<1>1. Chosen(n) = Lowest(Ones(table), n)
  BY Zenon DEF Chosen, Lowest
<1>2. Linked(n) = LinkUp(table, Chosen(n))
  BY Zenon DEF Linked, LinkUp
<1>3. FreshTable = LinkUp(diskTable, Lowest(Ones(diskTable), DirBlocks))
  BY Zenon DEF FreshTable, LinkUp, Lowest
<1> QED
  BY <1>1, <1>2, <1>3 DEF FreshRoot

LEMMA OperationCounts ==
  ASSUME Inv, Operation
  PROVE  /\ free > Count(table) => free' > Count(table')
         /\ NoSuper(writes') => Ones(table') \subseteq Ones(table)
<1>1. free \in Int /\ table \in [Blocks -> Values] /\ Ascends(table)
  BY DEF Inv, TypeOK, LinksAscend
<1>2. CASE Leaves
  BY <1>2 DEF Leaves
<1>3. ASSUME NEW n \in Nat \ {0}, Enough(n), table' = Linked(n), free' = free - n
      PROVE  /\ free > Count(table) => free' > Count(table')
             /\ Ones(table') \subseteq Ones(table)
  <2>1. n <= Cardinality(Ones(table)) /\ table' = LinkUp(table, Lowest(Ones(table), n))
    BY <1>3, ChosenIsLowest DEF Enough
  <2>2. /\ Ones(table') = Ones(table) \ Lowest(Ones(table), n)
        /\ Cardinality(Ones(table')) = Cardinality(Ones(table)) - n
    BY <1>1, <2>1, LinkUpFacts
  <2>3. Count(table) \in Nat /\ Count(table') = Count(table) - n
    BY <2>2, CountFacts DEF Count
  <2> QED
    BY <1>1, <1>3, <2>2, <2>3
<1>4. ASSUME NEW name \in Names, NEW size \in Nat \ {0}, Creates(name, size)
      PROVE  /\ free > Count(table) => free' > Count(table')
             /\ Ones(table') \subseteq Ones(table)
  <2>1. Enough(size) /\ table' = Linked(size) /\ free' = free - size
    BY <1>4 DEF Creates, Creatable, Create
  <2> QED
    BY <1>3, <2>1
<1>5. ASSUME NEW name, Removes(name)
      PROVE  /\ free > Count(table) => free' > Count(table')
             /\ Ones(table') \subseteq Ones(table)
  <2>1. Tombstone # Free
    BY MfsConstants DEF Tombstone, Free
  <2>2. Ones(table') \subseteq Ones(table) /\ free' = free
    BY <1>5, <2>1 DEF Removes, Removed, Ones
  <2> QED
    BY <1>1, <2>2, CountFacts
<1>6. ASSUME Cleans
      PROVE  free > Count(table) => free' > Count(table')
  <2>1. Ones(table') = Ones(table) \cup Tombs(table) /\ Ones(table) \cap Tombs(table) = {}
    <3>1. Tombstone # Free
      BY MfsConstants DEF Tombstone, Free
    <3> QED
      BY <1>6, <3>1 DEF Cleans, Cleaned, Ones, Tombs
  <2>2. IsFiniteSet(Ones(table)) /\ IsFiniteSet(Tombs(table))
    BY CountFacts, BlockFacts, FS_Subset DEF Tombs
  <2>3. Cardinality(Ones(table)) \in Nat /\ Cardinality(Tombs(table)) \in Nat
    BY <2>2, FS_CardinalityType
  <2>4. Cardinality(Ones(table')) = Cardinality(Ones(table)) + Cardinality(Tombs(table))
    BY <2>1, <2>2, <2>3, FS_Union, FS_EmptySet
  <2>5. free' = free + Cardinality(Tombs(table))
    BY <1>6 DEF Cleans
  <2> QED
    BY <1>1, <2>3, <2>4, <2>5 DEF Count
<1>7. CASE Takes
  BY <1>3, <1>7 DEF Takes
<1> QED
  BY <1>2, <1>4, <1>5, <1>6, <1>7, OperationShape DEF Cleans

LEMMA CountKept ==
  ASSUME Inv, QInv, FInv, [Next]_vars
  PROVE  FInv'
<1>0. /\ free \in Int /\ diskFree \in Int /\ crashes \in Nat
      /\ diskTable \in [Blocks -> Values] /\ table \in [Blocks -> Values] /\ Ascends(diskTable)
      /\ \A t : Count(t) \in Nat
  BY CountFacts, MfsConstants DEF Inv, TypeOK, LinksAscend
<1> SUFFICES ASSUME crashes' = 0 PROVE FInv'
  BY DEF FInv
<1>1. CASE Write
  <2>1. /\ UNCHANGED <<phase, table, free, crashes>> /\ 1 \in DOMAIN writes
        /\ \A i \in DOMAIN writes : i # 1 => i - 1 \in DOMAIN writes' /\ writes'[i - 1] = writes[i]
        /\ diskTable' = [b \in Blocks |-> IF writes[1] = <<"table", Sector(b)>>
                                          THEN table[b] ELSE diskTable[b]]
        /\ diskFree' = IF writes[1][1] = "super" THEN free ELSE diskFree
    BY <1>1, WriteShape
  <2>2. phase # "off" /\ free > Count(table)
    BY <2>1 DEF QInv, FInv
  <2>3. CASE writes[1][1] = "super"
    <3>1. \A b : ~TableIn(writes, b, 1 - 1)
      BY DEF TableIn
    <3>2. \A b \in Blocks : diskTable[b] = table[b]
      BY <2>1, <2>3, <3>1 DEF QInv
    <3>3. Ones(diskTable') = Ones(table)
      BY <2>1, <3>2 DEF Ones
    <3>4. Count(diskTable') = Count(table)
      BY <3>3 DEF Count
    <3> QED
      BY <2>1, <2>2, <2>3, <3>3, <3>4 DEF FInv
  <2>4. CASE writes[1][1] # "super" /\ NoSuper(writes')
    <3>1. NoSuper(writes)
      BY <2>1, <2>4 DEF NoSuper
    <3>2. diskFree > Count(diskTable) /\ Ones(table) \subseteq Ones(diskTable)
      BY <2>1, <2>2, <3>1 DEF FInv
    <3>3. Ones(table) \subseteq Ones(diskTable') /\ Ones(diskTable') \subseteq Ones(diskTable)
      BY <2>1, <3>2 DEF Ones
    <3>4. Count(diskTable') <= Count(diskTable)
      BY <3>3, CountFacts
    <3>5. diskFree' > Count(diskTable')
      BY <1>0, <2>1, <2>4, <3>2, <3>4
    <3> QED
      BY <2>1, <2>2, <3>3, <3>5 DEF FInv
  <2>5. CASE writes[1][1] # "super" /\ ~NoSuper(writes')
    BY <2>1, <2>2, <2>5 DEF FInv
  <2> QED
    BY <2>3, <2>4, <2>5
<1>2. CASE Reboot
  <2>1. /\ writes = <<>> /\ phase' = "off" /\ crashes = 0
        /\ diskFree' = diskFree /\ diskTable' = diskTable
    BY <1>2 DEF Reboot, LoseMemory, disk
  <2>2. NoSuper(writes)
    BY <2>1, PieceFacts
  <2> QED
    BY <2>1, <2>2 DEF FInv
<1>3. CASE Crash
  BY <1>0, <1>3 DEF Crash
<1>4. ASSUME MountOld \/ MountNew \/ MountFails
      PROVE  /\ NoSuper(writes) /\ crashes = 0 /\ diskFree > Count(diskTable)
             /\ diskFree' = diskFree /\ diskTable' = diskTable
  <2>1. phase = "off" /\ crashes' = crashes /\ diskFree' = diskFree /\ diskTable' = diskTable
    BY <1>4 DEF MountOld, MountNew, MountFails, disk, past
  <2>2. NoSuper(writes)
    BY <2>1, PieceFacts DEF QInv
  <2> QED
    BY <2>1, <2>2 DEF FInv
<1>5. CASE MountOld \/ MountFails
  <2>1. table' = diskTable /\ free' = diskFree
    BY <1>5 DEF MountOld, MountFails
  <2> QED
    BY <1>4, <1>5, <2>1 DEF FInv
<1>6. CASE MountNew
  <2>1. /\ table' = FreshTable /\ free' = diskFree - DirBlocks
        /\ DirBlocks <= Cardinality(Ones(diskTable))
    BY <1>6 DEF MountNew
  <2>2. DirBlocks \in Nat \ {0}
    BY MfsConstants
  <2>3. table' = LinkUp(diskTable, Lowest(Ones(diskTable), DirBlocks))
    BY <2>1, ChosenIsLowest
  <2>4. /\ Ones(table') = Ones(diskTable) \ Lowest(Ones(diskTable), DirBlocks)
        /\ Cardinality(Ones(table')) = Cardinality(Ones(diskTable)) - DirBlocks
    BY <1>0, <2>1, <2>2, <2>3, LinkUpFacts
  <2>5. free' > Count(table')
    BY <1>0, <1>4, <1>6, <2>1, <2>2, <2>4 DEF Count
  <2>6. Ones(table') \subseteq Ones(diskTable)
    BY <2>4
  <2> QED
    BY <1>4, <1>6, <2>5, <2>6 DEF FInv
<1>7. CASE Operation
  <2>1. /\ writes = <<>> /\ phase = "mounted" /\ crashes = 0
        /\ diskFree' = diskFree /\ diskTable' = diskTable
    BY <1>7, OperationShape DEF Ready, disk
  <2>2. /\ free > Count(table) /\ diskFree > Count(diskTable)
        /\ Ones(table) \subseteq Ones(diskTable)
    BY <2>1, PieceFacts DEF FInv
  <2>3. /\ free' > Count(table')
        /\ NoSuper(writes') => Ones(table') \subseteq Ones(table)
    BY <1>7, <2>2, OperationCounts
  <2> QED
    BY <2>1, <2>2, <2>3 DEF FInv
<1>8. CASE UNCHANGED vars
  BY <1>8 DEF vars, memory, disk, past, FInv
<1> QED
  BY <1>1, <1>2, <1>3, <1>5, <1>6, <1>7, <1>8, NextShape

(* Until the machine first stops amid writes, FreeBlocks in memory is more *)
(* than the number of blocks marked free.  So what IFATallocateChain takes *)
(* off the count, which is unsigned, never takes it below zero.            *)
THEOREM FreeNeverShort == Spec => []FreeNeverUnder
<1>1. Init => FInv
  <2> SUFFICES ASSUME Init PROVE FInv
    OBVIOUS
  <2>1. phase = "off" /\ diskFree = NumBlocks /\ diskTable = NoTable
    BY DEF Init
  <2>2. Ones(diskTable) = 1 .. NumBlocks - 1
    BY <2>1 DEF Ones, NoTable, Blocks
  <2>3. Cardinality(1 .. NumBlocks - 1) < NumBlocks
    BY MfsConstants, FS_Interval
  <2> QED
    BY <2>1, <2>2, <2>3 DEF FInv, Count
<1>2. Inv /\ QInv /\ FInv /\ [Next]_vars => QInv' /\ FInv'
  BY QueueKept, CountKept
<1>3. FInv => FreeNeverUnder
  BY DEF FInv, FreeNeverUnder, Count
<1> QED
  BY <1>1, <1>2, <1>3, QueueInitially, Invariance, PTL DEF Spec

-----------------------------------------------------------------------------
(* The root, as long as nobody removed "." or made a directory of it.      *)
(* Some set of blocks holds the root's chain, in memory and on the disk;   *)
(* no link leads into it from outside and no entry but the first names a   *)
(* block of it, so nothing that is created, removed or given a directory   *)
(* reaches it.  It is what was in use when the root was made.              *)
RootIn(K, t, d, r) ==
  /\ r \in Blocks
  /\ Cardinality(Walk(t, r)) = DirBlocks /\ Walk(t, r) \subseteq K
  /\ \A b \in K : t[b] \in Blocks \cup {End}
  /\ \A b \in Blocks \ K : t[b] \notin K
  /\ d[1] = Entry(".", r)
  /\ \A s \in DOMAIN d \ {1} : d[s].first \notin K
Guarded(K) ==
  /\ K \subseteq Blocks
  /\ phase = "mounted" => RootIn(K, table, dir, root)
  /\ diskRoot # 0 => RootIn(K, diskTable, diskDir, diskRoot)
  /\ phase = "mounted" /\ diskRoot # 0 =>
       root = diskRoot /\ \A b \in K : table[b] = diskTable[b]
RInv == NoWild(writes) /\ \E K \in SUBSET Blocks : Guarded(K)

LEMMA RootMoves ==
  ASSUME NEW K \in SUBSET Blocks, NEW t, NEW d, NEW r, RootIn(K, t, d, r), Ascends(t),
         NEW u, Ascends(u), NEW e,
         \A b \in K : u[b] = t[b],
         \A b \in Blocks \ K : u[b] \notin K,
         e[1] = d[1], \A s \in DOMAIN e \ {1} : e[s].first \notin K
  PROVE  RootIn(K, u, e, r)
<1>1. r \in Blocks /\ \A c \in Walk(t, r) : u[c] = t[c]
  BY DEF RootIn
<1>2. Walk(u, r) = Walk(t, r)
  BY <1>1, SameWalk
<1> QED
  BY <1>2 DEF RootIn

LEMMA RootWhole ==
  ASSUME NEW K, NEW t, NEW d, NEW r, RootIn(K, t, d, r), Ascends(t)
  PROVE  /\ Intact(t, r) /\ Cardinality(Walk(t, r)) = DirBlocks /\ d[1] = Entry(".", r)
         /\ r \in K
<1>1. r \in Blocks /\ Walk(t, r) \subseteq K /\ \A b \in K : t[b] \in Blocks \cup {End}
  BY DEF RootIn
<1>2. \A c \in Walk(t, r) : t[c] \in Blocks \cup {End}
  BY <1>1
<1>3. Intact(t, r)
  BY <1>1, <1>2, WholeChain
<1>4. r \in Walk(t, r)
  BY <1>1, WalkFacts
<1> QED
  BY <1>1, <1>3, <1>4 DEF RootIn

(* Linking free blocks keeps away from the root.                           *)
LEMMA LinkingKeepsRoot ==
  ASSUME Inv, NEW K \in SUBSET Blocks, RootIn(K, table, dir, root),
         NEW n \in Nat \ {0}, Enough(n)
  PROVE  /\ Ascends(Linked(n)) /\ Min(Chosen(n)) \notin K
         /\ \A b \in K : Linked(n)[b] = table[b]
         /\ \A b \in Blocks \ K : Linked(n)[b] \notin K
<1> DEFINE chosen == Lowest(Ones(table), n)
<1>1. table \in [Blocks -> Values] /\ Ascends(table) /\ n <= Cardinality(Ones(table))
  BY DEF Inv, TypeOK, LinksAscend, Enough
<1>2. Chosen(n) = chosen /\ Linked(n) = LinkUp(table, chosen)
  BY ChosenIsLowest
<1>3. /\ chosen \subseteq Ones(table) /\ Min(chosen) \in chosen /\ Ascends(Linked(n))
      /\ \A b \in Blocks \ chosen : Linked(n)[b] = table[b]
      /\ \A b \in chosen : Linked(n)[b] \in chosen \cup {End}
  BY <1>1, <1>2, LinkUpFacts
<1> HIDE DEF chosen
<1>4. chosen \cap K = {} /\ End \notin K
  BY <1>3, BlockFacts, MfsConstants DEF RootIn, Ones, End, Free
<1>5. \A b \in Blocks \ K : table[b] \notin K
  BY DEF RootIn
<1> QED
  BY <1>2, <1>3, <1>4, <1>5

(* An entry of another name does not begin where the root does.            *)
LEMMA OtherThanRoot ==
  ASSUME Inv, NEW K \in SUBSET Blocks, RootIn(K, table, dir, root),
         NEW name, name # ".", Found(name)
  PROVE  First(name) \notin K /\ First(name) # root
<1>1. Matches(name) \in SUBSET Slots /\ Matches(name) \in SUBSET Nat /\ Matches(name) # {}
  BY BlockFacts DEF Matches, Found
<1>2. Min(Matches(name)) \in Matches(name)
  BY <1>1, MinFacts
<1>3. dir[1].name = "."
  BY DEF RootIn, Entry
<1>4. Min(Matches(name)) \in DOMAIN dir \ {1}
  BY <1>2, <1>3 DEF Matches, Inv, TypeOK
<1>5. First(name) \notin K
  BY <1>4 DEF RootIn, First
<1>6. root \in K
  BY RootWhole DEF Inv, LinksAscend
<1> QED
  BY <1>5, <1>6

(* A removal begins at an entry that is not the root's, so it never comes  *)
(* to the root's blocks.                                                   *)
LEMMA RemovingKeepsRoot ==
  ASSUME Inv, NEW K \in SUBSET Blocks, RootIn(K, table, dir, root),
         NEW name, name # ".", Found(name), table' = Removed(First(name))
  PROVE  /\ \A b \in K : table'[b] = table[b]
         /\ \A b \in Blocks \ K : table'[b] \notin K
<1> DEFINE f == First(name)
<1>1. Ascends(table) /\ Tombstone \notin K
  BY BlockFacts DEF Inv, LinksAscend
<1>2. f \notin K
  BY OtherThanRoot
<1> HIDE DEF f
<1>3. Walk(table, f) \cap K = {}
  <2>1. CASE f \in Blocks
    <3> DEFINE S == Blocks \ K
    <3>1. f \in S
      BY <1>2, <2>1
    <3>2. \A b \in Blocks \cap S : table[b] \in Blocks => table[b] \in S
      BY DEF RootIn
    <3>3. Walk(table, f) \subseteq S
      BY <1>1, <2>1, <3>1, <3>2, WalkLeast
    <3> QED
      BY <3>3
  <2>2. CASE f \notin Blocks
    BY <2>2 DEF Walk
  <2> QED
    BY <2>1, <2>2
<1>4. table' = [c \in Blocks |-> IF c \in Walk(table, f) THEN Tombstone ELSE table[c]]
  BY DEF Removed, f
<1> QED
  BY <1>1, <1>3, <1>4 DEF RootIn

LEMMA OperationKeepsRoot ==
  ASSUME Inv, Inv', ~dotted', Operation,
         NEW K \in SUBSET Blocks, RootIn(K, table, dir, root)
  PROVE  /\ RootIn(K, table', dir', root) /\ \A b \in K : table'[b] = table[b]
         /\ NoWild(writes')
<1>8. NoWild(writes')
  <2>1. \A name \in Names : ~Rewrites(name)
    BY OtherThanRoot DEF Rewrites
  <2> QED
    BY <2>1, OperationShape
<1> SUFFICES RootIn(K, table', dir', root) /\ \A b \in K : table'[b] = table[b]
  BY <1>8
<1>1. /\ Ascends(table) /\ Ascends(table') /\ Tombstone \notin K /\ Free \notin K
      /\ \A b \in Blocks \ K : table[b] \notin K
      /\ \A b \in K : table[b] \in Blocks \cup {End}
      /\ DOMAIN dir = Slots /\ \A s \in Slots \ {1} : dir[s].first \notin K
  BY BlockFacts DEF Inv, LinksAscend, RootIn, TypeOK
<1>2. ASSUME \A b \in K : table'[b] = table[b],
             \A b \in Blocks \ K : table'[b] \notin K,
             dir' = dir
      PROVE  RootIn(K, table', dir', root)
  BY <1>1, <1>2, RootMoves
<1>3. CASE Leaves
  BY <1>1, <1>2, <1>3 DEF Leaves
<1>4. ASSUME NEW name \in Names, NEW size \in Nat \ {0}, Creates(name, size)
      PROVE  RootIn(K, table', dir', root) /\ \A b \in K : table'[b] = table[b]
  <2> DEFINE first == Min(Chosen(size))
  <2>1. Enough(size) /\ table' = Linked(size) /\ dir' = WithEntry(dir, Stored[name], first)
    BY <1>4 DEF Creates, Creatable, Create
  <2>2. /\ first \notin K /\ \A b \in K : table'[b] = table[b]
        /\ \A b \in Blocks \ K : table'[b] \notin K
    BY <2>1, LinkingKeepsRoot
  <2> HIDE DEF first
  <2>3. dir'[1] = dir[1] /\ DOMAIN dir' = Slots /\ \A s \in Slots \ {1} : dir'[s].first \notin K
    <3>1. CASE dir' = dir
      BY <1>1, <3>1
    <3>2. ASSUME NEW m \in Slots, dir[m].first \in {Free, Tombstone},
                 dir' = [dir EXCEPT ![m] = Entry(Stored[name], first)]
          PROVE  dir'[1] = dir[1] /\ DOMAIN dir' = Slots
                 /\ \A s \in Slots \ {1} : dir'[s].first \notin K
      <4>1. m # 1
        BY <3>2, BlockFacts DEF RootIn, Entry
      <4>2. Entry(Stored[name], first).first = first
        BY DEF Entry
      <4> QED
        BY <1>1, <2>2, <3>2, <4>1, <4>2
    <3> QED
      BY <2>1, <3>1, <3>2, WithEntryFacts
  <2>4. RootIn(K, table', dir', root)
    BY <1>1, <2>2, <2>3, RootMoves
  <2> QED
    BY <2>2, <2>4
<1>5. ASSUME NEW name \in Removable, Removes(name)
      PROVE  RootIn(K, table', dir', root) /\ \A b \in K : table'[b] = table[b]
  <2>1. name # "." /\ Found(name) /\ table' = Removed(First(name)) /\ dir' = dir
    BY <1>5 DEF Removes
  <2> QED
    BY <1>2, <2>1, RemovingKeepsRoot
<1>6. CASE Cleans
  <2>1. table' = [b \in Blocks |-> IF table[b] = Tombstone THEN Free ELSE table[b]] /\ dir' = dir
    BY <1>6 DEF Cleans, Cleaned
  <2>2. \A b \in K : table'[b] = table[b]
    BY <1>1, <2>1, BlockFacts, MfsConstants DEF End, Tombstone
  <2>3. \A b \in Blocks \ K : table'[b] \notin K
    BY <1>1, <2>1
  <2> QED
    BY <1>2, <2>1, <2>2, <2>3
<1>7. CASE Takes
  <2>1. Enough(1) /\ table' = Linked(1) /\ dir' = dir
    BY <1>7 DEF Takes
  <2> QED
    BY <1>2, <2>1, LinkingKeepsRoot
<1> QED
  BY <1>3, <1>4, <1>5, <1>6, <1>7, OperationShape

LEMMA FreshIsRooted ==
  ASSUME Inv, DirBlocks <= Cardinality(Ones(diskTable)), NEW behind \in {NoEntry, Garbage}
  PROVE  LET K == {b \in Blocks : FreshTable[b] \in Blocks \cup {End}}
         IN  RootIn(K, FreshTable, FreshDir(behind), FreshRoot)
<1> DEFINE K == {b \in Blocks : FreshTable[b] \in Blocks \cup {End}}
           chosen == Lowest(Ones(diskTable), DirBlocks)
<1>1. diskTable \in [Blocks -> Values] /\ Ascends(diskTable) /\ DirBlocks \in Nat \ {0}
  BY MfsConstants DEF Inv, TypeOK, LinksAscend
<1>2. FreshTable = LinkUp(diskTable, chosen) /\ FreshRoot = Min(Ones(diskTable))
  BY ChosenIsLowest
<1>3. /\ chosen \subseteq Ones(diskTable) /\ Cardinality(chosen) = DirBlocks
      /\ FreshRoot \in chosen
      /\ \A b \in chosen : FreshTable[b] \in chosen \cup {End}
      /\ Walk(FreshTable, FreshRoot) = chosen
  BY <1>1, <1>2, LinkUpFacts
<1> HIDE DEF chosen
<1>4. chosen \subseteq Blocks
  BY <1>3 DEF Ones
<1>5. chosen \subseteq K
  BY <1>3, <1>4
<1>6. \A b \in Blocks \ K : FreshTable[b] \notin K
  OBVIOUS
<1>7. /\ FreshDir(behind)[1] = Entry(".", FreshRoot)
      /\ \A s \in DOMAIN FreshDir(behind) \ {1} : FreshDir(behind)[s].first \notin K
  <2>1. 1 \in Slots
    BY MfsConstants DEF Slots
  <2>2. NoEntry.first \notin Blocks /\ behind.first \notin Blocks
    <3>1. NoEntry.first = Free /\ Garbage.first = Bad
      BY DEF NoEntry, Garbage, Entry
    <3> QED
      BY <3>1, BlockFacts
  <2> QED
    BY <2>1, <2>2 DEF FreshDir
<1>8. RootIn(K, FreshTable, FreshDir(behind), FreshRoot)
  BY <1>3, <1>4, <1>5, <1>6, <1>7 DEF RootIn
<1> QED
  BY <1>8

LEMMA StaysGuarded ==
  ASSUME ~dotted', Inv, Inv', QInv, RInv, [Next]_vars
  PROVE  RInv'
<1>0. /\ Ascends(table) /\ Ascends(diskTable) /\ Ascends(diskTable')
      /\ table \in [Blocks -> Values] /\ diskTable \in [Blocks -> Values]
      /\ DOMAIN dir = Slots /\ DOMAIN diskDir = Kept
      /\ 1 \in Kept /\ Kept \subseteq Slots
  BY MfsConstants DEF Inv, TypeOK, LinksAscend, Kept, Slots
<1>1. PICK K \in SUBSET Blocks : Guarded(K)
  BY DEF RInv
<1>9. NoWild(<<>>)
  BY PieceFacts
<1>2. CASE Write
  <2>1. /\ UNCHANGED <<phase, table, root, dir>> /\ 1 \in DOMAIN writes
        /\ diskDir' = IF writes[1][1] = "dir" THEN [s \in Kept |-> dir[s]] ELSE diskDir
        /\ diskTable' = [b \in Blocks |-> IF writes[1] = <<"table", Sector(b)>>
                                          THEN table[b] ELSE diskTable[b]]
        /\ diskRoot' = IF writes[1][1] = "super" THEN root ELSE diskRoot
        /\ NoWild(writes')
    <3>1. NoWild(writes)
      BY DEF RInv
    <3>2. 1 \in DOMAIN writes /\ \A i \in DOMAIN writes' : i + 1 \in DOMAIN writes /\ writes'[i] = writes[i + 1]
      BY <1>2, WriteShape
    <3>3. writes[1][1] # "newdir" /\ NoWild(writes')
      BY <3>1, <3>2 DEF NoWild
    <3> QED
      BY <1>2, <3>3, WriteShape
  <2>2. phase # "off"
    BY <2>1 DEF QInv
  <2>3. CASE phase = "broken"
    <3>1. phase' = "broken" /\ diskRoot' = 0
      BY <2>1, <2>3 DEF QInv
    <3> QED
      BY <2>1, <3>1 DEF RInv, Guarded
  <2>4. CASE phase = "mounted" /\ diskRoot # 0
    <3>1. /\ RootIn(K, table, dir, root) /\ RootIn(K, diskTable, diskDir, root)
          /\ root = diskRoot /\ \A b \in K : table[b] = diskTable[b]
      BY <1>1, <2>4 DEF Guarded
    <3>2. /\ \A b \in K : diskTable'[b] = table[b]
          /\ \A b \in Blocks : diskTable'[b] = table[b] \/ diskTable'[b] = diskTable[b]
      BY <2>1, <3>1
    <3>3. \A b \in Blocks \ K : diskTable'[b] \notin K
      BY <3>1, <3>2 DEF RootIn
    <3>4. diskDir'[1] = dir[1] /\ \A s \in DOMAIN diskDir' \ {1} : diskDir'[s].first \notin K
      BY <1>0, <2>1, <3>1 DEF RootIn
    <3>5. RootIn(K, diskTable', diskDir', root)
      BY <1>0, <3>1, <3>2, <3>3, <3>4, RootMoves
    <3>6. diskRoot' = root
      BY <2>1, <3>1
    <3>7. Guarded(K)'
      BY <2>1, <3>1, <3>2, <3>5, <3>6 DEF Guarded
    <3> QED
      BY <2>1, <3>7 DEF RInv
  <2>5. CASE phase = "mounted" /\ diskRoot = 0 /\ writes[1][1] = "super"
    <3>1. RootIn(K, table, dir, root)
      BY <1>1, <2>5 DEF Guarded
    <3>2. /\ \A b : ~TableIn(writes, b, 1 - 1)
          /\ ~DirBefore(writes, 1)
      BY DEF TableIn, DirBefore
    <3>3. DirOut /\ \A b \in Blocks : diskTable[b] = table[b]
      BY <2>1, <2>5, <3>2 DEF QInv
    <3>4. \A b \in Blocks : diskTable'[b] = table[b]
      BY <2>1, <3>3
    <3>5. /\ \A b \in K : diskTable'[b] = table[b]
          /\ \A b \in Blocks \ K : diskTable'[b] \notin K
      BY <3>1, <3>4 DEF RootIn
    <3>6. diskDir'[1] = dir[1] /\ \A s \in DOMAIN diskDir' \ {1} : diskDir'[s].first \notin K
      BY <1>0, <2>1, <2>5, <3>1, <3>3 DEF DirOut, RootIn
    <3>7. RootIn(K, diskTable', diskDir', root)
      BY <1>0, <3>1, <3>5, <3>6, RootMoves
    <3>8. diskRoot' = root
      BY <2>1, <2>5
    <3>9. Guarded(K)'
      BY <2>1, <3>1, <3>5, <3>7, <3>8 DEF Guarded
    <3> QED
      BY <2>1, <3>9 DEF RInv
  <2>6. CASE phase = "mounted" /\ diskRoot = 0 /\ writes[1][1] # "super"
    <3>1. RootIn(K, table, dir, root) /\ diskRoot' = 0
      BY <1>1, <2>1, <2>6 DEF Guarded
    <3>2. Guarded(K)'
      BY <2>1, <2>6, <3>1 DEF Guarded
    <3> QED
      BY <2>1, <3>2 DEF RInv
  <2> QED
    BY <2>2, <2>3, <2>4, <2>5, <2>6 DEF Inv, TypeOK
<1>3. CASE Reboot \/ Crash
  <2>1. phase' = "off" /\ writes' = <<>> /\ UNCHANGED disk
    BY <1>3 DEF Reboot, Crash, LoseMemory
  <2>2. Guarded(K)'
    BY <1>1, <2>1 DEF Guarded, disk
  <2> QED
    BY <1>9, <2>1, <2>2 DEF RInv
<1>4. CASE MountOld
  <2>1. PICK behind \in {NoEntry, Garbage} :
          dir' = [s \in Slots |-> IF s \in Kept THEN diskDir[s] ELSE behind]
    BY <1>4 DEF MountOld
  <2>2. diskRoot # 0 /\ phase' = "mounted" /\ table' = diskTable /\ root' = diskRoot
        /\ UNCHANGED <<disk, writes>>
    BY <1>4 DEF MountOld
  <2>3. RootIn(K, diskTable, diskDir, diskRoot)
    BY <1>1, <2>2 DEF Guarded
  <2>4. behind.first \notin K
    <3>1. NoEntry.first = Free /\ Garbage.first = Bad
      BY DEF NoEntry, Garbage, Entry
    <3>2. behind = NoEntry \/ behind = Garbage
      BY <2>1
    <3> QED
      BY <3>1, <3>2, BlockFacts
  <2>5. dir'[1] = diskDir[1] /\ \A s \in DOMAIN dir' \ {1} : dir'[s].first \notin K
    BY <1>0, <2>1, <2>3, <2>4 DEF RootIn
  <2>6. \A b \in Blocks \ K : diskTable[b] \notin K
    BY <2>3 DEF RootIn
  <2>7. RootIn(K, diskTable, dir', diskRoot)
    BY <1>0, <2>3, <2>5, <2>6, RootMoves
  <2>8. Guarded(K)'
    BY <2>2, <2>3, <2>7 DEF Guarded, disk
  <2> QED
    BY <2>2, <2>8 DEF RInv
<1>5. CASE MountNew
  <2>1. /\ diskRoot' = 0 /\ table' = FreshTable /\ root' = FreshRoot
        /\ DirBlocks <= Cardinality(Ones(diskTable)) /\ NoWild(writes')
    BY <1>5, Mounting DEF MountNew, disk
  <2>2. PICK behind \in {NoEntry, Garbage} : dir' = FreshDir(behind)
    BY <1>5 DEF MountNew
  <2>3. \E L \in SUBSET Blocks : RootIn(L, table', dir', root')
    BY <2>1, <2>2, FreshIsRooted
  <2> QED
    BY <2>1, <2>3 DEF RInv, Guarded
<1>6. CASE MountFails
  <2>1. phase' = "broken" /\ diskRoot' = 0 /\ NoWild(writes')
    BY <1>6, WriteFacts, AppendKeeps, PieceFacts DEF MountFails, disk
  <2> QED
    BY <2>1 DEF RInv, Guarded
<1>7. CASE Operation
  <2>1. phase = "mounted" /\ phase' = phase /\ UNCHANGED <<disk, root>>
    BY <1>7, OperationShape DEF Ready
  <2>2. RootIn(K, table, dir, root)
    BY <1>1, <2>1 DEF Guarded
  <2>3. RootIn(K, table', dir', root) /\ NoWild(writes') /\ \A b \in K : table'[b] = table[b]
    BY <1>7, <2>2, OperationKeepsRoot
  <2>4. Guarded(K)'
    BY <1>1, <2>1, <2>3 DEF Guarded, disk
  <2> QED
    BY <2>3, <2>4 DEF RInv
<1>8. CASE UNCHANGED vars
  BY <1>8 DEF vars, memory, disk, RInv, Guarded
<1> QED
  BY <1>2, <1>3, <1>4, <1>5, <1>6, <1>7, <1>8, NextShape

LEMMA Remembered == [Next]_vars /\ dotted => dotted'
<1> SUFFICES ASSUME [Next]_vars, dotted PROVE dotted'
  OBVIOUS
<1>1. CASE Operation
  <2>1. Fails => dotted' = dotted
    BY DEF Fails, past
  <2> QED
    BY <1>1, <2>1 DEF Operation, Touch, Mkdir, Open, RemoveFile, Clean, Chmod, Extend, past
<1>2. CASE ~Operation
  BY <1>2, NextShape DEF Write, Reboot, Crash, LoseMemory, MountOld, MountNew, MountFails,
                         vars, past
<1> QED
  BY <1>1, <1>2

LEMMA Rooted == Spec => [](Inv /\ QInv /\ (~dotted => RInv))
<1>1. Init => RInv
  BY PieceFacts DEF Init, RInv, Guarded
<1>2. Inv /\ Inv' /\ QInv /\ (~dotted => RInv) /\ [Next]_vars => (~dotted => RInv)'
  BY StaysGuarded, Remembered
<1>3. Inv /\ QInv /\ [Next]_vars => QInv'
  BY QueueKept
<1> QED
  BY <1>1, <1>2, <1>3, QueueInitially, Invariance, PTL DEF Spec

(* Once the superblock on the disk names a root, the volume can be         *)
(* mounted: the root's chain and its first entry are there whatever moment *)
(* the machine stopped at, any number of times, whatever is created,       *)
(* removed and cleaned, until somebody removes "." itself or makes a       *)
(* directory of that name.                                                 *)
THEOREM RootNeverLost == Spec => []RootKept
<1>1. Inv /\ (~dotted => RInv) => RootKept
  <2> SUFFICES ASSUME Inv, NEW K \in SUBSET Blocks, Guarded(K), diskRoot # 0
               PROVE  /\ Intact(diskTable, diskRoot)
                      /\ Cardinality(Walk(diskTable, diskRoot)) = DirBlocks
                      /\ diskDir[1] = Entry(".", diskRoot)
    BY DEF RInv, RootKept
  <2>1. RootIn(K, diskTable, diskDir, diskRoot) /\ Ascends(diskTable)
    BY DEF Guarded, Inv, LinksAscend
  <2> QED
    BY <2>1, RootWhole
<1> QED
  BY <1>1, Rooted, PTL

(* As long as nobody names a file with the empty name, and until the root  *)
(* was written over, mfs_ls_next, which stops at the first free entry,     *)
(* reaches every file that can be found.                                   *)
THEOREM ListingReachesAll == NamesGiven => (Spec => []ListedAll)
<1> SUFFICES ASSUME NamesGiven PROVE Spec => []ListedAll
  OBVIOUS
<1>1. Init => LInv
  <2> SUFFICES ASSUME Init PROVE LInv
    OBVIOUS
  <2>1. \A s \in Slots : dir[s].name = ""
    BY DEF Init, NoDir, NoEntry, Entry
  <2>2. \A s \in Kept : diskDir[s].name = ""
    BY DEF Init, NoEntry, Entry
  <2> QED
    BY <2>1, <2>2 DEF LInv, Compact, NamesGiven
<1>2. Inv /\ (~dotted => RInv) /\ (~dotted => LInv) /\ [Next]_vars => (~dotted => LInv)'
  BY StaysCompact, Remembered DEF RInv
<1>3. (~dotted => LInv) => ListedAll
  BY DEF LInv, Compact, ListedAll
<1> QED
  BY <1>1, <1>2, <1>3, Rooted, PTL DEF Spec

-----------------------------------------------------------------------------
(* Files that keep apart.  Some of the slots are lost, not more than there *)
(* were crashes.  As long as nobody cleaned, mkdir kept what it made and   *)
(* "." was left alone, the chains in memory of the other slots are whole   *)
(* and apart but for those that are marked, only what somebody removed is  *)
(* marked, and whatever those slots lead to is on the disk or queued.  On  *)
(* the disk already is all of it but for one slot, the one the operation   *)
(* under way made or removed: that is the one a crash adds to the lost.    *)
(* Blocks that extend took without saving the table are on no chain of a   *)
(* slot that is not lost.                                                  *)
Live(d, t) == {s \in DOMAIN d : d[s].first \in Blocks /\ t[d[s].first] # Tombstone}
Unmarked(d, t, lost) ==
  \A s \in DOMAIN d \ (lost \cup gone) :
    d[s].first \in Blocks => t[d[s].first] # Tombstone
TableOut(b) == table[b] = diskTable[b] \/ TableIn(writes, b, Len(writes))
Settled(s) ==
  /\ diskDir[s] = dir[s]
  /\ \A b \in Walk(table, dir[s].first) : diskTable[b] = table[b]
Survive(d, t, lost) == Sound(d, t, Live(d, t) \ lost)
Damaged(lost, risked) ==
  /\ Cardinality(lost) <= crashes
  /\ Survive(dir, table, lost) /\ Unmarked(dir, table, lost)
  /\ \A s \in Slots \ lost : \A b \in Walk(table, dir[s].first) : TableOut(b)
  /\ \A s \in Kept \ (lost \cup {risked}) : Settled(s)
DamagedDisk(lost) ==
  /\ Cardinality(lost) <= crashes
  /\ Survive(diskDir, diskTable, lost) /\ Unmarked(diskDir, diskTable, lost)
CInv ==
  /\ phase # "mounted" => dir = NoDir
  /\ phase = "broken" => table = diskTable
  /\ phase = "mounted" => DirOut \/ HasDir(writes)
  /\ diskRoot = 0 => \A s \in Kept \ {1} :
       diskDir[s] = NoEntry /\ (phase = "mounted" => dir[s] = NoEntry)
  /\ ~loose /\ phase # "mounted" => \E lost \in SUBSET Slots : DamagedDisk(lost)
  /\ ~loose /\ phase = "mounted" =>
       \E lost \in SUBSET Slots, risked \in Slots : Damaged(lost, risked)

LEMMA Unused == NoEntry.first \notin Blocks /\ Garbage.first \notin Blocks
<1>1. NoEntry.first = Free /\ Garbage.first = Bad
  BY DEF NoEntry, Garbage, Entry
<1> QED
  BY <1>1, BlockFacts

LEMMA NothingLive == \A t : Live(NoDir, t) = {}
BY Unused DEF Live, NoDir

LEMMA SlotSets ==
  ASSUME NEW S \in SUBSET Slots
  PROVE  /\ IsFiniteSet(S) /\ Cardinality(S) \in Nat
         /\ \A R \in SUBSET S : Cardinality(R) <= Cardinality(S)
         /\ \A x \in Slots : Cardinality(S \cup {x}) <= Cardinality(S) + 1
         /\ \A x \in S, y \in Slots :
              Cardinality((S \ {x}) \cup {y}) <= Cardinality(S)
<1>1. IsFiniteSet(Slots)
  BY MfsConstants, FS_Interval DEF Slots
<1>2. ASSUME NEW R \in SUBSET Slots PROVE IsFiniteSet(R) /\ Cardinality(R) \in Nat
  BY <1>1, FS_Subset, FS_CardinalityType
<1>3. \A R \in SUBSET S : Cardinality(R) <= Cardinality(S)
  BY <1>2, FS_Subset
<1>4. ASSUME NEW R \in SUBSET Slots, NEW x \in Slots
      PROVE  Cardinality(R \cup {x}) <= Cardinality(R) + 1
  <2>1. Cardinality(R \cup {x}) = IF x \in R THEN Cardinality(R) ELSE Cardinality(R) + 1
    BY <1>2, FS_AddElement
  <2> QED
    BY <1>2, <2>1
<1>5. ASSUME NEW x \in S, NEW y \in Slots
      PROVE  Cardinality((S \ {x}) \cup {y}) <= Cardinality(S)
  <2>1. Cardinality(S \ {x}) = Cardinality(S) - 1
    BY <1>2, FS_RemoveElement
  <2>2. S \ {x} \in SUBSET Slots
    OBVIOUS
  <2>3. Cardinality((S \ {x}) \cup {y}) <= Cardinality(S \ {x}) + 1
    BY <1>4, <2>2
  <2>4. (S \ {x}) \cup {y} \in SUBSET Slots
    OBVIOUS
  <2>5. Cardinality((S \ {x}) \cup {y}) \in Nat /\ Cardinality(S) \in Nat
    BY <1>2, <2>4
  <2> QED
    BY <2>1, <2>3, <2>5
<1> QED
  BY <1>2, <1>3, <1>4, <1>5

(* What does not move stays sound.                                         *)
LEMMA SoundMoves ==
  ASSUME NEW t, Ascends(t), NEW d, NEW lost, Survive(d, t, lost),
         NEW u, Ascends(u), NEW e, NEW S,
         \A s \in S : /\ s \in Live(d, t) \ lost /\ e[s].first = d[s].first
                      /\ \A c \in Walk(t, d[s].first) : u[c] = t[c]
  PROVE  Sound(e, u, S) /\ \A s \in S : Walk(u, e[s].first) = Walk(t, d[s].first)
<1>1. ASSUME NEW s \in S
      PROVE  Walk(u, e[s].first) = Walk(t, d[s].first) /\ Intact(u, e[s].first)
  <2>1. d[s].first \in Blocks /\ e[s].first = d[s].first /\ Intact(t, d[s].first)
    BY DEF Live, Survive, Sound
  <2>2. \A c \in Walk(t, d[s].first) : u[c] = t[c]
    OBVIOUS
  <2> QED
    BY <2>1, <2>2, SameWalk
<1>2. ASSUME NEW s \in S, NEW v \in S \ {s}
      PROVE  Walk(u, e[s].first) \cap Walk(u, e[v].first) = {}
  <2>1. Walk(t, d[s].first) \cap Walk(t, d[v].first) = {}
    <3>1. s \in Live(d, t) \ lost /\ v \in (Live(d, t) \ lost) \ {s}
      OBVIOUS
    <3> QED
      BY <3>1 DEF Survive, Sound
  <2> QED
    BY <1>1, <2>1
<1> QED
  BY <1>1, <1>2 DEF Sound

(* Nothing a directory leads to is free, but for what is lost.             *)
LEMMA LedToIsTaken ==
  ASSUME NEW t, Ascends(t), NEW d, NEW lost, Survive(d, t, lost),
         NEW s \in DOMAIN d \ lost, NEW b \in Walk(t, d[s].first)
  PROVE  t[b] # Free /\ d[s].first \in Blocks
<1>1. d[s].first \in Blocks
  BY DEF Walk
<1>2. Free \notin Blocks /\ Free # End /\ Free # Tombstone
  BY BlockFacts, MfsConstants DEF Free, End, Tombstone
<1>3. CASE t[d[s].first] = Tombstone
  <2>1. Walk(t, d[s].first) = {d[s].first}
    <3>1. t[d[s].first] \notin Blocks
      BY <1>3, BlockFacts
    <3>2. \A b0 \in Blocks : t[b0] \notin Blocks => Walk(t, b0) = {b0}
      BY WalkStep
    <3> QED
      BY <1>1, <3>1, <3>2, Zenon
  <2> QED
    BY <1>1, <1>2, <1>3, <2>1
<1>4. CASE t[d[s].first] # Tombstone
  <2>1. s \in Live(d, t) \ lost
    BY <1>1, <1>4 DEF Live
  <2>2. Intact(t, d[s].first)
    BY <2>1 DEF Survive, Sound
  <2>3. t[b] \in Blocks \cup {End}
    BY <1>1, <2>2, WholeChain
  <2> QED
    BY <1>1, <1>2, <2>3
<1> QED
  BY <1>3, <1>4

(* So taking free blocks moves nothing else a directory leads to.          *)
LEMMA TakingMoves ==
  ASSUME Inv, NEW lost, Survive(dir, table, lost), NEW n \in Nat \ {0}, Enough(n)
  PROVE  /\ Survive(dir, Linked(n), lost)
         /\ \A s \in Slots \ lost :
              /\ Walk(Linked(n), dir[s].first) = Walk(table, dir[s].first)
              /\ \A b \in Walk(table, dir[s].first) :
                   b \notin Chosen(n) /\ Linked(n)[b] = table[b]
<1> DEFINE u == Linked(n)
           chosen == Chosen(n)
<1>1. table \in [Blocks -> Values] /\ Ascends(table) /\ DOMAIN dir = Slots
      /\ n <= Cardinality(Ones(table))
  BY DEF Inv, TypeOK, LinksAscend, Enough
<1>2. /\ chosen \subseteq Ones(table) /\ Ascends(u)
      /\ \A b \in Blocks \ chosen : u[b] = table[b]
  BY <1>1, ChosenIsLowest, LinkUpFacts
<1> HIDE DEF u, chosen
<1>3. ASSUME NEW s \in Slots \ lost, NEW b \in Walk(table, dir[s].first)
      PROVE  b \notin chosen /\ u[b] = table[b]
  <2>1. dir[s].first \in Blocks /\ table[b] # Free
    BY <1>1, LedToIsTaken
  <2>2. b \in Blocks
    BY <1>1, <2>1, WalkFacts
  <2> QED
    BY <1>2, <2>1, <2>2 DEF Ones
<1>4. ASSUME NEW s \in Slots \ lost
      PROVE  Walk(u, dir[s].first) = Walk(table, dir[s].first)
  <2>1. CASE dir[s].first \in Blocks
    BY <1>1, <1>2, <1>3, <2>1, SameWalk
  <2>2. CASE dir[s].first \notin Blocks
    BY <2>2 DEF Walk
  <2> QED
    BY <2>1, <2>2
<1>5. \A s \in Live(dir, u) \ lost : s \in Live(dir, table) \ lost
  <2> SUFFICES ASSUME NEW s \in Live(dir, u) \ lost PROVE s \in Live(dir, table)
    OBVIOUS
  <2>1. s \in Slots \ lost /\ dir[s].first \in Blocks /\ u[dir[s].first] # Tombstone
    BY <1>1 DEF Live
  <2>2. dir[s].first \in Walk(table, dir[s].first)
    BY <1>1, <2>1, WalkFacts
  <2>3. u[dir[s].first] = table[dir[s].first]
    BY <1>3, <2>1, <2>2
  <2> QED
    BY <1>1, <2>1, <2>3 DEF Live
<1>6. \A s \in Live(dir, u) \ lost : s \in Slots \ lost
  BY <1>1 DEF Live
<1>7. Sound(dir, u, Live(dir, u) \ lost)
  BY <1>1, <1>2, <1>3, <1>5, <1>6, SoundMoves
<1> QED
  BY <1>3, <1>4, <1>7 DEF u, chosen, Survive

(* A new file damages no other, and only its own slot changes.             *)
LEMMA CreatingSound ==
  ASSUME Inv, NEW lost, Survive(dir, table, lost),
         NEW name, NEW size \in Nat \ {0}, Creatable(name, size), Create(name, size)
  PROVE  /\ Survive(dir', table', lost)
         /\ \E m \in Slots :
              /\ \A s \in Slots \ {m} : dir'[s] = dir[s]
              /\ dir' = dir \/ table'[dir'[m].first] # Tombstone
<1> DEFINE u == Linked(size)
           chosen == Chosen(size)
           first == Min(chosen)
<1>1. table \in [Blocks -> Values] /\ Ascends(table) /\ DOMAIN dir = Slots
      /\ size <= Cardinality(Ones(table)) /\ Enough(size)
  BY DEF Inv, TypeOK, LinksAscend, Enough, Creatable
<1>2. /\ chosen \subseteq Ones(table) /\ Ascends(u)
      /\ first \in chosen /\ Walk(u, first) = chosen /\ Intact(u, first)
  BY <1>1, ChosenIsLowest, LinkUpFacts
<1>3. /\ Survive(dir, u, lost)
      /\ \A s \in Slots \ lost : Walk(u, dir[s].first) = Walk(table, dir[s].first)
      /\ \A s \in Slots \ lost : \A b \in Walk(table, dir[s].first) : b \notin chosen
  BY <1>1, TakingMoves
<1>4. table' = u /\ dir' = WithEntry(dir, Stored[name], first)
  BY DEF Create
<1> HIDE DEF u, chosen, first
<1>5. CASE dir' = dir
  <2>1. 1 \in Slots
    BY MfsConstants DEF Slots
  <2> QED
    BY <1>3, <1>4, <1>5, <2>1
<1>6. ASSUME NEW m \in Slots, dir' = [dir EXCEPT ![m] = Entry(Stored[name], first)]
      PROVE  /\ Survive(dir', u, lost) /\ \A s \in Slots \ {m} : dir'[s] = dir[s]
             /\ u[dir'[m].first] # Tombstone
  <2> DEFINE e == dir'
             rest == Live(e, u) \ (lost \cup {m})
  <2>1. e[m].first = first /\ DOMAIN e = Slots /\ \A s \in Slots : s # m => e[s] = dir[s]
    BY <1>1, <1>6 DEF Entry
  <2> HIDE DEF e
  <2>2. \A s \in rest : s \in Live(dir, u) \ lost /\ e[s].first = dir[s].first /\ s \in Slots
    BY <1>1, <2>1 DEF Live
  <2>3. Sound(e, u, rest) /\ \A s \in rest : Walk(u, e[s].first) = Walk(u, dir[s].first)
    BY <1>2, <1>3, <2>2, SoundMoves
  <2>4. \A s \in rest : Walk(u, e[s].first) \cap chosen = {}
    BY <1>3, <2>2, <2>3
  <2>5. Walk(u, e[m].first) = chosen /\ Intact(u, e[m].first)
    BY <1>2, <2>1
  <2>6. Sound(e, u, rest \cup {m})
    <3>1. \A s \in rest \cup {m} : Intact(u, e[s].first)
      BY <2>3, <2>5 DEF Sound
    <3>2. ASSUME NEW s \in rest \cup {m}, NEW v \in (rest \cup {m}) \ {s}
          PROVE  Walk(u, e[s].first) \cap Walk(u, e[v].first) = {}
      <4>1. CASE s = m
        <5>1. v \in rest
          BY <4>1
        <5> QED
          BY <2>4, <2>5, <4>1, <5>1
      <4>2. CASE s # m /\ v = m
        <5>1. s \in rest
          BY <4>2
        <5> QED
          BY <2>4, <2>5, <4>2, <5>1
      <4>3. CASE s # m /\ v # m
        <5>1. s \in rest /\ v \in rest \ {s}
          BY <4>3
        <5> QED
          BY <2>3, <5>1 DEF Sound
      <4> QED
        BY <4>1, <4>2, <4>3
    <3> QED
      BY <3>1, <3>2 DEF Sound
  <2>7. Live(e, u) \ lost \subseteq rest \cup {m}
    OBVIOUS
  <2> HIDE DEF rest
  <2>8. Sound(e, u, Live(e, u) \ lost)
    BY <2>6, <2>7 DEF Sound
  <2>9. u[first] # Tombstone
    <3>1. first \in Blocks
      BY <1>2 DEF Ones
    <3>2. u[first] \in Blocks \cup {End}
      BY <1>2, <3>1, WholeChain
    <3> QED
      BY <3>2, BlockFacts, MfsConstants DEF End, Tombstone
  <2> QED
    BY <2>1, <2>8, <2>9 DEF e, Survive
<1> QED
  BY <1>4, <1>5, <1>6, WithEntryFacts

(* Of two blocks on one chain, one comes after the other.                  *)
LEMMA WalkIsLine ==
  ASSUME NEW t, Ascends(t), NEW b \in Blocks, NEW c \in Walk(t, b), NEW d \in Walk(t, b)
  PROVE  d \in Walk(t, c) \/ c \in Walk(t, d)
<1> DEFINE Lined(a) == \A x, y \in Walk(t, a) : y \in Walk(t, x) \/ x \in Walk(t, y)
           Poor == {a \in Blocks : ~Lined(a)}
<1>1. Poor = {}
  <2> SUFFICES ASSUME Poor # {} PROVE FALSE
    OBVIOUS
  <2> DEFINE m == Max(Poor)
  <2>1. m \in Poor /\ \A a \in Poor : a <= m
    BY HighestBlock
  <2> HIDE DEF m
  <2>2. /\ m \in Blocks /\ m \in Nat /\ ~Lined(m)
        /\ t[m] \in Blocks => t[m] > m /\ t[m] \in Nat
    BY <2>1, BlockFacts DEF Ascends
  <2>3. Walk(t, m) = {m} \cup IF t[m] \in Blocks THEN Walk(t, t[m]) ELSE {}
    BY <2>2, WalkStep
  <2>4. t[m] \in Blocks => Lined(t[m])
    <3> SUFFICES ASSUME t[m] \in Blocks PROVE t[m] \notin Poor
      OBVIOUS
    <3> QED
      BY <2>1, <2>2
  <2> QED
    BY <2>2, <2>3, <2>4
<1> QED
  BY <1>1

(* A walk from wherever meets the chain of one other file at most: once on *)
(* it, it stays there.                                                     *)
LEMMA OneChainMet ==
  ASSUME NEW t, Ascends(t), NEW d, NEW lost, Survive(d, t, lost),
         NEW f, NEW s \in Live(d, t) \ lost, NEW v \in Live(d, t) \ lost,
         Walk(t, f) \cap Walk(t, d[s].first) # {},
         Walk(t, f) \cap Walk(t, d[v].first) # {}
  PROVE  s = v
<1>1. PICK x \in Walk(t, f) : x \in Walk(t, d[s].first)
  OBVIOUS
<1>2. PICK y \in Walk(t, f) : y \in Walk(t, d[v].first)
  OBVIOUS
<1>3. f \in Blocks /\ d[s].first \in Blocks /\ d[v].first \in Blocks
  BY <1>1 DEF Walk, Live
<1>4. ASSUME NEW b \in Blocks, NEW c \in Walk(t, b) PROVE Walk(t, c) \subseteq Walk(t, b)
  <2>1. c \in Blocks /\ \A a \in Blocks \cap Walk(t, b) : t[a] \in Blocks => t[a] \in Walk(t, b)
    BY WalkFacts
  <2> QED
    BY <2>1, WalkLeast
<1>5. y \in Walk(t, x) \/ x \in Walk(t, y)
  BY <1>3, WalkIsLine
<1>6. Walk(t, d[s].first) \cap Walk(t, d[v].first) # {}
  <2>1. Walk(t, x) \subseteq Walk(t, d[s].first) /\ Walk(t, y) \subseteq Walk(t, d[v].first)
    BY <1>1, <1>2, <1>3, <1>4
  <2> QED
    BY <1>1, <1>2, <1>5, <2>1
<1> QED
  BY <1>6 DEF Survive, Sound

(* A removal damages no file, or one in place of a lost one that it        *)
(* removes; what the other slots lead to stays as it is.                   *)
LEMMA RemovingSound ==
  ASSUME Inv, NEW lost \in SUBSET Slots, Survive(dir, table, lost), Ascends(table'),
         NEW name, Found(name), table' = Removed(First(name)), dir' = dir
  PROVE  \E now \in SUBSET Slots, m \in Slots :
           /\ m = Min(Matches(name))
           /\ Cardinality(now) <= Cardinality(lost) /\ lost \subseteq now \cup {m}
           /\ Survive(dir', table', now)
           /\ \A s \in Slots \ (now \cup {m}) :
                \A c \in Walk(table, dir[s].first) : table'[c] = table[c]
<1> DEFINE f == First(name)
           marked == Walk(table, f)
<1>1. Ascends(table) /\ DOMAIN dir = Slots /\ Tombstone \notin Blocks
  BY BlockFacts DEF Inv, TypeOK, LinksAscend
<1>2. table' = [c \in Blocks |-> IF c \in marked THEN Tombstone ELSE table[c]]
  BY DEF Removed
<1>3. PICK m \in Slots : m = Min(Matches(name)) /\ f = dir[m].first
  <2>1. Matches(name) \in SUBSET Slots /\ Matches(name) \in SUBSET Nat /\ Matches(name) # {}
    BY BlockFacts DEF Matches, Found
  <2>2. Min(Matches(name)) \in Slots
    BY <2>1, MinFacts
  <2> QED
    BY <2>2 DEF First
<1> HIDE DEF f
\* the files hit: those whose chain the walk meets
<1> DEFINE Hit == {s \in Live(dir, table) \ lost : marked \cap Walk(table, dir[s].first) # {}}
<1>4. \A s, v \in Hit : s = v
  BY <1>1, OneChainMet
<1>5. Hit \in SUBSET Slots
  BY <1>1 DEF Live
<1>6. ASSUME NEW s \in Slots \ lost, s \notin Hit, NEW c \in Walk(table, dir[s].first)
      PROVE  table'[c] = table[c]
  <2> DEFINE g == dir[s].first
  <2>1. g \in Blocks
    BY <1>6 DEF Walk
  <2>2. c \in Blocks
    BY <1>1, <1>6, <2>1, WalkFacts
  <2>3. CASE s \in Live(dir, table)
    <3>1. c \notin marked
      BY <1>6, <2>3
    <3> QED
      BY <1>2, <2>2, <3>1
  <2>4. CASE s \notin Live(dir, table)
    <3>1. table[g] = Tombstone
      BY <1>1, <2>1, <2>4 DEF Live
    <3>2. Walk(table, g) = {g}
      BY <1>1, <2>1, <3>1, WalkStep
    <3>3. table[c] = Tombstone
      BY <1>6, <3>1, <3>2
    <3> QED
      BY <1>2, <2>2, <3>3
  <2> QED
    BY <2>3, <2>4
\* the slot whose file is removed is live no more
<1>7. ASSUME NEW s \in Live(dir, table') PROVE s \in Live(dir, table) /\ s # m
  <2>1. s \in Slots /\ dir[s].first \in Blocks /\ table'[dir[s].first] # Tombstone
    BY <1>1, <1>7 DEF Live
  <2>2. dir[s].first \notin marked /\ table[dir[s].first] # Tombstone
    BY <1>2, <2>1
  <2>3. s # m
    BY <1>1, <1>3, <2>1, <2>2, WalkFacts
  <2> QED
    BY <1>1, <2>1, <2>2, <2>3 DEF Live
<1>8. ASSUME NEW now, lost \subseteq now \cup {m}, Hit \subseteq now \cup {m}
      PROVE  /\ Survive(dir', table', now)
             /\ \A s \in Slots \ (now \cup {m}) :
                  \A c \in Walk(table, dir[s].first) : table'[c] = table[c]
  <2>1. \A s \in Slots \ (now \cup {m}) : s \notin lost /\ s \notin Hit
    BY <1>8
  <2>2. \A s \in Slots \ (now \cup {m}) :
          \A c \in Walk(table, dir[s].first) : table'[c] = table[c]
    BY <1>6, <2>1
  <2>3. \A s \in Live(dir, table') \ now :
          s \in Live(dir, table) \ lost /\ s \in Slots \ (now \cup {m})
    BY <1>1, <1>7, <1>8 DEF Live
  <2>4. Sound(dir, table', Live(dir, table') \ now)
    BY <1>1, <2>2, <2>3, SoundMoves
  <2> QED
    BY <2>2, <2>4 DEF Survive
<1> HIDE DEF Hit, marked
<1>9. CASE Hit \subseteq {m}
  <2>1. Cardinality(lost) <= Cardinality(lost)
    BY SlotSets
  <2> QED
    BY <1>3, <1>8, <1>9, <2>1
<1>10. CASE ~(Hit \subseteq {m})
  <2>1. PICK g \in Hit : g # m
    BY <1>10
  <2>2. Hit = {g} /\ g \in Slots
    BY <1>4, <1>5
  <2>3. m \in lost
    <3> SUFFICES ASSUME m \notin lost PROVE FALSE
      OBVIOUS
    <3>1. g \in Live(dir, table) \ lost /\ marked \cap Walk(table, dir[g].first) # {}
      BY DEF Hit
    <3>2. PICK c \in marked : table[c] # Tombstone
      <4>1. PICK c \in marked : c \in Walk(table, dir[g].first)
        BY <3>1
      <4>2. dir[g].first \in Blocks /\ Intact(table, dir[g].first)
        BY <3>1 DEF Live, Survive, Sound
      <4>3. table[c] \in Blocks \cup {End}
        BY <1>1, <4>1, <4>2, WholeChain
      <4>4. End # Tombstone
        BY MfsConstants DEF End, Tombstone
      <4> QED
        BY <1>1, <4>1, <4>3, <4>4
    <3>3. f \in Blocks
      BY <3>2 DEF marked, Walk
    <3>4. table[f] # Tombstone
      <4> SUFFICES ASSUME table[f] = Tombstone PROVE FALSE
        OBVIOUS
      <4>1. marked = {f}
        BY <1>1, <3>3, WalkStep DEF marked
      <4> QED
        BY <3>2, <4>1
    <3>5. m \in Live(dir, table) \ lost
      BY <1>1, <1>3, <3>3, <3>4 DEF Live
    <3>6. f \in marked /\ marked = Walk(table, dir[m].first)
      BY <1>1, <1>3, <3>3, WalkFacts DEF marked
    <3>7. m \in Hit
      BY <3>5, <3>6 DEF Hit
    <3> QED
      BY <2>1, <2>2, <3>7
  <2> DEFINE now == (lost \ {m}) \cup {g}
  <2>4. Cardinality(now) <= Cardinality(lost) /\ now \in SUBSET Slots
    BY <2>2, <2>3, SlotSets
  <2>5. lost \subseteq now \cup {m} /\ Hit \subseteq now \cup {m}
    BY <2>2
  <2> HIDE DEF now
  <2> QED
    BY <1>3, <1>8, <2>4, <2>5
<1> QED
  BY <1>9, <1>10

(* What is on the disk of the files that are not lost is what is in memory *)
(* of them.                                                                *)
LEMMA SettledSurvives ==
  ASSUME Inv, NEW lost, Survive(dir, table, lost), NEW out, lost \subseteq out,
         \A s \in Kept \ out : Settled(s)
  PROVE  /\ Survive(diskDir, diskTable, out)
         /\ Unmarked(dir, table, lost) => Unmarked(diskDir, diskTable, out)
<1>1. /\ Ascends(table) /\ Ascends(diskTable)
      /\ DOMAIN dir = Slots /\ DOMAIN diskDir = Kept /\ Kept \subseteq Slots
  BY BlockFacts DEF Inv, TypeOK, LinksAscend
<1>2. ASSUME NEW s \in Live(diskDir, diskTable) \ out
      PROVE  /\ s \in Live(dir, table) \ lost /\ diskDir[s].first = dir[s].first
             /\ \A c \in Walk(table, dir[s].first) : diskTable[c] = table[c]
  <2>1. s \in Kept \ out /\ s \in Slots \ lost
    BY <1>1 DEF Live
  <2>2. diskDir[s] = dir[s] /\ \A c \in Walk(table, dir[s].first) : diskTable[c] = table[c]
    BY <2>1 DEF Settled
  <2>3. dir[s].first \in Blocks /\ diskTable[dir[s].first] # Tombstone
    BY <2>2 DEF Live
  <2>4. dir[s].first \in Walk(table, dir[s].first)
    BY <1>1, <2>3, WalkFacts
  <2>5. table[dir[s].first] # Tombstone
    BY <2>2, <2>3, <2>4
  <2> QED
    BY <1>1, <2>1, <2>2, <2>3, <2>5 DEF Live
<1>3. Sound(diskDir, diskTable, Live(diskDir, diskTable) \ out)
  BY <1>1, <1>2, SoundMoves
<1>4. ASSUME Unmarked(dir, table, lost), NEW s \in Kept \ (out \cup gone),
             diskDir[s].first \in Blocks
      PROVE  diskTable[diskDir[s].first] # Tombstone
  <2>1. diskDir[s] = dir[s] /\ \A b \in Walk(table, dir[s].first) : diskTable[b] = table[b]
    BY <1>4 DEF Settled
  <2>2. dir[s].first \in Walk(table, dir[s].first)
    BY <1>1, <1>4, <2>1, WalkFacts
  <2>3. table[dir[s].first] # Tombstone
    BY <1>1, <1>4, <2>1 DEF Unmarked
  <2> QED
    BY <2>1, <2>2, <2>3
<1> QED
  BY <1>1, <1>3, <1>4 DEF Survive, Unmarked

(* Between operations everything that is not lost is on the disk.          *)
LEMMA AllSettled ==
  ASSUME Inv, CInv, phase = "mounted", writes = <<>>,
         NEW lost \in SUBSET Slots, NEW risked \in Slots, Damaged(lost, risked)
  PROVE  /\ DirOut
         /\ \A s \in Slots \ lost : \A b \in Walk(table, dir[s].first) : diskTable[b] = table[b]
         /\ \A s \in Kept \ lost : Settled(s)
<1>1. ~HasDir(writes) /\ \A b : ~TableIn(writes, b, Len(writes))
  BY DEF HasDir, TableIn
<1>2. DirOut
  BY <1>1 DEF CInv
<1>3. \A s \in Slots \ lost : \A b \in Walk(table, dir[s].first) : diskTable[b] = table[b]
  BY <1>1 DEF Damaged, TableOut
<1> QED
  BY <1>2, <1>3, BlockFacts DEF Settled, DirOut

(* A write brings the disk nearer to the memory.                           *)
LEMMA WritingApart ==
  ASSUME Inv, Inv', QInv, NoWild(writes), CInv, Write
  PROVE  CInv'
<1>1. /\ UNCHANGED <<phase, table, root, dir, crashes, loose, gone>> /\ 1 \in DOMAIN writes
      /\ \A i \in DOMAIN writes : i \in Nat /\ (i # 1 => i - 1 \in DOMAIN writes' /\ writes'[i - 1] = writes[i])
      /\ diskDir' = IF writes[1][1] = "dir" THEN [s \in Kept |-> dir[s]] ELSE diskDir
      /\ diskTable' = [b \in Blocks |-> IF writes[1] = <<"table", Sector(b)>>
                                        THEN table[b] ELSE diskTable[b]]
      /\ diskRoot' = IF writes[1][1] = "super" THEN root ELSE diskRoot
  BY WriteShape DEF NoWild
<1>2. /\ DOMAIN dir = Slots /\ DOMAIN diskDir = Kept /\ Kept \subseteq Slots
      /\ diskTable \in [Blocks -> Values] /\ writes' \in Seq(Steps)
      /\ \A b : Walk(table, b) \subseteq Blocks
  <2>1. \A b : Walk(table, b) \subseteq Blocks
    BY WalkFacts DEF Walk, Inv, LinksAscend
  <2> QED
    BY <2>1, BlockFacts DEF Inv, TypeOK, Steps
<1>3. \A s \in Kept : diskDir'[s] = dir[s] \/ diskDir'[s] = diskDir[s]
  BY <1>1
<1>4. \A b \in Blocks : diskTable'[b] = table[b] \/ diskTable'[b] = diskTable[b]
  BY <1>1
<1>5. phase = "mounted" \/ phase = "broken"
  BY <1>1 DEF QInv, Inv, TypeOK
<1>6. diskRoot' = 0 => \A s \in Kept \ {1} :
        diskDir'[s] = NoEntry /\ (phase = "mounted" => dir[s] = NoEntry)
  <2> SUFFICES ASSUME diskRoot' = 0, NEW s \in Kept \ {1}
               PROVE  diskDir'[s] = NoEntry /\ (phase = "mounted" => dir[s] = NoEntry)
    OBVIOUS
  <2>1. diskRoot = 0
    <3>1. phase = "mounted" => root # 0
      BY BlockFacts DEF QInv, Free
    <3>2. phase = "broken" => diskRoot = 0
      BY DEF QInv
    <3> QED
      BY <1>1, <1>5, <3>1, <3>2
  <2>2. diskDir[s] = NoEntry /\ (phase = "mounted" => dir[s] = NoEntry)
    BY <2>1 DEF CInv
  <2>3. phase = "broken" => dir[s] = NoEntry
    BY <1>2 DEF CInv, NoDir
  <2> QED
    BY <1>3, <1>5, <2>2, <2>3
<1>7. CASE phase = "broken"
  <2>1. dir = NoDir /\ table = diskTable /\ diskTable' = diskTable
    BY <1>1, <1>2, <1>7 DEF CInv
  <2>2. ASSUME NEW lost, Survive(diskDir, diskTable, lost), Unmarked(diskDir, diskTable, lost)
        PROVE  Survive(diskDir', diskTable', lost) /\ Unmarked(diskDir, diskTable, lost)'
    <3>1. CASE diskDir' = diskDir
      BY <1>1, <2>1, <2>2, <3>1 DEF Unmarked
    <3>2. CASE diskDir' = [s \in Kept |-> NoDir[s]]
      <4>1. Live(diskDir', diskTable') \subseteq Live(NoDir, diskTable')
        BY <1>2, <3>2 DEF Live, NoDir
      <4>2. Live(NoDir, diskTable') = {}
        BY NothingLive
      <4>3. \A s \in DOMAIN diskDir' : diskDir'[s].first \notin Blocks
        BY <1>2, <3>2, Unused DEF NoDir
      <4> QED
        BY <4>1, <4>2, <4>3 DEF Survive, Sound, Unmarked
    <3> QED
      BY <1>1, <2>1, <3>1, <3>2
  <2>3. ~loose => \E lost \in SUBSET Slots : DamagedDisk(lost)'
    BY <1>1, <1>7, <2>2 DEF CInv, DamagedDisk
  <2> QED
    BY <1>1, <1>6, <1>7, <2>1, <2>3 DEF CInv
<1>8. CASE phase = "mounted"
  <2>1. DirOut' \/ HasDir(writes')
    <3>1. CASE DirOut
      BY <1>1, <3>1 DEF DirOut
    <3>2. ASSUME NEW i \in DOMAIN writes, writes[i][1] = "dir" PROVE DirOut' \/ HasDir(writes')
      <4>1. CASE i = 1
        BY <1>1, <3>2, <4>1 DEF DirOut
      <4>2. CASE i # 1
        BY <1>1, <3>2, <4>2 DEF HasDir
      <4> QED
        BY <4>1, <4>2
    <3> QED
      BY <1>8, <3>1, <3>2 DEF HasDir, CInv
  <2>2. ASSUME NEW b \in Blocks, TableOut(b) PROVE TableOut(b)'
    <3>1. CASE diskTable[b] = table[b]
      BY <1>1, <3>1 DEF TableOut
    <3>2. ASSUME NEW i \in DOMAIN writes, writes[i] = <<"table", Sector(b)>> PROVE TableOut(b)'
      <4>1. CASE i = 1
        BY <1>1, <3>2, <4>1 DEF TableOut
      <4>2. CASE i # 1
        <5>1. i - 1 \in DOMAIN writes' /\ writes'[i - 1] = <<"table", Sector(b)>>
          BY <1>1, <3>2, <4>2
        <5>2. TableIn(writes', b, Len(writes'))
          BY <1>2, <5>1 DEF TableIn
        <5> QED
          BY <5>2 DEF TableOut
      <4> QED
        BY <4>1, <4>2
    <3> QED
      BY <2>2, <3>1, <3>2 DEF TableOut, TableIn
  <2>3. ASSUME NEW s \in Kept, Settled(s) PROVE Settled(s)'
    <3>1. diskDir[s] = dir[s] /\ \A b \in Walk(table, dir[s].first) : diskTable[b] = table[b]
      BY <2>3 DEF Settled
    <3>2. diskDir'[s] = dir[s] /\ \A b \in Walk(table, dir[s].first) : diskTable'[b] = table[b]
      BY <1>2, <1>3, <1>4, <3>1
    <3> QED
      BY <1>1, <3>2 DEF Settled
  <2>4. ASSUME NEW lost, NEW risked, Damaged(lost, risked) PROVE Damaged(lost, risked)'
    <3>1. \A s \in Slots \ lost : \A b \in Walk(table, dir[s].first) : TableOut(b)'
      BY <1>2, <2>2, <2>4 DEF Damaged
    <3>2. \A s \in Kept \ (lost \cup {risked}) : Settled(s)'
      BY <2>3, <2>4 DEF Damaged
    <3> QED
      BY <1>1, <2>4, <3>1, <3>2 DEF Damaged, Unmarked
  <2>5. ~loose => \E lost \in SUBSET Slots, risked \in Slots : Damaged(lost, risked)'
    BY <1>8, <2>4 DEF CInv
  <2> QED
    BY <1>1, <1>6, <1>8, <2>1, <2>5 DEF CInv
<1> QED
  BY <1>5, <1>7, <1>8

(* Mounting a volume that has a root shows what is on the disk.            *)
LEMMA MountingApart ==
  ASSUME Inv, Inv', QInv, CInv, MountOld
  PROVE  CInv'
<1>0. /\ Ascends(table') /\ DOMAIN dir = Slots /\ DOMAIN diskDir = Kept /\ Kept \subseteq Slots
      /\ Ascends(diskTable) /\ DOMAIN dir' = Slots
  BY BlockFacts DEF Inv, TypeOK, LinksAscend
<1>1. PICK behind \in {NoEntry, Garbage} :
        dir' = [s \in Slots |-> IF s \in Kept THEN diskDir[s] ELSE behind]
  BY DEF MountOld
<1>2. /\ phase = "off" /\ phase' = "mounted" /\ table' = diskTable /\ diskRoot # 0
      /\ UNCHANGED <<crashes, loose, gone>> /\ UNCHANGED disk
  BY DEF MountOld, past
<1>3. behind.first \notin Blocks
  <2>1. behind = NoEntry \/ behind = Garbage
    BY <1>1
  <2> QED
    BY <2>1, Unused, Zenon
<1>4. DirOut'
  BY <1>0, <1>1, <1>2 DEF DirOut, disk
<1>5. ASSUME NEW lost \in SUBSET Slots, DamagedDisk(lost) PROVE Damaged(lost, 1)'
  <2>1. /\ Survive(diskDir, diskTable, lost) /\ Cardinality(lost) <= crashes
        /\ Unmarked(diskDir, diskTable, lost)
    BY <1>5 DEF DamagedDisk
  <2>2. \A s \in Live(dir', diskTable) \ lost :
          s \in Live(diskDir, diskTable) \ lost /\ dir'[s].first = diskDir[s].first
    BY <1>0, <1>1, <1>3 DEF Live
  <2>3. Sound(dir', diskTable, Live(dir', diskTable) \ lost)
    BY <1>0, <2>1, <2>2, SoundMoves
  <2>4. \A s \in Kept : Settled(s)'
    BY <1>0, <1>2, <1>4 DEF Settled, DirOut, disk
  <2>5. Unmarked(dir, table, lost)'
    BY <1>0, <1>1, <1>2, <1>3, <2>1 DEF Unmarked
  <2> QED
    BY <1>2, <2>1, <2>3, <2>4, <2>5 DEF Damaged, Survive, TableOut, disk
<1>6. 1 \in Slots
  BY MfsConstants DEF Slots
<1>7. ~loose' => \E lost \in SUBSET Slots, risked \in Slots : Damaged(lost, risked)'
  BY <1>2, <1>5, <1>6 DEF CInv
<1> QED
  BY <1>2, <1>4, <1>7 DEF CInv, disk

(* Mounting one that has none makes a root, and nothing else is there.     *)
LEMMA MakingRootApart ==
  ASSUME Inv, Inv', RInv', CInv, MountNew
  PROVE  CInv'
<1>0. Ascends(table') /\ DOMAIN dir' = Slots /\ Kept \subseteq Slots /\ crashes \in Nat
  BY BlockFacts DEF Inv, TypeOK, LinksAscend
<1>1. /\ phase' = "mounted" /\ writes' = MountWrites /\ diskRoot = 0
      /\ table' = FreshTable /\ root' = FreshRoot
      /\ UNCHANGED disk /\ UNCHANGED <<crashes, loose, gone>>
  BY DEF MountNew, past
<1>2. PICK behind \in {NoEntry, Garbage} : dir' = FreshDir(behind)
  BY DEF MountNew
<1>3. PICK K \in SUBSET Blocks : RootIn(K, table', dir', root')
  BY <1>1 DEF RInv, Guarded, disk
<1>4. Intact(table', root') /\ dir'[1] = Entry(".", root')
  BY <1>0, <1>3, RootWhole
<1>5. \A s \in Slots : s # 1 => dir'[s].first \notin Blocks
  <2>1. behind = NoEntry \/ behind = Garbage
    BY <1>2
  <2>2. NoEntry.first \notin Blocks /\ behind.first \notin Blocks
    BY <2>1, Unused, Zenon
  <2> QED
    BY <1>2, <2>2 DEF FreshDir
<1>6. Survive(dir', table', {}) /\ Unmarked(dir, table, {})'
  <2>1. Live(dir', table') \subseteq {1}
    BY <1>0, <1>5 DEF Live
  <2>2. Intact(table', dir'[1].first)
    BY <1>4 DEF Entry
  <2>3. table'[dir'[1].first] # Tombstone
    <3>1. dir'[1].first \in Blocks
      BY <1>3, <1>4 DEF RootIn, Entry
    <3>2. table'[dir'[1].first] \in Blocks \cup {End}
      BY <1>0, <2>2, <3>1, WholeChain, WalkFacts
    <3> QED
      BY <3>2, BlockFacts, MfsConstants DEF End, Tombstone
  <2>4. Unmarked(dir, table, {})'
    BY <1>0, <1>5, <2>3 DEF Unmarked
  <2> QED
    BY <2>1, <2>2, <2>4 DEF Survive, Sound
<1>7. HasDir(MountWrites) /\ WholeTable(MountWrites)
  <2>1. PICK i \in DOMAIN MountWrites : MountWrites[i][1] = "super"
    BY Mounting DEF NoSuper
  <2>2. HasDir(MountWrites)
    BY <2>1, Mounting DEF DirBefore, HasDir
  <2>3. DOMAIN MountWrites = 1 .. Len(MountWrites) /\ Len(MountWrites) \in Nat
    BY WriteFacts
  <2>4. \A b \in Blocks : TableIn(MountWrites, b, i - 1)
    BY <2>1, Mounting DEF TableFirst
  <2>5. WholeTable(MountWrites)
    <3> SUFFICES ASSUME NEW b \in Blocks PROVE TableIn(MountWrites, b, Len(MountWrites))
      BY DEF WholeTable
    <3>1. PICK j \in 1 .. i - 1 : j \in DOMAIN MountWrites /\ MountWrites[j] = <<"table", Sector(b)>>
      BY <2>4 DEF TableIn
    <3> QED
      BY <2>3, <3>1 DEF TableIn
  <2> QED
    BY <2>2, <2>5
<1>8. \A s \in Slots : \A b \in Walk(table', dir'[s].first) : TableOut(b)'
  <2>1. \A b \in Blocks : TableOut(b)'
    BY <1>1, <1>7 DEF TableOut, WholeTable
  <2>2. \A s \in Slots : \A b \in Walk(table', dir'[s].first) : b \in Blocks
    BY <1>0, WalkFacts DEF Walk
  <2> QED
    BY <2>1, <2>2
<1>9. \A s \in Kept \ {1} : diskDir'[s] = NoEntry /\ dir'[s] = NoEntry
  BY <1>0, <1>1, <1>2 DEF CInv, FreshDir, disk
<1>10. \A s \in Kept \ {1} : Settled(s)'
  <2> SUFFICES ASSUME NEW s \in Kept \ {1} PROVE Settled(s)'
    OBVIOUS
  <2>1. diskDir'[s] = dir'[s] /\ dir'[s].first \notin Blocks
    BY <1>9, Unused
  <2> QED
    BY <2>1 DEF Settled, Walk
<1>11. Damaged({}, 1)'
  <2>1. Cardinality({}) = 0
    BY FS_EmptySet
  <2> QED
    BY <1>0, <1>1, <1>6, <1>8, <1>10, <2>1 DEF Damaged
<1>12. 1 \in Slots /\ {} \in SUBSET Slots
  BY MfsConstants DEF Slots
<1> QED
  BY <1>1, <1>7, <1>9, <1>11, <1>12 DEF CInv, disk

(* What an operation puts at risk is the file it makes or removes.         *)
LEMMA OperationApart ==
  ASSUME ~dotted', Inv, Inv', QInv, RInv, CInv, Operation
  PROVE  CInv'
<1>0. /\ Ascends(table) /\ Ascends(table') /\ DOMAIN dir = Slots /\ DOMAIN dir' = Slots
      /\ Kept \subseteq Slots /\ 1 \in Slots /\ loose \in BOOLEAN /\ crashes \in Nat
  BY BlockFacts, MfsConstants DEF Inv, TypeOK, LinksAscend, Slots
<1>1. /\ phase = "mounted" /\ phase' = phase /\ writes = <<>> /\ UNCHANGED disk
      /\ crashes' = crashes /\ root' = root /\ (loose => loose') /\ gone \subseteq gone'
  BY OperationShape DEF Ready, Older
<1>2. diskRoot # 0
  <2>1. NoSuper(<<>>)
    BY PieceFacts
  <2> QED
    BY <1>1, <2>1 DEF QInv
<1>3. DirOut
  BY <1>1 DEF CInv, HasDir
<1>4. DirOut' \/ HasDir(writes')
  <2>1. CASE dir' = dir
    BY <1>1, <1>3, <2>1 DEF DirOut, disk
  <2>2. ASSUME NEW name \in Names, NEW size \in Nat \ {0}, Creates(name, size)
        PROVE  HasDir(writes')
    <3>1. PICK K \in SUBSET Blocks : RootIn(K, table, dir, root)
      BY <1>1 DEF RInv, Guarded
    <3>2. RootIn(K, table', dir', root)
      BY <3>1, OperationKeepsRoot
    <3>3. Intact(table', root)
      BY <1>0, <3>2, RootWhole
    <3> QED
      BY <2>2, <3>3 DEF Creates
  <2> QED
    BY <2>1, <2>2, OperationShape DEF Leaves, Removes, Cleans, Takes
<1> SUFFICES ASSUME ~loose, ~loose'
             PROVE  \E lost \in SUBSET Slots, risked \in Slots : Damaged(lost, risked)'
  BY <1>0, <1>1, <1>2, <1>4 DEF CInv, disk
<1>5. PICK lost \in SUBSET Slots, risked \in Slots : Damaged(lost, risked)
  BY <1>1 DEF CInv
<1>6. /\ Cardinality(lost) <= crashes /\ Survive(dir, table, lost)
      /\ Unmarked(dir, table, lost)
      /\ \A s \in Slots \ lost : \A b \in Walk(table, dir[s].first) : diskTable[b] = table[b]
      /\ \A s \in Kept : diskDir'[s] = dir[s] /\ diskTable' = diskTable
  BY <1>1, <1>3, <1>5, AllSettled DEF Damaged, DirOut, disk
\* whatever keeps the walks of all slots but the one at risk
<1>7. ASSUME NEW now \in SUBSET Slots, NEW m \in Slots, Survive(dir', table', now),
             Cardinality(now) <= crashes, lost \subseteq now \cup {m},
             \A s \in Slots \ (now \cup {m}) :
               dir'[s] = dir[s] /\ \A b \in Walk(table, dir[s].first) : table'[b] = table[b],
             \A s \in Slots \ now : \A b \in Walk(table', dir'[s].first) : TableOut(b)',
             m \in gone' \/ table'[dir'[m].first] # Tombstone
               \/ /\ dir' = dir /\ lost \subseteq now
                  /\ \A s \in Slots \ lost :
                       \A b \in Walk(table, dir[s].first) : table'[b] = table[b]
      PROVE  Damaged(now, m)'
  <2>1. ASSUME NEW s \in Kept \ (now \cup {m}) PROVE Settled(s)'
    <3>1. s \in Slots \ lost /\ s \in Slots \ (now \cup {m})
      BY <1>0, <1>7
    <3>2. dir'[s] = dir[s] /\ \A b \in Walk(table, dir[s].first) : table'[b] = table[b]
      BY <1>7, <3>1
    <3>3. Walk(table', dir[s].first) = Walk(table, dir[s].first)
      <4>1. CASE dir[s].first \in Blocks
        BY <1>0, <3>2, <4>1, SameWalk
      <4>2. CASE dir[s].first \notin Blocks
        BY <4>2 DEF Walk
      <4> QED
        BY <4>1, <4>2
    <3>4. \A b \in Walk(table, dir[s].first) : diskTable'[b] = table'[b]
      BY <1>6, <3>1, <3>2
    <3> QED
      BY <1>6, <3>2, <3>3, <3>4 DEF Settled
  <2>2. ASSUME NEW s \in Slots \ (now \cup gone'), dir'[s].first \in Blocks
        PROVE  table'[dir'[s].first] # Tombstone
    <3>1. ASSUME s \notin lost, dir'[s] = dir[s],
                 \A b \in Walk(table, dir[s].first) : table'[b] = table[b]
          PROVE  table'[dir'[s].first] # Tombstone
      <4>1. table[dir[s].first] # Tombstone
        BY <1>0, <1>1, <1>6, <2>2, <3>1 DEF Unmarked
      <4>2. dir[s].first \in Walk(table, dir[s].first)
        BY <1>0, <2>2, <3>1, WalkFacts
      <4> QED
        BY <3>1, <4>1, <4>2
    <3>2. CASE s # m
      BY <1>7, <3>1, <3>2
    <3>3. CASE s = m /\ m \in lost
      BY <1>7, <2>2, <3>3
    <3>4. CASE s = m /\ m \notin lost
      BY <1>7, <2>2, <3>1, <3>4
    <3> QED
      BY <3>2, <3>3, <3>4
  <2> QED
    BY <1>0, <1>1, <1>7, <2>1, <2>2 DEF Damaged, Unmarked
<1>8. WholeTable(writes') => \A s \in Slots : \A b \in Walk(table', dir'[s].first) : TableOut(b)'
  <2>1. \A s \in Slots : \A b \in Walk(table', dir'[s].first) : b \in Blocks
    BY <1>0, WalkFacts DEF Walk
  <2> QED
    BY <2>1 DEF WholeTable, TableOut
<1>9. CASE Leaves
  <2>1. table' = table /\ dir' = dir
    BY <1>9 DEF Leaves
  <2>2. \A s \in Slots \ lost : \A b \in Walk(table', dir'[s].first) : TableOut(b)'
    BY <1>1, <1>6, <2>1 DEF TableOut, disk
  <2> QED
    BY <1>0, <1>6, <1>7, <2>1, <2>2
<1>10. ASSUME NEW name \in Names, NEW size \in Nat \ {0}, Creates(name, size)
       PROVE  \E now \in SUBSET Slots, m \in Slots : Damaged(now, m)'
  <2>1. Creatable(name, size) /\ Create(name, size) /\ WholeTable(writes')
    BY <1>10 DEF Creates
  <2>2. PICK m \in Slots :
          /\ \A s \in Slots \ {m} : dir'[s] = dir[s]
          /\ dir' = dir \/ table'[dir'[m].first] # Tombstone
    BY <1>6, <2>1, CreatingSound
  <2>3. Survive(dir', table', lost)
    BY <1>6, <2>1, CreatingSound
  <2>4. \A s \in Slots \ lost : \A b \in Walk(table, dir[s].first) : table'[b] = table[b]
    BY <1>6, <2>1, TakingMoves DEF Creatable, Create
  <2>5. /\ Cardinality(lost) <= crashes /\ lost \subseteq lost \cup {m}
        /\ \A s \in Slots \ (lost \cup {m}) :
             dir'[s] = dir[s] /\ \A b \in Walk(table, dir[s].first) : table'[b] = table[b]
        /\ \A s \in Slots \ lost : \A b \in Walk(table', dir'[s].first) : TableOut(b)'
    <3>1. \A s \in Slots : \A b \in Walk(table', dir'[s].first) : TableOut(b)'
      BY <1>8, <2>1
    <3>2. \A s \in Slots \ (lost \cup {m}) : dir'[s] = dir[s]
      BY <2>2
    <3>3. Cardinality(lost) <= crashes
      BY <1>6
    <3> QED
      BY <2>4, <3>1, <3>2, <3>3
  <2>6. CASE dir' = dir
    BY <1>7, <2>3, <2>4, <2>5, <2>6
  <2>7. CASE table'[dir'[m].first] # Tombstone
    BY <1>7, <2>3, <2>5, <2>7
  <2> QED
    BY <2>2, <2>6, <2>7
<1>11. ASSUME NEW name \in Removable, Removes(name)
       PROVE  \E now \in SUBSET Slots, m \in Slots : Damaged(now, m)'
  <2>1. /\ Found(name) /\ table' = Removed(First(name)) /\ dir' = dir /\ WholeTable(writes')
        /\ Min(Matches(name)) \in gone'
    BY <1>11 DEF Removes
  <2>2. PICK now \in SUBSET Slots, m \in Slots :
          /\ m = Min(Matches(name))
          /\ Cardinality(now) <= Cardinality(lost) /\ lost \subseteq now \cup {m}
          /\ Survive(dir', table', now)
          /\ \A s \in Slots \ (now \cup {m}) :
               \A c \in Walk(table, dir[s].first) : table'[c] = table[c]
    BY <1>0, <1>6, <2>1, RemovingSound
  <2>3. Cardinality(now) <= crashes
    BY <1>0, <1>6, <2>2, SlotSets
  <2> QED
    BY <1>7, <1>8, <2>1, <2>2, <2>3
<1>12. CASE Cleans
  BY <1>12 DEF Cleans
<1>13. CASE Takes
  <2>1. Enough(1) /\ table' = Linked(1) /\ dir' = dir
    BY <1>13 DEF Takes
  <2>2. /\ Survive(dir', table', lost)
        /\ \A s \in Slots \ lost : Walk(table', dir'[s].first) = Walk(table, dir[s].first)
        /\ \A s \in Slots \ lost : \A b \in Walk(table, dir[s].first) : table'[b] = table[b]
    BY <1>6, <2>1, TakingMoves
  <2>3. \A s \in Slots \ lost : \A b \in Walk(table', dir'[s].first) : TableOut(b)'
    BY <1>1, <1>6, <2>2 DEF TableOut, disk
  <2> QED
    BY <1>0, <1>6, <1>7, <2>1, <2>2, <2>3
<1> QED
  BY <1>9, <1>10, <1>11, <1>12, <1>13, OperationShape

LEMMA StaysApart ==
  ASSUME ~dotted', Inv, Inv', QInv, RInv, RInv', CInv, [Next]_vars
  PROVE  CInv'
<1>1. CASE Crash
  <2>1. /\ phase' = "off" /\ dir' = NoDir /\ crashes' = crashes + 1 /\ writes # <<>>
        /\ UNCHANGED disk /\ loose' = loose /\ gone' = gone \cap Kept /\ DOMAIN diskDir = Kept
    BY <1>1 DEF Crash, LoseMemory, Inv, TypeOK
  <2>4. \A out : Unmarked(diskDir, diskTable, out) => Unmarked(diskDir, diskTable, out)'
    BY <2>1 DEF Unmarked, disk
  <2>2. ASSUME ~loose, phase # "off" PROVE \E lost \in SUBSET Slots : DamagedDisk(lost)'
    <3>1. CASE phase = "mounted"
      <4>1. PICK lost \in SUBSET Slots, risked \in Slots : Damaged(lost, risked)
        BY <2>2, <3>1 DEF CInv
      <4> DEFINE out == lost \cup {risked}
      <4>2. Survive(diskDir, diskTable, out) /\ Unmarked(diskDir, diskTable, out)
        BY <4>1, SettledSurvives DEF Damaged
      <4>3. Cardinality(out) <= crashes'
        <5>1. /\ Cardinality(out) <= Cardinality(lost) + 1 /\ Cardinality(lost) \in Nat
              /\ out \in SUBSET Slots
          BY SlotSets
        <5>2. Cardinality(out) \in Nat /\ crashes \in Nat /\ Cardinality(lost) <= crashes
          BY <4>1, <5>1, SlotSets, MfsConstants DEF Damaged, Inv, TypeOK
        <5> QED
          BY <2>1, <5>1, <5>2
      <4>4. out \in SUBSET Slots
        OBVIOUS
      <4> QED
        BY <2>1, <2>4, <4>2, <4>3, <4>4 DEF DamagedDisk, disk
    <3>2. CASE phase = "broken"
      <4>1. PICK lost \in SUBSET Slots : DamagedDisk(lost)
        BY <2>2, <3>2 DEF CInv
      <4>2. Cardinality(lost) <= crashes'
        BY <2>1, <4>1, SlotSets, MfsConstants DEF DamagedDisk, Inv, TypeOK
      <4> QED
        BY <2>1, <2>4, <4>1, <4>2 DEF DamagedDisk, disk
    <3> QED
      BY <2>2, <3>1, <3>2 DEF Inv, TypeOK
  <2>3. phase # "off"
    BY <2>1 DEF QInv
  <2> QED
    BY <2>1, <2>2, <2>3 DEF CInv, disk
<1>2. CASE Reboot
  <2>1. /\ phase' = "off" /\ dir' = NoDir /\ writes = <<>> /\ phase # "off"
        /\ UNCHANGED <<crashes, loose>> /\ UNCHANGED disk
        /\ gone' = gone \cap Kept /\ DOMAIN diskDir = Kept
    BY <1>2 DEF Reboot, LoseMemory, Inv, TypeOK
  <2>3. \A out : Unmarked(diskDir, diskTable, out) => Unmarked(diskDir, diskTable, out)'
    BY <2>1 DEF Unmarked, disk
  <2>2. ASSUME ~loose PROVE \E lost \in SUBSET Slots : DamagedDisk(lost)'
    <3>1. CASE phase = "mounted"
      <4>1. PICK lost \in SUBSET Slots, risked \in Slots : Damaged(lost, risked)
        BY <2>2, <3>1 DEF CInv
      <4>2. \A s \in Kept \ lost : Settled(s)
        BY <2>1, <3>1, <4>1, AllSettled
      <4>3. /\ Survive(diskDir, diskTable, lost) /\ Cardinality(lost) <= crashes
            /\ Unmarked(diskDir, diskTable, lost)
        BY <4>1, <4>2, SettledSurvives DEF Damaged
      <4> QED
        BY <2>1, <2>3, <4>3 DEF DamagedDisk, disk
    <3>2. CASE phase # "mounted"
      BY <2>1, <2>2, <2>3, <3>2 DEF CInv, DamagedDisk, disk
    <3> QED
      BY <3>1, <3>2
  <2> QED
    BY <2>1, <2>2 DEF CInv, disk
<1>3. CASE MountFails
  <2>1. /\ phase = "off" /\ phase' = "broken" /\ dir' = dir /\ table' = diskTable
        /\ UNCHANGED <<crashes, loose, gone>> /\ UNCHANGED disk
    BY <1>3 DEF MountFails, past
  <2> QED
    BY <2>1 DEF CInv, DamagedDisk, Unmarked, disk
<1>4. CASE UNCHANGED vars
  BY <1>4 DEF vars, memory, disk, past, CInv, DirOut, TableOut, Settled, Damaged, DamagedDisk,
             Unmarked
<1>5. NoWild(writes)
  BY DEF RInv
<1> QED
  BY <1>1, <1>2, <1>3, <1>4, <1>5, WritingApart, MountingApart, MakingRootApart, OperationApart,
     NextShape

LEMMA ApartInitially == Init => CInv
<1> SUFFICES ASSUME Init PROVE CInv
  OBVIOUS
<1>1. phase = "off" /\ dir = NoDir /\ diskDir = [s \in Kept |-> NoEntry] /\ crashes = 0
  BY DEF Init
<1>2. Live(diskDir, diskTable) = {} /\ \A s \in DOMAIN diskDir : diskDir[s].first \notin Blocks
  BY <1>1, Unused DEF Live
<1>3. Cardinality({}) = 0 /\ {} \in SUBSET Slots
  BY FS_EmptySet
<1>4. DamagedDisk({})
  BY <1>1, <1>2, <1>3 DEF DamagedDisk, Survive, Sound, Unmarked
<1> QED
  BY <1>1, <1>3, <1>4 DEF CInv

LEMMA Apart == Spec => [](Inv /\ (~dotted => CInv))
<1>1. /\ Inv /\ Inv' /\ QInv /\ (~dotted => RInv) /\ (~dotted => RInv)' /\ (~dotted => CInv)
      /\ [Next]_vars
      => (~dotted => CInv)'
  BY StaysApart, Remembered
<1> QED
  BY <1>1, ApartInitially, Rooted, PTL DEF Spec

(* The files nobody removed are live, but for what is lost.                *)
LEMMA OthersSound ==
  ASSUME NEW d, NEW t, NEW lost, Survive(d, t, lost), Unmarked(d, t, lost)
  PROVE  Sound(d, t, Files(d) \ (gone \cup lost))
<1>1. Files(d) \ (gone \cup lost) \subseteq Live(d, t) \ lost
  BY DEF Files, Live, Unmarked
<1>2. Sound(d, t, Live(d, t) \ lost)
  BY DEF Survive
<1> DEFINE some == Files(d) \ (gone \cup lost)
           all == Live(d, t) \ lost
<1> HIDE DEF some, all
<1>3. some \subseteq all => (Sound(d, t, all) => Sound(d, t, some))
  BY DEF Sound
<1> QED
  BY <1>1, <1>2, <1>3 DEF some, all

(* Until the machine first stops amid writes, and as long as nobody        *)
(* cleans, touches "." or makes a directory mkdir cannot find again: no    *)
(* block belongs to two files and the chain of every file that nobody      *)
(* removed is whole, across orderly reboots and removals of others.        *)
THEOREM FilesKeepApart == Spec => []NoCrossLink
<1>1. Inv /\ (~dotted => CInv) => NoCrossLink
  <2> SUFFICES ASSUME CInv, crashes = 0, ~loose PROVE Sound(dir, table, Files(dir) \ gone)
    BY DEF NoCrossLink
  <2>1. CASE phase = "mounted"
    <3>1. PICK lost \in SUBSET Slots, risked \in Slots : Damaged(lost, risked)
      BY <2>1 DEF CInv
    <3>2. lost = {}
      <4>1. Cardinality(lost) = 0 /\ IsFiniteSet(lost)
        BY <3>1, SlotSets DEF Damaged
      <4> QED
        BY <4>1, FS_EmptySet
    <3>3. Sound(dir, table, Files(dir) \ (gone \cup {}))
      BY <3>1, <3>2, OthersSound DEF Damaged
    <3>4. Files(dir) \ (gone \cup {}) = Files(dir) \ gone
      OBVIOUS
    <3> QED
      BY <3>3, <3>4
  <2>2. CASE phase # "mounted"
    <3>1. dir = NoDir
      BY <2>2 DEF CInv
    <3>2. Files(dir) = {}
      BY <3>1, Unused DEF Files, NoDir
    <3> QED
      BY <3>2 DEF Sound
  <2> QED
    BY <2>1, <2>2
<1> QED
  BY <1>1, Apart, PTL

(* However often the machine stops amid writes, as long as nobody cleans,  *)
(* removes "." or makes a directory of it, or one mkdir cannot find again: *)
(* between operations, of the files on the disk that nobody removed, all   *)
(* are whole and apart but for as many as there were crashes.  A file that *)
(* goes when a damaged one is removed takes that one's place among them.   *)
THEOREM CrashCostsOneFile == Spec => []OneLossPerCrash
<1>1. Inv /\ (~dotted => CInv) => OneLossPerCrash
  <2> SUFFICES ASSUME Inv, CInv, writes = <<>>, ~loose
               PROVE  \E lost \in SUBSET Files(diskDir) :
                        /\ Cardinality(lost) <= crashes
                        /\ Sound(diskDir, diskTable, Files(diskDir) \ (gone \cup lost))
    BY DEF OneLossPerCrash
  <2>1. PICK lost \in SUBSET Slots : DamagedDisk(lost)
    <3>1. CASE phase = "mounted"
      <4>1. PICK lost \in SUBSET Slots, risked \in Slots : Damaged(lost, risked)
        BY <3>1 DEF CInv
      <4>2. \A s \in Kept \ lost : Settled(s)
        BY <3>1, <4>1, AllSettled
      <4>3. /\ Survive(diskDir, diskTable, lost) /\ Cardinality(lost) <= crashes
            /\ Unmarked(diskDir, diskTable, lost)
        BY <4>1, <4>2, SettledSurvives DEF Damaged
      <4> QED
        BY <4>3 DEF DamagedDisk
    <3>2. CASE phase # "mounted"
      BY <3>2 DEF CInv
    <3> QED
      BY <3>1, <3>2
  <2> DEFINE files == Files(diskDir)
             few == lost \cap files
  <2>2. /\ files \ (gone \cup few) = files \ (gone \cup lost)
        /\ few \in SUBSET files /\ few \in SUBSET lost
    OBVIOUS
  <2>3. Cardinality(few) <= crashes
    <3>1. /\ Cardinality(few) <= Cardinality(lost) /\ Cardinality(lost) \in Nat
          /\ few \in SUBSET Slots
      BY <2>2, SlotSets
    <3>2. Cardinality(few) \in Nat
      BY <3>1, SlotSets
    <3> QED
      BY <2>1, <3>1, <3>2, MfsConstants DEF DamagedDisk, Inv, TypeOK
  <2>4. Sound(diskDir, diskTable, files \ (gone \cup lost))
    BY <2>1, OthersSound DEF DamagedDisk
  <2> QED
    BY <2>2, <2>3, <2>4
<1> QED
  BY <1>1, Apart, PTL
=============================================================================
