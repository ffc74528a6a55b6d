----------------------------- MODULE ProofLemmas -----------------------------
(***************************************************************************)
(* Facts about finite sets of numbers and about the sequence operators     *)
(* that the proofs of the other modules rest on.                           *)
(***************************************************************************)
EXTENDS Integers, Sequences, SequencesExt, SequenceTheorems, WellFoundedInduction, TLAPS

(* A non-empty set of natural numbers has a least element.  Every argument *)
(* by induction in this project goes through the least counterexample.     *)
LEMMA MinFacts ==
  ASSUME NEW S \in SUBSET Nat, S # {}
  PROVE  Min(S) \in S /\ \A y \in S : Min(S) <= y
<1> DEFINE R == {ss \in Nat \X Nat : ss[1] < ss[2]}
<1>1. IsWellFoundedOn(R, Nat)
  BY NatLessThanWellFounded, Zenon DEF OpToRel
<1> HIDE DEF R
<1>2. PICK x \in S : \A y \in S : ~(<<y, x>> \in R)
  BY <1>1, WFMin, Zenon
<1>3. \A y \in S : x <= y
  <2> SUFFICES ASSUME NEW y \in S, y < x PROVE FALSE
    OBVIOUS
  <2>1. <<y, x>> \in R
    BY DEF R
  <2> QED
    BY <1>2, <2>1
<1> QED
  BY <1>3, Zenon DEF Min

(* A set of natural numbers with an upper bound has a greatest element.    *)
LEMMA MaxFacts ==
  ASSUME NEW S \in SUBSET Nat, S # {}, NEW n \in Nat, \A y \in S : y <= n
  PROVE  Max(S) \in S /\ \A y \in S : y <= Max(S)
<1> DEFINE T == {n - y : y \in S}
<1>1. T \in SUBSET Nat /\ T # {}
  <2>1. \A y \in S : n - y \in Nat
    OBVIOUS
  <2>2. \E y \in S : n - y \in T
    OBVIOUS
  <2> QED
    BY <2>1, <2>2
<1>2. Min(T) \in T /\ \A z \in T : Min(T) <= z
  BY <1>1, MinFacts
<1>3. PICK x \in S : Min(T) = n - x
  BY <1>2
<1>4. \A y \in S : x >= y
  <2> SUFFICES ASSUME NEW y \in S PROVE x >= y
    OBVIOUS
  <2>1. n - x <= n - y
    BY <1>2, <1>3
  <2> QED
    BY <2>1
<1> QED
  BY <1>4, Zenon DEF Max

(* Whatever natural number is given to the elements of a non-empty set,    *)
(* one of them has the least.                                              *)
LEMMA LeastFacts ==
  ASSUME NEW S, S # {}, NEW f \in [S -> Nat]
  PROVE  \E x \in S : \A y \in S : f[x] <= f[y]
<1> DEFINE T == {f[y] : y \in S}
<1>1. T \in SUBSET Nat /\ T # {}
  OBVIOUS
<1>2. Min(T) \in T /\ \A z \in T : Min(T) <= z
  BY <1>1, MinFacts
<1>3. PICK x \in S : Min(T) = f[x]
  BY <1>2
<1>4. \A y \in S : f[x] <= f[y]
  BY <1>2, <1>3
<1> QED
  BY <1>4

(* Putting an element in front of a sequence. *)
LEMMA PushFacts ==
  ASSUME NEW S, NEW s \in Seq(S), NEW a \in S
  PROVE  /\ <<a>> \o s \in Seq(S)
         /\ Len(<<a>> \o s) = Len(s) + 1
         /\ (<<a>> \o s)[1] = a
         /\ \A j \in 1 .. Len(s) : (<<a>> \o s)[j + 1] = s[j]
         /\ \A j \in 2 .. Len(s) + 1 : (<<a>> \o s)[j] = s[j - 1]
BY SMT

(* Taking the first element off a sequence. *)
LEMMA TailFacts ==
  ASSUME NEW S, NEW s \in Seq(S), s # <<>>
  PROVE  /\ Tail(s) \in Seq(S)
         /\ Len(Tail(s)) = Len(s) - 1
         /\ \A j \in 1 .. Len(s) - 1 : Tail(s)[j] = s[j + 1]
         /\ Len(s) \in Nat \ {0}
         /\ Head(s) = s[1] /\ Head(s) \in S
BY SMT

(* Taking the element at a given place out of a sequence. *)
LEMMA RemoveAtFacts ==
  ASSUME NEW S, NEW s \in Seq(S), NEW i \in 1 .. Len(s)
  PROVE  /\ RemoveAt(s, i) \in Seq(S)
         /\ Len(RemoveAt(s, i)) = Len(s) - 1
         /\ \A j \in 1 .. Len(s) - 1 :
              RemoveAt(s, i)[j] = IF j < i THEN s[j] ELSE s[j + 1]
<1>1. SubSeq(s, 1, i - 1) \in Seq(S) /\ Len(SubSeq(s, 1, i - 1)) = i - 1
      /\ \A j \in 1 .. i - 1 : SubSeq(s, 1, i - 1)[j] = s[j]
  BY SMT
<1>2. SubSeq(s, i + 1, Len(s)) \in Seq(S)
      /\ Len(SubSeq(s, i + 1, Len(s))) = Len(s) - i
      /\ \A j \in 1 .. Len(s) - i : SubSeq(s, i + 1, Len(s))[j] = s[i + j]
  BY SMT
<1> HIDE DEF RemoveAt
<1> DEFINE u == SubSeq(s, 1, i - 1)
           v == SubSeq(s, i + 1, Len(s))
<1>3. RemoveAt(s, i) = u \o v
  BY DEF RemoveAt
<1> HIDE DEF u, v
<1>4. u \in Seq(S) /\ v \in Seq(S) /\ Len(u) = i - 1 /\ Len(v) = Len(s) - i
  BY <1>1, <1>2 DEF u, v
<1>5. u \o v \in Seq(S) /\ Len(u \o v) = Len(s) - 1
  BY <1>4, SMT
<1>6. \A j \in 1 .. Len(s) - 1 : (u \o v)[j] = IF j < i THEN u[j] ELSE v[j - (i - 1)]
  BY <1>4, SMT
<1>7. \A j \in 1 .. Len(s) - 1 : (u \o v)[j] = IF j < i THEN s[j] ELSE s[j + 1]
  <2> SUFFICES ASSUME NEW j \in 1 .. Len(s) - 1
               PROVE  (u \o v)[j] = IF j < i THEN s[j] ELSE s[j + 1]
    OBVIOUS
  <2>1. CASE j < i
    <3>1. j \in 1 .. i - 1 /\ u[j] = s[j]
      BY <1>1, <2>1 DEF u
    <3> QED
      BY <1>6, <2>1, <3>1
  <2>2. CASE ~(j < i)
    <3>1. /\ j - (i - 1) \in 1 .. Len(s) - i
          /\ i + (j - (i - 1)) = j + 1
      BY <2>2
    <3>2. v[j - (i - 1)] = s[i + (j - (i - 1))]
      BY <1>2, <3>1 DEF v
    <3> QED
      BY <1>6, <2>2, <3>1, <3>2
  <2> QED
    BY <2>1, <2>2
<1> QED
  BY <1>3, <1>5, <1>7

(* What the three of them do to the set of the elements. *)
LEMMA PushSet ==
  ASSUME NEW S, NEW s \in Seq(S), NEW a \in S
  PROVE  ToSet(<<a>> \o s) = ToSet(s) \cup {a}
<1>1. /\ <<a>> \o s \in Seq(S) /\ Len(<<a>> \o s) = Len(s) + 1 /\ Len(s) \in Nat
      /\ (<<a>> \o s)[1] = a
      /\ \A j \in 1 .. Len(s) : (<<a>> \o s)[j + 1] = s[j]
      /\ \A j \in 2 .. Len(s) + 1 : (<<a>> \o s)[j] = s[j - 1]
  BY PushFacts
<1> DEFINE t == <<a>> \o s
<1>2. DOMAIN t = 1 .. Len(s) + 1 /\ DOMAIN s = 1 .. Len(s)
  BY <1>1
<1> HIDE DEF t
<1>3. \A j \in DOMAIN t : t[j] \in ToSet(s) \cup {a}
  <2> SUFFICES ASSUME NEW j \in 1 .. Len(s) + 1, j # 1 PROVE t[j] \in ToSet(s)
    BY <1>1, <1>2 DEF t
  <2>1. j - 1 \in 1 .. Len(s) /\ t[j] = s[j - 1]
    BY <1>1 DEF t
  <2> QED
    BY <1>2, <2>1 DEF ToSet
<1>4. \A j \in DOMAIN s : s[j] \in ToSet(t)
  <2> SUFFICES ASSUME NEW j \in 1 .. Len(s) PROVE s[j] \in ToSet(t)
    BY <1>2
  <2>1. j + 1 \in 1 .. Len(s) + 1 /\ t[j + 1] = s[j]
    BY <1>1 DEF t
  <2> QED
    BY <1>2, <2>1 DEF ToSet
<1>5. a \in ToSet(t)
  <2>1. 1 \in DOMAIN t /\ t[1] = a
    BY <1>1, <1>2 DEF t
  <2> QED
    BY <2>1 DEF ToSet
<1>6. ToSet(t) = ToSet(s) \cup {a}
  BY <1>3, <1>4, <1>5 DEF ToSet
<1> QED
  BY <1>6 DEF t

LEMMA TailSet ==
  ASSUME NEW S, NEW s \in Seq(S), s # <<>>
  PROVE  ToSet(s) = ToSet(Tail(s)) \cup {Head(s)}
<1>1. /\ Tail(s) \in Seq(S) /\ Len(Tail(s)) = Len(s) - 1 /\ Len(s) \in Nat \ {0}
      /\ \A j \in 1 .. Len(s) - 1 : Tail(s)[j] = s[j + 1]
      /\ Head(s) = s[1]
  BY TailFacts
<1> DEFINE t == Tail(s)
<1>2. DOMAIN t = 1 .. Len(s) - 1 /\ DOMAIN s = 1 .. Len(s)
  BY <1>1
<1>3. \A j \in DOMAIN t : t[j] \in ToSet(s)
  <2> SUFFICES ASSUME NEW j \in 1 .. Len(s) - 1 PROVE t[j] \in ToSet(s)
    BY <1>2
  <2>1. j + 1 \in 1 .. Len(s) /\ t[j] = s[j + 1]
    BY <1>1
  <2> QED
    BY <1>2, <2>1 DEF ToSet
<1>4. \A j \in DOMAIN s : s[j] \in ToSet(t) \cup {Head(s)}
  <2> SUFFICES ASSUME NEW j \in 1 .. Len(s), j # 1 PROVE s[j] \in ToSet(t)
    BY <1>1, <1>2
  <2>1. j - 1 \in 1 .. Len(s) - 1 /\ (j - 1) + 1 = j
    BY <1>1
  <2>2. t[j - 1] = s[j]
    BY <1>1, <2>1
  <2> QED
    BY <1>2, <2>1, <2>2 DEF ToSet
<1>5. Head(s) \in ToSet(s)
  BY <1>1, <1>2 DEF ToSet
<1> QED
  BY <1>3, <1>4, <1>5 DEF ToSet

LEMMA RemoveAtSet ==
  ASSUME NEW S, NEW s \in Seq(S), NEW i \in 1 .. Len(s)
  PROVE  ToSet(s) = ToSet(RemoveAt(s, i)) \cup {s[i]}
<1> DEFINE t == RemoveAt(s, i)
<1>1. /\ t \in Seq(S) /\ Len(t) = Len(s) - 1 /\ Len(s) \in Nat
      /\ \A j \in 1 .. Len(s) - 1 : t[j] = IF j < i THEN s[j] ELSE s[j + 1]
  BY RemoveAtFacts
<1> HIDE DEF t
<1>2. DOMAIN t = 1 .. Len(s) - 1 /\ DOMAIN s = 1 .. Len(s)
  BY <1>1
<1>3. \A j \in DOMAIN t : t[j] \in ToSet(s)
  <2> SUFFICES ASSUME NEW j \in 1 .. Len(s) - 1 PROVE t[j] \in ToSet(s)
    BY <1>2
  <2>1. j \in DOMAIN s /\ j + 1 \in DOMAIN s
    BY <1>1, <1>2
  <2> QED
    BY <1>1, <2>1 DEF ToSet
<1>4. \A j \in DOMAIN s : s[j] \in ToSet(t) \cup {s[i]}
  <2> SUFFICES ASSUME NEW j \in 1 .. Len(s), j # i PROVE s[j] \in ToSet(t)
    BY <1>2
  <2>1. CASE j < i
    <3>1. j \in 1 .. Len(s) - 1 /\ t[j] = s[j]
      BY <1>1, <2>1
    <3> QED
      BY <1>2, <3>1 DEF ToSet
  <2>2. CASE j > i
    <3>1. j - 1 \in 1 .. Len(s) - 1 /\ ~(j - 1 < i) /\ (j - 1) + 1 = j
      BY <1>1, <2>2
    <3>2. t[j - 1] = s[j]
      BY <1>1, <3>1
    <3> QED
      BY <1>2, <3>1, <3>2 DEF ToSet
  <2> QED
    BY <2>1, <2>2
<1>5. s[i] \in ToSet(s)
  BY <1>2 DEF ToSet
<1>6. ToSet(s) = ToSet(t) \cup {s[i]}
  BY <1>3, <1>4, <1>5 DEF ToSet
<1> QED
  BY <1>6 DEF t
-----------------------------------------------------------------------------
(* Multiples, in the form proofs can add up: % and \div say the same.      *)
Multiple(x, n) == \E k \in Int : x = k * n

LEMMA MultipleDivides ==
  ASSUME NEW k \in Int, NEW n \in Nat \ {0}
  PROVE  (k * n) \div n = k /\ (k * n) % n = 0
OBVIOUS

LEMMA MultipleOfRemainder ==
  ASSUME NEW x \in Nat, NEW n \in Nat \ {0}
  PROVE  x % n = 0 <=> Multiple(x, n)
<1>1. ASSUME x % n = 0 PROVE Multiple(x, n)
  <2>1. x \div n \in Int /\ x = (x \div n) * n
    BY <1>1
  <2> QED
    BY <2>1 DEF Multiple
<1>2. ASSUME Multiple(x, n) PROVE x % n = 0
  BY <1>2, MultipleDivides DEF Multiple
<1> QED
  BY <1>1, <1>2

LEMMA MultipleOfItself ==
  ASSUME NEW n \in Int
  PROVE  Multiple(n, n) /\ Multiple(2 * n, n)
<1>1. n = 1 * n /\ 1 \in Int /\ 2 \in Int
  OBVIOUS
<1> QED
  BY <1>1, Zenon DEF Multiple

LEMMA MultiplesAdd ==
  ASSUME NEW x \in Int, NEW y \in Int, NEW n \in Nat \ {0}, Multiple(x, n), Multiple(y, n)
  PROVE  Multiple(x + y, n) /\ Multiple(x - y, n)
<1>1. PICK j \in Int : x = j * n
  BY DEF Multiple
<1>2. PICK k \in Int : y = k * n
  BY DEF Multiple
<1>3. /\ x + y = (j + k) * n /\ j + k \in Int
      /\ x - y = (j - k) * n /\ j - k \in Int
  BY <1>1, <1>2
<1>4. Multiple(x + y, n)
  BY <1>3, Zenon DEF Multiple
<1>5. Multiple(x - y, n)
  BY <1>3, Zenon DEF Multiple
<1> QED
  BY <1>4, <1>5

(* Two multiples are the same or at least the number apart. *)
LEMMA MultiplesApart ==
  ASSUME NEW x \in Int, NEW y \in Int, NEW n \in Nat \ {0},
         Multiple(x, n), Multiple(y, n), x < y
  PROVE  x + n <= y
<1>1. PICK j \in Int : x = j * n
  BY DEF Multiple
<1>2. PICK k \in Int : y = k * n
  BY DEF Multiple
<1>3. j + 1 <= k
  <2> SUFFICES ASSUME k <= j PROVE FALSE
    OBVIOUS
  <2>1. (j - k) * n >= 0
    OBVIOUS
  <2>2. (j - k) * n = j * n - k * n
    OBVIOUS
  <2> QED
    BY <1>1, <1>2, <2>1, <2>2
<1>4. (k - j - 1) * n >= 0
  BY <1>3
<1>5. (k - j - 1) * n = k * n - j * n - n
  OBVIOUS
<1> QED
  BY <1>1, <1>2, <1>4, <1>5

(* A multiple of a multiple. *)
LEMMA MultiplesCompose ==
  ASSUME NEW x \in Int, NEW m \in Int, NEW n \in Int, Multiple(x, m), Multiple(m, n)
  PROVE  Multiple(x, n)
<1>1. PICK j \in Int : x = j * m
  BY DEF Multiple
<1>2. PICK k \in Int : m = k * n
  BY DEF Multiple
<1>3. x = (j * k) * n /\ j * k \in Int
  BY <1>1, <1>2
<1> QED
  BY <1>3 DEF Multiple

(* Every other multiple of a number is one of its double.                  *)
LEMMA MultipleOfDouble ==
  ASSUME NEW x \in Int, NEW n \in Nat \ {0}, Multiple(x, n)
  PROVE  /\ (x \div n) % 2 = 0 => Multiple(x, 2 * n)
         /\ (x \div n) % 2 # 0 => Multiple(x - n, 2 * n)
         /\ ((x + n) \div n) % 2 = 0 <=> (x \div n) % 2 # 0
         /\ ((x - n) \div n) % 2 = 0 <=> (x \div n) % 2 # 0
<1>1. PICK k \in Int : x = k * n
  BY DEF Multiple
<1>2. x \div n = k
  BY <1>1, MultipleDivides
<1>3. x + n = (k + 1) * n /\ x - n = (k - 1) * n
  BY <1>1
<1>4. (x + n) \div n = k + 1 /\ (x - n) \div n = k - 1
  <2>1. k + 1 \in Int /\ k - 1 \in Int
    OBVIOUS
  <2> QED
    BY <1>3, <2>1, MultipleDivides
<1>5. ASSUME k % 2 = 0 PROVE Multiple(x, 2 * n)
  <2>1. k = 2 * (k \div 2) /\ k \div 2 \in Int
    BY <1>5
  <2>2. k * n = (k \div 2) * (2 * n)
    BY <2>1
  <2> QED
    BY <1>1, <2>1, <2>2 DEF Multiple
<1>6. ASSUME k % 2 # 0 PROVE Multiple(x - n, 2 * n)
  <2>1. k - 1 = 2 * (k \div 2) /\ k \div 2 \in Int
    BY <1>6
  <2>2. (k - 1) * n = (k \div 2) * (2 * n)
    BY <2>1
  <2> QED
    BY <1>3, <2>1, <2>2 DEF Multiple
<1>7. ((k + 1) % 2 = 0 <=> k % 2 # 0) /\ ((k - 1) % 2 = 0 <=> k % 2 # 0)
  OBVIOUS
<1> QED
  BY <1>2, <1>4, <1>5, <1>6, <1>7

(* Dividing by the same number keeps the order. *)
LEMMA DivMonotonic ==
  ASSUME NEW x \in Nat, NEW y \in Nat, x <= y, NEW n \in Nat \ {0}
  PROVE  x \div n \in Nat /\ y \div n \in Nat /\ x \div n <= y \div n
<1> DEFINE j == x \div n
           k == y \div n
<1>1. /\ j \in Nat /\ k \in Nat
      /\ j * n <= x /\ y < (k + 1) * n
  OBVIOUS
<1> HIDE DEF j, k
<1>2. j <= k
  <2> SUFFICES ASSUME k + 1 <= j PROVE FALSE
    BY <1>1
  <2>1. (j - (k + 1)) * n >= 0
    BY <1>1
  <2>2. (j - (k + 1)) * n = j * n - (k + 1) * n
    BY <1>1
  <2> QED
    BY <1>1, <2>1, <2>2
<1> QED
  BY <1>1, <1>2 DEF j, k

(* A history of a loop that runs n times within a set of states: where it  *)
(* begins, and what each round makes of the one before.                    *)
History(f, n, S, base, step) ==
  /\ f \in [0 .. n -> S] /\ f[0] = base
  /\ \A k \in 1 .. n : f[k] = step[<<k, f[k - 1]>>]

(* Every loop has one: the recursive functions that model loops exist.     *)
LEMMA LoopRuns ==
  ASSUME NEW n \in Nat, NEW S, NEW base \in S, NEW step \in [(1 .. n) \X S -> S]
  PROVE  \E f : History(f, n, S, base, step)
<1> DEFINE Runs(f, m) == /\ f \in [0 .. n -> S] /\ f[0] = base
                         /\ \A k \in 1 .. m : k <= n => f[k] = step[<<k, f[k - 1]>>]
           Short == {m \in Nat : m <= n /\ ~\E f : Runs(f, m)}
<1>1. Short = {}
  <2> SUFFICES ASSUME Short # {} PROVE FALSE
    OBVIOUS
  <2>1. Short \in SUBSET Nat
    OBVIOUS
  <2> DEFINE m == Min(Short)
  <2>2. m \in Short /\ \A k \in Short : m <= k
    BY <2>1, MinFacts
  <2> HIDE DEF m
  <2>3. CASE m = 0
    <3>1. Runs([k \in 0 .. n |-> base], 0)
      OBVIOUS
    <3> QED
      BY <2>2, <2>3, <3>1
  <2>4. CASE m # 0
    <3>0. m \in Nat /\ m <= n
      BY <2>2
    <3>1. m - 1 \in Nat /\ m - 1 <= n /\ m - 1 \notin Short /\ m \in 1 .. n
      <4>1. m - 1 \in Nat /\ m - 1 <= n /\ m \in 1 .. n /\ ~(m <= m - 1)
        BY <2>4, <3>0
      <4> HIDE DEF Short
      <4> QED
        BY <2>2, <4>1
    <3>2. PICK f : Runs(f, m - 1)
      BY <3>1
    <3> DEFINE g == [f EXCEPT ![m] = step[<<m, f[m - 1]>>]]
    <3>3. m - 1 \in 0 .. n /\ m # 0 /\ m \in 0 .. n
      BY <3>1
    <3>4. step[<<m, f[m - 1]>>] \in S
      BY <3>1, <3>2, <3>3
    <3>5. g \in [0 .. n -> S] /\ g[m] = step[<<m, f[m - 1]>>] /\ \A k \in 0 .. n : k # m => g[k] = f[k]
      BY <3>2, <3>3, <3>4
    <3> HIDE DEF g
    <3>6. g[0] = base
      BY <3>2, <3>3, <3>5
    <3>7. ASSUME NEW k \in 1 .. m, k <= n PROVE g[k] = step[<<k, g[k - 1]>>]
      <4>1. k - 1 \in 0 .. n /\ k - 1 # m /\ g[k - 1] = f[k - 1]
        BY <3>1, <3>5, <3>7
      <4>2. CASE k = m
        BY <3>5, <4>1, <4>2
      <4>3. CASE k # m
        <5>1. k \in 1 .. m - 1 /\ k \in 0 .. n
          BY <3>1, <3>7, <4>3
        <5> QED
          BY <3>2, <3>5, <3>7, <4>1, <4>3, <5>1
      <4> QED
        BY <4>2, <4>3
    <3>8. Runs(g, m)
      BY <3>5, <3>6, <3>7
    <3> QED
      BY <2>2, <3>8
  <2> QED
    BY <2>3, <2>4
<1> HIDE DEF Runs
<1>2. n \notin Short
  BY <1>1, Zenon
<1>3. n <= n
  OBVIOUS
<1>4. PICK f : Runs(f, n)
  BY <1>2, <1>3
<1>5. History(f, n, S, base, step)
  BY <1>4 DEF Runs, History
<1> QED
  BY <1>5

(* What a loop starts in and no round of it leaves, it ends in.            *)
LEMMA LoopStays ==
  ASSUME NEW n \in Nat, NEW S, NEW f, f[0] \in S,
         \A k \in 1 .. n : f[k - 1] \in S => f[k] \in S
  PROVE  \A k \in 0 .. n : f[k] \in S
<1> DEFINE Out == {k \in 0 .. n : f[k] \notin S}
           m == Min(Out)
<1>1. SUFFICES ASSUME Out # {} PROVE FALSE
  OBVIOUS
<1>2. Out \in SUBSET Nat
  OBVIOUS
<1>3. m \in Out /\ \A k \in Out : m <= k
  BY <1>1, <1>2, MinFacts
<1> HIDE DEF m
<1>4. m \in 0 .. n /\ f[m] \notin S /\ m # 0
  BY <1>3
<1>5. m \in 1 .. n /\ m - 1 \in 0 .. n /\ ~(m <= m - 1)
  BY <1>4
<1>6. f[m - 1] \in S
  BY <1>3, <1>5
<1> QED
  BY <1>4, <1>5, <1>6
=============================================================================
