----------------------------- MODULE DriverProofs -----------------------------
(***************************************************************************)
(* Proofs about the drivers that keep state of their own: the disks and    *)
(* their partitions, the FAT12 volume, and the line that is typed on the   *)
(* screen, for tables, volumes and screens of every size.                  *)
(***************************************************************************)
EXTENDS Disks, Fat12, Console, ProofLemmas, FiniteSetTheorems

-----------------------------------------------------------------------------
(* Disks.                                                                  *)
diskSpec == diskInit /\ [][diskNext]_diskVars

(* What one entry of the list of partitions says, a table said that the    *)
(* first sector of its drive held.                                         *)
Signed == {t \in Tables : t.sign}
Told(d, start, total) ==
  \E t \in had[units[d].at] \cap Signed : \E q \in ToSet(t.parts) : q.start = start /\ q.size = total
EntriesOf(d, table) ==
  {p \in [disk : {d}, id : Nat, start : Nat \ {0}, total : Nat] :
     \E q \in ToSet(table.parts) : q.start = p.start /\ q.size = p.total}
Entries ==
  {p \in [disk : Nat, id : Nat, start : Nat \ {0}, total : Nat] :
     /\ p.disk \in DOMAIN units /\ units[p.disk].at \in DOMAIN Drives
     /\ Told(p.disk, p.start, p.total)}

DisksOK ==
  /\ boot \in {"sweepPCI", "scan", "up"}
  /\ boot # "up" => partitions = <<>> /\ wrote = {}
  /\ DOMAIN units = 1 .. Len(units) /\ Len(units) \in Nat
  /\ partitions \in Seq(Entries)
  /\ firsts \in [DOMAIN Drives -> Tables]
  /\ had \in [DOMAIN Drives -> SUBSET Tables]
  /\ \A at \in DOMAIN Drives : firsts[at] \in had[at]

LEMMA DiskSizes ==
  /\ 2^CountBits \in Nat \ {0} /\ 2^CallBits \in Nat \ {0} /\ 2^AddrBits \in Nat \ {0}
  /\ \A t \in Tables : /\ t.sign \in BOOLEAN
                       /\ t.parts \in Seq([start : Nat, size : Nat, type : Nat])
                       /\ DOMAIN t.parts = 1 .. Len(t.parts) /\ Len(t.parts) \in Nat
                       /\ \A k \in 1 .. Len(t.parts) :
                            /\ t.parts[k] \in [start : Nat, size : Nat, type : Nat]
                            /\ t.parts[k] \in ToSet(t.parts)
<1>1. /\ {2^CountBits, 2^CallBits, 2^AddrBits} \subseteq Nat \ {0}
      /\ \A t \in Tables : /\ t.sign \in BOOLEAN
                           /\ t.parts \in Seq([start : Nat, size : Nat, type : Nat])
  BY DiskConstants
<1>2. 2^CountBits \in Nat \ {0} /\ 2^CallBits \in Nat \ {0} /\ 2^AddrBits \in Nat \ {0}
  BY <1>1, Zenon
<1>3. ASSUME NEW S, NEW s \in Seq(S)
      PROVE  /\ DOMAIN s = 1 .. Len(s) /\ Len(s) \in Nat
             /\ \A k \in 1 .. Len(s) : s[k] \in S /\ s[k] \in ToSet(s)
  BY DEF ToSet
<1> QED
  BY <1>1, <1>2, <1>3, Zenon

(* The sweep makes a list.                                                 *)
LEMMA DetectedFacts ==
  DOMAIN Detected = 1 .. Len(Detected) /\ Len(Detected) \in Nat
<1> DEFINE At == {<<Ports(h, c), d>> : h \in Headers, c \in Int, d \in Int}
           N == 8 * Len(Bus)
           step == [x \in (1 .. N) \X Seq(At) |-> Swept(x[2], x[1])]
           Rounds(f) == [k \in 0 .. N |-> IF k = 0 THEN <<>> ELSE Swept(f[k - 1], k)]
           w == CHOOSE f : f = Rounds(f)
<1>1. Bus \in Seq(Seq(Headers))
  BY DiskConstants
<1>2. N \in Nat
  BY <1>1
<1>3. ASSUME NEW k \in 1 .. N, NEW list \in Seq(At) PROVE Swept(list, k) \in Seq(At)
  <2> DEFINE slot == Bus[((k - 1) \div 8) + 1]
             asked == Asked(slot)
             f == ((k - 1) % 8) + 1
  <2>1. ((k - 1) \div 8) + 1 \in 1 .. Len(Bus)
    BY <1>1
  <2>2. slot \in Seq(Headers)
    BY <1>1, <2>1
  <2>3. asked \in Seq(Headers)
    <3> HIDE DEF slot
    <3> QED
      BY <2>2 DEF Asked
  <2>4. ASSUME NEW h \in Headers PROVE UnitsOf(h) \in Seq(At)
    <3>1. \A j \in 1 .. 4 : <<Ports(h, (j - 1) \div 2), (j - 1) % 2>> \in At
      OBVIOUS
    <3> HIDE DEF At
    <3> QED
      BY <3>1 DEF UnitsOf
  <2>5. CASE f \in DOMAIN asked /\ Parsed(asked[f])
    <3>1. Swept(list, k) = list \o UnitsOf(asked[f])
      BY <2>5 DEF Swept
    <3>2. UnitsOf(asked[f]) \in Seq(At)
      <4> HIDE DEF asked, f, At
      <4> QED
        BY <2>3, <2>4, <2>5
    <3> HIDE DEF asked, f, At
    <3> QED
      BY <3>1, <3>2
  <2>6. CASE ~(f \in DOMAIN asked /\ Parsed(asked[f]))
    BY <2>6 DEF Swept
  <2> QED
    BY <2>5, <2>6
<1>4. Detected = w[N]
  BY DEF Detected
<1>5. <<>> \in Seq(At)
  OBVIOUS
<1> HIDE DEF N, At
<1>6. step \in [(1 .. N) \X Seq(At) -> Seq(At)]
  BY <1>3
<1> HIDE DEF step
<1>7. PICK f : History(f, N, Seq(At), <<>>, step)
  BY <1>2, <1>5, <1>6, LoopRuns
<1>8. f = Rounds(f)
  <2>1. ASSUME NEW k \in 1 .. N PROVE f[k] = Swept(f[k - 1], k)
    <3>1. k - 1 \in 0 .. N
      BY <1>2
    <3>2. f[k - 1] \in Seq(At) /\ f[k] = step[<<k, f[k - 1]>>]
      BY <1>7, <3>1 DEF History
    <3> QED
      BY <3>2 DEF step
  <2>2. \A k \in 0 .. N : k # 0 => k \in 1 .. N
    BY <1>2
  <2> QED
    BY <1>7, <2>1, <2>2 DEF History
<1>9. w = Rounds(w)
  BY <1>8, Zenon
<1> HIDE DEF w
<1>10. \A k \in 0 .. N : w[k] \in Seq(At)
  <2>1. 0 \in 0 .. N /\ \A k \in 1 .. N : k \in 0 .. N /\ k # 0
    BY <1>2
  <2>2. w[0] = <<>>
    BY <1>9, <2>1
  <2>3. ASSUME NEW k \in 1 .. N, w[k - 1] \in Seq(At) PROVE w[k] \in Seq(At)
    <3>1. w[k] = Swept(w[k - 1], k)
      BY <1>9, <2>1
    <3> QED
      BY <1>3, <2>3, <3>1
  <2> QED
    BY <1>2, <1>5, <2>2, <2>3, LoopStays
<1>11. N \in 0 .. N
  BY <1>2
<1>12. Detected \in Seq(At)
  BY <1>4, <1>10, <1>11
<1> QED
  BY <1>12

(* What is found on a disk, its table describes.                           *)
LEMMA ListedEntries ==
  ASSUME NEW d \in Nat, NEW table \in Tables
  PROVE  Listed(d, table) \in Seq(EntriesOf(d, table))
<1> DEFINE N == Len(table.parts)
           step == [x \in (1 .. N) \X Seq(EntriesOf(d, table)) |-> Found(x[2], d, table.parts[x[1]])]
           Rounds(f) == [k \in 0 .. N |->
                          IF k = 0 THEN <<>> ELSE Found(f[k - 1], d, table.parts[k])]
           w == CHOOSE f : f = Rounds(f)
<1>1. N \in Nat
  BY DiskSizes
<1>2. ASSUME NEW k \in 1 .. N, NEW list \in Seq(EntriesOf(d, table))
      PROVE  Found(list, d, table.parts[k]) \in Seq(EntriesOf(d, table))
  <2> DEFINE p == table.parts[k]
             e == [disk |-> d, id |-> Len(list), start |-> p.start, total |-> p.size]
  <2>1. p \in [start : Nat, size : Nat, type : Nat] /\ p \in ToSet(table.parts)
    BY DiskSizes
  <2> HIDE DEF p
  <2>2. ASSUME p.start > 0 PROVE e \in EntriesOf(d, table)
    <3>1. \E q \in ToSet(table.parts) : q.start = e.start /\ q.size = e.total
      BY <2>1
    <3>2. e \in [disk : {d}, id : Nat, start : Nat \ {0}, total : Nat]
      BY <2>1, <2>2
    <3> QED
      BY <3>1, <3>2 DEF EntriesOf
  <2>3. CASE p.start > 0 /\ p.type # 0
    <3>1. Found(list, d, p) = Append(list, e)
      BY <2>3 DEF Found
    <3> HIDE DEF e
    <3> QED
      BY <2>2, <2>3, <3>1 DEF p
  <2>4. CASE ~(p.start > 0 /\ p.type # 0)
    BY <2>4 DEF Found, p
  <2> QED
    BY <2>3, <2>4
<1>3. Listed(d, table) = w[N]
  BY DEF Listed
<1>4. <<>> \in Seq(EntriesOf(d, table))
  OBVIOUS
<1> HIDE DEF N
<1>5. step \in [(1 .. N) \X Seq(EntriesOf(d, table)) -> Seq(EntriesOf(d, table))]
  BY <1>2
<1> HIDE DEF step
<1>6. PICK f : History(f, N, Seq(EntriesOf(d, table)), <<>>, step)
  BY <1>1, <1>4, <1>5, LoopRuns
<1>7. f = Rounds(f)
  <2>1. ASSUME NEW k \in 1 .. N PROVE f[k] = Found(f[k - 1], d, table.parts[k])
    <3>1. k - 1 \in 0 .. N
      BY <1>1
    <3>2. f[k - 1] \in Seq(EntriesOf(d, table)) /\ f[k] = step[<<k, f[k - 1]>>]
      BY <1>6, <3>1 DEF History
    <3> QED
      BY <3>2 DEF step
  <2>2. \A k \in 0 .. N : k # 0 => k \in 1 .. N
    BY <1>1
  <2> QED
    BY <1>6, <2>1, <2>2 DEF History
<1>8. w = Rounds(w)
  BY <1>7, Zenon
<1> HIDE DEF w
<1>9. \A k \in 0 .. N : w[k] \in Seq(EntriesOf(d, table))
  <2>1. 0 \in 0 .. N /\ \A k \in 1 .. N : k \in 0 .. N /\ k # 0
    BY <1>1
  <2>2. w[0] = <<>>
    BY <1>8, <2>1
  <2>3. ASSUME NEW k \in 1 .. N, w[k - 1] \in Seq(EntriesOf(d, table)) PROVE w[k] \in Seq(EntriesOf(d, table))
    <3>1. w[k] = Found(w[k - 1], d, table.parts[k])
      BY <1>8, <2>1
    <3> QED
      BY <1>2, <2>3, <3>1
  <2> QED
    BY <1>1, <1>4, <2>2, <2>3, LoopStays
<1>10. N \in 0 .. N
  BY <1>1
<1> QED
  BY <1>3, <1>9, <1>10

LEMMA WiderList ==
  ASSUME NEW S, NEW T, S \subseteq T, NEW s \in Seq(S)
  PROVE  s \in Seq(T)
OBVIOUS

(* The first sector, as one that reads it sees it, is a table it had.      *)
LEMMA FirstRead ==
  ASSUME DisksOK, NEW unit
  PROVE  ReadFirst(unit).sign => /\ unit.at \in DOMAIN Drives
                                 /\ ReadFirst(unit) \in had[unit.at]
                                 /\ ReadFirst(unit) \in Tables
<1>1. CASE Touched(unit, 0, 1) = {}
  BY <1>1 DEF ReadFirst, NoTable
<1>2. CASE Touched(unit, 0, 1) # {}
  <2>1. DriveAt(unit).kind = "ata"
    BY <1>2 DEF Touched
  <2>2. unit.at \in DOMAIN Drives
    BY <2>1 DEF DriveAt, Absent
  <2> QED
    BY <1>2, <2>2 DEF ReadFirst, DisksOK
<1> QED
  BY <1>1, <1>2

LEMMA ScannedEntries ==
  ASSUME DisksOK, NEW d \in 1 .. Len(units), NEW list \in Seq(Entries)
  PROVE  Scanned(list, d) \in Seq(Entries)
<1> DEFINE table == ReadFirst(units[d])
           found == Listed(d, table)
<1>1. Scanned(list, d) =
        IF table.sign /\ Len(list) + Len(found) <= Capacity THEN list \o found ELSE list
  BY DEF Scanned
<1>2. table.sign => /\ units[d].at \in DOMAIN Drives
                    /\ table \in had[units[d].at] /\ table \in Tables
  BY FirstRead
<1>3. d \in Nat /\ d \in DOMAIN units
  BY DEF DisksOK
<1> HIDE DEF table
<1>4. table.sign => found \in Seq(Entries)
  <2> SUFFICES ASSUME table.sign PROVE found \in Seq(Entries)
    OBVIOUS
  <2>1. EntriesOf(d, table) \subseteq Entries
    BY <1>2, <1>3 DEF EntriesOf, Entries, Told, Signed
  <2> QED
    BY <1>2, <1>3, <2>1, ListedEntries, WiderList, Zenon
<1> HIDE DEF table, found
<1> QED
  BY <1>1, <1>4

(* The scan of every disk.                                                 *)
LEMMA ScanFacts ==
  ASSUME DisksOK, Scan
  PROVE  partitions' \in Seq(Entries)
<1> DEFINE N == Len(units)
           step == [x \in (1 .. N) \X Seq(Entries) |-> Scanned(x[2], x[1])]
           Rounds(f) == [d \in 0 .. N |-> IF d = 0 THEN <<>> ELSE Scanned(f[d - 1], d)]
           w == CHOOSE f : f = Rounds(f)
<1>1. N \in Nat
  BY DEF DisksOK
<1>2. \A k \in 1 .. N, list \in Seq(Entries) : Scanned(list, k) \in Seq(Entries)
  BY ScannedEntries
<1>3. partitions' = w[N]
  BY DEF Scan
<1>4. <<>> \in Seq(Entries)
  OBVIOUS
<1> HIDE DEF N
<1>5. step \in [(1 .. N) \X Seq(Entries) -> Seq(Entries)]
  BY <1>2
<1> HIDE DEF step
<1>6. PICK f : History(f, N, Seq(Entries), <<>>, step)
  BY <1>1, <1>4, <1>5, LoopRuns
<1>7. f = Rounds(f)
  <2>1. ASSUME NEW k \in 1 .. N PROVE f[k] = Scanned(f[k - 1], k)
    <3>1. k - 1 \in 0 .. N
      BY <1>1
    <3>2. f[k - 1] \in Seq(Entries) /\ f[k] = step[<<k, f[k - 1]>>]
      BY <1>6, <3>1 DEF History
    <3> QED
      BY <3>2 DEF step
  <2>2. \A k \in 0 .. N : k # 0 => k \in 1 .. N
    BY <1>1
  <2> QED
    BY <1>6, <2>1, <2>2 DEF History
<1>8. w = Rounds(w)
  BY <1>7, Zenon
<1> HIDE DEF w
<1>9. \A k \in 0 .. N : w[k] \in Seq(Entries)
  <2>1. 0 \in 0 .. N /\ \A k \in 1 .. N : k \in 0 .. N /\ k # 0
    BY <1>1
  <2>2. w[0] = <<>>
    BY <1>8, <2>1
  <2>3. ASSUME NEW k \in 1 .. N, w[k - 1] \in Seq(Entries) PROVE w[k] \in Seq(Entries)
    <3>1. w[k] = Scanned(w[k - 1], k)
      BY <1>8, <2>1
    <3> QED
      BY <1>2, <2>3, <3>1
  <2> QED
    BY <1>1, <1>4, <2>2, <2>3, LoopStays
<1>10. N \in 0 .. N
  BY <1>1
<1> QED
  BY <1>3, <1>9, <1>10

LEMMA ReplacedInList ==
  ASSUME NEW S, NEW s \in Seq(S), NEW i, NEW e \in S
  PROVE  [s EXCEPT ![i] = e] \in Seq(S)
<1>1. Len(s) \in Nat /\ s \in [1 .. Len(s) -> S]
  OBVIOUS
<1>2. [s EXCEPT ![i] = e] \in [1 .. Len(s) -> S]
  BY <1>1
<1>3. \A r \in [1 .. Len(s) -> S] : r \in Seq(S)
  BY <1>1
<1> QED
  BY <1>2, <1>3, Zenon

(* The list after a new table was written.                                 *)
LEMMA RemountedEntries ==
  ASSUME NEW E, partitions \in Seq(E), NEW d \in Nat, NEW table,
         table.sign => table \in Tables /\ EntriesOf(d, table) \subseteq E
  PROVE  Remounted(d, table).list \in Seq(E)
<1> DEFINE mine == {k \in DOMAIN partitions : partitions[k].disk = d}
           from == Min(mine)
           past == Min({k \in from + 1 .. Len(partitions) + 1 :
                          k = Len(partitions) + 1 \/ partitions[k].disk # d})
           found == Listed(d, table)
           written == {k \in from .. past : k <= Len(found)}
<1>1. Remounted(d, table).list =
        IF ~(mine = {} \/ ~table.sign \/ written = {}) /\ written = {1}
        THEN [partitions EXCEPT ![1] = found[1]] ELSE partitions
  BY DEF Remounted
<1>2. CASE ~(mine = {} \/ ~table.sign \/ written = {}) /\ written = {1}
  <2>1. found \in Seq(E)
    BY <1>2, ListedEntries, WiderList
  <2>2. 1 <= Len(found)
    BY <1>2
  <2> HIDE DEF mine, from, past, found, written
  <2>3. found[1] \in E
    BY <2>1, <2>2
  <2>4. Remounted(d, table).list = [partitions EXCEPT ![1] = found[1]]
    BY <1>1, <1>2, Zenon
  <2>5. [partitions EXCEPT ![1] = found[1]] \in Seq(E)
    BY <2>3, ReplacedInList, Zenon
  <2> QED
    BY <2>4, <2>5, Zenon
<1>3. CASE ~(~(mine = {} \/ ~table.sign \/ written = {}) /\ written = {1})
  <2> HIDE DEF mine, from, past, found, written
  <2> QED
    BY <1>1, <1>3
<1> QED
  BY <1>2, <1>3, Zenon

-----------------------------------------------------------------------------
(* The sectors one call touches are where the numbers of those it was to   *)
(* go to lead: the count is cut down, and to one where numbers are folded. *)
LEMMA TouchedFacts ==
  ASSUME NEW unit, NEW lba \in Nat, NEW n \in Nat, NEW s \in Touched(unit, lba, n)
  PROVE  /\ s[1] = unit.at
         /\ \E x \in lba .. lba + n - 1 : s[2] = Folded(unit, x)
<1> DEFINE call == n % 2^CallBits
           short == call % 2^CountBits
<1>1. PICK k \in 0 .. Carried(unit, n) - 1 : s = <<unit.at, Folded(unit, lba) + k>>
  BY DEF Touched
<1>2. call \in Nat /\ call <= n /\ short \in Nat /\ short <= call
  <2>1. ASSUME NEW x \in Nat, NEW m \in Nat \ {0} PROVE x % m \in Nat /\ x % m <= x
    OBVIOUS
  <2>2. call \in Nat /\ call <= n
    BY <2>1, DiskSizes, Zenon
  <2> HIDE DEF call
  <2>3. short \in Nat /\ short <= call
    BY <2>1, <2>2, DiskSizes, Zenon
  <2> QED
    BY <2>2, <2>3
<1>3. Min({1, short}) = IF short = 0 THEN 0 ELSE 1
  <2>1. {1, short} \in SUBSET Nat /\ {1, short} # {}
    BY <1>2
  <2>2. Min({1, short}) \in {1, short} /\ \A y \in {1, short} : Min({1, short}) <= y
    BY <2>1, MinFacts, Zenon
  <2> QED
    BY <1>2, <2>2
<1>4. Carried(unit, n) = IF unit.lba48 THEN call ELSE Min({1, short})
  BY DEF Carried
<1> HIDE DEF call, short
<1>5. CASE unit.lba48
  <2>1. Folded(unit, lba) = lba /\ Folded(unit, lba + k) = lba + k
    BY <1>5 DEF Folded
  <2>2. lba + k \in lba .. lba + n - 1
    BY <1>1, <1>2, <1>4, <1>5
  <2> QED
    BY <1>1, <2>1, <2>2
<1>6. CASE ~unit.lba48
  <2>1. k = 0 /\ n > 0
    BY <1>1, <1>2, <1>3, <1>4, <1>6
  <2>2. Folded(unit, lba) \in Nat
    BY <1>6, DiskSizes DEF Folded
  <2>3. s[1] = unit.at /\ s[2] = Folded(unit, lba) /\ lba \in lba .. lba + n - 1
    BY <1>1, <2>1, <2>2
  <2> QED
    BY <2>3
<1> QED
  BY <1>5, <1>6

LEMMA DisksStart ==
  ASSUME diskInit
  PROVE  DisksOK /\ InsidePartitions
BY DEF diskInit, DisksOK, InsidePartitions

(* Whatever a first sector becomes, what an entry says stays told.         *)
LEMMA RememberedFacts ==
  ASSUME DisksOK, firsts' \in [DOMAIN Drives -> Tables], Remembered, UNCHANGED units
  PROVE  /\ had' \in [DOMAIN Drives -> SUBSET Tables]
         /\ \A at \in DOMAIN Drives : firsts'[at] \in had'[at] /\ had[at] \subseteq had'[at]
         /\ Entries \subseteq Entries'
<1>1. /\ had' = [at \in DOMAIN Drives |-> had[at] \cup {firsts'[at]}]
      /\ had \in [DOMAIN Drives -> SUBSET Tables]
  BY DEF Remembered, DisksOK
<1>2. \A at \in DOMAIN Drives : firsts'[at] \in had'[at] /\ had[at] \subseteq had'[at]
  BY <1>1
<1>3. Entries \subseteq Entries'
  <2> SUFFICES ASSUME NEW p \in Entries PROVE p \in Entries'
    OBVIOUS
  <2>1. /\ p \in [disk : Nat, id : Nat, start : Nat \ {0}, total : Nat]
        /\ p.disk \in DOMAIN units /\ units[p.disk].at \in DOMAIN Drives
        /\ \E t \in had[units[p.disk].at] \cap Signed :
             \E q \in ToSet(t.parts) : q.start = p.start /\ q.size = p.total
    BY DEF Entries, Told
  <2>2. had[units[p.disk].at] \subseteq had'[units'[p.disk].at]
    BY <1>2, <2>1
  <2> QED
    BY <2>1, <2>2 DEF Entries, Told, Signed
<1> QED
  BY <1>1, <1>2, <1>3

LEMMA WritesInside ==
  ASSUME DisksOK, InsidePartitions, NEW k \in DOMAIN partitions,
         NEW where \in 0 .. MaxSectors, NEW n \in 0 .. MaxSectors, WritePartition(k, where, n)
  PROVE  DisksOK' /\ InsidePartitions'
<1> DEFINE p == partitions[k]
           unit == units[p.disk]
<1>1. where \in Nat /\ n \in Nat
  BY DiskConstants
<1>2. p \in Entries
  BY DEF DisksOK
<1>3. /\ boot = "up" /\ where + n <= p.total
      /\ wrote' = Touched(unit, p.start + where, n)
      /\ Remembered
      /\ UNCHANGED <<boot, units, partitions>>
  BY DEF WritePartition, Fits
<1>4. /\ p.start \in Nat \ {0} /\ p.total \in Nat
      /\ unit.at \in DOMAIN Drives
      /\ Told(p.disk, p.start, p.total)
  BY <1>2 DEF Entries
<1>5. PICK t \in had[unit.at] \cap Signed :
        \E q \in ToSet(t.parts) : q.start = p.start /\ q.size = p.total
  BY <1>4 DEF Told
<1>6. PICK q \in ToSet(t.parts) : q.start = p.start /\ q.size = p.total
  BY <1>5
<1>7. firsts' \in [DOMAIN Drives -> Tables]
  <2>1. PICK table \in Tables :
          firsts' = [at \in DOMAIN firsts |-> IF <<at, 0>> \in wrote' THEN table ELSE firsts[at]]
    BY DEF WritePartition
  <2>2. firsts \in [DOMAIN Drives -> Tables]
    BY DEF DisksOK
  <2> QED
    BY <2>1, <2>2
<1>8. /\ had' \in [DOMAIN Drives -> SUBSET Tables]
      /\ \A at \in DOMAIN Drives : firsts'[at] \in had'[at] /\ had[at] \subseteq had'[at]
      /\ Entries \subseteq Entries'
  BY <1>3, <1>7, RememberedFacts
<1>9. DisksOK'
  <2>1. partitions' \in Seq(Entries')
    <3>1. partitions \in Seq(Entries) /\ partitions' = partitions
      BY <1>3 DEF DisksOK
    <3> QED
      BY <1>8, <3>1, WiderList, Zenon
  <2> QED
    BY <1>3, <1>7, <1>8, <2>1 DEF DisksOK
<1> HIDE DEF p, unit
<1>10. ASSUME NEW s \in wrote'
       PROVE  \E j \in DOMAIN partitions' :
                LET u == units'[partitions'[j].disk]
                IN  /\ u.at = s[1]
                    /\ \E lba \in Sectors(partitions'[j]) \cap Described(s[1])' :
                         s[2] = Folded(u, lba)
  <2> DEFINE lba == p.start + where
  <2>1. s \in Touched(unit, lba, n)
    BY <1>3
  <2>2. lba \in Nat
    BY <1>1, <1>4
  <2>3. s[1] = unit.at /\ \E x \in lba .. lba + n - 1 : s[2] = Folded(unit, x)
    <3> HIDE DEF lba
    <3> QED
      BY <1>1, <2>1, <2>2, TouchedFacts
  <2>4. PICK x \in lba .. lba + n - 1 : s[2] = Folded(unit, x)
    BY <2>3
  <2>5. x \in p.start .. p.start + p.total - 1
    BY <1>1, <1>3, <1>4, <2>4
  <2>6. x \in Described(s[1])'
    <3>1. x - p.start \in 0 .. q.size - 1 /\ x = q.start + (x - p.start) /\ q.start > 0
      BY <1>4, <1>6, <2>5
    <3>2. x \in {q.start + j : j \in 0 .. q.size - 1}
      BY <3>1
    <3>3. q \in {y \in ToSet(t.parts) : y.start > 0}
      BY <3>1
    <3>4. t \in {y \in had'[s[1]] : y.sign}
      BY <1>4, <1>5, <1>8, <2>3 DEF Signed
    <3>5. x \in UNION {{z.start + j : j \in 0 .. z.size - 1} :
                        z \in {y \in ToSet(t.parts) : y.start > 0}}
      BY <3>2, <3>3
    <3> QED
      BY <3>4, <3>5 DEF Described
  <2>7. partitions'[k] = p /\ units'[partitions'[k].disk] = unit /\ k \in DOMAIN partitions'
    BY <1>3 DEF p, unit
  <2> QED
    BY <2>3, <2>4, <2>5, <2>6, <2>7 DEF Sectors
<1> QED
  BY <1>9, <1>10 DEF InsidePartitions

LEMMA DisksStep ==
  ASSUME DisksOK, InsidePartitions, [diskNext]_diskVars
  PROVE  DisksOK' /\ InsidePartitions'
<1>1. CASE SweepPCI
  <2>1. PICK lba48 \in BOOLEAN :
          units' = [k \in DOMAIN Detected |-> [at |-> Detected[k], lba48 |-> lba48]]
    BY <1>1 DEF SweepPCI
  <2>2. DOMAIN units' = 1 .. Len(units') /\ Len(units') \in Nat
    BY <2>1, DetectedFacts
  <2>3. boot = "sweepPCI" /\ boot' = "scan" /\ UNCHANGED <<partitions, firsts, had, wrote>>
    BY <1>1 DEF SweepPCI
  <2>4. partitions' = <<>> /\ wrote' = {}
    BY <2>3 DEF DisksOK
  <2> QED
    BY <2>2, <2>3, <2>4 DEF DisksOK, InsidePartitions
<1>2. CASE Scan
  <2>1. boot = "scan" /\ boot' = "up" /\ UNCHANGED <<units, firsts, had, wrote>>
    BY <1>2 DEF Scan
  <2>2. partitions' \in Seq(Entries) /\ Entries' = Entries
    BY <1>2, <2>1, ScanFacts DEF Entries, Told
  <2>3. wrote' = {}
    BY <2>1 DEF DisksOK
  <2> QED
    BY <2>1, <2>2, <2>3 DEF DisksOK, InsidePartitions
\* where neither the disks nor their tables change, no entry does
<1>3. ASSUME UNCHANGED <<boot, units, partitions, firsts, had>>, wrote' \in {{}, wrote},
             boot = "up" \/ wrote' = wrote
      PROVE  DisksOK' /\ InsidePartitions'
  <2>1. Entries' = Entries
    BY <1>3 DEF Entries, Told
  <2>2. DisksOK'
    BY <1>3, <2>1 DEF DisksOK
  <2>3. \A at : Described(at)' = Described(at)
    BY <1>3 DEF Described
  <2>4. InsidePartitions'
    BY <1>3, <2>3 DEF InsidePartitions
  <2> QED
    BY <2>2, <2>4
<1>4. ASSUME NEW k \in DOMAIN partitions, NEW where \in 0 .. MaxSectors,
             NEW n \in 0 .. MaxSectors, ReadPartition(k, where, n)
      PROVE  DisksOK' /\ InsidePartitions'
  BY <1>3, <1>4 DEF ReadPartition
<1>5. ASSUME NEW k \in DOMAIN partitions, NEW where \in 0 .. MaxSectors,
             NEW n \in 0 .. MaxSectors, WritePartition(k, where, n)
      PROVE  DisksOK' /\ InsidePartitions'
  BY <1>5, WritesInside
<1>6. ASSUME NEW d \in DOMAIN units, NEW table \in Tables, FormatMBRreload(d, table)
      PROVE  DisksOK' /\ InsidePartitions'
  <2> DEFINE seen == IF firsts' = firsts THEN ReadFirst(units[d]) ELSE table
             at == units[d].at
  <2>1. /\ boot = "up" /\ wrote' = {} /\ UNCHANGED <<boot, units>> /\ Remembered
        /\ partitions' = Remounted(d, seen).list
    BY <1>6 DEF FormatMBRreload
  <2>2. firsts' = IF Touched(units[d], 0, 1) = {} THEN firsts ELSE [firsts EXCEPT ![at] = table]
    BY <1>6 DEF FormatMBRreload
  <2>3. firsts \in [DOMAIN Drives -> Tables]
    BY DEF DisksOK
  <2>4. firsts' \in [DOMAIN Drives -> Tables]
    BY <2>2, <2>3
  <2>5. /\ had' \in [DOMAIN Drives -> SUBSET Tables]
        /\ \A a \in DOMAIN Drives : firsts'[a] \in had'[a] /\ had[a] \subseteq had'[a]
        /\ Entries \subseteq Entries'
    BY <2>1, <2>4, RememberedFacts
  <2>6. seen.sign => at \in DOMAIN Drives /\ seen \in had'[at] /\ seen \in Tables
    <3>1. CASE firsts' = firsts
      <4>1. seen = ReadFirst(units[d])
        BY <3>1
      <4> HIDE DEF seen
      <4>2. seen.sign => at \in DOMAIN Drives /\ seen \in had[at] /\ seen \in Tables
        BY <4>1, FirstRead
      <4> QED
        BY <2>5, <4>2
    <3>2. CASE firsts' # firsts
      <4>1. seen = table /\ firsts' = [firsts EXCEPT ![at] = table]
        BY <2>2, <3>2
      <4>2. at \in DOMAIN Drives
        BY <2>3, <3>2, <4>1
      <4>3. firsts'[at] = table
        BY <2>3, <4>1, <4>2
      <4> HIDE DEF seen
      <4> QED
        BY <2>5, <4>1, <4>2, <4>3
    <3> QED
      BY <3>1, <3>2
  <2>7. d \in Nat
    BY DEF DisksOK
  <2> HIDE DEF seen
  <2>8. partitions \in Seq(Entries')
    <3>1. partitions \in Seq(Entries)
      BY DEF DisksOK
    <3> QED
      BY <2>5, <3>1, WiderList, Zenon
  <2>9. seen.sign => seen \in Tables /\ EntriesOf(d, seen) \subseteq Entries'
    BY <2>1, <2>6, <2>7 DEF EntriesOf, Entries, Told, Signed
  <2>10. partitions' \in Seq(Entries')
    BY <2>1, <2>7, <2>8, <2>9, RemountedEntries
  <2>11. DisksOK'
    BY <2>1, <2>4, <2>5, <2>10 DEF DisksOK
  <2> QED
    BY <2>1, <2>11 DEF InsidePartitions
<1>7. CASE UNCHANGED diskVars
  BY <1>3, <1>7 DEF diskVars
<1> QED
  BY <1>1, <1>2, <1>4, <1>5, <1>6, <1>7 DEF diskNext

(* Whatever the bus holds and whatever was scanned, reformatted and        *)
(* remounted before, what a write through a partition (partitions.c:25-38) *)
(* touches is a sector that one listed partition of that drive holds and a *)
(* table of that drive described, or, without 48-bit commands, where that  *)
(* sector's number leads (ata.c:232).                                      *)
THEOREM WritesStayInside == diskSpec => []InsidePartitions
<1>1. diskInit => DisksOK /\ InsidePartitions
  BY DisksStart
<1>2. DisksOK /\ InsidePartitions /\ [diskNext]_diskVars => DisksOK' /\ InsidePartitions'
  BY DisksStep
<1> QED
  BY <1>1, <1>2, PTL DEF diskSpec

-----------------------------------------------------------------------------
(* FAT12.                                                                  *)
fatSpec == fatInit /\ [][fatNext]_fatVars

(* The first characters that entries have or are given.                    *)
Firsts == STRING \cup {LAST, REMOVED} \cup {To83(name, D)[1] : name \in Names, D \in Delims}
DirEntries == [first : Firsts, attr : SUBSET STRING, clus : Nat, size : Nat]

(* Readers of the directory come past every entry.                         *)
Tidy(d) == \A i \in DOMAIN d : d[i].first \notin {LAST, REMOVED} => i \in ScannedSlots(d)

(* The table has a place for every cluster.                                *)
HasPlaces(b) == \A c \in Clusters : {Offset(c), Offset(c) + 1} \subseteq DOMAIN b

FatOK ==
  /\ HasPlaces(fat)
  /\ root \in Seq(DirEntries) /\ cwd \in Seq(DirEntries)
  /\ Tidy(root) /\ Tidy(cwd)

LEMMA ScannedAre ==
  ASSUME NEW d \in Seq(DirEntries)
  PROVE  ScannedSlots(d) = {i \in DOMAIN d : \A j \in 1 .. i : d[j].first # LAST}
<1> DEFINE I == {i \in 1 .. Len(d) : d[i].first = LAST}
<1>1. ScannedSlots(d) = LET last == IF I # {} THEN Min(I) ELSE 0
                        IN  IF last = 0 THEN DOMAIN d ELSE 1 .. last - 1
  BY DEF ScannedSlots, SelectInSeq
<1>2. DOMAIN d = 1 .. Len(d) /\ Len(d) \in Nat
  OBVIOUS
<1>3. CASE I = {}
  BY <1>1, <1>2, <1>3
<1>4. CASE I # {}
  <2>1. I \in SUBSET Nat
    BY <1>2
  <2>2. Min(I) \in I /\ \A y \in I : Min(I) <= y
    BY <1>4, <2>1, MinFacts, Zenon
  <2> DEFINE m == Min(I)
  <2>3. m \in 1 .. Len(d) /\ d[m].first = LAST /\ \A j \in 1 .. m - 1 : d[j].first # LAST
    <3>1. m \in 1 .. Len(d) /\ d[m].first = LAST
      BY <2>2
    <3>2. ASSUME NEW j \in 1 .. m - 1, d[j].first = LAST PROVE FALSE
      <4>1. j \in I
        BY <1>2, <3>1, <3>2
      <4>2. m <= j
        BY <2>2, <4>1
      <4> QED
        BY <1>2, <3>1, <4>2
    <3> QED
      BY <3>1, <3>2
  <2>4. ScannedSlots(d) = 1 .. m - 1
    BY <1>1, <1>4, <2>3
  <2> HIDE DEF m
  <2> QED
    BY <1>2, <2>3, <2>4
<1> QED
  BY <1>3, <1>4

LEMMA TidyMeans ==
  ASSUME NEW d \in Seq(DirEntries)
  PROVE  Tidy(d) <=> \A i \in DOMAIN d : \A j \in 1 .. i :
                        d[i].first \notin {LAST, REMOVED} => d[j].first # LAST
<1>1. ScannedSlots(d) = {i \in DOMAIN d : \A j \in 1 .. i : d[j].first # LAST}
  BY ScannedAre
<1> QED
  BY <1>1 DEF Tidy

(* Removing entries, one or all of them, hides none.                       *)
LEMMA RemovalsTidy ==
  ASSUME NEW d \in Seq(DirEntries), Tidy(d), NEW e \in Seq(DirEntries), DOMAIN e = DOMAIN d,
         \A i \in DOMAIN d : e[i].first = d[i].first \/ (d[i].first # LAST /\ e[i].first = REMOVED)
  PROVE  Tidy(e)
<1>1. DOMAIN d = 1 .. Len(d) /\ Len(d) \in Nat
  OBVIOUS
<1>2. ASSUME NEW i \in DOMAIN e, NEW j \in 1 .. i, e[i].first \notin {LAST, REMOVED}
      PROVE  e[j].first # LAST
  <2>1. j \in DOMAIN d
    BY <1>1
  <2>2. d[i].first \notin {LAST, REMOVED}
    BY <1>2
  <2>3. d[j].first # LAST
    BY <2>2, TidyMeans
  <2> QED
    BY <2>1, <2>3 DEF LAST, REMOVED
<1> QED
  BY <1>2, TidyMeans

(* The first slot that can be used is: behind it lies what lay behind it.  *)
LEMMA FirstSlotTidy ==
  ASSUME NEW d \in Seq(DirEntries), Tidy(d), Slots(d) # {},
         NEW entry \in DirEntries, entry.first # LAST
  PROVE  [d EXCEPT ![Slot(d)] = entry] \in Seq(DirEntries) /\ Tidy([d EXCEPT ![Slot(d)] = entry])
<1> DEFINE s == Slot(d)
           e == [d EXCEPT ![s] = entry]
<1>1. DOMAIN d = 1 .. Len(d) /\ Len(d) \in Nat
  OBVIOUS
<1>2. s \in Slots(d) /\ \A y \in Slots(d) : s <= y
  <2>1. Slots(d) \in SUBSET Nat
    BY <1>1 DEF Slots
  <2> QED
    BY <2>1, MinFacts, Zenon DEF Slot
<1> HIDE DEF s
<1>3. e \in Seq(DirEntries)
  BY ReplacedInList, Zenon
<1>4. /\ DOMAIN e = DOMAIN d /\ s \in DOMAIN d
      /\ \A i \in DOMAIN d : e[i] = IF i = s THEN entry ELSE d[i]
  BY <1>1, <1>2 DEF Slots
<1> HIDE DEF e
<1>5. ASSUME NEW i \in DOMAIN e, NEW j \in 1 .. i, e[i].first \notin {LAST, REMOVED}
      PROVE  e[j].first # LAST
  <2>1. i \in 1 .. Len(d) /\ j \in DOMAIN d /\ s \in 1 .. Len(d)
    BY <1>1, <1>4
  <2>2. CASE j = s
    BY <1>4, <2>1, <2>2
  <2>3. CASE j # s /\ i = s
    <3>1. j \notin Slots(d)
      BY <1>2, <2>1, <2>3
    <3> QED
      BY <1>4, <2>1, <2>3, <3>1 DEF Slots
  <2>4. CASE j # s /\ i # s
    <3>1. d[i].first \notin {LAST, REMOVED} /\ i \in DOMAIN d
      BY <1>4, <1>5, <2>4
    <3>2. d[j].first # LAST
      BY <3>1, TidyMeans
    <3> QED
      BY <1>4, <2>1, <2>4, <3>2
  <2> QED
    BY <2>2, <2>3, <2>4
<1>6. Tidy(e)
  BY <1>3, <1>5, TidyMeans
<1> QED
  BY <1>3, <1>6 DEF e, s

(* Names: an entry that is put in begins with a character of a name.       *)
LEMMA NamesBegin ==
  ASSUME NEW name, NEW D
  PROVE  To83(name, D)[1] # LAST
<1>1. \A k \in 1 .. 26 : Upper[k] # LAST
  BY DEF Upper, LAST
<1>2. Len(Lower) = 26
  BY DEF Lower
<1>3. ToSet(Upper) = {Upper[k] : k \in 1 .. 26}
  BY DEF Upper, ToSet
<1>4. \A c \in Plain83 : c # LAST
  <2>1. \A c \in Plain83 \ ToSet(Upper) : c # LAST
    BY DEF Plain83, LAST
  <2>2. \A c \in ToSet(Upper) : c # LAST
    BY <1>1, <1>3
  <2> QED
    BY <2>1, <2>2
<1>5. ASSUME NEW c PROVE Char83(c) # LAST
  <2>1. CASE c \in Plain83
    BY <1>4, <2>1 DEF Char83
  <2>2. CASE c \notin Plain83 /\ c \in ToSet(Lower)
    <3> DEFINE I == {k \in 1 .. Len(Lower) : Lower[k] = c}
    <3>1. Char83(c) = Upper[IF I # {} THEN Min(I) ELSE 0]
      BY <2>2 DEF Char83, SelectInSeq
    <3>2. I # {}
      <4>1. ToSet(Lower) = {Lower[k] : k \in 1 .. 26}
        BY DEF Lower, ToSet
      <4> QED
        BY <1>2, <2>2, <4>1
    <3>3. I \in SUBSET Nat
      BY <1>2
    <3>4. Min(I) \in I
      BY <3>2, <3>3, MinFacts, Zenon
    <3>5. Min(I) \in 1 .. 26
      BY <1>2, <3>4
    <3> HIDE DEF I
    <3> QED
      BY <1>1, <3>1, <3>2, <3>5
  <2>3. CASE c \notin Plain83 /\ c \notin ToSet(Lower)
    BY <2>3 DEF Char83, LAST
  <2> QED
    BY <2>1, <2>2, <2>3
<1> DEFINE base == Strtok(name, D).token
<1>6. To83(name, D)[1] = IF 1 \in DOMAIN base THEN Char83(base[1]) ELSE " "
  BY DEF To83, Base, Letter83
<1> QED
  BY <1>5, <1>6 DEF LAST

-----------------------------------------------------------------------------
(* Whose entries a write to the table changes.                             *)
Spoils(b, after, d) ==
  \A c \in Clusters : Decoded(after, c) # Decoded(b, c) => d \in {c, Neighbour(c)}

LEMMA PairsApart ==
  ASSUME NEW c \in Nat, NEW d \in Nat,
         {Offset(c), Offset(c) + 1} \cap {Offset(d), Offset(d) + 1} # {}
  PROVE  d \in {c, Neighbour(c)}
BY DEF Offset, Neighbour, Odd

LEMMA PairsAgree ==
  ASSUME NEW c \in Nat, NEW d, NEW e, d \in {c, Neighbour(c)}, e \in {d, Neighbour(d)}
  PROVE  e \in {c, Neighbour(c)}
BY DEF Neighbour, Odd

LEMMA ClustersNat ==
  Clusters \subseteq Nat /\ 0 \notin Clusters
BY DEF Clusters

LEMMA EntrySpoils ==
  ASSUME NEW b, HasPlaces(b), NEW d \in Clusters, NEW v
  PROVE  HasPlaces(SetTableEntry(b, d, v)) /\ Spoils(b, SetTableEntry(b, d, v), d)
<1> DEFINE after == SetTableEntry(b, d, v)
           o == Offset(d)
<1>1. DOMAIN after = DOMAIN b
  BY DEF SetTableEntry
<1>2. ASSUME NEW x \in DOMAIN b, x # o, x # o + 1 PROVE after[x] = b[x]
  BY <1>2 DEF SetTableEntry
<1> HIDE DEF after
<1>3. ASSUME NEW c \in Clusters, Decoded(after, c) # Decoded(b, c) PROVE d \in {c, Neighbour(c)}
  <2>1. Offset(c) \in DOMAIN b /\ Offset(c) + 1 \in DOMAIN b
    BY DEF HasPlaces
  <2>2. after[Offset(c)] # b[Offset(c)] \/ after[Offset(c) + 1] # b[Offset(c) + 1]
    <3> SUFFICES ASSUME after[Offset(c)] = b[Offset(c)], after[Offset(c) + 1] = b[Offset(c) + 1]
                 PROVE  FALSE
      OBVIOUS
    <3> QED
      BY <1>3, Zenon DEF Decoded
  <2>3. {Offset(c), Offset(c) + 1} \cap {o, o + 1} # {}
    BY <1>2, <2>1, <2>2
  <2> QED
    BY <2>3, PairsApart, ClustersNat
<1> QED
  BY <1>1, <1>3 DEF after, HasPlaces, Spoils

LEMMA ClusterSpoils ==
  ASSUME NEW b, HasPlaces(b), NEW d, NEW v
  PROVE  /\ HasPlaces(SetCluster(b, d, v))
         /\ Spoils(b, SetCluster(b, d, v), d)
         /\ d \notin Clusters => SetCluster(b, d, v) = b
<1>1. CASE d \in Clusters
  BY <1>1, EntrySpoils DEF SetCluster
<1>2. CASE d \notin Clusters
  BY <1>2 DEF SetCluster, Spoils
<1> QED
  BY <1>1, <1>2

LEMMA ChainSpoils ==
  ASSUME NEW b, HasPlaces(b), NEW d
  PROVE  /\ HasPlaces(RemoveClusterChain(b, d))
         /\ Spoils(b, RemoveClusterChain(b, d), d)
         /\ d \notin Clusters => RemoveClusterChain(b, d) = b
<1>1. CASE IsEnd(d)
  BY <1>1 DEF RemoveClusterChain, Spoils
<1>2. CASE ~IsEnd(d)
  BY <1>2, ClusterSpoils DEF RemoveClusterChain
<1> QED
  BY <1>1, <1>2

(* What is taken was free.                                                 *)
LEMMA AllocFacts ==
  ASSUME NEW b, HasPlaces(b), NEW n
  PROVE  LET alloc == AllocClusters(b, n)
         IN  /\ HasPlaces(alloc.fat)
             /\ alloc.first \in Nat
             /\ \/ alloc.first = 0 /\ alloc.fat = b
                \/ /\ alloc.first \in Clusters /\ Decoded(b, alloc.first) = FREE
                   /\ Spoils(b, alloc.fat, alloc.first)
<1> DEFINE found == {c \in Clusters : Decoded(b, c) = FREE}
           first == Min(found)
           one == SetCluster(b, first, EOC)
           gone == RemoveClusterChain(one, first)
           alloc == AllocClusters(b, n)
<1>1. alloc = IF n = 0 \/ found = {} THEN [fat |-> b, first |-> 0, freed |-> FALSE]
              ELSE IF n = 1 THEN [fat |-> one, first |-> first, freed |-> FALSE]
              ELSE IF found = {first} THEN [fat |-> gone, first |-> first, freed |-> FALSE]
              ELSE [fat |-> b, first |-> 0, freed |-> TRUE]
  BY DEF AllocClusters
<1>2. ASSUME found # {} PROVE first \in Clusters /\ Decoded(b, first) = FREE
  <2>1. found \in SUBSET Nat
    BY ClustersNat
  <2>2. first \in found
    BY <1>2, <2>1, MinFacts, Zenon
  <2> QED
    BY <2>2
<1>3. HasPlaces(one) /\ Spoils(b, one, first)
  BY ClusterSpoils
<1>4. HasPlaces(gone) /\ Spoils(one, gone, first)
  BY <1>3, ChainSpoils
<1>5. Spoils(b, gone, first)
  BY <1>3, <1>4 DEF Spoils
<1> HIDE DEF found, first, one, gone, alloc
<1>6. /\ HasPlaces(alloc.fat)
      /\ alloc.first \in Nat
      /\ \/ alloc.first = 0 /\ alloc.fat = b
         \/ /\ alloc.first \in Clusters /\ Decoded(b, alloc.first) = FREE
            /\ Spoils(b, alloc.fat, alloc.first)
  BY <1>1, <1>2, <1>3, <1>4, <1>5, ClustersNat
<1> QED
  BY <1>6 DEF alloc

-----------------------------------------------------------------------------
LEMMA FatStart ==
  ASSUME fatInit
  PROVE  FatOK
<1>1. PICK v \in Volumes : fat = v.fat /\ root = v.root /\ cwd = root
  BY DEF fatInit
<1>2. /\ \A c \in Clusters : {Offset(c), Offset(c) + 1} \subseteq DOMAIN v.fat
      /\ v.root \in Seq([first : STRING, attr : SUBSET STRING, clus : Nat, size : Nat])
      /\ Tidy(v.root)
  BY VolumesFormed DEF Tidy
<1>3. [first : STRING, attr : SUBSET STRING, clus : Nat, size : Nat] \subseteq DirEntries
  BY DEF DirEntries, Firsts
<1>4. v.root \in Seq(DirEntries)
  <2>1. ASSUME NEW S, NEW R, S \subseteq R, NEW s \in Seq(S) PROVE s \in Seq(R)
    <3>1. Len(s) \in Nat /\ s \in [1 .. Len(s) -> R]
      BY <2>1
    <3> QED
      BY <3>1
  <2> QED
    BY <1>2, <1>3, <2>1, Zenon
<1> QED
  BY <1>1, <1>2, <1>4 DEF FatOK, HasPlaces

(* A step that takes what was free, and once more of what is then free.    *)
LEMMA TakenTwice ==
  ASSUME HasPlaces(fat), NEW after, HasPlaces(after),
         NEW d, after = fat \/ (d \in Clusters /\ Decoded(fat, d) = FREE /\ Spoils(fat, after, d)),
         NEW e, fat' = after \/ (e \in Clusters /\ Decoded(after, e) = FREE /\ Spoils(after, fat', e))
  PROVE  LinksKeptStep
<1> SUFFICES ASSUME NEW c \in Clusters, Decoded(fat', c) # Decoded(fat, c)
             PROVE  \E x \in {c, Neighbour(c)} \cap Clusters : Decoded(fat, x) = FREE
  BY DEF LinksKeptStep
<1>1. CASE Decoded(after, c) # Decoded(fat, c)
  BY <1>1 DEF Spoils
<1>2. CASE Decoded(after, c) = Decoded(fat, c)
  <2>1. e \in Clusters /\ Decoded(after, e) = FREE /\ e \in {c, Neighbour(c)}
    BY <1>2 DEF Spoils
  <2>2. CASE Decoded(fat, e) = FREE
    BY <2>1, <2>2
  <2>3. CASE Decoded(fat, e) # FREE
    <3>1. d \in Clusters /\ Decoded(fat, d) = FREE /\ d \in {e, Neighbour(e)}
      BY <2>1, <2>3 DEF Spoils
    <3>2. d \in {c, Neighbour(c)}
      BY <2>1, <3>1, PairsAgree, ClustersNat
    <3> QED
      BY <3>1, <3>2
  <2> QED
    BY <2>2, <2>3
<1> QED
  BY <1>1, <1>2

LEMMA StoreFacts ==
  ASSUME FatOK, NEW d \in Seq(DirEntries), Tidy(d), StoreDir(d)
  PROVE  /\ root' \in Seq(DirEntries) /\ cwd' \in Seq(DirEntries)
         /\ Tidy(root') /\ Tidy(cwd')
BY DEF StoreDir, FatOK

LEMMA UntouchedTable ==
  ASSUME fat' = fat
  PROVE  LinksKeptStep
BY DEF LinksKeptStep

LEMMA CdKeeps ==
  ASSUME FatOK, NEW target, fat12_cd(target)
  PROVE  FatOK' /\ LinksKeptStep
<1>1. UNCHANGED <<fat, root>> /\ (cwd' = cwd \/ cwd' = root \/ cwd' = <<>>)
  BY DEF fat12_cd, Ended
<1>2. <<>> \in Seq(DirEntries) /\ Tidy(<<>>)
  BY DEF Tidy
<1>3. FatOK'
  BY <1>1, <1>2 DEF FatOK
<1> QED
  BY <1>1, <1>3, UntouchedTable

LEMMA MkdirKeeps ==
  ASSUME FatOK, fat12_mkdir
  PROVE  FatOK' /\ LinksKeptStep
<1> DEFINE alloc == AllocClusters(fat, 1)
           removed == [i \in DOMAIN cwd |-> IF cwd[i].first = LAST THEN cwd[i]
                                            ELSE [cwd[i] EXCEPT !.first = REMOVED]]
<1>1. /\ HasPlaces(alloc.fat)
      /\ alloc.first \in Nat
      /\ \/ alloc.first = 0 /\ alloc.fat = fat
         \/ /\ alloc.first \in Clusters /\ Decoded(fat, alloc.first) = FREE
            /\ Spoils(fat, alloc.fat, alloc.first)
  BY AllocFacts DEF FatOK
<1>2. /\ removed \in Seq(DirEntries) /\ DOMAIN removed = DOMAIN cwd
      /\ \A i \in DOMAIN cwd : \/ removed[i].first = cwd[i].first
                               \/ cwd[i].first # LAST /\ removed[i].first = REMOVED
  <2>1. /\ DOMAIN cwd = 1 .. Len(cwd) /\ Len(cwd) \in Nat
        /\ \A i \in DOMAIN cwd : cwd[i] \in DirEntries
    BY DEF FatOK
  <2>2. \A x \in DirEntries : [x EXCEPT !.first = REMOVED] \in DirEntries
    BY DEF DirEntries, Firsts
  <2>3. \A i \in DOMAIN cwd : removed[i] \in DirEntries
    BY <2>1, <2>2
  <2>4. removed \in Seq(DirEntries)
    <3>1. removed \in [1 .. Len(cwd) -> DirEntries]
      BY <2>1, <2>3
    <3> HIDE DEF removed
    <3> QED
      BY <2>1, <3>1
  <2>5. \A i \in DOMAIN cwd : cwd[i].first # LAST => removed[i].first = REMOVED
    BY <2>1 DEF DirEntries
  <2> QED
    BY <2>4, <2>5
<1>3. Tidy(removed)
  <2>1. cwd \in Seq(DirEntries) /\ Tidy(cwd)
    BY DEF FatOK
  <2> HIDE DEF removed
  <2> QED
    BY <1>2, <2>1, RemovalsTidy, Zenon
<1>4. CASE Len(cwd) <= 1
  <2> DEFINE gone == RemoveClusterChain(alloc.fat, alloc.first)
  <2>1. fat' = gone /\ cwd' = removed /\ UNCHANGED root
    BY <1>4 DEF fat12_mkdir
  <2>2. HasPlaces(gone) /\ Spoils(alloc.fat, gone, alloc.first)
        /\ (alloc.first \notin Clusters => gone = alloc.fat)
    BY <1>1, ChainSpoils
  <2> HIDE DEF gone, removed
  <2>3. FatOK'
    BY <1>2, <1>3, <2>1, <2>2 DEF FatOK
  <2> QED
    <3>1. CASE alloc.first # 0
      <4>1. Spoils(fat, gone, alloc.first)
        BY <1>1, <2>2, <3>1 DEF Spoils
      <4>2. LinksKeptStep
        <5> HIDE DEF alloc
        <5> QED
          BY <1>1, <2>1, <3>1, <4>1, TakenTwice DEF FatOK
      <4> QED
        BY <2>3, <4>2
    <3>2. CASE alloc.first = 0
      <4>1. gone = alloc.fat /\ alloc.fat = fat
        BY <1>1, <2>2, <3>2, ClustersNat
      <4> QED
        BY <2>1, <2>3, <4>1, UntouchedTable
    <3> QED
      BY <3>1, <3>2
<1>5. CASE ~(Len(cwd) <= 1)
  <2>1. fat' = alloc.fat /\ StoreDir(removed)
    BY <1>5 DEF fat12_mkdir
  <2> HIDE DEF removed
  <2>2. FatOK'
    BY <1>1, <1>2, <1>3, <2>1, StoreFacts DEF FatOK
  <2>3. LinksKeptStep
    <3> HIDE DEF alloc
    <3> QED
      BY <1>1, <2>1, TakenTwice DEF FatOK
  <2> QED
    BY <2>2, <2>3
<1> QED
  BY <1>4, <1>5

LEMMA TouchKeeps ==
  ASSUME FatOK, NEW name \in Names, NEW D \in Delims, NEW size \in Sizes,
         fat12_touch(name, D, size)
  PROVE  FatOK' /\ LinksKeptStep
<1> DEFINE n == IF size < ClusterBytes THEN 1 ELSE size \div ClusterBytes
           chain == AllocClusters(fat, n)
           alloc == AllocClusters(chain.fat, n)
           entry == [first |-> To83(name, D)[1], attr |-> {}, clus |-> alloc.first,
                     size |-> size \div (n * ClusterBytes)]
           after == [cwd EXCEPT ![Slot(cwd)] = entry]
<1>1. size \in Nat /\ ClusterBytes \in Nat \ {0}
  BY VolumesFormed
<1>2. n \in Nat \ {0}
  <2>1. CASE size < ClusterBytes
    BY <2>1
  <2>2. CASE ~(size < ClusterBytes)
    <3>1. ClusterBytes \div ClusterBytes = 1
      BY <1>1
    <3>2. size \div ClusterBytes \in Nat /\ ClusterBytes \div ClusterBytes <= size \div ClusterBytes
      BY <1>1, <2>2, DivMonotonic
    <3> QED
      BY <2>2, <3>1, <3>2
  <2> QED
    BY <2>1, <2>2
<1>3. size \div (n * ClusterBytes) \in Nat
  <2>1. ASSUME NEW i \in Nat \ {0}, NEW j \in Nat \ {0} PROVE i * j \in Nat \ {0}
    OBVIOUS
  <2>2. ASSUME NEW i \in Nat, NEW j \in Nat \ {0} PROVE i \div j \in Nat
    OBVIOUS
  <2> HIDE DEF n
  <2> QED
    BY <1>1, <1>2, <2>1, <2>2, Zenon
<1>4. /\ HasPlaces(chain.fat)
      /\ \/ chain.first = 0 /\ chain.fat = fat
         \/ /\ chain.first \in Clusters /\ Decoded(fat, chain.first) = FREE
            /\ Spoils(fat, chain.fat, chain.first)
  BY AllocFacts DEF FatOK
<1>5. /\ HasPlaces(alloc.fat) /\ alloc.first \in Nat
      /\ \/ alloc.first = 0 /\ alloc.fat = chain.fat
         \/ /\ alloc.first \in Clusters /\ Decoded(chain.fat, alloc.first) = FREE
            /\ Spoils(chain.fat, alloc.fat, alloc.first)
  BY <1>4, AllocFacts
<1>6. \/ UNCHANGED <<fat, root, cwd>>
      \/ fat' = chain.fat /\ UNCHANGED <<root, cwd>>
      \/ Slots(cwd) # {} /\ fat' = alloc.fat /\ StoreDir(after)
  BY DEF fat12_touch, Ended
<1> HIDE DEF n, chain, alloc
<1>7. CASE UNCHANGED <<fat, root, cwd>>
  <2>1. FatOK'
    BY <1>7 DEF FatOK
  <2> QED
    BY <1>7, <2>1, UntouchedTable
<1>8. CASE fat' = chain.fat /\ UNCHANGED <<root, cwd>>
  <2>1. FatOK'
    BY <1>4, <1>8 DEF FatOK
  <2>2. LinksKeptStep
    BY <1>4, <1>8, TakenTwice DEF FatOK
  <2> QED
    BY <2>1, <2>2
<1>9. CASE Slots(cwd) # {} /\ fat' = alloc.fat /\ StoreDir(after)
  <2>1. entry \in DirEntries /\ entry.first # LAST
    BY <1>3, <1>5, NamesBegin DEF DirEntries, Firsts
  <2> HIDE DEF entry
  <2>2. after \in Seq(DirEntries) /\ Tidy(after)
    BY <1>9, <2>1, FirstSlotTidy DEF FatOK
  <2>3. FatOK'
    BY <1>5, <1>9, <2>2, StoreFacts DEF FatOK
  <2>4. LinksKeptStep
    BY <1>4, <1>5, <1>9, TakenTwice DEF FatOK
  <2> QED
    BY <2>3, <2>4
<1> QED
  BY <1>6, <1>7, <1>8, <1>9

LEMMA RemoveKeeps ==
  ASSUME FatOK, NEW name, NEW D, fat12_remove(name, D)
  PROVE  FatOK' /\ LinksKeptStep
<1> DEFINE char == To83(name, D)[1]
           hits == {j \in Seen(cwd) : cwd[j].first = char}
           i == SearchInDirectory(cwd, char)
           after == [cwd EXCEPT ![i].first = REMOVED]
           clus == cwd[i].clus
<1>1. i # 0 /\ fat' = RemoveClusterChain(fat, clus) /\ StoreDir(after)
  BY DEF fat12_remove
<1>2. DOMAIN cwd = 1 .. Len(cwd) /\ Len(cwd) \in Nat /\ \A j \in DOMAIN cwd : cwd[j] \in DirEntries
  BY DEF FatOK
<1>3. i \in DOMAIN cwd /\ cwd[i].first \notin {REMOVED, LAST}
  <2>1. hits # {} /\ i = Min(hits)
    BY <1>1 DEF SearchInDirectory
  <2>2. Seen(cwd) \subseteq ScannedSlots(cwd) /\ \A j \in Seen(cwd) : cwd[j].first # REMOVED
    BY DEF Seen
  <2>3. ScannedSlots(cwd) = {j \in DOMAIN cwd : \A k \in 1 .. j : cwd[k].first # LAST}
    BY ScannedAre DEF FatOK
  <2>4. hits \in SUBSET Nat
    BY <1>2, <2>2, <2>3
  <2>5. i \in hits
    BY <2>1, <2>4, MinFacts, Zenon
  <2>6. i \in DOMAIN cwd /\ i \in 1 .. i /\ \A k \in 1 .. i : cwd[k].first # LAST
    BY <1>2, <2>2, <2>3, <2>5
  <2> QED
    BY <2>2, <2>5, <2>6
<1> HIDE DEF i
<1>4. [cwd[i] EXCEPT !.first = REMOVED] \in DirEntries
  <2>1. cwd[i] \in DirEntries
    BY <1>2, <1>3
  <2> QED
    BY <2>1 DEF DirEntries, Firsts
<1>5. after = [cwd EXCEPT ![i] = [cwd[i] EXCEPT !.first = REMOVED]]
  BY <1>3
<1>6. after \in Seq(DirEntries)
  <2>1. cwd \in Seq(DirEntries)
    BY DEF FatOK
  <2> QED
    BY <1>4, <1>5, <2>1, ReplacedInList, Zenon
<1>7. /\ DOMAIN after = DOMAIN cwd /\ after[i].first = REMOVED
      /\ \A j \in DOMAIN cwd : j # i => after[j] = cwd[j]
  <2>1. cwd[i] \in DirEntries
    BY <1>2, <1>3
  <2> QED
    BY <1>3, <2>1 DEF DirEntries
<1> HIDE DEF after, clus
<1>8. Tidy(after)
  <2>1. cwd \in Seq(DirEntries) /\ Tidy(cwd)
    BY DEF FatOK
  <2>2. \A j \in DOMAIN cwd : \/ after[j].first = cwd[j].first
                              \/ cwd[j].first # LAST /\ after[j].first = REMOVED
    BY <1>3, <1>7
  <2> QED
    BY <1>6, <1>7, <2>1, <2>2, RemovalsTidy, Zenon
<1>9. HasPlaces(fat') /\ Spoils(fat, fat', clus) /\ (clus \notin Clusters => fat' = fat)
  BY <1>1, ChainSpoils DEF FatOK
<1>10. FatOK'
  BY <1>1, <1>6, <1>8, <1>9, StoreFacts DEF FatOK
<1>11. cwd' = after
  BY <1>1 DEF StoreDir
<1>12. LinksKeptStep
  <2> SUFFICES ASSUME NEW c \in Clusters, Decoded(fat', c) # Decoded(fat, c)
               PROVE  \E d \in {c, Neighbour(c)} \cap Clusters :
                        \E j \in DOMAIN cwd : cwd[j].clus = d /\ cwd[j].first # REMOVED
                                              /\ cwd'[j].first = REMOVED
    BY DEF LinksKeptStep
  <2>1. clus \in Clusters /\ clus \in {c, Neighbour(c)}
    BY <1>9 DEF Spoils
  <2> QED
    BY <1>3, <1>7, <1>11, <2>1 DEF clus
<1> QED
  BY <1>10, <1>12

LEMMA FatStep ==
  ASSUME FatOK, [fatNext]_fatVars
  PROVE  FatOK' /\ [LinksKeptStep]_fatVars
<1>1. CASE UNCHANGED <<fat, root, cwd>>
  <2>1. FatOK'
    BY <1>1 DEF FatOK
  <2> QED
    BY <1>1, <2>1, UntouchedTable
<1>2. ASSUME NEW name \in Names, fat12_cd(name[1]) PROVE FatOK' /\ LinksKeptStep
  BY <1>2, CdKeeps
<1>3. CASE fat12_mkdir
  BY <1>3, MkdirKeeps
<1>4. ASSUME NEW name \in Names, NEW D \in Delims,
             \/ Overrun(name, D)
             \/ \E size \in Sizes : fat12_touch(name, D, size)
             \/ fat12_remove(name, D)
             \/ fat12_read(name, D)
      PROVE  FatOK' /\ LinksKeptStep
  <2>1. CASE \E size \in Sizes : fat12_touch(name, D, size)
    BY <2>1, TouchKeeps
  <2>2. CASE fat12_remove(name, D)
    BY <2>2, RemoveKeeps
  <2>3. CASE fat12_read(name, D) \/ Overrun(name, D)
    <3>1. UNCHANGED <<fat, root, cwd>>
      BY <2>3 DEF fat12_read, Overrun, Ended
    <3>2. FatOK'
      BY <3>1 DEF FatOK
    <3> QED
      BY <3>1, <3>2, UntouchedTable
  <2> QED
    BY <1>4, <2>1, <2>2, <2>3
<1>5. NoBpb \/ UNCHANGED fatVars => UNCHANGED <<fat, root, cwd>>
  BY DEF NoBpb, Ended, fatVars
<1> QED
  BY <1>1, <1>2, <1>3, <1>4, <1>5 DEF fatNext

(* On a volume formatted by anybody, whatever is put in, removed and put   *)
(* in again, no entry of the root directory ever lies behind the slot its  *)
(* readers stop at (fat12.c:370-374).                                      *)
THEOREM EntriesReached == fatSpec => []NoneHidden
<1>1. fatInit => FatOK
  BY FatStart
<1>2. FatOK /\ [fatNext]_fatVars => FatOK'
  BY FatStep
<1>3. FatOK => NoneHidden
  BY DEF FatOK, Tidy, NoneHidden
<1> QED
  BY <1>1, <1>2, <1>3, PTL DEF fatSpec

(* Of the links between clusters a step changes only those of a cluster    *)
(* that was free or began a removed file, and those of the one cluster     *)
(* that shares a byte of the table with it (fat12.c:105-107), for tables   *)
(* of every size.                                                          *)
THEOREM ChainsKept == fatSpec => LinksKept
<1>1. fatInit => FatOK
  BY FatStart
<1>2. FatOK /\ [fatNext]_fatVars => FatOK' /\ [LinksKeptStep]_fatVars
  BY FatStep
<1> QED
  BY <1>1, <1>2, PTL DEF fatSpec, LinksKept

-----------------------------------------------------------------------------
(* The console.                                                            *)
consoleSpec == consoleInit /\ [][consoleNext]_consoleVars

Cells == 0 .. Width * Height - 1
Screens == [cells : [Cells -> Int], x : 0 .. Width - 1, y : 0 .. Height - 1]
ConsoleOK ==
  /\ screen \in Screens
  /\ typed \in Seq(Int) /\ Len(typed) <= BufferSize
  /\ lost = "no" => Len(typed) <= Position

LEMMA ScreenSizes ==
  Width \in Nat \ {0} /\ Height \in Nat \ {0}
BY ConsoleConstants

LEMMA ProductsOrdered ==
  ASSUME NEW a \in Nat, NEW b \in Nat, NEW c \in Nat, a <= b
  PROVE  a * c \in Nat /\ b * c \in Nat /\ a * c <= b * c
<1>1. b - a \in Nat
  OBVIOUS
<1>2. \A i \in Nat, j \in Nat : i * j \in Nat
  OBVIOUS
<1>3. a * c \in Nat /\ (b - a) * c \in Nat
  BY <1>1, <1>2
<1>4. b * c = a * c + (b - a) * c
  OBVIOUS
<1> QED
  BY <1>3, <1>4

(* The cells of rows and columns.                                          *)
LEMMA CellFacts ==
  ASSUME NEW x \in 0 .. Width - 1, NEW y \in 0 .. Height - 1
  PROVE  /\ y * Width \in Nat /\ y * Width + Width <= Width * Height
         /\ y * Width + x \in Cells
         /\ Width * Height \in Nat
         /\ y < Height - 1 => (y + 1) * Width = y * Width + Width
         /\ y = Height - 1 => y * Width + Width = Width * Height
<1>1. Width \in Nat /\ Height \in Nat /\ y \in Nat /\ y + 1 \in Nat /\ y + 1 <= Height
  BY ScreenSizes
<1>2. (y + 1) * Width \in Nat /\ Height * Width \in Nat /\ (y + 1) * Width <= Height * Width
  BY <1>1, ProductsOrdered, Zenon
<1>3. (y + 1) * Width = y * Width + Width /\ Height * Width = Width * Height
  BY <1>1
<1>4. y * Width \in Nat
  BY <1>1, ProductsOrdered
<1>5. y = Height - 1 => y + 1 = Height
  BY <1>1
<1>6. y = Height - 1 => y * Width + Width = Width * Height
  BY <1>3, <1>5
<1> QED
  BY <1>1, <1>2, <1>3, <1>4, <1>6 DEF Cells

LEMMA SetCurFacts ==
  ASSUME NEW s \in Screens, NEW x \in Nat, NEW y \in Nat
  PROVE  /\ SetCur(s, x, y) \in Screens
         /\ SetCur(s, x, y).cells = s.cells
         /\ x < Width => SetCur(s, x, y).x = x
         /\ y < Height => SetCur(s, x, y).y = y
<1>1. ASSUME NEW a \in Nat, NEW b \in Nat \ {0}
      PROVE  Min({a, b - 1}) \in 0 .. b - 1 /\ (a < b => Min({a, b - 1}) = a)
  <2>1. {a, b - 1} \in SUBSET Nat /\ {a, b - 1} # {}
    OBVIOUS
  <2>2. Min({a, b - 1}) \in {a, b - 1} /\ \A z \in {a, b - 1} : Min({a, b - 1}) <= z
    BY <2>1, MinFacts, Zenon
  <2> QED
    BY <2>2
<1>2. /\ Min({x, Width - 1}) \in 0 .. Width - 1 /\ (x < Width => Min({x, Width - 1}) = x)
      /\ Min({y, Height - 1}) \in 0 .. Height - 1 /\ (y < Height => Min({y, Height - 1}) = y)
  BY <1>1, ScreenSizes
<1> QED
  BY <1>2 DEF SetCur, Screens

LEMMA PutCharFacts ==
  ASSUME NEW s \in Screens, NEW x, NEW y, NEW c \in Int
  PROVE  /\ PutChar(s, x, y, c) \in Screens
         /\ PutChar(s, x, y, c).x = s.x /\ PutChar(s, x, y, c).y = s.y
BY DEF PutChar, Screens

LEMMA PutCharThere ==
  ASSUME NEW s \in Screens, NEW x \in 0 .. Width - 1, NEW y \in 0 .. Height - 1, NEW c \in Int
  PROVE  PutChar(s, x, y, c).cells = [s.cells EXCEPT ![y * Width + x] = c]
<1>1. y * Width + x \in Cells /\ y * Width \in Nat
  BY CellFacts
<1>2. x + y * Width = y * Width + x
  BY <1>1
<1>3. ~(x > Width \/ y > Height) /\ DOMAIN s.cells = Cells
  BY ScreenSizes DEF Screens
<1>4. PutChar(s, x, y, c) = [s EXCEPT !.cells[y * Width + x] = c]
  BY <1>1, <1>2, <1>3 DEF PutChar
<1> QED
  BY <1>4 DEF Screens

LEMMA EarlierCells ==
  ASSUME NEW p \in Cells, NEW i \in Nat, i <= p
  PROVE  i \in Cells
<1> DEFINE m == Width * Height
<1>1. 0 \in 0 .. Width - 1 /\ 0 \in 0 .. Height - 1
  BY ScreenSizes
<1>2. m \in Nat /\ Cells = 0 .. m - 1
  BY <1>1, CellFacts DEF Cells
<1> HIDE DEF m
<1> QED
  BY <1>2

(* The rows moved up: what is copied is copied from the screen.            *)
LEMMA RowsCopied ==
  ASSUME NEW mem \in [Cells -> Int]
  PROVE  Memcpy(mem, 0, Width, Width * (Height - 1)) \in [Cells -> Int]
<1> DEFINE N == Width * (Height - 1)
           order == Rising(N)
           Moved(m, i) == [m EXCEPT ![0 + i] = m[Width + i]]
           step == [x \in (1 .. N) \X [Cells -> Int] |-> Moved(x[2], order[x[1]])]
           Rounds(f) == [k \in 0 .. N |-> IF k = 0 THEN mem ELSE Moved(f[k - 1], order[k])]
           w == CHOOSE f : f = Rounds(f)
<1>1. N \in Nat /\ N + Width = Width * Height
  <2>1. 0 \in 0 .. Width - 1 /\ Height - 1 \in 0 .. Height - 1
    BY ScreenSizes
  <2>2. (Height - 1) * Width \in Nat /\ (Height - 1) * Width + Width = Width * Height
    BY <2>1, CellFacts
  <2> QED
    BY <2>2, ScreenSizes
<1> HIDE DEF N
<1>2. Len(order) = N /\ \A k \in 1 .. N : order[k] = k - 1
  BY <1>1 DEF Rising
<1> HIDE DEF order
<1>3. ASSUME NEW k \in 1 .. N, NEW m \in [Cells -> Int] PROVE Moved(m, order[k]) \in [Cells -> Int]
  <2>1. Width + order[k] \in Cells
    <3>1. order[k] = k - 1
      BY <1>2
    <3>2. Width + (k - 1) \in 0 .. N + Width - 1
      BY <1>1, ScreenSizes
    <3> DEFINE all == Width * Height
    <3>3. Cells = 0 .. all - 1 /\ N + Width = all
      BY <1>1 DEF Cells
    <3> HIDE DEF all
    <3> QED
      BY <1>1, <3>1, <3>2, <3>3, ScreenSizes
  <2> QED
    BY <2>1
<1>4. Memcpy(mem, 0, Width, N) = w[N]
  BY <1>2 DEF Memcpy, CopiedBytes, order
<1>5. step \in [(1 .. N) \X [Cells -> Int] -> [Cells -> Int]]
  BY <1>3
<1> HIDE DEF step, Moved
<1>6. PICK f : History(f, N, [Cells -> Int], mem, step)
  BY <1>1, <1>5, LoopRuns
<1>7. f = Rounds(f)
  <2>1. ASSUME NEW k \in 1 .. N PROVE f[k] = Moved(f[k - 1], order[k])
    <3>1. k - 1 \in 0 .. N
      BY <1>1
    <3>2. f[k - 1] \in [Cells -> Int] /\ f[k] = step[<<k, f[k - 1]>>]
      BY <1>6, <3>1 DEF History
    <3> QED
      BY <3>2 DEF step
  <2>2. \A k \in 0 .. N : k # 0 => k \in 1 .. N
    BY <1>1
  <2> QED
    BY <1>6, <2>1, <2>2 DEF History
<1>8. w = Rounds(w)
  BY <1>7, Zenon
<1> HIDE DEF w
<1>9. \A k \in 0 .. N : w[k] \in [Cells -> Int]
  <2>1. 0 \in 0 .. N /\ \A k \in 1 .. N : k \in 0 .. N /\ k # 0
    BY <1>1
  <2>2. w[0] = mem
    BY <1>8, <2>1
  <2>3. ASSUME NEW k \in 1 .. N, w[k - 1] \in [Cells -> Int] PROVE w[k] \in [Cells -> Int]
    <3>1. w[k] = Moved(w[k - 1], order[k])
      BY <1>8, <2>1
    <3> QED
      BY <1>3, <2>3, <3>1
  <2> QED
    BY <1>1, <2>2, <2>3, LoopStays
<1>10. N \in 0 .. N
  BY <1>1
<1> QED
  BY <1>4, <1>9, <1>10 DEF N

LEMMA ScrollFacts ==
  ASSUME NEW s \in Screens
  PROVE  Scroll(s) \in Screens
<1> DEFINE moved == Memcpy(s.cells, 0, Width, Width * (Height - 1))
           up == [s EXCEPT !.cells = moved]
           filled == FillLine(up, Height - 1, SPACE)
<1>1. moved \in [Cells -> Int]
  BY RowsCopied DEF Screens
<1> HIDE DEF moved
<1>2. up \in Screens /\ up.cells = moved
  BY <1>1 DEF Screens
<1>3. filled \in Screens
  <2> DEFINE m == Memset(up.cells, (Height - 1) * Width, SPACE, Width)
  <2>1. m \in [Cells -> Int]
    BY <1>1, <1>2 DEF Memset, SPACE
  <2>2. filled = [up EXCEPT !.cells = m]
    BY DEF FillLine
  <2> HIDE DEF m, up
  <2> QED
    BY <1>2, <2>1, <2>2 DEF Screens
<1>4. Scroll(s) = SetCur(filled, 0, Height - 1)
  BY DEF Scroll, moved
<1> HIDE DEF filled
<1>5. Height - 1 \in Nat
  BY ScreenSizes
<1> QED
  BY <1>3, <1>4, <1>5, SetCurFacts

LEMMA RowFacts ==
  ASSUME NEW s \in Screens, NEW x \in Nat, NEW y \in Nat
  PROVE  Row(s, x, y) \in Screens
BY ScrollFacts, SetCurFacts DEF Row

LEMMA PlainFacts ==
  ASSUME NEW s \in Screens, NEW c \in Int
  PROVE  Plain(s, c) \in Screens
<1> DEFINE put == PutChar(s, s.x, s.y, c)
<1>1. put \in Screens
  BY PutCharFacts
<1>2. s.x \in Nat /\ s.y \in Nat
  BY DEF Screens
<1> HIDE DEF put
<1>3. Row(put, 0, s.y + 1) \in Screens /\ SetCur(put, s.x + 1, s.y) \in Screens
  <2>1. 0 \in Nat /\ s.x + 1 \in Nat /\ s.y + 1 \in Nat
    BY <1>2
  <2> QED
    BY <1>1, <1>2, <2>1, RowFacts, SetCurFacts, Zenon
<1>4. Plain(s, c) = IF s.x + 1 >= Width THEN Row(put, 0, s.y + 1) ELSE SetCur(put, s.x + 1, s.y)
  BY DEF Plain, put
<1> QED
  BY <1>3, <1>4

(* The spaces of a tab.                                                    *)
LEMMA TabFacts ==
  ASSUME NEW s \in Screens
  PROVE  Putc(s, TAB) \in Screens
<1> DEFINE N == 8 - (s.x % 8)
           step == [x \in (1 .. N) \X Screens |-> Plain(x[2], SPACE)]
           Rounds(f) == [k \in 0 .. N |-> IF k = 0 THEN s ELSE Plain(f[k - 1], SPACE)]
           w == CHOOSE f : f = Rounds(f)
<1>1. N \in Nat
  BY DEF Screens
<1>2. \A z \in Screens : Plain(z, SPACE) \in Screens
  BY PlainFacts DEF SPACE
<1>3. Putc(s, TAB) = w[N]
  BY DEF Putc, TAB, NEWLINE, RETURN
<1> HIDE DEF N
<1>4. step \in [(1 .. N) \X Screens -> Screens]
  BY <1>2
<1> HIDE DEF step
<1>5. PICK f : History(f, N, Screens, s, step)
  BY <1>1, <1>4, LoopRuns
<1>6. f = Rounds(f)
  <2>1. ASSUME NEW k \in 1 .. N PROVE f[k] = Plain(f[k - 1], SPACE)
    <3>1. k - 1 \in 0 .. N
      BY <1>1
    <3>2. f[k - 1] \in Screens /\ f[k] = step[<<k, f[k - 1]>>]
      BY <1>5, <3>1 DEF History
    <3> QED
      BY <3>2 DEF step
  <2>2. \A k \in 0 .. N : k # 0 => k \in 1 .. N
    BY <1>1
  <2> QED
    BY <1>5, <2>1, <2>2 DEF History
<1>7. w = Rounds(w)
  BY <1>6, Zenon
<1> HIDE DEF w
<1>8. \A k \in 0 .. N : w[k] \in Screens
  <2>1. 0 \in 0 .. N /\ \A k \in 1 .. N : k \in 0 .. N /\ k # 0
    BY <1>1
  <2>2. w[0] = s
    BY <1>7, <2>1
  <2>3. ASSUME NEW k \in 1 .. N, w[k - 1] \in Screens PROVE w[k] \in Screens
    <3>1. w[k] = Plain(w[k - 1], SPACE)
      BY <1>7, <2>1
    <3> QED
      BY <1>2, <2>3, <3>1
  <2> QED
    BY <1>1, <2>2, <2>3, LoopStays
<1>9. N \in 0 .. N
  BY <1>1
<1> QED
  BY <1>3, <1>8, <1>9

LEMMA PutcFacts ==
  ASSUME NEW s \in Screens, NEW c \in Int
  PROVE  Putc(s, c) \in Screens
<1>1. s.x \in Nat /\ s.y \in Nat
  BY DEF Screens
<1>2. CASE c = NEWLINE
  <2>1. Putc(s, c) = Row(s, 0, s.y + 1)
    BY <1>2 DEF Putc
  <2> QED
    BY <1>1, <2>1, RowFacts
<1>3. CASE c # NEWLINE /\ c = RETURN
  <2>1. Putc(s, c) = SetCur(s, 0, s.y)
    BY <1>3 DEF Putc
  <2> QED
    BY <1>1, <2>1, SetCurFacts
<1>4. CASE c = TAB
  BY <1>4, TabFacts
<1>5. CASE c # NEWLINE /\ c # RETURN /\ c # TAB
  <2>1. Putc(s, c) = Plain(s, c)
    BY <1>5 DEF Putc
  <2> QED
    BY <2>1, PlainFacts
<1> QED
  BY <1>2, <1>3, <1>4, <1>5

LEMMA ShownFacts ==
  ASSUME NEW s \in Screens, NEW text \in Seq(Int)
  PROVE  Shown(s, text) \in Screens
<1> DEFINE N == Len(text)
           step == [x \in (1 .. N) \X Screens |-> Putc(x[2], text[x[1]])]
           Rounds(f) == [k \in 0 .. N |-> IF k = 0 THEN s ELSE Putc(f[k - 1], text[k])]
           w == CHOOSE f : f = Rounds(f)
<1>1. N \in Nat /\ \A k \in 1 .. N : text[k] \in Int
  OBVIOUS
<1>2. \A z \in Screens, k \in 1 .. N : Putc(z, text[k]) \in Screens
  BY <1>1, PutcFacts
<1>3. Shown(s, text) = w[N]
  BY DEF Shown
<1> HIDE DEF N
<1>4. step \in [(1 .. N) \X Screens -> Screens]
  BY <1>2
<1> HIDE DEF step
<1>5. PICK f : History(f, N, Screens, s, step)
  BY <1>1, <1>4, LoopRuns
<1>6. f = Rounds(f)
  <2>1. ASSUME NEW k \in 1 .. N PROVE f[k] = Putc(f[k - 1], text[k])
    <3>1. k - 1 \in 0 .. N
      BY <1>1
    <3>2. f[k - 1] \in Screens /\ f[k] = step[<<k, f[k - 1]>>]
      BY <1>5, <3>1 DEF History
    <3> QED
      BY <3>2 DEF step
  <2>2. \A k \in 0 .. N : k # 0 => k \in 1 .. N
    BY <1>1
  <2> QED
    BY <1>5, <2>1, <2>2 DEF History
<1>7. w = Rounds(w)
  BY <1>6, Zenon
<1> HIDE DEF w
<1>8. \A k \in 0 .. N : w[k] \in Screens
  <2>1. 0 \in 0 .. N /\ \A k \in 1 .. N : k \in 0 .. N /\ k # 0
    BY <1>1
  <2>2. w[0] = s
    BY <1>7, <2>1
  <2>3. ASSUME NEW k \in 1 .. N, w[k - 1] \in Screens PROVE w[k] \in Screens
    <3>1. w[k] = Putc(w[k - 1], text[k])
      BY <1>7, <2>1
    <3> QED
      BY <1>2, <2>3, <3>1
  <2> QED
    BY <1>1, <2>2, <2>3, LoopStays
<1>9. N \in 0 .. N
  BY <1>1
<1> QED
  BY <1>3, <1>8, <1>9

LEMMA TextsAreCodes ==
  /\ <<NEWLINE>> \in Seq(Int)
  /\ <<RETURN>> \o Prompt \o <<SPACE>> \in Seq(Int)
  /\ \A output \in Outputs : output \in Seq(Int)
<1>1. ASSUME NEW s \in Seq(Nat) PROVE s \in Seq(Int)
  <2>1. Len(s) \in Nat /\ s \in [1 .. Len(s) -> Int]
    OBVIOUS
  <2> QED
    BY <2>1
<1>2. Prompt \in Seq(Int) /\ \A output \in Outputs : output \in Seq(Int)
  BY <1>1, ConsoleConstants
<1> QED
  BY <1>2 DEF NEWLINE, RETURN, SPACE

LEMMA PromptedFacts ==
  ASSUME NEW s \in Screens
  PROVE  Prompted(s) \in Screens
BY TextsAreCodes, ShownFacts, Zenon DEF Prompted

LEMMA KeysAreCodes ==
  ASSUME NEW key \in Scancodes
  PROVE  Kgetchar(key) \in Int
<1>1. key \in Nat
  BY ConsoleConstants
<1>2. Character(key) \in Int
  <2>1. Column \in 1 .. 3
    BY DEF Column
  <2>2. key \in DOMAIN Table => Table[key][Column] \in Int
    BY <2>1, ConsoleConstants
  <2> QED
    BY <1>1, <2>2 DEF Character
<1> QED
  BY <1>1, <1>2 DEF Kgetchar, BREAK, NOT_PRINTABLE

-----------------------------------------------------------------------------
(* Where the cursor stands.                                                *)
LEMMA PositionFacts ==
  ASSUME screen \in Screens
  PROVE  /\ Position \in Cells /\ Position \in Nat
         /\ screen.x \in 0 .. Width - 1 /\ screen.y \in 0 .. Height - 1
         /\ DOMAIN screen.cells = Cells
<1>1. screen.x \in 0 .. Width - 1 /\ screen.y \in 0 .. Height - 1 /\ DOMAIN screen.cells = Cells
  BY DEF Screens
<1>2. Position \in Cells
  BY <1>1, CellFacts DEF Position
<1> QED
  BY <1>1, <1>2 DEF Cells

(* A character that is typed comes where the cursor was, which goes on, on *)
(* to the next row too, but not behind the last.                           *)
LEMMA ShellPutcFacts ==
  ASSUME screen \in Screens, NEW c \in Int
  PROVE  LET next == ShellPutc(c)
         IN  /\ next \in Screens
             /\ next.cells = [screen.cells EXCEPT ![Position] = c]
             /\ Position # Width * Height - 1 => next.y * Width + next.x = Position + 1
<1> DEFINE put == PutChar(screen, screen.x, screen.y, c)
           x == screen.x
           y == screen.y
<1>1. x \in 0 .. Width - 1 /\ y \in 0 .. Height - 1 /\ Position = y * Width + x
  BY PositionFacts DEF Position
<1>2. put \in Screens /\ put.cells = [screen.cells EXCEPT ![Position] = c]
  BY <1>1, PutCharFacts, PutCharThere
<1> HIDE DEF put, x, y
<1>3. /\ x \in Nat /\ y \in Nat /\ x + 1 \in Nat /\ y + 1 \in Nat
      /\ Width \in Nat \ {0} /\ Height \in Nat \ {0}
  BY <1>1, ScreenSizes
<1>4. CASE x + 1 >= Width
  <2> DEFINE next == SetCur(put, 0, y + 1)
  <2>1. ShellPutc(c) = next
    BY <1>4 DEF ShellPutc, put, x, y
  <2>2. /\ next \in Screens /\ next.cells = put.cells /\ next.x = 0
        /\ y + 1 < Height => next.y = y + 1
    BY <1>2, <1>3, SetCurFacts
  <2>3. x = Width - 1
    BY <1>1, <1>3, <1>4
  <2> HIDE DEF next
  <2>4. ASSUME Position # Width * Height - 1 PROVE next.y * Width + next.x = Position + 1
    <3>1. y * Width \in Nat /\ Width * Height \in Nat
          /\ (y = Height - 1 => y * Width + Width = Width * Height)
          /\ (y < Height - 1 => (y + 1) * Width = y * Width + Width)
      BY <1>1, CellFacts
    <3>2. y # Height - 1
      BY <1>1, <1>3, <2>3, <2>4, <3>1
    <3>3. y < Height - 1 /\ y + 1 < Height
      BY <1>1, <1>3, <3>2
    <3>4. (y + 1) * Width = y * Width + Width
      BY <3>1, <3>3
    <3>5. next.y * Width = y * Width + Width
      BY <2>2, <3>3, <3>4
    <3> QED
      BY <1>1, <1>3, <2>2, <2>3, <3>1, <3>5
  <2> QED
    BY <1>2, <2>1, <2>2, <2>4
<1>5. CASE ~(x + 1 >= Width)
  <2> DEFINE next == SetCur(put, x + 1, y)
  <2>1. ShellPutc(c) = next
    BY <1>5 DEF ShellPutc, put, x, y
  <2>2. x + 1 < Width /\ y < Height
    BY <1>1, <1>3, <1>5
  <2>3. next \in Screens /\ next.cells = put.cells /\ next.x = x + 1 /\ next.y = y
    BY <1>2, <1>3, <2>2, SetCurFacts
  <2> HIDE DEF next
  <2>4. y * Width \in Nat
    BY <1>1, CellFacts
  <2>5. next.y * Width + next.x = Position + 1
    BY <1>1, <1>3, <2>3, <2>4
  <2> QED
    BY <1>2, <2>1, <2>3, <2>5
<1> QED
  BY <1>4, <1>5

(* One that is rubbed out is the one before the cursor, in the row above   *)
(* too.                                                                    *)
LEMMA RubbedFacts ==
  ASSUME screen \in Screens, Position # 0
  PROVE  /\ Rubbed \in Screens
         /\ Rubbed.cells = [screen.cells EXCEPT ![Position - 1] = SPACE]
         /\ Rubbed.y * Width + Rubbed.x = Position - 1
<1> DEFINE p == Position - 1
           x == p % Width
           y == p \div Width
           back == SetCur(screen, x, y)
<1>1. /\ p \in Nat /\ p < Width * Height /\ Width * Height \in Nat
      /\ Width \in Nat \ {0} /\ Height \in Nat \ {0}
  <2>1. 0 \in 0 .. Width - 1 /\ 0 \in 0 .. Height - 1
    BY ScreenSizes
  <2>2. Width * Height \in Nat
    BY <2>1, CellFacts
  <2> QED
    BY <2>2, PositionFacts, ScreenSizes DEF Cells
<1> HIDE DEF p
<1>2. x \in 0 .. Width - 1 /\ y \in Nat /\ p = y * Width + x
  BY <1>1
<1> HIDE DEF x, y
<1>3. y < Height
  <2> SUFFICES ASSUME Height <= y PROVE FALSE
    BY <1>1, <1>2
  <2>1. Height * Width \in Nat /\ y * Width \in Nat /\ Height * Width <= y * Width
    BY <1>1, <1>2, ProductsOrdered, Zenon
  <2>2. Height * Width = Width * Height
    BY <1>1
  <2> QED
    BY <1>1, <1>2, <2>1, <2>2
<1>4. x \in Nat /\ x < Width /\ y \in 0 .. Height - 1
  BY <1>1, <1>2, <1>3
<1>5. back \in Screens /\ back.cells = screen.cells /\ back.x = x /\ back.y = y
  BY <1>2, <1>3, <1>4, SetCurFacts
<1> HIDE DEF back
<1>6. Rubbed = PutChar(back, x, y, SPACE)
  BY DEF Rubbed, back, x, y, p
<1>7. SPACE \in Int
  BY DEF SPACE
<1>8. /\ Rubbed \in Screens /\ Rubbed.x = back.x /\ Rubbed.y = back.y
      /\ Rubbed.cells = [back.cells EXCEPT ![y * Width + x] = SPACE]
  BY <1>2, <1>4, <1>5, <1>6, <1>7, PutCharFacts, PutCharThere
<1> QED
  BY <1>2, <1>5, <1>8 DEF p

LEMMA ConsoleStarts ==
  ASSUME consoleInit
  PROVE  ConsoleOK /\ LineShown
<1>1. screen = Prompted(Clear) /\ typed = <<>>
  BY DEF consoleInit
<1>2. Clear \in Screens
  BY ScreenSizes DEF Clear, Screens, Cells, SPACE
<1>3. screen \in Screens
  BY <1>1, <1>2, PromptedFacts
<1>4. Position \in Nat
  BY <1>3, PositionFacts
<1> QED
  BY <1>1, <1>3, <1>4, ConsoleConstants DEF ConsoleOK, LineShown

LEMMA EnterKeeps ==
  ASSUME ConsoleOK, EnterKey
  PROVE  ConsoleOK' /\ LineShown'
<1>1. PICK output \in Outputs : screen' = Prompted(Shown(Shown(screen, <<NEWLINE>>), output))
  BY DEF EnterKey
<1>2. typed' = <<>>
  BY DEF EnterKey
<1>3. screen' \in Screens
  <2>1. Shown(screen, <<NEWLINE>>) \in Screens
    BY TextsAreCodes, ShownFacts DEF ConsoleOK
  <2>2. Shown(Shown(screen, <<NEWLINE>>), output) \in Screens
    BY <2>1, TextsAreCodes, ShownFacts
  <2> QED
    BY <1>1, <2>2, PromptedFacts
<1>4. Position' \in Nat
  <2>1. screen'.x \in 0 .. Width - 1 /\ screen'.y \in 0 .. Height - 1
    BY <1>3 DEF Screens
  <2>2. screen'.y * Width + screen'.x \in Cells
    BY <2>1, CellFacts
  <2> QED
    BY <2>2 DEF Position, Cells
<1> QED
  BY <1>2, <1>3, <1>4, ConsoleConstants DEF ConsoleOK, LineShown

LEMMA TypedKeeps ==
  ASSUME ConsoleOK, LineShown, NEW c \in Int, Typed(c)
  PROVE  ConsoleOK' /\ LineShown'
<1>1. /\ typed' = IF Len(typed) < BufferSize THEN Append(typed, c) ELSE typed
      /\ screen' = ShellPutc(c)
      /\ lost' = IF Len(typed) = BufferSize THEN "full"
                 ELSE IF Position = Width * Height - 1 THEN "bottom" ELSE lost
  BY DEF Typed
<1>2. screen \in Screens /\ typed \in Seq(Int) /\ Position \in Nat /\ DOMAIN screen.cells = Cells
      /\ Position \in Cells /\ Len(typed) \in Nat
  BY PositionFacts DEF ConsoleOK
<1>3. /\ screen' \in Screens
      /\ screen'.cells = [screen.cells EXCEPT ![Position] = c]
      /\ Position # Width * Height - 1 => Position' = Position + 1
  BY <1>1, <1>2, ShellPutcFacts DEF Position
<1>4. typed' \in Seq(Int) /\ Len(typed') <= BufferSize
  BY <1>1, <1>2, ConsoleConstants DEF ConsoleOK
<1>5. CASE lost' # "no"
  BY <1>3, <1>4, <1>5 DEF ConsoleOK, LineShown
<1>6. CASE lost' = "no"
  <2>1. lost = "no" /\ Len(typed) # BufferSize /\ Position' = Position + 1
    BY <1>1, <1>3, <1>6
  <2>2. Len(typed) <= Position
    BY <2>1 DEF ConsoleOK
  <2>3. \A k \in DOMAIN typed : screen.cells[Position - Len(typed) + k - 1] = typed[k]
    BY <2>1 DEF LineShown
  <2>4. CASE Len(typed) < BufferSize
    <3>1. typed' = Append(typed, c)
      BY <1>1, <2>4
    <3>2. Len(typed') = Len(typed) + 1 /\ DOMAIN typed' = 1 .. Len(typed) + 1
          /\ typed'[Len(typed) + 1] = c /\ \A k \in 1 .. Len(typed) : typed'[k] = typed[k]
      BY <1>2, <3>1
    <3>3. Len(typed') <= Position'
      BY <1>2, <2>1, <2>2, <3>2
    <3>4. ASSUME NEW k \in DOMAIN typed'
          PROVE  screen'.cells[Position' - Len(typed') + k - 1] = typed'[k]
      <4>1. Position' - Len(typed') + k - 1 = Position - Len(typed) + k - 1
        BY <1>2, <2>1, <3>2
      <4>2. CASE k = Len(typed) + 1
        <5>1. Position - Len(typed) + k - 1 = Position
          BY <1>2, <4>2
        <5> QED
          BY <1>2, <1>3, <3>2, <4>1, <4>2, <5>1
      <4>3. CASE k \in 1 .. Len(typed)
        <5> DEFINE a == Position - Len(typed) + k - 1
        <5>1. a \in 0 .. Position - 1
          BY <1>2, <2>2, <4>3
        <5>2. a \in Cells /\ a # Position
          BY <1>2, <5>1, EarlierCells
        <5>3. k \in DOMAIN typed
          BY <1>2, <4>3
        <5>4. screen.cells[a] = typed[k]
          BY <2>3, <5>3
        <5> HIDE DEF a
        <5>5. screen'.cells[a] = screen.cells[a]
          BY <1>2, <1>3, <5>2
        <5>6. typed'[k] = typed[k]
          BY <3>2, <4>3
        <5> QED
          BY <4>1, <5>4, <5>5, <5>6 DEF a
      <4> QED
        BY <1>2, <3>2, <4>2, <4>3
    <3> QED
      BY <1>3, <1>4, <3>3, <3>4 DEF ConsoleOK, LineShown
  <2>5. Len(typed) < BufferSize
    BY <1>2, <2>1, ConsoleConstants DEF ConsoleOK
  <2> QED
    BY <2>4, <2>5
<1> QED
  BY <1>5, <1>6

LEMMA BackspaceKeeps ==
  ASSUME ConsoleOK, LineShown, lost = "no", Backspace
  PROVE  ConsoleOK' /\ LineShown'
<1>1. CASE typed = <<>>
  <2>1. UNCHANGED <<typed, screen, lost>>
    BY <1>1 DEF Backspace
  <2> QED
    BY <2>1 DEF ConsoleOK, LineShown, Position
<1>2. CASE typed # <<>>
  <2>1. typed' = Front(typed) /\ screen' = Rubbed /\ lost' = lost
    BY <1>2 DEF Backspace
  <2>2. /\ screen \in Screens /\ typed \in Seq(Int) /\ Position \in Nat /\ DOMAIN screen.cells = Cells
        /\ Position \in Cells /\ Len(typed) \in Nat \ {0} /\ DOMAIN typed = 1 .. Len(typed)
        /\ Len(typed) <= Position /\ Len(typed) <= BufferSize
    BY <1>2, PositionFacts DEF ConsoleOK
  <2>3. /\ typed' \in Seq(Int) /\ Len(typed') = Len(typed) - 1 /\ DOMAIN typed' = 1 .. Len(typed) - 1
        /\ \A k \in 1 .. Len(typed) - 1 : typed'[k] = typed[k]
    BY <2>1, <2>2 DEF Front
  <2>4. /\ screen' \in Screens
        /\ screen'.cells = [screen.cells EXCEPT ![Position - 1] = SPACE]
        /\ Position' = Position - 1
    BY <2>1, <2>2, RubbedFacts DEF Position
  <2>5. ConsoleOK'
    BY <2>2, <2>3, <2>4, ConsoleConstants DEF ConsoleOK
  <2>6. ASSUME NEW k \in DOMAIN typed'
        PROVE  screen'.cells[Position' - Len(typed') + k - 1] = typed'[k]
    <3> DEFINE a == Position - Len(typed) + k - 1
    <3>1. Position' - Len(typed') + k - 1 = a
      BY <2>2, <2>3, <2>4
    <3>2. a \in 0 .. Position - 2
      BY <2>2, <2>3
    <3>3. a \in Cells /\ a # Position - 1
      BY <2>2, <3>2, EarlierCells
    <3>4. screen.cells[a] = typed[k]
      BY <2>2, <2>3 DEF LineShown
    <3> HIDE DEF a
    <3>5. screen'.cells[a] = screen.cells[a]
      BY <2>2, <2>4, <3>3
    <3> QED
      BY <2>3, <3>1, <3>4, <3>5
  <2> QED
    BY <2>5, <2>6 DEF LineShown
<1> QED
  BY <1>1, <1>2

LEMMA ConsoleStep ==
  ASSUME ConsoleOK, LineShown, [consoleNext]_consoleVars
  PROVE  ConsoleOK' /\ LineShown'
<1>1. CASE UNCHANGED <<typed, screen, lost>>
  BY <1>1 DEF ConsoleOK, LineShown, Position
<1>2. ASSUME NEW key \in Scancodes, lost = "no" \/ Kgetchar(key) = NEWLINE, Key(key)
      PROVE  ConsoleOK' /\ LineShown'
  <2> DEFINE c == Kgetchar(key)
  <2>1. c \in Int
    BY KeysAreCodes
  <2>2. IF c = 0 THEN UNCHANGED <<typed, screen, lost>>
        ELSE IF c = BACKSPACE THEN Backspace
        ELSE IF c = NEWLINE THEN EnterKey
        ELSE IF Has(c, SPECIAL + BREAK + NOT_PRINTABLE) THEN UNCHANGED <<typed, screen, lost>>
        ELSE Typed(c)
    BY <1>2 DEF Key
  <2> HIDE DEF c
  <2>3. CASE c # 0 /\ c = BACKSPACE
    <3>1. lost = "no"
      BY <1>2, <2>3 DEF c, BACKSPACE, NEWLINE
    <3> QED
      BY <2>2, <2>3, <3>1, BackspaceKeeps
  <2>4. CASE c # 0 /\ c # BACKSPACE /\ c = NEWLINE
    BY <2>2, <2>4, EnterKeeps
  <2>5. CASE c # 0 /\ c # BACKSPACE /\ c # NEWLINE /\ Has(c, SPECIAL + BREAK + NOT_PRINTABLE)
    BY <1>1, <2>2, <2>5
  <2>6. CASE c # 0 /\ c # BACKSPACE /\ c # NEWLINE /\ ~Has(c, SPECIAL + BREAK + NOT_PRINTABLE)
    BY <2>1, <2>2, <2>6, TypedKeeps
  <2>7. CASE c = 0
    BY <1>1, <2>2, <2>7
  <2> QED
    BY <2>3, <2>4, <2>5, <2>6, <2>7
<1> QED
  BY <1>1, <1>2 DEF consoleNext, consoleVars

(* On a screen of every size and with every table of keys, what stands     *)
(* before the cursor is the line that the next Enter will run, over the    *)
(* ends of rows as well, until the bottom or the buffer's end is reached   *)
(* (shell.c:323-331, 370-390).                                             *)
THEOREM LineStaysShown == consoleSpec => []LineShown
<1>1. consoleInit => ConsoleOK /\ LineShown
  BY ConsoleStarts
<1>2. ConsoleOK /\ LineShown /\ [consoleNext]_consoleVars => ConsoleOK' /\ LineShown'
  BY ConsoleStep
<1> QED
  BY <1>1, <1>2, PTL DEF consoleSpec
=============================================================================
