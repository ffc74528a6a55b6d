-------------------------------- MODULE Fat12 --------------------------------
(***************************************************************************)
(* The FAT12 driver (fs/fat12.c, fs/fat12.h) on one partition: the bytes   *)
(* of the first table, the root directory, and the directory buffer its    *)
(* caller works in.  Sectors are left out: both bytes of an entry are read *)
(* and written together, across two sectors too.                           *)
(*                                                                         *)
(* Four mishaps end what can be said: fat12_get_bpb has no return, so that *)
(* its callers use what its last call left for it, the block or anything   *)
(* else, as the build has it (fat12.c:57-60); a name does not fit into its *)
(* eleven bytes; linking two clusters frees the parameter block twice; a   *)
(* chain is followed without moving on.                                    *)
(***************************************************************************)
EXTENDS LibStrings, Bits

CONSTANTS Volumes,  \* what formatted volumes hold: [fat, root]
          Geo,      \* the parameter block, and where the partition lies
          Names, Sizes, \* what files are called, and how many bytes they have
          Delims,   \* what to83standar's unterminated delimiters may be
          IntBits   \* the width of uint32_t, 32

VARIABLES fat,      \* the bytes of the table
          root,     \* the root directory on disk, a slot per entry
          cwd,      \* the caller's directory buffer
          parent,   \* the first cluster it was read from, 0 for the root
          area,     \* what lies where cluster 0 would be
          mishap
fatVars == <<fat, root, cwd, parent, area, mishap>>

FREE == 0
BAD == 4087
EOC == 4095
IsEnd(c) == BAD < c /\ c <= EOC
Unsigned(n) == n % 2^IntBits

-----------------------------------------------------------------------------
(* Each root entry costs 32 sectors here.                                  *)
MaxClusters(g) ==
  Unsigned(g.total - g.reserved - g.tables * g.perFat - g.rootEntries * 32) \div g.perCluster
ClusterAddr(g, c) ==
  Unsigned(g.total - MaxClusters(g) * g.perCluster + c * g.perCluster)

(* readPartition adds lba_start once more.                                 *)
RootLba(g) == g.reserved + g.tables * g.perFat + g.start
RootSize(g) == (32 * g.rootEntries) \div g.sector

Clusters == 2 .. MaxClusters(Geo)
(* Cluster 0, where files are written, is none of the root's sectors.  It  *)
(* is not so on every partition: on one that begins at sector 2048 and has *)
(* 64 root entries both are in one place, and what is written goes over    *)
(* the directory (fat12.h:98-101, fat12.c:71-74).                          *)
ASSUME RootApart ==
  (RootLba(Geo) .. RootLba(Geo) + RootSize(Geo) - 1)
    \cap (ClusterAddr(Geo, 0) .. ClusterAddr(Geo, 0) + Geo.perCluster - 1) = {}

Offset(c) == c + c \div 2
Odd(c) == c % 2 = 1

(* An odd entry's lowest digit is not read, but its neighbour's highest.   *)
Decoded(b, c) ==
  LET o == Offset(c)
  IN  IF Odd(c) THEN ((b[o] & 15) * 16) | (b[o + 1] * 16)
                ELSE b[o] + (b[o + 1] & 15) * 256
GetEntry(b, c) == IF c \in Clusters THEN Decoded(b, c) ELSE -1

(* A slip: an odd entry begins where it ends.                              *)
SetTableEntryShifted(b, c, v) ==
  LET o == c + (c + 1) \div 2
  IN  IF Odd(c)
      THEN [b EXCEPT ![o] = (@ & 240) | ((v & 15) * 16), ![o + 1] = (v \div 16) & 255]
      ELSE [b EXCEPT ![o] = v & 255, ![o + 1] = (@ & 240) | ((v \div 256) & 15)]
(* An odd entry's lowest digit takes its neighbour's highest with it.      *)
SetTableEntry(b, c, v) ==
  LET o == Offset(c)
  IN  IF Odd(c)
      THEN [b EXCEPT ![o] = (@ & 240) | ((v & 15) * 16), ![o + 1] = (v \div 16) & 255]
      ELSE [b EXCEPT ![o] = v & 255, ![o + 1] = (@ & 240) | ((v \div 256) & 15)]
(* RemoveFat12Entry and fat12SetCluster.                                   *)
SetCluster(b, c, v) == IF c \in Clusters THEN SetTableEntry(b, c, v & 4095) ELSE b

(* The loops' next cluster is another variable in the loop: of a chain     *)
(* only the first cluster is freed, and no chain that has an entry is read *)
(* to its end.                                                             *)
RemoveClusterChain(b, first) == IF IsEnd(first) THEN b ELSE SetCluster(b, first, FREE)
ReadClusterChain(b, first) ==
  CASE IsEnd(first) -> "end"
    [] GetEntry(b, first) \in {-1, FREE, BAD} -> "error"
    [] OTHER -> "endless"

(* Writing begins at cluster 0, which has no entry, and ends there.        *)
WriteClusterChain(old, what, n) == IF n = 0 THEN old ELSE what

(* A second cluster is linked with the parameter block the first one's     *)
(* link has freed.                                                         *)
AllocClusters(b, n) ==
  LET found == {c \in Clusters : Decoded(b, c) = FREE}
      first == Min(found)
      one == SetCluster(b, first, EOC)
  IN  IF n = 0 \/ found = {} THEN [fat |-> b, first |-> 0, freed |-> FALSE]
      ELSE IF n = 1 THEN [fat |-> one, first |-> first, freed |-> FALSE]
      ELSE IF found = {first}
      THEN [fat |-> RemoveClusterChain(one, first), first |-> first, freed |-> FALSE]
      ELSE [fat |-> b, first |-> 0, freed |-> TRUE]

-----------------------------------------------------------------------------
(* Names.                                                                  *)
Lower == <<"a", "b", "c", "d", "e", "f", "g", "h", "i", "j", "k", "l", "m",
           "n", "o", "p", "q", "r", "s", "t", "u", "v", "w", "x", "y", "z">>
Upper == <<"A", "B", "C", "D", "E", "F", "G", "H", "I", "J", "K", "L", "M",
           "N", "O", "P", "Q", "R", "S", "T", "U", "V", "W", "X", "Y", "Z">>
Plain83 == {"0", "1", "2", "3", "4", "5", "6", "7", "8", "9", "!", "#", "$", "%", "&", "'", "-",
         "@", "^", "\\", "_", "~", "backquote", "(", ")", "{", "}"} \cup ToSet(Upper)
Char83(c) ==
  IF c \in Plain83 THEN c
  ELSE IF c \in ToSet(Lower) THEN Upper[SelectInSeq(Lower, LAMBDA l : l = c)] ELSE " "

Base(name, D) == Strtok(name, D).token
Extension(name, D) == Strtok(Strtok(name, D).rest, D).token
Letter83(part, i) == IF i \in DOMAIN part THEN Char83(part[i]) ELSE " "
To83(name, D) ==
  LET ext == Extension(name, D)
  IN  [i \in 1 .. 11 |-> IF i > 8 /\ Letter83(ext, i - 8) # " " THEN Letter83(ext, i - 8)
                         ELSE Letter83(Base(name, D), i)]
(* Nothing holds it to the buffer's eleven bytes.                          *)
Overruns(name, D) ==
  \/ \E i \in DOMAIN Base(name, D) : i > 11 /\ Letter83(Base(name, D), i) # " "
  \/ \E i \in DOMAIN Extension(name, D) : i > 3 /\ Letter83(Extension(name, D), i) # " "

-----------------------------------------------------------------------------
(* Directories.  A slot's first byte says whether it is the last, or was   *)
(* removed; the library's memcmp compares nothing else of a name.          *)
LAST == "0x00"
REMOVED == "0xE5"
EmptySlot == [first |-> LAST, attr |-> {}, clus |-> 0, size |-> 0]
LONG_NAME == {"READ_ONLY", "HIDDEN", "SYSTEM", "VOLUME_ID"}

ScannedSlots(d) ==
  LET last == SelectInSeq(d, LAMBDA e : e.first = LAST)
  IN  IF last = 0 THEN DOMAIN d ELSE 1 .. last - 1
Seen(d) ==
  {i \in ScannedSlots(d) : /\ d[i].first # REMOVED
                      /\ d[i].attr \cap LONG_NAME = {}
                      /\ d[i].attr \cap {"ARCHIVE", "DIR"} # {}}
(* FAT12listInDirectory, FAT12listRootDirectory: what they print.          *)
ListInDirectory(d) ==
  [k \in 1 .. Cardinality(Seen(d)) |-> d[SetToSortSeq(Seen(d), <)[k]].first]
(* FAT12searchInDirectory: 0 for NULL.                                     *)
SearchInDirectory(d, first) ==
  LET hits == {i \in Seen(d) : d[i].first = first}
  IN  IF hits = {} THEN 0 ELSE Min(hits)

-----------------------------------------------------------------------------
Ended(why) == /\ mishap' = why
              /\ UNCHANGED <<fat, root, cwd, parent, area>>

(* fat12_get_bpb has no return.                                            *)
NoBpb == mishap = "none" /\ Ended("bpb")

(* Whoever is given a name puts it into a buffer of its own stack first.   *)
Overrun(name, D) == mishap = "none" /\ Overruns(name, D) /\ Ended("name")

(* It refuses directories, where it means to refuse files.  Of a file's    *)
(* chain nothing is read, if reading it ends at all.                       *)
fat12_cd(target) ==
  LET i == SearchInDirectory(cwd, target)
  IN  /\ mishap = "none"
      /\ i # 0
      /\ "DIR" \notin cwd[i].attr
      /\ IF cwd[i].clus = 0
         THEN cwd' = root /\ parent' = 0 /\ UNCHANGED <<fat, root, area, mishap>>
         ELSE IF ReadClusterChain(fat, cwd[i].clus) = "endless" THEN Ended("endless")
         ELSE cwd' = <<>> /\ parent' = cwd[i].clus /\ UNCHANGED <<fat, root, area, mishap>>

(* A directory that is not the root has no slots, so that none of it is    *)
(* ever written.                                                           *)
StoreDir(d) == cwd' = d /\ root' = IF parent = 0 THEN d ELSE root

(* The new directory's name is never stored; `=' for `==' removes every    *)
(* entry there is (fat12.c:471).                                           *)
fat12_mkdir ==
  LET alloc == AllocClusters(fat, 1)
      removed == [i \in DOMAIN cwd |-> IF cwd[i].first = LAST THEN cwd[i]
                                       ELSE [cwd[i] EXCEPT !.first = REMOVED]]
  IN  /\ mishap = "none"
      /\ area' = WriteClusterChain(area, "dots", 64)
      /\ IF Len(cwd) <= 1
         THEN /\ fat' = RemoveClusterChain(alloc.fat, alloc.first)
              /\ cwd' = removed
              /\ UNCHANGED root
         ELSE /\ fat' = alloc.fat
              /\ StoreDir(removed)
      /\ UNCHANGED <<parent, mishap>>

(* The first chain is lost, and the second one's entry has no attribute    *)
(* with which it could be found.                                           *)
Slots(d) == {i \in DOMAIN d : d[i].first \in {REMOVED, LAST}}
(* A slip: the last slot there is.                                         *)
SlotLast(d) == Max(Slots(d))
Slot(d) == Min(Slots(d))
ClusterBytes == Geo.sector * Geo.perCluster
fat12_touch(name, D, size) ==
  LET n == IF size < ClusterBytes THEN 1 ELSE size \div ClusterBytes
      chain == AllocClusters(fat, n)
      alloc == AllocClusters(chain.fat, n)
      entry == [first |-> To83(name, D)[1], attr |-> {}, clus |-> alloc.first,
                size |-> size \div (n * ClusterBytes)]
  IN  /\ mishap = "none" /\ ~Overruns(name, D)
      /\ IF chain.freed \/ (Slots(cwd) # {} /\ alloc.freed) THEN Ended("freed")
         ELSE /\ IF Slots(cwd) = {}
                 THEN fat' = chain.fat /\ UNCHANGED <<root, cwd, area>>
                 ELSE /\ fat' = alloc.fat
                      /\ StoreDir([cwd EXCEPT ![Slot(cwd)] = entry])
                      /\ area' = WriteClusterChain(area, "file", size)
              /\ UNCHANGED <<parent, mishap>>

(* The entry goes and its chain is freed, or what RemoveClusterChain does. *)
fat12_remove(name, D) ==
  LET i == SearchInDirectory(cwd, To83(name, D)[1])
  IN  /\ mishap = "none" /\ ~Overruns(name, D)
      /\ i # 0
      /\ fat' = RemoveClusterChain(fat, cwd[i].clus)
      /\ StoreDir([cwd EXCEPT ![i].first = REMOVED])
      /\ UNCHANGED <<parent, area, mishap>>

(* Only a chain that never ends leaves anything different behind.          *)
fat12_read(name, D) ==
  LET i == SearchInDirectory(cwd, To83(name, D)[1])
  IN  /\ mishap = "none" /\ ~Overruns(name, D)
      /\ i # 0
      /\ ReadClusterChain(fat, cwd[i].clus) = "endless"
      /\ Ended("endless")

fatInit == /\ \E v \in Volumes : fat = v.fat /\ root = v.root
           /\ cwd = root
           /\ parent = 0
           /\ area = "nothing"
           /\ mishap = "none"
fatNext ==
  \/ NoBpb
  \/ \E name \in Names : fat12_cd(name[1])
  \/ fat12_mkdir
  \/ \E name \in Names, D \in Delims :
       \/ Overrun(name, D)
       \/ \E size \in Sizes : fat12_touch(name, D, size)
       \/ fat12_remove(name, D)
       \/ fat12_read(name, D)

-----------------------------------------------------------------------------
(* Formatted volumes: the table has a place for every cluster, and nothing *)
(* lies behind the first slot of a directory that was never used.          *)
ASSUME VolumesFormed ==
  /\ Sizes \subseteq Nat /\ ClusterBytes \in Nat \ {0}
  /\ \A v \in Volumes :
       /\ \A c \in Clusters : {Offset(c), Offset(c) + 1} \subseteq DOMAIN v.fat
       /\ v.root \in Seq([first : STRING, attr : SUBSET STRING, clus : Nat, size : Nat])
       /\ \A i \in DOMAIN v.root :
            v.root[i].first \notin {LAST, REMOVED} => i \in ScannedSlots(v.root)

(* Readers stop at the first slot that was never used (fat12.c:370-374),   *)
(* so that no entry may ever lie behind it, whatever was put in, removed   *)
(* and put in again.                                                       *)
NoneHidden == \A i \in DOMAIN root : root[i].first \notin {LAST, REMOVED} => i \in ScannedSlots(root)

(* A step that takes or gives back a cluster may spoil the entry that      *)
(* shares a byte with its own (fat12.c:105-107), but no other: one that    *)
(* changed, or its neighbour, was free, or began a file that was removed.  *)
Neighbour(c) == IF Odd(c) THEN c - 1 ELSE c + 1
LinksKeptStep ==
  \A c \in Clusters : Decoded(fat', c) # Decoded(fat, c) =>
    \E d \in {c, Neighbour(c)} \cap Clusters :
      \/ Decoded(fat, d) = FREE
      \/ \E i \in DOMAIN cwd : cwd[i].clus = d /\ cwd[i].first # REMOVED /\ cwd'[i].first = REMOVED
LinksKept == [][LinksKeptStep]_fatVars
=============================================================================
