------------------------------ MODULE MfsVolume ------------------------------
(***************************************************************************)
(* A volume of MunixFS (fs/fs.c, fs/mfs.c, fs/ifat.c): the allocation      *)
(* table and the root directory the explorer keeps in memory, and what of  *)
(* them is on the disk.                                                    *)
(*                                                                         *)
(* Every operation changes the copies in memory and then writes some of    *)
(* them out, one sector after the other; `writes` holds what is left of    *)
(* that, and the machine can stop before any of it.  The table and the     *)
(* superblock are written by some operations and not by others, which is   *)
(* what the properties are about.  The contents of files are left out; a   *)
(* directory holds, of each entry, its name and its first block.           *)
(***************************************************************************)
EXTENDS Integers, Sequences, FiniteSetsExt

CONSTANTS
  NumBlocks,   \* blocks of the volume; the last one is never usable
  PerSector,   \* table entries in a sector, 128
  DirBlocks,   \* MFS_DIR_BLOCKS
  NumSlots,    \* num_entries of a directory
  Names,       \* names the callers pass, of which "." is the root itself
  Stored,      \* Stored[n]: n cut to MAX_NAME_LEN characters
  Sizes,       \* sizes in blocks the callers pass to touch
  Removable,   \* names the callers pass to remove
  Cleaning,    \* whether anybody calls clean
  MaxCrashes,  \* bound of the runs on the crashes amid writes
  MaxFree      \* bound of the runs on FreeBlocks

Blocks == 1 .. NumBlocks - 1  \* what IFATreadEntry and IFATwriteEntry accept
Free == 0
Tombstone == NumBlocks + 1
Bad == NumBlocks + 2
End == NumBlocks + 3

ASSUME MfsConstants ==
  /\ NumBlocks \in Nat \ {0} /\ PerSector \in Nat \ {0}
  /\ DirBlocks \in Nat \ {0} /\ DirBlocks <= NumBlocks - 1
  /\ NumSlots \in Nat \ {0, 1}
  /\ Names \subseteq STRING
  /\ Stored \in [Names -> STRING]
  /\ Sizes \subseteq Nat
  /\ Removable \subseteq Names
  /\ Cleaning \in BOOLEAN /\ MaxCrashes \in Nat /\ MaxFree \in Nat

VARIABLES
  phase,      \* "off", "mounted", or "broken": mounted without a root
  table, root, free, dir,                   \* the explorer's copies
  diskTable, diskRoot, diskFree, diskDir,   \* what is on the disk
  writes,     \* writes the operation under way has still to do
  fd,         \* first block noted in the open descriptor, Free if none
  ret,        \* what the last operation returned
  crashes,    \* history: how often the machine stopped amid writes
  loose,      \* history: somebody cleaned, or mkdir lost an entry it made
  dotted,     \* history: somebody removed "." or made a directory of it
  gone        \* history: slots whose file somebody removed

memory == <<table, root, free, dir>>
disk == <<diskTable, diskRoot, diskFree, diskDir>>
past == <<crashes, loose, dotted, gone>>
vars == <<phase, memory, disk, writes, fd, ret, past>>

-----------------------------------------------------------------------------
(* The allocation table. *)

Ones(t) == {b \in Blocks : t[b] = Free}
Tombs(t) == {b \in Blocks : t[b] = Tombstone}

(* The blocks a walk along the chain from b visits.  Links ascend          *)
(* (LinksAscend), so it ends.                                              *)
Walks(t) ==
  LET from[c \in Blocks] ==
        {c} \cup IF t[c] \in Blocks /\ t[c] > c THEN from[t[c]] ELSE {}
  IN  from
Walk(t, b) == IF b \in Blocks THEN Walks(t)[b] ELSE {}
Intact(t, b) == \E c \in Walk(t, b) : t[c] = End

(* IFATallocateChain takes the lowest blocks that are free and links each  *)
(* to the next; too few, and it gives back what it took.                   *)
Enough(n) == n <= Cardinality(Ones(table))
Chosen(n) ==
  LET ones == Ones(table)
  IN  {b \in ones : Cardinality({c \in ones : c < b}) < n}

(* Slips: the last block is linked to the one behind it; the chain is      *)
(* linked backwards.                                                       *)
LinkedOnwards(n) ==
  LET chosen == Chosen(n)
      After(b) == {c \in chosen : c > b}
  IN  [b \in Blocks |->
         IF b \notin chosen THEN table[b]
         ELSE IF After(b) = {} THEN b + 1 ELSE Min(After(b))]
LinkedBackwards(n) ==
  LET chosen == Chosen(n)
      Before(b) == {c \in chosen : c < b}
  IN  [b \in Blocks |->
         IF b \notin chosen THEN table[b]
         ELSE IF Before(b) = {} THEN End ELSE Max(Before(b))]
Linked(n) ==
  LET chosen == Chosen(n)
      After(b) == {c \in chosen : c > b}
  IN  [b \in Blocks |->
         IF b \notin chosen THEN table[b]
         ELSE IF After(b) = {} THEN End ELSE Min(After(b))]

(* IFATremoveChain marks every block of the walk.                          *)
Removed(b) ==
  [c \in Blocks |-> IF c \in Walk(table, b) THEN Tombstone ELSE table[c]]
(* IFATcleanTombstones *)
Cleaned == [b \in Blocks |-> IF table[b] = Tombstone THEN Free ELSE table[b]]

-----------------------------------------------------------------------------
(* The directory.  Its header counts itself as an entry, so the last slot  *)
(* lies behind the buffer: it is used like the others and never written.   *)

Entry(name, first) == [name |-> name, first |-> first]
NoEntry == Entry("", Free)
Garbage == Entry("", Bad)  \* memory behind the buffer that looks used
Slots == 1 .. NumSlots
Kept == 1 .. NumSlots - 1

(* MFSearchEntry compares the whole name with the one stored.              *)
Matches(name) ==
  {s \in Slots : dir[s].name = name /\ dir[s].first \notin {Free, Tombstone}}
Found(name) == Matches(name) # {}
First(name) == dir[Min(Matches(name))].first

(* Slip: the entry goes into the last slot that is free.                   *)
WithEntryLast(d, name, first) ==
  LET open == {s \in Slots : d[s].first \in {Free, Tombstone}}
  IN  IF open = {} THEN d ELSE [d EXCEPT ![Max(open)] = Entry(name, first)]
(* mfsNewDirEntry; a full directory stays as it is.                        *)
WithEntry(d, name, first) ==
  LET open == {s \in Slots : d[s].first \in {Free, Tombstone}}
  IN  IF open = {} THEN d ELSE [d EXCEPT ![Min(open)] = Entry(name, first)]

(* What mkdir writes where the root is when it is given the root's name:   *)
(* memory as the heap hands it out, and of what looks free in it the first *)
(* two slots taken for "." and "..".  Whatever else it holds counts as one *)
(* entry of no name that anybody passes.                                   *)
NewDirs ==
  {LET new == WithEntry(WithEntry(d, ".", root), "..", root)
   IN  [s \in Kept |-> new[s]] : d \in [Slots -> {NoEntry, Garbage}]}

-----------------------------------------------------------------------------
(* Writing out. *)

Sector(b) == (b - 1) \div PerSector
LastSector == (NumBlocks - 2) \div PerSector

(* MFSsaveDir writes nothing once the root's chain is broken.              *)
SaveDir(t) == IF Intact(t, root) THEN <<<<"dir", 0>>>> ELSE <<>>
SaveSuper == <<<<"super", 0>>>>
(* IFATSave *)
SaveTable == [i \in 1 .. LastSector + 1 |-> <<"table", i - 1>>]

(* The disk takes the next sector.                                         *)
Write ==
  /\ writes # <<>>
  /\ LET kind == Head(writes)[1]
         sector == Head(writes)[2]
     IN  /\ IF kind = "newdir" THEN diskDir' \in NewDirs
            ELSE diskDir' = IF kind = "dir" THEN [s \in Kept |-> dir[s]] ELSE diskDir
         /\ diskTable' =
              [b \in Blocks |-> IF kind = "table" /\ Sector(b) = sector
                                THEN table[b] ELSE diskTable[b]]
         /\ diskRoot' = IF kind = "super" THEN root ELSE diskRoot
         /\ diskFree' = IF kind = "super" THEN free ELSE diskFree
  /\ writes' = Tail(writes)
  /\ UNCHANGED <<phase, memory, fd, ret, past>>

NoTable == [b \in Blocks |-> Free]
NoDir == [s \in Slots |-> NoEntry]

(* Nothing in memory outlives the power: there is no unmount.  The slot    *)
(* behind the buffer is another the next time.                             *)
LoseMemory ==
  /\ phase' = "off" /\ writes' = <<>> /\ fd' = Free /\ ret' = 0
  /\ table' = NoTable /\ root' = 0 /\ free' = 0 /\ dir' = NoDir
  /\ gone' = gone \cap Kept
  /\ UNCHANGED <<disk, loose, dotted>>
Reboot == phase # "off" /\ writes = <<>> /\ LoseMemory /\ UNCHANGED crashes
Crash ==
  /\ writes # <<>> /\ crashes < MaxCrashes
  /\ LoseMemory
  /\ crashes' = crashes + 1

-----------------------------------------------------------------------------
(* mfs_init_explorer on a volume that has a root.  What lies behind the    *)
(* directory's buffer is whatever the heap holds there.                    *)
MountOld ==
  /\ phase = "off" /\ diskRoot # 0
  /\ phase' = "mounted"
  /\ table' = diskTable /\ root' = diskRoot /\ free' = diskFree
  /\ \E behind \in {NoEntry, Garbage} :
       dir' = [s \in Slots |-> IF s \in Kept THEN diskDir[s] ELSE behind]
  /\ ret' = 0
  /\ UNCHANGED <<disk, writes, fd, past>>

(* makeMFSroot with a table just loaded.                                   *)
FreshRoot == Min(Ones(diskTable))
FreshTable ==
  LET ones == Ones(diskTable)
      chosen == {b \in ones : Cardinality({c \in ones : c < b}) < DirBlocks}
      After(b) == {c \in chosen : c > b}
  IN  [b \in Blocks |->
         IF b \notin chosen THEN diskTable[b]
         ELSE IF After(b) = {} THEN End ELSE Min(After(b))]
FreshDir(behind) ==
  [s \in Slots |-> IF s = 1 THEN Entry(".", FreshRoot)
                   ELSE IF s \in Kept THEN NoEntry ELSE behind]

(* Slips: the superblock goes out before the table it depends on; the      *)
(* table is not written.                                                   *)
MountWritesSuperFirst == <<<<"dir", 0>>>> \o SaveSuper \o SaveTable
MountWritesNoTable == <<<<"dir", 0>>>> \o SaveSuper
MountWrites == <<<<"dir", 0>>>> \o SaveTable \o SaveSuper

(* mfs_init_explorer on a volume that has none.                            *)
MountNew ==
  /\ phase = "off" /\ diskRoot = 0
  /\ DirBlocks <= Cardinality(Ones(diskTable))
  /\ phase' = "mounted"
  /\ table' = FreshTable /\ root' = FreshRoot /\ free' = diskFree - DirBlocks
  /\ \E behind \in {NoEntry, Garbage} : dir' = FreshDir(behind)
  /\ writes' = MountWrites
  /\ ret' = 0
  /\ UNCHANGED <<disk, fd, past>>

(* The same without room for a root: the superblock is freed, written out  *)
(* and used nevertheless, and the directory is never loaded.  What the     *)
(* explorer does from there on is not modelled.                            *)
MountFails ==
  /\ phase = "off" /\ diskRoot = 0
  /\ DirBlocks > Cardinality(Ones(diskTable))
  /\ phase' = "broken"
  /\ table' = diskTable /\ root' = 0 /\ free' = diskFree
  /\ writes' = SaveTable \o SaveSuper
  /\ ret' = 0
  /\ UNCHANGED <<dir, disk, fd, past>>

-----------------------------------------------------------------------------
Ready == phase = "mounted" /\ writes = <<>>

Fails ==
  /\ ret' = -1
  /\ UNCHANGED <<phase, memory, disk, writes, fd, past>>

(* Allocation and entry, as MFScreateEntry does them in memory.            *)
Create(name, size) ==
  /\ table' = Linked(size)
  /\ free' = free - size
  /\ dir' = WithEntry(dir, Stored[name], Min(Chosen(size)))
  /\ UNCHANGED root

Creatable(name, size) == ~Found(name) /\ size > 0 /\ Enough(size)

(* Slip: the table is not written.                                         *)
TouchUnsaved(name, size) ==
  /\ Ready
  /\ IF Creatable(name, size)
     THEN /\ Create(name, size)
          /\ writes' = SaveDir(table')
          /\ ret' = 0
          /\ UNCHANGED <<phase, disk, fd, past>>
     ELSE Fails
(* mfs_touch.  The superblock is not written.                              *)
Touch(name, size) ==
  /\ Ready
  /\ IF Creatable(name, size)
     THEN /\ Create(name, size)
          /\ writes' = SaveDir(table') \o SaveTable
          /\ ret' = 0
          /\ UNCHANGED <<phase, disk, fd, past>>
     ELSE Fails

(* mfs_mkdir once the entry is there.  mfsMkDir has no return statement,   *)
(* so whether the superblock is written is anybody's guess.                *)
MkdirEnds(saved) ==
  \E r \in {-1, 0, 1} :
    /\ ret' = r
    /\ writes' = saved \o SaveTable
                   \o IF r = 0 THEN SaveSuper \o SaveTable ELSE <<>>

(* mfs_mkdir; that the name is taken, or that nothing could be allocated,  *)
(* only shows in whether an entry is found afterwards.  An entry of that   *)
(* name gets a new directory written over what it had: the root itself, if *)
(* the name is its own, on the disk but not in memory.                     *)
(* Slip: over the root whatever the name.                                  *)
OverwritingAny(name) ==
  IF Intact(table, root) THEN <<<<"newdir", 0>>>> ELSE <<>>
Overwriting(name) ==
  IF First(name) = root /\ Intact(table, root) THEN <<<<"newdir", 0>>>> ELSE <<>>
Mkdir(name) ==
  /\ Ready
  /\ \/ /\ Found(name)
        /\ MkdirEnds(Overwriting(name))
        /\ dotted' = (dotted \/ name = ".")
        /\ UNCHANGED <<memory, loose>>
     \/ /\ Creatable(name, DirBlocks)
        /\ Create(name, DirBlocks)
        /\ IF Found(name)'
           THEN MkdirEnds(SaveDir(table')) /\ UNCHANGED loose
           ELSE ret' = -1 /\ writes' = SaveDir(table') /\ loose' = TRUE
        /\ UNCHANGED dotted
     \/ /\ ~Found(name) /\ ~Creatable(name, DirBlocks)
        /\ ret' = -1
        /\ UNCHANGED <<memory, writes, loose, dotted>>
  /\ UNCHANGED <<phase, disk, fd, crashes, gone>>

(* mfs_remove.  The entry stays.                                           *)
RemoveFile(name) ==
  /\ Ready
  /\ IF Found(name)
     THEN /\ table' = Removed(First(name))
          /\ gone' = gone \cup {Min(Matches(name))}
          /\ dotted' = (dotted \/ name = ".")
          /\ writes' = SaveDir(table') \o SaveTable
          /\ ret' = 0
          /\ UNCHANGED <<phase, root, free, dir, disk, fd, crashes, loose>>
     ELSE Fails

(* mfs_clean *)
Clean ==
  /\ Ready /\ Cleaning
  /\ free + Cardinality(Tombs(table)) <= MaxFree
  /\ table' = Cleaned
  /\ free' = free + Cardinality(Tombs(table))
  /\ writes' = SaveTable \o SaveSuper
  /\ ret' = 0 /\ loose' = TRUE
  /\ UNCHANGED <<phase, root, dir, disk, fd, crashes, dotted, gone>>

(* mfs_chmod, mfs_chstat and mfs_chtime write the directory back; what     *)
(* they change in it is left out.                                          *)
Chmod ==
  /\ Ready
  /\ writes' = SaveDir(table)
  /\ ret' = 0
  /\ UNCHANGED <<phase, memory, disk, fd, past>>

(* mfs_new_fd notes the entry's first block.  It does not check that there *)
(* is an entry; callers that pass a name of none are left out.             *)
Open(name) ==
  /\ Ready /\ Found(name)
  /\ fd' = First(name)
  /\ ret' = 0
  /\ UNCHANGED <<phase, memory, disk, writes, past>>

(* Slip: the count of free blocks falls even if there was none.            *)
ExtendCounting ==
  /\ Ready /\ fd # Free
  /\ free' = free - 1
  /\ table' = IF Enough(1) THEN Linked(1) ELSE table
  /\ writes' = IF Intact(table', fd) THEN SaveTable ELSE <<>>
  /\ ret' = 0
  /\ UNCHANGED <<phase, root, dir, disk, fd, past>>
(* mfs_fd_extend allocates a block, walks to the end of the file's chain   *)
(* and then writes the entry of the END it has arrived at, which           *)
(* IFATwriteEntry refuses.  The table is written out if the walk ended     *)
(* well.  Reading and writing the directory back moves no sector: the size *)
(* is passed in blocks where bytes are expected.                           *)
Extend ==
  /\ Ready /\ fd # Free
  /\ IF Enough(1) THEN table' = Linked(1) /\ free' = free - 1
                  ELSE UNCHANGED <<table, free>>
  /\ writes' = IF Intact(table', fd) THEN SaveTable ELSE <<>>
  /\ ret' = 0
  /\ UNCHANGED <<phase, root, dir, disk, fd, past>>

-----------------------------------------------------------------------------
(* MBRformatMFS.  The block that is never usable counts as free.           *)
Init ==
  /\ phase = "off" /\ writes = <<>> /\ fd = Free /\ ret = 0
  /\ crashes = 0 /\ loose = FALSE /\ dotted = FALSE /\ gone = {}
  /\ table = NoTable /\ root = 0 /\ free = 0 /\ dir = NoDir
  /\ diskTable = NoTable /\ diskRoot = 0 /\ diskFree = NumBlocks
  /\ diskDir = [s \in Kept |-> NoEntry]

Next ==
  \/ Write \/ Reboot \/ Crash
  \/ MountOld \/ MountNew \/ MountFails
  \/ \E name \in Names, size \in Sizes : Touch(name, size)
  \/ \E name \in Names : Mkdir(name) \/ Open(name)
  \/ \E name \in Removable : RemoveFile(name)
  \/ Clean \/ Chmod \/ Extend

Spec == Init /\ [][Next]_vars

-----------------------------------------------------------------------------
Values == Blocks \cup {Free, Tombstone, Bad, End}
Entries(slots) == [slots -> [name : STRING, first : Values]]

TypeOK ==
  /\ phase \in {"off", "mounted", "broken"}
  /\ table \in [Blocks -> Values] /\ diskTable \in [Blocks -> Values]
  /\ root \in Blocks \cup {0} /\ diskRoot \in Blocks \cup {0}
  /\ free \in Int /\ diskFree \in Int
  /\ DOMAIN dir = Slots /\ DOMAIN diskDir = Kept
  /\ \A s \in Slots : dir[s].first \in Values
  /\ \A s \in Kept : diskDir[s].first \in Values
  /\ writes \in Seq({"dir", "newdir", "table", "super"} \X Nat)
  /\ fd \in Values
  /\ ret \in {-1, 0, 1} /\ crashes \in 0 .. MaxCrashes
  /\ loose \in BOOLEAN /\ dotted \in BOOLEAN /\ gone \subseteq Slots

(* A link leads to a higher block, in memory and on the disk, even when    *)
(* only some sectors of the table were written before a crash.  So no loop *)
(* over a chain (read, write, remove, append) runs forever.                *)
Ascends(t) == \A b \in Blocks : t[b] \in Blocks => t[b] > b
LinksAscend == Ascends(table) /\ Ascends(diskTable)

(* Once the superblock on the disk names a root, the root's chain and its  *)
(* first entry are on the disk, whatever moment the machine stops at: the  *)
(* volume can be mounted.  It holds until somebody removes "." or makes a  *)
(* directory of that name: nothing keeps a caller from either, and either  *)
(* breaks the root.                                                        *)
RootKept ==
  diskRoot # 0 /\ ~dotted =>
    /\ Intact(diskTable, diskRoot)
    /\ Cardinality(Walk(diskTable, diskRoot)) = DirBlocks
    /\ diskDir[1] = Entry(".", diskRoot)

(* Listing stops at the first entry that is free (mfs_ls_next): until the  *)
(* root was written over, no entry that can be found lies behind one.      *)
ListedAll ==
  ~dotted => \A s \in Slots : \A t \in 1 .. s - 1 :
    dir[s].name \in {Stored[n] : n \in Names} => dir[t].first # Free

(* The files of a directory, and what is to be said of some of them.       *)
Files(d) == {s \in DOMAIN d : d[s].first \in Blocks}
Sound(d, t, slots) ==
  /\ \A s \in slots : Intact(t, d[s].first)
  /\ \A s \in slots : \A u \in slots \ {s} :
       Walk(t, d[s].first) \cap Walk(t, d[u].first) = {}

(* Until the machine first stops amid writes, the chain of every file that *)
(* nobody removed is whole and no block belongs to two of them, across     *)
(* orderly reboots and removals, as long as nobody cleans, mkdir keeps     *)
(* what it made, and "." is left alone.                                    *)
NoCrossLink ==
  crashes = 0 /\ ~loose /\ ~dotted => Sound(dir, table, Files(dir) \ gone)

(* Until then FreeBlocks never tells less than there is.                   *)
FreeNeverUnder ==
  phase = "mounted" /\ crashes = 0 => free > Cardinality(Ones(table))

(* Between operations, of the files on the disk that nobody removed all    *)
(* are whole and apart but for one a crash.  Which one that is may change: *)
(* the file a crash caught names blocks the table calls free, another gets *)
(* them, and when the first is removed the chain of the other goes with    *)
(* it, which then is what the crash cost.  It says nothing of contents: to *)
(* write to the first writes into the other.                               *)
OneLossPerCrash ==
  writes = <<>> /\ ~loose /\ ~dotted =>
    \E lost \in SUBSET Files(diskDir) :
      /\ Cardinality(lost) <= crashes
      /\ Sound(diskDir, diskTable, Files(diskDir) \ (gone \cup lost))

(* syscalls.md on extend: "allocates and appends a new block to the file   *)
(* chain".                                                                 *)
ExtendAppends ==
  [][Extend /\ table' # table /\ Intact(table, fd) =>
       Cardinality(Walk(table', fd)) = Cardinality(Walk(table, fd)) + 1]_vars
=============================================================================
