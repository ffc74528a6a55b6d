# Verification of the Munix kernel

Munix is a 32-bit x86 hobby kernel: multiboot start, a buddy heap, a page bitmap, tasks that share one
address space through segments, message passing, a small block file system (MunixFS), a polled ATA
driver, a kernel shell and a little shell language. All of it is under
`src/MunixOs/Munix/kernel/`, but for the C library `libcs2` in `src/MunixOs/Munix/libs/libcs2/src/src/`;
paths below are relative to these. What the system calls promise
to programs is written in `src/syscalls.md` beside `isr.c`, called `syscalls.md` here.

This directory holds TLA+ modules that model the kernel's core, TLC configurations that check them on
small instances, and TLAPS proofs. `PROJECT.json` lists components, runs, theorems and hazards, and
says for each definition which lines of the source it stands for.

1. [Inventory](#1-inventory)
2. [Modules](#2-modules)
3. [Model and code](#3-model-and-code)
4. [Runs](#4-runs)
5. [Fairness](#5-fairness)
6. [Proofs](#6-proofs)
7. [What the runs found](#7-what-the-runs-found)
8. [Not modelled](#8-not-modelled)
9. [Plan](#9-plan)
10. [Running it](#10-running-it)

## 1. Inventory

### Components, their state and their operations

| component | code | state | operations |
|---|---|---|---|
| kernel heap | `src/buddy_alloc.c` | a free list per order, a header in front of every block | `buddy_init`, `buddy_malloc`, `buddy_free` |
| keyboard buffer | `handlers/kb_handler.c` | ring of 512 keys, head, tail, pending 0xE0 prefix | `ps2_get_scancode`/`buffer_push` in IRQ1, `buffer_pop` in the shell |
| MunixFS | `fs/ifat.c`, `fs/mfs.c`, `fs/fs.c` | allocation table, root directory and superblock, each in memory and on the disk; open descriptors | mount, `mfs_touch`, `mfs_mkdir`, `mfs_remove`, `mfs_clean`, `mfs_chmod` and its kin, `mfs_new_fd`, `mfs_fd_extend`, `mfs_ls`, `mfs_cd`, read and write |
| page bitmap | `memory/bitmap.c` | a bit per page, where the last search ended | `bitmap_malloc`, `bitmap_alloc`, `bitmap_frees`, `bitmap_scan_mmap` |
| tasks, system calls | `tasks/tasks.c`, `src/isr.c` | list of tasks with pid, status, memory, mailbox, regions, descriptors; `g_pid`; the task that runs | spawn, exit, tkill, wait, tawake, ipc_send, ipc_receive, register_mem, release_mem, openg, open, close, the scheduler |
| file descriptors | `fs/fsd.c` | reference counts of the global descriptors | `createFd`, `removeFd`, `getFd` |
| VFS | `vfs/vfs.c` | the one explorer of the kernel | path resolution in front of the explorer's operations (`ucd`, `ufd`, `urm`, `utouch`, `umkdir`), `fsck` |
| FAT12 | `fs/fat12.c` | table of 12-bit entries, root directory, the caller's directory buffer | cd, mkdir, touch, remove, read, list |
| mbash | `mbash/*.c` | tokens, syntax tree; variables, and strings with reference counts | lexer, parser, evaluator |
| disks, PCI | `disk/*.c`, `pci/pci.c` | registered units, the drive's registers | the sweep for controllers, LBA28/LBA48 transfers cut into commands, polled waits |
| partitions | `partitions/*.c` | list of partitions of all disks | scan, remount, read, write |
| shell | `src/shell.c` | the line typed, the context of mbash | nine commands |
| keyboard translation | `keyboard/keyboard.c` | shift, caps lock, AltGr | `kgetchar` |
| screen | `drivers/vga.c`, `printf.c` of libcs2 | cells, cursor | print, scroll, clear |
| strings | `string.c` of libcs2 | | the usual functions on memory and strings |
| threads | `threads/threads.c` | table of processes, the current one | spawn, revive, kill, wait, exit, awaken, `scheduler` |
| paging | `paging/paging32.c` | directory and tables in pages of the bitmap | `map_page32`, `identity_mapping32` |
| memory map | `multiboot/multiboot_mmap.c`, `memory/bitmap.c` | | what of the loader's map is marked in the bitmap |
| static arena | `src/sysarena.c` | a table of arenas | allocate, free, merge |
| handles, users | `src/handler.c`, `usr/usr.c` | a chain of free handles, a table of identities | take, give back |
| archives | `tar/tar.c` | | list, find, make |
| minim, decimals | `minim/minim.c`, `math/fdp.c` | a stack | a calculator on a stack; decimal floating point |
| set-up | `init/`, `kernel.c`, `src/{gdt,idt,pic,tss,timer}.c`, `firmware/` | hardware tables | done once at start |

### How they interact

- Everything takes memory from the **heap** through the function pointers of `src/memory.c`; no
  interrupt handler does, so calls of the heap do not overlap.
- **Programs** reach the kernel through one interrupt gate (`src/isr.c`). The dispatcher stops the task
  clock, carries the call out and calls `kernel_scheduler`, so one system call is atomic with respect to
  the others. Spawn, register_mem and the mailboxes take pages from the **bitmap**; kill and release_mem
  give them back.
- **IRQ1** shares the keyboard ring with the polling shell and no lock: the only real concurrency of the
  kernel.
- **open** goes through the VFS to the explorer, and from there to the partition and
  the disk, sector by sector, each transfer done when the call returns.
- The **explorer** keeps the table, the directory and the superblock in memory and writes them back
  operation by operation, some of them and not others. There is no unmount: what is not written at the
  moment the power goes is gone.

### What is hard, and what makes each component correct

- **Heap.** Long sequences of allocations and frees; splitting and merging over several orders. The buddy
  of a block is computed from its absolute address while everything else is relative to the heap. Correct
  means: blocks never overlap, no byte is lost, all that can merge merges, every block handed out can be
  freed, callers get as many bytes as they asked for.
- **Keyboard.** An interrupt between any two memory accesses of `buffer_pop`; a full ring. Correct means:
  a first-in first-out queue that drops only when full, and every key is read in the end.
- **MunixFS.** A crash between any two sectors written, including within the table; partial failure (no
  free block, full directory); entries and descriptors that name chains since removed. Correct means:
  chains end, no block belongs to two files, the root survives until somebody removes "." or makes a
  directory of it, each crash costs at most one file, listing finds what searching finds.
- **Page bitmap.** The search steps over words and cut-off runs, and ends at one index only. Correct
  means: no page is given out twice or lost, a run has the length asked for, the search ends.
- **Tasks.** Freed tasks stay in the list; pids start again from 0; whatever a call did to the current
  task, the scheduler makes it ready afterwards. Correct means: live pids differ, a page belongs to one
  task, messages are not lost, descriptors are counted, everybody gets a turn, a task that ended does not
  run.
- **mbash.** Strings are counted by hand across assignments, calls and loops, and memory that is not
  cleared is read as values. Correct means: a count is the number of holders, and nobody uses a string
  that was given back; an expression is read as it was written and means what it says.
- **FAT12.** Entries of one and a half bytes share a byte; slots are reused. Correct means: a change of one
  chain leaves the others, and no file lies where no reader looks.
- **Disks and partitions.** The bounds of a partition, a list that is written over when a disk is mounted
  again, counts and sector numbers cut to the width of registers. Correct means: a partition's transfer stays
  inside it, as far as the numbers reach.
- **Threads.** A process that ends or stops itself in the call it makes. Correct means: the current process
  is one that may run.
- **Paging.** Tables lie in pages that others ask for too. Correct means: what is mapped stays mapped.
- **Static arena.** Entries move while callers hold addresses. Correct means: what is held stays held.
- **Line and screen.** One loop edits the line and the screen by itself, keys and output arrive in any
  order. Correct means: the screen shows the line.

`PROJECT.json` lists each of these as a hazard, at the line where it bites, with the properties that
would catch it; the hazards without one say why. Slips that show in one call, without a history,
are recorded as assumptions of the modules (section 4) and in section 7.

## 2. Modules

    RegionAlloc   <== BuddyAlloc  <- MCBuddyAlloc          A <== B  B implements A (INSTANCE)
    RegionAlloc   <== PageBitmap                           A <-  B  B extends A
    KbFifo        <== KbRing
                      MfsVolume   <- MCMfsVolume
                      Tasks       <- MCTasks
    MbashLexer <- MbashParser <- MbashValues <- MbashEval <- Shell <- MCShell <- MCServices
    LibStrings <- Fat12, Console, KernelTables, Tar, Vfs, Minim               <- MCServices
    Bits       <- Fat12, Console, Disks
                  Disks       <- MCDisks                                      <- MCServices
                  SysArena, Threads, Paging, MemoryMap, Fdp                   <- MCServices

| module | what it is |
|---|---|
| `RegionAlloc` | abstract: an allocator hands out regions of the asked size that nobody holds a part of |
| `BuddyAlloc` | the heap of `src/buddy_alloc.c`, an iteration of a loop per step |
| `KbFifo` | abstract: a bounded first-in first-out queue |
| `KbRing` | the keyboard ring, a memory access of the consumer per step |
| `MfsVolume` | a MunixFS volume in memory and on the disk, a sector per step |
| `PageBitmap` | the bitmap of `memory/bitmap.c`, an iteration of the search per step |
| `Tasks` | tasks, pages, mailboxes and descriptors, a system call per step |
| `MbashLexer`, `MbashParser` | from a line to tokens to a tree |
| `MbashValues`, `MbashEval` | counted strings and expressions; statements and the shell's commands |
| `Shell` | lines entered one after the other |
| `Console` | keys to characters, the line's editing, the screen |
| `LibStrings` | the C library's strings, memory and numbers |
| `Bits` | the operators `&` and `\|` of C, on 16 bits |
| `Disks` | PCI sweep, registration, partitions, transfers |
| `Fat12` | the FAT12 driver on one partition |
| `SysArena`, `Threads`, `Paging` | the arena allocator, the earlier scheduler, page tables |
| `KernelTables` | handles, identities, descriptors |
| `Vfs`, `Tar`, `Minim`, `Fdp`, `MemoryMap` | the operations of those parts as operators |
| `MCServices` | the parts with a state that do not meet, one instance of each |
| `BuddyAllocProofs`, `KbRingProofs`, `MfsVolumeProofs`, `PageBitmapProofs`, `TasksProofs` | theorems about the module of that name |
| `ServicesProofs` | theorems about `Threads`, `SysArena` and `Paging` |
| `DriverProofs` | theorems about `Disks`, `Fat12` and `Console` |
| `ProofLemmas` | facts the proofs share: least and greatest elements, lists, multiples, histories of loops |
| `MC*` | values of constants that a `.cfg` cannot write |

The heap and the page bitmap promise the same thing, so both are shown to implement the same abstract
allocator. `Tasks` does not instantiate `PageBitmap`: it lets `bitmap_malloc` answer with *any* free run
or none, which includes every answer the search of `PageBitmap` gives (its refinement says they are free
runs of the asked length).

Parts that share no state are not composed: a behaviour of `MCServices` is one of the seven units of
`Units`, chosen at its start, and the others rest. This keeps the number of runs small and is no weaker
than a run for each, since every unit starts from all of its own first states.

Definitions under a comment "Slip:" are mutated forms of the definition after them: the kind of
mistake each property would notice. No specification uses them.

## 3. Model and code

**BuddyAlloc.** `freeList[o]` is `free_list[o]` with its head first; `header` holds the order written in
the header of every block off the lists, `asked` the size of the blocks callers hold. `MallocEnter` is
`buddy_malloc` up to its loop, `Split` one iteration, `MallocReturn` the end; `FreeEnter`, `Coalesce`,
`FreeReturn` likewise for `buddy_free`, and `FreeRefused` its error exits. `Fitting` computes as the code
does, the header counted twice, modulo the width of a `size_t` (`WordSize`, smaller in the runs).
`Buddy` is `getBuddyAddr`: the absolute address exclusive-or the block size. Freeing a pointer twice, or
one that was never handed out, is outside the model.

**KbRing.** `InterruptKey` and `InterruptPrefix` are `ps2_get_scancode` with `buffer_push`, one step each,
as an interrupt gate keeps interrupts out. `buffer_pop` is `PollEmpty`, `PollKey`, `LoadKey` and
`AdvanceTail`, between any two of which the interrupt may come. `stored` and `taken` are history.

**MfsVolume.** `table`, `root`, `free`, `dir` are the explorer's copies; `diskTable`, `diskRoot`,
`diskFree`, `diskDir` what is on the disk. An operation changes the copies and puts the sectors it writes
into `writes`, in the code's order; `Write` moves one, and `Crash` may come before each. A block number
is in `1 .. NumBlocks - 1`, as `IFATreadEntry` accepts; table entries are a block, `Free`, `Tombstone`,
`Bad` or `End`. The last directory slot lies behind the buffer (the header counts itself as an entry): it
is used like the others, holds leftovers of the heap after a mount, and is never written. `mfsMkDir` has
no return statement, so `MkdirEnds` chooses what it answers. It does not look at whether an entry was made
(`mfs.c:172` is commented out) and writes a new directory over the first block of whatever has the name: for
"." that is the root (`Overwriting`), and what is written there is memory as the heap hands it out, with two
slots filled (`NewDirs`). Over another file it is contents, which are left out. The history variables:
`crashes` counts stops amid writes; `loose` records that somebody cleaned or that `mkdir` lost the entry it had
made; `dotted` that somebody removed "." or made a directory of it; `gone` are the slots whose file somebody
removed. A file that nobody removed counts as a file whatever became of its chain.

**PageBitmap.** `used` are the pages whose bit is set, `last` is `last_allocated`, `i` and `want` the
locals of `bitmap_malloc`. `SkipWord`, `SkipPage`, `SkipRun`, `Find` and `Exhausted` are what an
iteration of its loop can do; each of the skips includes the step the loop itself adds.

**Tasks.** `task[k]` is the k-th task made; the list grows at its front and never shrinks. `Switch` is
`kernel_scheduler`, part of every action, as the dispatcher calls it at the end of every system call.
Addresses are page numbers, and page 0 doubles as `NULL`. `mail` counts messages per page, since a task
without a mailbox uses the one at address 0. `NewTask` leaves the regions as the heap held them
(`Leftovers`), because `spawnProccess` does not clear them. The history variable `hit` records what went
wrong so far, so that properties can be stated up to that point: `"stale"`, that release_mem gave back
pages the task does not have, because it had released them before or because the region is a leftover
that register_mem never filled in; `"oom"`, that spawn found no memory; `"dead"`, that a freed task was
taken for a live one; `freed`
and `held` remember who was killed and who has which page. What happens once a freed task runs is the
end of the model (`Lost`): its segment has length 0 and the machine traps for ever.

**Mbash.** `Lexe` is `lexen` on a line; `Parse` is the recursive descent of `parser.c`, a `parse_` function
per operator, which answers a node or `Null` and where it left `token_index`. That memory is there is
taken for granted, so what a failing parse leaks is not modelled. In `MbashValues` the context holds the
variables, and `objs` the strings in memory with their count (`refc`); `lost` counts references the code
drops without giving them back, and is the model's own. What the program reads without having written it is
chosen once per behaviour (`Wilds`), and what cannot be continued is put into `mishaps` (`"dangling"`,
`"wild"`, `"null"`). A statement of `MbashEval` is the `eval` function of its node, the handlers of
`shell.c` included.

**Shell, Console.** `Enter` is the loop's branch for a newline, from `lexer_init` to `shell_update`. `Console`
is the same loop seen from the keys: `Kgetchar` and `Modifiers` are `kgetchar`, `Typed`, `Backspace` and
`EnterKey` the branches of the loop, `Putc` and `Plain` `kprintf_putc`. `lost` says from when the screen
differs from the line: the code does not scroll when the echo passes the last cell.

**Disks.** `units` is `system_disks`, `partitions` the manager's list; `SweepPCI` is the boot up to the
registration, `Scan` what follows. `Touched` are the sectors a transfer reaches once its count and its
number are cut to what goes into the registers: a number that does not fit leads elsewhere (`Folded`), perhaps
to the first sector, which then holds another table. `had` is history, the first sectors each drive has had.
`stopped` ends a behaviour that does not come back or reads where nothing is.

**Fat12.** `fat` are the bytes of the table, so that neighbours share one as they do in the code; `root` is
the directory on the disk, `cwd` the buffer of the caller. The slips of the driver that end what can be
said (no `return`, a double free, a loop whose variable is shadowed, a name longer than its buffer: `Overrun`)
end the behaviour (`mishap`). What a function without `return` answers is undefined, so `NoBpb` may happen at a
call or not.

**SysArena, Threads, Paging.** An action per call. `given` counts who holds an address. `Yield` is
`scheduler` at the end of a call, from any entry while there is no current process; a pid outside the table, negative
ones too, passes the check of `kill` and reaches nothing the model has. `mmu` holds the pages'
contents, since tables lie in pages, and `Used` is another who takes one and writes it. No page and page 0
are the same answer of `bitmap_alloc`, so a table may be at address 0. The directory is kept apart from the pages.

**Operators.** `KernelTables`, `Vfs`, `Tar`, `Minim`, `Fdp`, `MemoryMap` and `LibStrings` have no variables: a
function of the code is an operator that answers the state after it, and histories are folds over calls
in an `ASSUME`.

## 4. Runs

Twelve runs: eight that pass, four that show a disagreement (section 7).

| run | instance | states | shows |
|---|---|---|---|
| `heap_aligned` | 128 bytes at 128, blocks of 2 to 128, six sizes | 11.7 thousand | on a heap aligned to its size: disjoint blocks, no byte lost, all merged, every free accepted, the heap whole again at the end; implements `RegionAlloc` |
| `heap_unaligned` | 64 bytes at 80, one size that wraps | 12.6 thousand | aligned to a page only: blocks still disjoint, no byte lost |
| `heap_free_refused` | 128 bytes at 96 | | violates `NothingStranded` |
| `keyboard` | 4 slots, 2 keys and the prefix, 6 keys stored | 33 thousand | first-in first-out under every interleaving; nothing lost; every key read |
| `mfs` | 5 usable blocks in 2 table sectors, 4 slots, "." and 2 names of which one is cut, sizes 0 to 2, two crashes | 5.2 million | chains ascend, listing is complete, the root stays until "." is removed or made a directory of; no cross-link and no underestimate before a crash; one file lost per crash |
| `mfs_extend` | 6 usable blocks, no crash | | violates `ExtendAppends` |
| `pages` | 8 pages in two words of two bytes, one reserved, runs of 1 to 3 | 37 thousand | bits account for every page; implements `RegionAlloc`; a search for one page ends while one is free |
| `pages_hang` | the same, none reserved | | violates `SearchEnds` |
| `tasks` | up to 4 tasks, 3 pids, mailboxes of 1, two descriptors each | 28 thousand | live pids differ, descriptors are counted, everybody gets a turn |
| `task_memory` | up to 3 tasks, 7 pages, regions with leftovers | 1.5 million | no page has two owners, no message is taken by another |
| `task_exit` | 8 pages, up to 3 tasks | | violates `FreedNeverRuns` |
| `services` | one small instance of each unit, below | 155 thousand | strings counted exactly and none dangling, up to the shell's first mishap; what is written through a partition is a sector that the drive's own table put there, or where the cut number of one leads; in FAT12, up to the driver's first mishap, no file behind the end of the directory and no link changed but of the neighbour that shares a byte; held arenas kept; the current process runs; the screen shows the line until its last cell is reached; translations through tables of their own kept |

**Why these bounds are enough to be of use.**

- *Heap.* Six or seven orders let one request split and one free merge over the whole range; 128 bytes
  hold several small blocks at once. 80 and 96 are multiples of the smallest blocks but not of the heap's
  size: this is `_kernel_heap`, which `linker.ld` aligns to a page while the heap is far longer.
- *Keyboard.* Three keys fill four slots and six keys take both indices round. Three steps of
  `buffer_pop` against one of the handler do not depend on the number of slots, and the proof covers
  every number.
- *MunixFS.* A root of two blocks leaves room for one to three files; the table has two sectors, so that a
  chain can have links in both and a crash can come between them. The directory fills up (4 slots, the
  last of them behind the buffer). Two crashes show what the damage of the first costs after the
  second. `MaxFree` bounds `FreeBlocks`, which `clean` after a crash can only push up. `DotBound`
  (`MCMfsVolume`) keeps what becomes of "." apart from the rest: where it is removed or made a directory of nobody crashes,
  cleans or removes another file; the theorems have no such bound.
- *Pages.* Words and bytes are smaller than in the code, so that eight pages hold two whole words; a run
  of three is cut by the end of the bitmap and by pages in use, and the search passes its start. A request
  is at most the machine (assumption `PageConstants`).
- *Tasks.* Three pids and four tasks make `g_pid` start again from 0. `tasks` has three pages, little
  memory on purpose: spawn fails there, and tasks share the mailbox at address 0. `task_memory` has enough
  for three tasks with a region each, one of its leftovers lies where the second task's memory comes to
  lie, and it stops after the first mishap (`MaxMishaps = 0`), since its
  properties are stated up to there; `MaxTasks`, `MaxRefs` bound the counters. `PageSize` keeps its
  value, as the code divides lengths in pages by it.

- *Services.* Shell: 18 lines that share variables, strings, calls and mistakes, in any order, up to one
  string at a time between lines (`MaxObjs`) and no lost one. FAT12: four clusters, odd and even, with chains as the
  driver and as another system lays them out; three names of which one is too long, three directories, a volume
  of a lone free cluster. Disks: two drives of which one takes 48-bit commands, all first sectors of three; a bit
  of a count, two of a call and two of a sector's number, so that counts wrap at two and at four, and the last two
  sectors of a partition come out as the first two of the drive. Arena: four entries over six bytes. Threads: three
  processes. Console: 3 by 3 cells, a prompt of one character and a line of five, so that a line takes two
  rows, scrolls and is rubbed out over a row. Paging: three pages, two indices in each table.

Every operation of a module fires in a run that passes; deadlock is checked everywhere but in `services`,
where a mishap ends a behaviour.

**Assumptions as checks.** TLC evaluates the `ASSUME`s of the modules `services` extends. They compare
algorithms with what they should compute, for all small inputs, or record where they do not:

| assumption | says |
|---|---|
| `ExpressionsReadBack`, `ExpressionsMeanThat` | an expression of three operators is read as it was written, and means two's complement arithmetic |
| `LoopsOfTheGuide`, `LoopsRun` | of the two loops of `documentation/es/shell.md` the do is read and the for is not; what loops print |
| `TreesGivenBack` | `parser_free_ast` gives back every block of a tree that was parsed |
| `MemoryCopied`, `StringsJoined`, `NumbersReadBack` | moves of overlapping ranges, joined strings, digits |
| `RegistersRoundTrip` | registers and sector numbers are taken apart into what they were made of |
| `HandlesShared`, `DescriptorsCounted`, `IdentitiesKept` | over all histories of six calls: no handle is lost or given twice, references are counted, identities stay |
| `ArchivesListed`, `ArchiveFits`, `NumbersShifted` | every file of an archive is found; nothing is written behind an archive; its numbers come out an eighth |
| `NothingReached` | no call of the VFS reaches a file |
| `MapMarked`, `PartsForgotten`, `BeyondTakenForLow` | what of a memory map is marked, and two kinds of sections that are not |
| `FormulasPrinted`, `FormulasEnd` | the calculator prints what a formula means |
| `ProductsExact`, `OrdersUndone`, `SumsMisread`, `QuotientsWhole` | products of decimals are exact; sums and quotients are not |

## 5. Fairness

- `KbRing!FairSpec`: `WF_vars(Poll)`. The shell polls the buffer in `while (1)` (`src/shell.c`), and an
  interrupt handler returns. Nobody is made to type.
- `PageBitmap!FairSpec`: `WF_vars(Search)`. The search is a loop in a single call that nothing interrupts
  for good; nobody is made to start one.
- `Tasks!FairSpec`: `WF_vars(Next)`. This is a demand on the tasks: each keeps making system calls. The
  kernel does not enforce it, since nothing counts `clock_task.current_count` up (`src/isr.c:62`) and the
  timer therefore never switches tasks. `EveryTaskRuns` says what holds between tasks that cooperate.
- `BuddyAlloc`, `MfsVolume` and the units of `MCServices` state no liveness. That their loops end is the measure of the loops (an
  order that goes to a bound) and, for chains, `LinksAscend`.

## 6. Proofs

TLAPS checks the following for every value of the constants that satisfies the modules' assumptions.

| theorem | says |
|---|---|
| `BuddyAllocProofs!TypeCorrect` | `Spec => []TypeOK` |
| `BuddyAllocProofs!BlocksNeverOverlap` | `Spec => []NoOverlap`, wherever the heap starts |
| `BuddyAllocProofs!Refinement` | `NoWrap => (Spec => ImplementsRegionAlloc)` |
| `BuddyAllocProofs!NoByteLost` | `Spec => []Coverage`, wherever the heap starts |
| `BuddyAllocProofs!FreesAccepted`, `HalvesMerged`, `AllGivenBack` | `Aligned =>` the heap keeps `NothingStranded`, `FullyMerged`, `HeapRestored` |
| `KbRingProofs!TypeCorrect`, `NoOverwrite`, `KeysConserved` | `TypeOK`, `LoadedKeyIsOldest`, `NothingLost` |
| `KbRingProofs!Refinement` | the ring of any size implements `KbFifo` |
| `MfsVolumeProofs!TypeCorrect`, `ChainsAscend` | `TypeOK`, `LinksAscend`, for any number of crashes |
| `MfsVolumeProofs!RootNeverLost` | `Spec => []RootKept`, for any number of crashes |
| `MfsVolumeProofs!ListingReachesAll` | `NamesGiven => (Spec => []ListedAll)`, for any number of crashes |
| `MfsVolumeProofs!FreeNeverShort` | `Spec => []FreeNeverUnder` |
| `MfsVolumeProofs!FilesKeepApart` | `Spec => []NoCrossLink` |
| `MfsVolumeProofs!CrashCostsOneFile` | `Spec => []OneLossPerCrash`, for any number of crashes |
| `PageBitmapProofs!TypeCorrect`, `BitsAccountForPages` | `TypeOK`, `Accounted` |
| `PageBitmapProofs!Refinement` | the bitmap implements `RegionAlloc` |
| `TasksProofs!TypeCorrect`, `PidsOfLiveTasksDiffer`, `DescriptorsCounted`, `PagesNotShared` | `TypeOK`, `LivePidsDistinct`, `FdsCounted`, `NoSharedPage` |
| `TasksProofs!MessagesKept` | `Spec => MailKept`, an action property |
| `ServicesProofs!ProcessorIsRunning` | `threadSpec => []CurrentRuns` |
| `ServicesProofs!GivenStaysHeld` | `arenaSpec => []HeldKept` |
| `ServicesProofs!MappingsStay` | `pagingSpec => TranslationsKept`, an action property |
| `DriverProofs!WritesStayInside` | `diskSpec => []InsidePartitions` |
| `DriverProofs!EntriesReached` | `fatSpec => []NoneHidden` |
| `DriverProofs!ChainsKept` | `fatSpec => LinksKept`, an action property |
| `DriverProofs!LineStaysShown` | `consoleSpec => []LineShown` |

**Hypotheses.** Besides the assumptions of the modules some theorems have one hypothesis each, and the runs have
instances of all of them. `NoWrap`: no request is so long that adding the header twice wraps around.
`Aligned`: the heap starts at a multiple of its size; `heap_aligned` is such a heap and `heap_free_refused` shows that
`NothingStranded` needs it. `NamesGiven`: no file is made under the empty name, which is how the code tells a free entry.
That the properties of `MfsVolume` speak of the root and of files only until "." is removed or made a directory of
stands in the properties (`dotted`), as does how far the others reach (`mishap`, `hit`, `lost`).

Two assumptions of `Fat12` deserve a word as well. `VolumesFormed`: the volume was formatted, which means
that the table has a place for every cluster and that nothing lies behind the first unused slot of the directory.
`RootApart`: cluster 0, where files are written, is none of the root's sectors. Nothing in the code sees to it, since
`lba_start` goes into the root's place twice (`fat12.h:98-101`): on a partition that starts at sector 2048 and has 64
root entries both are in one place, and a file written there goes over the directory.

**BuddyAlloc.** The invariant `TypeOK /\ NoOverlap` is inductive as it stands, because `NoOverlap` speaks
of the free lists, the blocks off the lists and the block of the call in progress at once. That a heap at
any address is safe has a short reason: `Coalesce` takes the buddy off a list, so two *listed* neighbours
merge, and neither whose half they are nor where the heap starts matters for overlap. The exact powers of
two are not needed: `BlockSizes` asks only that each order is twice as long as the one below. For the
refinement `RInv` adds that the order chosen has room for header and request, which needs `NoWrap`.
`heap_unaligned` includes a request that wraps.

`Coverage` follows from that invariant wherever the heap starts: a block that is split or merged covers what its
halves cover, and only one block holds a byte that changes hands. What depends on where the heap starts is alignment. On an `Aligned` heap every block lies at a multiple of its
size (`BlocksAligned`), so the block and its buddy are the two halves of one of the next order, and
`buddy_free` refuses nothing; `NoPairs`, that no two halves are both listed, is then kept by the loop of
`buddy_free`, which ends only when the buddy is not free. With `DOMAIN header = held` these are `AInv`,
which is inductive. `AllGivenBack` is a consequence of `AInv` and `Coverage` without a further step of
the program: were the heap not one block, take a *smallest* listed block; some listed block covers its buddy.
No smaller one, as there is none; not a larger one, which would cover the first block too; and not the buddy
itself, as the two would be a pair.

**KbRing.** `IInv` joins the type with the two properties. The step that carries the proof is `StoreEffect`:
a push leaves the slots between `tail` and `head` as they are and adds one, because a full ring
refuses it; so an interrupt cannot touch the slot that `buffer_pop` has loaded. `Count` and `Slot` are
defined by cases and without `%`, which keeps the arithmetic linear.

**MfsVolume.** `TypeOK /\ LinksAscend` is inductive. `LinksAscend` speaks of table and disk together: a
crash amid the table leaves a mixture of two tables, and each of its links comes from one of them, so
"every link leads upwards" survives where "every chain is whole" does not. `LinkingAscends` and
`MarkingAscends` cover the two ways a table changes. On it rests everything that speaks of chains: that links
ascend is why the recursive function `Walks` exists (`WalksExist` builds it from the highest block
downwards), and `SameWalk`, that two tables which agree along a chain have the same chain, needs no other
induction. The invariants, one on top of the other:

- `LInv`: in front of an entry with a given name there is no free one, in memory and on the disk.
- `QInv`: what the queue of sectors holds. When the superblock's turn comes the table on the disk is
  the one in memory, and a root that is not on the disk yet follows its directory.
- `FInv`: no crash yet; the count in memory is above the number of free blocks, and so is the one on the disk
  unless a superblock is queued. Operations take from what is free on the disk, so a table that is half
  written has no more free blocks than the one before.
- `RInv`: there is a set `K` of blocks, the root's, that no link from outside enters, that no entry
  but "." begins in, and that table and disk agree about. Every operation allocates or marks outside `K`,
  so every mixture of two tables has the root's chain whole.
- `CInv`: some slots are lost, no more than there were crashes. The chains of the entries that are neither lost nor
  removed (`gone`) are whole and apart, and each block of them is on the disk or queued; but for one slot, the one
  the operation under way makes or removes, all of it is on the disk already, so a crash adds that slot to the lost
  ones and no other (`SettledSurvives`). A lost entry may lead into a block that was given to another file since, and
  removing it then breaks that file, which nobody asked for; but a walk is a line (`WalkIsLine`) and stays on the chain
  it meets, so it meets one chain at most (`OneChainMet`), and the file it breaks takes the place of the removed
  one among the lost (`RemovingSound`): that is why `OneLossPerCrash` counts losses and does not name
  the files. `NoCrossLink` is the case without a crash, `OneLossPerCrash` the state of the disk between operations.

`RInv` and `CInv` hold while `dotted` is false; `NoWild` says that until then no directory is queued that would go over the
root. `LInv` has the same condition, and the rest holds whatever was done.

**PageBitmap.** `Inv` adds to the checked properties that runs handed out lie inside the machine
(`Inside`) and apart (`Disjoint`), and that a search wants what somebody asked for (`Wanted`): without them
releasing a run could clear the bits of another.

**Tasks.** `Inv` adds to the checked invariants that what `freeProc` frees of a task's memory is the
task's (`MainsOwned`), without which a kill could give away another's page, and that the mailbox of a live
task is one of its pages until the first mishap (`BoxesOwned`), which `MailKept` needs. Every call ends in
`Switch`, which changes nothing but statuses; what is left of a call is one of a few kinds of step, each with a lemma.
`LivePidsDistinct` rests on `NewPid` looking through the whole list. The attempt to prove `NoSharedPage`
showed the model wrong: release_mem also gives back a region that the heap left in the task structure and
register_mem never filled in, which was not recorded as a mishap, and the run's leftovers were too few
to come across it. Both are mended: the history variable records it, and the run has a leftover that lies in
another task's memory.

**Threads.** `CurrentRuns` is inductive once `current` is known to be a pid. **Paging.** A table at an
address other than 0 lies in a page that is marked, and no two entries of the directory share it
(`TablesApart`); `bitmap_alloc` never answers a marked page, so neither a new table nor another caller writes one that
is in use. `Held` says what a step keeps and is transitive, so that it passes through the loop of
`identity_mapping32`. **SysArena.** Merging touches no entry in use and filling a void moves one, so either leaves
the number of entries in use at each address (`SameHeld`); this passes through the three loops of
`ksysarena_defragment`. That arenas may overlap (section 7) does not matter to it.

**Disks.** The invariant `DisksOK` says of every entry of the list of partitions that it belongs to a registered drive and
that some signed table *which this drive's first sector held* has a part of the same start and length (`Told`, `Entries`).
The drive's past is in `had`, since the first sector may change without the list: by a format, or by a write whose folded number
is 0. `had` only grows (`RememberedFacts`), so what was told stays told. Scanning and remounting put into the list only
what the drive's table has (`EntriesOf`), until a remount reads from a list that is not there, where
the model stops. That a transfer stays between the ends then needs only that a count is never cut to a larger one,
and that a drive without 48-bit commands carries one sector, so that the fold is the one of a sector asked for (`TouchedFacts`).
No partition is assumed to end where numbers still reach.

**Fat12.** For `NoneHidden` the caller's buffer must be as tidy as the root (`FatOK`), as it becomes the root when stored.
The step that carries the proof is `FirstSlotTidy`: `fat12_touch` takes the *first* slot that may be used, and the name it
stores never begins with the mark of an unused one (`NamesBegin`). `ChainsKept` is about pairs: two entries that share a
byte are an even one and the odd one behind it (`PairsApart`), so whatever a write does to the digits, only a pair can
notice. `fat12_touch` allocates twice; what the first allocation spoilt may look free to the second, and is then of the same
pair (`TakenTwice`). Nothing about `&` and `|` is needed.

**Console.** `LineShown` is inductive once the line is known not to be longer than what stands before the cursor,
and the cursor to be on the screen, for which the printers' loops are followed through `Scroll` (`ShownFacts`). The
arithmetic of rows and columns is in `CellFacts` and `RubbedFacts`: the cell before a row's first is the last of the row
above, as long as there is one.

**Loops as recursive functions.** A loop of the code that is one step of the model is a recursive function
on `0 .. n`. `LoopRuns` proves such functions exist: a loop whose rounds stay within a set has a history (the
set and the rounds are given as a set and a function, not as operators, which the provers could not
instantiate); `LoopStays` carries a property through it.

**Only model-checked.** Everything under fairness (`EveryKeyRead`, `OnePageEnds`, `EveryTaskRuns`):
liveness is beyond the prover. `RefsExact` and `NothingDangling` of `Shell`: what a
line does is computed by operators that recur over its syntax tree, and facts about every tree need an induction over
data. The refuted properties of section 7 are false and stay with TLC.

## 7. What the runs found

Each is a run that TLC ends with a counterexample.

- `heap_free_refused`: `getBuddyAddr` (`buddy_alloc.c:145`) works on absolute addresses, the checks of
  `buddy_free` (line 172) on offsets. On a heap that is not aligned to its size two blocks merge into one
  whose offset is no multiple of its size; it is handed out later, and freeing it is answered "Illegal
  Address". The block is lost.
- `mfs_extend`: `IFATappendChain` (`ifat.c:212`) walks until `next` is `IFAT_END_OF_CHAIN` and writes the
  entry *of that index*, which is refused. The new block belongs to nobody, though `syscalls.md:133`
  says it is appended.
- `pages_hang`: `bitmap_malloc` (`bitmap.c:132`) ends only at `i == last_allocated`, and steps of more than one
  pass over that index. A search that finds nothing then goes round for ever instead of reaching
  `if (!found) return NULL`.
- `task_exit`: `exit` frees and clears the task, and then `kernel_scheduler` (`tasks.c:44`) makes the
  current task ready, which it still is. Its turn comes again.

Other things seen while reading the code. The first group is modelled as it is, and properties are stated
around it:

- `mfs_remove` marks the chain and keeps the entry (`fs.c:303`; `syscalls.md:140` says "removes the file
  entry"); after a `clean` the entry names blocks of another file. `remove(".")` marks the root.
- `mkdir` of a taken name answers 0 and writes uninitialised memory over the first block of what has the name
  (`mfs.c:172-191`); `syscalls.md:232` says it answers -1. The shell lets any name through (`shell.c:226`), and for "."
  the block is the root's. `RootKept` is stated until then.
- After a crash between the directory and the table two entries may name one block, and removing the one marks
  the chain of the other. `OneLossPerCrash` counts it, and says no more.
- `mfs_touch` answers 0 when the directory is full, and its blocks stay allocated; `FreeBlocks` on the disk falls
  behind the table.
- `wait` does not put a task to sleep, for the reason `exit` does not end it.
- `sys_release_mem` (`tasks.c:333`) leaves the lengths of the regions, so that a second call frees the same
  pages, by then somebody else's; `syscalls.md:177` says it answers -1.
- Close drops no reference; register_mem at page 0 is taken for a failure, and the pages stay taken;
  `freeProc` gives back neither the extra page of spawn nor the mailbox, and divides lengths in pages by the
  size of a page.
- A task killed for a bad pointer in ipc_send or ipc_receive has the call carried out nevertheless
  (`isr.c:114`).

- mbash: "do" is tried before "done" and does not go back, so no for loop is in the language (`lexer.c:201`);
  a closing bracket takes the token behind it along (`parser.c:301`); an if evaluates one statement of its
  then part (`eval.c`); the value a command answers loses its reference before variable 0 takes one
  (`modules.h:29`); `setShellVarEntry` gives back whatever memory held when the table was made
  (`eval.c:132`) and copies as many bytes as there are entries (`eval.c:128`).
- FAT12: `fat12_get_bpb` returns nothing (`fat12.c:57`); an entry shares a digit with its neighbour
  (`:105`); `=` for `==` removes every entry of a directory (`:471`); linking two clusters frees
  the parameter block twice (`:273`); loops over chains shadow their variable; a part of a name that is longer than
  eleven characters overruns its buffer (`fat12.h:121-147`); the root's place counts `lba_start` twice (`fat12.h:98-101`).
- Disks: the count of a 28-bit command goes to the wrong port, so one sector is carried
  (`ata.c:236`); a transfer of 256 sectors or more never ends (`ata.c:290`); of the number's bits 24 to 27 three reach the drive
  (`ata.c:35`, `:232`), so that a write to a sector behind 2^27 comes out near the drive's beginning, though
  `partitions.h:81-83` says `writePartition` sees to it that nothing leaves the range; `remountPartitions` copies
  from lists that are not there and one entry too many (`partition_mng.c:68`).
- The VFS splits the explorer's path and not its argument (`vfs.c:36`), overwrites the byte at which the file's
  name starts (`vfs.c:61`), and `fsck` destroys the explorer and goes on using it (`vfs.c:153`). Nothing gives it an
  explorer, so that `sys_open` changes nothing.
- Threads: `kill` lets a pid through that is one too large, and negative ones (`threads.c:110`); with no process ready
  `scheduler` searches for ever, and before there is one it reads through a null pointer (`threads.c:9`).
- The rest of a split arena is given the size that was asked for (`sysarena.c:103`).
- `kgetchar` compares with macros without brackets, so that every special key sets AltGr and every
  release clears shift (`keyboard.c:76-107`).
- `memcmp` and `strncpy` look at one character, `strncmp` compares it with the next, `strtok` begins a token at a
  delimiter (`string.c`). A free descriptor is taken before the one that has the name (`fsd.c:22`).
- `init.c:51` takes the memory size, in KiB, for bytes; `protect_bitmap` leaves the kernel's first page
  (`bitmap.c:121`); sections of the map that are less than a page are forgotten, and those above
  4 GiB taken for low ones (`multiboot_mmap.c:18-22`). A page table may come to lie at address 0
  (`paging32.c:69`); so may the directory (`paging32.c:33-38`), which is not modelled.
- A made archive ends with zeros and a listing looks for a newline (`tar.c:41`); sums of decimals are
  scaled away from one another (`fdp.c:11-28`).

The second group is outside the models:

- `searchPid` of an unknown pid runs off the list; `removeFd(-1)` looks in front of its table; descriptor
  numbers are compared with `MAX_FDS` by `>` (one too many).
- The results of openg and register_mem are compared (`==`, `isr.c:156,158`) where they should be assigned.
- `MFSchdir` loads `blockSize` bytes, fewer than a sector (`mfs.c:207`); `mfs_new_fd` of a missing name
  reads through a null entry.
- A wait for the drive has no limit (`ata.c:114`). A full line puts its NUL behind the buffer (`shell.c:271`).
- A request of `bitmap_malloc` for more pages than the machine has, on an empty bitmap, marks every page and
  answers NULL (`bitmap.c:140`).
- The kernel starts no first task: `current` is never set, and `spawnProccess` reads through the empty list.
  `Tasks!Init` takes the first task as given. Nothing counts `current_count` up (`isr.c:62`), so the
  timer never switches tasks.

## 8. Not modelled

| part | why |
|---|---|
| subdirectories and file contents of MunixFS | the directory that `cd` loads is uninitialised memory; contents are bytes no property speaks of |
| graphics modes, fonts and colours of the screen, and `vga_start` | writes to ports |
| waits for a drive, `parseAtaIdentify`, `pciCfgReadWord` | the first are taken to end, the others are not called |
| memory interface, descriptors of keyboard and screen | a table of pointers set once; two constant entries, in `Tasks!Init` |
| a page directory at address 0, or in a page that is given to someone else | the directory is a variable of `Paging` of its own |
| gdt, idt, pic, tss, timer, firmware tables | hardware set-up done once, read-only lookups; the order of `init.c` is what the Init predicates stand for |
| out-of-memory paths of the parser and the evaluator, `lltoa`, `ulltoa` | no property is about them |

Inside the modelled parts: the contents of messages; what a task computes between system calls; pids and
names of nobody; a request for more pages than the machine has; double frees of heap pointers.

## 9. Plan

In this order, the behaviour that matters most first. All steps but the last two are done.

1. `RegionAlloc`, `BuddyAlloc` and its proofs.
2. `KbFifo`, `KbRing` and its proofs.
3. `MfsVolume`, and the proof that chains ascend.
4. `PageBitmap` and its proofs.
5. `Tasks`.
6. The shell and its language: `MbashLexer`, `MbashParser`, `MbashValues`, `MbashEval`, `Shell`, `Console`.
7. `Disks`, `Fat12`.
8. `Vfs`, `KernelTables`, `Tar`, `SysArena`, `Threads`, `Paging`, `MemoryMap`, `Minim`, `Fdp`, `LibStrings`.
9. Descriptors of `KernelTables` in `Tasks`, in place of its counts, should the VFS ever be given an explorer.
10. An abstract disk that carries each sector once, and `Disks` shown to implement it where it does (48-bit
    transfers).

Proofs still worth having:

- `Vfs`, `KernelTables`: what their `ASSUME`s check over short histories, as invariants of every history.

## 10. Running it

    tlc -config MCKbRing.cfg KbRing          a run; modules and configurations are paired in PROJECT.json
    tlapm KbRingProofs.tla                   the proofs of a module

The longest runs are `services`, `mfs`, `task_memory` and `tasks`, one to three minutes each with two workers.
