------------------------------ MODULE MCServices ------------------------------
(***************************************************************************)
(* The parts that keep state of their own and do not meet, each on a small *)
(* instance: which one a behaviour is about is chosen at its start, and    *)
(* the others rest.  The modules without state come along with their       *)
(* assumptions.                                                            *)
(***************************************************************************)
EXTENDS MCShell, MCDisks, Fat12, SysArena, Threads, Console, Paging,
        Minim, KernelTables, Tar, Vfs, Fdp, MemoryMap

VARIABLE service
Units == {"shell", "disks", "fat12", "arena", "threads", "console", "paging"}
servicesVars == <<service, ctx, diskVars, fatVars, arenaVars, threadVars, consoleVars, mmu>>

-----------------------------------------------------------------------------
(* FAT12: a volume with a lone cluster, and tables as another system lays  *)
(* them out.                                                               *)
MCGeo == [total |-> 103, reserved |-> 1, tables |-> 1, perFat |-> 1, rootEntries |-> 3,
          perCluster |-> 1, sector |-> 32, start |-> 3]
Laid(entries) ==
  LET e(c) == IF c \in DOMAIN entries THEN entries[c] ELSE 0
  IN  [o \in 0 .. Offset(6) |->
        LET c == (o \div 3) * 2
        IN  CASE o % 3 = 0 -> e(c) % 256
              [] o % 3 = 1 -> e(c) \div 256 + (e(c + 1) % 16) * 16
              [] OTHER -> e(c + 1) \div 16]
File(first, attr, clus) == [first |-> first, attr |-> attr, clus |-> clus, size |-> 1]
MCVolumes ==
  {[fat |-> Laid(<<>>), root |-> <<File("A", {"ARCHIVE"}, 3), EmptySlot, EmptySlot>>],
   [fat |-> Laid(<<>>), root |-> <<EmptySlot>>],
   [fat |-> Laid(2 :> 4 @@ 4 :> EOC @@ 3 :> EOC),
    root |-> <<File(" ", {"ARCHIVE"}, 3), File("A", {"ARCHIVE"}, 2), EmptySlot>>],
   [fat |-> Laid(5 :> 4 @@ 4 :> EOC @@ 3 :> EOC @@ 2 :> EOC),
    root |-> <<File("V", {"VOLUME_ID"}, 0), File("A", {"ARCHIVE"}, 0), File(" ", {"ARCHIVE"}, 5)>>]}
MCNames == {<<"A", ".", "b">>, <<"b">>, <<"b", "c", "b", "b", "b", "b">>}
MCDelims == {{"."}, {".", "b", "A"}}

-----------------------------------------------------------------------------
(* Keys: Backspace, Enter, `a' and its release, a shift, AltGr and its     *)
(* release.                                                                *)
MCPrompt == <<126>>
MCKeys == 8 :> <<55, 47, 0>> @@ 14 :> <<8, 8, 0>> @@ 28 :> <<10, 10, 0>> @@ 30 :> <<97, 65, 0>>
MCScancodes == {14, 28, 30, 158, 42, 312, 440}
MCOutputs == {<<10, 10, 10>>, <<10, 10>>}

-----------------------------------------------------------------------------
DisksRest ==
  /\ boot = "rests" /\ units = <<>> /\ partitions = <<>> /\ firsts = <<>> /\ had = <<>>
  /\ wrote = {} /\ stopped = "no"
FatRests == fat = Laid(<<>>) /\ root = <<>> /\ cwd = <<>> /\ parent = 0 /\ area = "nothing" /\ mishap = "none"
PagingRests == mmu = [used |-> {}, dir |-> ZeroPage, memory |-> [p \in Frames |-> ZeroPage]]
ShellRests == ctx = NewCtx(Quiet)

ServicesInit ==
  /\ service \in Units
  /\ IF service = "shell" THEN Init ELSE ShellRests
  /\ IF service = "disks" THEN diskInit ELSE DisksRest
  /\ IF service = "fat12" THEN fatInit ELSE FatRests
  /\ IF service = "paging" THEN pagingInit ELSE PagingRests
  /\ arenaInit /\ threadInit /\ consoleInit
ServicesNext ==
  /\ UNCHANGED service
  /\ \/ /\ service = "shell" /\ Next
        /\ UNCHANGED <<diskVars, fatVars, arenaVars, threadVars, consoleVars, mmu>>
     \/ /\ service = "disks" /\ diskNext
        /\ UNCHANGED <<ctx, fatVars, arenaVars, threadVars, consoleVars, mmu>>
     \/ /\ service = "fat12" /\ fatNext
        /\ UNCHANGED <<ctx, diskVars, arenaVars, threadVars, consoleVars, mmu>>
     \/ /\ service = "arena" /\ arenaNext
        /\ UNCHANGED <<ctx, diskVars, fatVars, threadVars, consoleVars, mmu>>
     \/ /\ service = "threads" /\ threadNext
        /\ UNCHANGED <<ctx, diskVars, fatVars, arenaVars, consoleVars, mmu>>
     \/ /\ service = "console" /\ consoleNext
        /\ UNCHANGED <<ctx, diskVars, fatVars, arenaVars, threadVars, mmu>>
     \/ /\ service = "paging" /\ pagingNext
        /\ UNCHANGED <<ctx, diskVars, fatVars, arenaVars, threadVars, consoleVars>>
ServicesSpec == ServicesInit /\ [][ServicesNext]_servicesVars
=============================================================================
