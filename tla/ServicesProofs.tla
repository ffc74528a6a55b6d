---------------------------- MODULE ServicesProofs ----------------------------
(***************************************************************************)
(* Proofs about three parts that keep state of their own: the threads, the *)
(* static arena and the page tables, for tables of every size.             *)
(***************************************************************************)
EXTENDS Threads, SysArena, Paging, ProofLemmas, FiniteSetTheorems

-----------------------------------------------------------------------------
(* Threads.                                                                *)
threadSpec == threadInit /\ [][threadNext]_threadVars

ThreadsOK ==
  /\ DOMAIN status = Pids
  /\ current \in Pids \cup {NoProc}

LEMMA PidFacts ==
  /\ Pids \subseteq Nat /\ NoProc \notin Pids /\ MaxProcesses \in Nat \ {0}
  /\ \A p \in Pids, k \in Nat : InTurn(p, k) \in Pids
<1>1. MaxProcesses \in Nat \ {0}
  BY ThreadConstants
<1>2. ASSUME NEW p \in Pids, NEW k \in Nat PROVE InTurn(p, k) \in Pids
  BY <1>1 DEF Pids, InTurn
<1> QED
  BY <1>1, <1>2 DEF Pids, NoProc

(* Whoever gets the processor is running.                                  *)
LEMMA YieldRuns ==
  ASSUME ThreadsOK, NEW after, DOMAIN after = Pids, Yield(after)
  PROVE  ThreadsOK' /\ CurrentRuns'
<1>1. PICK from \in IF current = NoProc THEN Pids ELSE {current} :
        LET ready == {k \in 1 .. MaxProcesses : after[InTurn(from, k)] = "READY"}
            next == InTurn(from, Min(ready))
        IN  IF ready = {}
            THEN status' = after /\ halted' = "search" /\ UNCHANGED current
            ELSE /\ status' = [after EXCEPT ![next] = "RUNNING"]
                 /\ current' = next
                 /\ UNCHANGED halted
  BY DEF Yield
<1> DEFINE ready == {k \in 1 .. MaxProcesses : after[InTurn(from, k)] = "READY"}
           next == InTurn(from, Min(ready))
<1>2. from \in Pids
  BY DEF ThreadsOK
<1>3. CASE ready = {}
  <2>1. status' = after /\ halted' = "search" /\ current' = current
    BY <1>1, <1>3
  <2> QED
    BY <2>1 DEF ThreadsOK, CurrentRuns
<1>4. CASE ready # {}
  <2>1. status' = [after EXCEPT ![next] = "RUNNING"] /\ current' = next
    BY <1>1, <1>4
  <2>2. ready \in SUBSET Nat
    OBVIOUS
  <2>3. Min(ready) \in Nat
    BY <1>4, <2>2, MinFacts
  <2>4. next \in Pids
    BY <1>2, <2>3, PidFacts
  <2> HIDE DEF next
  <2> QED
    BY <2>1, <2>4 DEF ThreadsOK, CurrentRuns
<1> QED
  BY <1>3, <1>4

LEMMA ThreadsStep ==
  ASSUME ThreadsOK, CurrentRuns, [threadNext]_threadVars
  PROVE  ThreadsOK' /\ CurrentRuns'
<1>1. CASE Schedule
  BY <1>1, YieldRuns DEF Schedule, ThreadsOK
\* who is made ready did not run
<1>2. ASSUME NEW pid \in Pids, status[pid] # "RUNNING", NEW s,
             status' = [status EXCEPT ![pid] = s], UNCHANGED <<current, halted>>
      PROVE  ThreadsOK' /\ CurrentRuns'
  BY <1>2 DEF ThreadsOK, CurrentRuns
<1>3. ASSUME NEW S, Having(S) # {}, "RUNNING" \notin S
      PROVE  Min(Having(S)) \in Pids /\ status[Min(Having(S))] # "RUNNING"
  <2>1. Having(S) \in SUBSET Nat
    BY PidFacts DEF Having
  <2>2. Min(Having(S)) \in Having(S)
    BY <1>3, <2>1, MinFacts
  <2> QED
    BY <1>3, <2>2 DEF Having
<1>4. CASE Spawn
  <2>1. Min(Having({"NULL"})) \in Pids /\ status[Min(Having({"NULL"}))] # "RUNNING"
    BY <1>3, <1>4 DEF Spawn
  <2> QED
    BY <1>2, <1>4, <2>1 DEF Spawn
<1>5. CASE Revive
  <2>1. Min(Having(Dead)) \in Pids /\ status[Min(Having(Dead))] # "RUNNING"
    BY <1>3, <1>5 DEF Revive, Dead
  <2> QED
    BY <1>2, <1>5, <2>1 DEF Revive
<1>6. ASSUME NEW s, Stop(s) PROVE ThreadsOK' /\ CurrentRuns'
  <2>1. Yield([status EXCEPT ![current] = s])
    BY <1>6 DEF Stop
  <2>2. DOMAIN [status EXCEPT ![current] = s] = Pids
    BY DEF ThreadsOK
  <2> QED
    BY <2>1, <2>2, YieldRuns, Zenon
<1>7. ASSUME NEW pid, Kill(pid) PROVE ThreadsOK' /\ CurrentRuns'
  <2> DEFINE after == [status EXCEPT ![pid] = "ZOMBIE"]
  <2>1. CASE pid = current
    <3>1. Yield(after)
      BY <1>7, <2>1, Zenon DEF Kill
    <3>2. DOMAIN after = Pids
      BY DEF ThreadsOK
    <3> QED
      BY <3>1, <3>2, YieldRuns, Zenon
  <2>2. CASE pid # current
    <3>1. status' = after /\ UNCHANGED <<current, halted>>
      BY <1>7, <2>2 DEF Kill
    <3> QED
      BY <2>2, <3>1 DEF ThreadsOK, CurrentRuns
  <2> QED
    BY <2>1, <2>2
<1>8. ASSUME NEW pid, Awaken(pid) PROVE ThreadsOK' /\ CurrentRuns'
  BY <1>2, <1>8 DEF Awaken
<1>9. ASSUME NEW pid, Outside(pid) PROVE ThreadsOK' /\ CurrentRuns'
  BY <1>9 DEF Outside, ThreadsOK, CurrentRuns
<1>10. CASE UNCHANGED threadVars
  BY <1>10 DEF threadVars, ThreadsOK, CurrentRuns
<1> QED
  BY <1>1, <1>4, <1>5, <1>6, <1>7, <1>8, <1>9, <1>10 DEF threadNext, Wait, Exit

(* Whatever processes do to one another and to themselves, current_proc is *)
(* one that is running, however long the table (threads.c).                *)
THEOREM ProcessorIsRunning == threadSpec => []CurrentRuns
<1>1. threadInit => ThreadsOK /\ CurrentRuns
  BY DEF threadInit, ThreadsOK, CurrentRuns
<1>2. ThreadsOK /\ CurrentRuns /\ [threadNext]_threadVars => ThreadsOK' /\ CurrentRuns'
  BY ThreadsStep
<1> QED
  BY <1>1, <1>2, PTL DEF threadSpec

-----------------------------------------------------------------------------
(* Page tables.  A table that is not at address 0 lies in a page that is   *)
(* marked, and no two entries of the directory share it.                   *)
pagingSpec == pagingInit /\ [][pagingNext]_mmu

Rights == FlagSets \cup {{}}
Cells == [present : BOOLEAN, frame : Frames, flags : Rights]
Mmus == [used : SUBSET Frames, dir : [Indices -> Cells],
         memory : [Frames -> [Indices -> Cells]]]
TablesApart(m) ==
  \A i \in Indices :
    /\ ~m.dir[i].present => m.dir[i].frame = 0
    /\ m.dir[i].frame # 0 => m.dir[i].frame \in m.used
    /\ \A j \in Indices : i # j /\ m.dir[i].frame # 0 => m.dir[i].frame # m.dir[j].frame
MmuOK(m) == m \in Mmus /\ TablesApart(m)

(* What a step keeps: every table that is not at address 0, and whatever   *)
(* is present in it.                                                       *)
Held(m, n) ==
  \A i \in Indices : m.dir[i].frame # 0 =>
    /\ n.dir[i] = m.dir[i]
    /\ \A k \in Indices : m.memory[m.dir[i].frame][k].present =>
         n.memory[m.dir[i].frame][k] = m.memory[m.dir[i].frame][k]

LEMMA HeldTwice ==
  ASSUME NEW l, NEW m, NEW n, Held(l, m), Held(m, n)
  PROVE  Held(l, n)
BY DEF Held

LEMMA CellFacts ==
  /\ 0 \in Frames /\ Frames \subseteq Nat
  /\ \A frame \in Frames, flags \in Rights : Entry32(frame, flags) \in Cells
  /\ \A frame, flags : Entry32(frame, flags).present /\ Entry32(frame, flags).frame = frame
  /\ Absent32 \in Cells /\ ~Absent32.present /\ Absent32.frame = 0
  /\ ZeroPage \in [Indices -> Cells] /\ Writes \in [Indices -> Cells]
<1>1. 0 \in Frames /\ Frames \subseteq Nat /\ NumFrames - 1 \in Frames
  BY PagingConstants DEF Frames
<1>2. \A frame \in Frames, flags \in Rights : Entry32(frame, flags) \in Cells
  BY DEF Entry32, Cells
<1>3. \A frame, flags : Entry32(frame, flags).present /\ Entry32(frame, flags).frame = frame
  BY DEF Entry32
<1>4. {} \in Rights
  BY DEF Rights
<1>5. Absent32 \in Cells /\ ~Absent32.present /\ Absent32.frame = 0
  BY <1>1, <1>4 DEF Absent32, Cells
<1>6. ZeroPage \in [Indices -> Cells] /\ Writes \in [Indices -> Cells]
  BY <1>1, <1>2, <1>4, <1>5 DEF ZeroPage, Writes
<1> QED
  BY <1>1, <1>2, <1>3, <1>5, <1>6

(* bitmap_alloc answers page 0 or one that nobody has.                     *)
LEMMA TakenFacts ==
  ASSUME NEW m \in Mmus
  PROVE  /\ Taken(m).mmu \in Mmus /\ Taken(m).page \in Frames
         /\ Taken(m).mmu.dir = m.dir /\ Taken(m).mmu.memory = m.memory
         /\ m.used \subseteq Taken(m).mmu.used
         /\ Taken(m).page # 0 => Taken(m).page \notin m.used /\ Taken(m).page \in Taken(m).mmu.used
<1> DEFINE p == Min(Frames \ m.used)
<1>1. CASE Frames \subseteq m.used
  <2>1. Taken(m).mmu = m /\ Taken(m).page = 0
    BY <1>1 DEF Taken
  <2> QED
    BY <2>1, CellFacts
<1>2. CASE ~(Frames \subseteq m.used)
  <2>1. Taken(m).mmu = [m EXCEPT !.used = m.used \cup {p}] /\ Taken(m).page = p
    BY <1>2 DEF Taken
  <2>2. p \in Frames \ m.used
    <3>1. Frames \ m.used # {} /\ Frames \ m.used \in SUBSET Nat
      BY <1>2, CellFacts
    <3> QED
      BY <3>1, MinFacts
  <2> HIDE DEF p
  <2>3. /\ Taken(m).mmu \in Mmus /\ Taken(m).mmu.dir = m.dir
        /\ Taken(m).mmu.memory = m.memory /\ Taken(m).mmu.used = m.used \cup {p}
    BY <2>1, <2>2 DEF Mmus
  <2> QED
    BY <2>1, <2>2, <2>3
<1> QED
  BY <1>1, <1>2

(* A page nobody has holds no table, so writing it disturbs none.          *)
LEMMA WritingKeeps ==
  ASSUME NEW m, MmuOK(m), NEW n \in Mmus, n.dir = m.dir, m.used \subseteq n.used,
         \A f \in Frames : f \in m.used => n.memory[f] = m.memory[f]
  PROVE  MmuOK(n) /\ Held(m, n)
<1>1. TablesApart(n)
  BY DEF MmuOK, TablesApart
<1>2. Held(m, n)
  <2> SUFFICES ASSUME NEW i \in Indices, m.dir[i].frame # 0
               PROVE  n.memory[m.dir[i].frame] = m.memory[m.dir[i].frame]
    BY DEF Held
  <2>1. m.dir[i].frame \in m.used /\ m.dir[i].frame \in Frames
    BY DEF MmuOK, TablesApart, Mmus, Cells
  <2> QED
    BY <2>1
<1> QED
  BY <1>1, <1>2 DEF MmuOK

LEMMA CreatedFacts ==
  ASSUME NEW m, MmuOK(m)
  PROVE  /\ MmuOK(Created(m).mmu) /\ Held(m, Created(m).mmu)
         /\ Created(m).mmu.dir = m.dir
         /\ Created(m).page \in Frames
         /\ Created(m).page # 0 => /\ Created(m).page \notin m.used
                                   /\ Created(m).page \in Created(m).mmu.used
<1> DEFINE new == Taken(m)
<1>1. m \in Mmus
  BY DEF MmuOK
<1>2. /\ new.mmu \in Mmus /\ new.page \in Frames
      /\ new.mmu.dir = m.dir /\ new.mmu.memory = m.memory
      /\ m.used \subseteq new.mmu.used
      /\ new.page # 0 => new.page \notin m.used /\ new.page \in new.mmu.used
  BY <1>1, TakenFacts
<1>3. CASE new.page = 0
  <2>1. Created(m) = new
    BY <1>3 DEF Created
  <2> HIDE DEF new
  <2>2. MmuOK(new.mmu) /\ Held(m, new.mmu)
    BY <1>2, WritingKeeps
  <2> QED
    BY <1>2, <1>3, <2>1, <2>2
<1>4. CASE new.page # 0
  <2> DEFINE n == [new.mmu EXCEPT !.memory = [new.mmu.memory EXCEPT ![new.page] = ZeroPage]]
  <2>1. Created(m).mmu = n /\ Created(m).page = new.page
    BY <1>4 DEF Created, Taken
  <2> HIDE DEF new
  <2>2. /\ n \in Mmus /\ n.dir = m.dir /\ n.used = new.mmu.used
        /\ n.memory = [m.memory EXCEPT ![new.page] = ZeroPage]
    BY <1>2, CellFacts DEF Mmus
  <2> HIDE DEF n
  <2>3. \A f \in Frames : f \in m.used => n.memory[f] = m.memory[f]
    BY <1>1, <1>2, <1>4, <2>2 DEF Mmus
  <2>4. MmuOK(n) /\ Held(m, n)
    BY <1>2, <2>2, <2>3, WritingKeeps
  <2> QED
    BY <1>2, <1>4, <2>1, <2>2, <2>4
<1> QED
  BY <1>3, <1>4

(* Filling in an entry of a table that has nothing there.                  *)
LEMMA FillingKeeps ==
  ASSUME NEW m, MmuOK(m), NEW i \in Indices, NEW k \in Indices, NEW e \in Cells,
         ~m.memory[m.dir[i].frame][k].present,
         NEW n, n = [m EXCEPT !.memory[m.dir[i].frame][k] = e]
  PROVE  MmuOK(n) /\ Held(m, n)
<1> DEFINE table == m.dir[i].frame
<1>1. table \in Frames /\ m \in Mmus
  BY DEF MmuOK, Mmus, Cells
<1>2. /\ n \in Mmus /\ n.dir = m.dir /\ n.used = m.used
      /\ n.memory = [m.memory EXCEPT ![table] = [m.memory[table] EXCEPT ![k] = e]]
  BY <1>1 DEF Mmus
<1>3. TablesApart(n)
  BY <1>2 DEF MmuOK, TablesApart
<1>4. Held(m, n)
  <2> SUFFICES ASSUME NEW j \in Indices, m.dir[j].frame # 0, NEW l \in Indices,
                      m.memory[m.dir[j].frame][l].present
               PROVE  n.memory[m.dir[j].frame][l] = m.memory[m.dir[j].frame][l]
    BY <1>2 DEF Held
  <2>1. m.dir[j].frame \in Frames /\ m.memory \in [Frames -> [Indices -> Cells]]
    BY <1>1 DEF Mmus, Cells
  <2> QED
    BY <1>1, <1>2, <2>1
<1> QED
  BY <1>2, <1>3, <1>4 DEF MmuOK

LEMMA MappedFacts ==
  ASSUME NEW m, MmuOK(m), NEW v \in Indices \X Indices, NEW frame \in Frames,
         NEW flags \in FlagSets
  PROVE  MmuOK(Mapped(m, v, frame, flags)) /\ Held(m, Mapped(m, v, frame, flags))
<1> DEFINE new == Created(m)
           dir == IF m.dir[v[1]].present THEN m
                  ELSE [new.mmu EXCEPT !.dir[v[1]] = Entry32(new.page, flags)]
           table == dir.dir[v[1]].frame
<1>0. v[1] \in Indices /\ v[2] \in Indices /\ flags \in Rights
  BY DEF Rights
<1>1. MmuOK(dir) /\ Held(m, dir)
  <2>1. CASE m.dir[v[1]].present
    BY <2>1 DEF Held
  <2>2. CASE ~m.dir[v[1]].present
    <3>1. /\ MmuOK(new.mmu) /\ Held(m, new.mmu) /\ new.mmu.dir = m.dir
          /\ new.page \in Frames
          /\ new.page # 0 => new.page \notin m.used /\ new.page \in new.mmu.used
      BY CreatedFacts
    <3>2. dir = [new.mmu EXCEPT !.dir[v[1]] = Entry32(new.page, flags)]
      BY <2>2
    <3> HIDE DEF new, dir
    <3> DEFINE e == Entry32(new.page, flags)
    <3>3. e \in Cells /\ e.present /\ e.frame = new.page
      BY <1>0, <3>1, CellFacts
    <3> HIDE DEF e
    <3>4. /\ dir \in Mmus /\ dir.used = new.mmu.used /\ dir.memory = new.mmu.memory
          /\ dir.dir = [m.dir EXCEPT ![v[1]] = e]
      BY <1>0, <3>1, <3>2, <3>3 DEF MmuOK, Mmus, e
    <3>5. /\ dir.dir[v[1]] = e /\ m.dir[v[1]].frame = 0
          /\ \A i \in Indices : i # v[1] => dir.dir[i] = m.dir[i]
      BY <1>0, <2>2, <3>4 DEF MmuOK, TablesApart, Mmus
    <3>6. \A i \in Indices : m.dir[i].frame # 0 => m.dir[i].frame \in m.used /\ m.dir[i].frame \in new.mmu.used
      BY <3>1 DEF MmuOK, TablesApart
    <3>7. TablesApart(dir)
      <4> SUFFICES ASSUME NEW i \in Indices
                   PROVE  /\ ~dir.dir[i].present => dir.dir[i].frame = 0
                          /\ dir.dir[i].frame # 0 => dir.dir[i].frame \in dir.used
                          /\ \A j \in Indices : i # j /\ dir.dir[i].frame # 0 =>
                               dir.dir[i].frame # dir.dir[j].frame
        BY DEF TablesApart
      <4>1. CASE i = v[1]
        BY <3>1, <3>3, <3>4, <3>5, <3>6, <4>1
      <4>2. CASE i # v[1]
        <5>1. /\ dir.dir[i] = m.dir[i]
              /\ ~m.dir[i].present => m.dir[i].frame = 0
              /\ \A j \in Indices : i # j /\ m.dir[i].frame # 0 => m.dir[i].frame # m.dir[j].frame
          BY <3>5, <4>2 DEF MmuOK, TablesApart
        <5> QED
          BY <3>1, <3>3, <3>4, <3>5, <3>6, <5>1
      <4> QED
        BY <4>1, <4>2
    <3>8. Held(m, dir)
      BY <3>1, <3>4, <3>5 DEF Held
    <3> QED
      BY <3>4, <3>7, <3>8 DEF MmuOK
  <2> QED
    BY <2>1, <2>2
<1>2. Mapped(m, v, frame, flags) =
        IF dir.memory[table][v[2]].present THEN dir
        ELSE [dir EXCEPT !.memory[table][v[2]] = Entry32(frame, flags)]
  BY DEF Mapped
<1> HIDE DEF dir
<1>3. CASE dir.memory[table][v[2]].present
  BY <1>1, <1>2, <1>3
<1>4. CASE ~dir.memory[table][v[2]].present
  <2>1. Entry32(frame, flags) \in Cells
    BY <1>0, CellFacts
  <2> DEFINE n == Mapped(m, v, frame, flags)
  <2>2. n = [dir EXCEPT !.memory[dir.dir[v[1]].frame][v[2]] = Entry32(frame, flags)]
    BY <1>2, <1>4
  <2> HIDE DEF n
  <2>3. MmuOK(n) /\ Held(dir, n)
    BY <1>0, <1>1, <1>4, <2>1, <2>2, FillingKeeps
  <2>4. Held(m, n)
    BY <1>1, <2>3, HeldTwice
  <2> QED
    BY <2>3, <2>4 DEF n
<1> QED
  BY <1>3, <1>4

LEMMA VirtualFacts ==
  ASSUME NEW frame \in Frames
  PROVE  Virtual(frame) \in Indices \X Indices
<1> DEFINE n == Cardinality(Indices)
<1>1. n \in Nat /\ n # 0 /\ Indices = 0 .. n - 1
  BY PagingConstants, FS_CardinalityType, FS_EmptySet
<1>2. frame \in Nat /\ Virtual(frame) = <<(frame \div n) % n, frame % n>>
  BY CellFacts DEF Virtual
<1> HIDE DEF n
<1>3. frame \div n \in Nat /\ (frame \div n) % n \in 0 .. n - 1 /\ frame % n \in 0 .. n - 1
  BY <1>1, <1>2
<1> QED
  BY <1>1, <1>2, <1>3

(* identity_mapping32, page by page.                                       *)
LEMMA IdentityFacts ==
  ASSUME MmuOK(mmu), NEW flags \in FlagSets, IdentityMapping(flags)
  PROVE  MmuOK(mmu') /\ Held(mmu, mmu')
<1> DEFINE S == {m \in Mmus : MmuOK(m) /\ Held(mmu, m)}
           step == [x \in (1 .. NumFrames) \X S |->
                     Mapped(x[2], Virtual(x[1] - 1), x[1] - 1, flags)]
           Rounds(f) == [n \in 0 .. NumFrames |->
             IF n = 0 THEN mmu ELSE Mapped(f[n - 1], Virtual(n - 1), n - 1, flags)]
           w == CHOOSE f : f = Rounds(f)
<1>0. NumFrames \in Nat
  BY PagingConstants
<1>1. mmu \in S
  BY DEF MmuOK, Held
<1>2. \A k \in 1 .. NumFrames : k - 1 \in Frames /\ Virtual(k - 1) \in Indices \X Indices
  BY <1>0, VirtualFacts DEF Frames
<1>3. ASSUME NEW k \in 1 .. NumFrames, NEW m \in S
      PROVE  Mapped(m, Virtual(k - 1), k - 1, flags) \in S
  <2> DEFINE n == Mapped(m, Virtual(k - 1), k - 1, flags)
  <2>1. MmuOK(m) /\ Held(mmu, m)
    OBVIOUS
  <2>2. MmuOK(n) /\ Held(m, n)
    BY <1>2, <2>1, MappedFacts, Zenon
  <2>3. Held(mmu, n)
    BY <2>1, <2>2, HeldTwice, Zenon
  <2> QED
    BY <2>2, <2>3 DEF MmuOK
<1>4. step \in [(1 .. NumFrames) \X S -> S]
  <2>1. \A x \in (1 .. NumFrames) \X S :
          Mapped(x[2], Virtual(x[1] - 1), x[1] - 1, flags) \in S
    BY <1>3
  <2> HIDE DEF S
  <2> QED
    BY <2>1
<1>5. mmu' = w[NumFrames]
  BY DEF IdentityMapping
<1> HIDE DEF S, step
<1>6. PICK f : History(f, NumFrames, S, mmu, step)
  BY <1>0, <1>1, <1>4, LoopRuns
<1>7. f = Rounds(f)
  <2>1. ASSUME NEW k \in 1 .. NumFrames
        PROVE  f[k] = Mapped(f[k - 1], Virtual(k - 1), k - 1, flags)
    <3>1. k - 1 \in 0 .. NumFrames
      BY <1>0
    <3>2. f[k - 1] \in S /\ f[k] = step[<<k, f[k - 1]>>]
      BY <1>6, <3>1 DEF History
    <3> QED
      BY <3>2 DEF step
  <2>2. \A k \in 0 .. NumFrames : k # 0 => k \in 1 .. NumFrames
    BY <1>0
  <2> QED
    BY <1>6, <2>1, <2>2 DEF History
<1>8. w = Rounds(w)
  BY <1>7, Zenon
<1> HIDE DEF w
<1>9. \A k \in 0 .. NumFrames : w[k] \in S
  <2>1. 0 \in 0 .. NumFrames /\ \A k \in 1 .. NumFrames : k \in 0 .. NumFrames /\ k # 0
    BY <1>0
  <2>2. w[0] = mmu
    BY <1>8, <2>1
  <2>3. ASSUME NEW k \in 1 .. NumFrames, w[k - 1] \in S PROVE w[k] \in S
    <3>1. w[k] = Mapped(w[k - 1], Virtual(k - 1), k - 1, flags)
      BY <1>8, <2>1
    <3> QED
      BY <1>3, <2>3, <3>1
  <2> QED
    BY <1>0, <1>1, <2>2, <2>3, LoopStays
<1>10. NumFrames \in 0 .. NumFrames
  BY <1>0
<1>11. w[NumFrames] \in S
  BY <1>9, <1>10
<1> QED
  BY <1>5, <1>11 DEF S

(* The other caller writes a page nobody had.                              *)
LEMMA UsedFacts ==
  ASSUME MmuOK(mmu), Used
  PROVE  MmuOK(mmu') /\ Held(mmu, mmu')
<1> DEFINE new == Taken(mmu)
<1>1. mmu \in Mmus
  BY DEF MmuOK
<1>2. /\ new.mmu \in Mmus /\ new.page \in Frames
      /\ new.mmu.dir = mmu.dir /\ new.mmu.memory = mmu.memory
      /\ mmu.used \subseteq new.mmu.used
      /\ new.page # 0 => new.page \notin mmu.used /\ new.page \in new.mmu.used
  BY <1>1, TakenFacts
<1>3. new.page # 0 /\ mmu' = [new.mmu EXCEPT !.memory[new.page] = Writes]
  BY DEF Used
<1> HIDE DEF new
<1>4. /\ mmu' \in Mmus /\ mmu'.dir = mmu.dir /\ mmu'.used = new.mmu.used
      /\ mmu'.memory = [mmu.memory EXCEPT ![new.page] = Writes]
  BY <1>2, <1>3, CellFacts DEF Mmus
<1>5. \A f \in Frames : f \in mmu.used => mmu'.memory[f] = mmu.memory[f]
  BY <1>1, <1>2, <1>3, <1>4 DEF Mmus
<1> QED
  BY <1>2, <1>4, <1>5, WritingKeeps

LEMMA PagingInitial ==
  ASSUME pagingInit
  PROVE  MmuOK(mmu)
<1>1. PICK reserved \in SUBSET Frames, low \in {ZeroPage, Writes} :
        mmu = [used |-> reserved, dir |-> ZeroPage,
               memory |-> [p \in Frames |-> IF p = 0 THEN low ELSE ZeroPage]]
  BY DEF pagingInit
<1>2. mmu \in Mmus
  BY <1>1, CellFacts DEF Mmus
<1>3. \A i \in Indices : mmu.dir[i].frame = 0
  BY <1>1, CellFacts DEF ZeroPage
<1> QED
  BY <1>2, <1>3 DEF MmuOK, TablesApart

LEMMA PagingStep ==
  ASSUME MmuOK(mmu), [pagingNext]_mmu
  PROVE  MmuOK(mmu') /\ Held(mmu, mmu')
<1>1. ASSUME NEW v \in Indices \X Indices, NEW frame \in Frames, NEW flags \in FlagSets,
             MapPage(v, frame, flags)
      PROVE  MmuOK(mmu') /\ Held(mmu, mmu')
  BY <1>1, MappedFacts DEF MapPage
<1>2. CASE UNCHANGED mmu
  BY <1>2 DEF Held
<1> QED
  BY <1>1, <1>2, IdentityFacts, UsedFacts DEF pagingNext

(* What is held, the processor finds again.                                *)
LEMMA HeldTranslates ==
  ASSUME MmuOK(mmu), Held(mmu, mmu')
  PROVE  TranslationsKeptStep
<1> SUFFICES ASSUME NEW v \in Indices \X Indices, mmu.dir[v[1]].frame # 0, Walk(mmu, v).present
             PROVE  Walk(mmu', v) = Walk(mmu, v)
  BY DEF TranslationsKeptStep
<1> DEFINE table == mmu.dir[v[1]].frame
<1>0. v[1] \in Indices /\ v[2] \in Indices
  OBVIOUS
<1>1. mmu.dir[v[1]].present /\ mmu.memory[table][v[2]].present
  BY CellFacts DEF Walk
<1>2. mmu'.dir[v[1]] = mmu.dir[v[1]]
  BY <1>0 DEF Held
<1>3. mmu'.memory[table][v[2]] = mmu.memory[table][v[2]]
  BY <1>0, <1>1 DEF Held
<1> QED
  BY <1>2, <1>3 DEF Walk

(* A page mapped by a table of its own stays mapped to where it was, with  *)
(* the rights it had, whatever map_page32 and identity_mapping32 map, with *)
(* as many pages as there are and whoever else takes and writes them       *)
(* (paging32.c:47-78).                                                     *)
THEOREM MappingsStay == pagingSpec => TranslationsKept
<1>1. pagingInit => MmuOK(mmu)
  BY PagingInitial
<1>2. MmuOK(mmu) /\ [pagingNext]_mmu => MmuOK(mmu)' /\ [TranslationsKeptStep]_mmu
  <2> SUFFICES ASSUME MmuOK(mmu), [pagingNext]_mmu
               PROVE  MmuOK(mmu') /\ TranslationsKeptStep
    BY DEF MmuOK, TablesApart
  <2> QED
    BY PagingStep, HeldTranslates
<1> QED
  BY <1>1, <1>2, PTL DEF pagingSpec, TranslationsKept

-----------------------------------------------------------------------------
(* The static arena: what moves is the entries, and what is counted is how *)
(* many of them are in use at an address.                                  *)
arenaSpec == arenaInit /\ [][arenaNext]_arenaVars

Slots == 1 .. NumArenas
Entries(top) == {e \in [base : NULL .. top, size : Nat, inUse : BOOLEAN] :
                   e.base = NULL => e.size = 0}
ArenaTables(top) == [Slots -> Entries(top)]
HeldAt(t, a) == {i \in Slots : t[i].inUse /\ t[i].base = a}
SameHeld(t, u) == \A a \in Nat : Cardinality(HeldAt(t, a)) = Cardinality(HeldAt(u, a))
ArenaOK == arenas \in ArenaTables(MaxAddr) /\ DOMAIN given = 0 .. MaxAddr

LEMMA HeldFinite ==
  ASSUME NEW t, NEW a
  PROVE  /\ IsFiniteSet(HeldAt(t, a)) /\ Cardinality(HeldAt(t, a)) \in Nat
         /\ \A i \in Slots : i \notin HeldAt(t, a) =>
              Cardinality(HeldAt(t, a) \cup {i}) = Cardinality(HeldAt(t, a)) + 1
         /\ \A i \in HeldAt(t, a) :
              Cardinality(HeldAt(t, a) \ {i}) = Cardinality(HeldAt(t, a)) - 1
<1>1. IsFiniteSet(Slots)
  BY ArenaConstants, FS_Interval DEF Slots
<1>2. IsFiniteSet(HeldAt(t, a))
  BY <1>1, FS_Subset DEF HeldAt
<1> QED
  BY <1>2, FS_CardinalityType, FS_AddElement, FS_RemoveElement

LEMMA SameHeldTwice ==
  ASSUME NEW t, NEW u, NEW v, SameHeld(t, u), SameHeld(u, v)
  PROVE  SameHeld(t, v)
BY DEF SameHeld

(* Merging touches nothing that is in use.                                 *)
LEMMA MergeFacts ==
  ASSUME NEW top \in Int, top >= NULL, NEW t \in ArenaTables(top), NEW i \in Slots, NEW j \in Slots
  PROVE  Merge(t, i, j) \in ArenaTables(top) /\ SameHeld(t, Merge(t, i, j))
<1> DEFINE u == Merge(t, i, j)
<1>1. CASE ~(i < j /\ Free(t[i]) /\ Free(t[j]) /\ t[i].base + t[i].size = t[j].base)
  <2>1. u = t
    BY <1>1 DEF Merge
  <2> QED
    BY <2>1 DEF SameHeld
<1>2. CASE i < j /\ Free(t[i]) /\ Free(t[j]) /\ t[i].base + t[i].size = t[j].base
  <2>1. u = [t EXCEPT ![i].size = t[i].size + t[j].size, ![j] = Poor]
    BY <1>2 DEF Merge
  <2>2. /\ t[i] \in Entries(top) /\ t[j] \in Entries(top)
        /\ ~t[i].inUse /\ ~t[j].inUse /\ i # j
        /\ t[i].size > 0 /\ t[i].size \in Nat /\ t[j].size \in Nat
    BY <1>2 DEF ArenaTables, Free, Entries, Slots
  <2> DEFINE e == [t[i] EXCEPT !.size = t[i].size + t[j].size]
  <2>3. e \in Entries(top) /\ ~e.inUse
    BY <2>2 DEF Entries
  <2>4. Poor \in Entries(top) /\ ~Poor.inUse
    BY DEF Poor, Entries, NULL
  <2>5. u = [[t EXCEPT ![i] = e] EXCEPT ![j] = Poor]
    BY <2>1, <2>2 DEF ArenaTables
  <2> HIDE DEF e, u
  <2>6. u \in ArenaTables(top) /\ u[i] = e /\ u[j] = Poor /\ \A k \in Slots : k # i /\ k # j => u[k] = t[k]
    BY <2>2, <2>3, <2>4, <2>5 DEF ArenaTables
  <2>7. \A a \in Nat : HeldAt(u, a) = HeldAt(t, a)
    BY <2>2, <2>3, <2>4, <2>6 DEF HeldAt
  <2> QED
    BY <2>6, <2>7 DEF SameHeld, u
<1> QED
  BY <1>1, <1>2

(* An entry that is moved is in use where it is moved to, and no more      *)
(* where it was.                                                           *)
LEMMA FillFacts ==
  ASSUME NEW top \in Int, top >= NULL, NEW t \in ArenaTables(top), NEW i \in Slots
  PROVE  Fill(t, i) \in ArenaTables(top) /\ SameHeld(t, Fill(t, i))
<1> DEFINE u == Fill(t, i)
           j == Min(Later(t, i))
<1>1. CASE ~(Void(t[i]) /\ Later(t, i) # {})
  <2>1. u = t
    BY <1>1 DEF Fill
  <2> QED
    BY <2>1 DEF SameHeld
<1>2. CASE Void(t[i]) /\ Later(t, i) # {}
  <2>1. u = [t EXCEPT ![i] = t[j], ![j] = Poor]
    BY <1>2 DEF Fill
  <2>2. j \in Slots /\ j # i
    <3>1. i \in Nat /\ NumArenas \in Nat
      BY ArenaConstants DEF Slots
    <3>2. Later(t, i) \in SUBSET Nat
      BY <3>1 DEF Later
    <3>3. j \in Later(t, i)
      BY <1>2, <3>2, MinFacts
    <3> QED
      BY <3>1, <3>3 DEF Later, Slots
  <2> HIDE DEF j
  <2>3. t[i].base = NULL /\ t[j] \in Entries(top)
    BY <1>2, <2>2 DEF Void, ArenaTables
  <2>4. Poor \in Entries(top) /\ ~Poor.inUse
    BY DEF Poor, Entries, NULL
  <2> HIDE DEF u
  <2>5. u \in ArenaTables(top) /\ u[i] = t[j] /\ u[j] = Poor /\ \A k \in Slots : k # i /\ k # j => u[k] = t[k]
    BY <2>1, <2>2, <2>3, <2>4 DEF ArenaTables
  <2>6. ASSUME NEW a \in Nat
        PROVE  Cardinality(HeldAt(t, a)) = Cardinality(HeldAt(u, a))
    <3>1. i \notin HeldAt(t, a)
      BY <2>3 DEF HeldAt, NULL
    <3>2. CASE j \notin HeldAt(t, a)
      <4>1. HeldAt(u, a) = HeldAt(t, a)
        BY <2>2, <2>4, <2>5, <3>1, <3>2 DEF HeldAt
      <4> QED
        BY <4>1
    <3>3. CASE j \in HeldAt(t, a)
      <4>1. i \in HeldAt(u, a) /\ HeldAt(t, a) \ {j} = HeldAt(u, a) \ {i}
        BY <2>2, <2>4, <2>5, <3>1, <3>3 DEF HeldAt
      <4>2. /\ Cardinality(HeldAt(t, a) \ {j}) = Cardinality(HeldAt(t, a)) - 1
            /\ Cardinality(HeldAt(u, a) \ {i}) = Cardinality(HeldAt(u, a)) - 1
        BY <3>3, <4>1, HeldFinite
      <4>3. Cardinality(HeldAt(t, a)) \in Nat /\ Cardinality(HeldAt(u, a)) \in Nat
        BY HeldFinite
      <4> QED
        BY <4>1, <4>2, <4>3
    <3> QED
      BY <3>2, <3>3
  <2> QED
    BY <2>5, <2>6 DEF SameHeld, u
<1> QED
  BY <1>1, <1>2

(* The tables an operation may make of one when it only moves entries.     *)
Kept(t, top) == {u \in ArenaTables(top) : SameHeld(t, u)}

(* The loops of ksysarena_defragment: one arena with all later ones, all   *)
(* arenas, and the voids.                                                  *)
LEMMA MergedWithFacts ==
  ASSUME NEW top \in Int, top >= NULL, NEW t \in ArenaTables(top), NEW i \in Slots
  PROVE  MergedWith(t, i) \in Kept(t, top)
<1> DEFINE S == Kept(t, top)
           step == [x \in Slots \X S |-> Merge(x[2], i, x[1])]
           Rounds(f) == [k \in 0 .. NumArenas |->
             IF k = 0 THEN t ELSE Merge(f[k - 1], i, k)]
           w == CHOOSE f : f = Rounds(f)
<1>1. NumArenas \in Nat /\ Slots = 1 .. NumArenas
  BY ArenaConstants DEF Slots
<1>2. t \in S
  BY DEF Kept, SameHeld
<1>3. ASSUME NEW k \in Slots, NEW u \in S PROVE Merge(u, i, k) \in S
  <2>1. u \in ArenaTables(top) /\ SameHeld(t, u)
    BY DEF Kept
  <2>2. Merge(u, i, k) \in ArenaTables(top) /\ SameHeld(u, Merge(u, i, k))
    BY <2>1, MergeFacts
  <2> QED
    BY <2>1, <2>2, SameHeldTwice DEF Kept
<1>4. MergedWith(t, i) = w[NumArenas]
  BY DEF MergedWith
<1>5. \A k \in Slots : k \in 0 .. NumArenas /\ k - 1 \in 0 .. NumArenas /\ k # 0
  BY <1>1
<1> HIDE DEF S
<1>6. step \in [Slots \X S -> S]
  BY <1>3
<1> HIDE DEF step
<1>7. PICK f : History(f, NumArenas, S, t, step)
  BY <1>1, <1>2, <1>6, LoopRuns
<1>8. f = Rounds(f)
  <2>1. ASSUME NEW k \in Slots PROVE f[k] = Merge(f[k - 1], i, k)
    <3>1. f[k - 1] \in S /\ f[k] = step[<<k, f[k - 1]>>]
      BY <1>1, <1>5, <1>7 DEF History
    <3> QED
      BY <3>1 DEF step
  <2>2. \A k \in 0 .. NumArenas : k # 0 => k \in Slots
    BY <1>1
  <2> QED
    BY <1>7, <2>1, <2>2 DEF History
<1>9. w = Rounds(w)
  BY <1>8, Zenon
<1> HIDE DEF w
<1>10. 0 \in 0 .. NumArenas /\ NumArenas \in 0 .. NumArenas
  BY <1>1
<1>11. w[0] \in S
  BY <1>2, <1>9, <1>10
<1>12. ASSUME NEW k \in Slots, w[k - 1] \in S PROVE w[k] \in S
  <2>1. w[k] = Merge(w[k - 1], i, k)
    BY <1>5, <1>9
  <2> QED
    BY <1>3, <1>12, <2>1
<1>13. \A k \in 0 .. NumArenas : w[k] \in S
  BY <1>1, <1>11, <1>12, LoopStays
<1> QED
  BY <1>4, <1>10, <1>13 DEF S

(* All arenas.                                                             *)
LEMMA MergedFacts ==
  ASSUME NEW top \in Int, top >= NULL, NEW t \in ArenaTables(top)
  PROVE  Merged(t) \in Kept(t, top)
<1> DEFINE S == Kept(t, top)
           step == [x \in Slots \X S |-> MergedWith(x[2], x[1])]
           Rounds(f) == [k \in 0 .. NumArenas |->
             IF k = 0 THEN t ELSE MergedWith(f[k - 1], k)]
           w == CHOOSE f : f = Rounds(f)
<1>1. NumArenas \in Nat /\ Slots = 1 .. NumArenas
  BY ArenaConstants DEF Slots
<1>2. t \in S
  BY DEF Kept, SameHeld
<1>3. ASSUME NEW k \in Slots, NEW u \in S PROVE MergedWith(u, k) \in S
  <2>1. u \in ArenaTables(top) /\ SameHeld(t, u)
    BY DEF Kept
  <2>2. MergedWith(u, k) \in ArenaTables(top) /\ SameHeld(u, MergedWith(u, k))
    BY <2>1, MergedWithFacts DEF Kept
  <2> QED
    BY <2>1, <2>2, SameHeldTwice DEF Kept
<1>4. Merged(t) = w[NumArenas]
  BY DEF Merged
<1>5. \A k \in Slots : k \in 0 .. NumArenas /\ k - 1 \in 0 .. NumArenas /\ k # 0
  BY <1>1
<1> HIDE DEF S
<1>6. step \in [Slots \X S -> S]
  BY <1>3
<1> HIDE DEF step
<1>7. PICK f : History(f, NumArenas, S, t, step)
  BY <1>1, <1>2, <1>6, LoopRuns
<1>8. f = Rounds(f)
  <2>1. ASSUME NEW k \in Slots PROVE f[k] = MergedWith(f[k - 1], k)
    <3>1. f[k - 1] \in S /\ f[k] = step[<<k, f[k - 1]>>]
      BY <1>1, <1>5, <1>7 DEF History
    <3> QED
      BY <3>1 DEF step
  <2>2. \A k \in 0 .. NumArenas : k # 0 => k \in Slots
    BY <1>1
  <2> QED
    BY <1>7, <2>1, <2>2 DEF History
<1>9. w = Rounds(w)
  BY <1>8, Zenon
<1> HIDE DEF w
<1>10. 0 \in 0 .. NumArenas /\ NumArenas \in 0 .. NumArenas
  BY <1>1
<1>11. w[0] \in S
  BY <1>2, <1>9, <1>10
<1>12. ASSUME NEW k \in Slots, w[k - 1] \in S PROVE w[k] \in S
  <2>1. w[k] = MergedWith(w[k - 1], k)
    BY <1>5, <1>9
  <2> QED
    BY <1>3, <1>12, <2>1
<1>13. \A k \in 0 .. NumArenas : w[k] \in S
  BY <1>1, <1>11, <1>12, LoopStays
<1> QED
  BY <1>4, <1>10, <1>13 DEF S

(* The voids.                                                              *)
LEMMA DefragmentFacts ==
  ASSUME NEW top \in Int, top >= NULL, NEW t \in ArenaTables(top)
  PROVE  Defragment(t) \in Kept(t, top)
<1> DEFINE S == Kept(t, top)
           step == [x \in Slots \X S |-> Fill(x[2], x[1])]
           Rounds(f) == [k \in 0 .. NumArenas |->
             IF k = 0 THEN Merged(t) ELSE Fill(f[k - 1], k)]
           w == CHOOSE f : f = Rounds(f)
<1>1. NumArenas \in Nat /\ Slots = 1 .. NumArenas
  BY ArenaConstants DEF Slots
<1>2. Merged(t) \in S
  BY MergedFacts
<1>3. ASSUME NEW k \in Slots, NEW u \in S PROVE Fill(u, k) \in S
  <2>1. u \in ArenaTables(top) /\ SameHeld(t, u)
    BY DEF Kept
  <2>2. Fill(u, k) \in ArenaTables(top) /\ SameHeld(u, Fill(u, k))
    BY <2>1, FillFacts
  <2> QED
    BY <2>1, <2>2, SameHeldTwice DEF Kept
<1>4. Defragment(t) = w[NumArenas]
  BY DEF Defragment
<1>5. \A k \in Slots : k \in 0 .. NumArenas /\ k - 1 \in 0 .. NumArenas /\ k # 0
  BY <1>1
<1> HIDE DEF S
<1>6. step \in [Slots \X S -> S]
  BY <1>3
<1> HIDE DEF step
<1>7. PICK f : History(f, NumArenas, S, Merged(t), step)
  BY <1>1, <1>2, <1>6, LoopRuns
<1>8. f = Rounds(f)
  <2>1. ASSUME NEW k \in Slots PROVE f[k] = Fill(f[k - 1], k)
    <3>1. f[k - 1] \in S /\ f[k] = step[<<k, f[k - 1]>>]
      BY <1>1, <1>5, <1>7 DEF History
    <3> QED
      BY <3>1 DEF step
  <2>2. \A k \in 0 .. NumArenas : k # 0 => k \in Slots
    BY <1>1
  <2> QED
    BY <1>7, <2>1, <2>2 DEF History
<1>9. w = Rounds(w)
  BY <1>8, Zenon
<1> HIDE DEF w
<1>10. 0 \in 0 .. NumArenas /\ NumArenas \in 0 .. NumArenas
  BY <1>1
<1>11. w[0] \in S
  BY <1>2, <1>9, <1>10
<1>12. ASSUME NEW k \in Slots, w[k - 1] \in S PROVE w[k] \in S
  <2>1. w[k] = Fill(w[k - 1], k)
    BY <1>5, <1>9
  <2> QED
    BY <1>3, <1>12, <2>1
<1>13. \A k \in 0 .. NumArenas : w[k] \in S
  BY <1>1, <1>11, <1>12, LoopStays
<1> QED
  BY <1>4, <1>10, <1>13 DEF S

(* The entry that an allocation gives is in use from then on, and counts   *)
(* for the address that is returned.                                       *)
LEMMA GivenFacts ==
  ASSUME NEW t \in ArenaTables(MaxAddr), NEW size \in Nat,
         NEW new, new = Allocated(t, size)
  PROVE  /\ new.table \in ArenaTables(MaxAddr + size)
         /\ new.address \in NULL .. MaxAddr
         /\ \A a \in Nat : Cardinality(HeldAt(new.table, a)) =
              IF a = new.address THEN Cardinality(HeldAt(t, a)) + 1 ELSE Cardinality(HeldAt(t, a))
<1> DEFINE fits == {k \in DOMAIN t : ~t[k].inUse /\ t[k].size >= size}
           i == Min(fits)
<1>1. MaxAddr \in Nat /\ NumArenas \in Nat /\ NULL = -1 /\ Slots \in SUBSET Nat
  BY ArenaConstants DEF NULL, Slots
<1>2. /\ DOMAIN t = Slots
      /\ \A k \in Slots : t[k] \in Entries(MaxAddr) /\ t[k] \in Entries(MaxAddr + size)
  BY <1>1 DEF ArenaTables, Entries
<1>3. t \in ArenaTables(MaxAddr + size)
  BY <1>2 DEF ArenaTables
<1>4. CASE fits = {}
  <2>1. new.table = t /\ new.address = -1
    BY <1>1, <1>4 DEF Allocated
  <2> QED
    BY <1>1, <1>3, <2>1
<1>5. ASSUME fits # {}
      PROVE  /\ i \in Slots /\ ~t[i].inUse /\ t[i].size >= size
             /\ t[i].base \in NULL .. MaxAddr /\ t[i].size \in Nat
             /\ t[i].base = NULL => t[i].size = 0
  <2>1. fits \in SUBSET Nat
    BY <1>1, <1>2
  <2>2. i \in fits
    BY <1>5, <2>1, MinFacts
  <2>3. i \in Slots /\ ~t[i].inUse /\ t[i].size >= size
    BY <1>2, <2>2
  <2> HIDE DEF i, fits
  <2> QED
    BY <1>2, <2>3 DEF Entries
<1>6. fits # {} => new = IF t[i].size > size THEN Split(t, i, size)
                         ELSE [table |-> [t EXCEPT ![i].inUse = TRUE], address |-> t[i].base]
  BY DEF Allocated
<1> HIDE DEF fits, i
\* an entry that is not in use is taken into use, and no other changes that
<1>7. ASSUME fits # {}, NEW u,
             \A k \in Slots : k # i => u[k] = t[k] \/ (~u[k].inUse /\ ~t[k].inUse),
             u[i].inUse, u[i].base = t[i].base
      PROVE  \A a \in Nat : Cardinality(HeldAt(u, a)) =
               IF a = t[i].base THEN Cardinality(HeldAt(t, a)) + 1 ELSE Cardinality(HeldAt(t, a))
  <2> TAKE a \in Nat
  <2>1. i \in Slots /\ i \notin HeldAt(t, a)
    BY <1>5, <1>7 DEF HeldAt
  <2>2. HeldAt(u, a) = IF a = t[i].base THEN HeldAt(t, a) \cup {i} ELSE HeldAt(t, a)
    BY <1>7, <2>1 DEF HeldAt
  <2>3. Cardinality(HeldAt(t, a) \cup {i}) = Cardinality(HeldAt(t, a)) + 1
    BY <2>1, HeldFinite
  <2> QED
    BY <2>2, <2>3
<1>8. CASE fits # {} /\ ~(t[i].size > size)
  <2> DEFINE u == [t EXCEPT ![i].inUse = TRUE]
  <2>1. new.table = u /\ new.address = t[i].base
    <3>1. new = [table |-> u, address |-> t[i].base]
      BY <1>6, <1>8, Zenon
    <3> QED
      BY <3>1
  <2>2. u \in ArenaTables(MaxAddr + size)
    BY <1>2, <1>3, <1>5, <1>8 DEF ArenaTables, Entries
  <2>3. u[i].inUse /\ u[i].base = t[i].base /\ \A k \in Slots : k # i => u[k] = t[k]
    BY <1>2, <1>5, <1>8 DEF Entries
  <2> HIDE DEF u
  <2>4. \A a \in Nat : Cardinality(HeldAt(u, a)) =
          IF a = t[i].base THEN Cardinality(HeldAt(t, a)) + 1 ELSE Cardinality(HeldAt(t, a))
    BY <1>7, <1>8, <2>3
  <2> QED
    BY <1>5, <1>8, <2>1, <2>2, <2>4
<1>9. CASE fits # {} /\ t[i].size > size
  <2> DEFINE rests == {k \in DOMAIN t : ~t[k].inUse /\ t[k].base = NULL}
             r == Min(rests)
             rest == [base |-> t[i].base + size, size |-> size, inUse |-> FALSE]
             u == [t EXCEPT ![i].size = size, ![i].inUse = TRUE, ![r] = rest]
  <2>0. new = Split(t, i, size)
    BY <1>6, <1>9
  <2>1. CASE rests = {}
    <3>1. new.table = t /\ new.address = -1
      BY <1>1, <2>0, <2>1 DEF Split
    <3> QED
      BY <1>1, <1>3, <3>1
  <2>2. CASE rests # {}
    <3>1. new.table = Defragment(u) /\ new.address = t[i].base
      BY <2>0, <2>2 DEF Split
    <3>2. r \in Slots /\ ~t[r].inUse /\ t[r].base = NULL
      <4>1. rests \in SUBSET Nat
        BY <1>1, <1>2
      <4>2. r \in rests
        BY <2>2, <4>1, MinFacts
      <4> QED
        BY <1>2, <4>2
    <3> HIDE DEF r
    <3>3. t[i].base # NULL /\ r # i /\ t[i].base \in 0 .. MaxAddr
      BY <1>1, <1>5, <1>9, <3>2
    <3>4. rest \in Entries(MaxAddr + size) /\ ~rest.inUse
      BY <1>1, <3>3 DEF Entries
    <3> DEFINE e == [t[i] EXCEPT !.size = size, !.inUse = TRUE]
    <3>5. e \in Entries(MaxAddr + size) /\ e.inUse /\ e.base = t[i].base
      BY <1>2, <1>5, <1>9, <3>3 DEF Entries
    <3>6. u = [[t EXCEPT ![i] = e] EXCEPT ![r] = rest]
      BY <1>2, <1>5, <1>9, <3>2, <3>3
    <3> HIDE DEF e, rest, u
    <3>7. /\ u \in ArenaTables(MaxAddr + size) /\ u[i] = e /\ u[r] = rest
          /\ \A k \in Slots : k # i /\ k # r => u[k] = t[k]
      BY <1>3, <1>5, <1>9, <3>2, <3>3, <3>4, <3>5, <3>6 DEF ArenaTables
    <3>8. MaxAddr + size \in Int /\ MaxAddr + size >= NULL
      BY <1>1
    <3>9. Defragment(u) \in ArenaTables(MaxAddr + size) /\ SameHeld(u, Defragment(u))
      BY <3>7, <3>8, DefragmentFacts DEF Kept
    <3>10. \A k \in Slots : k # i => u[k] = t[k] \/ (~u[k].inUse /\ ~t[k].inUse)
      BY <3>2, <3>4, <3>7
    <3>11. \A a \in Nat : Cardinality(HeldAt(u, a)) =
             IF a = t[i].base THEN Cardinality(HeldAt(t, a)) + 1 ELSE Cardinality(HeldAt(t, a))
      BY <1>7, <1>9, <3>5, <3>7, <3>10
    <3> QED
      BY <1>5, <1>9, <3>1, <3>9, <3>11 DEF SameHeld
  <2> QED
    BY <2>1, <2>2
<1> QED
  BY <1>4, <1>8, <1>9

(* What HeldKept counts.                                                   *)
LEMMA HeldKeptMeans ==
  ASSUME ArenaOK
  PROVE  HeldKept <=> \A a \in 0 .. MaxAddr : given[a] = Cardinality(HeldAt(arenas, a))
BY DEF ArenaOK, ArenaTables, HeldKept, HeldAt

LEMMA HeldKeptMeansNext ==
  ASSUME ArenaOK'
  PROVE  HeldKept' <=> \A a \in 0 .. MaxAddr : given'[a] = Cardinality(HeldAt(arenas', a))
BY DEF ArenaOK, ArenaTables, HeldKept, HeldAt

LEMMA AllocStep ==
  ASSUME ArenaOK, HeldKept, NEW size \in AllocSizes, Alloc(size)
  PROVE  ArenaOK' /\ HeldKept'
<1> DEFINE new == Allocated(arenas, size)
<1>1. MaxAddr \in Nat /\ NULL = -1 /\ size \in Nat
  BY ArenaConstants DEF NULL
<1>2. arenas \in ArenaTables(MaxAddr) /\ DOMAIN given = 0 .. MaxAddr
  BY DEF ArenaOK
<1>3. \A a \in 0 .. MaxAddr : given[a] = Cardinality(HeldAt(arenas, a))
  BY HeldKeptMeans
<1>4. /\ new.table \in ArenaTables(MaxAddr + size)
      /\ new.address \in NULL .. MaxAddr
      /\ \A a \in Nat : Cardinality(HeldAt(new.table, a)) =
           IF a = new.address THEN Cardinality(HeldAt(arenas, a)) + 1
           ELSE Cardinality(HeldAt(arenas, a))
  BY <1>1, <1>2, GivenFacts
<1>5. /\ \A i \in DOMAIN new.table : new.table[i].base + new.table[i].size <= MaxAddr
      /\ arenas' = new.table
      /\ given' = IF new.address = NULL THEN given ELSE [given EXCEPT ![new.address] = @ + 1]
  BY DEF Alloc
<1> HIDE DEF new
<1>6. arenas' \in ArenaTables(MaxAddr)
  <2>1. ASSUME NEW i \in Slots PROVE new.table[i] \in Entries(MaxAddr)
    <3>1. /\ new.table[i] \in Entries(MaxAddr + size)
          /\ new.table[i].base + new.table[i].size <= MaxAddr
      BY <1>4, <1>5 DEF ArenaTables
    <3>2. new.table[i].base \in Int /\ new.table[i].base >= NULL /\ new.table[i].size \in Nat
      BY <1>1, <3>1 DEF Entries
    <3>3. new.table[i].base \in NULL .. MaxAddr
      BY <1>1, <3>1, <3>2
    <3> QED
      BY <3>1, <3>3 DEF Entries
  <2> QED
    BY <1>4, <1>5, <2>1 DEF ArenaTables
<1>7. DOMAIN given' = 0 .. MaxAddr
  BY <1>2, <1>5
<1>8. ArenaOK'
  BY <1>6, <1>7 DEF ArenaOK
<1>9. \A a \in 0 .. MaxAddr : given'[a] = Cardinality(HeldAt(arenas', a))
  <2> TAKE a \in 0 .. MaxAddr
  <2>1. a \in Nat /\ a # NULL
    BY <1>1
  <2>2. given'[a] = IF a = new.address THEN given[a] + 1 ELSE given[a]
    BY <1>2, <1>5, <2>1
  <2> QED
    BY <1>3, <1>4, <1>5, <2>1, <2>2
<1> QED
  BY <1>8, <1>9, HeldKeptMeansNext

LEMMA ReleaseStep ==
  ASSUME ArenaOK, HeldKept, NEW address \in 0 .. MaxAddr, Release(address)
  PROVE  ArenaOK' /\ HeldKept'
<1> DEFINE held == {i \in DOMAIN arenas : arenas[i].inUse /\ arenas[i].base = address}
           i == Min(held)
           u == [arenas EXCEPT ![i].inUse = FALSE]
<1>1. MaxAddr \in Int /\ MaxAddr >= NULL /\ Slots \in SUBSET Nat
  BY ArenaConstants DEF NULL, Slots
<1>2. arenas \in ArenaTables(MaxAddr) /\ DOMAIN given = 0 .. MaxAddr /\ DOMAIN arenas = Slots
  BY DEF ArenaOK, ArenaTables
<1>3. \A a \in 0 .. MaxAddr : given[a] = Cardinality(HeldAt(arenas, a))
  BY HeldKeptMeans
<1>4. held # {} /\ arenas' = Defragment(u) /\ given' = [given EXCEPT ![address] = @ - 1]
  BY DEF Release
<1>5. i \in HeldAt(arenas, address) /\ i \in Slots
  <2>1. held \in SUBSET Nat
    BY <1>1, <1>2
  <2>2. i \in held
    BY <1>4, <2>1, MinFacts
  <2> QED
    BY <1>2, <2>2 DEF HeldAt
<1> HIDE DEF held, i
<1>6. /\ u \in ArenaTables(MaxAddr) /\ ~u[i].inUse
      /\ \A k \in Slots : k # i => u[k] = arenas[k]
  BY <1>2, <1>5 DEF ArenaTables, Entries
<1> HIDE DEF u
<1>7. arenas' \in ArenaTables(MaxAddr) /\ SameHeld(u, arenas')
  BY <1>1, <1>4, <1>6, DefragmentFacts DEF Kept
<1>8. ArenaOK'
  BY <1>2, <1>4, <1>7 DEF ArenaOK
<1>9. \A a \in 0 .. MaxAddr : given'[a] = Cardinality(HeldAt(arenas', a))
  <2> TAKE a \in 0 .. MaxAddr
  <2>1. HeldAt(u, a) = IF a = address THEN HeldAt(arenas, a) \ {i} ELSE HeldAt(arenas, a)
    BY <1>5, <1>6 DEF HeldAt
  <2>2. Cardinality(HeldAt(arenas, address) \ {i}) = Cardinality(HeldAt(arenas, address)) - 1
    BY <1>5, HeldFinite
  <2>3. Cardinality(HeldAt(u, a)) = Cardinality(HeldAt(arenas', a))
    BY <1>7 DEF SameHeld
  <2>4. given'[a] = IF a = address THEN given[a] - 1 ELSE given[a]
    BY <1>2, <1>4
  <2> QED
    BY <1>3, <2>1, <2>2, <2>3, <2>4
<1> QED
  BY <1>8, <1>9, HeldKeptMeansNext

LEMMA ArenaInitial ==
  ASSUME arenaInit
  PROVE  ArenaOK /\ HeldKept
<1>1. MaxAddr \in Nat /\ Total \in Nat /\ NULL = -1
  BY ArenaConstants DEF NULL
<1>2. arenas = [i \in Slots |-> IF i = 1 THEN [base |-> 0, size |-> Total, inUse |-> FALSE] ELSE Poor]
  BY DEF arenaInit, Slots
<1>3. Poor \in Entries(MaxAddr) /\ ~Poor.inUse
  BY <1>1 DEF Poor, Entries
<1>4. [base |-> 0, size |-> Total, inUse |-> FALSE] \in Entries(MaxAddr)
  BY <1>1 DEF Entries
<1>5. ArenaOK
  BY <1>2, <1>3, <1>4 DEF ArenaOK, ArenaTables, arenaInit
<1>6. \A a : HeldAt(arenas, a) = {}
  BY <1>2, <1>3 DEF HeldAt
<1>7. \A a \in 0 .. MaxAddr : given[a] = Cardinality(HeldAt(arenas, a))
  BY <1>6, FS_EmptySet DEF arenaInit
<1> QED
  BY <1>5, <1>7, HeldKeptMeans

(* However the table of arenas is split, merged and moved together, an     *)
(* address that was given and not freed keeps one entry for every time it  *)
(* was given, in tables of every size (sysarena.c:137-163).                *)
THEOREM GivenStaysHeld == arenaSpec => []HeldKept
<1>1. arenaInit => ArenaOK /\ HeldKept
  BY ArenaInitial
<1>2. ArenaOK /\ HeldKept /\ [arenaNext]_arenaVars => ArenaOK' /\ HeldKept'
  <2> SUFFICES ASSUME ArenaOK, HeldKept, [arenaNext]_arenaVars
               PROVE  ArenaOK' /\ HeldKept'
    OBVIOUS
  <2>1. CASE UNCHANGED arenaVars
    BY <2>1 DEF arenaVars, ArenaOK, HeldKept
  <2> QED
    BY <2>1, AllocStep, ReleaseStep DEF arenaNext
<1> QED
  BY <1>1, <1>2, PTL DEF arenaSpec
=============================================================================
