----------------------------- MODULE TasksProofs -----------------------------
(***************************************************************************)
(* Proofs about Tasks, for every number of pids, pages, regions, mailboxes *)
(* and descriptors and whatever the heap leaves in a new task: the types,  *)
(* that live tasks differ in their pids, that descriptors are counted,     *)
(* that no page has two owners and that waiting messages stay.             *)
(*                                                                         *)
(* Every system call ends in Switch, which changes the status of tasks and *)
(* nothing else of them (SwitchFacts); what remains of a call is one of    *)
(* the kinds of step below, each with a lemma about what it preserves.     *)
(***************************************************************************)
EXTENDS Tasks, ProofLemmas, FiniteSetTheorems

(* What kill frees of a task's memory is the task's, and so is the mailbox *)
(* of a live one.                                                          *)
MainsOwned ==
  hit \cap {"stale", "oom"} = {} =>
    \A k \in 1 .. count : MainPages(task[k]) \subseteq held[k]
BoxesOwned == hit = {} => \A k \in Live : task[k].mailbox \in held[k]

Inv ==
  /\ TypeOK /\ LivePidsDistinct /\ FdsCounted
  /\ NoSharedPage /\ MainsOwned /\ BoxesOwned

-----------------------------------------------------------------------------
(* Constants. *)

LEMMA ConstantFacts ==
  /\ MaxTasks \in Nat /\ MaxPid \in Nat \ {0} /\ MaxMsg \in Nat \ {0}
  /\ MaxRefs \in Nat \ {0} /\ MaxFds \in Nat \ {0} /\ MaxRegions \in Nat \ {0}
  /\ Fids \subseteq Nat /\ 0 \in Fids
  /\ Pages \subseteq Nat /\ Null \in Pages
  /\ None = -1 /\ None \notin Fids
  /\ NoRegion \in Region /\ Leftovers \subseteq Region
BY TaskConstants DEF Pages, Null, None, NoRegion, Region

LEMMA FreedTyped == Freed \in Task
BY ConstantFacts DEF Freed, Task, Region, NoRegion

LEMMA NewTaskTyped ==
  ASSUME NEW pid \in 0 .. MaxPid - 1, NEW main \in Region,
         NEW mailbox \in Pages, NEW region \in Leftovers \cup {NoRegion}
  PROVE  NewTask(pid, main, mailbox, region) \in Task
BY ConstantFacts DEF NewTask, Task

LEMMA FewSubfds == IsFiniteSet(Subfds)
BY ConstantFacts, FS_Interval DEF Subfds

-----------------------------------------------------------------------------
(* The scheduler. *)

(* Between two tables of n tasks, all but their status is the same.        *)
SameButStatus(us, ts, n) ==
  \A k \in 1 .. n :
    /\ us[k].pid = ts[k].pid /\ us[k].main = ts[k].main
    /\ us[k].mailbox = ts[k].mailbox /\ us[k].regions = ts[k].regions
    /\ us[k].fds = ts[k].fds

Statuses == {"null", "running", "ready", "waiting"}
WithStatus(ts, k, s) == [ts EXCEPT ![k].status = s]

LEMMA StatusSet ==
  ASSUME NEW n \in Nat \ {0}, NEW ts \in [1 .. n -> Task], NEW k \in 1 .. n,
         NEW s \in Statuses
  PROVE  /\ WithStatus(ts, k, s) \in [1 .. n -> Task]
         /\ WithStatus(ts, k, s)[k].status = s
         /\ SameButStatus(WithStatus(ts, k, s), ts, n)
BY DEF Task, SameButStatus, WithStatus, Statuses

(* Some task is next whenever one is ready.                                *)
LEMMA NextReadyFacts ==
  ASSUME NEW n \in Nat \ {0}, NEW ts, current \in Int,
         \E k \in 1 .. n : ts[k].status = "ready"
  PROVE  NextReady(ts, n) \in 1 .. n /\ ts[NextReady(ts, n)].status = "ready"
<1> DEFINE ready == {k \in 1 .. n : ts[k].status = "ready"}
           Ahead(k) == (current - k - 1) % n
           ahead == [k \in ready |-> Ahead(k)]
<1>1. ahead \in [ready -> Nat]
  <2> SUFFICES ASSUME NEW k \in ready PROVE Ahead(k) \in Nat
    OBVIOUS
  <2>1. current - k - 1 \in Int
    OBVIOUS
  <2> QED
    BY <2>1
<1>2. PICK k \in ready : \A j \in ready : ahead[k] <= ahead[j]
  <2> ready # {}
    OBVIOUS
  <2> HIDE DEF ready, ahead
  <2> QED
    BY <1>1, LeastFacts
<1>3. \E x \in ready : \A j \in ready : Ahead(x) <= Ahead(j)
  BY <1>2
<1>4. NextReady(ts, n) \in ready
  <2> HIDE DEF Ahead
  <2> QED
    BY <1>3, Zenon DEF NextReady, Ahead
<1> QED
  BY <1>4

(* Whoever runs next, it is a task of the list, and tasks keep all but     *)
(* their status.                                                           *)
LEMMA SwitchFacts ==
  ASSUME NEW n \in Nat \ {0}, NEW ts \in [1 .. n -> Task],
         current \in 1 .. n, Switch(ts, n)
  PROVE  /\ task' \in [1 .. n -> Task] /\ current' \in 1 .. n
         /\ SameButStatus(task', ts, n)
<1> DEFINE saved == WithStatus(ts, current, "ready")
           next == NextReady(saved, n)
<1>1. "ready" \in Statuses /\ "running" \in Statuses
  BY DEF Statuses
<1>2. /\ saved \in [1 .. n -> Task] /\ saved[current].status = "ready"
      /\ SameButStatus(saved, ts, n)
  BY <1>1, StatusSet
<1>3. task' = WithStatus(saved, next, "running") /\ current' = next
  BY DEF Switch, WithStatus
<1> HIDE DEF saved
<1>4. next \in 1 .. n
  BY <1>2, NextReadyFacts
<1>5. /\ WithStatus(saved, next, "running") \in [1 .. n -> Task]
      /\ SameButStatus(WithStatus(saved, next, "running"), saved, n)
  BY <1>1, <1>2, <1>4, StatusSet
<1> QED
  BY <1>2, <1>3, <1>4, <1>5 DEF SameButStatus

-----------------------------------------------------------------------------
(* What steps that make no task preserve. *)

(* The references that live tasks have to a global descriptor.             *)
Uses(f) == {u \in Live \X Subfds : task[u[1]].fds[u[2]] = f}

LEMMA FewPairs ==
  ASSUME NEW n \in Nat, NEW S \in SUBSET ((1 .. n) \X Subfds)
  PROVE  IsFiniteSet(S) /\ Cardinality(S) \in Nat
<1>1. IsFiniteSet(1 .. n)
  BY FS_Interval
<1>2. IsFiniteSet((1 .. n) \X Subfds)
  BY <1>1, FewSubfds, FS_Product
<1> QED
  BY <1>2, FS_Subset, FS_CardinalityType

LEMMA FewUses ==
  ASSUME TypeOK, NEW f
  PROVE  /\ IsFiniteSet(Uses(f)) /\ Cardinality(Uses(f)) \in Nat
         /\ Uses(f) \subseteq (1 .. count) \X Subfds
<1>1. Uses(f) \in SUBSET ((1 .. count) \X Subfds) /\ count \in Nat
  BY DEF Uses, Live, TypeOK
<1> QED
  BY <1>1, FewPairs

LEMMA PidsStay ==
  ASSUME LivePidsDistinct, count' = count, freed \subseteq freed',
         \A k \in Live' : task'[k].pid = task[k].pid
  PROVE  LivePidsDistinct'
<1>1. Live' \subseteq Live
  BY DEF Live
<1> QED
  BY <1>1 DEF LivePidsDistinct

(* Descriptors that are forgotten, and references that are not, do no harm *)
(* to the count.                                                           *)
LEMMA FdsStay ==
  ASSUME TypeOK, FdsCounted, hit \subseteq hit', count' = count,
         freed \subseteq freed', refs' \in [Fids -> Nat],
         \A f \in Fids : refs'[f] >= refs[f],
         \A k \in Live', i \in Subfds :
           task'[k].fds[i] = task[k].fds[i] \/ task'[k].fds[i] = None
  PROVE  FdsCounted'
<1> SUFFICES ASSUME "dead" \notin hit', NEW f \in Fids
             PROVE  refs'[f] >= Cardinality(Uses(f)')
  BY DEF FdsCounted, Uses
<1>1. Live' \subseteq Live
  BY DEF Live
<1>2. Uses(f)' \subseteq Uses(f)
  <2> SUFFICES ASSUME NEW u \in Uses(f)' PROVE u \in Uses(f)
    OBVIOUS
  <2>1. u \in Live' \X Subfds /\ task'[u[1]].fds[u[2]] = f
    BY DEF Uses
  <2>2. u[1] \in Live' /\ u[2] \in Subfds
    BY <2>1
  <2>3. task[u[1]].fds[u[2]] = f
    BY <2>1, <2>2, ConstantFacts
  <2> QED
    BY <1>1, <2>1, <2>3 DEF Uses
<1>3. /\ IsFiniteSet(Uses(f)) /\ Cardinality(Uses(f)) \in Nat
      /\ Cardinality(Uses(f)') \in Nat
      /\ Cardinality(Uses(f)') <= Cardinality(Uses(f))
  BY <1>2, FewUses, FS_Subset, FS_CardinalityType
<1>4. refs[f] >= Cardinality(Uses(f))
  BY DEF FdsCounted, Uses
<1>5. refs[f] \in Nat /\ refs'[f] \in Nat /\ refs'[f] >= refs[f]
  BY ConstantFacts DEF TypeOK
<1> QED
  BY <1>3, <1>4, <1>5

(* Tasks that stay where they are keep their pages.                        *)
LEMMA MemoryStays ==
  ASSUME NoSharedPage, MainsOwned, BoxesOwned,
         hit \subseteq hit', count' = count, freed' = freed, used' = used, held' = held,
         \A k \in 1 .. count :
           task'[k].main = task[k].main /\ task'[k].mailbox = task[k].mailbox
  PROVE  NoSharedPage' /\ MainsOwned' /\ BoxesOwned'
<1>1. NoSharedPage'
  BY DEF NoSharedPage
<1>2. MainsOwned'
  BY DEF MainsOwned, MainPages
<1>3. Live' = Live /\ Live \subseteq 1 .. count
  BY DEF Live
<1>4. BoxesOwned'
  BY <1>3 DEF BoxesOwned
<1> QED
  BY <1>1, <1>2, <1>4

-----------------------------------------------------------------------------
(* Calls that change the status of tasks and their messages only. *)

LEMMA SearchPidFacts ==
  ASSUME TypeOK, NEW ts \in [1 .. count -> Task], NEW pid \in Known(ts)
  PROVE  SearchPid(ts, pid) \in 1 .. count /\ ts[SearchPid(ts, pid)].pid = pid
<1> DEFINE S == {k \in 1 .. count : ts[k].pid = pid}
<1>1. count \in Nat
  BY DEF TypeOK
<1>2. S \in SUBSET Nat /\ S # {} /\ \A k \in S : k <= count
  BY <1>1 DEF Known
<1>3. Max(S) \in S
  BY <1>1, <1>2, MaxFacts
<1> QED
  BY <1>3 DEF SearchPid

LEMMA AwokenFacts ==
  ASSUME TypeOK, NEW ts \in [1 .. count -> Task], NEW pid \in Known(ts)
  PROVE  Awoken(ts, pid) \in [1 .. count -> Task] /\ SameButStatus(Awoken(ts, pid), ts, count)
<1> DEFINE k == SearchPid(ts, pid)
<1>1. k \in 1 .. count /\ count \in Nat \ {0} /\ "ready" \in Statuses
  BY SearchPidFacts DEF TypeOK, Statuses
<1>2. Awoken(ts, pid) = IF ts[k].status = "waiting" THEN WithStatus(ts, k, "ready") ELSE ts
  BY DEF Awoken, WithStatus
<1>3. SameButStatus(ts, ts, count)
  BY DEF SameButStatus
<1> HIDE DEF k
<1>4. /\ WithStatus(ts, k, "ready") \in [1 .. count -> Task]
      /\ SameButStatus(WithStatus(ts, k, "ready"), ts, count)
  BY <1>1, StatusSet
<1> QED
  BY <1>2, <1>3, <1>4

LEMMA AsleepFacts ==
  ASSUME TypeOK
  PROVE  Asleep(task) \in [1 .. count -> Task] /\ SameButStatus(Asleep(task), task, count)
<1>1. /\ count \in Nat \ {0} /\ current \in 1 .. count /\ "waiting" \in Statuses
      /\ task \in [1 .. count -> Task]
  BY DEF TypeOK, Statuses
<1>2. Asleep(task) = WithStatus(task, current, "waiting")
  BY DEF Asleep, WithStatus
<1> QED
  BY <1>1, <1>2, StatusSet

LEMMA TypedMail ==
  ASSUME TypeOK, NEW ts \in [1 .. count -> Task]
  PROVE  /\ Taken(ts) \in [Pages -> 0 .. MaxMsg]
         /\ \A pid \in Known(ts) : Posted(ts, pid) \in [Pages -> 0 .. MaxMsg]
<1>1. mail \in [Pages -> 0 .. MaxMsg] /\ MaxMsg \in Nat /\ current \in 1 .. count
  BY ConstantFacts DEF TypeOK
<1>2. \A k \in 1 .. count : ts[k].mailbox \in Pages
  BY DEF Task
<1>3. Taken(ts) \in [Pages -> 0 .. MaxMsg]
  BY <1>1, <1>2 DEF Taken
<1>4. ASSUME NEW pid \in Known(ts) PROVE Posted(ts, pid) \in [Pages -> 0 .. MaxMsg]
  BY <1>1, <1>2, SearchPidFacts DEF Posted
<1> QED
  BY <1>3, <1>4

LEMMA QuietStep ==
  ASSUME Inv, NEW ts \in [1 .. count -> Task], SameButStatus(ts, task, count),
         Switch(ts, count), Stays, mail' \in [Pages -> 0 .. MaxMsg],
         hit \subseteq hit', hit' \subseteq Mishaps
  PROVE  Inv'
<1>1. count \in Nat \ {0} /\ current \in 1 .. count /\ count \in 1 .. MaxTasks
  BY DEF Inv, TypeOK
<1>2. /\ task' \in [1 .. count -> Task] /\ current' \in 1 .. count
      /\ SameButStatus(task', ts, count)
  BY <1>1, SwitchFacts
<1>3. \A k \in 1 .. count :
        /\ task'[k].pid = task[k].pid /\ task'[k].main = task[k].main
        /\ task'[k].mailbox = task[k].mailbox /\ task'[k].fds = task[k].fds
  BY <1>2 DEF SameButStatus
<1>4. Live' \subseteq 1 .. count
  BY DEF Live, Stays
<1>5. TypeOK'
  BY <1>1, <1>2 DEF Inv, TypeOK, Stays
<1>6. LivePidsDistinct'
  BY <1>3, <1>4, PidsStay DEF Inv, Stays
<1>7. FdsCounted'
  <2>1. refs' \in [Fids -> Nat] /\ \A f \in Fids : refs'[f] >= refs[f]
    BY ConstantFacts DEF Inv, TypeOK, Stays
  <2> QED
    BY <1>3, <1>4, <2>1, FdsStay DEF Inv, Stays
<1>8. NoSharedPage' /\ MainsOwned' /\ BoxesOwned'
  BY <1>3, MemoryStays DEF Inv, Stays
<1> QED
  BY <1>5, <1>6, <1>7, <1>8 DEF Inv

LEMMA WaitStep == Inv /\ Wait => Inv'
<1> SUFFICES ASSUME Inv, Wait PROVE Inv'
  OBVIOUS
<1>1. mail' \in [Pages -> 0 .. MaxMsg] /\ hit \subseteq hit' /\ hit' \subseteq Mishaps
  BY DEF Inv, TypeOK, Wait
<1> QED
  BY <1>1, AsleepFacts, QuietStep DEF Inv, Wait

LEMMA YieldStep == Inv /\ Yield => Inv'
<1> SUFFICES ASSUME Inv, Yield PROVE Inv'
  OBVIOUS
<1>1. mail' \in [Pages -> 0 .. MaxMsg] /\ hit \subseteq hit' /\ hit' \subseteq Mishaps
  BY DEF Inv, TypeOK, Yield
<1>2. task \in [1 .. count -> Task] /\ SameButStatus(task, task, count)
  BY DEF Inv, TypeOK, SameButStatus
<1> QED
  BY <1>1, <1>2, QuietStep DEF Yield

LEMMA AwakeStep == \A pid : Inv /\ Awake(pid) => Inv'
<1> SUFFICES ASSUME NEW pid, Inv, Awake(pid) PROVE Inv'
  OBVIOUS
<1>1. mail' \in [Pages -> 0 .. MaxMsg] /\ hit \subseteq hit' /\ hit' \subseteq Mishaps
  BY DEF Inv, TypeOK, Awake
<1>2. TypeOK /\ task \in [1 .. count -> Task] /\ pid \in Known(task)
  BY DEF Inv, TypeOK, Awake
<1> QED
  BY <1>1, <1>2, AwokenFacts, QuietStep DEF Awake

LEMMA SendStep == \A pid : Inv /\ Send(pid) => Inv'
<1> SUFFICES ASSUME NEW pid, Inv, Send(pid) PROVE Inv'
  OBVIOUS
<1>1. TypeOK /\ task \in [1 .. count -> Task] /\ pid \in Known(task)
  BY DEF Inv, TypeOK, Send
<1>2. hit \subseteq hit' /\ hit' \subseteq Mishaps
  BY DEF Inv, TypeOK, Send, Mishaps
<1>3. mail' \in [Pages -> 0 .. MaxMsg]
  BY <1>1, TypedMail DEF Send
<1> QED
  BY <1>1, <1>2, <1>3, AwokenFacts, QuietStep DEF Send

LEMMA ReceiveStep == Inv /\ Receive => Inv'
<1> SUFFICES ASSUME Inv, Receive PROVE Inv'
  OBVIOUS
<1>1. TypeOK /\ task \in [1 .. count -> Task] /\ SameButStatus(task, task, count)
  BY DEF Inv, TypeOK, SameButStatus
<1>2. hit \subseteq hit' /\ hit' \subseteq Mishaps
  BY DEF Inv, TypeOK, Receive
<1>3. mail' \in [Pages -> 0 .. MaxMsg]
  BY <1>1, TypedMail DEF Receive
<1>4. CASE mail[task[current].mailbox] = 0
  BY <1>1, <1>2, <1>3, <1>4, AsleepFacts, QuietStep DEF Receive
<1>5. CASE mail[task[current].mailbox] # 0
  BY <1>1, <1>2, <1>3, <1>5, QuietStep DEF Receive
<1> QED
  BY <1>4, <1>5

-----------------------------------------------------------------------------
(* Calls that kill. *)

LEMMA TakingOff ==
  ASSUME NEW x \in Int, NEW y \in Int
  PROVE  Max({0, x - y}) \in Int /\ Max({0, x - y}) >= 0 /\ Max({0, x - y}) >= x - y
         /\ (Max({0, x - y}) = 0 \/ Max({0, x - y}) = x - y)
<1> DEFINE z == x - y
<1>1. z \in Int
  OBVIOUS
<1> HIDE DEF z
<1>2. \E m \in {0, z} : \A w \in {0, z} : m >= w
  BY <1>1
<1>3. Max({0, z}) \in {0, z} /\ \A w \in {0, z} : Max({0, z}) >= w
  BY <1>2, Zenon DEF Max
<1>4. Max({0, z}) \in Int /\ Max({0, z}) >= 0 /\ Max({0, z}) >= z
  BY <1>1, <1>3
<1> QED
  BY <1>3, <1>4 DEF z

LEMMA FewSubfdsOf ==
  ASSUME NEW fds, NEW f
  PROVE  /\ IsFiniteSet({i \in Subfds : fds[i] = f})
         /\ Cardinality({i \in Subfds : fds[i] = f}) \in Nat
<1>1. {i \in Subfds : fds[i] = f} \in SUBSET Subfds
  OBVIOUS
<1> QED
  BY <1>1, FewSubfds, FS_Subset, FS_CardinalityType

LEMMA DroppedFacts ==
  ASSUME TypeOK, NEW fds
  PROVE  /\ Dropped(fds) \in [Fids -> 0 .. MaxRefs]
         /\ \A f \in Fids :
              Dropped(fds)[f] >= refs[f] - Cardinality({i \in Subfds : fds[i] = f})
<1> SUFFICES ASSUME NEW f \in Fids
             PROVE  /\ Dropped(fds)[f] \in 0 .. MaxRefs
                    /\ Dropped(fds)[f] >= refs[f] - Cardinality({i \in Subfds : fds[i] = f})
  BY DEF Dropped
<1> DEFINE c == Cardinality({i \in Subfds : fds[i] = f})
<1>1. c \in Nat /\ refs[f] \in 0 .. MaxRefs /\ MaxRefs \in Nat
  <2>1. c \in Nat
    BY FewSubfdsOf
  <2> QED
    BY <2>1, ConstantFacts DEF TypeOK
<1>2. Dropped(fds)[f] = Max({0, refs[f] - c})
  BY DEF Dropped
<1> HIDE DEF c
<1>3. /\ Max({0, refs[f] - c}) \in Int /\ Max({0, refs[f] - c}) >= 0
      /\ Max({0, refs[f] - c}) >= refs[f] - c
      /\ (Max({0, refs[f] - c}) = 0 \/ Max({0, refs[f] - c}) = refs[f] - c)
  BY <1>1, TakingOff
<1>4. Max({0, refs[f] - c}) \in 0 .. MaxRefs
  BY <1>1, <1>3
<1> QED
  BY <1>2, <1>3, <1>4 DEF c

(* The references of a task are its part of the references there are.      *)
LEMMA UsesOfOne ==
  ASSUME TypeOK, NEW k \in Live, NEW f
  PROVE  Cardinality({u \in Uses(f) : u[1] # k})
           = Cardinality(Uses(f)) - Cardinality({i \in Subfds : task[k].fds[i] = f})
<1> DEFINE D == {i \in Subfds : task[k].fds[i] = f}
           K == {k} \X D
<1>1. IsFiniteSet(D) /\ Cardinality(D) \in Nat
  BY FewSubfdsOf
<1>2. IsFiniteSet({k}) /\ Cardinality({k}) = 1
  BY FS_Singleton
<1>3. Cardinality(K) = Cardinality(D)
  <2> HIDE DEF D
  <2>1. Cardinality({k} \X D) = Cardinality({k}) * Cardinality(D)
    BY <1>1, <1>2, FS_Product
  <2> QED
    BY <1>1, <1>2, <2>1
<1>4. K \subseteq Uses(f) /\ {u \in Uses(f) : u[1] # k} = Uses(f) \ K
  BY DEF Uses
<1>5. Uses(f) \cap K = K
  BY <1>4
<1> HIDE DEF K
<1>6. Cardinality(Uses(f) \ K) = Cardinality(Uses(f)) - Cardinality(Uses(f) \cap K)
  BY FewUses, FS_Difference
<1> QED
  BY <1>3, <1>4, <1>5, <1>6

LEMMA WithoutTyped ==
  ASSUME TypeOK, NEW k \in 1 .. count
  PROVE  /\ Without(k) \in [1 .. count -> Task] /\ Without(k)[k] = Freed
         /\ \A j \in 1 .. count : j # k => Without(k)[j] = task[j]
BY FreedTyped DEF TypeOK, Without

LEMMA FdsFreed ==
  ASSUME Inv, NEW k \in 1 .. count, FreeProc(k), hit \cup Strays(k) \subseteq hit',
         \A j \in 1 .. count : j # k => task'[j].fds = task[j].fds
  PROVE  FdsCounted'
<1> SUFFICES ASSUME "dead" \notin hit', NEW f \in Fids
             PROVE  refs'[f] >= Cardinality(Uses(f)')
  BY DEF FdsCounted, Uses
<1> DEFINE c == Cardinality({i \in Subfds : task[k].fds[i] = f})
<1>1. Alive(k) /\ "dead" \notin hit
  BY DEF Strays
<1>2. k \in Live /\ Live' = Live \ {k}
  BY <1>1 DEF Alive, Live, FreeProc
<1>3. Uses(f)' = {u \in Uses(f) : u[1] # k}
  BY <1>2 DEF Uses, Live
<1>4. Cardinality(Uses(f)') = Cardinality(Uses(f)) - c
  BY <1>2, <1>3, UsesOfOne DEF Inv
<1>5. refs[f] >= Cardinality(Uses(f))
  BY <1>1 DEF Inv, FdsCounted, Uses
<1>6. refs'[f] >= refs[f] - c
  BY DroppedFacts DEF Inv, FreeProc
<1>7. refs[f] \in Int /\ refs'[f] \in Int
  BY DroppedFacts, ConstantFacts DEF Inv, TypeOK, FreeProc
<1>8. c \in Nat /\ Cardinality(Uses(f)) \in Nat
  BY FewSubfdsOf, FewUses DEF Inv
<1> HIDE DEF c
<1> QED
  BY <1>4, <1>5, <1>6, <1>7, <1>8

(* What a killed task gives back is its own.                               *)
LEMMA MemoryFreed ==
  ASSUME Inv, NEW k \in 1 .. count, FreeProc(k), hit \cup Strays(k) \subseteq hit',
         \A j \in 1 .. count : j # k =>
           task'[j].main = task[j].main /\ task'[j].mailbox = task[j].mailbox,
         task'[k].main = NoRegion
  PROVE  NoSharedPage' /\ MainsOwned' /\ BoxesOwned'
<1>1. /\ count' = count /\ freed' = freed \cup {k} /\ held' = [held EXCEPT ![k] = {}]
      /\ held \in [1 .. count -> SUBSET Pages]
  BY DEF FreeProc, Inv, TypeOK
<1>2. ASSUME hit' \cap {"stale", "oom"} = {}
      PROVE  /\ hit \cap {"stale", "oom"} = {}
             /\ MainPages(task[k]) \cup RegionPieces(task[k]) \subseteq held[k]
  <2>1. hit \cap {"stale", "oom"} = {} /\ RegionPieces(task[k]) \subseteq held[k]
    BY <1>2 DEF Strays
  <2> QED
    BY <2>1 DEF Inv, MainsOwned
<1>3. NoSharedPage'
  <2> SUFFICES ASSUME hit' \cap {"stale", "oom"} = {}
               PROVE  /\ \A j \in 1 .. count : held'[j] \subseteq used'
                      /\ \A i, j \in 1 .. count : i # j => held'[i] \cap held'[j] = {}
    BY <1>1 DEF NoSharedPage
  <2>1. /\ \A j \in 1 .. count : held[j] \subseteq used
        /\ \A i, j \in 1 .. count : i # j => held[i] \cap held[j] = {}
    BY <1>2 DEF Inv, NoSharedPage
  <2>2. used' = used \ (MainPages(task[k]) \cup RegionPieces(task[k]))
    BY DEF FreeProc
  <2> QED
    BY <1>1, <1>2, <2>1, <2>2
<1>4. MainsOwned'
  <2> SUFFICES ASSUME hit' \cap {"stale", "oom"} = {}, NEW j \in 1 .. count
               PROVE  MainPages(task'[j]) \subseteq held'[j]
    BY <1>1 DEF MainsOwned
  <2>1. CASE j = k
    BY <2>1 DEF MainPages, NoRegion, Run
  <2>2. CASE j # k
    BY <1>1, <1>2, <2>2 DEF Inv, MainsOwned, MainPages
  <2> QED
    BY <2>1, <2>2
<1>5. BoxesOwned'
  <2>1. Live' = Live \ {k}
    BY <1>1 DEF Live
  <2> QED
    BY <1>1, <2>1 DEF BoxesOwned, Inv, Live
<1> QED
  BY <1>3, <1>4, <1>5

LEMMA FreeStep ==
  ASSUME Inv, NEW k \in 1 .. count, FreeProc(k),
         NEW ts \in [1 .. count -> Task], SameButStatus(ts, Without(k), count),
         Switch(ts, count), mail' \in [Pages -> 0 .. MaxMsg],
         hit \cup Strays(k) \subseteq hit', hit' \subseteq Mishaps
  PROVE  Inv'
<1>1. count \in Nat \ {0} /\ current \in 1 .. count /\ count \in 1 .. MaxTasks
  BY DEF Inv, TypeOK
<1>2. /\ task' \in [1 .. count -> Task] /\ current' \in 1 .. count
      /\ SameButStatus(task', ts, count)
  BY <1>1, SwitchFacts
<1>3. /\ \A j \in 1 .. count : j # k =>
           /\ task'[j].pid = task[j].pid /\ task'[j].main = task[j].main
           /\ task'[j].mailbox = task[j].mailbox /\ task'[j].fds = task[j].fds
      /\ task'[k].main = NoRegion
  <2>1. /\ Without(k)[k].main = NoRegion
        /\ \A j \in 1 .. count : j # k => Without(k)[j] = task[j]
    BY WithoutTyped DEF Freed, Inv
  <2>2. \A j \in 1 .. count :
          /\ task'[j].pid = Without(k)[j].pid /\ task'[j].main = Without(k)[j].main
          /\ task'[j].mailbox = Without(k)[j].mailbox /\ task'[j].fds = Without(k)[j].fds
    BY <1>2 DEF SameButStatus
  <2> QED
    BY <2>1, <2>2
<1>4. Live' \subseteq (1 .. count) \ {k}
  BY DEF Live, FreeProc
<1>5. TypeOK'
  BY <1>1, <1>2, DroppedFacts DEF Inv, TypeOK, FreeProc
<1>6. LivePidsDistinct'
  BY <1>3, <1>4, PidsStay DEF Inv, FreeProc
<1>7. FdsCounted'
  BY <1>3, FdsFreed
<1>8. NoSharedPage' /\ MainsOwned' /\ BoxesOwned'
  BY <1>3, MemoryFreed
<1> QED
  BY <1>5, <1>6, <1>7, <1>8 DEF Inv

LEMMA StraysTyped ==
  ASSUME NEW k
  PROVE  Strays(k) \cup {"dead"} \subseteq Mishaps
BY DEF Strays, Mishaps

LEMMA SameAsItself ==
  ASSUME NEW ts
  PROVE  SameButStatus(ts, ts, count)
BY DEF SameButStatus

LEMMA KillStep == \A pid : Inv /\ Kill(pid) => Inv'
<1> SUFFICES ASSUME NEW pid, Inv, Kill(pid) PROVE Inv'
  OBVIOUS
<1> DEFINE k == SearchPid(task, pid)
<1>1. TypeOK /\ task \in [1 .. count -> Task] /\ pid \in Known(task)
  BY DEF Inv, TypeOK, Kill
<1>2. k \in 1 .. count
  BY <1>1, SearchPidFacts
<1>3. /\ FreeProc(k) /\ Switch(Without(k), count) /\ hit' = hit \cup Strays(k)
      /\ mail' = mail
  BY DEF Kill
<1> HIDE DEF k
<1>4. Without(k) \in [1 .. count -> Task] /\ SameButStatus(Without(k), Without(k), count)
  BY <1>1, <1>2, WithoutTyped, SameAsItself
<1>5. mail' \in [Pages -> 0 .. MaxMsg] /\ hit' \subseteq Mishaps
  BY <1>1, <1>3, StraysTyped DEF TypeOK
<1> QED
  BY <1>2, <1>3, <1>4, <1>5, FreeStep

LEMMA SendOutsideStep == \A pid : Inv /\ SendOutside(pid) => Inv'
<1> SUFFICES ASSUME NEW pid, Inv, SendOutside(pid) PROVE Inv'
  OBVIOUS
<1> DEFINE k == SearchPid(task, task[current].pid)
<1>1. /\ TypeOK /\ task \in [1 .. count -> Task] /\ current \in 1 .. count
      /\ task[current].pid \in Known(task)
  BY DEF Inv, TypeOK, Known
<1>2. k \in 1 .. count
  BY <1>1, SearchPidFacts
<1>3. /\ FreeProc(k) /\ Switch(Awoken(Without(k), pid), count)
      /\ pid \in Known(Without(k)) /\ mail' = Posted(Without(k), pid)
      /\ hit' = hit \cup Strays(k) \cup {"dead"}
  BY DEF SendOutside
<1> HIDE DEF k
<1>4. Without(k) \in [1 .. count -> Task]
  BY <1>1, <1>2, WithoutTyped
<1>5. /\ Awoken(Without(k), pid) \in [1 .. count -> Task]
      /\ SameButStatus(Awoken(Without(k), pid), Without(k), count)
  BY <1>1, <1>3, <1>4, AwokenFacts
<1>6. mail' \in [Pages -> 0 .. MaxMsg]
  BY <1>1, <1>3, <1>4, TypedMail
<1>7. hit' \subseteq Mishaps /\ hit \cup Strays(k) \subseteq hit'
  BY <1>1, <1>3, StraysTyped DEF TypeOK
<1> QED
  BY <1>2, <1>3, <1>4, <1>5, <1>6, <1>7, FreeStep

LEMMA ReceiveOutsideStep == Inv /\ ReceiveOutside => Inv'
<1> SUFFICES ASSUME Inv, ReceiveOutside PROVE Inv'
  OBVIOUS
<1> DEFINE k == SearchPid(task, task[current].pid)
<1>1. /\ TypeOK /\ task \in [1 .. count -> Task] /\ current \in 1 .. count
      /\ task[current].pid \in Known(task)
  BY DEF Inv, TypeOK, Known
<1>2. k \in 1 .. count
  BY <1>1, SearchPidFacts
<1>3. /\ FreeProc(k) /\ Switch(Without(k), count) /\ mail' = Taken(Without(k))
      /\ hit' = hit \cup Strays(k) \cup {"dead"}
  BY DEF ReceiveOutside
<1> HIDE DEF k
<1>4. Without(k) \in [1 .. count -> Task] /\ SameButStatus(Without(k), Without(k), count)
  BY <1>1, <1>2, WithoutTyped, SameAsItself
<1>5. mail' \in [Pages -> 0 .. MaxMsg]
  BY <1>1, <1>3, <1>4, TypedMail
<1>6. hit' \subseteq Mishaps /\ hit \cup Strays(k) \subseteq hit'
  BY <1>1, <1>3, StraysTyped DEF TypeOK
<1> QED
  BY <1>2, <1>3, <1>4, <1>5, <1>6, FreeStep

-----------------------------------------------------------------------------
(* Calls on regions and descriptors. *)

LEMMA ReleaseMemStep == Inv /\ ReleaseMem => Inv'
<1> SUFFICES ASSUME Inv, ReleaseMem PROVE Inv'
  OBVIOUS
<1> DEFINE rs == task[current].regions
           full == {i \in Regions : \A j \in 1 .. i : rs[j].len # 0}
           pages == Pages \cap UNION {Run(rs[i].start, rs[i].len) : i \in full}
           spawned == MainPages(task[current]) \cup {task[current].mailbox}
<1>1. /\ used' = used \ pages /\ held' = [held EXCEPT ![current] = @ \ pages]
      /\ hit' = IF pages \subseteq held[current] \ spawned THEN hit ELSE hit \cup {"stale"}
      /\ Switch(task, count) /\ count' = count /\ gPid' = gPid /\ mail' = mail
      /\ refs' = refs /\ freed' = freed
  BY DEF ReleaseMem
<1> HIDE DEF pages
<1>2. /\ count \in Nat \ {0} /\ current \in 1 .. count /\ task \in [1 .. count -> Task]
      /\ held \in [1 .. count -> SUBSET Pages]
  BY DEF Inv, TypeOK
<1>3. /\ task' \in [1 .. count -> Task] /\ current' \in 1 .. count
      /\ SameButStatus(task', task, count)
  BY <1>1, <1>2, SwitchFacts
<1>4. \A k \in 1 .. count :
        /\ task'[k].pid = task[k].pid /\ task'[k].main = task[k].main
        /\ task'[k].mailbox = task[k].mailbox /\ task'[k].fds = task[k].fds
  BY <1>3 DEF SameButStatus
<1>5. Live' = Live /\ Live \subseteq 1 .. count
  BY <1>1 DEF Live
<1>6. hit \subseteq hit' /\ hit' \subseteq Mishaps
  BY <1>1 DEF Inv, TypeOK, Mishaps
<1>7. TypeOK'
  BY <1>1, <1>2, <1>3, <1>6 DEF Inv, TypeOK
<1>8. LivePidsDistinct'
  BY <1>1, <1>4, <1>5, PidsStay DEF Inv
<1>9. FdsCounted'
  <2>1. refs' \in [Fids -> Nat] /\ \A f \in Fids : refs'[f] >= refs[f]
    BY <1>1, ConstantFacts DEF Inv, TypeOK
  <2> QED
    BY <1>1, <1>4, <1>5, <1>6, <2>1, FdsStay DEF Inv
<1>10. ASSUME "stale" \notin hit'
       PROVE  pages \subseteq held[current] \ spawned
  BY <1>1, <1>10
<1>11. NoSharedPage'
  <2> SUFFICES ASSUME hit' \cap {"stale", "oom"} = {}
               PROVE  /\ \A k \in 1 .. count : held'[k] \subseteq used'
                      /\ \A j, k \in 1 .. count : j # k => held'[j] \cap held'[k] = {}
    BY <1>1 DEF NoSharedPage
  <2>1. /\ \A k \in 1 .. count : held[k] \subseteq used
        /\ \A j, k \in 1 .. count : j # k => held[j] \cap held[k] = {}
    BY <1>6 DEF Inv, NoSharedPage
  <2>2. pages \subseteq held[current]
    BY <1>10
  <2> QED
    BY <1>1, <1>2, <2>1, <2>2
<1>12. MainsOwned'
  <2> SUFFICES ASSUME hit' \cap {"stale", "oom"} = {}, NEW k \in 1 .. count
               PROVE  MainPages(task'[k]) \subseteq held'[k]
    BY <1>1 DEF MainsOwned
  <2>1. MainPages(task'[k]) = MainPages(task[k]) /\ MainPages(task[k]) \subseteq held[k]
    BY <1>4, <1>6 DEF Inv, MainsOwned, MainPages
  <2>2. k = current => MainPages(task[k]) \cap pages = {}
    BY <1>10
  <2> QED
    BY <1>1, <1>2, <2>1, <2>2
<1>13. BoxesOwned'
  <2> SUFFICES ASSUME hit' = {}, NEW k \in Live
               PROVE  task'[k].mailbox \in held'[k]
    BY <1>5 DEF BoxesOwned
  <2>1. task'[k].mailbox = task[k].mailbox /\ task[k].mailbox \in held[k]
    BY <1>4, <1>5, <1>6 DEF Inv, BoxesOwned
  <2>2. k = current => task[k].mailbox \notin pages
    BY <1>10
  <2> QED
    BY <1>1, <1>2, <1>5, <2>1, <2>2
<1> QED
  BY <1>7, <1>8, <1>9, <1>11, <1>12, <1>13 DEF Inv

LEMMA RegisterMemStep == \A n \in RegionPages : Inv /\ RegisterMem(n) => Inv'
<1> SUFFICES ASSUME NEW n \in RegionPages, Inv, RegisterMem(n) PROVE Inv'
  OBVIOUS
<1>1. PICK i \in Regions, s \in FreeRuns(n) :
        /\ used' = used \cup Run(s, n)
        /\ IF s = Null
           THEN Switch(task, count) /\ UNCHANGED held
           ELSE /\ Switch([task EXCEPT ![current].regions[i] =
                             [start |-> s, len |-> n]], count)
                /\ held' = [held EXCEPT ![current] = @ \cup Run(s, n)]
  BY DEF RegisterMem
<1>2. UNCHANGED <<count, gPid, mail, refs, freed, hit>>
  BY DEF RegisterMem
<1>3. /\ count \in Nat \ {0} /\ current \in 1 .. count /\ task \in [1 .. count -> Task]
      /\ held \in [1 .. count -> SUBSET Pages]
  BY DEF Inv, TypeOK
<1>4. Run(s, n) \subseteq Pages \ used /\ s \in Nat /\ n \in Nat
  BY ConstantFacts, TaskConstants DEF FreeRuns
<1> DEFINE ts == IF s = Null THEN task
                 ELSE [task EXCEPT ![current].regions[i] = [start |-> s, len |-> n]]
<1>5. /\ ts \in [1 .. count -> Task]
      /\ \A k \in 1 .. count :
           /\ ts[k].pid = task[k].pid /\ ts[k].main = task[k].main
           /\ ts[k].mailbox = task[k].mailbox /\ ts[k].fds = task[k].fds
  <2>1. [start |-> s, len |-> n] \in Region
    BY <1>4 DEF Region
  <2> HIDE DEF Region
  <2> QED
    BY <1>3, <2>1 DEF Task
<1>6. Switch(ts, count) /\ (held' = held \/ held' = [held EXCEPT ![current] = @ \cup Run(s, n)])
  BY <1>1
<1> HIDE DEF ts
<1>7. /\ task' \in [1 .. count -> Task] /\ current' \in 1 .. count
      /\ SameButStatus(task', ts, count)
  BY <1>3, <1>5, <1>6, SwitchFacts
<1>8. \A k \in 1 .. count :
        /\ task'[k].pid = task[k].pid /\ task'[k].main = task[k].main
        /\ task'[k].mailbox = task[k].mailbox /\ task'[k].fds = task[k].fds
  BY <1>5, <1>7 DEF SameButStatus
<1>9. Live' = Live /\ Live \subseteq 1 .. count
  BY <1>2 DEF Live
<1>10. TypeOK'
  BY <1>1, <1>2, <1>3, <1>4, <1>6, <1>7 DEF Inv, TypeOK
<1>11. LivePidsDistinct'
  BY <1>2, <1>8, <1>9, PidsStay DEF Inv
<1>12. FdsCounted'
  <2>1. refs' \in [Fids -> Nat] /\ \A f \in Fids : refs'[f] >= refs[f]
    BY <1>2, ConstantFacts DEF Inv, TypeOK
  <2> QED
    BY <1>2, <1>8, <1>9, <2>1, FdsStay DEF Inv
<1>13. \A k \in 1 .. count : held[k] \subseteq held'[k] /\ held'[k] \subseteq held[k] \cup Run(s, n)
  BY <1>3, <1>6
<1>14. NoSharedPage'
  <2> SUFFICES ASSUME hit \cap {"stale", "oom"} = {}
               PROVE  /\ \A k \in 1 .. count : held'[k] \subseteq used'
                      /\ \A j, k \in 1 .. count : j # k => held'[j] \cap held'[k] = {}
    BY <1>2 DEF NoSharedPage
  <2>1. /\ \A k \in 1 .. count : held[k] \subseteq used
        /\ \A j, k \in 1 .. count : j # k => held[j] \cap held[k] = {}
    BY DEF Inv, NoSharedPage
  <2>2. \A k \in 1 .. count : k # current => held'[k] = held[k]
    BY <1>3, <1>6
  <2>3. \A k \in 1 .. count : held'[k] \subseteq used'
    BY <1>1, <1>13, <2>1
  <2>4. ASSUME NEW j \in 1 .. count, NEW k \in 1 .. count, j # k
        PROVE  held'[j] \cap held'[k] = {}
    <3>1. held[j] \cap Run(s, n) = {} /\ held[k] \cap Run(s, n) = {}
      BY <1>4, <2>1
    <3>2. held'[j] = held[j] \/ held'[k] = held[k]
      BY <2>2, <2>4
    <3> QED
      BY <1>13, <2>1, <2>4, <3>1, <3>2
  <2> QED
    BY <2>3, <2>4
<1>15. MainsOwned'
  <2> SUFFICES ASSUME hit \cap {"stale", "oom"} = {}, NEW k \in 1 .. count
               PROVE  MainPages(task'[k]) \subseteq held'[k]
    BY <1>2 DEF MainsOwned
  <2> QED
    BY <1>8, <1>13 DEF Inv, MainsOwned, MainPages
<1>16. BoxesOwned'
  BY <1>2, <1>8, <1>9, <1>13 DEF Inv, BoxesOwned
<1> QED
  BY <1>10, <1>11, <1>12, <1>14, <1>15, <1>16 DEF Inv

(* Setting the descriptors of the task that calls.                         *)
LEMMA FdsSet ==
  ASSUME Inv, NEW fds \in [Subfds -> Fids \cup {None}],
         Switch([task EXCEPT ![current].fds = fds], count),
         UNCHANGED <<count, gPid, used, mail, freed, held, hit>>,
         refs' \in [Fids -> 0 .. MaxRefs]
  PROVE  /\ TypeOK' /\ LivePidsDistinct' /\ NoSharedPage' /\ MainsOwned' /\ BoxesOwned'
         /\ Live' = Live /\ current \in 1 .. count /\ task'[current].fds = fds
         /\ \A k \in 1 .. count : k # current => task'[k].fds = task[k].fds
<1>1. count \in Nat \ {0} /\ current \in 1 .. count /\ task \in [1 .. count -> Task]
  BY DEF Inv, TypeOK
<1> DEFINE ts == [task EXCEPT ![current].fds = fds]
<1>2. /\ ts \in [1 .. count -> Task] /\ ts[current].fds = fds
      /\ \A k \in 1 .. count :
           /\ ts[k].pid = task[k].pid /\ ts[k].main = task[k].main
           /\ ts[k].mailbox = task[k].mailbox
           /\ k # current => ts[k].fds = task[k].fds
  BY <1>1 DEF Task
<1> HIDE DEF ts
<1>3. Switch(ts, count)
  BY DEF ts
<1>4. /\ task' \in [1 .. count -> Task] /\ current' \in 1 .. count
      /\ SameButStatus(task', ts, count)
  BY <1>1, <1>2, <1>3, SwitchFacts
<1>5. /\ task'[current].fds = fds
      /\ \A k \in 1 .. count :
           /\ task'[k].pid = task[k].pid /\ task'[k].main = task[k].main
           /\ task'[k].mailbox = task[k].mailbox
           /\ k # current => task'[k].fds = task[k].fds
  BY <1>1, <1>2, <1>4 DEF SameButStatus
<1>6. Live' = Live /\ Live \subseteq 1 .. count
  BY DEF Live
<1>7. TypeOK'
  BY <1>1, <1>4 DEF Inv, TypeOK
<1>8. LivePidsDistinct'
  BY <1>5, <1>6, PidsStay DEF Inv
<1>9. NoSharedPage' /\ MainsOwned' /\ BoxesOwned'
  BY <1>5, MemoryStays DEF Inv
<1> QED
  BY <1>1, <1>5, <1>6, <1>7, <1>8, <1>9

LEMMA CloseStep == \A i \in Subfds : Inv /\ Close(i) => Inv'
<1> SUFFICES ASSUME NEW i \in Subfds, Inv, Close(i) PROVE Inv'
  OBVIOUS
<1>1. /\ current \in 1 .. count /\ task \in [1 .. count -> Task]
      /\ task[current].fds \in [Subfds -> Fids \cup {None}]
  BY DEF Inv, TypeOK, Task
<1> DEFINE fds == [task[current].fds EXCEPT ![i] = None]
<1>2. fds \in [Subfds -> Fids \cup {None}]
  BY <1>1
<1>3. [task EXCEPT ![current].fds[i] = None] = [task EXCEPT ![current].fds = fds]
  BY <1>1 DEF Task
<1>4. Switch([task EXCEPT ![current].fds = fds], count)
  BY <1>3 DEF Close
<1>5. /\ refs' = refs /\ refs \in [Fids -> 0 .. MaxRefs]
      /\ UNCHANGED <<count, gPid, used, mail, freed, held, hit>>
  BY DEF Inv, TypeOK, Close, Stays
<1>6. \A j \in Subfds : fds[j] = task[current].fds[j] \/ fds[j] = None
  BY <1>1
<1> HIDE DEF fds
<1>7. /\ TypeOK' /\ LivePidsDistinct' /\ NoSharedPage' /\ MainsOwned' /\ BoxesOwned'
      /\ Live' = Live /\ task'[current].fds = fds
      /\ \A k \in 1 .. count : k # current => task'[k].fds = task[k].fds
  BY <1>2, <1>4, <1>5, FdsSet
<1>8. FdsCounted'
  <2>1. refs' \in [Fids -> Nat] /\ \A f \in Fids : refs'[f] >= refs[f]
    BY <1>5, ConstantFacts
  <2>2. \A k \in Live', j \in Subfds :
          task'[k].fds[j] = task[k].fds[j] \/ task'[k].fds[j] = None
    BY <1>6, <1>7 DEF Live
  <2> QED
    BY <1>5, <2>1, <2>2, FdsStay DEF Inv
<1> QED
  BY <1>7, <1>8 DEF Inv

LEMMA OneMore ==
  ASSUME NEW S, IsFiniteSet(S), NEW x, NEW T \in SUBSET (S \cup {x})
  PROVE  /\ Cardinality(T) \in Nat /\ Cardinality(S) \in Nat
         /\ Cardinality(T) <= Cardinality(S) + 1
<1>1. /\ IsFiniteSet(S \cup {x})
      /\ Cardinality(S \cup {x}) = IF x \in S THEN Cardinality(S) ELSE Cardinality(S) + 1
  BY FS_AddElement
<1>2. IsFiniteSet(T) /\ Cardinality(T) <= Cardinality(S \cup {x})
  BY <1>1, FS_Subset
<1>3. Cardinality(S) \in Nat /\ Cardinality(T) \in Nat
  BY <1>2, FS_CardinalityType
<1> QED
  BY <1>1, <1>2, <1>3

(* One place takes one descriptor, whichever free place it is.             *)
LEMMA WithSubfdFacts ==
  ASSUME NEW fds \in [Subfds -> Fids \cup {None}], NEW fid \in Fids
  PROVE  /\ WithSubfd(fds, fid) \in [Subfds -> Fids \cup {None}]
         /\ \E p \in Subfds : \A i \in Subfds :
              i = p \/ WithSubfd(fds, fid)[i] = fds[i]
         /\ \A i \in Subfds : WithSubfd(fds, fid)[i] \in {fds[i], fid}
<1> DEFINE open == {i \in Subfds : fds[i] = None}
<1>1. CASE open = {}
  <2>1. WithSubfd(fds, fid) = fds /\ 0 \in Subfds
    BY <1>1, ConstantFacts DEF WithSubfd, Subfds
  <2> QED
    BY <2>1
<1>2. CASE open # {}
  <2>1. open \in SUBSET Nat /\ open \subseteq Subfds
    BY DEF Subfds
  <2>2. Min(open) \in open
    <3> HIDE DEF open
    <3> QED
      BY <1>2, <2>1, MinFacts
  <2>3. WithSubfd(fds, fid) = [fds EXCEPT ![Min(open)] = fid] /\ Min(open) \in Subfds
    BY <1>2, <2>1, <2>2 DEF WithSubfd
  <2> HIDE DEF open
  <2> QED
    BY <2>3
<1> QED
  BY <1>1, <1>2

LEMMA OpenGlobalStep == \A fid \in Fids : Inv /\ OpenGlobal(fid) => Inv'
<1> SUFFICES ASSUME NEW fid \in Fids, Inv, OpenGlobal(fid) PROVE Inv'
  OBVIOUS
<1>1. /\ current \in 1 .. count /\ task \in [1 .. count -> Task]
      /\ task[current].fds \in [Subfds -> Fids \cup {None}]
      /\ refs \in [Fids -> 0 .. MaxRefs] /\ refs[fid] < MaxRefs /\ MaxRefs \in Nat
      /\ refs' = [refs EXCEPT ![fid] = @ + 1]
      /\ UNCHANGED <<count, gPid, used, mail, freed, held, hit>>
  BY ConstantFacts DEF Inv, TypeOK, Task, OpenGlobal
<1> DEFINE fds == WithSubfd(task[current].fds, fid)
<1>2. /\ fds \in [Subfds -> Fids \cup {None}]
      /\ \E p \in Subfds : \A i \in Subfds : i = p \/ fds[i] = task[current].fds[i]
      /\ \A i \in Subfds : fds[i] \in {task[current].fds[i], fid}
  BY <1>1, WithSubfdFacts
<1>3. Switch([task EXCEPT ![current].fds = fds], count)
  BY <1>1 DEF OpenGlobal, Task
<1>4. refs' \in [Fids -> 0 .. MaxRefs]
  BY <1>1
<1> HIDE DEF fds
<1>5. /\ TypeOK' /\ LivePidsDistinct' /\ NoSharedPage' /\ MainsOwned' /\ BoxesOwned'
      /\ Live' = Live /\ task'[current].fds = fds
      /\ \A k \in 1 .. count : k # current => task'[k].fds = task[k].fds
  BY <1>1, <1>2, <1>3, <1>4, FdsSet
<1>6. PICK p \in Subfds : \A i \in Subfds : i = p \/ fds[i] = task[current].fds[i]
  BY <1>2
<1>7. FdsCounted'
  <2> SUFFICES ASSUME "dead" \notin hit, NEW f \in Fids
               PROVE  refs'[f] >= Cardinality(Uses(f)')
    BY <1>1 DEF FdsCounted, Uses
  <2>1. /\ refs[f] >= Cardinality(Uses(f)) /\ Cardinality(Uses(f)) \in Nat
        /\ IsFiniteSet(Uses(f)) /\ refs[f] \in Nat
    <3>1. refs[f] \in Nat
      BY <1>1
    <3> QED
      BY <3>1, FewUses DEF Inv, FdsCounted, Uses
  <2>2. \A u \in Uses(f)' :
          /\ u \in Live \X Subfds /\ u[1] \in 1 .. count /\ u[2] \in Subfds
          /\ task'[u[1]].fds[u[2]] = f
    BY <1>5 DEF Uses, Live
  <2>3. Uses(f)' \subseteq Uses(f) \cup {<<current, p>>}
    <3> SUFFICES ASSUME NEW u \in Uses(f)', u # <<current, p>> PROVE u \in Uses(f)
      OBVIOUS
    <3>1. task[u[1]].fds[u[2]] = task'[u[1]].fds[u[2]]
      <4>1. u = <<u[1], u[2]>>
        BY <2>2
      <4>2. u[1] # current \/ u[2] # p
        BY <4>1
      <4> QED
        BY <1>5, <1>6, <2>2, <4>2
    <3> QED
      BY <2>2, <3>1 DEF Uses
  <2>4. CASE f = fid
    <3>1. /\ Cardinality(Uses(f)') \in Nat
          /\ Cardinality(Uses(f)') <= Cardinality(Uses(f)) + 1
      BY <2>1, <2>3, OneMore
    <3>2. refs'[f] = refs[f] + 1
      BY <1>1, <2>4
    <3> QED
      BY <2>1, <3>1, <3>2
  <2>5. CASE f # fid
    <3>1. Uses(f)' \subseteq Uses(f)
      <4> SUFFICES ASSUME NEW u \in Uses(f)' PROVE u \in Uses(f)
        OBVIOUS
      <4>1. task[u[1]].fds[u[2]] = f
        BY <1>2, <1>5, <2>2, <2>5
      <4> QED
        BY <2>2, <4>1 DEF Uses
    <3>2. IsFiniteSet(Uses(f)') /\ Cardinality(Uses(f)') <= Cardinality(Uses(f))
      BY <2>1, <3>1, FS_Subset
    <3>3. Cardinality(Uses(f)') \in Nat
      BY <3>2, FS_CardinalityType
    <3>4. refs'[f] = refs[f]
      BY <1>1, <2>5
    <3> QED
      BY <2>1, <3>2, <3>3, <3>4
  <2> QED
    BY <2>4, <2>5
<1> QED
  BY <1>5, <1>7 DEF Inv

-----------------------------------------------------------------------------
(* Spawn. *)

LEMMA NewPidFacts ==
  ASSUME TypeOK, Cardinality(Known(task)) < MaxPid
  PROVE  NewPid(gPid) \in 0 .. MaxPid - 1 /\ NewPid(gPid) \notin Known(task)
<1> DEFINE from == IF gPid >= MaxPid THEN 0 ELSE gPid
           open == (0 .. MaxPid - 1) \ Known(task)
           Behind(p) == (p - from) % MaxPid
           behind == [p \in open |-> Behind(p)]
<1>1. from \in Int /\ MaxPid \in Nat \ {0}
  BY ConstantFacts DEF TypeOK
<1>2. open # {}
  <2> SUFFICES ASSUME open = {} PROVE FALSE
    OBVIOUS
  <2>1. Known(task) = 0 .. MaxPid - 1
    BY DEF Known, TypeOK, Task
  <2>2. Cardinality(0 .. MaxPid - 1) = MaxPid
    BY <1>1, FS_Interval
  <2> QED
    BY <1>1, <2>1, <2>2
<1>3. behind \in [open -> Nat]
  <2> SUFFICES ASSUME NEW p \in open PROVE Behind(p) \in Nat
    OBVIOUS
  <2>1. p - from \in Int
    BY <1>1
  <2> HIDE DEF from
  <2> QED
    BY <1>1, <2>1
<1>4. PICK p \in open : \A q \in open : behind[p] <= behind[q]
  <2> HIDE DEF open, behind
  <2> QED
    BY <1>2, <1>3, LeastFacts
<1>5. \E x \in open : \A q \in open : Behind(x) <= Behind(q)
  BY <1>4
<1>6. NewPid(gPid) \in open
  <2> HIDE DEF Behind
  <2> QED
    BY <1>5, Zenon DEF NewPid, Behind
<1> QED
  BY <1>6

LEMMA SpawnProcessStep ==
  ASSUME Inv, Spawnable, NEW main \in Region, NEW pages \in SUBSET (Pages \ used),
         pages # {} => Pages \cap Run(main.start, main.len) \subseteq pages,
         SpawnProcess(main, pages), UNCHANGED <<refs, freed>>
  PROVE  Inv'
<1> DEFINE k == count + 1
           pid == NewPid(gPid)
           rest == Pages \ (used \cup pages)
           box == IF rest = {} THEN {} ELSE {Min(rest)}
           mailbox == IF rest = {} THEN Null ELSE Min(rest)
<1>1. /\ count \in Nat /\ count \in 1 .. MaxTasks /\ current \in 1 .. count
      /\ task \in [1 .. count -> Task] /\ freed \subseteq 1 .. count
      /\ held \in [1 .. count -> SUBSET Pages] /\ used \subseteq Pages
  BY DEF Inv, TypeOK
<1>2. pid \in 0 .. MaxPid - 1 /\ pid \notin Known(task)
  BY NewPidFacts DEF Inv, Spawnable
<1>3. box \subseteq rest /\ mailbox \in Pages /\ (rest # {} => mailbox \in box)
  <2>1. rest \in SUBSET Nat /\ rest \subseteq Pages /\ Null \in Pages
    BY ConstantFacts
  <2> HIDE DEF rest
  <2> QED
    BY <2>1, MinFacts
<1>4. PICK region \in Leftovers :
        Switch([j \in 1 .. k |-> IF j = k THEN NewTask(pid, main, mailbox, region)
                                  ELSE task[j]], k)
  BY DEF SpawnProcess
<1> DEFINE new == NewTask(pid, main, mailbox, region)
           ts == [j \in 1 .. k |-> IF j = k THEN new ELSE task[j]]
<1>5. /\ count' = k /\ gPid' = pid + 1 /\ used' = used \cup pages \cup box
      /\ mail' = [mail EXCEPT ![mailbox] = 0]
      /\ held' = [j \in 1 .. k |-> IF j = k THEN pages \cup box ELSE held[j]]
      /\ hit' = IF rest = {} \/ pages = {} THEN hit \cup {"oom"} ELSE hit
  BY DEF SpawnProcess
<1>6. Switch(ts, k)
  BY <1>4
<1> HIDE DEF pid, rest, box, mailbox
<1>7. new \in Task /\ new.pid = pid /\ new.main = main /\ new.mailbox = mailbox
      /\ new.fds = [i \in Subfds |-> None]
  <2>1. new \in Task
    BY <1>2, <1>3, NewTaskTyped
  <2> QED
    BY <2>1 DEF NewTask
<1>8. k \in Nat \ {0} /\ current \in 1 .. k /\ k \in 1 .. MaxTasks /\ k \notin 1 .. count
      /\ 1 .. k = (1 .. count) \cup {k} /\ k \in 1 .. k
  <2>1. count < MaxTasks /\ MaxTasks \in Nat
    BY ConstantFacts DEF Spawnable
  <2> QED
    BY <1>1, <2>1
<1> HIDE DEF k, new
<1>9. /\ ts \in [1 .. k -> Task] /\ ts[k] = new
      /\ \A j \in 1 .. count : ts[j] = task[j]
  BY <1>1, <1>7, <1>8
<1> HIDE DEF ts
<1>10. /\ task' \in [1 .. k -> Task] /\ current' \in 1 .. k
       /\ SameButStatus(task', ts, k)
  BY <1>6, <1>8, <1>9, SwitchFacts
<1>11. /\ task'[k].pid = pid /\ task'[k].main = main /\ task'[k].mailbox = mailbox
       /\ task'[k].fds = [i \in Subfds |-> None]
       /\ \A j \in 1 .. count :
            /\ task'[j].pid = task[j].pid /\ task'[j].main = task[j].main
            /\ task'[j].mailbox = task[j].mailbox /\ task'[j].fds = task[j].fds
  BY <1>7, <1>8, <1>9, <1>10 DEF SameButStatus
<1>12. Live' = Live \cup {k} /\ Live \subseteq 1 .. count
  BY <1>1, <1>5, <1>8 DEF Live
<1>13. /\ held'[k] = pages \cup box /\ held' \in [1 .. k -> SUBSET Pages]
       /\ \A j \in 1 .. count : held'[j] = held[j]
  <2>1. pages \cup box \subseteq Pages
    BY <1>3 DEF rest
  <2> QED
    BY <1>1, <1>5, <1>8, <2>1
<1>14. TypeOK'
  <2>1. used' \subseteq Pages
    BY <1>1, <1>3, <1>5 DEF rest
  <2>2. mail' \in [Pages -> 0 .. MaxMsg] /\ gPid' \in 0 .. MaxPid
    BY <1>2, <1>3, <1>5, ConstantFacts DEF Inv, TypeOK
  <2>3. hit' \subseteq Mishaps /\ freed' \subseteq 1 .. count' /\ refs' \in [Fids -> 0 .. MaxRefs]
    BY <1>1, <1>5, <1>8 DEF Inv, TypeOK, Mishaps
  <2> QED
    BY <1>5, <1>8, <1>10, <1>13, <2>1, <2>2, <2>3 DEF TypeOK
<1>15. LivePidsDistinct'
  <2>1. \A j \in Live : task[j].pid # pid
    BY <1>2, <1>12 DEF Known
  <2> QED
    BY <1>11, <1>12, <2>1 DEF Inv, LivePidsDistinct
<1>16. FdsCounted'
  <2> SUFFICES ASSUME "dead" \notin hit', NEW f \in Fids
               PROVE  refs'[f] >= Cardinality(Uses(f)')
    BY DEF FdsCounted, Uses
  <2>1. Uses(f)' = Uses(f)
    <3>1. f # None
      BY ConstantFacts
    <3> QED
      BY <1>11, <1>12, <3>1 DEF Uses
  <2> QED
    BY <1>5, <2>1 DEF Inv, FdsCounted, Uses
<1>17. NoSharedPage'
  <2> SUFFICES ASSUME hit' \cap {"stale", "oom"} = {}
               PROVE  /\ \A j \in 1 .. k : held'[j] \subseteq used'
                      /\ \A i, j \in 1 .. k : i # j => held'[i] \cap held'[j] = {}
    BY <1>5 DEF NoSharedPage
  <2>1. /\ \A j \in 1 .. count : held[j] \subseteq used
        /\ \A i, j \in 1 .. count : i # j => held[i] \cap held[j] = {}
    BY <1>5 DEF Inv, NoSharedPage
  <2>2. (pages \cup box) \cap used = {}
    BY <1>3 DEF rest
  <2> QED
    BY <1>5, <1>8, <1>13, <2>1, <2>2
<1>18. MainsOwned'
  <2> SUFFICES ASSUME hit' \cap {"stale", "oom"} = {}, NEW j \in 1 .. k
               PROVE  MainPages(task'[j]) \subseteq held'[j]
    BY <1>5 DEF MainsOwned
  <2>1. pages # {} /\ hit \cap {"stale", "oom"} = {}
    BY <1>5
  <2>2. CASE j = k
    BY <1>11, <1>13, <2>1, <2>2 DEF MainPages
  <2>3. CASE j \in 1 .. count
    BY <1>11, <1>13, <2>1, <2>3 DEF MainPages, Inv, MainsOwned
  <2> QED
    BY <1>8, <2>2, <2>3
<1>19. BoxesOwned'
  <2> SUFFICES ASSUME hit' = {}, NEW j \in Live \cup {k}
               PROVE  task'[j].mailbox \in held'[j]
    BY <1>12 DEF BoxesOwned
  <2>1. hit = {} /\ rest # {}
    BY <1>5
  <2> QED
    BY <1>3, <1>11, <1>12, <1>13, <2>1 DEF Inv, BoxesOwned
<1> QED
  BY <1>14, <1>15, <1>16, <1>17, <1>18, <1>19 DEF Inv

LEMMA SpawnStep == \A ram \in RamPages : Inv /\ Spawn(ram) => Inv'
<1> SUFFICES ASSUME NEW ram \in RamPages, Inv, Spawn(ram) PROVE Inv'
  OBVIOUS
<1>1. PICK s \in FreeRuns(ram + 1) :
        SpawnProcess([start |-> s, len |-> ram], Run(s, ram + 1))
  BY DEF Spawn
<1>2. s \in Nat /\ ram \in Nat /\ Run(s, ram + 1) \in SUBSET (Pages \ used)
  BY ConstantFacts, TaskConstants DEF FreeRuns
<1>3. [start |-> s, len |-> ram] \in Region
  BY <1>2 DEF Region
<1>4. Run(s, ram) \subseteq Run(s, ram + 1)
  BY <1>2 DEF Run
<1>5. Spawnable /\ UNCHANGED <<refs, freed>>
  BY DEF Spawn
<1> QED
  BY <1>1, <1>2, <1>3, <1>4, <1>5, SpawnProcessStep

LEMMA SpawnWithoutMemoryStep ==
  \A ram \in RamPages : Inv /\ SpawnWithoutMemory(ram) => Inv'
<1> SUFFICES ASSUME NEW ram \in RamPages, Inv, SpawnWithoutMemory(ram) PROVE Inv'
  OBVIOUS
<1>1. [start |-> Null, len |-> ram] \in Region
  BY TaskConstants DEF Region, Null
<1>2. /\ Spawnable /\ UNCHANGED <<refs, freed>> /\ {} \in SUBSET (Pages \ used)
      /\ SpawnProcess([start |-> Null, len |-> ram], {})
  BY DEF SpawnWithoutMemory
<1> QED
  BY <1>1, <1>2, SpawnProcessStep

-----------------------------------------------------------------------------
(* The first task, and the theorems. *)

LEMMA TwoPages ==
  /\ Min(Pages \ (Reserved \cup {Null})) \in Pages \ (Reserved \cup {Null})
  /\ \A start \in Pages : Min(Pages \ (Reserved \cup {start})) \in Pages \ (Reserved \cup {start})
<1> DEFINE S == Pages \ (Reserved \cup {Null})
<1>1. IsFiniteSet(Pages) /\ S \in SUBSET Pages /\ Pages \subseteq Nat
  <2>1. NumPages - 1 \in Int /\ 0 \in Int
    BY TaskConstants
  <2> QED
    BY <2>1, FS_Interval, ConstantFacts DEF Pages
<1>2. IsFiniteSet(S) /\ Cardinality(S) \in Nat /\ Cardinality(S) >= 2
  <2>1. IsFiniteSet(S)
    BY <1>1, FS_Subset
  <2> QED
    BY <2>1, FS_CardinalityType, TaskConstants
<1> HIDE DEF S
<1>3. S # {}
  BY <1>2, FS_EmptySet
<1>4. Min(S) \in S
  BY <1>1, <1>3, MinFacts
<1>5. ASSUME NEW start \in Pages
      PROVE  Min(Pages \ (Reserved \cup {start})) \in Pages \ (Reserved \cup {start})
  <2>1. /\ IsFiniteSet(S \ {start})
        /\ Cardinality(S \ {start}) = IF start \in S THEN Cardinality(S) - 1 ELSE Cardinality(S)
    BY <1>2, FS_RemoveElement
  <2>2. S \ {start} # {}
    BY <1>2, <2>1, FS_EmptySet
  <2>3. Pages \ (Reserved \cup {start}) # {}
    BY <2>2 DEF S
  <2>4. Pages \ (Reserved \cup {start}) \in SUBSET Nat
    BY <1>1
  <2> QED
    BY <2>3, <2>4, MinFacts
<1> QED
  BY <1>4, <1>5 DEF S

LEMMA Initially == Init => Inv
<1> SUFFICES ASSUME Init PROVE Inv
  OBVIOUS
<1> DEFINE start == Min(Pages \ (Reserved \cup {Null}))
           mailbox == Min(Pages \ (Reserved \cup {start}))
           first == NewTask(0, [start |-> start, len |-> 0], mailbox, NoRegion)
<1>1. PICK left \in 0 .. MaxMsg :
        /\ task = [k \in {1} |-> [first EXCEPT !.status = "running"]]
        /\ held = [k \in {1} |-> {start, mailbox}]
        /\ used = Reserved \cup {start, mailbox}
        /\ mail = [p \in Pages |-> IF p = Null /\ p # mailbox THEN left ELSE 0]
        /\ count = 1 /\ current = 1 /\ gPid = 1
        /\ refs = [f \in Fids |-> IF f \in {0, 1} THEN 1 ELSE 0]
        /\ freed = {} /\ hit = {}
  BY DEF Init
<1>2. start \in Pages /\ mailbox \in Pages
  BY TwoPages
<1> HIDE DEF start, mailbox
<1>3. first \in Task /\ first.pid = 0 /\ first.main = [start |-> start, len |-> 0]
      /\ first.mailbox = mailbox /\ first.fds = [i \in Subfds |-> None]
  <2>1. [start |-> start, len |-> 0] \in Region /\ 0 \in 0 .. MaxPid - 1
    BY <1>2, ConstantFacts DEF Region
  <2>2. first \in Task
    BY <1>2, <2>1, NewTaskTyped
  <2> QED
    BY <2>2 DEF NewTask
<1> HIDE DEF first
<1>4. 1 .. 1 = {1} /\ count = 1 /\ Live = {1}
  BY <1>1 DEF Live
<1>5. /\ task \in [1 .. 1 -> Task] /\ task[1].main = [start |-> start, len |-> 0]
      /\ task[1].mailbox = mailbox /\ task[1].fds = [i \in Subfds |-> None]
  BY <1>1, <1>3, <1>4 DEF Task
<1>6. TypeOK
  <2>1. used \subseteq Pages /\ held \in [1 .. 1 -> SUBSET Pages]
    BY <1>1, <1>2, <1>4, TaskConstants
  <2>2. mail \in [Pages -> 0 .. MaxMsg] /\ gPid \in 0 .. MaxPid
    BY <1>1, ConstantFacts
  <2>3. refs \in [Fids -> 0 .. MaxRefs]
    BY <1>1, ConstantFacts
  <2>4. MaxTasks \in Nat \ {0}
    BY TaskConstants
  <2> QED
    BY <1>1, <1>4, <1>5, <2>1, <2>2, <2>3, <2>4 DEF TypeOK
<1>7. LivePidsDistinct
  BY <1>4 DEF LivePidsDistinct
<1>8. FdsCounted
  <2> SUFFICES ASSUME NEW f \in Fids PROVE refs[f] >= Cardinality(Uses(f))
    BY DEF FdsCounted, Uses
  <2>1. Uses(f) = {}
    BY <1>4, <1>5, ConstantFacts DEF Uses
  <2>2. refs[f] \in Nat /\ Cardinality(Uses(f)) = 0
    BY <1>6, <2>1, FS_EmptySet, ConstantFacts DEF TypeOK
  <2> QED
    BY <2>2
<1>9. NoSharedPage
  BY <1>1, <1>4 DEF NoSharedPage
<1>10. MainsOwned
  BY <1>1, <1>2, <1>4, <1>5, ConstantFacts DEF MainsOwned, MainPages, Run
<1>11. BoxesOwned
  BY <1>1, <1>4, <1>5 DEF BoxesOwned
<1> QED
  BY <1>6, <1>7, <1>8, <1>9, <1>10, <1>11 DEF Inv

LEMMA Preserved == Inv /\ [Next]_vars => Inv'
<1> SUFFICES ASSUME Inv, [Next]_vars PROVE Inv'
  OBVIOUS
<1>1. CASE \E ram \in RamPages : Spawn(ram) \/ SpawnWithoutMemory(ram)
  BY <1>1, SpawnStep, SpawnWithoutMemoryStep
<1>2. CASE Wait \/ Yield \/ Receive \/ ReceiveOutside
  BY <1>2, WaitStep, YieldStep, ReceiveStep, ReceiveOutsideStep
<1>3. CASE \E pid \in 0 .. MaxPid - 1 : Awake(pid) \/ Send(pid) \/ SendOutside(pid) \/ Kill(pid)
  BY <1>3, AwakeStep, SendStep, SendOutsideStep, KillStep
<1>4. CASE \E n \in RegionPages : RegisterMem(n)
  BY <1>4, RegisterMemStep
<1>5. CASE ReleaseMem
  BY <1>5, ReleaseMemStep
<1>6. CASE \E fid \in Fids : OpenGlobal(fid)
  BY <1>6, OpenGlobalStep
<1>7. CASE \E i \in Subfds : Close(i)
  BY <1>7, CloseStep
<1>8. CASE Lost \/ UNCHANGED vars
  <2>1. UNCHANGED <<task, count, current, gPid, used, mail, refs, freed, held, hit>>
    BY <1>8 DEF Lost, vars
  <2>2. TypeOK'
    BY <2>1 DEF Inv, TypeOK
  <2>3. LivePidsDistinct' /\ FdsCounted'
    BY <2>1 DEF Inv, LivePidsDistinct, FdsCounted, Live
  <2>4. NoSharedPage' /\ MainsOwned' /\ BoxesOwned'
    BY <2>1, MemoryStays DEF Inv
  <2> QED
    BY <2>2, <2>3, <2>4 DEF Inv
<1> QED
  BY <1>1, <1>2, <1>3, <1>4, <1>5, <1>6, <1>7, <1>8 DEF Next

(* What every state satisfies: the types, and what the next theorems take  *)
(* from it about pids, descriptors and pages, with the pages each live     *)
(* task owns tied to those that are held.                                  *)
THEOREM Invariance == Spec => []Inv
<1> QED
  BY Initially, Preserved, PTL DEF Spec

(* The types: every task of the list has the fields spawnProccess and      *)
(* memset give it, counts stay in their bounds.                            *)
THEOREM TypeCorrect == Spec => []TypeOK
<1>1. Inv => TypeOK
  BY DEF Inv
<1> QED
  BY <1>1, Invariance, PTL

(* No two tasks that were not killed have the same pid, however often      *)
(* g_pid has started again from 0.                                         *)
THEOREM PidsOfLiveTasksDiffer == Spec => []LivePidsDistinct
<1>1. Inv => LivePidsDistinct
  BY DEF Inv
<1> QED
  BY <1>1, Invariance, PTL

(* Every descriptor of a live task is counted, until a freed task is taken *)
(* for a live one.                                                         *)
THEOREM DescriptorsCounted == Spec => []FdsCounted
<1>1. Inv => FdsCounted
  BY DEF Inv
<1> QED
  BY <1>1, Invariance, PTL

(* No page has two owners and none that is owned is free, whoever spawns,  *)
(* registers, releases and kills, until pages are released that the        *)
(* releasing task was not given.                                           *)
THEOREM PagesNotShared == Spec => []NoSharedPage
<1>1. Inv => NoSharedPage
  BY DEF Inv
<1> QED
  BY <1>1, Invariance, PTL

-----------------------------------------------------------------------------
(* Messages. *)

MailStays ==
  \A k \in Live \ {current} :
    k \notin freed' => mail'[task[k].mailbox] >= mail[task[k].mailbox]

LEMMA LiveBoxes ==
  ASSUME Inv, hit = {}
  PROVE  /\ \A k \in Live : task[k].mailbox \in used \cap Pages
         /\ \A j, k \in Live : j # k => task[j].mailbox # task[k].mailbox
         /\ \A p \in Pages : mail[p] \in 0 .. MaxMsg
<1>1. /\ \A k \in 1 .. count : held[k] \subseteq used
      /\ \A j, k \in 1 .. count : j # k => held[j] \cap held[k] = {}
  BY DEF Inv, NoSharedPage
<1>2. \A k \in Live : task[k].mailbox \in held[k] /\ k \in 1 .. count
  BY DEF Inv, BoxesOwned, Live
<1>3. used \subseteq Pages /\ mail \in [Pages -> 0 .. MaxMsg]
  BY DEF Inv, TypeOK
<1> QED
  BY <1>1, <1>2, <1>3

LEMMA MailSpawned ==
  ASSUME Inv, hit' = {}, NEW main, NEW pages, SpawnProcess(main, pages)
  PROVE  MailStays
<1> DEFINE rest == Pages \ (used \cup pages)
<1>1. hit = {} /\ rest # {}
  BY DEF SpawnProcess
<1>2. mail' = [mail EXCEPT ![Min(rest)] = 0]
  BY <1>1 DEF SpawnProcess
<1>3. Min(rest) \in rest
  BY <1>1, MinFacts, ConstantFacts
<1>4. \A k \in Live : task[k].mailbox # Min(rest) /\ task[k].mailbox \in Pages
  BY <1>1, <1>3, LiveBoxes
<1>5. mail \in [Pages -> 0 .. MaxMsg] /\ MaxMsg \in Nat
  BY ConstantFacts DEF Inv, TypeOK
<1> HIDE DEF rest
<1>6. \A p \in Pages : p # Min(rest) => mail'[p] = mail[p] /\ mail[p] \in Nat
  BY <1>2, <1>5
<1> QED
  BY <1>4, <1>6 DEF MailStays

LEMMA MailSame ==
  ASSUME Inv, mail' = mail
  PROVE  MailStays
<1>1. \A k \in Live : task[k].mailbox \in Pages
  BY DEF Inv, TypeOK, Live, Task
<1>2. \A p \in Pages : mail[p] \in Nat
  BY ConstantFacts DEF Inv, TypeOK
<1> QED
  BY <1>1, <1>2 DEF MailStays

LEMMA MailSent == \A pid : Inv /\ Send(pid) => MailStays
<1> SUFFICES ASSUME NEW pid, Inv, Send(pid), NEW k \in Live
             PROVE  mail'[task[k].mailbox] >= mail[task[k].mailbox]
  BY DEF MailStays
<1>1. /\ mail \in [Pages -> 0 .. MaxMsg] /\ task[k].mailbox \in Pages /\ MaxMsg \in Nat
      /\ mail' = Posted(task, pid)
  BY ConstantFacts DEF Inv, TypeOK, Live, Task, Send
<1> QED
  BY <1>1 DEF Posted

LEMMA MailReceived ==
  ASSUME Inv, Receive, hit' = {}
  PROVE  MailStays
<1> SUFFICES ASSUME NEW k \in Live \ {current}
             PROVE  mail'[task[k].mailbox] >= mail[task[k].mailbox]
  BY DEF MailStays
<1>1. hit = {} /\ mail' = Taken(task) /\ current \in Live
  BY DEF Receive, Calling, Alive, Live, Inv, TypeOK
<1>2. task[k].mailbox # task[current].mailbox /\ task[k].mailbox \in Pages
  BY <1>1, LiveBoxes
<1>3. mail \in [Pages -> 0 .. MaxMsg] /\ MaxMsg \in Nat
  BY ConstantFacts DEF Inv, TypeOK
<1>4. \A p \in Pages : mail[p] \in Nat
  BY <1>3
<1> QED
  BY <1>1, <1>2, <1>3, <1>4 DEF Taken

LEMMA MailStaysStep == Inv /\ [Next]_vars => [hit' = {} => MailStays]_vars
<1> SUFFICES ASSUME Inv, [Next]_vars, hit' = {} PROVE MailStays \/ UNCHANGED vars
  OBVIOUS
<1>1. ASSUME NEW ram, Spawn(ram) \/ SpawnWithoutMemory(ram) PROVE MailStays
  BY <1>1, MailSpawned DEF Spawn, SpawnWithoutMemory
<1>2. CASE Wait \/ Yield
  BY <1>2, MailSame DEF Wait, Yield
<1>3. CASE Receive
  BY <1>3, MailReceived
<1>4. CASE ReceiveOutside
  BY <1>4 DEF ReceiveOutside
<1>5. ASSUME NEW pid, Awake(pid) \/ Send(pid) \/ SendOutside(pid) \/ Kill(pid)
      PROVE  MailStays
  BY <1>5, MailSame, MailSent DEF Awake, SendOutside, Kill
<1>6. ASSUME NEW n, RegisterMem(n) PROVE MailStays
  BY <1>6, MailSame DEF RegisterMem
<1>7. CASE ReleaseMem
  BY <1>7, MailSame DEF ReleaseMem
<1>8. ASSUME NEW fid, OpenGlobal(fid) PROVE MailStays
  BY <1>8, MailSame DEF OpenGlobal
<1>9. ASSUME NEW i, Close(i) PROVE MailStays
  BY <1>9, MailSame DEF Close
<1>10. CASE Lost
  BY <1>10 DEF Lost
<1> QED
  BY <1>1, <1>2, <1>3, <1>4, <1>5, <1>6, <1>7, <1>8, <1>9, <1>10 DEF Next

(* The messages that wait for a live task are taken by nobody else, as     *)
(* long as nothing has gone wrong.                                         *)
THEOREM MessagesKept == Spec => MailKept
<1>1. [hit' = {} => MailStays]_vars =>
        [hit' = {} =>
           \A k \in Live \ {current} :
             k \notin freed' => mail'[task[k].mailbox] >= mail[task[k].mailbox]]_vars
  BY DEF MailStays
<1> QED
  BY <1>1, MailStaysStep, Invariance, PTL DEF Spec, MailKept
=============================================================================
