-------------------------------- MODULE Tasks --------------------------------
(***************************************************************************)
(* Tasks, their memory and their descriptors (tasks/tasks.c, fs/fsd.c) as  *)
(* the system calls of src/isr.c change them.                              *)
(*                                                                         *)
(* One system call is one step: the dispatcher switches the task clock off *)
(* and calls the scheduler before it returns.  Between system calls there  *)
(* is nothing to model: the timer interrupt switches tasks only once       *)
(* clock_task.current_count reaches nibtc, and nothing ever counts it up.  *)
(*                                                                         *)
(* The list of tasks grows at its front and never shrinks, so a task is    *)
(* the number of tasks there were when it was made: `count` is the front   *)
(* of the list and 1 its end.  Memory is in pages, an address is the       *)
(* number of its page, and NULL is the address of page 0, which the memory *)
(* map gives away like any other.  bitmap_malloc (PageBitmap) may hand out *)
(* any run of free pages, and may find none where there is one.            *)
(***************************************************************************)
EXTENDS Integers, FiniteSetsExt

CONSTANTS
  MaxPid,      \* MAX_PID
  MaxMsg,      \* MAX_MSG
  MaxRegions,  \* MAX_REGIONS
  MaxFds,      \* MAX_FDS
  Fids,        \* the global descriptors 0, 1, ...
  NumPages,    \* pages of the machine
  PageSize,    \* 4096
  Reserved,    \* pages the memory map does not give away
  RamPages,    \* memory asked of spawn, in whole pages
  RegionPages, \* memory asked of register_mem
  Leftovers,   \* what the heap may hold where a new task has its regions
  MaxMishaps,  \* bound of the runs on what may go wrong, see `hit`
  MaxTasks,    \* bound of the runs on tasks
  MaxRefs      \* bound of the runs on references to a descriptor

Pages == 0 .. NumPages - 1
Subfds == 0 .. MaxFds - 1
Regions == 1 .. MaxRegions
None == -1
Null == 0

ASSUME TaskConstants ==
  /\ MaxTasks \in Nat \ {0} /\ MaxMishaps \in Nat /\ MaxPid \in Nat \ {0}
  /\ MaxMsg \in Nat \ {0} /\ MaxRegions \in Nat \ {0} /\ MaxFds \in Nat \ {0}
  /\ Fids \subseteq Nat /\ 0 \in Fids /\ MaxRefs \in Nat \ {0}
  /\ NumPages \in Nat \ {0, 1} /\ PageSize \in Nat \ {0}
  /\ Reserved \subseteq Pages /\ Cardinality(Pages \ (Reserved \cup {Null})) >= 2
  /\ RamPages \subseteq Nat
  /\ RegionPages \subseteq Nat \ {0}
  /\ Leftovers \subseteq [start : Nat, len : Nat] /\ Leftovers # {}

VARIABLES
  task,     \* k -> the task_t of the k-th task
  count,    \* tasks in the list
  current,  \* k_scheduler.current
  gPid,     \* g_pid
  used,     \* pages the bitmap says are taken
  mail,     \* page -> messages counted in the mailbox at its start
  refs,     \* ref_count of the global descriptors
  freed,    \* history: the tasks that were killed
  held,     \* history: the pages each task was given and did not give back
  hit       \* history: what went wrong so far, see below

vars == <<task, count, current, gPid, used, mail, refs, freed, held, hit>>

(* "stale": pages were released that the releasing task did not have, or,  *)
(* as a region, that register_mem had not given it; "oom": spawn went on   *)
(* without memory; "dead": a freed task was taken for a live one, or a     *)
(* call went on for a task it had freed.                                   *)
Mishaps == {"stale", "oom", "dead"}

(* What memset leaves of a task; it stays in the list.                     *)
NoRegion == [start |-> 0, len |-> 0]
Freed ==
  [pid |-> 0, status |-> "null", main |-> NoRegion, mailbox |-> Null,
   regions |-> [i \in Regions |-> NoRegion], fds |-> [i \in Subfds |-> 0]]
(* spawnProccess sets all but the regions.                                 *)
NewTask(pid, main, mailbox, region) ==
  [pid |-> pid, status |-> "ready", main |-> main, mailbox |-> mailbox,
   regions |-> [i \in Regions |-> region], fds |-> [i \in Subfds |-> None]]

Alive(k) == k \notin freed

-----------------------------------------------------------------------------
(* Pages and descriptors. *)

Run(start, len) == start .. start + len - 1
FreeRuns(len) == {s \in Pages : Run(s, len) \subseteq Pages \ used}

(* Slip: a count of 0 is counted down as well.                             *)
DroppedBelow(fds) ==
  [f \in Fids |-> refs[f] - Cardinality({i \in Subfds : fds[i] = f})]
(* removeFd, once for each of the task's descriptors; a count of 0 stays.  *)
(* For an unset one it looks in front of the table, at what is left out.   *)
Dropped(fds) ==
  [f \in Fids |->
     Max({0, refs[f] - Cardinality({i \in Subfds : fds[i] = f})})]

(* newsubfd *)
WithSubfd(fds, fid) ==
  LET open == {i \in Subfds : fds[i] = None}
  IN  IF open = {} THEN fds ELSE [fds EXCEPT ![Min(open)] = fid]

-----------------------------------------------------------------------------
(* kernel_scheduler: the current task becomes ready, whatever it was, and  *)
(* the next ready one in the list runs, the list's front following its     *)
(* end.                                                                    *)
NextReady(ts, n) ==
  LET ready == {k \in 1 .. n : ts[k].status = "ready"}
      Ahead(k) == (current - k - 1) % n
  IN  CHOOSE k \in ready : \A j \in ready : Ahead(k) <= Ahead(j)

(* Slip: at the end of the list the scheduler stays where it is.           *)
SwitchWithoutWrap(ts, n) ==
  LET saved == [ts EXCEPT ![current].status = "ready"]
      ready == {k \in 1 .. current - 1 : saved[k].status = "ready"}
      next == IF ready = {} THEN current ELSE Max(ready)
  IN  /\ task' = [saved EXCEPT ![next].status = "running"]
      /\ current' = next
Switch(ts, n) ==
  LET saved == [ts EXCEPT ![current].status = "ready"]
      next == NextReady(saved, n)
  IN  /\ task' = [saved EXCEPT ![next].status = "running"]
      /\ current' = next

(* A freed task that runs has a segment of length 0 at address 0; whatever *)
(* it does there, the machine is lost, as in isr_handler's endless loop.   *)
(* A run ends as well when more has gone wrong than its bound allows.      *)
Calling == Alive(current) /\ Cardinality(hit) <= MaxMishaps
Lost == ~Calling /\ UNCHANGED vars

-----------------------------------------------------------------------------
(* searchPid takes the first task of the list that has the pid, freed ones *)
(* included, whose pid is 0.  A pid of no task makes it run off the list;  *)
(* such calls are left out.                                                *)
Known(ts) == {ts[k].pid : k \in 1 .. count}
SearchPid(ts, pid) == Max({k \in 1 .. count : ts[k].pid = pid})

(* Slip: the pid is not compared with those in use.                        *)
NewPidUnchecked(g) == IF g >= MaxPid THEN 0 ELSE g
(* The first pid from g_pid on that no task of the list has.  With all of  *)
(* them in use spawnProccess would look forever; memory runs out long      *)
(* before, so that is left out.                                            *)
NewPid(g) ==
  LET from == IF g >= MaxPid THEN 0 ELSE g
      open == (0 .. MaxPid - 1) \ Known(task)
      Behind(p) == (p - from) % MaxPid
  IN  CHOOSE p \in open : \A q \in open : Behind(p) <= Behind(q)

(* spawnProccess, for a task with the memory `main`, in pages it was given *)
(* or in none: the mailbox goes to the lowest free page, or to address 0,  *)
(* and is emptied.                                                         *)
SpawnProcess(main, pages) ==
  LET k == count + 1
      pid == NewPid(gPid)
      rest == Pages \ (used \cup pages)
      box == IF rest = {} THEN {} ELSE {Min(rest)}
      mailbox == IF rest = {} THEN Null ELSE Min(rest)
  IN  /\ count' = k /\ gPid' = pid + 1
      /\ used' = used \cup pages \cup box
      /\ mail' = [mail EXCEPT ![mailbox] = 0]
      /\ held' = [j \in 1 .. k |-> IF j = k THEN pages \cup box ELSE held[j]]
      /\ hit' = IF rest = {} \/ pages = {} THEN hit \cup {"oom"} ELSE hit
      /\ \E region \in Leftovers :
           LET new == NewTask(pid, main, mailbox, region)
           IN  Switch([j \in 1 .. k |-> IF j = k THEN new ELSE task[j]], k)

Spawnable == Calling /\ count < MaxTasks /\ Cardinality(Known(task)) < MaxPid

(* sys_spawn takes a page more than asked for.  The bytes asked for are    *)
(* remembered, `ram` whole pages of them.                                  *)
Spawn(ram) ==
  /\ Spawnable
  /\ \E s \in FreeRuns(ram + 1) :
       SpawnProcess([start |-> s, len |-> ram], Run(s, ram + 1))
  /\ UNCHANGED <<refs, freed>>

(* bitmap_malloc answered NULL, and the task is put there.                 *)
SpawnWithoutMemory(ram) ==
  /\ Spawnable
  /\ SpawnProcess([start |-> Null, len |-> ram], {})
  /\ UNCHANGED <<refs, freed>>

-----------------------------------------------------------------------------
Stays == UNCHANGED <<count, gPid, used, refs, freed, held>>

(* wait: the scheduler makes the task ready again at once.                 *)
Asleep(ts) == [ts EXCEPT ![current].status = "waiting"]
Wait == Calling /\ Switch(Asleep(task), count) /\ Stays /\ UNCHANGED <<mail, hit>>

(* getPid, whoami, change_my_name, pwd and the file calls change nothing   *)
(* here: they let the next task run.  Of an open, the VFS answers -1, which *)
(* is noted where -1 was.                                                  *)
Yield == Calling /\ Switch(task, count) /\ Stays /\ UNCHANGED <<mail, hit>>

(* tawake *)
Awoken(ts, pid) ==
  LET k == SearchPid(ts, pid)
  IN  IF ts[k].status = "waiting" THEN [ts EXCEPT ![k].status = "ready"] ELSE ts

Awake(pid) ==
  /\ Calling /\ pid \in Known(task)
  /\ Switch(Awoken(task, pid), count)
  /\ Stays /\ UNCHANGED <<mail, hit>>

(* Slip: the count wraps as the head does.                                 *)
PostedWrapping(ts, pid) ==
  LET box == ts[SearchPid(ts, pid)].mailbox
  IN  [mail EXCEPT ![box] = (@ + 1) % (MaxMsg + 1)]
(* ipc_send drops the message if the mailbox is full.                      *)
Posted(ts, pid) ==
  LET box == ts[SearchPid(ts, pid)].mailbox
  IN  IF mail[box] >= MaxMsg THEN mail ELSE [mail EXCEPT ![box] = @ + 1]

Send(pid) ==
  /\ Calling /\ pid \in Known(task)
  /\ mail' = Posted(task, pid)
  /\ Switch(Awoken(task, pid), count)
  /\ hit' = IF Alive(SearchPid(task, pid)) THEN hit ELSE hit \cup {"dead"}
  /\ Stays

(* ipc_receive; an empty mailbox puts the task to sleep, as wait does.     *)
Taken(ts) ==
  LET box == ts[current].mailbox
  IN  IF mail[box] = 0 THEN mail ELSE [mail EXCEPT ![box] = @ - 1]

Receive ==
  /\ Calling
  /\ mail' = Taken(task)
  /\ Switch(IF mail[task[current].mailbox] = 0 THEN Asleep(task) ELSE task, count)
  /\ Stays /\ UNCHANGED hit

-----------------------------------------------------------------------------
(* Slip: the page behind the task's memory is returned as well.            *)
MainPagesBeyond(t) == Pages \cap Run(t.main.start, t.main.len + 2)
MainPages(t) == Pages \cap Run(t.main.start, t.main.len)
(* The regions' lengths are pages, and are divided by the page's size.     *)
RegionPieces(t) ==
  Pages \cap UNION {Run(t.regions[i].start, t.regions[i].len \div PageSize) : i \in Regions}

(* freeProc *)
FreeProc(k) ==
  /\ used' = used \ (MainPages(task[k]) \cup RegionPieces(task[k]))
  /\ refs' = Dropped(task[k].fds)
  /\ freed' = freed \cup {k}
  /\ held' = [held EXCEPT ![k] = {}]
  /\ UNCHANGED <<count, gPid>>
Without(k) == [task EXCEPT ![k] = Freed]
Strays(k) ==
  (IF Alive(k) THEN {} ELSE {"dead"})
    \cup IF RegionPieces(task[k]) \subseteq held[k] THEN {} ELSE {"stale"}

(* tkill *)
Kill(pid) ==
  /\ Calling /\ pid \in Known(task)
  /\ LET k == SearchPid(task, pid)
     IN  /\ FreeProc(k)
         /\ Switch(Without(k), count)
         /\ hit' = hit \cup Strays(k)
  /\ UNCHANGED mail

(* ipc_send and ipc_receive with a pointer beyond the task's memory: the   *)
(* task is killed, and the call goes on.                                   *)
SendOutside(pid) ==
  /\ Calling
  /\ LET k == SearchPid(task, task[current].pid)
     IN  /\ pid \in Known(Without(k))
         /\ FreeProc(k)
         /\ mail' = Posted(Without(k), pid)
         /\ Switch(Awoken(Without(k), pid), count)
         /\ hit' = hit \cup Strays(k) \cup {"dead"}
ReceiveOutside ==
  /\ Calling
  /\ LET k == SearchPid(task, task[current].pid)
     IN  /\ FreeProc(k)
         /\ mail' = Taken(Without(k))
         /\ Switch(Without(k), count)
         /\ hit' = hit \cup Strays(k) \cup {"dead"}

-----------------------------------------------------------------------------
(* sys_register_mem fills the first region of length 0.  A run of pages    *)
(* that starts at page 0 is taken for none, and stays allocated.           *)
RegisterMem(n) ==
  /\ Calling
  /\ \E i \in Regions, s \in FreeRuns(n) :
       /\ task[current].regions[i].len = 0
       /\ \A j \in 1 .. i - 1 : task[current].regions[j].len # 0
       /\ used' = used \cup Run(s, n)
       /\ IF s = Null
          THEN Switch(task, count) /\ UNCHANGED held
          ELSE /\ Switch([task EXCEPT ![current].regions[i] =
                            [start |-> s, len |-> n]], count)
               /\ held' = [held EXCEPT ![current] = @ \cup Run(s, n)]
  /\ UNCHANGED <<count, gPid, mail, refs, freed, hit>>

(* sys_release_mem gives back the regions up to the first of length 0, and *)
(* leaves their lengths as they are.                                       *)
ReleaseMem ==
  /\ Calling /\ task[current].regions[1].len # 0
  /\ LET rs == task[current].regions
         full == {i \in Regions : \A j \in 1 .. i : rs[j].len # 0}
         pages == Pages \cap UNION {Run(rs[i].start, rs[i].len) : i \in full}
         spawned == MainPages(task[current]) \cup {task[current].mailbox}
     IN  /\ used' = used \ pages
         /\ held' = [held EXCEPT ![current] = @ \ pages]
         /\ hit' = IF pages \subseteq held[current] \ spawned THEN hit ELSE hit \cup {"stale"}
  /\ Switch(task, count)
  /\ UNCHANGED <<count, gPid, mail, refs, freed>>

-----------------------------------------------------------------------------
(* Slip: an open descriptor is shared without counting.                    *)
OpenGlobalUncounted(fid) ==
  /\ Calling /\ refs[fid] < MaxRefs
  /\ Switch([task EXCEPT ![current].fds = WithSubfd(@, fid)], count)
  /\ Stays /\ UNCHANGED <<mail, hit>>
(* sys_openg counts the reference, and then looks for a place for it.      *)
OpenGlobal(fid) ==
  /\ Calling /\ refs[fid] < MaxRefs
  /\ refs' = [refs EXCEPT ![fid] = @ + 1]
  /\ Switch([task EXCEPT ![current].fds = WithSubfd(@, fid)], count)
  /\ UNCHANGED <<count, gPid, used, mail, freed, held, hit>>

(* sys_close: the task forgets its descriptor; the reference stays.        *)
Close(i) ==
  /\ Calling
  /\ Switch([task EXCEPT ![current].fds[i] = None], count)
  /\ Stays /\ UNCHANGED <<mail, hit>>

-----------------------------------------------------------------------------
(* The kernel starts no task itself.  Whoever does is taken to make one as *)
(* sys_spawn would on the memory as it is at boot, where bitmap_malloc     *)
(* finds the first page behind page 0, and to point `current` at it.  What *)
(* looks like a mailbox at address 0 is whatever the firmware left there.  *)
Init ==
  \E left \in 0 .. MaxMsg :
    LET start == Min(Pages \ (Reserved \cup {Null}))
        mailbox == Min(Pages \ (Reserved \cup {start}))
        first == NewTask(0, [start |-> start, len |-> 0], mailbox, NoRegion)
    IN  /\ task = [k \in {1} |-> [first EXCEPT !.status = "running"]]
        /\ held = [k \in {1} |-> {start, mailbox}]
        /\ used = Reserved \cup {start, mailbox}
        /\ mail = [p \in Pages |-> IF p = Null /\ p # mailbox THEN left ELSE 0]
        /\ count = 1 /\ current = 1 /\ gPid = 1
        /\ refs = [f \in Fids |-> IF f \in {0, 1} THEN 1 ELSE 0]
        /\ freed = {} /\ hit = {}

Next ==
  \/ \E ram \in RamPages : Spawn(ram) \/ SpawnWithoutMemory(ram)
  \/ Wait \/ Yield \/ Receive \/ ReceiveOutside
  \/ \E pid \in 0 .. MaxPid - 1 : Awake(pid) \/ Send(pid) \/ SendOutside(pid) \/ Kill(pid)
  \/ \E n \in RegionPages : RegisterMem(n)
  \/ ReleaseMem
  \/ \E fid \in Fids : OpenGlobal(fid)
  \/ \E i \in Subfds : Close(i)
  \/ Lost

Spec == Init /\ [][Next]_vars

(* A task that runs keeps making system calls.  This is asked of the tasks *)
(* and not given by the kernel: one that makes none keeps the processor.   *)
FairSpec == Spec /\ WF_vars(Next)

-----------------------------------------------------------------------------
Live == (1 .. count) \ freed

Region == [start : Nat, len : Nat]
Task ==
  [pid : 0 .. MaxPid - 1, status : {"null", "running", "ready", "waiting"},
   main : Region, mailbox : Pages, regions : [Regions -> Region],
   fds : [Subfds -> Fids \cup {None}]]

TypeOK ==
  /\ count \in 1 .. MaxTasks /\ current \in 1 .. count
  /\ gPid \in 0 .. MaxPid
  /\ task \in [1 .. count -> Task]
  /\ held \in [1 .. count -> SUBSET Pages]
  /\ used \subseteq Pages
  /\ mail \in [Pages -> 0 .. MaxMsg]
  /\ refs \in [Fids -> 0 .. MaxRefs]
  /\ freed \subseteq 1 .. count
  /\ hit \subseteq Mishaps

(* Tasks that were not killed have different pids, after g_pid has started *)
(* again from 0 as well.                                                   *)
LivePidsDistinct ==
  \A j, k \in Live : task[j].pid = task[k].pid => j = k

(* As long as no memory is released twice and spawn always finds some, no  *)
(* page belongs to two tasks, and none a task has is given away: killing a *)
(* task takes nothing from another.                                        *)
NoSharedPage ==
  hit \cap {"stale", "oom"} = {} =>
    /\ \A k \in 1 .. count : held[k] \subseteq used
    /\ \A j, k \in 1 .. count : j # k => held[j] \cap held[k] = {}

(* As long as none of these things went wrong, the messages that wait for  *)
(* a task are taken by nobody else, though the mailbox at address 0 is     *)
(* used by whoever has none.                                               *)
MailKept ==
  [][hit' = {} =>
       \A k \in Live \ {current} :
         k \notin freed' => mail'[task[k].mailbox] >= mail[task[k].mailbox]]_vars

(* As long as no freed task is taken for a live one, every descriptor a    *)
(* live task has is counted: no kill closes it under its user.             *)
FdsCounted ==
  "dead" \notin hit =>
    \A f \in Fids :
      refs[f] >= Cardinality({u \in Live \X Subfds : task[u[1]].fds[u[2]] = f})

(* Round robin: a task nobody kills gets its turn again and again, as long *)
(* as tasks keep making system calls and no freed one is run.              *)
EveryTaskRuns ==
  \A k \in 1 .. MaxTasks :
    k \in Live ~> current = k \/ k \notin Live \/ current \notin Live

(* syscalls.md on exit: "kills the program itself": no freed task runs.    *)
FreedNeverRuns == Alive(current)
=============================================================================
