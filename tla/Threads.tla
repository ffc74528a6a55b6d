------------------------------- MODULE Threads -------------------------------
(***************************************************************************)
(* The earlier scheduler (threads/threads.c): a table of processes, and    *)
(* one of them, current_proc, that makes the calls.  Stacks and registers  *)
(* are left out.                                                           *)
(***************************************************************************)
EXTENDS Integers, FiniteSetsExt

CONSTANT MaxProcesses \* 10
ASSUME ThreadConstants == MaxProcesses \in Nat \ {0}

VARIABLES status,  \* of each entry of proc_list
          current, \* the pid of current_proc, NoProc for NULL
          halted   \* "no", or why nothing more is said
threadVars == <<status, current, halted>>

Pids == 0 .. MaxProcesses - 1
NoProc == -1
Dead == {"ZOMBIE", "FINNISH"}
Having(s) == {p \in Pids : status[p] \in s}
InTurn(p, k) == (p + k) % MaxProcesses

(* scheduler: the next that is ready after the current process, which      *)
(* itself stays what it was; with none ready the search does not end.      *)
(* Before there is a current process its pid is whatever address 0 holds.  *)
Yield(after) ==
  \E from \in IF current = NoProc THEN Pids ELSE {current} :
    LET ready == {k \in 1 .. MaxProcesses : after[InTurn(from, k)] = "READY"}
        next == InTurn(from, Min(ready))
    IN  IF ready = {}
        THEN status' = after /\ halted' = "search" /\ UNCHANGED current
        ELSE /\ status' = [after EXCEPT ![next] = "RUNNING"]
             /\ current' = next
             /\ UNCHANGED halted

Schedule == halted = "no" /\ Yield(status)

Spawn == /\ halted = "no"
         /\ Having({"NULL"}) # {}
         /\ status' = [status EXCEPT ![Min(Having({"NULL"}))] = "READY"]
         /\ UNCHANGED <<current, halted>>

Revive == /\ halted = "no"
          /\ Having(Dead) # {}
          /\ status' = [status EXCEPT ![Min(Having(Dead))] = "READY"]
          /\ UNCHANGED <<current, halted>>

(* kill and awaken let a pid through that is one too large, and every      *)
(* negative one, of which one is tried here.                               *)
Outside(pid) == /\ halted = "no"
                /\ pid \notin Pids /\ pid <= MaxProcesses
                /\ halted' = "table"
                /\ UNCHANGED <<status, current>>

(* A slip: whoever kills itself goes on.                                   *)
KillAndStay(pid) ==
  /\ halted = "no"
  /\ pid \in Pids /\ status[pid] \notin Dead
  /\ status' = [status EXCEPT ![pid] = "ZOMBIE"] /\ UNCHANGED <<current, halted>>
Kill(pid) ==
  /\ halted = "no"
  /\ pid \in Pids /\ status[pid] \notin Dead
  /\ LET after == [status EXCEPT ![pid] = "ZOMBIE"]
     IN  IF pid = current THEN Yield(after)
         ELSE status' = after /\ UNCHANGED <<current, halted>>

Stop(as) == /\ halted = "no"
            /\ current # NoProc
            /\ Yield([status EXCEPT ![current] = as])
Wait == Stop("WAITING")
Exit == Stop("FINNISH")

Awaken(pid) == /\ halted = "no"
               /\ pid \in Pids /\ status[pid] = "WAITING"
               /\ status' = [status EXCEPT ![pid] = "READY"]
               /\ UNCHANGED <<current, halted>>

threadInit == /\ status = [p \in Pids |-> "NULL"]
              /\ current = NoProc
              /\ halted = "no"
threadNext == \/ Schedule \/ Spawn \/ Revive \/ Wait \/ Exit
              \/ \E pid \in -1 .. MaxProcesses : Kill(pid) \/ Awaken(pid) \/ Outside(pid)

-----------------------------------------------------------------------------
(* Whatever processes do to one another and to themselves, the one that    *)
(* has the processor is running: it did not end, does not wait, and is not *)
(* handed out as an entry to spawn or revive (threads.c:109-144).          *)
CurrentRuns == halted = "no" /\ current # NoProc => status[current] = "RUNNING"
=============================================================================
