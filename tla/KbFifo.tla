------------------------------- MODULE KbFifo -------------------------------
(***************************************************************************)
(* What the keyboard buffer promises: a first-in first-out queue of at     *)
(* most Capacity keys.  A key is dropped only when the queue is full, a    *)
(* poll answers NoKey only when the queue is empty, and otherwise answers  *)
(* the oldest key and takes it off.                                        *)
(***************************************************************************)
EXTENDS Integers, Sequences

CONSTANTS Capacity, Keys, NoKey

VARIABLES queue,   \* the keys typed and not yet read, oldest first
          got      \* what the last poll answered

Init == queue = <<>> /\ got = NoKey

Type(key) ==
  /\ Len(queue) < Capacity
  /\ queue' = Append(queue, key)
  /\ UNCHANGED got

Read ==
  /\ queue # <<>>
  /\ got' = Head(queue)
  /\ queue' = Tail(queue)

ReadNothing ==
  /\ queue = <<>>
  /\ got' = NoKey
  /\ UNCHANGED queue

(* A key typed into a full queue leaves everything as it is. *)
Next == (\E key \in Keys : Type(key)) \/ Read \/ ReadNothing

Spec == Init /\ [][Next]_<<queue, got>>
=============================================================================
