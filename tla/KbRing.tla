------------------------------- MODULE KbRing -------------------------------
(***************************************************************************)
(* The keyboard buffer of handlers/kb_handler.c, shared without any lock   *)
(* by two parties: the handler of IRQ1 puts scancodes in, and the shell,   *)
(* polling through kgetchar with interrupts enabled, takes them out.       *)
(*                                                                         *)
(* The interrupt gate keeps further interrupts out, so ps2_get_scancode is *)
(* one step.  buffer_pop is not protected: the interrupt can come between  *)
(* any two of its accesses to head, tail and the buffer, so each of them   *)
(* is a step of its own.                                                   *)
(***************************************************************************)
EXTENDS Integers, Sequences

CONSTANTS
  Size,       \* KB_BUFFER_SIZE
  Scancodes,  \* the bytes the controller sends, except the prefix
  Prefix,     \* 0xE0, announcing that the next byte is of an extended key
  NoKey,      \* the answer 0 of an empty buffer
  MaxKeys     \* bound of the runs on the keys stored, infinite in the code

ASSUME RingConstants ==
  /\ Size \in Nat \ {0, 1}
  /\ Prefix \notin Scancodes
  /\ NoKey \notin Scancodes \X {0, 1}
  /\ MaxKeys \in Nat

(* scancode | (extended << 8) *)
Keys == Scancodes \X {0, 1}

VARIABLES
  ring,      \* kb_ring_buffer
  head,      \* where the handler stores the next key
  tail,      \* the oldest key not read
  extended,  \* the last byte was the prefix
  pc,        \* where the consumer is in buffer_pop
  ch,        \* local of buffer_pop
  got,       \* what the last finished buffer_pop returned
  stored,    \* history: how many keys were stored
  taken      \* history: how many keys were read

ringVars == <<ring, head, tail, extended, pc, ch, got>>
vars == <<ring, head, tail, extended, pc, ch, got, stored, taken>>

(* Slip: an index of KB_BUFFER_SIZE + 1 values. *)
AdvanceBeyond(i) == (i + 1) % (Size + 1)
Advance(i) == (i + 1) % Size
Full == Advance(head) = tail
Empty == tail = head

Init ==
  /\ ring = [i \in 0 .. Size - 1 |-> NoKey]
  /\ head = 0 /\ tail = 0 /\ extended = 0
  /\ pc = "poll" /\ ch = NoKey /\ got = NoKey
  /\ stored = 0 /\ taken = 0

-----------------------------------------------------------------------------
(* ps2_get_scancode with the prefix. *)
InterruptPrefix ==
  /\ extended' = 1
  /\ UNCHANGED <<ring, head, tail, pc, ch, got, stored, taken>>

(* Slip: a full buffer drops its oldest key, as many ring buffers do. *)
InterruptKeyDroppingOldest(code) ==
  /\ extended' = 0
  /\ stored < MaxKeys
  /\ ring' = [ring EXCEPT ![head] = <<code, extended>>]
  /\ head' = Advance(head)
  /\ stored' = stored + 1
  /\ tail' = IF Full THEN Advance(tail) ELSE tail
  /\ UNCHANGED <<pc, ch, got, taken>>

(* Slip: the slot is published and filled in a full buffer as well. *)
InterruptKeyUnchecked(code) ==
  /\ extended' = 0
  /\ stored < MaxKeys
  /\ ring' = [ring EXCEPT ![head] = <<code, extended>>]
  /\ head' = Advance(head)
  /\ stored' = stored + 1
  /\ UNCHANGED <<tail, pc, ch, got, taken>>

(* ps2_get_scancode with any other byte, calling buffer_push. *)
InterruptKey(code) ==
  /\ extended' = 0
  /\ IF Full
     THEN UNCHANGED <<ring, head, stored>>
     ELSE /\ stored < MaxKeys
          /\ ring' = [ring EXCEPT ![head] = <<code, extended>>]
          /\ head' = Advance(head)
          /\ stored' = stored + 1
  /\ UNCHANGED <<tail, pc, ch, got, taken>>

Interrupt == InterruptPrefix \/ \E code \in Scancodes : InterruptKey(code)

(* buffer_pop comparing tail with head. *)
PollEmpty ==
  /\ pc = "poll" /\ Empty
  /\ got' = NoKey
  /\ UNCHANGED <<ring, head, tail, extended, pc, ch, stored, taken>>
PollKey ==
  /\ pc = "poll" /\ ~Empty
  /\ pc' = "load"
  /\ UNCHANGED <<ring, head, tail, extended, ch, got, stored, taken>>

(* buffer_pop reading the slot. *)
LoadKey ==
  /\ pc = "load"
  /\ ch' = ring[tail]
  /\ pc' = "advance"
  /\ UNCHANGED <<ring, head, tail, extended, got, stored, taken>>

(* Slips: the key returned is read after the slot was given back; the slot *)
(* is not given back.                                                      *)
AdvanceTailReloading ==
  /\ pc = "advance"
  /\ tail' = Advance(tail)
  /\ got' = ring[tail']
  /\ ch' = NoKey
  /\ pc' = "poll"
  /\ taken' = taken + 1
  /\ UNCHANGED <<ring, head, extended, stored>>
AdvanceTailKeepingSlot ==
  /\ pc = "advance"
  /\ got' = ch
  /\ ch' = NoKey
  /\ pc' = "poll"
  /\ UNCHANGED <<ring, head, tail, extended, stored, taken>>

(* buffer_pop giving the slot back and returning. *)
AdvanceTail ==
  /\ pc = "advance"
  /\ tail' = Advance(tail)
  /\ got' = ch
  /\ ch' = NoKey
  /\ pc' = "poll"
  /\ taken' = taken + 1
  /\ UNCHANGED <<ring, head, extended, stored>>

Poll == PollEmpty \/ PollKey \/ LoadKey \/ AdvanceTail

Next == Interrupt \/ Poll

Spec == Init /\ [][Next]_vars

(* The shell polls in an endless loop (shell.c, while (1)), so buffer_pop  *)
(* always goes on.  Nothing makes anybody type.                            *)
FairSpec == Spec /\ WF_vars(Poll)

-----------------------------------------------------------------------------
TypeOK ==
  /\ ring \in [0 .. Size - 1 -> Keys \cup {NoKey}]
  /\ head \in 0 .. Size - 1 /\ tail \in 0 .. Size - 1
  /\ extended \in {0, 1}
  /\ pc \in {"poll", "load", "advance"}
  /\ ch \in Keys \cup {NoKey} /\ got \in Keys \cup {NoKey}
  /\ stored \in Nat /\ taken \in Nat

(* The slots between tail and head, oldest key first. *)
Count == IF head >= tail THEN head - tail ELSE head + Size - tail
Slot(i) == IF tail + i < Size THEN tail + i ELSE tail + i - Size
Contents == [i \in 1 .. Count |-> ring[Slot(i - 1)]]

(* The key loaded by an unfinished buffer_pop is still the oldest one when *)
(* its slot is given back: no interrupt in between reuses the slot or      *)
(* empties the buffer.                                                     *)
LoadedKeyIsOldest ==
  /\ pc # "poll" => Count > 0
  /\ pc = "advance" => ch = ring[tail]

(* Every key stored is still in the buffer or was read: interrupts between *)
(* the steps of buffer_pop lose and duplicate nothing.                     *)
NothingLost == stored = taken + Count /\ \A i \in 1 .. Count : Contents[i] \in Keys

Fifo == INSTANCE KbFifo WITH Capacity <- Size - 1, queue <- Contents
(* The lock-free ring is a first-in first-out queue of KB_BUFFER_SIZE - 1  *)
(* keys that drops a key only when full.                                   *)
ImplementsFifo == Fifo!Spec

(* Every key stored is eventually handed to the shell. *)
EveryKeyRead == \A n \in 1 .. MaxKeys : stored >= n ~> taken >= n
=============================================================================
