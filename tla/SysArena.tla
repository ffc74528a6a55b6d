------------------------------- MODULE SysArena -------------------------------
(***************************************************************************)
(* The static arena allocator (src/sysarena.c), which config_stdmem_buddy  *)
(* has taken the place of: a table of arenas, split on allocation, merged  *)
(* and moved together when one is split or freed.                          *)
(*                                                                         *)
(* The rest of a split is given the size that was asked for, and not the   *)
(* size that is left (sysarena.c:103), so that arenas may overlap and      *)
(* reach past the memory's end; nothing below says they do not.            *)
(***************************************************************************)
EXTENDS Integers, FiniteSetsExt

CONSTANTS NumArenas, Total, \* max_arenas and initial_size
          AllocSizes,       \* what is asked for
          MaxAddr           \* bound: how far arenas may reach
ASSUME ArenaConstants ==
  /\ NumArenas \in Nat \ {0} /\ AllocSizes \subseteq Nat
  /\ MaxAddr \in Nat /\ Total \in 0 .. MaxAddr

VARIABLES arenas,
          given   \* how often each address is held by callers
arenaVars == <<arenas, given>>

NULL == -1
Poor == [base |-> NULL, size |-> 0, inUse |-> FALSE]
Void(a) == a.base = NULL /\ a.size = 0
Free(a) == ~a.inUse /\ a.size > 0

(* ksysarena_defragment merges a free arena with each later one of the     *)
(* table that begins where it ends ...                                     *)
Merge(t, i, j) ==
  IF i < j /\ Free(t[i]) /\ Free(t[j]) /\ t[i].base + t[i].size = t[j].base
  THEN [t EXCEPT ![i].size = @ + t[j].size, ![j] = Poor]
  ELSE t
MergedWith(t, i) ==
  LET upTo[j \in 0 .. NumArenas] == IF j = 0 THEN t ELSE Merge(upTo[j - 1], i, j)
  IN  upTo[NumArenas]
Merged(t) ==
  LET upTo[i \in 0 .. NumArenas] == IF i = 0 THEN t ELSE MergedWith(upTo[i - 1], i)
  IN  upTo[NumArenas]

(* ... and fills each void entry with the next that is not.                *)
Later(t, i) == {j \in i + 1 .. NumArenas : ~Void(t[j])}
(* A slip: the loop is not left after the first move.                      *)
FillOn(t, i) ==
  IF Void(t[i]) /\ Later(t, i) # {}
  THEN [j \in DOMAIN t |-> IF j = i THEN t[Max(Later(t, i))]
                           ELSE IF j \in Later(t, i) THEN Poor ELSE t[j]]
  ELSE t
Fill(t, i) ==
  IF Void(t[i]) /\ Later(t, i) # {}
  THEN LET j == Min(Later(t, i)) IN [t EXCEPT ![i] = t[j], ![j] = Poor]
  ELSE t
Defragment(t) ==
  LET upTo[i \in 0 .. NumArenas] == IF i = 0 THEN Merged(t) ELSE Fill(upTo[i - 1], i)
  IN  upTo[NumArenas]

(* ksysarena_alloc: the table after it, and the address it returns.        *)
Split(t, i, size) ==
  LET rest == {j \in DOMAIN t : ~t[j].inUse /\ t[j].base = NULL}
  IN  IF rest = {} THEN [table |-> t, address |-> NULL]
      ELSE [table |-> Defragment([t EXCEPT
                        ![i].size = size, ![i].inUse = TRUE,
                        ![Min(rest)] = [base |-> t[i].base + size, size |-> size, inUse |-> FALSE]]),
            address |-> t[i].base]
Allocated(t, size) ==
  LET fits == {i \in DOMAIN t : ~t[i].inUse /\ t[i].size >= size}
      i == Min(fits)
  IN  IF fits = {} THEN [table |-> t, address |-> NULL]
      ELSE IF t[i].size > size THEN Split(t, i, size)
      ELSE [table |-> [t EXCEPT ![i].inUse = TRUE], address |-> t[i].base]

Alloc(size) ==
  LET new == Allocated(arenas, size)
  IN  /\ size # 0
      /\ \A i \in DOMAIN new.table : new.table[i].base + new.table[i].size <= MaxAddr
      /\ arenas' = new.table
      /\ given' = IF new.address = NULL THEN given ELSE [given EXCEPT ![new.address] = @ + 1]

(* ksysarena_free.                                                         *)
Release(address) ==
  LET held == {i \in DOMAIN arenas : arenas[i].inUse /\ arenas[i].base = address}
  IN  /\ held # {}
      /\ given[address] > 0
      /\ arenas' = Defragment([arenas EXCEPT ![Min(held)].inUse = FALSE])
      /\ given' = [given EXCEPT ![address] = @ - 1]

arenaInit == /\ arenas = [i \in 1 .. NumArenas |->
                           IF i = 1 THEN [base |-> 0, size |-> Total, inUse |-> FALSE] ELSE Poor]
             /\ given = [a \in 0 .. MaxAddr |-> 0]
arenaNext == \/ \E size \in AllocSizes : Alloc(size)
             \/ \E a \in 0 .. MaxAddr : Release(a)

-----------------------------------------------------------------------------
(* However the table is merged and moved together, an address that was     *)
(* given and not freed keeps its entry, once for every time it was given,  *)
(* and no other entry is in use (sysarena.c:137-163).                      *)
HeldKept ==
  \A a \in DOMAIN given :
    given[a] = Cardinality({i \in DOMAIN arenas : arenas[i].inUse /\ arenas[i].base = a})
=============================================================================
