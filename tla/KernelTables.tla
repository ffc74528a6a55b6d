----------------------------- MODULE KernelTables -----------------------------
(***************************************************************************)
(* Three tables of fixed size: the chain of free handles (src/handler.c),  *)
(* the identities (usr/usr.c) and the descriptors that the whole kernel    *)
(* shares (fs/fsd.c).  An operation answers the table after it; Tasks has  *)
(* the counts of descriptors as tasks change them.                         *)
(***************************************************************************)
EXTENDS LibStrings

NoHandle == 0
NoEntry == 0

(* Handles: the chain's head, and what next says in each that was ever     *)
(* registered.                                                             *)
RegisterHandle(g, handle) == [head |-> handle, next |-> [g.next EXCEPT ![handle] = g.head]]
RegisterHandleChain(handles) ==
  FoldLeft(RegisterHandle, [head |-> NoHandle, next |-> [h \in ToSet(handles) |-> NoHandle]], handles)
(* alloc_handle answers the head there was.                                *)
AllocHandle(g) == IF g.head = NoHandle THEN g ELSE [g EXCEPT !.head = g.next[g.head]]

-----------------------------------------------------------------------------
(* Identities, whose names are as long as their field.  A name that is     *)
(* copied with strncpy leaves but its first character there, before        *)
(* whatever the last owner of the entry was called.                        *)
InitIdentities(n, size) ==
  [i \in 1 .. n |-> [used |-> FALSE, isGroup |-> FALSE, level |-> 0,
                     name |-> [k \in 0 .. size - 1 |-> NUL]]]
NoName == "no name"
Named(field, name) ==
  IF name = NoName THEN field
  ELSE LET size == Cardinality(DOMAIN field)
           far == [a \in 0 .. size + Len(name) |->
                    IF a < size THEN field[a]
                    ELSE IF a < size + Len(name) THEN name[a - size + 1] ELSE NUL]
           copied == Strncpy(far, 0, size, size)
       IN  [k \in DOMAIN field |-> copied[k]]
Unused(t) == {i \in DOMAIN t : ~t[i].used}
CreateIdentity(t, level, isGroup, name) ==
  IF Unused(t) = {} THEN t
  ELSE [t EXCEPT ![Min(Unused(t))] =
          [used |-> TRUE, isGroup |-> isGroup, level |-> level, name |-> Named(@.name, name)]]
RemoveIdentity(t, iid) == [t EXCEPT ![iid].used = FALSE]

-----------------------------------------------------------------------------
(* Descriptors: the first that is free or has the name already, whichever  *)
(* comes first.                                                            *)
ClearFd == [refCount |-> 0, name |-> <<>>]
InitFd(n) == [i \in 1 .. n |-> ClearFd]
Open(t, name) ==
  LET fits == {i \in DOMAIN t : t[i].refCount = 0 \/ t[i].name = name}
  IN  IF fits = {} THEN NoEntry ELSE Min(fits)
CreateFd(t, name) ==
  IF Open(t, name) = NoEntry THEN t
  ELSE [t EXCEPT ![Open(t, name)] = [refCount |-> @.refCount + 1, name |-> name]]
(* removeFd; what has no reference is left as it is.                       *)
RemoveFd(t, fid) ==
  CASE t[fid].refCount = 0 -> t
    [] t[fid].refCount = 1 -> [t EXCEPT ![fid] = ClearFd]
    [] OTHER -> [t EXCEPT ![fid].refCount = @ - 1]

-----------------------------------------------------------------------------
(* Histories: a call of 0 takes, one of k gives the k-th taken back.       *)
Calls == {<<>>} \cup UNION {[1 .. n -> 0 .. 2] : n \in 1 .. 6}
Without(s, k) == SubSeq(s, 1, k - 1) \o SubSeq(s, k + 1, Len(s))
Chain(g) ==
  LET from[n \in 0 .. 4, h \in DOMAIN g.next \cup {NoHandle}] ==
        IF n = 0 \/ h = NoHandle THEN <<>> ELSE <<h>> \o from[n - 1, g.next[h]]
  IN  from[4, g.head]

(* Whatever is taken and given back in whatever order, the chain and those *)
(* taken share no handle and lose none (handler.c:11-27).                  *)
ASSUME HandlesShared ==
  \A calls \in Calls :
    LET call(st, c) ==
          CASE c = 0 /\ st.g.head # NoHandle ->
                 [g |-> AllocHandle(st.g), taken |-> Append(st.taken, st.g.head)]
            [] c \in DOMAIN st.taken ->
                 [g |-> RegisterHandle(st.g, st.taken[c]), taken |-> Without(st.taken, c)]
            [] OTHER -> st
        end == FoldLeft(call, [g |-> RegisterHandleChain(<<1, 2, 3>>), taken |-> <<>>], calls)
    IN  /\ Len(Chain(end.g)) + Len(end.taken) = 3
        /\ ToSet(Chain(end.g)) \cup ToSet(end.taken) = 1 .. 3

(* A descriptor has as many references as it was answered and not given    *)
(* back, and the name it was asked for by (fsd.c:18-64).  That a name has  *)
(* one descriptor it does not say: a free one before it is taken instead.  *)
ASSUME DescriptorsCounted ==
  \A calls \in Calls, names \in [1 .. 6 -> {"x", "y"}] :
    LET call(st, k) ==
          LET c == calls[k]
              fid == Open(st.t, names[k])
          IN  CASE c = 0 /\ fid # NoEntry ->
                     [t |-> CreateFd(st.t, names[k]),
                      taken |-> Append(st.taken, [fid |-> fid, name |-> names[k]])]
                [] c \in DOMAIN st.taken ->
                     [t |-> RemoveFd(st.t, st.taken[c].fid), taken |-> Without(st.taken, c)]
                [] OTHER -> st
        end == FoldLeft(call, [t |-> InitFd(2), taken |-> <<>>], [k \in DOMAIN calls |-> k])
    IN  \A i \in DOMAIN end.t :
          LET mine == SelectSeq(end.taken, LAMBDA h : h.fid = i)
          IN  /\ end.t[i].refCount = Len(mine)
              /\ \A k \in DOMAIN mine : mine[k].name = end.t[i].name

(* An identity keeps its level, and is not handed out again before it is   *)
(* removed; of its name the first character is right (usr.c:16-50).        *)
ASSUME IdentitiesKept ==
  LET none == InitIdentities(2, 4)
      two == CreateIdentity(CreateIdentity(none, 1, FALSE, <<"r", "o">>), 2, TRUE, <<"u">>)
      again == CreateIdentity(RemoveIdentity(two, 1), 3, FALSE, <<"x", "y">>)
  IN  /\ CreateIdentity(two, 4, FALSE, NoName) = two
      /\ again[2] = two[2] /\ again[1].level = 3
      /\ \A i \in 1 .. 2 : StringAt(again[i].name, 0) = <<<<"x">>, <<"u">>>>[i]
      /\ CreateIdentity(RemoveIdentity(two, 2), 5, TRUE, <<>>)[2].name = none[2].name
=============================================================================
