---------------------------- MODULE MCMfsVolume ----------------------------
(* A small volume, and names of which "truncated" stands for one longer    *)
(* than MAX_NAME_LEN.                                                       *)
EXTENDS MfsVolume

MCShort == [n \in Names |-> n]
MCStored == [n \in Names |-> IF n = "truncated" THEN "trunc" ELSE n]

(* Bound: "." is removed or made a directory of where nobody crashed,      *)
(* cleaned or removed another file, and nobody does so afterwards.         *)
DotBound == dotted' => crashes' = 0 /\ ~loose' /\ gone' \subseteq {1}
MCNext == Next /\ DotBound
MCSpec == Init /\ [][MCNext]_vars
=============================================================================
