---------------------------------- MODULE Vfs ----------------------------------
(***************************************************************************)
(* The virtual file system (vfs/vfs.c) in front of an explorer.  Nothing   *)
(* gives it one: it is of type TAR_FS, the first of its enumeration, and   *)
(* its calls do nothing.                                                   *)
(*                                                                         *)
(* With an explorer, ucd splits the explorer's path and not its own        *)
(* argument, with a strtok that answers the '/' themselves, so that the    *)
(* path only ever has those.  A directory named like that would be         *)
(* appended to itself: the copy never ends.                                *)
(***************************************************************************)
EXTENDS LibStrings

CONSTANT MaxPath \* bytes of the explorer's path, 256

SLASH == <<"/">>
(* initKernelVFS_EXP; before it, the type is TAR_FS.                       *)
InitKernelVFS == [type |-> "TAR_FS", path |-> SLASH, leaked |-> 0, asked |-> <<>>,
                  answer |-> 0, end |-> "no"]
InitKernelVFS_EXP(v) == [v EXCEPT !.type = "EXPLORER_FS"]

(* The explorer's cd, where dirs are the directories it would find.        *)
ExplorerCd(v, name, dirs) ==
  CASE name \notin dirs -> [v EXCEPT !.answer = -1]
    [] v.path = SLASH -> [v EXCEPT !.path = @ \o name, !.answer = 0]
    [] 1 + Len(v.path) + Len(name) < MaxPath ->
         [v EXCEPT !.path = @ \o SLASH \o name, !.answer = 0]
    [] OTHER -> [v EXCEPT !.answer = 0]

(* ucd.  Its copy of the name is lost when the path is none.               *)
Ucd(v, name, dirs) ==
  LET home == IF name # <<>> /\ name[1] = "/" THEN ExplorerCd(v, SLASH, dirs) ELSE v
      token == Strtok(home.path, {"/"}).token
  IN  CASE v.type = "TAR_FS" \/ token = <<>> -> [v EXCEPT !.answer = 0]
        [] token \in dirs -> [home EXCEPT !.end = "endless"]
        [] OTHER -> [home EXCEPT !.answer = -1, !.leaked = @ + 1]

(* ufd, urm, utouch and umkdir: to the folder, the operation, and back.    *)
(* The name the operation is given begins at the '/' that was overwritten, *)
(* and without a '/' the NUL is written to address 0.  For an archive only *)
(* ufd sets what it answers.                                               *)
InFolder(v, op, name, dirs) ==
  LET slash == SelectLastInSeq(name, LAMBDA c : c = "/")
      there == Ucd(v, SubSeq(name, 1, IF slash = 0 THEN Len(name) ELSE slash - 1), dirs)
      asked == [there EXCEPT !.asked = Append(@, <<op, IF slash = 0 THEN "address 0" ELSE "">>)]
  IN  CASE v.type = "TAR_FS" -> [v EXCEPT !.answer = IF op = "new_fd" THEN -1 ELSE "anything"]
        [] there.end # "no" -> there
        [] there.answer # 0 -> [there EXCEPT !.leaked = @ + 1]
        [] OTHER -> Ucd(asked, SLASH, dirs)
Ufd(v, name, dirs) == InFolder(v, "new_fd", name, dirs)
Urm(v, name, dirs) == InFolder(v, "remove", name, dirs)
Utouch(v, name, dirs) == InFolder(v, "touch", name, dirs)
Umkdir(v, name, dirs) == InFolder(v, "mkdir", name, dirs)
(* The explorer stays the one that is used.                                *)
Fsck(v) == IF v.type = "EXPLORER_FS" THEN [v EXCEPT !.end = "destroyed"] ELSE v

-----------------------------------------------------------------------------
(* With an explorer, no call that comes back reaches a file: it answers    *)
(* -1, has not been anywhere but in directories named "/", and has lost    *)
(* one or two copies of the name (vfs.c:24-147).                           *)
ASSUME NothingReached ==
  \A name \in UNION {[1 .. n -> {"a", "/"}] : n \in 0 .. 3},
     dirs \in SUBSET {<<"a">>, SLASH, SLASH \o SLASH} :
    LET v == InitKernelVFS_EXP(InitKernelVFS)
        came == {r \in {Ufd(v, name, dirs), Urm(v, name, dirs), Utouch(v, name, dirs),
                        Umkdir(v, name, dirs)} : r.end = "no"}
        cd == Ucd(v, name, dirs)
    IN  /\ \A r \in came : r.answer = -1 /\ r.asked = <<>> /\ r.leaked = 2 /\ ToSet(r.path) = {"/"}
        /\ cd.end = "no" => cd.answer = -1 /\ cd.leaked = 1
        /\ SLASH \notin dirs => came # {} /\ cd.path = SLASH
=============================================================================
