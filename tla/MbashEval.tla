------------------------------ MODULE MbashEval ------------------------------
(***************************************************************************)
(* The statements of mbash (mbash/eval.c) and the commands of the shell    *)
(* that they call (mbash/modules.h, src/shell.c).  A statement answers its *)
(* status and the context.                                                 *)
(*                                                                         *)
(* A loop that does not end is an evaluation that has no value: the lines  *)
(* an instance enters must not have one.                                   *)
(***************************************************************************)
EXTENDS MbashValues

CONSTANT Explorers   \* the addresses setfs answers, with each one's path

Status(code, c) == [code |-> code, c |-> c]
Ends == {"BREAK", "RET", "EXIT", "ERR"}

-----------------------------------------------------------------------------
(* The commands.  Each gets the nodes of its arguments and answers a value *)
(* to which it holds one reference.                                        *)
Fault(c) == Value(Num(-1), c)

(* clear_handler, lsblk_handler: output only.                              *)
Printing(args, c) == Value(Num(0), c)

(* remount_handler reads the node itself; the partitions are in Disks.     *)
Remount(args, c) ==
  IF args = <<>> \/ args[1].type # "NUM_LIT" THEN Fault(c) ELSE Value(Num(0), c)

(* What the arguments evaluate to, each with the context behind it.        *)
Evaluated(args, c) ==
  FoldLeft(LAMBDA vs, e : Append(vs, EvalExpr(e, IF vs = <<>> THEN c ELSE Last(vs).c)),
           <<>>, args)

(* The other handlers, of the evaluated arguments v.                       *)
(* setfs_handler: it makes an explorer of partition a, whether there is    *)
(* one or not.                                                             *)
Setfs(v, c) ==
  LET after == FoldLeft(LAMBDA acc, k : RefDel(acc, v[k].val), v[3].c, <<1, 2, 3>>)
  IN  IF Len(v) < 3 THEN Fault(c)
      ELSE IF \E k \in 1 .. 3 : v[k].val.type # "NUMBER" THEN Fault(after)
      ELSE Value(Num(CHOOSE a \in DOMAIN Explorers : TRUE), after)

(* The first argument, taken for the address of an explorer.               *)
ExplorerOf(val, c) == IF val.num \in DOMAIN Explorers THEN c ELSE Mishap(c, "wild")

(* A first argument that is no number is given back.                       *)
NoNumber(v) == v[1].val.type # "NUMBER"
Refused(arg) == Fault(RefDel(arg.c, arg.val))

(* pwd_handler *)
Pwd(v, c) ==
  IF v = <<>> THEN Fault(c)
  ELSE IF NoNumber(v) THEN Refused(v[1])
  ELSE IF v[1].val.num \notin DOMAIN Explorers THEN Fault(Mishap(v[1].c, "wild"))
  ELSE NewStr(v[1].c, Explorers[v[1].val.num])

(* ref_info_handler; an id behind the table's end is read through a null   *)
(* pointer.                                                                *)
RefsOf(val, c) ==
  IF val.type # "STRING" THEN Value(Num(0), c)
  ELSE IF ~Exists(c, val) THEN Fault(Mishap(c, "dangling"))
  ELSE Value(Num(c.objs[val.obj].refc), c)
RefCount(v, c) ==
  IF v = <<>> THEN Fault(c)
  ELSE IF NoNumber(v) THEN Refused(v[1])
  ELSE IF v[1].val.num \notin 0 .. v[1].c.cap THEN Fault(Mishap(v[1].c, "null"))
  ELSE RefsOf(EntryAt(v[1].c, v[1].val.num).val, v[1].c)

(* ls_handler: the names of the directory, one behind the other.           *)
Ls(v, c) ==
  IF v = <<>> THEN Fault(c)
  ELSE IF NoNumber(v) THEN Refused(v[1])
  ELSE NewStr(ExplorerOf(v[1].val, v[1].c), "")

(* mkdir_handler: when the explorer's mkdir fails neither value is given   *)
(* back.  Whether it does is the wild flag's choice.                       *)
Mkdir(v, c) ==
  LET there == ExplorerOf(v[1].val, v[2].c)
  IN  IF Len(v) < 2 THEN Fault(c)
      ELSE IF NoNumber(v) THEN Refused(v[1])
      ELSE IF v[2].val.type # "STRING" THEN Refused(v[2])
      ELSE IF c.wild.flag THEN Fault(Forget(there, v[2].val))
      ELSE Value(Num(0), RefDel(there, v[2].val))

(* rm_handler removes nothing.                                             *)
Rm(v, c) ==
  IF Len(v) < 2 THEN Fault(c)
  ELSE IF NoNumber(v) THEN Refused(v[1])
  ELSE IF v[2].val.type # "STRING" THEN Refused(v[2])
  ELSE Value(Num(0), RefDel(v[2].c, v[2].val))

Modules ==
  {"clear", "lsblk", "remount", "setfs", "pwd", "ref_count", "ls", "mkdir", "rm"}
Called(name, args, v, c) ==
  CASE name \in {"clear", "lsblk"} -> Printing(args, c)
    [] name = "remount" -> Remount(args, c)
    [] name = "setfs" -> Setfs(v, c)
    [] name = "pwd" -> Pwd(v, c)
    [] name = "ref_count" -> RefCount(v, c)
    [] name = "ls" -> Ls(v, c)
    [] name = "mkdir" -> Mkdir(v, c)
    [] name = "rm" -> Rm(v, c)

(* multimodule_handler: the value of an unknown command is never assigned, *)
(* and the reference is given back before variable 0 takes its own.        *)
Answered(code, ret) == Status(code, SetEntry(RefDel(ret.c, ret.val), 0, ret.val))
EvalCommandCall(s, c) ==
  IF s.name \in Modules
  THEN Answered("OK", Called(s.name, s.args, Evaluated(s.args, c), c))
  ELSE Answered("UNKNOWN", Value(c.wild.val, c))

-----------------------------------------------------------------------------
TextOf(val, c) ==
  CASE val.type = "NUMBER" -> ToString(val.num)
    [] val.type = "STRING" -> Text(c, val)
    [] OTHER -> "Err -> Unknown type"
Echoed(e) == Status("OK", RefDel(Print1(e.c, TextOf(e.val, e.c)), e.val))
EvalEcho(s, c) == Echoed(EvalExpr(s.expr, c))

(* Slip: the value's own reference is never given back.                    *)
EvalAssignmentKeeping(s, c) ==
  LET e == EvalExpr(s.expr, c) IN Status("OK", SetEntry(e.c, s.num, e.val))
EvalAssignment(s, c) ==
  LET e == EvalExpr(s.expr, c)
  IN  Status("OK", RefDel(SetEntry(e.c, s.num, e.val), e.val))

EvalExport(s, c) == Status("OK", ExportVar(c, s.var.num))

EvalReturn(s, c) ==
  LET e == IF Fails([node |-> s.expr]) THEN Value(Num(0), c) ELSE EvalExpr(s.expr, c)
  IN  Status("RET", [e.c EXCEPT !.ret = e.val, !.shouldRet = TRUE])

RECURSIVE EvalStatement(_, _), WhileLoop(_, _), ForLoop(_, _)

(* Statements in order, up to one whose status stops them.                 *)
InOrder(stmts, c, Stops(_)) ==
  FoldLeft(LAMBDA s, stmt : IF Stops(s.code) THEN s ELSE EvalStatement(stmt, s.c),
           Status("OK", c), stmts)

(* The value of a condition, and the context once it is given back.        *)
Holds(v) == [holds |-> IsTruly(v.c, v.val), c |-> RefDel(v.c, v.val)]
Condition(e, c) == Holds(EvalExpr(e, c))

(* evalIf: whatever its status, the first statement of the then part is    *)
(* the last.                                                               *)
EvalIf(s, c) ==
  LET if == Condition(s.condition, c)
  IN  IF if.holds THEN EvalStatement(Head(s.thenb), if.c)
      ELSE InOrder(s.elseb, if.c, LAMBDA code : code \in Ends)

(* evalWhile: a body comes before its condition.                           *)
WhileLoop(s, c) ==
  LET body == InOrder(s.body, c, LAMBDA code : code \in Ends)
      while == Condition(s.condition, body.c)
  IN  IF body.code = "BREAK" THEN Status("OK", [body.c EXCEPT !.shouldBreak = FALSE])
      ELSE IF body.code \in Ends THEN body
      ELSE IF while.holds /\ while.c.mishaps = {} THEN WhileLoop(s, while.c)
      ELSE Status("OK", while.c)

(* evalFor: without a condition the body never runs.                       *)
ForLoop(s, c) ==
  LET for == IF Fails([node |-> s.condition]) THEN [holds |-> FALSE, c |-> c]
             ELSE Condition(s.condition, c)
      body == InOrder(s.body, for.c, LAMBDA code : code # "OK")
  IN  IF ~for.holds \/ for.c.mishaps # {} THEN Status("OK", for.c)
      ELSE IF body.code = "BREAK" THEN Status("OK", [body.c EXCEPT !.shouldBreak = FALSE])
      ELSE IF body.code # "OK" THEN body
      ELSE ForLoop(s, EvalStatement(s.inc, body.c).c)
EvalFor(s, c) == ForLoop(s, EvalStatement(s.init, c).c)

(* evalStatement; Null, which an empty part of a for is, changes nothing.  *)
EvalStatement(s, c) ==
  CASE c.shouldRet -> Status("RET", c)
    [] ~c.shouldRet /\ s.type = "ASSIGNMENT" -> EvalAssignment(s, c)
    [] ~c.shouldRet /\ s.type = "COMMAND_CALL" -> EvalCommandCall(s, c)
    [] ~c.shouldRet /\ s.type = "EXPORT" -> EvalExport(s, c)
    [] ~c.shouldRet /\ s.type = "IF" -> EvalIf(s, c)
    [] ~c.shouldRet /\ s.type = "WHILE_LOOP" -> WhileLoop(s, c)
    [] ~c.shouldRet /\ s.type = "FOR_LOOP" -> EvalFor(s, c)
    [] ~c.shouldRet /\ s.type = "ECHO" -> EvalEcho(s, c)
    [] ~c.shouldRet /\ s.type = "BREAK" -> Status("BREAK", [c EXCEPT !.shouldBreak = TRUE])
    [] ~c.shouldRet /\ s.type = "RETURN" -> EvalReturn(s, c)
    [] OTHER -> Status("ERR", c)

(* evalProgram goes on after every status but that of return, which a      *)
(* first statement has too once an earlier line has returned.              *)
Exited(end) == [end EXCEPT !.c.lastExit = end.code]
EvalProgram(tree, c) ==
  Exited(FoldLeft(LAMBDA s, stmt : IF s.c.shouldRet THEN s ELSE EvalStatement(stmt, s.c),
                  Status(IF c.shouldRet /\ tree.stmts # <<>> THEN "RET" ELSE "OK", c), tree.stmts))
=============================================================================
