----------------------------- MODULE MbashValues -----------------------------
(***************************************************************************)
(* Values, strings and variables of mbash, and the value of an expression  *)
(* (mbash/eval.c, eval.h).  An operator that changes the context EvalCtx   *)
(* takes it as c and answers the next one; one that evaluates answers both *)
(* a value and a context.                                                  *)
(*                                                                         *)
(* A string is an object with a count of the references to it, its Obj.    *)
(* The object is there until kfree; kmalloc always has memory.  What is    *)
(* read without having been written, in memory or on the stack, is         *)
(* c.wild, chosen anew for every line.  A mishap is a step whose effect    *)
(* the language does not define: the context keeps what it was.            *)
(***************************************************************************)
EXTENDS MbashParser

CONSTANTS VarCap,      \* variables a new table has room for, 16
          VarSize      \* bytes of a Var, 12

None == [type |-> "NONE"]
Num(n) == [type |-> "NUMBER", num |-> Wrapped(n)]
Str(obj) == [type |-> "STRING", obj |-> obj]
(* A char* that is no string's.                                            *)
WildString == Str(0)

(* What the program may find where it wrote nothing: a value, the text     *)
(* behind a string that is not terminated, a flag.                         *)
Wilds ==
  {[val |-> None, rest |-> "", flag |-> FALSE], [val |-> Num(1), rest |-> "7", flag |-> TRUE],
   [val |-> WildString, rest |-> "", flag |-> TRUE]}

Var(val, exported, set) == [val |-> val, exported |-> exported, set |-> set]
WildVar(wild) == Var(wild.val, wild.flag, wild.flag)

(* newShellCtx: the table is not cleared.  Neither should_exit nor the     *)
(* arguments are ever set.                                                 *)
NewCtx(wild) ==
  [vars |-> [id \in 0 .. VarCap - 1 |-> WildVar(wild)], cap |-> VarCap,
   args |-> <<>>, objs |-> <<>>, shouldBreak |-> FALSE, shouldRet |-> FALSE,
   ret |-> None, lastExit |-> "OK", wild |-> wild, mishaps |-> {}, out |-> <<>>]

Mishap(c, what) == [c EXCEPT !.mishaps = @ \cup {what}]
Value(val, c) == [val |-> val, c |-> c]
Print1(c, text) == [c EXCEPT !.out = Append(@, text)]

-----------------------------------------------------------------------------
Exists(c, v) == v.type = "STRING" /\ v.obj \in DOMAIN c.objs
Text(c, v) == IF Exists(c, v) THEN c.objs[v.obj].text ELSE ""

(* newStrVal; lost, the model's own, counts references nobody holds.       *)
NewStr(c, text) ==
  LET obj == Min((1 .. Cardinality(DOMAIN c.objs) + 1) \ DOMAIN c.objs)
  IN  Value(Str(obj), [c EXCEPT !.objs = obj :> [text |-> text, refc |-> 1, lost |-> 0] @@ @])

(* ref_add *)
RefAdd(c, v) ==
  IF v.type # "STRING" THEN c
  ELSE IF ~Exists(c, v) THEN Mishap(c, "dangling")
  ELSE [c EXCEPT !.objs[v.obj].refc = @ + 1]

(* ref_del *)
RefDel(c, v) ==
  IF v.type # "STRING" THEN c
  ELSE IF ~Exists(c, v) THEN Mishap(c, "dangling")
  ELSE IF c.objs[v.obj].refc = 1
       THEN [c EXCEPT !.objs = [o \in DOMAIN @ \ {v.obj} |-> @[o]]]
       ELSE [c EXCEPT !.objs[v.obj].refc = @ - 1]

(* A value that goes out of scope with its reference.                      *)
Forget(c, v) == IF Exists(c, v) THEN [c EXCEPT !.objs[v.obj].lost = @ + 1] ELSE c

-----------------------------------------------------------------------------
(* The table setShellVarEntry makes when an id is behind the end: twice as *)
(* many entries, of which memcpy fills as many bytes as the old table had  *)
(* entries.  The type of an entry is its first four bytes, the value the   *)
(* next four, then come the two flags.                                     *)
Copied(c, id) ==
  LET whole(bytes) == id < c.cap /\ VarSize * id + bytes <= c.cap
      wild == WildVar(c.wild)
      cut == CASE c.vars[id].val.type = "NONE" -> None
               [] c.vars[id].val.type = "NUMBER" -> Num(1)
               [] OTHER -> WildString
  IN  IF whole(10) THEN c.vars[id]
      ELSE IF whole(8) THEN [wild EXCEPT !.val = c.vars[id].val]
      ELSE IF whole(4) THEN [wild EXCEPT !.val = cut]
      ELSE wild
Grow(c) ==
  LET gone == {id \in DOMAIN c.vars : VarSize * id + 8 > c.cap}
      left == FoldSet(LAMBDA id, acc : Forget(acc, c.vars[id].val), c, gone)
  IN  [left EXCEPT !.vars = [id \in 0 .. 2 * c.cap - 1 |-> Copied(c, id)],
                   !.cap = 2 * @]

(* Slip: the table takes the value without a reference of its own.         *)
SetEntryBorrowing(c, id, v) ==
  LET table == IF id \in DOMAIN c.vars THEN c ELSE Grow(c)
  IN  IF id \notin DOMAIN table.vars THEN Mishap(table, "outside")
      ELSE [RefDel(table, table.vars[id].val) EXCEPT !.vars[id] = Var(v, FALSE, TRUE)]
(* setShellVarEntry: the table grows once, however large the id.  A        *)
(* negative long is a large size_t.                                        *)
SetEntry(c, id, v) ==
  LET table == IF id \in DOMAIN c.vars THEN c ELSE Grow(c)
  IN  IF id \notin DOMAIN table.vars THEN Mishap(table, "outside")
      ELSE [RefAdd(RefDel(table, table.vars[id].val), v)
              EXCEPT !.vars[id] = Var(v, FALSE, TRUE)]

(* getShellVarEntry and a read of the entry: the one behind the last is    *)
(* given out too.                                                          *)
EntryAt(c, id) == IF id = c.cap THEN WildVar(c.wild) ELSE c.vars[id]

(* exportShellVar *)
ExportVar(c, id) ==
  IF id \notin 0 .. c.cap \/ ~EntryAt(c, id).set THEN c
  ELSE IF id = c.cap THEN Mishap(c, "outside")
  ELSE [c EXCEPT !.vars[id].exported = TRUE]

(* evalVarRef; the value NONE stands for an id too large.                  *)
EvalVarRef(e, c) ==
  IF e.num \notin 0 .. c.cap THEN Value(None, c)
  ELSE LET v == EntryAt(c, e.num).val IN Value(v, RefAdd(c, v))

(* getShellArg, and evalArgRef, which adds a second reference.             *)
ShellArg(c, n) ==
  IF n \notin 0 .. Len(c.args) - 1 THEN Value(Num(0), c)
  ELSE Value(c.args[n + 1], RefAdd(c, c.args[n + 1]))
EvalArgRef(e, c) ==
  LET arg == ShellArg(c, e.num) IN Value(arg.val, Forget(RefAdd(arg.c, arg.val), arg.val))

(* addShellArg, which nothing in the kernel calls.                         *)
AddArg(c, v) == IF Len(c.args) >= VarCap THEN c ELSE [c EXCEPT !.args = Append(@, v)]

-----------------------------------------------------------------------------
(* ltoa in base 10.  Zero is "0\n" and whatever is behind it; a negative   *)
(* number has the characters as far below '0' as its digits are above 0.   *)
Below == <<"/", ".", "-", ",", "+", "*", ")", "(", "'">>
Ltoa(n, rest) ==
  IF n = 0 THEN "0\n" \o rest
  ELSE IF n > 0 THEN ToString(n)
  ELSE FoldLeft(LAMBDA text, k :
                  LET d == SubSeq(ToString(-n), k, k)
                  IN  text \o (IF d = "0" THEN d ELSE Below[Atol(d)]),
                "", [k \in 1 .. Len(ToString(-n)) |-> k])

IsTruly(c, v) ==
  CASE v.type = "NUMBER" -> v.num # 0
    [] v.type = "STRING" -> Text(c, v) # ""
    [] OTHER -> FALSE

AsText(c, v) == IF v.type = "STRING" THEN Text(c, v) ELSE Ltoa(v.num, c.wild.rest)

(* The order of strcmp, for the texts the instances use.                   *)
Ascii == " '()*+,-./0123456789ABCDEFGHIJKLMNOPQRSTUVWXYZabcdefghijklmnopqrstuvwxyz"
Code(char) == IF char = "" THEN 0
              ELSE Min({k \in 1 .. Len(Ascii) : SubSeq(Ascii, k, k) = char} \cup {Len(Ascii)})
Strcmp(s, t) ==
  LET differ == {k \in 0 .. Len(s) : k >= Len(t) \/ Peek(s, k) # Peek(t, k)}
  IN  IF s = t THEN 0 ELSE Code(Peek(s, Min(differ))) - Code(Peek(t, Min(differ)))

Quotient(a, b) ==
  IF b = 0 THEN 0
  ELSE LET q == (IF a < 0 THEN -a ELSE a) \div (IF b < 0 THEN -b ELSE b)
       IN  IF (a < 0) = (b < 0) THEN q ELSE -q

Truth(b) == Num(IF b THEN 1 ELSE 0)
Calculated(op, a, b) ==
  CASE op = "PLUS" -> Num(a + b) [] op = "MINUS" -> Num(a - b)
    [] op = "MUL" -> Num(a * b) [] op = "DIV" -> Num(Quotient(a, b))
Compared(op, a, b) ==
  CASE op = "EQ" -> Truth(a = b) [] op = "BEQ" -> Truth(a # b)
    [] op = "LESS" -> Truth(a < b) [] op = "LEQ" -> Truth(a <= b)
    [] op = "GREATER" -> Truth(a > b) [] op = "GEQ" -> Truth(a >= b)

(* The result of evalBinExpr for two values that are not NONE.  A number   *)
(* is compared with a string as with 0; a string with a number through a   *)
(* null pointer.  What an operator has no case for is never assigned:      *)
(* and, or, and the arithmetic of strings but for +.                       *)
Combined(op, l, r, c) ==
  LET numbers == l.type = "NUMBER" /\ r.type = "NUMBER"
      isMath == op \in {"PLUS", "MINUS", "MUL", "DIV"}
      isCmp == Precedence(op) = 2
  IN  CASE isMath /\ numbers -> Value(Calculated(op, l.num, r.num), c)
        [] op = "PLUS" /\ ~numbers -> NewStr(c, AsText(c, l) \o AsText(c, r))
        [] isCmp /\ l.type = "NUMBER" ->
             Value(Compared(op, l.num, IF numbers THEN r.num ELSE 0), c)
        [] isCmp /\ l.type = "STRING" /\ r.type = "STRING" ->
             Value(Compared(op, Strcmp(Text(c, l), Text(c, r)), 0), c)
        [] isCmp /\ l.type = "STRING" /\ r.type = "NUMBER" ->
             Value(c.wild.val, Mishap(c, "null"))
        [] OTHER -> Value(c.wild.val, c)

RECURSIVE EvalExpr(_, _)
EvalUnary(e, c) ==
  LET inner == EvalExpr(e.expr, c)
      v == inner.val
  IN  CASE v.type = "NONE" -> inner
        [] e.op = "MINUS" /\ v.type = "STRING" -> inner
        [] e.op = "MINUS" -> Value(Num(-v.num), inner.c)
        [] OTHER -> Value(Truth(~IsTruly(inner.c, v)), RefDel(inner.c, v))

(* A right side of NONE leaves the left side's reference behind.           *)
EvalBinary(e, c) ==
  LET left == EvalExpr(e.left, c)
      right == EvalExpr(e.right, left.c)
      result == Combined(e.op, left.val, right.val, right.c)
  IN  IF left.val.type = "NONE" THEN left
      ELSE IF right.val.type = "NONE" THEN Value(None, Forget(right.c, left.val))
      ELSE Value(result.val, RefDel(RefDel(result.c, left.val), right.val))

(* evalExpr, evalNum, evalStr *)
EvalExpr(e, c) ==
  CASE e.type = "NUM_LIT" -> Value(Num(e.num), c)
    [] e.type = "STRING_LIT" -> NewStr(c, e.str)
    [] e.type = "VAR_REF" -> EvalVarRef(e, c)
    [] e.type = "ARG_REF" -> EvalArgRef(e, c)
    [] e.type = "BINARY_EXPR" -> EvalBinary(e, c)
    [] e.type = "UNARY" -> EvalUnary(e, c)
    [] OTHER -> Value(None, c)
=============================================================================
