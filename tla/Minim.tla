--------------------------------- MODULE Minim ---------------------------------
(***************************************************************************)
(* minim (minim/minim.c): formulas in postfix order on a stack that stays  *)
(* from one line to the next.  A line is a sequence of characters.  A pop  *)
(* of the empty stack returns nothing: whatever it says is here junk.      *)
(*                                                                         *)
(* strncmp takes "PI...", "PRN" or anything that begins with R for PRINT   *)
(* as well; five characters are dropped, and what follows the line's end   *)
(* may be among them.                                                      *)
(***************************************************************************)
EXTENDS MbashValues, LibStrings

CONSTANT StackSize \* STACK_SIZE, 256

Operations == <<"+", "-", "*", "/">>
PRINT == <<"P", "R", "I", "N", "T">>
Behead(s, n) == SubSeq(s, n + 1, Len(s))

(* get_next_token: its type, its value, and what is left of the line.      *)
GetNextToken(s) ==
  LET ink == SelectInSeq(s, LAMBDA c : c \notin Spaces)
      t == Behead(s, ink - 1)
      other == SelectInSeq(t, LAMBDA c : c \notin Digits)
      len == IF other = 0 THEN Len(t) ELSE other - 1
      digit(c) == SelectInSeq(Numerals, LAMBDA d : d = c) - 1
      made(type, value, n) ==
        [type |-> type, value |-> value, rest |-> Behead(t, n), wild |-> n > Len(t)]
  IN  CASE ink = 0 -> [type |-> "EOF", value |-> 0, rest |-> <<>>, wild |-> FALSE]
        [] t[1] \in Digits ->
             made("NUMBER", FoldLeft(LAMBDA v, c : Wrapped(v * 10 + digit(c)), 0, SubSeq(t, 1, len)), len)
        [] t[1] \in ToSet(Operations) -> made(t[1], 0, 1)
        [] OTHER -> IF StrncmpEqual(t, PRINT, 5) THEN made("PRINT", 0, 5) ELSE made("UNKNOWN", 0, 1)

Push(stack, v) == IF Len(stack) < StackSize THEN Append(stack, v) ELSE stack
Pop(stack) == IF stack = <<>> THEN stack ELSE Front(stack)
Top(stack, junk) == IF stack = <<>> THEN junk ELSE Last(stack)

Operated(op, a, b) ==
  CASE op = "+" -> Wrapped(a + b)
    [] op = "-" -> Wrapped(a - b)
    [] op = "*" -> Wrapped(a * b)
    [] op = "/" -> Quotient(a, b)

(* interpret: what the line prints, the stack after it, and how it ends.   *)
(* A division by zero is reported, and then done.                          *)
Interpret(source, before, junk) ==
  LET step(st, k) ==
        LET token == GetNextToken(st.rest)
            b == Top(st.stack, junk)
            a == Top(Pop(st.stack), junk)
            below == Pop(Pop(st.stack))
            next == [st EXCEPT !.rest = token.rest, !.end = IF token.wild THEN "wild" ELSE "no"]
        IN  CASE st.end # "no" -> st
              [] token.type = "EOF" -> [st EXCEPT !.end = "eof"]
              [] token.type = "NUMBER" -> [next EXCEPT !.stack = Push(@, token.value)]
              [] token.type = "PRINT" -> [next EXCEPT !.out = Append(@, b), !.stack = Pop(@)]
              [] token.type = "UNKNOWN" -> [next EXCEPT !.out = Append(@, "unknown")]
              [] token.type = "/" /\ b = 0 -> [st EXCEPT !.out = Append(@, "zero"), !.end = "fault"]
              [] OTHER -> [next EXCEPT !.stack = Push(below, Operated(token.type, a, b))]
  IN  FoldLeft(step, [rest |-> source, stack |-> before, out |-> <<>>, end |-> "no"],
               [k \in 1 .. Len(source) + 1 |-> k])

-----------------------------------------------------------------------------
(* Formulas, as they are written and as they are meant.                    *)
Atoms == {[text |-> <<"7">>, value |-> 7], [text |-> <<"4", "0">>, value |-> 40]}
Applied(L, R) ==
  {[text |-> l.text \o <<" ">> \o r.text \o <<op>>, value |-> Operated(op, l.value, r.value)] :
     l \in L, r \in R, op \in ToSet(Operations)}
Formulas == Atoms \cup Applied(Atoms, Atoms) \cup Applied(Applied(Atoms, Atoms), Atoms)
              \cup Applied(Atoms, Applied(Atoms, Atoms))

(* A formula that divides by nothing prints what it means and leaves the   *)
(* stack as it found it, whatever is left there of lines before, as long   *)
(* as there is room for its operands (minim.c:101-173).                    *)
ASSUME FormulasPrinted ==
  \A f \in Formulas, n \in 0 .. StackSize - 3 :
    LET below == [k \in 1 .. n |-> k]
        run == Interpret(f.text \o <<" ">> \o PRINT, below, 99)
    IN  run.end = "eof" => run.out = <<f.value>> /\ run.stack = below
ASSUME FormulasEnd == \A f \in Atoms \cup Applied(Atoms, Atoms) : Interpret(f.text, <<>>, 99).end = "eof"
=============================================================================
