-------------------------------- MODULE Shell --------------------------------
(***************************************************************************)
(* The kernel shell (src/shell.c): it enters one line after the other into *)
(* lexer, parser and evaluator, with one context for all of them.          *)
(*                                                                         *)
(* After a mishap the program's state is no longer known, and nothing more *)
(* is said of it.                                                          *)
(***************************************************************************)
EXTENDS MbashEval

CONSTANTS Lines,     \* what may be typed
          MaxTokens, \* tokens t_buff has room for, 64
          MaxObjs,   \* bound: strings there when a line is entered
          MaxLost    \* bound: references lost until then to one of them

VARIABLE ctx       \* global_ctx

Trees == [line \in Lines |-> Parse(Tokens(line))]
Parses(line) == ~Fails([node |-> Trees[line]])

(* What is left between two lines: of what was printed nothing is kept,    *)
(* and after a mishap only which one it was.                               *)
Quiet == CHOOSE wild \in Wilds : wild.val = None
Between(c) ==
  IF c.mishaps = {} THEN [c EXCEPT !.wild = Quiet, !.out = <<>>]
  ELSE [NewCtx(Quiet) EXCEPT !.mishaps = c.mishaps]

(* lexen writes one token more than its bound before it stops.             *)
TooLong == {line \in Lines : Len(Tokens(line)) > MaxTokens}

(* shellEntry's loop for '\n'.  A line that does not parse is not          *)
(* evaluated.                                                              *)
Enter(line, wild) ==
  /\ ctx.mishaps = {}
  /\ Cardinality(DOMAIN ctx.objs) <= MaxObjs
  /\ \A o \in DOMAIN ctx.objs : ctx.objs[o].lost <= MaxLost
  /\ ctx' = IF line \in TooLong THEN Between(Mishap(ctx, "tokens"))
            ELSE IF Parses(line) THEN Between(EvalProgram(Trees[line], [ctx EXCEPT !.wild = wild]).c)
            ELSE ctx

Init == \E wild \in Wilds : ctx = Between(NewCtx(wild))
Next == \E line \in Lines, wild \in Wilds : Enter(line, wild)
Spec == Init /\ [][Next]_ctx

-----------------------------------------------------------------------------
Held(o) ==
  {<<"var", id>> : id \in {i \in DOMAIN ctx.vars : ctx.vars[i].val = Str(o)}}
    \cup {<<"arg", n>> : n \in {k \in DOMAIN ctx.args : ctx.args[k] = Str(o)}}
    \cup {<<"ret", 0>> : r \in {0} \cap {IF ctx.ret = Str(o) THEN 0 ELSE 1}}

(* Between two lines a string is counted once for every variable, argument *)
(* and returned value that is it, and once for every reference the program *)
(* has lost: it is freed with the last of them and never before            *)
(* (eval.c ref_add, ref_del and everyone who calls them).                  *)
RefsExact ==
  ctx.mishaps = {} =>
    \A o \in DOMAIN ctx.objs :
      ctx.objs[o].refc = Cardinality(Held(o)) + ctx.objs[o].lost

(* No variable that was assigned, nor the value returned, is a string that *)
(* was freed, as long as no line had a mishap.                             *)
NothingDangling ==
  ctx.mishaps = {} =>
    \A v \in {ctx.vars[id].val : id \in DOMAIN ctx.vars} \cup {ctx.ret} :
      v.type = "STRING" => v = WildString \/ Exists(ctx, v)
=============================================================================
