------------------------------- MODULE MCShell -------------------------------
EXTENDS Shell

MCExplorers == 8 :> "/"
MCLines ==
  {"1:\"a\" = \"x\"", "2:\"b\" = $1:\"a\"",
   "if $1:\"a\" == \"x\" then 1:\"a\" = $1:\"a\" + \"y\" else 1:\"a\" = \"x\" fi",
   "20:\"c\" = $1:\"a\"", "40:\"d\" = 1", "echo $1:\"a\" + $99:\"z\"",
   "mkdir 8 $2:\"b\"", "setfs 0 0 0", "pwd $0:\"r\"", "ref_count $1:\"a\"",
   "ls 8", "what 1", "export $1:a", "return $1:\"a\"",
   "do { echo \"x\" break } while 1", "1:\"a\" = ! \"x\"", "echo (1",
   "what 1 1 1 1 1 1 1 1 1 1 1 1 1 1 1 1 1 1 1 1 1 1"}
(* Of documentation/es/shell.md: the loops of lines 155-172 and 175-190,   *)
(* in one line each.                                                       *)
DoLoop == "do { echo \"Hola\" 1:\"i\" = $1:\"i\" + 1 } while $1:\"i\" < 5"
DocumentedFor ==
  "for (1:\"i\" = 0; $1:\"i\" < 10; 1:\"i\" = $1:\"i\" + 1) do echo $1:\"i\" done"
MCLoops == {DoLoop, DocumentedFor}
(* The first is read, and the second is not: the lexer tries do before     *)
(* done and does not go back (lexer.c:201).                                *)
ASSUME LoopsOfTheGuide ==
  ~Fails([node |-> Parse(Tokens(DoLoop))]) /\ Fails([node |-> Parse(Tokens(DocumentedFor))])

-----------------------------------------------------------------------------
(* Expressions over two operands and operators of three strengths, and     *)
(* how they are written: a bracket where the right side is not stronger    *)
(* than the operator, or the left one weaker.                              *)
Leaves == {NumLit(2), VarRef(1, "v")}
Operators ==
  {<<"PLUS", " + ">>, <<"MINUS", " - ">>, <<"MUL", " * ">>, <<"DIV", " / ">>, <<"LESS", " < ">>}
Joined(L, R) == {Binary(op[1], l, r) : op \in Operators, l \in L, r \in R}
Small == Leaves \cup Joined(Leaves, Leaves)
Exprs == Leaves \cup Joined(Small, Small)

RECURSIVE Written(_, _)
Written(e, least) ==
  CASE e.type = "NUM_LIT" -> ToString(e.num)
    [] e.type = "VAR_REF" -> "$" \o ToString(e.num) \o ":'" \o e.name \o "'"
    [] OTHER ->
         LET p == Precedence(e.op)
             sign == CHOOSE op \in Operators : op[1] = e.op
             text == Written(e.left, p) \o sign[2] \o Written(e.right, p + 1)
         IN  IF p < least THEN "(" \o text \o ") " ELSE text

(* Every expression without brackets is read back as what was written: by  *)
(* strength, and from the left.  A bracket takes the token behind it along *)
(* (parser.c:301), so of those with brackets only the ones that end with   *)
(* one are read, as far as it.                                             *)
ASSUME ExpressionsReadBack ==
  \A e \in Exprs :
    LET text == Written(e, 0)
        read == Parse(Tokens("echo " \o text))
    IN  "(" \notin CharsOf(text) => read = Program(<<Echo(e)>>)

(* What is evaluated is the arithmetic of two's complement.                *)
Abs(n) == IF n < 0 THEN -n ELSE n
RECURSIVE Meaning(_, _)
Meaning(e, v) ==
  CASE e.type = "NUM_LIT" -> e.num
    [] e.type = "VAR_REF" -> v
    [] OTHER -> LET a == Meaning(e.left, v)
                    b == Meaning(e.right, v)
                IN  CASE e.op = "PLUS" -> Wrapped(a + b)
                      [] e.op = "MINUS" -> Wrapped(a - b)
                      [] e.op = "MUL" -> Wrapped(a * b)
                      [] e.op = "LESS" -> IF a < b THEN 1 ELSE 0
                      [] b = 0 -> 0
                      [] OTHER -> CHOOSE q \in -32767 .. 32767 :
                                    /\ Abs(q * b) <= Abs(a)
                                    /\ Abs(a - q * b) < Abs(b)
Holding(v) == SetEntry(NewCtx(Quiet), 1, Num(v))
ASSUME ExpressionsMeanThat ==
  \A e \in Joined(Leaves, Small), v \in {-3, 0, 32767} :
    EvalExpr(e, Holding(v)).val = Num(Meaning(e, v))

(* parser_free_ast gives back every block of a tree that was parsed: as    *)
(* many as its tree has nodes, names, texts and lists that are not empty.  *)
RECURSIVE BlocksOf(_)
BlocksOf(n) ==
  LET fields(names) == [k \in 1 .. Cardinality(names \cap DOMAIN n) |->
                          n[SetToSeq(names \cap DOMAIN n)[k]]]
      lists == SelectSeq(fields({"stmts", "args", "thenb", "elseb", "body"}), LAMBDA l : l # <<>>)
      nodes == fields({"expr", "left", "right", "condition", "init", "inc", "var"}) \o FlattenSeq(lists)
  IN  IF n = Null THEN 0
      ELSE FoldLeft(LAMBDA sum, node : sum + BlocksOf(node),
                    1 + Cardinality({"name", "str"} \cap DOMAIN n) + Len(lists), nodes)
ASSUME TreesGivenBack ==
  \A line \in MCLines \cup MCLoops :
    LET tree == Parse(Tokens(line)) IN FreeAst(tree) = BlocksOf(tree)

(* What loops print: a for, which no line can have, counts up to its       *)
(* condition and a do runs before it is asked; break ends either.          *)
Prints(tree, texts) == EvalProgram(Program(<<tree>>), NewCtx(Quiet)).c.out = texts
Counter == VarRef(1, "i")
Counting(body) ==
  For(Assignment(1, "i", NumLit(0)), Binary("LESS", Counter, NumLit(3)),
      Assignment(1, "i", Binary("PLUS", Counter, NumLit(1))), body)
Third(then) == If(Binary("EQ", Counter, NumLit(2)), <<then>>, <<Echo(Counter)>>)
ASSUME LoopsRun ==
  /\ Prints(Counting(<<Echo(Counter)>>), <<"0", "1", "2">>)
  /\ Prints(Counting(<<Third(Break)>>), <<"0", "1">>)
  /\ Prints(Counting(<<Third(CommandCall("none", <<>>))>>), <<"0", "1">>)
  /\ Prints(While(NumLit(0), <<Echo(StringLit("once")), Echo(NumLit(7))>>), <<"once", "7">>)
  /\ Prints(If(StringLit(""), <<Break>>, <<Echo(NumLit(1)), Echo(NumLit(2))>>), <<"1", "2">>)
=============================================================================
