----------------------------- MODULE MbashParser -----------------------------
(***************************************************************************)
(* The parser of mbash (mbash/parser.c, parser.h): recursive descent over  *)
(* the tokens T of a line, which end in EOF.  A parse_ function answers a  *)
(* node, Null if it fails, and where it left token_index.  Memory is taken *)
(* to be there, so failing is always for a token; what nodes the failing   *)
(* paths give back is left out.                                            *)
(***************************************************************************)
EXTENDS MbashLexer

CONSTANT LongBits   \* bits of a long, 32

ASSUME LongConstant == LongBits \in 2 .. 16

LongSize == 2 ^ LongBits
(* What a long holds of an integer.                                        *)
Wrapped(n) ==
  LET low == n % LongSize IN IF low >= LongSize \div 2 THEN low - LongSize ELSE low

(* atol, for the digits of a number.                                       *)
Atol(text) ==
  FoldLeft(LAMBDA n, k : Wrapped(10 * n + CHOOSE d \in 0 .. 9 :
                                            ToString(d) = SubSeq(text, k, k)),
           0, [k \in 1 .. Len(text) |-> k])

-----------------------------------------------------------------------------
(* ASTNode *)
Null == [type |-> "NULL"]
NumLit(n) == [type |-> "NUM_LIT", num |-> n]
StringLit(s) == [type |-> "STRING_LIT", str |-> s]
VarRef(n, name) == [type |-> "VAR_REF", num |-> n, name |-> name]
ArgRef(n) == [type |-> "ARG_REF", num |-> n]
Unary(op, e) == [type |-> "UNARY", op |-> op, expr |-> e]
Binary(op, l, r) == [type |-> "BINARY_EXPR", op |-> op, left |-> l, right |-> r]
Assignment(n, name, e) == [type |-> "ASSIGNMENT", num |-> n, name |-> name, expr |-> e]
CommandCall(name, args) == [type |-> "COMMAND_CALL", name |-> name, args |-> args]
Export(var) == [type |-> "EXPORT", var |-> var]
If(c, t, e) == [type |-> "IF", condition |-> c, thenb |-> t, elseb |-> e]
While(c, b) == [type |-> "WHILE_LOOP", condition |-> c, body |-> b]
For(i, c, n, b) ==
  [type |-> "FOR_LOOP", init |-> i, condition |-> c, inc |-> n, body |-> b]
Echo(e) == [type |-> "ECHO", expr |-> e]
Return(e) == [type |-> "RETURN", expr |-> e]
Break == [type |-> "BREAK"]
Program(stmts) == [type |-> "PROGRAM", stmts |-> stmts]

Made(node, at) == [node |-> node, at |-> at]
Failed(at) == Made(Null, at)
Fails(r) == r.node.type = "NULL"

(* peek, eat; match is a comparison, and a step of one token.              *)
TypeAt(T, k) == T[k].type
Eat(T, k) == IF TypeAt(T, k) = "EOF" THEN k ELSE k + 1
(* while (peek()->type == TOKEN_NEW_LINE) eat();                           *)
SkipLines(T, k) == Min({j \in k .. Len(T) : TypeAt(T, j) # "NEW_LINE"})

-----------------------------------------------------------------------------
Precedence(op) ==
  CASE op \in {"MUL", "DIV"} -> 4
    [] op \in {"PLUS", "MINUS"} -> 3
    [] op \in {"GREATER", "LESS", "GEQ", "LEQ", "EQ", "BEQ"} -> 2
    [] op \in {"AND", "OR"} -> 1
    [] OTHER -> 0

RECURSIVE ParsePrimary(_, _), ParseUnary(_, _), ParseBinary(_, _, _), Climb(_, _, _)

(* What a node is made of, if its part was read.                           *)
Around(part, Node(_)) == IF Fails(part) THEN part ELSE Made(Node(part.node), part.at)

(* parse_primary_expr.  A reference to an argument and a closing bracket   *)
(* each take the token behind them, whatever it is.                        *)
Closed(T, inner) ==
  IF TypeAt(T, inner.at) # "RPAREN" THEN Failed(inner.at)
  ELSE Made(inner.node, Eat(T, inner.at + 1))
ParsePrimary(T, k) ==
  CASE TypeAt(T, k) = "NUMBER" -> Made(NumLit(Atol(T[k].value)), k + 1)
    [] TypeAt(T, k) = "STRING" -> Made(StringLit(T[k].value), k + 1)
    [] TypeAt(T, k) = "DOLLAR" ->
         IF TypeAt(T, k + 1) # "NUMBER" THEN Failed(k + 1)
         ELSE LET n == Atol(T[k + 1].value)
              IN  IF TypeAt(T, k + 2) # "COLON"
                  THEN Made(ArgRef(n), Eat(T, k + 2))
                  ELSE IF TypeAt(T, k + 3) # "STRING" THEN Failed(k + 3)
                       ELSE Made(VarRef(n, T[k + 3].value), k + 4)
    [] TypeAt(T, k) = "LPAREN" ->
         Closed(T, ParseBinary(T, k + 1, 0))
    [] OTHER -> Failed(k)

(* parse_unary_expr: an operator before what is no expression is a node    *)
(* nevertheless, of an expression that is NULL.                            *)
Signed(op, inner) == Made(Unary(op, inner.node), inner.at)
ParseUnary(T, k) ==
  IF TypeAt(T, k) \notin {"MINUS", "BANG"} THEN ParsePrimary(T, k)
  ELSE Signed(TypeAt(T, k), ParseUnary(T, k + 1))

(* The loop of parse_binary_expr, behind its left side.                    *)
Climb(T, left, least) ==
  LET op == TypeAt(T, left.at)
      p == Precedence(op)
  IN  IF Fails(left) \/ p = 0 \/ p < least THEN left
      ELSE Climb(T, Around(ParseBinary(T, left.at + 1, p + 1),
                           LAMBDA right : Binary(op, left.node, right)), least)
ParseBinary(T, k, least) == Climb(T, ParseUnary(T, k), least)

ParseExpression(T, k) == ParseBinary(T, k, 0)

-----------------------------------------------------------------------------
(* parse_assignment: number : "name" = expression.                         *)
ParseAssignment(T, k) ==
  IF TypeAt(T, k + 1) # "COLON" THEN Failed(k + 1)
  ELSE IF TypeAt(T, k + 2) # "STRING" THEN Failed(Eat(T, k + 2))
  ELSE IF TypeAt(T, k + 3) # "ASSIGN" THEN Failed(k + 3)
  ELSE Around(ParseExpression(T, k + 4),
              LAMBDA e : Assignment(Atol(T[k].value), T[k + 2].value, e))

ArgsEnd ==
  {"NEW_LINE", "EOF", "PIPE", "IF", "WHILE", "FOR", "BREAK", "RETURN", "EXPORT", "ECHO"}
RECURSIVE ParseArgs(_, _, _)
(* parse_expression_list.  One that fails leaves no list and a count of 0, *)
(* which parse_command_call takes for a call without arguments.            *)
ParseArgs(T, k, args) ==
  IF TypeAt(T, k) \in ArgsEnd THEN [args |-> args, at |-> k]
  ELSE LET e == ParseExpression(T, k)
       IN  IF Fails(e) THEN [args |-> <<>>, at |-> e.at]
           ELSE ParseArgs(T, e.at, Append(args, e.node))

ParseCommandCall(T, k) ==
  LET list == ParseArgs(T, k + 1, <<>>)
  IN  Made(CommandCall(T[k].value, list.args), list.at)

ParseEcho(T, k) == Around(ParseExpression(T, k + 1), Echo)

ParseReturn(T, k) ==
  IF TypeAt(T, k + 1) \in {"NEW_LINE", "SEMICOLON", "COMMA", "PIPE", "EOF"}
  THEN Made(Return(Null), k + 1)
  ELSE Around(ParseExpression(T, k + 1), Return)

(* parse_export: export $ number : name, the name without quotes.          *)
ParseExport(T, k) ==
  IF TypeAt(T, k + 1) # "DOLLAR" THEN Failed(k + 1)
  ELSE LET colon == Eat(T, k + 2)
       IN  IF TypeAt(T, colon) # "COLON" THEN Failed(colon)
           ELSE IF TypeAt(T, k + 2) # "NUMBER" \/ TypeAt(T, colon + 1) # "IDENTIFIER"
           THEN Failed(Eat(T, colon + 1))
           ELSE Made(Export(VarRef(Atol(T[k + 2].value), T[colon + 1].value)), colon + 2)

-----------------------------------------------------------------------------
RECURSIVE ParseStatement(_, _), ParseList(_, _, _, _), ListBehind(_, _, _, _)

(* What was read, if the token behind it is of that type, which is eaten;  *)
(* and the same with lines between them.                                   *)
Expect(T, r, type) ==
  IF Fails(r) \/ TypeAt(T, r.at) # type THEN Failed(r.at) ELSE Made(r.node, r.at + 1)
Opened(T, r, type) ==
  IF Fails(r) THEN r ELSE Expect(T, Made(r.node, SkipLines(T, r.at)), type)

(* parse_statement_list, up to one of the tokens in stop, and the loop of  *)
(* parse_program, for which nothing but EOF stops.                         *)
List(list) == [type |-> "LIST", list |-> list]
ListBehind(T, stmt, stop, list) ==
  IF Fails(stmt) THEN stmt
  ELSE ParseList(T, SkipLines(T, stmt.at), stop, Append(list, stmt.node))
ParseList(T, k, stop, list) ==
  IF TypeAt(T, k) \in stop \cup {"EOF"} THEN Made(List(list), k)
  ELSE IF TypeAt(T, k) = "NEW_LINE" THEN ParseList(T, k + 1, stop, list)
  ELSE ListBehind(T, ParseStatement(T, k), stop, list)

(* A block behind what opens it: a list that may not be empty.             *)
Filled(block) == IF block.node = List(<<>>) THEN Failed(block.at) ELSE block
ParseBlock(T, opening, stop) ==
  IF Fails(opening) THEN opening
  ELSE Filled(ParseList(T, SkipLines(T, opening.at), stop, <<>>))

(* parse_if *)
ElseBehind(T, then, thenb, elseb) ==
  Around(Expect(T, elseb, "FI"), LAMBDA e : If(then.node, thenb.node.list, e.list))
ThenBehind(T, then, thenb) ==
  IF Fails(thenb) THEN thenb
  ELSE IF TypeAt(T, thenb.at) # "ELSE" THEN ElseBehind(T, then, thenb, Made(List(<<>>), thenb.at))
  ELSE ElseBehind(T, then, thenb, ParseBlock(T, Made(thenb.node, thenb.at + 1), {"FI"}))
IfBehind(T, then) == ThenBehind(T, then, ParseBlock(T, then, {"FI", "ELSE"}))
ParseIf(T, k) == IfBehind(T, Opened(T, ParseExpression(T, k + 1), "THEN"))

(* parse_while: do { statements } while condition, where any token is      *)
(* taken for the while.                                                    *)
WhileBehind(T, body) ==
  IF Fails(body) THEN body
  ELSE Around(ParseExpression(T, Eat(T, body.at)), LAMBDA c : While(c, body.node.list))
ParseWhile(T, k) ==
  WhileBehind(T, Expect(T, ParseBlock(T, Opened(T, Made(List(<<>>), k + 1), "LBRACE"), {"RBRACE"}),
                        "RBRACE"))

(* parse_for: three parts, each empty if the token that ends it comes.     *)
Parts == << <<"statement", "SEMICOLON">>, <<"expression", "SEMICOLON">>, <<"statement", "RPAREN">> >>
ParsePart(T, parts, kind, end) ==
  IF Fails(parts) THEN parts
  ELSE IF TypeAt(T, parts.at) = end THEN Made(List(Append(parts.node.list, Null)), parts.at + 1)
  ELSE Expect(T, Around(IF kind = "statement" THEN ParseStatement(T, parts.at)
                        ELSE ParseExpression(T, parts.at),
                        LAMBDA part : List(Append(parts.node.list, part))), end)
ForBehind(T, parts) ==
  Around(Expect(T, ParseBlock(T, Opened(T, parts, "DO"), {"DONE"}), "DONE"),
         LAMBDA b : For(parts.node.list[1], parts.node.list[2], parts.node.list[3], b.list))
ParseFor(T, k) ==
  IF TypeAt(T, k + 1) # "LPAREN" THEN Failed(k + 1)
  ELSE ForBehind(T, FoldLeft(LAMBDA parts, p : ParsePart(T, parts, p[1], p[2]),
                             Made(List(<<>>), k + 2), Parts))

(* parse_statement *)
ParseStatement(T, k) ==
  CASE TypeAt(T, k) = "IDENTIFIER" -> ParseCommandCall(T, k)
    [] TypeAt(T, k) = "NUMBER" -> ParseAssignment(T, k)
    [] TypeAt(T, k) = "IF" -> ParseIf(T, k)
    [] TypeAt(T, k) = "DO" -> ParseWhile(T, k)
    [] TypeAt(T, k) = "FOR" -> ParseFor(T, k)
    [] TypeAt(T, k) = "BREAK" -> Made(Break, k + 1)
    [] TypeAt(T, k) = "RETURN" -> ParseReturn(T, k)
    [] TypeAt(T, k) = "EXPORT" -> ParseExport(T, k)
    [] TypeAt(T, k) = "ECHO" -> ParseEcho(T, k)
    [] OTHER -> Failed(k)

(* parse, parse_program *)
Parse(T) == Around(ParseList(T, 1, {}, <<>>), LAMBDA p : Program(p.list)).node

-----------------------------------------------------------------------------
(* parser_free_ast: how many blocks of memory it gives back, a list being  *)
(* one block and a copied name or text another.                            *)
RECURSIVE FreeAst(_)
FreeList(list) ==
  (IF list = <<>> THEN 0 ELSE 1)
    + FoldLeft(LAMBDA sum, n : sum + FreeAst(n), 0, list)
FreeAst(n) ==
  CASE n.type = "NULL" -> 0
    [] n.type = "PROGRAM" -> 1 + FreeList(n.stmts)
    [] n.type = "ASSIGNMENT" -> 2 + FreeAst(n.expr)
    [] n.type = "COMMAND_CALL" -> 2 + FreeList(n.args)
    [] n.type \in {"VAR_REF", "STRING_LIT"} -> 2
    [] n.type = "BINARY_EXPR" -> 1 + FreeAst(n.left) + FreeAst(n.right)
    [] n.type \in {"UNARY", "ECHO", "RETURN"} -> 1 + FreeAst(n.expr)
    [] n.type = "IF" -> 1 + FreeAst(n.condition) + FreeList(n.thenb) + FreeList(n.elseb)
    [] n.type = "WHILE_LOOP" -> 1 + FreeAst(n.condition) + FreeList(n.body)
    [] n.type = "FOR_LOOP" -> 1 + FreeAst(n.init) + FreeAst(n.condition)
                                + FreeAst(n.inc) + FreeList(n.body)
    [] n.type = "EXPORT" -> 1 + FreeAst(n.var)
    [] OTHER -> 1
=============================================================================
