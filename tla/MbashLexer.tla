------------------------------ MODULE MbashLexer ------------------------------
(***************************************************************************)
(* The lexer of mbash, the shell's language (mbash/lexer.c, mbtype.c).     *)
(* A source is a string and a position the number of characters before it; *)
(* the character behind the last one, '\0' in the code, is "" here.        *)
(*                                                                         *)
(* The function `pattern` that finds keywords and the operators of two     *)
(* characters takes one character more than the pattern, and when a letter *)
(* follows that one it answers no without going back.                      *)
(***************************************************************************)
EXTENDS Integers, Sequences, FiniteSetsExt, SequencesExt, TLC

CharsOf(str) == {SubSeq(str, k, k) : k \in 1 .. Len(str)}
(* k_isspace, k_isalpha, k_isdigit, k_isalnum *)
Spaces == CharsOf(" \t\n\r\f")
Alphas == CharsOf("abcdefghijklmnopqrstuvwxyzABCDEFGHIJKLMNOPQRSTUVWXYZ")
Digits == CharsOf("0123456789")
Alnums == Alphas \cup Digits

(* Strictly between 'A' and 'Z' or 'a' and 'z', or '_'.                    *)
GoesOn == (Alphas \ {"a", "z", "A", "Z"}) \cup {"_"}

Peek(src, pos) == SubSeq(src, pos + 1, Min({pos + 1, Len(src)}))
Forward(src, pos) == Min({pos + 1, Len(src)})

(* Where a loop "while (peek() is in chars) advance()" ends, and one until *)
(* the next of chars.                                                      *)
Behind(src, pos, chars) ==
  Min({p \in pos .. Len(src) : Peek(src, p) \notin chars})
Until(src, pos, chars) ==
  Min({p \in pos .. Len(src) : p = Len(src) \/ Peek(src, p) \in chars})

-----------------------------------------------------------------------------
(* TokenType, and how each is spelt.                                       *)
Symbol ==
  "\n" :> "NEW_LINE" @@ "*" :> "MUL" @@ "/" :> "DIV" @@ "-" :> "MINUS"
    @@ "(" :> "LPAREN" @@ ")" :> "RPAREN" @@ "[" :> "LBRACKET"
    @@ "]" :> "RBRACKET" @@ "{" :> "LBRACE" @@ "}" :> "RBRACE"
    @@ "$" :> "DOLLAR" @@ "+" :> "PLUS" @@ ";" :> "SEMICOLON"
    @@ "," :> "COMMA" @@ ":" :> "COLON" @@ "." :> "DOT" @@ "!" :> "BANG"
    @@ "<" :> "LESS" @@ ">" :> "GREATER"

Comparisons == << <<"<=", "LEQ">>, <<">=", "GEQ">>, <<"!=", "BEQ">> >>
Keywords ==
  << <<"for", "FOR">>, <<"break", "BREAK">>, <<"if", "IF">>, <<"fi", "FI">>,
     <<"while", "WHILE">>, <<"else", "ELSE">>, <<"then", "THEN">>,
     <<"echo", "ECHO">>, <<"export", "EXPORT">>, <<"return", "RETURN">>,
     <<"null", "NULL">>, <<"do", "DO">>, <<"done", "DONE">>, <<"or", "OR">>,
     <<"and", "AND">> >>

(* newToken, with the position the lexer is left at.                       *)
Token(type, value, at) == [type |-> type, value |-> value, at |-> at]
NoToken(at) == Token("NONE", "", at)

(* pattern.  What it reads behind the pattern when the source ends there   *)
(* makes no difference.                                                    *)
Pattern(src, pos, word) ==
  IF pos + Len(word[1]) > Len(src)
       \/ SubSeq(src, pos + 1, pos + Len(word[1])) # word[1]
  THEN NoToken(pos)
  ELSE LET after == Forward(src, pos + Len(word[1]))
       IN  IF Peek(src, after) \in GoesOn
           THEN NoToken(after)
           ELSE Token(word[2], word[1], after)

(* One pattern after the other, each from where the last one stopped.      *)
Patterns(src, pos, words) ==
  FoldLeft(LAMBDA token, word : IF token.type = "NONE"
                                THEN Pattern(src, token.at, word) ELSE token,
           NoToken(pos), words)

(* The text of a string up to the quote that ends it.                      *)
Quoted(src, pos, quote) ==
  LET start == Forward(src, pos)
      end == Until(src, start, {quote})
  IN  IF end = Len(src)
      THEN Token("UNKNOWN", "Unterminated String!", end)
      ELSE Token("STRING", SubSeq(src, start + 1, end), end + 1)

Run(src, pos, chars, type) ==
  LET end == Behind(src, pos, chars)
  IN  Token(type, SubSeq(src, pos + 1, end), end)

(* The last of the loop's branches: the keywords, then a name that starts  *)
(* wherever they left off, though c is still the first character.          *)
Word(src, pos, c) ==
  LET keyword == Patterns(src, pos, Keywords)
      at == keyword.at
  IN  IF keyword.type # "NONE" THEN keyword
      ELSE IF c \in Alphas \cup {"_"}
           THEN Run(src, at, Alnums \cup {"_"}, "IDENTIFIER")
           ELSE Token("UNKNOWN", Peek(src, at), Forward(src, at))

RECURSIVE NextToken(_, _)
(* lexer_next_token.  c is read before the comparisons are tried.          *)
NextToken(src, pos) ==
  LET c == Peek(src, pos)
      comparison == Patterns(src, pos, Comparisons)
      at == comparison.at
      next == Forward(src, at)
  IN  CASE c = "" -> Token("EOF", "", pos)
        [] comparison.type # "NONE" -> comparison
        [] c \in DOMAIN Symbol -> Token(Symbol[c], c, next)
        [] c = "|" -> IF Peek(src, next) = "|"
                      THEN Token("DPIPE", "||", Forward(src, next))
                      ELSE Token("PIPE", "|", next)
        [] c \in Spaces \ {"\n"} -> NextToken(src, Behind(src, at, Spaces))
        [] c = "#" -> NextToken(src, Until(src, at, {"\n"}))
        [] c \in {"'", "\""} -> Quoted(src, at, c)
        [] c = "=" -> IF Peek(src, next) = "="
                      THEN Token("EQ", "==", Forward(src, next))
                      ELSE Token("ASSIGN", "=", next)
        [] c \in Digits -> Run(src, at, Digits, "NUMBER")
        [] OTHER -> Word(src, at, c)

RECURSIVE Lexe(_, _)
(* lexe, and lexen for a source of no more tokens than its buffer holds.   *)
Lexe(src, pos) ==
  LET token == NextToken(src, pos)
  IN  IF token.type = "EOF" THEN <<token>>
      ELSE <<token>> \o Lexe(src, token.at)
Tokens(src) == Lexe(src, 0)
=============================================================================
