------------------------------ MODULE LibStrings ------------------------------
(***************************************************************************)
(* The C library's functions on memory and strings (libcs2, src/string.c). *)
(* A memory maps addresses to characters; NUL ends a string.  Operators    *)
(* that write answer the memory after it.  atol is Atol of MbashParser,    *)
(* strcmp and ltoa are in MbashValues; strings copied do not overlap.      *)
(***************************************************************************)
EXTENDS Integers, Sequences, SequencesExt, FiniteSetsExt

NUL == "NUL"

(* Bytes written one after the other, each read when it is its turn.       *)
CopiedBytes(mem, dest, src, order) ==
  LET upTo[k \in 0 .. Len(order)] ==
        IF k = 0 THEN mem
        ELSE [upTo[k - 1] EXCEPT ![dest + order[k]] = upTo[k - 1][src + order[k]]]
  IN  upTo[Len(order)]
Rising(n) == [i \in 1 .. n |-> i - 1]

Memset(mem, block, c, n) ==
  [a \in DOMAIN mem |-> IF block <= a /\ a < block + n THEN c ELSE mem[a]]
Memcpy(mem, dest, src, n) == CopiedBytes(mem, dest, src, Rising(n))
Memmove(mem, dest, src, n) ==
  CopiedBytes(mem, dest, src,
              IF dest > src /\ dest < src + n THEN Reverse(Rising(n)) ELSE Rising(n))
(* Whether memcmp answers 0: neither pointer moves, so that the first byte *)
(* is all it compares.                                                     *)
MemcmpEqual(mem, a, b, n) == n = 0 \/ mem[a] = mem[b]

-----------------------------------------------------------------------------
Strlen(mem, str) == Min({a \in DOMAIN mem : a >= str /\ mem[a] = NUL}) - str
StrcpyAt(mem, dest, src) == Memcpy(mem, dest, src, Strlen(mem, src) + 1)
Strcat(mem, dest, src) == StrcpyAt(mem, dest + Strlen(mem, dest), src)
Strncat(mem, dest, src, n) ==
  LET len == Min({n, Strlen(mem, src)})
      at == dest + Strlen(mem, dest)
  IN  [Memcpy(mem, at, src, len) EXCEPT ![at + len] = NUL]
(* The loop that copies moves neither pointer: it writes one character n   *)
(* times over, and nothing behind it.                                      *)
Strncpy(mem, dest, src, n) ==
  CASE n = 0 -> mem
    [] mem[src] = NUL -> Memset(mem, dest, NUL, n)
    [] OTHER -> [mem EXCEPT ![dest] = mem[src]]
(* strdup, where malloc has found room at new.                             *)
Strdup(mem, str, new) ==
  LET len == Strlen(mem, str)
  IN  [Memcpy(mem, new, str, len) EXCEPT ![new + len] = NUL]

(* strchr and strrchr: the addresses of c, the end counted.                *)
Hits(mem, str, c) == {a \in str .. str + Strlen(mem, str) : mem[a] = c}
NoHit == -1
Strchr(mem, str, c) == LET hits == Hits(mem, str, c) IN IF hits = {} THEN NoHit ELSE Min(hits)
Strrchr(mem, str, c) == LET hits == Hits(mem, str, c) IN IF hits = {} THEN NoHit ELSE Max(hits)

(* Whether strncmp answers 0: where the strings differ it compares the     *)
(* first one's character with the second one's next.                       *)
StrncmpEqual(s1, s2, n) ==
  LET at(s, k) == IF k \in DOMAIN s THEN s[k] ELSE NUL
      ends == {k \in 1 .. n : at(s1, k) # at(s2, k) \/ at(s1, k) = NUL}
  IN  ends = {} \/ LET k == Min(ends)
                   IN  at(s1, k) = at(s2, k) \/ at(s1, k) = at(s2, k + 1)

(* strtok, of a string as a sequence: a token begins at a delimiter and    *)
(* ends at the next other character, which is dropped.                     *)
Strtok(s, D) ==
  LET from == SelectInSeq(s, LAMBDA c : c \in D)
      other == SelectInSeq(SubSeq(s, from, Len(s)), LAMBDA c : c \notin D)
  IN  CASE from = 0 -> [token |-> <<>>, rest |-> <<>>]
        [] other = 0 -> [token |-> SubSeq(s, from, Len(s)), rest |-> <<>>]
        [] OTHER -> [token |-> SubSeq(s, from, from + other - 2),
                     rest |-> SubSeq(s, from + other, Len(s))]

-----------------------------------------------------------------------------
(* Numbers.                                                                *)
Numerals == <<"0", "1", "2", "3", "4", "5", "6", "7", "8", "9", "a", "b", "c", "d", "e", "f">>
NumeralsOf(value, base) ==
  LET lowest[v \in Nat] ==
        IF v = 0 THEN <<>> ELSE <<Numerals[(v % base) + 1]>> \o lowest[v \div base]
  IN  Reverse(lowest[value])
Itoa(value, base) ==
  CASE value = 0 -> <<"0">>
    [] value < 0 -> <<"-">> \o NumeralsOf(-value, base)
    [] OTHER -> NumeralsOf(value, base)
(* ultoa: of 0, what follows is whatever the buffer held.                  *)
Ultoa(value, base, junk) ==
  IF value = 0 THEN <<"0", "\n">> \o junk ELSE NumeralsOf(value, base)
HexDigits == <<"0", "1", "2", "3", "4", "5", "6", "7", "8", "9", "A", "B", "C", "D", "E", "F">>
ByteToHexString(byte) == <<HexDigits[(byte \div 16) + 1], HexDigits[(byte % 16) + 1]>>

-----------------------------------------------------------------------------
(* A string as a sequence.                                                 *)
StringAt(mem, str) == [i \in 1 .. Strlen(mem, str) |-> mem[str + i - 1]]
SmallMemories == [0 .. 5 -> {"x", "y", NUL}]

(* memmove copies whatever the two ranges have in common, and memcpy all   *)
(* but a range onto one that begins inside it: the screen, which scrolls   *)
(* to lower addresses, may use it (string.c:47-78, vga.c:172).             *)
ASSUME MemoryCopied ==
  \A d, s \in 0 .. 4, n \in 0 .. 3 :
    d + n <= 7 /\ s + n <= 7 =>
      LET mem == [a \in 0 .. 6 |-> a]
          together == [a \in 0 .. 6 |-> IF a \in d .. d + n - 1 THEN mem[a - d + s] ELSE mem[a]]
      IN  /\ Memmove(mem, d, s, n) = together
          /\ ~(s < d /\ d < s + n) => Memcpy(mem, d, s, n) = together

(* What is appended is all there and nothing else, cut where strncat is    *)
(* told to; what strdup answers is the string (string.c:12-20, 167-178).   *)
ASSUME StringsJoined ==
  \A t \in SmallMemories :
    t[2] = NUL /\ t[5] = NUL =>
      LET mem == [a \in 0 .. 12 |-> IF a < 3 THEN t[a] ELSE IF a > 9 THEN t[a - 7] ELSE "z"]
          both == StringAt(mem, 0) \o StringAt(mem, 10)
      IN  /\ StringAt(Strcat(mem, 0, 10), 0) = both
          /\ StringAt(StrcpyAt(mem, 3, 10), 3) = StringAt(mem, 10)
          /\ StringAt(Strdup(mem, 0, 4), 4) = StringAt(mem, 0)
          /\ \A n \in 0 .. 3 :
               StringAt(Strncat(mem, 0, 10, n), 0) =
                 StringAt(mem, 0) \o SubSeq(StringAt(mem, 10), 1, Min({n, Strlen(mem, 10)}))
          /\ \A c \in {"x", "y", "z"} :
               (Strchr(mem, 0, c) = NoHit) <=> (Strrchr(mem, 0, c) = NoHit)

(* A number is read back from its digits.                                  *)
ASSUME NumbersReadBack ==
  \A v \in 0 .. 300, base \in {2, 10, 16} :
    LET s == Itoa(v, base)
        digit(c) == SelectInSeq(Numerals, LAMBDA d : d = c) - 1
    IN  /\ v = FoldLeft(LAMBDA n, c : n * base + digit(c), 0, s)
        /\ v < 256 /\ base = 16 => Len(s) = 1 \/ Len(ByteToHexString(v)) = Len(s)
        /\ v # 0 => s[1] # "0" /\ Ultoa(v, base, <<>>) = s
=============================================================================
