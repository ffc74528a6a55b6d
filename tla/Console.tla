-------------------------------- MODULE Console --------------------------------
(***************************************************************************)
(* From keys to a line and to the screen: what a scan code means           *)
(* (keyboard/keyboard.c), how the shell edits its line (src/shell.c), and  *)
(* what libcs2 writes to the screen (src/printf.c, src/drivers/vga.c).     *)
(* Characters are their codes.  bloq_num, which nothing reads, is left     *)
(* out, and so are colours.                                                *)
(*                                                                         *)
(* On the last row, shell_putc does not scroll: setcur keeps the cursor in *)
(* the row and the next characters go over the line's first ones.  A full  *)
(* line takes no more characters, but they are shown.  What the screen     *)
(* says of the line is then lost.  The NUL that a full line puts behind    *)
(* its buffer is not followed.                                             *)
(***************************************************************************)
EXTENDS LibStrings, Bits

CONSTANTS Width, Height, \* of the screen, 80 and 25
          BufferSize,    \* SHELL_BUFFER_SIZE, 256
          Prompt,        \* shell_prompt
          Table,         \* kbd_es: scan code -> its three characters
          Scancodes,     \* what ps2_get_scancode stores
          Outputs        \* what an entered line may print

ASSUME ConsoleConstants ==
  /\ {Width, Height} \subseteq Nat \ {0} /\ BufferSize \in Nat
  /\ Scancodes \subseteq Nat
  /\ \A key \in DOMAIN Table : Table[key] \in [1 .. 3 -> Nat]
  /\ Prompt \in Seq(Nat) /\ Outputs \subseteq Seq(Nat)

VARIABLES shift, caps, altGr, \* shift, bloq_mayus, alt_gr
          typed,               \* shell_buffer, up to shell_index
          screen,             \* its cells, and the cursor
          lost                \* whether the screen still says what the line is
consoleVars == <<shift, caps, altGr, typed, screen, lost>>

SPECIAL == 256
BREAK == 128
NOT_PRINTABLE == 512
SHIFTS == {42, 54}
BLOQ_MAYUS == 58
BLOQ_NUM == 69
BACKSPACE == 8
TAB == 9
NEWLINE == 10
RETURN == 13
SPACE == 32

-----------------------------------------------------------------------------
(* The screen.                                                             *)
SetCur(s, x, y) ==
  [s EXCEPT !.x = Min({x, Width - 1}), !.y = Min({y, Height - 1})]
(* A column too many is let through: it is the next row's first, and a row *)
(* too many is behind the screen.                                          *)
PutChar(s, x, y, c) ==
  IF x > Width \/ y > Height \/ x + y * Width \notin DOMAIN s.cells THEN s
  ELSE [s EXCEPT !.cells[x + y * Width] = c]
FillLine(s, row, c) == [s EXCEPT !.cells = Memset(@, row * Width, c, Width)]
Scroll(s) ==
  SetCur(FillLine([s EXCEPT !.cells = Memcpy(@, 0, Width, Width * (Height - 1))],
                  Height - 1, SPACE), 0, Height - 1)
Clear == [cells |-> [a \in 0 .. Width * Height - 1 |-> SPACE], x |-> 0, y |-> 0]

(* What both printers do when they come to a row that is not there.        *)
Row(s, x, y) == IF y >= Height THEN Scroll(s) ELSE SetCur(s, x, y)
Plain(s, c) ==
  LET put == PutChar(s, s.x, s.y, c)
  IN  IF s.x + 1 >= Width THEN Row(put, 0, s.y + 1) ELSE SetCur(put, s.x + 1, s.y)
(* kprintf_putc, kprintf of a text.                                        *)
Putc(s, c) ==
  LET spaces == 8 - (s.x % 8)
      upTo[k \in 0 .. spaces] == IF k = 0 THEN s ELSE Plain(upTo[k - 1], SPACE)
  IN  IF c = NEWLINE THEN Row(s, 0, s.y + 1)
      ELSE IF c = RETURN THEN SetCur(s, 0, s.y)
      ELSE IF c = TAB THEN upTo[spaces]
      ELSE Plain(s, c)
Shown(s, text) ==
  LET upTo[k \in 0 .. Len(text)] == IF k = 0 THEN s ELSE Putc(upTo[k - 1], text[k])
  IN  upTo[Len(text)]

(* vga_print_string keeps a cursor of its own, vga_global_x and _y, and    *)
(* shows a tab as a character.                                             *)
PrintString(s, x, y, text) ==
  LET next(g, c) ==
        LET t == CASE c = NEWLINE -> [g EXCEPT !.x = 0, !.y = @ + 1]
                   [] c = RETURN -> [g EXCEPT !.x = 0]
                   [] OTHER -> [PutChar(g, g.x, g.y, c) EXCEPT !.x = @ + 1]
            u == IF t.x >= Width THEN [t EXCEPT !.x = 0, !.y = @ + 1] ELSE t
        IN  IF u.y >= Height THEN [Scroll(u) EXCEPT !.x = 0, !.y = Height - 1] ELSE u
      g == FoldLeft(next, [s EXCEPT !.x = x, !.y = y], text)
  IN  SetCur(g, g.x, g.y)

-----------------------------------------------------------------------------
(* kprintf's formats; a text is here a sequence of one-character strings,  *)
(* an argument a number or such a text, and junk what a buffer held.       *)
(* int_to_dec_string is itoa to the base of 10.  Of "%ld" the d is         *)
(* printed too; ltoa is given the base 10 and makes signs of digits, so    *)
(* that only numbers that are not negative are followed.                   *)
Conversion(spec, arg, junk) ==
  CASE spec = "s" -> arg
    [] spec = "c" -> <<arg>>
    [] spec = "d" -> Itoa(arg, 10)
    [] spec \in {"l", "lu"} -> Ultoa(arg, 10, junk)
    [] spec = "x" -> Ultoa(arg, 16, junk)
    [] spec = "p" -> <<"0", "x">> \o Ultoa(arg, 16, junk)
Kprintf(format, args, junk) ==
  LET at(k) == IF k \in DOMAIN format THEN format[k] ELSE NUL
      step(st, k) ==
        LET spec == IF at(k + 1) = "l" /\ at(k + 2) = "u" THEN "lu" ELSE at(k + 1)
            say(text) == [st EXCEPT !.text = @ \o text]
        IN  IF k < st.from THEN st
            ELSE IF at(k) # "%" THEN say(<<at(k)>>)
            ELSE IF spec \in {"s", "c", "d", "l", "lu", "x", "p"}
            THEN [text |-> st.text \o Conversion(spec, Head(st.args), junk),
                  args |-> Tail(st.args), from |-> k + (IF spec = "lu" THEN 3 ELSE 2)]
            ELSE [say(IF spec = "%" THEN <<"%">> ELSE <<"%", spec>>) EXCEPT !.from = k + 2]
  IN  FoldLeft(step, [text |-> <<>>, args |-> args, from |-> 1],
               [k \in DOMAIN format |-> k]).text

-----------------------------------------------------------------------------
(* kgetchar.  The comparisons with KEY_ALT_GR and with a shift key's       *)
(* release bind before the `|' in them and always hold: any special key    *)
(* sets and clears alt_gr, any key that is released clears shift.          *)
Has(key, flag) == (key & flag) # 0
Pressed(key) == ~Has(key, SPECIAL) /\ ~Has(key, BREAK)
Column == IF altGr THEN 3 ELSE IF caps # shift THEN 2 ELSE 1
Character(key) ==
  LET c == IF key \in DOMAIN Table THEN Table[key][Column] ELSE 0
  IN  IF c = 0 THEN key ELSE c
Kgetchar(key) ==
  IF Has(key, SPECIAL) THEN IF Has(key, BREAK) THEN key - BREAK ELSE key
  ELSE IF Has(key, BREAK) THEN key
  ELSE IF key \in SHIFTS \cup {BLOQ_MAYUS, BLOQ_NUM} THEN key + NOT_PRINTABLE
  ELSE Character(key)
Modifiers(key) ==
  /\ altGr' = IF Has(key, SPECIAL) THEN ~Has(key, BREAK) ELSE altGr
  /\ shift' = IF Has(key, SPECIAL) THEN shift
              ELSE IF Has(key, BREAK) THEN FALSE ELSE shift \/ key \in SHIFTS
  /\ caps' = (caps # (key = BLOQ_MAYUS))

-----------------------------------------------------------------------------
(* The loop of shellEntry, a key at a time.                                *)
Position == screen.y * Width + screen.x

(* A slip: the cell before the first of a row is looked for in that row.   *)
RubbedInRow ==
  LET x == Max({screen.x - 1, 0})
  IN  SetCur(PutChar(screen, x, screen.y, SPACE), x, screen.y)
Rubbed ==
  LET x == (Position - 1) % Width
      y == (Position - 1) \div Width
  IN  PutChar(SetCur(screen, x, y), x, y, SPACE)
Backspace ==
  IF typed = <<>> THEN UNCHANGED <<typed, screen, lost>>
  ELSE typed' = Front(typed) /\ screen' = Rubbed /\ UNCHANGED lost

Prompted(s) == Shown(s, <<RETURN>> \o Prompt \o <<SPACE>>)
EnterKey ==
  /\ \E output \in Outputs : screen' = Prompted(Shown(Shown(screen, <<NEWLINE>>), output))
  /\ typed' = <<>>
  /\ lost' = "no"

(* shell_putc                                                              *)
ShellPutc(c) ==
  LET put == PutChar(screen, screen.x, screen.y, c)
  IN  IF screen.x + 1 >= Width THEN SetCur(put, 0, screen.y + 1)
                               ELSE SetCur(put, screen.x + 1, screen.y)
Typed(c) == /\ typed' = IF Len(typed) < BufferSize THEN Append(typed, c) ELSE typed
            /\ screen' = ShellPutc(c)
            /\ lost' = IF Len(typed) = BufferSize THEN "full"
                       ELSE IF Position = Width * Height - 1 THEN "bottom" ELSE lost

Key(key) ==
  LET c == Kgetchar(key)
  IN  /\ Modifiers(key)
      /\ IF c = 0 THEN UNCHANGED <<typed, screen, lost>>
         ELSE IF c = BACKSPACE THEN Backspace
         ELSE IF c = NEWLINE THEN EnterKey
         ELSE IF Has(c, SPECIAL + BREAK + NOT_PRINTABLE) THEN UNCHANGED <<typed, screen, lost>>
         ELSE Typed(c)

consoleInit == /\ shift = FALSE /\ caps = FALSE /\ altGr = FALSE
               /\ typed = <<>>
               /\ screen = Prompted(Clear)
               /\ lost = "no"
(* Once the screen has lost the line, nothing is followed but its end.     *)
consoleNext ==
  \E key \in Scancodes : (lost = "no" \/ Kgetchar(key) = NEWLINE) /\ Key(key)

-----------------------------------------------------------------------------
(* The two printers show a text alike (printf.c:68-116, vga.c:128-155).    *)
ASSUME PrintersAgree ==
  \A t \in UNION {[1 .. n -> {97, 98, NEWLINE, RETURN}] : n \in 0 .. 4},
     x \in 0 .. Width - 1, y \in 0 .. Height - 1 :
    LET s == SetCur(Clear, x, y) IN Shown(s, t) = PrintString(s, x, y, t)
(* What a format with each conversion comes to.                            *)
ASSUME FormatsRead ==
  /\ Kprintf(<<"a", "%", "d", "%", "l", "u", "b", "%", "%", "%", "x", "%", "z">>, <<-12, 7, 254>>, <<>>)
       = <<"a", "-", "1", "2", "7", "b", "%", "f", "e", "%", "z">>
  /\ Kprintf(<<"%", "s", "%", "l", "d", "%", "c">>, <<<<"t", "o">>, 30, "!">>, <<>>)
       = <<"t", "o", "3", "0", "d", "!">>

(* While none of it is lost, what stands before the cursor is the line     *)
(* that the next Enter will run, over the ends of rows as well, whatever   *)
(* was typed and rubbed out (shell.c:323-331, 370-390).                    *)
LineShown ==
  lost = "no" =>
    \A k \in DOMAIN typed : screen.cells[Position - Len(typed) + k - 1] = typed[k]
=============================================================================
