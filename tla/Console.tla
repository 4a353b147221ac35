------------------------------ MODULE Console ------------------------------
(***************************************************************************)
(* The VGA console (arch/x86/console_vga.c): the cells of the screen, the  *)
(* cursor, scrolling, control characters and escape sequences, as one      *)
(* record that vga_put_char maps to the next.                              *)
(***************************************************************************)
EXTENDS Integers, Sequences, FiniteSets

CONSTANTS
  COLS, ROWS,     \* VGA_COLS, VGA_ROWS (80, 25)
  TABW,           \* tab width (8), a power of two
  PARAMS,         \* room for parameters of an escape sequence (8)
  Glyphs,         \* characters that are put on the screen
  Digits,         \* digits of parameters
  Final,          \* characters that can end a sequence
  ParamBound      \* bound: the largest parameter

VARIABLES
  con,            \* cells, row, col, esc, params (the counted ones), fg, bg, bright, attr
  paper           \* history: the last ROWS lines of text, oldest first

consoleVars == <<con, paper>>

Rows == 0 .. ROWS - 1
Cols == 0 .. COLS - 1
NL == "nl"
CR == "cr"
BS == "bs"
TAB == "tab"
ESC == "esc"
SPACE == " "

DigitChar(d) == <<"0", "1", "2", "3", "4", "5", "6", "7", "8", "9">>[d + 1]

ASSUME ConsoleAssumption ==
  /\ {COLS, TABW, PARAMS} \subseteq Nat \ {0} /\ ROWS \in Nat \ {0, 1}
  /\ Glyphs \cap {NL, CR, BS, TAB, ESC} = {}
  /\ Digits \subseteq {DigitChar(d) : d \in 0 .. 9}
  /\ {"[", "m", "H", "J"} \subseteq Final
  /\ ParamBound \in Nat

vga_entry(c, attr) == [ch |-> c, attr |-> attr]

\* A bright foreground has eight more colours; the background is never bright.
vga_update_attr(k) ==
  [k EXCEPT !.attr = [fg |-> k.fg + (IF k.bright THEN 8 ELSE 0), bg |-> k.bg]]

BlankCell(k) == vga_entry(SPACE, k.attr)

vga_scroll(k) ==
  [k EXCEPT !.cells = [r \in Rows |-> IF r < ROWS - 1 THEN k.cells[r + 1]
                                      ELSE [c \in Cols |-> BlankCell(k)]],
            !.row = ROWS - 1, !.col = 0]

vga_clear(k) ==
  [k EXCEPT !.cells = [r \in Rows |-> [c \in Cols |-> BlankCell(k)]],
            !.row = 0, !.col = 0, !.esc = "none"]

\* One parameter of ESC [ ... m.
Sgr(k, p) ==
  IF p = 0 THEN [k EXCEPT !.fg = 7, !.bg = 0, !.bright = FALSE]
  ELSE IF p = 1 THEN [k EXCEPT !.bright = TRUE]
  ELSE IF p \in 30 .. 37 THEN [k EXCEPT !.fg = p - 30]
  ELSE IF p \in 40 .. 47 THEN [k EXCEPT !.bg = p - 40]
  ELSE k

vga_handle_sgr(k) ==
  LET after[n \in 0 .. Len(k.params)] ==
        IF n = 0 THEN IF k.params = <<>> THEN Sgr(k, 0) ELSE k
        ELSE Sgr(after[n - 1], k.params[n])
  IN  vga_update_attr(after[Len(k.params)])

vga_init ==
  vga_clear(vga_update_attr(
    [cells |-> [r \in Rows |-> [c \in Cols |-> 0]], row |-> 0, col |-> 0, esc |-> "none",
     params |-> <<>>, fg |-> 7, bg |-> 0, bright |-> FALSE, attr |-> 0]))
-----------------------------------------------------------------------------
\* A new parameter, if there is room; digits go to the last one either way.
Semicolon(k) ==
  IF Len(k.params) < PARAMS THEN [k EXCEPT !.params = Append(@, 0)] ELSE k

DigitValue(c) == CHOOSE d \in 0 .. 9 : DigitChar(d) = c

ParamDigit(k, c) ==
  LET p == IF k.params = <<>> THEN <<0>> ELSE k.params
  IN  [k EXCEPT !.params = [p EXCEPT ![Len(p)] = @ * 10 + DigitValue(c)]]

\* A character inside an escape sequence.
Sequence(k, c) ==
  IF k.esc = "esc"
  THEN IF c = "[" THEN [k EXCEPT !.esc = "csi", !.params = <<>>]
                  ELSE [k EXCEPT !.esc = "none"]
  ELSE IF c \in Digits THEN ParamDigit(k, c)
  ELSE IF c = ";" THEN Semicolon(k)
  ELSE IF c = "m" THEN [vga_handle_sgr(k) EXCEPT !.esc = "none"]
  ELSE IF c = "H" THEN [k EXCEPT !.row = 0, !.col = 0, !.esc = "none"]
  ELSE IF c = "J" THEN vga_clear(k)
  ELSE IF c \in Final THEN [k EXCEPT !.esc = "none"]
  ELSE k

\* Faulty variant of Backspace: does not go back over the start of a row.
Backspace_row(k) ==
  IF k.col > 0 THEN [k EXCEPT !.col = @ - 1, !.cells[k.row][k.col - 1] = BlankCell(k)] ELSE k

Backspace(k) ==
  IF k.col > 0 THEN [k EXCEPT !.col = @ - 1, !.cells[k.row][k.col - 1] = BlankCell(k)]
  ELSE IF k.row > 0 THEN [k EXCEPT !.row = @ - 1, !.col = COLS - 1,
                                   !.cells[k.row - 1][COLS - 1] = BlankCell(k)]
  ELSE k

\* To the next multiple of TABW, blank on the way, at most to the last column.
Tabulate(k) ==
  LET stop == ((k.col + TABW) \div TABW) * TABW
      next == IF stop >= COLS THEN COLS - 1 ELSE stop
  IN  IF k.col >= next THEN k
      ELSE [k EXCEPT !.col = next,
                     !.cells[k.row] = [c \in Cols |-> IF c \in k.col .. next - 1 THEN BlankCell(k)
                                                      ELSE k.cells[k.row][c]]]

PutText(k, c) ==
  LET d == [k EXCEPT !.cells[k.row][k.col] = vga_entry(c, k.attr)]
  IN  IF k.col + 1 >= COLS THEN [d EXCEPT !.col = 0, !.row = @ + 1]
      ELSE [d EXCEPT !.col = @ + 1]

\* A character outside escape sequences, before the screen scrolls.
Plain(k, c) ==
  CASE c = NL -> [k EXCEPT !.col = 0, !.row = @ + 1]
    [] c = CR -> [k EXCEPT !.col = 0]
    [] c = BS -> Backspace(k)
    [] c = TAB -> Tabulate(k)
    [] OTHER -> PutText(k, c)

Scrolls(k, c) == k.esc = "none" /\ c # ESC /\ Plain(k, c).row >= ROWS

vga_put_char(k, c) ==
  IF k.esc # "none" THEN Sequence(k, c)
  ELSE IF c = ESC THEN [k EXCEPT !.esc = "esc"]
  ELSE IF Scrolls(k, c) THEN vga_scroll(Plain(k, c))
  ELSE Plain(k, c)
-----------------------------------------------------------------------------
EmptyLine == [x \in Cols |-> SPACE]
EmptyPaper == [r \in 1 .. ROWS |-> EmptyLine]

ConsoleInit == con = vga_init /\ paper = EmptyPaper

\* The characters that can come next.
Offered ==
  IF con.esc = "none" THEN Glyphs \cup {NL, CR, BS, TAB, ESC}
  ELSE Digits \cup Final \cup {";", NL}

(* The history: what the characters do to the lines of a page, given where *)
(* the cursor is.                                                          *)
OnPaper(c) ==
  LET at == con.row + 1
  IN  CASE c \in Glyphs -> [paper EXCEPT ![at][con.col] = c]
        [] c = BS /\ con.col > 0 -> [paper EXCEPT ![at][con.col - 1] = SPACE]
        [] c = BS /\ con.col = 0 /\ at > 1 -> [paper EXCEPT ![at - 1][COLS - 1] = SPACE]
        [] c = TAB -> [paper EXCEPT ![at] =
                         [x \in Cols |-> IF x >= con.col /\ x < Tabulate(con).col THEN SPACE
                                         ELSE @[x]]]
        [] OTHER -> paper

Put(c) ==
  /\ con' = vga_put_char(con, c)
  /\ \A i \in DOMAIN con'.params : con'.params[i] <= ParamBound
  /\ paper' = IF con.esc # "none" THEN IF con.esc = "csi" /\ c = "J" THEN EmptyPaper ELSE paper
              ELSE IF Scrolls(con, c) THEN Append(Tail(OnPaper(c)), EmptyLine)
              ELSE OnPaper(c)

ConsoleNext == \E c \in Offered : Put(c)
ConsoleSpec == ConsoleInit /\ [][ConsoleNext]_consoleVars
-----------------------------------------------------------------------------
(* Types: the cursor is on the screen, so nothing is stored outside video  *)
(* memory; the parameters fit their array; the colours are the sixteen.    *)
ConsoleTypeOK ==
  /\ con.row \in Rows /\ con.col \in Cols
  /\ Len(con.params) <= PARAMS
  /\ con.attr.fg \in 0 .. 15 /\ con.attr.bg \in 0 .. 7

(* The screen shows the last ROWS lines of the output, whatever was        *)
(* written, erased or scrolled (vga_put_char, vga_scroll, vga_clear).      *)
ScreenIsPaper ==
  \A r \in Rows, c \in Cols : con.cells[r][c].ch = paper[r + 1][c]

(* "\b \b" takes back a character, also one that wrapped to the next row   *)
(* or made the screen scroll: the shell's line editor rests on it.         *)
EraseUndoes ==
  con.esc = "none" =>
    \A c \in Glyphs :
      LET put == vga_put_char(con, c)
          end == vga_put_char(vga_put_char(vga_put_char(put, BS), SPACE), BS)
          up == IF Scrolls(con, c) THEN 1 ELSE 0
      IN  /\ end.row = con.row - up /\ end.col = con.col
          /\ end.cells[end.row][end.col] = BlankCell(con)
          /\ \A r \in up .. ROWS - 1, x \in Cols :
               <<r, x>> # <<con.row, con.col>> => end.cells[r - up][x] = con.cells[r][x]

(* A sequence shows in no cell and leaves the cursor where it was, unless  *)
(* it is complete and clears or homes.                                     *)
SequencesAreSilent ==
  [][con.esc # "none" /\ con' # con =>
       \/ con'.cells = con.cells /\ con'.row = con.row /\ con'.col = con.col
       \/ con.esc = "csi" /\ con'.esc = "none" /\ con'.row = 0 /\ con'.col = 0]_consoleVars

(* The screen shows the last lines of the output, erasing undoes the last  *)
(* character, and escape sequences, complete or not, print nothing.        *)
ConsoleCorrect ==
  /\ [](ConsoleTypeOK /\ ScreenIsPaper /\ EraseUndoes)
  /\ SequencesAreSilent
=============================================================================
