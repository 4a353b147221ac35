----------------------------- MODULE ShellProofs -----------------------------
(***************************************************************************)
(* Proofs about what the user sees of the system: the screen, for every    *)
(* size and every text; formatted output, for every list of items and size *)
(* of the buffer; and the shell, for every set of names, values and        *)
(* commands, and every interleaving with its children.                     *)
(***************************************************************************)
EXTENDS Console, Format, Shell, CounterLemmas, FiniteSetTheorems, SequenceTheorems, TLAPS

-----------------------------------------------------------------------------
(* The screen.                                                             *)

Cells == [ch : Glyphs \cup {SPACE}, attr : [fg : 0 .. 15, bg : 0 .. 7]]

\* A screen; before it scrolls the cursor may be a row below it.
Screens ==
  [cells : [Rows -> [Cols -> Cells]], row : 0 .. ROWS, col : Cols,
   esc : {"none", "esc", "csi"}, params : Seq(Nat),
   fg : 0 .. 7, bg : 0 .. 7, bright : BOOLEAN, attr : [fg : 0 .. 15, bg : 0 .. 7]]

\* One cell stored, and the rows moved up.
Stored(cells, r, x, e) ==
  [q \in Rows |-> [y \in Cols |-> IF q = r /\ y = x THEN e ELSE cells[q][y]]]

\* A character that is put out shows in the cells and moves the cursor.
Moved(k, d, cells, row, col) ==
  /\ d \in Screens
  /\ d.cells = cells /\ d.row = row /\ d.col = col
  /\ d.esc = k.esc /\ d.params = k.params /\ d.attr = k.attr

LEMMA ScreenSizes ==
  /\ COLS \in Nat \ {0} /\ TABW \in Nat \ {0} /\ PARAMS \in Nat \ {0} /\ ROWS \in Nat
  /\ ROWS > 1 /\ Rows = 0 .. ROWS - 1 /\ Cols = 0 .. COLS - 1
  BY ConsoleAssumption DEF Rows, Cols

LEMMA CellTypes ==
    ASSUME NEW k \in Screens
    PROVE  BlankCell(k) \in Cells /\ \A c \in Glyphs \cup {SPACE} : vga_entry(c, k.attr) \in Cells
  BY DEF Screens, Cells, BlankCell, vga_entry

LEMMA StoredIs ==
    ASSUME NEW cells \in [Rows -> [Cols -> Cells]], NEW r \in Rows, NEW x \in Cols, NEW e \in Cells,
           NEW new, new = [cells EXCEPT ![r][x] = e]
    PROVE  new \in [Rows -> [Cols -> Cells]] /\ new = Stored(cells, r, x, e)
  BY DEF Stored

\* A screen with other cells and another cursor.
LEMMA ScreenMoved ==
    ASSUME NEW k \in Screens, NEW cells \in [Rows -> [Cols -> Cells]],
           NEW row \in 0 .. ROWS, NEW col \in Cols,
           NEW d, d = [k EXCEPT !.cells = cells, !.row = row, !.col = col]
    PROVE  Moved(k, d, cells, row, col)
  BY DEF Moved, Screens

\* How the characters that print move the cursor.
NextRow(k) == IF k.col + 1 >= COLS THEN k.row + 1 ELSE k.row
NextCol(k) == IF k.col + 1 >= COLS THEN 0 ELSE k.col + 1

LEMMA TextPut ==
    ASSUME NEW k \in Screens, k.row < ROWS, NEW c \in Glyphs \cup {SPACE}
    PROVE  Moved(k, PutText(k, c), Stored(k.cells, k.row, k.col, vga_entry(c, k.attr)),
                 NextRow(k), NextCol(k))
  <1>1. /\ k.cells \in [Rows -> [Cols -> Cells]] /\ k.row \in Rows /\ k.col \in Cols
        /\ NextRow(k) \in 0 .. ROWS /\ NextCol(k) \in Cols
        /\ DOMAIN k = {"cells", "row", "col", "esc", "params", "fg", "bg", "bright", "attr"}
    BY ScreenSizes DEF Screens, NextRow, NextCol
  <1>2. PICK e \in Cells : e = vga_entry(c, k.attr)
    BY CellTypes
  <1>3. PICK cells : cells = [k.cells EXCEPT ![k.row][k.col] = e]
    OBVIOUS
  <1>4. cells \in [Rows -> [Cols -> Cells]] /\ cells = Stored(k.cells, k.row, k.col, e)
    BY <1>1, <1>3, StoredIs
  <1>5. PICK d : d = [k EXCEPT !.cells[k.row][k.col] = e]
    OBVIOUS
  <1>6. d = [k EXCEPT !.cells = cells]
    BY <1>3, <1>5
  <1>7. PICK f : f = PutText(k, c)
    OBVIOUS
  <1>8. f = IF k.col + 1 >= COLS THEN [d EXCEPT !.col = 0, !.row = @ + 1]
            ELSE [d EXCEPT !.col = @ + 1]
    BY <1>2, <1>5, <1>7 DEF PutText
  <1>9. Moved(k, f, cells, NextRow(k), NextCol(k))
    <2>1. d.row = k.row /\ d.col = k.col /\ d \in Screens /\ d.cells = cells
          /\ d.esc = k.esc /\ d.params = k.params /\ d.attr = k.attr
      BY <1>1, <1>4, <1>6 DEF Screens
    <2> QED
      BY <1>1, <1>4, <1>8, <2>1 DEF Moved, Screens, NextRow, NextCol
  <1> QED
    BY <1>2, <1>4, <1>7, <1>9

\* Where a backspace goes, and whether it goes anywhere.
BackRow(k) == IF k.col > 0 THEN k.row ELSE k.row - 1
BackCol(k) == IF k.col > 0 THEN k.col - 1 ELSE COLS - 1

LEMMA BackspaceMoves ==
    ASSUME NEW k \in Screens, k.row < ROWS, k.row > 0 \/ k.col > 0
    PROVE  Moved(k, Backspace(k), Stored(k.cells, BackRow(k), BackCol(k), BlankCell(k)),
                 BackRow(k), BackCol(k))
  <1>1. /\ k.cells \in [Rows -> [Cols -> Cells]] /\ k.row \in Rows /\ k.col \in Cols
        /\ BackRow(k) \in Rows /\ BackCol(k) \in Cols
        /\ DOMAIN k = {"cells", "row", "col", "esc", "params", "fg", "bg", "bright", "attr"}
    BY ScreenSizes DEF Screens, BackRow, BackCol
  <1>2. PICK e \in Cells : e = BlankCell(k)
    BY CellTypes
  <1>3. PICK cells : cells = [k.cells EXCEPT ![BackRow(k)][BackCol(k)] = e]
    OBVIOUS
  <1>4. cells \in [Rows -> [Cols -> Cells]] /\ cells = Stored(k.cells, BackRow(k), BackCol(k), e)
    BY <1>1, <1>3, StoredIs
  <1>5. PICK f : f = Backspace(k)
    OBVIOUS
  <1>6. /\ k.col > 0 => f = [k EXCEPT !.col = @ - 1, !.cells[k.row][k.col - 1] = e]
        /\ ~(k.col > 0) => f = [k EXCEPT !.row = @ - 1, !.col = COLS - 1,
                                         !.cells[k.row - 1][COLS - 1] = e]
    BY <1>2, <1>5 DEF Backspace
  <1>7. f = [k EXCEPT !.cells = cells, !.row = BackRow(k), !.col = BackCol(k)]
    <2>1. CASE k.col > 0
      BY <1>1, <1>3, <1>6, <2>1 DEF BackRow, BackCol
    <2>2. CASE ~(k.col > 0)
      BY <1>1, <1>3, <1>6, <2>2 DEF BackRow, BackCol
    <2> QED
      BY <2>1, <2>2
  <1>8. BackRow(k) \in 0 .. ROWS
    BY <1>1, ScreenSizes
  <1> QED
    BY <1>1, <1>2, <1>4, <1>5, <1>7, <1>8, ScreenMoved

\* The cells from the cursor to a column are blank.
Blanked(k, next) ==
  [q \in Rows |-> [y \in Cols |-> IF q = k.row /\ y >= k.col /\ y < next THEN BlankCell(k)
                                  ELSE k.cells[q][y]]]

LEMMA TabMoves ==
    ASSUME NEW k \in Screens, k.row < ROWS
    PROVE  \E next \in Cols :
             next >= k.col /\ Moved(k, Tabulate(k), Blanked(k, next), k.row, next)
  <1>1. /\ k.cells \in [Rows -> [Cols -> Cells]] /\ k.row \in Rows /\ k.col \in Cols
        /\ k.col \in Nat /\ k.row \in 0 .. ROWS
        /\ DOMAIN k = {"cells", "row", "col", "esc", "params", "fg", "bg", "bright", "attr"}
    BY ScreenSizes DEF Screens
  <1>2. PICK e \in Cells : e = BlankCell(k)
    BY CellTypes
  <1>3. PICK stop : stop = ((k.col + TABW) \div TABW) * TABW
    OBVIOUS
  <1>4. stop \in Nat
    <2>1. PICK q \in Nat : q = (k.col + TABW) \div TABW
      <3>1. PICK n \in Nat : n = k.col + TABW
        BY <1>1, ScreenSizes
      <3>2. n \div TABW \in Nat
        BY <3>1, ScreenSizes
      <3> QED
        BY <3>1, <3>2
    <2> QED
      BY <1>3, <2>1, ScreenSizes
  <1>5. PICK next : next = IF stop >= COLS THEN COLS - 1 ELSE stop
    OBVIOUS
  <1>6. next \in Cols
    BY <1>4, <1>5, ScreenSizes
  <1>7. PICK f : f = Tabulate(k)
    OBVIOUS
  <1>8. CASE k.col >= next
    <2>1. f = k
      BY <1>3, <1>5, <1>7, <1>8 DEF Tabulate
    <2>2. k.cells = Blanked(k, k.col)
      <3>1. \A q \in Rows, y \in Cols : ~(y >= k.col /\ y < k.col)
        BY <1>1, ScreenSizes
      <3> QED
        BY <1>1, <3>1 DEF Blanked
    <2>3. Moved(k, f, Blanked(k, k.col), k.row, k.col)
      BY <2>1, <2>2 DEF Moved
    <2> QED
      BY <1>1, <1>7, <2>3
  <1>9. CASE ~(k.col >= next)
    <2>1. PICK cells : cells = [k.cells EXCEPT ![k.row] =
                         [c \in Cols |-> IF c \in k.col .. next - 1 THEN e ELSE k.cells[k.row][c]]]
      OBVIOUS
    <2>2. f = [k EXCEPT !.cells = cells, !.row = k.row, !.col = next]
      <3>1. f = [k EXCEPT !.col = next,
                          !.cells[k.row] = [c \in Cols |-> IF c \in k.col .. next - 1 THEN e
                                                           ELSE k.cells[k.row][c]]]
        BY <1>2, <1>3, <1>5, <1>7, <1>9 DEF Tabulate
      <3>2. f = [k EXCEPT !.cells = cells, !.col = next]
        BY <1>1, <2>1, <3>1
      <3> QED
        BY <1>1, <3>2
    <2>3. cells = Blanked(k, next)
      <3>1. \A c \in Cols : c \in k.col .. next - 1 <=> c >= k.col /\ c < next
        BY <1>1, <1>6, ScreenSizes
      <3> QED
        BY <1>1, <1>2, <2>1, <3>1 DEF Blanked
    <2>4. cells \in [Rows -> [Cols -> Cells]]
      BY <1>1, <1>2, <2>3 DEF Blanked
    <2>5. Moved(k, f, cells, k.row, next)
      BY <1>1, <1>6, <2>2, <2>4, ScreenMoved
    <2>6. next >= k.col
      BY <1>1, <1>6, <1>9, ScreenSizes
    <2> QED
      BY <1>6, <1>7, <2>3, <2>5, <2>6
  <1> QED
    BY <1>8, <1>9

\* The rows of a screen that scrolls.
Raised(k) ==
  [r \in Rows |-> IF r < ROWS - 1 THEN k.cells[r + 1] ELSE [c \in Cols |-> BlankCell(k)]]

LEMMA ScreenScrolls ==
    ASSUME NEW k \in Screens
    PROVE  Moved(k, vga_scroll(k), Raised(k), ROWS - 1, 0)
  <1>1. Raised(k) \in [Rows -> [Cols -> Cells]]
    <2>1. k.cells \in [Rows -> [Cols -> Cells]] /\ BlankCell(k) \in Cells
      BY CellTypes DEF Screens
    <2>2. \A r \in Rows : r < ROWS - 1 => r + 1 \in Rows
      BY ScreenSizes
    <2> QED
      BY <2>1, <2>2 DEF Raised
  <1>2. ROWS - 1 \in 0 .. ROWS /\ 0 \in Cols
    BY ScreenSizes
  <1>3. vga_scroll(k) = [k EXCEPT !.cells = Raised(k), !.row = ROWS - 1, !.col = 0]
    BY DEF vga_scroll, Raised
  <1> QED
    BY <1>1, <1>2, <1>3, ScreenMoved

\* Another state of the escape sequence.
LEMMA EscSet ==
    ASSUME NEW k \in Screens, NEW esc \in {"none", "esc", "csi"},
           NEW d, d = [k EXCEPT !.esc = esc]
    PROVE  /\ d \in Screens /\ d.esc = esc
           /\ d.cells = k.cells /\ d.row = k.row /\ d.col = k.col /\ d.params = k.params
  BY DEF Screens

\* A clear screen.
LEMMA ScreenClears ==
    ASSUME NEW k \in Screens, NEW d, d = vga_clear(k)
    PROVE  /\ d \in Screens /\ d.row = 0 /\ d.col = 0 /\ d.esc = "none" /\ d.params = k.params
           /\ \A r \in Rows, c \in Cols : d.cells[r][c].ch = SPACE
  <1>1. PICK cells : cells = [r \in Rows |-> [c \in Cols |-> BlankCell(k)]]
    OBVIOUS
  <1>2. cells \in [Rows -> [Cols -> Cells]] /\ \A r \in Rows, c \in Cols : cells[r][c].ch = SPACE
    <2>1. BlankCell(k) \in Cells /\ BlankCell(k).ch = SPACE
      BY CellTypes DEF BlankCell, vga_entry
    <2> QED
      BY <1>1, <2>1
  <1>3. d = [k EXCEPT !.cells = cells, !.row = 0, !.col = 0, !.esc = "none"]
    BY <1>1 DEF vga_clear
  <1>4. /\ 0 \in 0 .. ROWS /\ 0 \in Cols
        /\ DOMAIN k = {"cells", "row", "col", "esc", "params", "fg", "bg", "bright", "attr"}
    BY ScreenSizes DEF Screens
  <1>5. /\ d.cells = cells /\ d.row = 0 /\ d.col = 0 /\ d.esc = "none" /\ d.params = k.params
    BY <1>3, <1>4
  <1>6. d \in Screens
    <2>1. PICK f : f = [k EXCEPT !.cells = cells, !.row = 0, !.col = 0]
      OBVIOUS
    <2>2. Moved(k, f, cells, 0, 0)
      BY <1>2, <1>4, <2>1, ScreenMoved
    <2>3. d = [f EXCEPT !.esc = "none"]
      BY <1>3, <1>4, <2>1
    <2> QED
      BY <2>2, <2>3, EscSet DEF Moved
  <1> QED
    BY <1>2, <1>5, <1>6

\* A character outside escape sequences moves the cursor and changes cells, nothing else.
Printed == Glyphs \cup {SPACE, NL, CR, BS, TAB}

LEMMA CharsDiffer ==
  /\ NL \notin {CR, BS, TAB, ESC, SPACE} /\ CR \notin {BS, TAB, ESC, SPACE}
  /\ BS \notin {TAB, ESC, SPACE} /\ TAB \notin {ESC, SPACE} /\ ESC # SPACE
  BY DEF NL, CR, BS, TAB, ESC, SPACE

LEMMA PlainMoves ==
    ASSUME NEW k \in Screens, k.row < ROWS, NEW c \in Printed
    PROVE  \E cells, row, col : Moved(k, Plain(k, c), cells, row, col)
  <1>1. /\ k.cells \in [Rows -> [Cols -> Cells]] /\ k.row \in Rows /\ k.col \in Cols
        /\ k.row + 1 \in 0 .. ROWS /\ k.row \in 0 .. ROWS /\ 0 \in Cols
        /\ DOMAIN k = {"cells", "row", "col", "esc", "params", "fg", "bg", "bright", "attr"}
    BY ScreenSizes DEF Screens
  <1>2. PICK f : f = Plain(k, c)
    OBVIOUS
  <1>a. PICK down, home : /\ down = [k EXCEPT !.col = 0, !.row = @ + 1]
                          /\ home = [k EXCEPT !.col = 0]
    OBVIOUS
  <1>b. f = CASE c = NL -> down [] c = CR -> home [] c = BS -> Backspace(k)
              [] c = TAB -> Tabulate(k) [] OTHER -> PutText(k, c)
    BY <1>2, <1>a DEF Plain
  <1>3. CASE c = NL
    <2>1. f = down
      BY <1>3, <1>b, CharsDiffer
    <2>2. down = [k EXCEPT !.cells = k.cells, !.row = k.row + 1, !.col = 0]
      BY <1>1, <1>a
    <2>3. Moved(k, down, k.cells, k.row + 1, 0)
      BY <1>1, <2>2, ScreenMoved
    <2> QED
      BY <1>2, <2>1, <2>3
  <1>4. CASE c = CR
    <2>1. f = home
      BY <1>4, <1>b, CharsDiffer
    <2>2. home = [k EXCEPT !.cells = k.cells, !.row = k.row, !.col = 0]
      BY <1>1, <1>a
    <2>3. Moved(k, home, k.cells, k.row, 0)
      BY <1>1, <2>2, ScreenMoved
    <2> QED
      BY <1>2, <2>1, <2>3
  <1>5. CASE c = BS
    <2>1. f = Backspace(k)
      BY <1>5, <1>b, CharsDiffer
    <2>2. CASE k.row > 0 \/ k.col > 0
      BY <1>2, <2>1, <2>2, BackspaceMoves
    <2>3. CASE ~(k.row > 0 \/ k.col > 0)
      <3>1. f = k
        BY <2>1, <2>3 DEF Backspace
      <3>2. Moved(k, k, k.cells, k.row, k.col)
        BY DEF Moved
      <3> QED
        BY <1>2, <3>1, <3>2
    <2> QED
      BY <2>2, <2>3
  <1>6. CASE c = TAB
    <2>1. f = Tabulate(k)
      BY <1>6, <1>b, CharsDiffer
    <2> QED
      BY <1>2, <2>1, TabMoves
  <1>7. CASE c \notin {NL, CR, BS, TAB}
    <2>1. f = PutText(k, c) /\ c \in Glyphs \cup {SPACE}
      BY <1>7, <1>b DEF Printed
    <2> QED
      BY <1>2, <2>1, TextPut
  <1> QED
    BY <1>3, <1>4, <1>5, <1>6, <1>7

-----------------------------------------------------------------------------
(* Escape sequences.                                                       *)

\* Nothing but the colours changes.
SameScreen(k, d) ==
  /\ d \in Screens /\ d.cells = k.cells /\ d.row = k.row /\ d.col = k.col
  /\ d.params = k.params /\ d.esc = k.esc

LEMMA SgrKeeps ==
    ASSUME NEW k \in Screens, NEW p
    PROVE  SameScreen(k, Sgr(k, p))
  <1>1. PICK f : f = Sgr(k, p)
    OBVIOUS
  <1>2. CASE p = 0
    <2>1. f = [k EXCEPT !.fg = 7, !.bg = 0, !.bright = FALSE]
      BY <1>1, <1>2 DEF Sgr
    <2>a. PICK a \in 0 .. 7, b \in 0 .. 7 : a = 7 /\ b = 0
      OBVIOUS
    <2>2. PICK g : g = [k EXCEPT !.fg = a, !.bg = b]
      OBVIOUS
    <2>3. SameScreen(k, g)
      BY <2>2 DEF SameScreen, Screens
    <2>4. f = [g EXCEPT !.bright = FALSE]
      BY <2>1, <2>2, <2>a
    <2>5. SameScreen(g, f)
      BY <2>3, <2>4 DEF SameScreen, Screens
    <2> QED
      BY <1>1, <2>3, <2>5 DEF SameScreen
  <1>3. CASE p = 1
    <2>1. f = [k EXCEPT !.bright = TRUE]
      BY <1>1, <1>3 DEF Sgr
    <2>2. SameScreen(k, f)
      BY <2>1 DEF SameScreen, Screens
    <2> QED
      BY <1>1, <2>2
  <1>4. CASE p # 0 /\ p # 1 /\ p \in 30 .. 37
    <2>1. PICK q \in 0 .. 7 : q = p - 30
      BY <1>4
    <2>2. f = [k EXCEPT !.fg = q]
      BY <1>1, <1>4, <2>1 DEF Sgr
    <2>3. SameScreen(k, f)
      BY <2>2 DEF SameScreen, Screens
    <2> QED
      BY <1>1, <2>3
  <1>5. CASE p # 0 /\ p # 1 /\ p \notin 30 .. 37 /\ p \in 40 .. 47
    <2>1. PICK q \in 0 .. 7 : q = p - 40
      BY <1>5
    <2>2. f = [k EXCEPT !.bg = q]
      BY <1>1, <1>5, <2>1 DEF Sgr
    <2>3. SameScreen(k, f)
      BY <2>2 DEF SameScreen, Screens
    <2> QED
      BY <1>1, <2>3
  <1>6. CASE p # 0 /\ p # 1 /\ p \notin 30 .. 37 /\ p \notin 40 .. 47
    BY <1>6 DEF Sgr, SameScreen
  <1> QED
    BY <1>2, <1>3, <1>4, <1>5, <1>6

LEMMA SgrHandled ==
    ASSUME NEW k \in Screens
    PROVE  SameScreen(k, vga_handle_sgr(k))
  <1> DEFINE N == Len(k.params)
             Same == {d \in Screens : SameScreen(k, d)}
             First == IF k.params = <<>> THEN Sgr(k, 0) ELSE k
             Eq(h) == h = [n \in 0 .. N |-> IF n = 0 THEN First
                                            ELSE Sgr(h[n - 1], k.params[n])]
             after == CHOOSE h : Eq(h)
  <1>1. N \in Nat
    BY LenProperties DEF Screens
  <1>2. ASSUME NEW d \in Same, NEW p PROVE Sgr(d, p) \in Same
    BY <1>2, SgrKeeps DEF SameScreen
  <1>3. First \in Same
    BY SgrKeeps DEF SameScreen
  <1>4. vga_handle_sgr(k) = vga_update_attr(after[N])
    BY DEF vga_handle_sgr
  <1> HIDE DEF N, Same, First
  <1>5. PICK step : step = [p \in (1 .. N) \X Same |-> Sgr(p[2], k.params[p[1]])]
    OBVIOUS
  <1>6. step \in [(1 .. N) \X Same -> Same]
    BY <1>2, <1>5
  <1>7. PICK f \in [0 .. N -> Same] :
          f[0] = First /\ \A n \in 1 .. N : f[n] = step[<<n, f[n - 1]>>]
    <2>1. \E f : Iterates(f, N, Same, First, step)
      BY <1>1, <1>3, <1>6, RecursionExists
    <2> QED
      BY <2>1 DEF Iterates
  <1>8. \A n \in 1 .. N : n - 1 \in 0 .. N /\ n \in 0 .. N /\ n # 0
    BY <1>1
  <1>9. \A n \in 1 .. N : f[n] = Sgr(f[n - 1], k.params[n])
    BY <1>5, <1>7, <1>8
  <1>10. \A n \in 0 .. N : n # 0 => n \in 1 .. N
    BY <1>1
  <1>11. Eq(f)
    BY <1>7, <1>9, <1>10
  <1>12. Eq(after)
    <2> HIDE DEF Eq
    <2> QED
      BY <1>11
  <1> HIDE DEF after
  <1>13. after[0] = First /\ \A n \in 1 .. N : after[n] = Sgr(after[n - 1], k.params[n])
    <2>1. 0 \in 0 .. N
      BY <1>1
    <2> QED
      BY <1>8, <1>12, <2>1
  <1> DEFINE T == {n \in 0 .. N : after[n] \in Same}
  <1>14. 0 \in T
    BY <1>1, <1>3, <1>13
  <1>15. ASSUME NEW n \in 1 .. N, n - 1 \in T PROVE n \in T
    BY <1>2, <1>8, <1>13, <1>15
  <1>16. N \in T
    <2>1. N \in 0 .. N
      BY <1>1
    <2> HIDE DEF T
    <2> QED
      BY <1>1, <1>14, <1>15, <2>1, CountUp
  <1>17. PICK d : d = after[N]
    OBVIOUS
  <1>18. SameScreen(k, d) /\ d \in Screens
    BY <1>16, <1>17 DEF Same
  <1>19. SameScreen(d, vga_update_attr(d))
    <2>1. PICK a : a = [fg |-> d.fg + (IF d.bright THEN 8 ELSE 0), bg |-> d.bg]
      OBVIOUS
    <2>2. a \in [fg : 0 .. 15, bg : 0 .. 7]
      <3>1. d.fg \in 0 .. 7 /\ d.bg \in 0 .. 7
        BY <1>18 DEF Screens
      <3>2. d.fg + (IF d.bright THEN 8 ELSE 0) \in 0 .. 15
        BY <3>1
      <3> QED
        BY <2>1, <3>1, <3>2
    <2>3. vga_update_attr(d) = [d EXCEPT !.attr = a]
      BY <2>1 DEF vga_update_attr
    <2> QED
      BY <1>18, <2>2, <2>3 DEF SameScreen, Screens
  <1> QED
    BY <1>4, <1>17, <1>18, <1>19 DEF SameScreen

\* A digit has a value.
LEMMA DigitValues == \A c \in Digits : DigitValue(c) \in 0 .. 9 /\ c \notin {"J", "H"}
  <1> SUFFICES ASSUME NEW c \in Digits PROVE DigitValue(c) \in 0 .. 9 /\ c \notin {"J", "H"}
    OBVIOUS
  <1>1. PICK d \in 0 .. 9 : DigitChar(d) = c
    BY ConsoleAssumption
  <1>2. DigitValue(c) \in 0 .. 9
    BY <1>1 DEF DigitValue
  <1>3. c \notin {"J", "H"}
    <2>1. d \in {0, 1, 2, 3, 4, 5, 6, 7, 8, 9}
      BY <1>1
    <2> QED
      BY <1>1, <2>1 DEF DigitChar
  <1> QED
    BY <1>2, <1>3

LEMMA ParamsSet ==
    ASSUME NEW k \in Screens, NEW params \in Seq(Nat), NEW d, d = [k EXCEPT !.params = params]
    PROVE  /\ d \in Screens /\ d.params = params
           /\ d.cells = k.cells /\ d.row = k.row /\ d.col = k.col /\ d.esc = k.esc
  BY DEF Screens

\* What a character inside an escape sequence does.
LEMMA SequenceMoves ==
    ASSUME NEW k \in Screens, k.row < ROWS, Len(k.params) <= PARAMS, k.esc # "none", NEW c,
           NEW d, d = Sequence(k, c)
    PROVE  /\ d \in Screens /\ d.row < ROWS /\ Len(d.params) <= PARAMS
           /\ IF k.esc = "csi" /\ c = "J"
              THEN /\ \A r \in Rows, x \in Cols : d.cells[r][x].ch = SPACE
                   /\ d.row = 0 /\ d.col = 0 /\ d.esc = "none"
              ELSE /\ d.cells = k.cells
                   /\ \/ d.row = k.row /\ d.col = k.col
                      \/ k.esc = "csi" /\ d.esc = "none" /\ d.row = 0 /\ d.col = 0
  <1>1. /\ Len(k.params) \in Nat /\ k.params \in Seq(Nat) /\ k.esc \in {"esc", "csi"}
        /\ PARAMS \in Nat \ {0} /\ ROWS \in Nat /\ ROWS > 1
    BY LenProperties, ScreenSizes DEF Screens
  <1>2. CASE k.esc = "esc"
    <2>1. CASE c = "["
      <3>1. PICK f : f = [k EXCEPT !.esc = "csi"]
        OBVIOUS
      <3>2. f \in Screens /\ f.row = k.row /\ f.col = k.col /\ f.cells = k.cells
        BY <3>1, EscSet
      <3>3. PICK new \in Seq(Nat) : new = <<>> /\ Len(new) = 0
        BY EmptySeq
      <3>4. d = [f EXCEPT !.params = new]
        BY <1>2, <2>1, <3>1, <3>3 DEF Sequence
      <3>5. /\ d \in Screens /\ d.params = new
            /\ d.cells = k.cells /\ d.row = k.row /\ d.col = k.col
        BY <3>2, <3>4, ParamsSet
      <3>6. Len(d.params) <= PARAMS
        BY <1>1, <3>3, <3>5
      <3> QED
        BY <1>2, <3>5, <3>6
    <2>2. CASE c # "["
      <3>1. d = [k EXCEPT !.esc = "none"]
        BY <1>2, <2>2 DEF Sequence
      <3> QED
        BY <1>2, <3>1, EscSet
    <2> QED
      BY <2>1, <2>2
  <1>3. CASE k.esc = "csi" /\ c \in Digits
    <2>1. PICK p : p = IF k.params = <<>> THEN <<0>> ELSE k.params
      OBVIOUS
    <2>2. p \in Seq(Nat) /\ Len(p) \in 1 .. PARAMS
      <3>1. CASE k.params = <<>>
        <4>1. p = <<0>>
          BY <2>1, <3>1
        <4>2. p \in Seq(Nat) /\ Len(p) = 1
          BY <4>1
        <4> QED
          BY <1>1, <4>2
      <3>2. CASE k.params # <<>>
        <4>1. Len(k.params) # 0
          BY <1>1, <3>2, EmptySeq
        <4> QED
          BY <1>1, <2>1, <3>2, <4>1
      <3> QED
        BY <3>1, <3>2
    <2>3. PICK v \in Nat : v = p[Len(p)] * 10 + DigitValue(c)
      <3>1. PICK a \in Nat : a = p[Len(p)]
        BY <2>2, ElementOfSeq
      <3>2. PICK b \in Nat : b = DigitValue(c)
        BY <1>3, DigitValues
      <3>3. a * 10 + b \in Nat
        OBVIOUS
      <3> QED
        BY <3>1, <3>2, <3>3
    <2>4. PICK new : new = [p EXCEPT ![Len(p)] = v]
      OBVIOUS
    <2>5. new \in Seq(Nat) /\ Len(new) = Len(p)
      BY <2>2, <2>4, ExceptSeq
    <2>6. d = [k EXCEPT !.params = new]
      BY <1>3, <2>1, <2>3, <2>4 DEF Sequence, ParamDigit
    <2>7. c # "J"
      BY <1>3, DigitValues
    <2>8. d \in Screens /\ d.params = new /\ d.cells = k.cells /\ d.row = k.row /\ d.col = k.col
      BY <2>5, <2>6, ParamsSet
    <2> QED
      BY <2>2, <2>5, <2>7, <2>8
  <1>4. CASE k.esc = "csi" /\ c \notin Digits /\ c = ";"
    <2>1. d = Semicolon(k)
      BY <1>4 DEF Sequence
    <2>2. CASE Len(k.params) < PARAMS
      <3>1. PICK new : new = Append(k.params, 0)
        OBVIOUS
      <3>2. new \in Seq(Nat) /\ Len(new) = Len(k.params) + 1
        BY <1>1, <3>1, AppendProperties
      <3>3. d = [k EXCEPT !.params = new]
        BY <2>1, <2>2, <3>1 DEF Semicolon
      <3>4. /\ d \in Screens /\ d.params = new
            /\ d.cells = k.cells /\ d.row = k.row /\ d.col = k.col
        BY <3>2, <3>3, ParamsSet
      <3>5. Len(d.params) <= PARAMS
        BY <1>1, <2>2, <3>2, <3>4
      <3> QED
        BY <1>4, <3>4, <3>5
    <2>3. CASE ~(Len(k.params) < PARAMS)
      BY <1>4, <2>1, <2>3 DEF Semicolon
    <2> QED
      BY <2>2, <2>3
  <1>5. CASE k.esc = "csi" /\ c \notin Digits /\ c = "m"
    <2>1. PICK f : f = vga_handle_sgr(k)
      OBVIOUS
    <2>2. SameScreen(k, f)
      BY <2>1, SgrHandled
    <2>3. d = [f EXCEPT !.esc = "none"]
      BY <1>5, <2>1 DEF Sequence
    <2>4. /\ d \in Screens /\ d.cells = k.cells /\ d.row = k.row /\ d.col = k.col
          /\ d.params = k.params
      BY <2>2, <2>3, EscSet DEF SameScreen
    <2> QED
      BY <1>5, <2>4
  <1>6. CASE k.esc = "csi" /\ c \notin Digits /\ c = "H"
    <2>1. PICK f : f = [k EXCEPT !.cells = k.cells, !.row = 0, !.col = 0]
      OBVIOUS
    <2>2. 0 \in 0 .. ROWS /\ 0 \in Cols /\ k.cells \in [Rows -> [Cols -> Cells]]
      BY ScreenSizes DEF Screens
    <2>3. Moved(k, f, k.cells, 0, 0)
      BY <2>1, <2>2, ScreenMoved
    <2>4. d = [f EXCEPT !.esc = "none"]
      <3>1. d = [k EXCEPT !.row = 0, !.col = 0, !.esc = "none"]
        BY <1>6 DEF Sequence
      <3> QED
        BY <2>1, <3>1 DEF Screens
    <2>5. /\ d \in Screens /\ d.cells = k.cells /\ d.row = 0 /\ d.col = 0
          /\ d.params = k.params /\ d.esc = "none"
      BY <2>3, <2>4, EscSet DEF Moved
    <2> QED
      BY <1>1, <1>6, <2>5
  <1>7. CASE k.esc = "csi" /\ c \notin Digits /\ c = "J"
    <2>1. d = vga_clear(k)
      BY <1>7 DEF Sequence
    <2> QED
      BY <1>1, <1>7, <2>1, ScreenClears
  <1>8. CASE k.esc = "csi" /\ c \notin Digits \cup {";", "m", "H", "J"}
    <2>1. d = [k EXCEPT !.esc = "none"] \/ d = k
      BY <1>8 DEF Sequence
    <2>2. /\ d \in Screens /\ d.cells = k.cells /\ d.row = k.row /\ d.col = k.col
          /\ d.params = k.params
      BY <2>1, EscSet
    <2> QED
      BY <1>8, <2>2
  <1>9. c \in Digits => c # "J"
    BY DigitValues
  <1> QED
    BY <1>1, <1>2, <1>3, <1>4, <1>5, <1>6, <1>7, <1>8, <1>9

-----------------------------------------------------------------------------
(* What a character makes of the screen and of the paper.                  *)

LEMMA MovedCursor ==
    ASSUME NEW k \in Screens, NEW d, NEW cells, NEW row, NEW col, Moved(k, d, cells, row, col)
    PROVE  /\ d \in Screens /\ d.cells = cells /\ d.row = row /\ d.col = col
           /\ d.esc = k.esc /\ d.params = k.params /\ BlankCell(d) = BlankCell(k)
  BY DEF Moved, BlankCell

LEMMA PlainIs ==
    ASSUME NEW k, NEW c
    PROVE  /\ c = BS => Plain(k, c) = Backspace(k)
           /\ c = TAB => Plain(k, c) = Tabulate(k)
           /\ c \in Glyphs \cup {SPACE} => Plain(k, c) = PutText(k, c)
  <1>1. PICK down, home : /\ down = [k EXCEPT !.col = 0, !.row = @ + 1]
                          /\ home = [k EXCEPT !.col = 0]
    OBVIOUS
  <1>2. PICK f : f = Plain(k, c)
    OBVIOUS
  <1>3. f = CASE c = NL -> down [] c = CR -> home [] c = BS -> Backspace(k)
              [] c = TAB -> Tabulate(k) [] OTHER -> PutText(k, c)
    BY <1>1, <1>2 DEF Plain
  <1>4. c \in Glyphs \cup {SPACE} => c \notin {NL, CR, BS, TAB}
    BY ConsoleAssumption, CharsDiffer
  <1> QED
    BY <1>2, <1>3, <1>4, CharsDiffer

LEMMA BackCell ==
    ASSUME NEW k \in Screens, k.row < ROWS, k.row > 0 \/ k.col > 0
    PROVE  /\ BackRow(k) \in 0 .. ROWS - 1 /\ BackCol(k) \in 0 .. COLS - 1
           /\ BackCol(k) + 1 >= COLS => BackRow(k) + 1 < ROWS
  <1>1. PICK i, j : i = k.row /\ j = k.col
    OBVIOUS
  <1>2. /\ i \in Nat /\ i < ROWS /\ j \in 0 .. COLS - 1 /\ (i > 0 \/ j > 0)
        /\ COLS \in Nat \ {0} /\ ROWS \in Nat
    BY <1>1, ScreenSizes DEF Screens
  <1>3. CASE j > 0
    <2>1. BackRow(k) = i /\ BackCol(k) = j - 1
      BY <1>1, <1>3 DEF BackRow, BackCol
    <2> QED
      BY <1>2, <1>3, <2>1
  <1>4. CASE ~(j > 0)
    <2>1. BackRow(k) = i - 1 /\ BackCol(k) = COLS - 1
      BY <1>1, <1>4 DEF BackRow, BackCol
    <2> QED
      BY <1>2, <1>4, <2>1
  <1> QED
    BY <1>3, <1>4

LEMMA BackspacePut ==
    ASSUME NEW k \in Screens, k.esc = "none", k.row < ROWS, k.row > 0 \/ k.col > 0
    PROVE  Moved(k, vga_put_char(k, BS), Stored(k.cells, BackRow(k), BackCol(k), BlankCell(k)),
                 BackRow(k), BackCol(k))
  <1>1. PICK f : f = Plain(k, BS)
    OBVIOUS
  <1>2. Moved(k, f, Stored(k.cells, BackRow(k), BackCol(k), BlankCell(k)),
              BackRow(k), BackCol(k))
    BY <1>1, PlainIs, BackspaceMoves
  <1>3. BackRow(k) < ROWS /\ f.row = BackRow(k)
    BY <1>2, ScreenSizes DEF BackRow, Moved, Screens
  <1>4. vga_put_char(k, BS) = f
    <2>1. ~(f.row >= ROWS)
      BY <1>3, ScreenSizes DEF BackRow, Screens
    <2> QED
      BY <1>1, <2>1, CharsDiffer DEF vga_put_char, Scrolls
  <1> QED
    BY <1>2, <1>4

LEMMA TextPutChar ==
    ASSUME NEW k \in Screens, k.esc = "none", k.row < ROWS, NEW c \in Glyphs \cup {SPACE},
           NextRow(k) < ROWS
    PROVE  Moved(k, vga_put_char(k, c), Stored(k.cells, k.row, k.col, vga_entry(c, k.attr)),
                 NextRow(k), NextCol(k))
  <1>1. PICK f : f = Plain(k, c)
    OBVIOUS
  <1>2. Moved(k, f, Stored(k.cells, k.row, k.col, vga_entry(c, k.attr)), NextRow(k), NextCol(k))
    BY <1>1, PlainIs, TextPut
  <1>3. vga_put_char(k, c) = f
    <2>1. ~(f.row >= ROWS)
      BY <1>2, ScreenSizes DEF Moved, Screens, NextRow
    <2>2. c # ESC
      BY ConsoleAssumption, CharsDiffer
    <2> QED
      BY <1>1, <2>1, <2>2 DEF vga_put_char, Scrolls
  <1> QED
    BY <1>2, <1>3

\* "\b \b" blanks the cell before the cursor and leaves the cursor there.
LEMMA Erased ==
    ASSUME NEW p \in Screens, p.esc = "none", p.row < ROWS, p.row > 0 \/ p.col > 0,
           NEW end, end = vga_put_char(vga_put_char(vga_put_char(p, BS), SPACE), BS)
    PROVE  /\ end.row = BackRow(p) /\ end.col = BackCol(p)
           /\ \A r \in Rows, x \in Cols :
                end.cells[r][x] = IF r = BackRow(p) /\ x = BackCol(p) THEN BlankCell(p)
                                  ELSE p.cells[r][x]
  <1>1. PICK b : b = vga_put_char(p, BS)
    OBVIOUS
  <1>2. PICK s : s = vga_put_char(b, SPACE)
    OBVIOUS
  <1>3. PICK r0, x0 : r0 = BackRow(p) /\ x0 = BackCol(p)
    OBVIOUS
  <1>4. /\ p.row \in Nat /\ p.row < ROWS /\ p.col \in 0 .. COLS - 1
        /\ COLS \in Nat \ {0} /\ ROWS \in Nat
        /\ r0 \in 0 .. ROWS - 1 /\ x0 \in 0 .. COLS - 1
        /\ x0 + 1 >= COLS => r0 + 1 < ROWS
    <2>1. /\ p.row \in Nat /\ p.row < ROWS /\ p.col \in 0 .. COLS - 1
          /\ COLS \in Nat \ {0} /\ ROWS \in Nat
      BY ScreenSizes DEF Screens
    <2>2. /\ r0 \in 0 .. ROWS - 1 /\ x0 \in 0 .. COLS - 1
          /\ x0 + 1 >= COLS => r0 + 1 < ROWS
      BY <1>3, BackCell
    <2> QED
      BY <2>1, <2>2
  <1>5. /\ b \in Screens /\ b.row = r0 /\ b.col = x0 /\ b.esc = "none"
        /\ b.cells = Stored(p.cells, r0, x0, BlankCell(p)) /\ BlankCell(b) = BlankCell(p)
    BY <1>1, <1>3, BackspacePut, MovedCursor
  <1>6. NextRow(b) < ROWS /\ b.row < ROWS
    BY <1>4, <1>5 DEF NextRow
  <1>7. /\ s \in Screens /\ s.row = NextRow(b) /\ s.col = NextCol(b) /\ s.esc = "none"
        /\ s.cells = Stored(b.cells, r0, x0, vga_entry(SPACE, b.attr))
        /\ BlankCell(s) = BlankCell(p)
    BY <1>2, <1>5, <1>6, TextPutChar, MovedCursor
  <1>8. s.row < ROWS /\ (s.row > 0 \/ s.col > 0) /\ BackRow(s) = r0 /\ BackCol(s) = x0
    BY <1>4, <1>5, <1>6, <1>7 DEF NextRow, NextCol, BackRow, BackCol
  <1>9. /\ end.row = r0 /\ end.col = x0
        /\ end.cells = Stored(s.cells, r0, x0, BlankCell(p))
    <2>1. end = vga_put_char(s, BS)
      BY <1>1, <1>2
    <2> QED
      BY <1>7, <1>8, <2>1, BackspacePut, MovedCursor
  <1>10. \A r \in Rows, x \in Cols :
           end.cells[r][x] = IF r = r0 /\ x = x0 THEN BlankCell(p) ELSE p.cells[r][x]
    BY <1>5, <1>7, <1>9 DEF Stored
  <1> QED
    BY <1>3, <1>9, <1>10

\* It takes back a character that was just put out.
LEMMA EraseIsUndo ==
    ASSUME NEW k \in Screens, k.esc = "none", k.row < ROWS, NEW c \in Glyphs
    PROVE  LET put == vga_put_char(k, c)
               end == vga_put_char(vga_put_char(vga_put_char(put, BS), SPACE), BS)
               up == IF Scrolls(k, c) THEN 1 ELSE 0
           IN  /\ end.row = k.row - up /\ end.col = k.col
               /\ end.cells[end.row][end.col] = BlankCell(k)
               /\ \A r \in up .. ROWS - 1, x \in Cols :
                    <<r, x>> # <<k.row, k.col>> => end.cells[r - up][x] = k.cells[r][x]
  <1>1. PICK f : f = Plain(k, c)
    OBVIOUS
  <1>2. PICK put : put = vga_put_char(k, c)
    OBVIOUS
  <1>3. PICK end : end = vga_put_char(vga_put_char(vga_put_char(put, BS), SPACE), BS)
    OBVIOUS
  <1>4. PICK up : up = IF Scrolls(k, c) THEN 1 ELSE 0
    OBVIOUS
  <1>5. c # ESC
    BY ConsoleAssumption
  <1>6. /\ f \in Screens /\ f.row = NextRow(k) /\ f.col = NextCol(k) /\ f.esc = "none"
        /\ f.cells = Stored(k.cells, k.row, k.col, vga_entry(c, k.attr))
        /\ BlankCell(f) = BlankCell(k)
    BY <1>1, PlainIs, TextPut, MovedCursor
  <1>7. /\ k.row \in Nat /\ k.col \in 0 .. COLS - 1 /\ COLS \in Nat \ {0}
        /\ ROWS \in Nat /\ ROWS > 1 /\ Rows = 0 .. ROWS - 1
    BY ScreenSizes DEF Screens
  <1>8. /\ put \in Screens /\ put.esc = "none" /\ put.row < ROWS
        /\ put.row > 0 \/ put.col > 0
        /\ BackRow(put) = k.row - up /\ BackCol(put) = k.col
        /\ BlankCell(put) = BlankCell(k)
        /\ \A r \in up .. ROWS - 1, x \in Cols : put.cells[r - up][x] = f.cells[r][x]
        /\ up \in {0, 1}
    <2>1. CASE Scrolls(k, c)
      <3>1. f.row >= ROWS
        BY <1>1, <2>1 DEF Scrolls
      <3>2. put = vga_scroll(f) /\ up = 1
        BY <1>1, <1>2, <1>4, <1>5, <2>1 DEF vga_put_char
      <3>3. /\ put \in Screens /\ put.esc = "none" /\ put.row = ROWS - 1 /\ put.col = 0
            /\ put.cells = Raised(f) /\ BlankCell(put) = BlankCell(k)
        BY <1>6, <3>2, ScreenScrolls, MovedCursor
      <3>4. k.row = ROWS - 1 /\ k.col = COLS - 1
        BY <1>6, <1>7, <3>1 DEF NextRow
      <3>5. BackRow(put) = k.row - up /\ BackCol(put) = k.col
        BY <1>7, <3>2, <3>3, <3>4 DEF BackRow, BackCol
      <3>6. ASSUME NEW r \in up .. ROWS - 1, NEW x \in Cols
            PROVE  put.cells[r - up][x] = f.cells[r][x]
        <4>1. r - 1 \in Rows /\ r - 1 < ROWS - 1 /\ r - 1 + 1 = r
          BY <1>7, <3>2
        <4> QED
          BY <3>2, <3>3, <4>1 DEF Raised
      <3> QED
        BY <1>7, <3>2, <3>3, <3>5, <3>6
    <2>2. CASE ~Scrolls(k, c)
      <3>1. ~(f.row >= ROWS)
        BY <1>1, <1>5, <2>2 DEF Scrolls
      <3>2. put = f /\ up = 0
        BY <1>1, <1>2, <1>4, <1>5, <2>2 DEF vga_put_char
      <3>3. f.row < ROWS /\ (f.row > 0 \/ f.col > 0) /\ BackRow(f) = k.row /\ BackCol(f) = k.col
        BY <1>6, <1>7, <3>1 DEF NextRow, NextCol, BackRow, BackCol
      <3>4. \A r \in 0 .. ROWS - 1 : r - 0 = r
        BY <1>7
      <3> QED
        BY <1>6, <1>7, <3>2, <3>3, <3>4
    <2> QED
      BY <2>1, <2>2
  <1>9. /\ end.row = k.row - up /\ end.col = k.col
        /\ \A r \in Rows, x \in Cols :
             end.cells[r][x] = IF r = k.row - up /\ x = k.col THEN BlankCell(k)
                               ELSE put.cells[r][x]
    BY <1>3, <1>8, Erased
  <1>10. end.row \in Rows /\ end.col \in Cols
    <2>1. end.row = BackRow(put) /\ BackRow(put) \in Rows
      BY <1>7, <1>8, <1>9 DEF BackRow, Screens
    <2> QED
      BY <1>9, <2>1 DEF Screens
  <1>11. end.cells[end.row][end.col] = BlankCell(k)
    BY <1>9, <1>10
  <1>12. ASSUME NEW r \in up .. ROWS - 1, NEW x \in Cols, <<r, x>> # <<k.row, k.col>>
         PROVE  end.cells[r - up][x] = k.cells[r][x]
    <2>1. r \in Rows /\ r - up \in Rows /\ (r - up = k.row - up => r = k.row)
      BY <1>7, <1>8
    <2>2. end.cells[r - up][x] = put.cells[r - up][x]
      BY <1>9, <1>12, <2>1
    <2>3. put.cells[r - up][x] = f.cells[r][x]
      BY <1>8
    <2>4. f.cells[r][x] = k.cells[r][x]
      BY <1>6, <1>12, <2>1 DEF Stored
    <2> QED
      BY <2>2, <2>3, <2>4
  <1> QED
    BY <1>2, <1>3, <1>4, <1>9, <1>11, <1>12

-----------------------------------------------------------------------------
(* The invariant of the console.                                           *)

Pages == [1 .. ROWS -> [Cols -> Glyphs \cup {SPACE}]]

\* A screen shows a page.
Shows(d, page) ==
  page \in Pages /\ \A r \in Rows, x \in Cols : d.cells[r][x].ch = page[r + 1][x]

ConsoleInv ==
  /\ con \in Screens /\ con.row < ROWS /\ Len(con.params) <= PARAMS
  /\ Shows(con, paper)

LEMMA EmptyPage == EmptyPaper \in Pages /\ \A r \in Rows, x \in Cols : EmptyPaper[r + 1][x] = SPACE
  BY ScreenSizes DEF EmptyPaper, EmptyLine, Pages

\* What a character writes is on the paper as it is on the screen.
LEMMA PaperFollows ==
    ASSUME ConsoleInv, NEW c \in Glyphs \cup {NL, CR, BS, TAB}
    PROVE  Shows(Plain(con, c), OnPaper(c))
  <1>1. PICK k : k = con
    OBVIOUS
  <1>2. /\ k \in Screens /\ k.row < ROWS /\ paper \in Pages
        /\ \A r \in Rows, x \in Cols : k.cells[r][x].ch = paper[r + 1][x]
        /\ k.row \in Rows /\ k.col \in Cols
        /\ k.cells \in [Rows -> [Cols -> Cells]]
    <2>1. k \in Screens /\ k.row < ROWS /\ Shows(k, paper)
      BY <1>1 DEF ConsoleInv
    <2>2. /\ paper \in Pages
          /\ \A r \in Rows, x \in Cols : k.cells[r][x].ch = paper[r + 1][x]
      BY <2>1 DEF Shows
    <2>3. k.col \in Cols /\ k.cells \in [Rows -> [Cols -> Cells]] /\ k.row \in 0 .. ROWS
      BY <2>1 DEF Screens
    <2>4. k.row \in Rows
      BY <2>1, <2>3, ScreenSizes
    <2> QED
      BY <2>1, <2>2, <2>3, <2>4
  <1>3. PICK here : here = k.row + 1
    OBVIOUS
  <1>4. /\ \A r \in Rows : r + 1 \in 1 .. ROWS /\ (r + 1 = here <=> r = k.row)
        /\ here \in 1 .. ROWS /\ k.row \in Nat /\ k.col \in 0 .. COLS - 1
    BY <1>2, <1>3, ScreenSizes
  <1>5. PICK p : p = OnPaper(c)
    OBVIOUS
  <1>6. PICK tabbed : tabbed = [paper EXCEPT ![here] =
                         [x \in Cols |-> IF x >= k.col /\ x < Tabulate(k).col THEN SPACE
                                         ELSE @[x]]]
    OBVIOUS
  <1>7. p = CASE c \in Glyphs -> [paper EXCEPT ![here][k.col] = c]
              [] c = BS /\ k.col > 0 -> [paper EXCEPT ![here][k.col - 1] = SPACE]
              [] c = BS /\ k.col = 0 /\ here > 1 -> [paper EXCEPT ![here - 1][COLS - 1] = SPACE]
              [] c = TAB -> tabbed
              [] OTHER -> paper
    BY <1>1, <1>3, <1>5, <1>6 DEF OnPaper
  <1>8. PICK f : f = Plain(k, c)
    OBVIOUS
  <1>9. CASE c \in Glyphs
    <2>1. c \notin {BS, TAB}
      BY <1>9, ConsoleAssumption
    <2>2. p = [paper EXCEPT ![here][k.col] = c]
      BY <1>7, <1>9, <2>1
    <2>3. f.cells = Stored(k.cells, k.row, k.col, vga_entry(c, k.attr))
      BY <1>2, <1>8, <1>9, PlainIs, TextPut, MovedCursor
    <2>4. \A r \in Rows, x \in Cols :
            f.cells[r][x].ch = IF r = k.row /\ x = k.col THEN c ELSE k.cells[r][x].ch
      BY <1>2, <2>3 DEF Stored, vga_entry
    <2>5. p \in Pages
      BY <1>2, <1>4, <1>9, <2>2 DEF Pages
    <2>6. \A r \in Rows, x \in Cols :
            p[r + 1][x] = IF r = k.row /\ x = k.col THEN c ELSE paper[r + 1][x]
      BY <1>2, <1>4, <2>2 DEF Pages
    <2> QED
      BY <1>1, <1>2, <1>5, <1>8, <2>4, <2>5, <2>6 DEF Shows
  <1>10. CASE c = BS
    <2>1. c \notin Glyphs /\ c # TAB
      BY <1>10, ConsoleAssumption, CharsDiffer
    <2>2. CASE k.row > 0 \/ k.col > 0
      <3>1. PICK r0, x0 : r0 = BackRow(k) /\ x0 = BackCol(k)
        OBVIOUS
      <3>2. /\ r0 \in Rows /\ x0 \in Cols /\ r0 + 1 \in 1 .. ROWS
            /\ \A r \in Rows : r + 1 = r0 + 1 <=> r = r0
        <4>1. r0 \in 0 .. ROWS - 1 /\ x0 \in 0 .. COLS - 1
          BY <1>2, <2>2, <3>1, BackCell
        <4> QED
          BY <4>1, ScreenSizes
      <3>3. f.cells = Stored(k.cells, r0, x0, BlankCell(k))
        BY <1>2, <1>8, <1>10, <2>2, <3>1, PlainIs, BackspaceMoves, MovedCursor
      <3>4. p = [paper EXCEPT ![r0 + 1][x0] = SPACE]
        <4>1. CASE k.col > 0
          <5>1. p = [paper EXCEPT ![here][k.col - 1] = SPACE]
            BY <1>4, <1>7, <1>10, <2>1, <4>1
          <5> QED
            BY <1>3, <3>1, <4>1, <5>1 DEF BackRow, BackCol
        <4>2. CASE ~(k.col > 0)
          <5>1. k.col = 0 /\ here > 1 /\ here - 1 = r0 + 1 /\ x0 = COLS - 1
            BY <1>3, <1>4, <2>2, <3>1, <4>2 DEF BackRow, BackCol
          <5>2. p = [paper EXCEPT ![here - 1][COLS - 1] = SPACE]
            BY <1>7, <1>10, <2>1, <4>2, <5>1
          <5> QED
            BY <5>1, <5>2
        <4> QED
          BY <4>1, <4>2
      <3>5. \A r \in Rows, x \in Cols :
              f.cells[r][x].ch = IF r = r0 /\ x = x0 THEN SPACE ELSE k.cells[r][x].ch
        BY <1>2, <3>3 DEF Stored, BlankCell, vga_entry
      <3>6. p \in Pages
        BY <1>2, <3>2, <3>4 DEF Pages
      <3>7. \A r \in Rows, x \in Cols :
              p[r + 1][x] = IF r = r0 /\ x = x0 THEN SPACE ELSE paper[r + 1][x]
        BY <1>2, <1>4, <3>2, <3>4 DEF Pages
      <3> QED
        BY <1>1, <1>2, <1>5, <1>8, <3>5, <3>6, <3>7 DEF Shows
    <2>3. CASE ~(k.row > 0 \/ k.col > 0)
      <3>1. f = k
        BY <1>8, <1>10, <2>3, PlainIs DEF Backspace
      <3>2. p = paper
        <4>1. ~(k.col > 0) /\ ~(here > 1)
          BY <1>3, <1>4, <2>3
        <4> QED
          BY <1>7, <1>10, <2>1, <4>1
      <3> QED
        BY <1>1, <1>2, <1>5, <1>8, <3>1, <3>2 DEF Shows
    <2> QED
      BY <2>2, <2>3
  <1>11. CASE c = TAB
    <2>1. c \notin Glyphs /\ c # BS
      BY <1>11, ConsoleAssumption, CharsDiffer
    <2>2. p = tabbed
      BY <1>7, <1>11, <2>1
    <2>3. f = Tabulate(k)
      BY <1>8, <1>11, PlainIs
    <2>4. PICK next \in Cols :
            next >= k.col /\ Moved(k, f, Blanked(k, next), k.row, next)
      BY <1>2, <2>3, TabMoves
    <2>5. f.cells = Blanked(k, next) /\ Tabulate(k).col = next
      BY <1>2, <2>3, <2>4, MovedCursor
    <2>6. p = [paper EXCEPT ![here] =
                 [x \in Cols |-> IF x >= k.col /\ x < next THEN SPACE ELSE @[x]]]
      BY <1>6, <2>2, <2>5
    <2>7. \A r \in Rows, x \in Cols :
            f.cells[r][x].ch = IF r = k.row /\ x >= k.col /\ x < next THEN SPACE
                               ELSE k.cells[r][x].ch
      BY <1>2, <2>5 DEF Blanked, BlankCell, vga_entry
    <2>8. p \in Pages
      BY <1>2, <1>4, <2>6 DEF Pages
    <2>9. \A r \in Rows, x \in Cols :
            p[r + 1][x] = IF r = k.row /\ x >= k.col /\ x < next THEN SPACE ELSE paper[r + 1][x]
      BY <1>2, <1>4, <2>6 DEF Pages
    <2> QED
      BY <1>1, <1>2, <1>5, <1>8, <2>7, <2>8, <2>9 DEF Shows
  <1>12. CASE c \in {NL, CR}
    <2>1. c \notin Glyphs \cup {BS, TAB}
      BY <1>12, ConsoleAssumption, CharsDiffer
    <2>2. p = paper
      BY <1>7, <2>1
    <2>3. f.cells = k.cells
      BY <1>8, <1>12, CharsDiffer DEF Plain, Screens
    <2> QED
      BY <1>1, <1>2, <1>5, <1>8, <2>2, <2>3 DEF Shows
  <1> QED
    BY <1>9, <1>10, <1>11, <1>12

LEMMA ConsoleStarts == ConsoleInit => ConsoleInv
  <1> SUFFICES ASSUME ConsoleInit PROVE ConsoleInv
    OBVIOUS
  <1>1. PICK raw, k, d : /\ raw = [cells |-> [r \in Rows |-> [c \in Cols |-> 0]],
                                   row |-> 0, col |-> 0, esc |-> "none", params |-> <<>>,
                                   fg |-> 7, bg |-> 0, bright |-> FALSE, attr |-> 0]
                         /\ k = vga_update_attr(raw) /\ d = vga_clear(k)
    OBVIOUS
  <1>2. con = d /\ paper = EmptyPaper
    BY <1>1 DEF ConsoleInit, vga_init
  <1>3. PICK a : a = [fg |-> 7, bg |-> 0] /\ a \in [fg : 0 .. 15, bg : 0 .. 7]
    <2>1. [fg |-> 7, bg |-> 0] \in [fg : 0 .. 15, bg : 0 .. 7]
      OBVIOUS
    <2> QED
      BY <2>1
  <1>4. PICK cells : cells = [r \in Rows |-> [c \in Cols |-> vga_entry(SPACE, a)]]
    OBVIOUS
  <1>5. cells \in [Rows -> [Cols -> Cells]] /\ \A r \in Rows, x \in Cols : cells[r][x].ch = SPACE
    <2>1. PICK e \in Cells : e = vga_entry(SPACE, a) /\ e.ch = SPACE
      <3>1. vga_entry(SPACE, a) \in Cells /\ vga_entry(SPACE, a).ch = SPACE
        BY <1>3 DEF Cells, vga_entry
      <3> QED
        BY <3>1
    <2> QED
      BY <1>4, <2>1
  <1>6. k = [cells |-> raw.cells, row |-> 0, col |-> 0, esc |-> "none", params |-> <<>>,
             fg |-> 7, bg |-> 0, bright |-> FALSE, attr |-> a]
    <2>1. k = [raw EXCEPT !.attr = a]
      BY <1>1, <1>3 DEF vga_update_attr
    <2> QED
      BY <1>1, <2>1
  <1>7. BlankCell(k) = vga_entry(SPACE, a)
    BY <1>6 DEF BlankCell
  <1>8. d = [cells |-> cells, row |-> 0, col |-> 0, esc |-> "none", params |-> <<>>,
             fg |-> 7, bg |-> 0, bright |-> FALSE, attr |-> a]
    <2>1. d = [k EXCEPT !.cells = cells, !.row = 0, !.col = 0, !.esc = "none"]
      BY <1>1, <1>4, <1>7 DEF vga_clear
    <2> QED
      BY <1>6, <2>1
  <1>9. <<>> \in Seq(Nat) /\ Len(<<>>) = 0 /\ 0 \in 0 .. ROWS /\ 0 \in Cols
    BY EmptySeq, ScreenSizes
  <1>10. d \in Screens
    <2>1. PICK fg, bg, bright, esc, row, col, params :
            /\ fg = 7 /\ bg = 0 /\ bright = FALSE /\ esc = "none" /\ row = 0 /\ col = 0
            /\ params = <<>>
      OBVIOUS
    <2>2. /\ fg \in 0 .. 7 /\ bg \in 0 .. 7 /\ row \in 0 .. ROWS /\ col \in Cols
          /\ esc \in {"none", "esc", "csi"}
      BY <1>9, <2>1
    <2>3. bright \in BOOLEAN /\ params \in Seq(Nat)
      BY <1>9, <2>1, Zenon
    <2>4. d = [cells |-> cells, row |-> row, col |-> col, esc |-> esc, params |-> params,
               fg |-> fg, bg |-> bg, bright |-> bright, attr |-> a]
      BY <1>8, <2>1
    <2> QED
      BY <1>3, <1>5, <2>2, <2>3, <2>4 DEF Screens
  <1>11. d.row = 0 /\ d.params = <<>> /\ d.cells = cells
    BY <1>8
  <1>12. Shows(d, EmptyPaper)
    BY <1>5, <1>11, EmptyPage DEF Shows
  <1> QED
    BY <1>2, <1>9, <1>10, <1>11, <1>12, ScreenSizes DEF ConsoleInv

\* The page of a screen that scrolls loses its first line and gets an empty one.
LEMMA PageScrolls ==
    ASSUME NEW d \in Screens, NEW page, Shows(d, page), NEW s, s = vga_scroll(d)
    PROVE  Shows(s, Append(Tail(page), EmptyLine))
  <1>1. page \in Seq([Cols -> Glyphs \cup {SPACE}]) /\ Len(page) = ROWS /\ page # <<>>
    BY ScreenSizes DEF Shows, Pages
  <1>2. PICK t : t = Tail(page)
    OBVIOUS
  <1>3. /\ t \in Seq([Cols -> Glyphs \cup {SPACE}]) /\ Len(t) = ROWS - 1
        /\ \A i \in 1 .. ROWS - 1 : t[i] = page[i + 1]
    BY <1>1, <1>2, HeadTailProperties
  <1>4. EmptyLine \in [Cols -> Glyphs \cup {SPACE}]
    BY DEF EmptyLine
  <1>5. PICK new : new = Append(t, EmptyLine)
    OBVIOUS
  <1>6. /\ new \in Seq([Cols -> Glyphs \cup {SPACE}]) /\ Len(new) = ROWS
        /\ \A i \in 1 .. ROWS - 1 : new[i] = page[i + 1]
        /\ new[ROWS] = EmptyLine
    BY <1>3, <1>4, <1>5, ScreenSizes, AppendProperties
  <1>7. new \in Pages
    BY <1>6, ScreenSizes, LenProperties, ElementOfSeq DEF Pages
  <1>8. s.cells = Raised(d)
    BY ScreenScrolls, MovedCursor
  <1>9. ASSUME NEW r \in Rows, NEW x \in Cols PROVE s.cells[r][x].ch = new[r + 1][x]
    <2>1. CASE r < ROWS - 1
      <3>1. r + 1 \in Rows /\ r + 1 \in 1 .. ROWS - 1
        BY <2>1, ScreenSizes
      <3>2. s.cells[r] = d.cells[r + 1] /\ new[r + 1] = page[r + 1 + 1]
        BY <1>6, <1>8, <2>1, <3>1 DEF Raised
      <3> QED
        BY <3>1, <3>2 DEF Shows
    <2>2. CASE ~(r < ROWS - 1)
      <3>1. r + 1 = ROWS
        BY <2>2, ScreenSizes
      <3>2. s.cells[r][x] = BlankCell(d) /\ new[r + 1][x] = SPACE
        BY <1>6, <1>8, <2>2, <3>1 DEF Raised, EmptyLine
      <3> QED
        BY <3>2 DEF BlankCell, vga_entry
    <2> QED
      BY <2>1, <2>2
  <1> QED
    BY <1>2, <1>5, <1>7, <1>9 DEF Shows

\* Every character keeps the invariant, and the sequences are silent.
SilentStep ==
  con.esc # "none" /\ con' # con =>
     \/ con'.cells = con.cells /\ con'.row = con.row /\ con'.col = con.col
     \/ con.esc = "csi" /\ con'.esc = "none" /\ con'.row = 0 /\ con'.col = 0

LEMMA PutKeeps ==
    ASSUME ConsoleInv, NEW c \in Offered, Put(c)
    PROVE  ConsoleInv' /\ SilentStep
  <1>1. PICK k : k = con
    OBVIOUS
  <1>2. PICK d : d = vga_put_char(k, c)
    OBVIOUS
  <1>3. con' = d /\ k \in Screens /\ k.row < ROWS /\ Len(k.params) <= PARAMS /\ Shows(k, paper)
    BY <1>1, <1>2 DEF Put, ConsoleInv
  <1>4. CASE k.esc # "none"
    <2>1. d = Sequence(k, c)
      BY <1>2, <1>4 DEF vga_put_char
    <2>2. /\ d \in Screens /\ d.row < ROWS /\ Len(d.params) <= PARAMS
          /\ IF k.esc = "csi" /\ c = "J"
             THEN /\ \A r \in Rows, x \in Cols : d.cells[r][x].ch = SPACE
                  /\ d.row = 0 /\ d.col = 0 /\ d.esc = "none"
             ELSE /\ d.cells = k.cells
                  /\ \/ d.row = k.row /\ d.col = k.col
                     \/ k.esc = "csi" /\ d.esc = "none" /\ d.row = 0 /\ d.col = 0
      BY <1>3, <1>4, <2>1, SequenceMoves
    <2>3. paper' = IF k.esc = "csi" /\ c = "J" THEN EmptyPaper ELSE paper
      BY <1>1, <1>4 DEF Put
    <2>4. Shows(d, paper')
      BY <1>3, <2>2, <2>3, EmptyPage DEF Shows
    <2>5. SilentStep
      BY <1>1, <1>3, <2>2 DEF SilentStep
    <2> QED
      BY <1>3, <2>2, <2>4, <2>5 DEF ConsoleInv, Shows
  <1>5. CASE k.esc = "none" /\ c = ESC
    <2>1. d = [k EXCEPT !.esc = "esc"]
      BY <1>2, <1>5 DEF vga_put_char
    <2>2. /\ d \in Screens /\ d.cells = k.cells /\ d.row = k.row /\ d.params = k.params
      BY <1>3, <2>1, EscSet
    <2>3. paper' = paper
      <3>1. ~Scrolls(k, c) /\ c \notin Glyphs \cup {BS, TAB}
        BY <1>5, ConsoleAssumption, CharsDiffer DEF Scrolls
      <3>2. OnPaper(c) = paper
        BY <3>1 DEF OnPaper
      <3> QED
        BY <1>1, <1>5, <3>1, <3>2 DEF Put
    <2> QED
      BY <1>1, <1>3, <1>5, <2>2, <2>3 DEF ConsoleInv, Shows, SilentStep
  <1>6. CASE k.esc = "none" /\ c # ESC
    <2>1. c \in Glyphs \cup {NL, CR, BS, TAB} /\ c \in Printed
      BY <1>1, <1>6 DEF Offered, Printed
    <2>2. PICK f : f = Plain(k, c)
      OBVIOUS
    <2>3. /\ f \in Screens /\ f.params = k.params
          /\ Shows(f, OnPaper(c))
      BY <1>1, <1>3, <2>1, <2>2, PlainMoves, MovedCursor, PaperFollows
    <2>4. CASE Scrolls(k, c)
      <3>1. d = vga_scroll(f) /\ paper' = Append(Tail(OnPaper(c)), EmptyLine)
        BY <1>1, <1>2, <1>6, <2>2, <2>4 DEF vga_put_char, Put
      <3>2. Shows(d, paper')
        BY <2>3, <3>1, PageScrolls
      <3>3. d \in Screens /\ d.row = ROWS - 1 /\ d.params = k.params
        BY <2>3, <3>1, ScreenScrolls, MovedCursor
      <3> QED
        BY <1>1, <1>3, <1>6, <3>2, <3>3, ScreenSizes DEF ConsoleInv, Shows, SilentStep
    <2>5. CASE ~Scrolls(k, c)
      <3>1. d = f /\ paper' = OnPaper(c)
        BY <1>1, <1>2, <1>6, <2>2, <2>5 DEF vga_put_char, Put
      <3>2. ~(f.row >= ROWS)
        BY <1>6, <2>2, <2>5 DEF Scrolls
      <3>3. f.row < ROWS
        BY <2>3, <3>2, ScreenSizes DEF Screens
      <3> QED
        BY <1>1, <1>3, <1>6, <2>3, <3>1, <3>3 DEF ConsoleInv, Shows, SilentStep
    <2> QED
      BY <2>4, <2>5
  <1> QED
    BY <1>4, <1>5, <1>6

LEMMA ConsoleInvCorrect == ConsoleInv => ConsoleTypeOK /\ ScreenIsPaper /\ EraseUndoes
  <1> SUFFICES ASSUME ConsoleInv PROVE ConsoleTypeOK /\ ScreenIsPaper /\ EraseUndoes
    OBVIOUS
  <1>1. ConsoleTypeOK
    BY ScreenSizes DEF ConsoleInv, Screens, ConsoleTypeOK
  <1>2. ScreenIsPaper
    BY DEF ConsoleInv, Shows, ScreenIsPaper
  <1>3. EraseUndoes
    BY EraseIsUndo DEF ConsoleInv, EraseUndoes
  <1> QED
    BY <1>1, <1>2, <1>3

(* The VGA console is correct: the screen shows the last lines of the      *)
(* output, "\b \b" takes back the last character, and escape sequences     *)
(* print nothing (vga_put_char).                                           *)
THEOREM ConsoleIsCorrect == ConsoleSpec => ConsoleCorrect
  <1>1. ConsoleInit => ConsoleInv
    BY ConsoleStarts
  <1>2. ConsoleInv /\ [ConsoleNext]_consoleVars => ConsoleInv' /\ [SilentStep]_consoleVars
    <2>1. ConsoleInv /\ ConsoleNext => ConsoleInv' /\ SilentStep
      BY PutKeeps DEF ConsoleNext
    <2>2. ConsoleInv /\ UNCHANGED consoleVars => ConsoleInv'
      BY DEF ConsoleInv, Shows, consoleVars
    <2> QED
      BY <2>1, <2>2
  <1>3. ConsoleInv => ConsoleTypeOK /\ ScreenIsPaper /\ EraseUndoes
    BY ConsoleInvCorrect
  <1> QED
    BY <1>1, <1>2, <1>3, PTL DEF ConsoleSpec, ConsoleCorrect, SequencesAreSilent, SilentStep

-----------------------------------------------------------------------------
(* The digits of a number.                                                 *)

\* What a number is put out as: its digits, most significant first.
Spells(f, base, m) ==
  f[m] = IF m < base THEN <<Digit(m)>> ELSE Append(f[m \div base], Digit(m % base))

LEMMA QuotientLess ==
    ASSUME NEW m \in Nat, NEW base \in Nat, base > 1
    PROVE  /\ m % base \in 0 .. base - 1 /\ m \div base \in Nat
           /\ m = base * (m \div base) + (m % base)
           /\ m >= base => m \div base < m
  <1>1. PICK q, r : q = m \div base /\ r = m % base
    OBVIOUS
  <1>2. q \in Int /\ r \in 0 .. base - 1 /\ m = base * q + r
    BY <1>1, DivMod
  <1>3. q >= 0
    <2>1. CASE q < 0
      <3>1. base * q <= base * (-1)
        BY <1>2, <2>1
      <3> QED
        BY <1>2, <3>1
    <2> QED
      BY <1>2, <2>1
  <1>4. m >= base => q < m
    <2>1. SUFFICES ASSUME m >= base, q >= m PROVE FALSE
      BY <1>2
    <2>2. base * q >= 2 * q
      BY <1>2, <1>3
    <2> QED
      BY <1>2, <2>1, <2>2
  <1> QED
    BY <1>1, <1>2, <1>3, <1>4

\* A function that spells every number up to a bound.
LEMMA SpellingExists ==
    ASSUME NEW N \in Nat, NEW base \in Nat, base > 1
    PROVE  \E f : DOMAIN f = 0 .. N /\ \A m \in 0 .. N : Spells(f, base, m)
  <1> DEFINE Good(f, k) == DOMAIN f = 0 .. k /\ \A m \in 0 .. k : Spells(f, base, m)
             T == {k \in 0 .. N : \E f : Good(f, k)}
  <1>1. 0 \in T
    <2>1. PICK f : f = [m \in 0 .. 0 |-> <<Digit(0)>>]
      OBVIOUS
    <2>2. Good(f, 0)
      BY <2>1 DEF Spells
    <2>3. 0 \in 0 .. N
      OBVIOUS
    <2> HIDE DEF Good
    <2> QED
      BY <2>2, <2>3
  <1>2. ASSUME NEW k \in 1 .. N, k - 1 \in T PROVE k \in T
    <2>1. PICK f : Good(f, k - 1)
      BY <1>2
    <2>2. PICK last : last = IF k < base THEN <<Digit(k)>>
                             ELSE Append(f[k \div base], Digit(k % base))
      OBVIOUS
    <2>3. PICK g : g = [m \in 0 .. k |-> IF m = k THEN last ELSE f[m]]
      OBVIOUS
    <2>4. \A m \in 0 .. k : m # k => m \in 0 .. k - 1
      OBVIOUS
    <2>5. \A m \in 0 .. k : m >= base => m \div base \in 0 .. k /\ m \div base # k
                                         /\ (m # k => m \div base \in 0 .. k - 1)
      <3> SUFFICES ASSUME NEW m \in 0 .. k, m >= base
                   PROVE  m \div base \in 0 .. k - 1
        OBVIOUS
      <3>1. m \div base \in Nat /\ m \div base < m
        BY QuotientLess
      <3> QED
        BY <3>1
    <2>6. ASSUME NEW m \in 0 .. k PROVE Spells(g, base, m)
      <3>1. CASE m < base
        BY <2>1, <2>2, <2>3, <2>4, <3>1 DEF Spells
      <3>2. CASE ~(m < base)
        <4>1. m >= base
          BY <3>2
        <4>2. g[m \div base] = f[m \div base]
          BY <2>3, <2>5, <4>1
        <4> QED
          BY <2>1, <2>2, <2>3, <2>4, <3>2, <4>2 DEF Spells
      <3> QED
        BY <3>1, <3>2
    <2>7. Good(g, k)
      BY <2>3, <2>6
    <2>8. k \in 0 .. N
      OBVIOUS
    <2> HIDE DEF Good
    <2> QED
      BY <2>7, <2>8
  <1>3. N \in T
    <2>1. N \in 0 .. N
      OBVIOUS
    <2> HIDE DEF T
    <2> QED
      BY <1>1, <1>2, <2>1, CountUp
  <1> QED
    BY <1>3

\* What DigitsOf is, one digit after the other.
LEMMA DigitsAre ==
    ASSUME NEW base \in Nat, base > 1, NEW v \in 0 .. VALUE_MAX
    PROVE  DigitsOf(v, base) = IF v < base THEN <<Digit(v)>>
                               ELSE Append(DigitsOf(v \div base, base), Digit(v % base))
  <1> DEFINE Eq(h) == h = [k \in 0 .. VALUE_MAX |->
                             IF k < base THEN <<Digit(k)>>
                             ELSE Append(h[k \div base], Digit(k % base))]
             f == CHOOSE h : Eq(h)
  <1>1. VALUE_MAX \in Nat
    BY FormatAssumption
  <1>2. \A m : DigitsOf(m, base) = f[m]
    BY DEF DigitsOf
  <1>3. PICK g : DOMAIN g = 0 .. VALUE_MAX /\ \A m \in 0 .. VALUE_MAX : Spells(g, base, m)
    BY <1>1, SpellingExists
  <1>4. \E h : Eq(h)
    <2>1. PICK h : h = [m \in 0 .. VALUE_MAX |-> g[m]]
      OBVIOUS
    <2>2. \A m \in 0 .. VALUE_MAX : m >= base => m \div base \in 0 .. VALUE_MAX
      <3> SUFFICES ASSUME NEW m \in 0 .. VALUE_MAX, m >= base
                   PROVE  m \div base \in 0 .. VALUE_MAX
        OBVIOUS
      <3>1. m \div base \in Nat /\ m \div base < m
        BY <1>1, QuotientLess
      <3> QED
        BY <1>1, <3>1
    <2>3. ASSUME NEW m \in 0 .. VALUE_MAX
          PROVE  h[m] = IF m < base THEN <<Digit(m)>>
                        ELSE Append(h[m \div base], Digit(m % base))
      <3>1. CASE m < base
        BY <1>3, <2>1, <3>1 DEF Spells
      <3>2. CASE ~(m < base)
        <4>1. m \div base \in 0 .. VALUE_MAX
          BY <1>1, <2>2, <3>2
        <4> QED
          BY <1>3, <2>1, <3>2, <4>1 DEF Spells
      <3> QED
        BY <3>1, <3>2
    <2>4. Eq(h)
      BY <2>1, <2>3
    <2> HIDE DEF Eq
    <2> QED
      BY <2>4
  <1>5. Eq(f)
    <2> HIDE DEF Eq
    <2> QED
      BY <1>4
  <1> HIDE DEF f
  <1> QED
    BY <1>2, <1>5

\* A property of digits that a digit more keeps holds for every number.
LEMMA EveryNumber ==
    ASSUME NEW base \in Nat, base > 1, NEW N \in Nat, NEW T,
           \A v \in 0 .. N : v < base \/ v \div base \in T => v \in T
    PROVE  \A v \in 0 .. N : v \in T
  <1> DEFINE U == {n \in 0 .. N : \A v \in 0 .. n : v \in T}
  <1>1. 0 \in U
    BY DEF U
  <1>2. ASSUME NEW n \in 1 .. N, n - 1 \in U PROVE n \in U
    <2>1. n \in T
      <3>1. CASE n < base
        BY <3>1
      <3>2. CASE ~(n < base)
        <4>1. n \div base \in Nat /\ n \div base < n
          BY <3>2, QuotientLess
        <4>2. n \div base \in 0 .. n - 1
          BY <4>1
        <4> QED
          BY <1>2, <4>2
      <3> QED
        BY <3>1, <3>2
    <2>2. \A v \in 0 .. n : v = n \/ v \in 0 .. n - 1
      OBVIOUS
    <2> QED
      BY <1>2, <2>1, <2>2
  <1>3. N \in U
    <2>1. N \in 0 .. N
      OBVIOUS
    <2> HIDE DEF U
    <2> QED
      BY <1>1, <1>2, <2>1, CountUp
  <1> QED
    BY <1>3

LEMMA DigitsType ==
    ASSUME NEW base \in Nat, base > 1, NEW v \in 0 .. VALUE_MAX
    PROVE  /\ DigitsOf(v, base) \in Seq({Digit(d) : d \in 0 .. base - 1})
           /\ Len(DigitsOf(v, base)) > 0
  <1> DEFINE D == {Digit(d) : d \in 0 .. base - 1}
             T == {m \in 0 .. VALUE_MAX :
                     DigitsOf(m, base) \in Seq(D) /\ Len(DigitsOf(m, base)) > 0}
  <1>1. VALUE_MAX \in Nat
    BY FormatAssumption
  <1>2. ASSUME NEW m \in 0 .. VALUE_MAX, m < base \/ m \div base \in T PROVE m \in T
    <2>1. PICK s : s = DigitsOf(m, base)
      OBVIOUS
    <2>2. s \in Seq(D) /\ Len(s) > 0
      <3>1. CASE m < base
        <4>1. s = <<Digit(m)>>
          BY <2>1, <3>1, DigitsAre
        <4>2. m \in 0 .. base - 1
          BY <3>1
        <4>3. PICK d \in D : d = Digit(m)
          BY <4>2
        <4> HIDE DEF D
        <4> QED
          BY <4>1, <4>3
      <3>2. CASE ~(m < base)
        <4>1. PICK t : t = DigitsOf(m \div base, base)
          OBVIOUS
        <4>2. t \in Seq(D)
          BY <1>2, <3>2, <4>1
        <4>3. m % base \in 0 .. base - 1
          BY DivMod
        <4>4. PICK d \in D : d = Digit(m % base)
          BY <4>3
        <4>5. s = Append(t, d)
          BY <2>1, <3>2, <4>1, <4>4, DigitsAre
        <4> HIDE DEF D
        <4> QED
          BY <4>2, <4>5, AppendProperties, LenProperties
      <3> QED
        BY <3>1, <3>2
    <2> QED
      BY <2>1, <2>2
  <1>3. \A m \in 0 .. VALUE_MAX : m \in T
    <2> HIDE DEF T
    <2> QED
      BY <1>1, <1>2, EveryNumber
  <1> QED
    BY <1>3

\* The digits of a number, read one by one, make the number.
Reads(s, w, v) ==
  /\ w \in [0 .. Len(s) -> Nat] /\ w[0] = 0 /\ w[Len(s)] = v
  /\ \A i \in 1 .. Len(s) : \E d \in 0 .. 9 : s[i] = Digit(d) /\ w[i] = w[i - 1] * 10 + d

\* One digit more.
LEMMA ReadsMore ==
    ASSUME NEW C, NEW s \in Seq(C), NEW w, NEW v, Reads(s, w, v), NEW d \in 0 .. 9,
           Digit(d) \in C, v \in Nat
    PROVE  \E x : Reads(Append(s, Digit(d)), x, v * 10 + d)
  <1>1. PICK n \in Nat : n = Len(s)
    BY LenProperties
  <1>2. PICK t : t = Append(s, Digit(d))
    OBVIOUS
  <1>3. Len(t) = n + 1 /\ t[n + 1] = Digit(d) /\ \A i \in 1 .. n : t[i] = s[i]
    BY <1>1, <1>2, AppendProperties
  <1>4. PICK x : x = [i \in 0 .. n + 1 |-> IF i = n + 1 THEN v * 10 + d ELSE w[i]]
    OBVIOUS
  <1>5. /\ w \in [0 .. n -> Nat] /\ w[0] = 0 /\ w[n] = v
        /\ \A i \in 1 .. n : \E e \in 0 .. 9 : s[i] = Digit(e) /\ w[i] = w[i - 1] * 10 + e
    BY <1>1 DEF Reads
  <1>6. /\ 0 \in 0 .. n + 1 /\ 0 # n + 1 /\ n \in 0 .. n + 1 /\ n # n + 1 /\ n + 1 \in 0 .. n + 1
        /\ \A i \in 0 .. n + 1 : i # n + 1 => i \in 0 .. n
        /\ \A i \in 1 .. n : i \in 0 .. n + 1 /\ i # n + 1 /\ i - 1 \in 0 .. n + 1 /\ i - 1 # n + 1
        /\ \A i \in 1 .. n + 1 : i # n + 1 => i \in 1 .. n
        /\ n + 1 - 1 = n /\ v * 10 + d \in Nat
    OBVIOUS
  <1>7. x \in [0 .. n + 1 -> Nat] /\ x[0] = 0 /\ x[n + 1] = v * 10 + d /\ x[n] = v
    BY <1>4, <1>5, <1>6
  <1>8. ASSUME NEW i \in 1 .. n + 1
        PROVE  \E e \in 0 .. 9 : t[i] = Digit(e) /\ x[i] = x[i - 1] * 10 + e
    <2>1. CASE i = n + 1
      <3>1. t[i] = Digit(d) /\ i - 1 = n
        BY <1>3, <1>6, <2>1
      <3>2. x[i] = x[i - 1] * 10 + d
        BY <1>7, <2>1, <3>1
      <3> QED
        BY <3>1, <3>2
    <2>2. CASE i # n + 1
      <3>1. i \in 1 .. n
        BY <1>6, <2>2
      <3>2. PICK e \in 0 .. 9 : s[i] = Digit(e) /\ w[i] = w[i - 1] * 10 + e
        BY <1>5, <3>1
      <3>3. x[i] = w[i] /\ x[i - 1] = w[i - 1] /\ t[i] = s[i]
        BY <1>3, <1>4, <1>6, <3>1
      <3> QED
        BY <3>2, <3>3
    <2> QED
      BY <2>1, <2>2
  <1>9. Reads(t, x, v * 10 + d)
    BY <1>3, <1>7, <1>8 DEF Reads
  <1> QED
    BY <1>2, <1>9

LEMMA DigitsRead ==
    ASSUME NEW v \in 0 .. VALUE_MAX
    PROVE  \E w : Reads(DigitsOf(v, 10), w, v)
  <1>0. PICK base : base = 10
    OBVIOUS
  <1>a. base \in Nat /\ base > 1
    BY <1>0
  <1> DEFINE T == {m \in 0 .. VALUE_MAX : \E w : Reads(DigitsOf(m, base), w, m)}
  <1>1. VALUE_MAX \in Nat
    BY FormatAssumption
  <1>2. ASSUME NEW m \in 0 .. VALUE_MAX, m < base \/ m \div base \in T PROVE m \in T
    <2>1. PICK s : s = DigitsOf(m, base)
      OBVIOUS
    <2>2. \E w : Reads(s, w, m)
      <3>1. CASE m < base
        <4>1. s = <<Digit(m)>>
          BY <1>a, <2>1, <3>1, DigitsAre
        <4>2. Len(s) = 1 /\ s[1] = Digit(m) /\ m \in 0 .. 9
          BY <1>0, <3>1, <4>1
        <4>3. PICK w : w = [i \in 0 .. 1 |-> IF i = 0 THEN 0 ELSE m]
          OBVIOUS
        <4>4. w \in [0 .. 1 -> Nat] /\ w[0] = 0 /\ w[1] = m
          BY <4>3
        <4>5. ASSUME NEW i \in 1 .. 1
              PROVE  \E d \in 0 .. 9 : s[i] = Digit(d) /\ w[i] = w[i - 1] * 10 + d
          <5>1. i = 1 /\ i - 1 = 0 /\ m = 0 * 10 + m
            OBVIOUS
          <5> QED
            BY <4>2, <4>4, <5>1
        <4>6. Reads(s, w, m)
          BY <4>2, <4>4, <4>5 DEF Reads
        <4> QED
          BY <4>6
      <3>2. CASE ~(m < base)
        <4>1. PICK q, t : q = m \div base /\ t = DigitsOf(q, base)
          OBVIOUS
        <4>2. q \in T
          BY <1>2, <3>2, <4>1
        <4>3. PICK w : Reads(t, w, q)
          BY <4>1, <4>2
        <4>4. m % base \in 0 .. 9 /\ q \in 0 .. VALUE_MAX /\ m = q * 10 + (m % base)
          <5>1. PICK r : r = m % base
            OBVIOUS
          <5>2. r \in 0 .. base - 1 /\ m = base * q + r
            BY <1>a, <4>1, <5>1, QuotientLess
          <5>3. q \in 0 .. VALUE_MAX
            BY <4>2
          <5> QED
            BY <1>0, <1>1, <5>1, <5>2, <5>3
        <4>5. t \in Seq({Digit(d) : d \in 0 .. 9})
          <5>1. t \in Seq({Digit(d) : d \in 0 .. base - 1})
            BY <1>a, <4>1, <4>4, DigitsType
          <5>2. base - 1 = 9
            BY <1>0
          <5> QED
            BY <5>1, <5>2
        <4>6. s = Append(t, Digit(m % base))
          BY <1>a, <2>1, <3>2, <4>1, DigitsAre
        <4>7. Digit(m % base) \in {Digit(d) : d \in 0 .. 9} /\ q \in Nat
          BY <1>1, <4>4
        <4>8. \E x : Reads(s, x, q * 10 + (m % base))
          BY <4>3, <4>4, <4>5, <4>6, <4>7, ReadsMore
        <4> QED
          BY <4>4, <4>8
      <3> QED
        BY <3>1, <3>2
    <2> QED
      BY <2>1, <2>2
  <1>3. \A m \in 0 .. VALUE_MAX : m \in T
    <2> HIDE DEF T
    <2> QED
      BY <1>1, <1>2, <1>a, EveryNumber
  <1> QED
    BY <1>0, <1>3

-----------------------------------------------------------------------------
(* Reading a number.                                                       *)

LEMMA DecimalDigits ==
    ASSUME NEW d \in 0 .. 9
    PROVE  /\ Digit(d) \in Decimal /\ DecimalValue(Digit(d)) = d
           /\ Digit(d) \notin White \cup {"-", "+"}
  <1>1. \A e \in 0 .. 9 : e \in {0, 1, 2, 3, 4, 5, 6, 7, 8, 9}
    OBVIOUS
  <1>2. \A e \in 0 .. 9 : Digit(e) = Digit(d) => e = d
    BY <1>1 DEF Digit
  <1>3. /\ Digit(0) = "0" /\ Digit(1) = "1" /\ Digit(2) = "2" /\ Digit(3) = "3"
        /\ Digit(4) = "4" /\ Digit(5) = "5" /\ Digit(6) = "6" /\ Digit(7) = "7"
        /\ Digit(8) = "8" /\ Digit(9) = "9"
    BY DEF Digit
  <1>4. Digit(d) \in {"0", "1", "2", "3", "4", "5", "6", "7", "8", "9"}
    BY <1>1, <1>3
  <1>5. Digit(d) \notin White \cup {"-", "+"}
    BY <1>4 DEF White
  <1> QED
    BY <1>2, <1>5 DEF Decimal, DecimalValue

LEMMA ZeroDigit == Digit(0) = "0"
  BY DEF Digit

LEMMA SkipFromIs ==
    ASSUME NEW text, Len(text) \in Nat, NEW S, NEW k \in Nat,
           NEW n \in k .. Len(text) + 1, \A i \in k .. n - 1 : text[i] \in S,
           n = Len(text) + 1 \/ text[n] \notin S
    PROVE  SkipFrom(text, k, S) = n
  <1> DEFINE I == {i \in k .. Len(text) + 1 : i > Len(text) \/ text[i] \notin S}
  <1>1. PICK L \in Nat : L = Len(text)
    OBVIOUS
  <1>2. n \in I
    BY <1>1
  <1>3. \A i \in I : n <= i
    <2> SUFFICES ASSUME NEW i \in I, ~(n <= i) PROVE FALSE
      OBVIOUS
    <2>1. i \in k .. n - 1 /\ i <= Len(text)
      BY <1>1
    <2> QED
      BY <1>1, <2>1
  <1>4. I \subseteq Nat
    BY <1>1
  <1>5. SkipFrom(text, k, S) = Min(I)
    BY DEF SkipFrom
  <1> HIDE DEF I
  <1>6. \A x \in I : (\A y \in I : x <= y) => x = n
    BY <1>2, <1>3, <1>4
  <1> QED
    BY <1>2, <1>3, <1>5, <1>6 DEF Min

\* What the first digits make, for each number of digits.
Sums(text, start, n, w) ==
  /\ w \in [0 .. n -> Nat] /\ w[0] = 0
  /\ \A i \in 1 .. n : w[i] = w[i - 1] * 10 + DecimalValue(text[start + i - 1])

LEMMA NumberAtIs ==
    ASSUME NEW text, NEW start, NEW n \in Nat, NEW w, Sums(text, start, n, w)
    PROVE  NumberAt(text, start, n) = w[n]
  <1> DEFINE Value(i) == DecimalValue(text[start + i - 1])
             Eq(h) == h = [i \in 0 .. n |-> IF i = 0 THEN 0 ELSE h[i - 1] * 10 + Value(i)]
             sum == CHOOSE h : Eq(h)
  <1>1. NumberAt(text, start, n) = sum[n]
    BY DEF NumberAt
  <1>2. w \in [0 .. n -> Nat] /\ w[0] = 0 /\ \A i \in 1 .. n : w[i] = w[i - 1] * 10 + Value(i)
    BY DEF Sums
  <1> HIDE DEF Value
  <1>3. \A i \in 0 .. n : i # 0 => i \in 1 .. n
    OBVIOUS
  <1>4. w = [i \in 0 .. n |-> IF i = 0 THEN 0 ELSE w[i - 1] * 10 + Value(i)]
    BY <1>2, <1>3
  <1>5. Eq(w)
    BY <1>4
  <1>6. Eq(sum)
    <2> HIDE DEF Eq
    <2> QED
      BY <1>5
  <1> HIDE DEF sum
  <1>7. sum[0] = 0 /\ \A i \in 1 .. n : sum[i] = sum[i - 1] * 10 + Value(i)
    <2>1. 0 \in 0 .. n /\ \A i \in 1 .. n : i \in 0 .. n /\ i # 0
      OBVIOUS
    <2> QED
      BY <1>6, <2>1
  <1> DEFINE T == {i \in 0 .. n : sum[i] = w[i]}
  <1>8. 0 \in T
    BY <1>2, <1>7
  <1>9. ASSUME NEW i \in 1 .. n, i - 1 \in T PROVE i \in T
    BY <1>2, <1>7, <1>9
  <1>10. n \in T
    <2>1. n \in 0 .. n
      OBVIOUS
    <2> HIDE DEF T
    <2> QED
      BY <1>8, <1>9, <2>1, CountUp
  <1> QED
    BY <1>1, <1>10

\* Zeros before the digits of a number do not change it.
Padded(text, start, z, s, d) ==
  /\ \A i \in 1 .. z : text[start + i - 1] = "0"
  /\ \A i \in 1 .. d : text[start + z + i - 1] = s[i]

LEMMA PaddedNumber ==
    ASSUME NEW text, NEW start \in Nat, NEW z \in Nat, NEW s, NEW d \in Nat, d = Len(s),
           NEW w, NEW v, Reads(s, w, v), Padded(text, start, z, s, d)
    PROVE  NumberAt(text, start, z + d) = v
  <1>1. PICK x : x = [i \in 0 .. z + d |-> IF i <= z THEN 0 ELSE w[i - z]]
    OBVIOUS
  <1>2. /\ w \in [0 .. d -> Nat] /\ w[0] = 0 /\ w[d] = v
        /\ \A i \in 1 .. d : \E e \in 0 .. 9 : s[i] = Digit(e) /\ w[i] = w[i - 1] * 10 + e
    BY DEF Reads
  <1>b. /\ \A i \in 1 .. z : text[start + i - 1] = "0"
        /\ \A i \in 1 .. d : text[start + z + i - 1] = s[i]
    BY DEF Padded
  <1>3. /\ 0 \in 0 .. z + d /\ 0 <= z /\ z + d \in 0 .. z + d /\ z + d \in Nat
        /\ \A i \in 0 .. z + d : ~(i <= z) => i - z \in 1 .. d /\ i - z \in 0 .. d
        /\ \A i \in 1 .. z + d : i \in 0 .. z + d /\ i - 1 \in 0 .. z + d
    OBVIOUS
  <1>4. x \in [0 .. z + d -> Nat] /\ x[0] = 0
    BY <1>1, <1>2, <1>3
  <1>5. x[z + d] = v
    <2>1. CASE d = 0
      BY <1>1, <1>2, <1>3, <2>1
    <2>2. CASE d # 0
      <3>1. ~(z + d <= z) /\ z + d - z = d
        BY <2>2
      <3> QED
        BY <1>1, <1>2, <1>3, <3>1
    <2> QED
      BY <2>1, <2>2
  <1>6. ASSUME NEW i \in 1 .. z + d
        PROVE  x[i] = x[i - 1] * 10 + DecimalValue(text[start + i - 1])
    <2>1. CASE i <= z
      <3>1. i \in 1 .. z /\ i - 1 <= z
        BY <2>1
      <3>2. x[i] = 0 /\ x[i - 1] = 0 /\ text[start + i - 1] = Digit(0)
        BY <1>1, <1>3, <1>b, <2>1, <3>1, ZeroDigit
      <3>3. DecimalValue(Digit(0)) = 0
        <4>1. PICK nil \in 0 .. 9 : nil = 0
          OBVIOUS
        <4>2. DecimalValue(Digit(nil)) = nil
          BY DecimalDigits
        <4> QED
          BY <4>1, <4>2
      <3> QED
        BY <3>2, <3>3
    <2>2. CASE ~(i <= z)
      <3>1. PICK j \in 1 .. d : j = i - z
        BY <1>3, <2>2
      <3>2. /\ start + z + j - 1 = start + i - 1 /\ j \in 0 .. d
            /\ (i - 1 <= z => j - 1 = 0) /\ i - 1 - z = j - 1
        BY <2>2, <3>1
      <3>3. text[start + i - 1] = s[j]
        BY <1>b, <3>2
      <3>4. PICK e \in 0 .. 9 : s[j] = Digit(e) /\ w[j] = w[j - 1] * 10 + e
        BY <1>2
      <3>5. x[i] = w[j] /\ x[i - 1] = w[j - 1]
        BY <1>1, <1>2, <1>3, <2>2, <3>1, <3>2
      <3> QED
        BY <3>3, <3>4, <3>5, DecimalDigits
    <2> QED
      BY <2>1, <2>2
  <1> QED
    <2>1. PICK n \in Nat : n = z + d
      BY <1>3
    <2>2. \A i \in 1 .. n : x[i] = x[i - 1] * 10 + DecimalValue(text[start + i - 1])
      BY <1>6, <2>1
    <2>3. x \in [0 .. n -> Nat] /\ x[0] = 0 /\ x[n] = v
      BY <1>4, <1>5, <2>1
    <2>4. Sums(text, start, n, x)
      BY <2>2, <2>3 DEF Sums
    <2> QED
      BY <2>1, <2>3, <2>4, NumberAtIs

\* Where the sign or the digits of a number begin, after spaces, and where its digits begin.
Numeral(text, first, start) ==
  /\ Len(text) \in Nat /\ first \in 1 .. Len(text) /\ start \in {first, first + 1}
  /\ \A i \in 1 .. first - 1 : text[i] = " "
  /\ text[first] \notin White
  /\ text[first] \in {"-", "+"} <=> start = first + 1
  /\ \A i \in start .. Len(text) : text[i] \in Decimal

LEMMA AtoiIs ==
    ASSUME NEW text, NEW first, NEW start, Numeral(text, first, start)
    PROVE  atoi(text) = IF text[first] = "-" THEN -NumberAt(text, start, Len(text) + 1 - start)
                        ELSE NumberAt(text, start, Len(text) + 1 - start)
  <1>0. PICK L : L = Len(text)
    OBVIOUS
  <1>1. /\ L \in Nat /\ first \in 1 .. L /\ start \in {first, first + 1}
        /\ \A i \in 1 .. first - 1 : text[i] = " "
        /\ text[first] \notin White
        /\ text[first] \in {"-", "+"} <=> start = first + 1
        /\ \A i \in start .. L : text[i] \in Decimal
    BY <1>0 DEF Numeral
  <1>a. L \in Nat /\ first \in 1 .. L /\ start \in {first, first + 1}
    BY <1>1
  <1>2. SkipFrom(text, 1, White) = first
    <2>1. PICK k \in Nat : k = 1
      OBVIOUS
    <2>2. first \in k .. L + 1
      BY <1>a, <2>1
    <2>3. \A i \in k .. first - 1 : text[i] \in White
      BY <1>1, <2>1 DEF White
    <2>4. SkipFrom(text, k, White) = first
      BY <1>0, <1>1, <2>2, <2>3, SkipFromIs
    <2> QED
      BY <2>1, <2>4
  <1>3. SkipFrom(text, start, Decimal) = L + 1
    <2>1. PICK n : n = L + 1
      OBVIOUS
    <2>2. start \in Nat /\ n \in start .. L + 1 /\ n - 1 = L
      BY <1>a, <2>1
    <2>3. \A i \in start .. n - 1 : text[i] \in Decimal
      BY <1>1, <2>2
    <2>4. SkipFrom(text, start, Decimal) = n
      BY <1>0, <1>1, <2>1, <2>2, <2>3, SkipFromIs
    <2> QED
      BY <2>1, <2>4
  <1>4. first <= L /\ first + 1 # first
    BY <1>a
  <1>5. start = IF text[first] \in {"-", "+"} THEN first + 1 ELSE first
    BY <1>1, <1>4
  <1> QED
    BY <1>0, <1>2, <1>3, <1>4, <1>5 DEF atoi

-----------------------------------------------------------------------------
(* A number that is put out is read back.                                  *)

\* b spaces, a minus sign if n = 1, z zeros and the digits s.
Laid(text, b, n, z, s) ==
  /\ Len(text) = b + n + z + Len(s)
  /\ \A i \in 1 .. b : text[i] = " "
  /\ n = 1 => text[b + 1] = "-"
  /\ \A i \in 1 .. z : text[b + n + i] = "0"
  /\ \A i \in 1 .. Len(s) : text[b + n + z + i] = s[i]

LEMMA LaidReads ==
    ASSUME NEW text, NEW b \in Nat, NEW n \in {0, 1}, NEW z \in Nat,
           NEW v \in 0 .. VALUE_MAX, Laid(text, b, n, z, DigitsOf(v, 10))
    PROVE  atoi(text) = IF n = 1 THEN -v ELSE v
  <1>1. PICK s : s = DigitsOf(v, 10)
    OBVIOUS
  <1>2. s \in Seq({Digit(d) : d \in 0 .. 9}) /\ Len(s) > 0
    <2>1. PICK base : base = 10
      OBVIOUS
    <2>2. base \in Nat /\ base > 1 /\ base - 1 = 9
      BY <2>1
    <2>3. DigitsOf(v, base) \in Seq({Digit(d) : d \in 0 .. base - 1}) /\ Len(DigitsOf(v, base)) > 0
      BY <2>2, DigitsType
    <2> QED
      BY <1>1, <2>1, <2>2, <2>3
  <1>3. PICK k \in Nat : k = Len(s)
    BY <1>2
  <1>4. PICK first, start : first = b + 1 /\ start = b + n + 1
    OBVIOUS
  <1>5. /\ Len(text) = b + n + z + k
        /\ \A i \in 1 .. b : text[i] = " "
        /\ n = 1 => text[first] = "-"
        /\ \A i \in 1 .. z : text[b + n + i] = "0"
        /\ \A i \in 1 .. k : text[b + n + z + i] = s[i]
    <2>1. Laid(text, b, n, z, s)
      BY <1>1
    <2> QED
      BY <1>3, <1>4, <2>1 DEF Laid
  <1>a. Len(text) = b + n + z + k
    BY <1>5
  <1>6. \A i \in 1 .. k : s[i] \in Decimal /\ s[i] \notin White \cup {"-", "+"}
    <2> SUFFICES ASSUME NEW i \in 1 .. k
                 PROVE  s[i] \in Decimal /\ s[i] \notin White \cup {"-", "+"}
      OBVIOUS
    <2>1. s[i] \in {Digit(d) : d \in 0 .. 9}
      BY <1>2, <1>3, ElementOfSeq
    <2>2. PICK d \in 0 .. 9 : s[i] = Digit(d)
      BY <2>1
    <2> QED
      BY <2>2, DecimalDigits
  <1>7. k > 0
    BY <1>2, <1>3
  <1>8. "0" \in Decimal /\ "0" \notin White \cup {"-", "+"}
    <2>1. PICK nil \in 0 .. 9 : nil = 0
      OBVIOUS
    <2>2. Digit(nil) = "0"
      BY <2>1, ZeroDigit
    <2> QED
      BY <2>2, DecimalDigits
  <1>9. \A i \in start .. Len(text) : text[i] \in Decimal /\ text[i] \notin White \cup {"-", "+"}
    <2> SUFFICES ASSUME NEW i \in start .. Len(text)
                 PROVE  text[i] \in Decimal /\ text[i] \notin White \cup {"-", "+"}
      OBVIOUS
    <2>1. PICK j \in 1 .. z + k : i = b + n + j
      <3>1. i - b - n \in 1 .. z + k /\ i = b + n + (i - b - n)
        BY <1>4, <1>a
      <3> QED
        BY <3>1
    <2>2. CASE j <= z
      <3>1. j \in 1 .. z
        BY <2>2
      <3> QED
        BY <1>5, <1>8, <2>1, <3>1
    <2>3. CASE ~(j <= z)
      <3>1. PICK m \in 1 .. k : i = b + n + z + m
        <4>1. j - z \in 1 .. k /\ i = b + n + z + (j - z)
          BY <2>1, <2>3
        <4> QED
          BY <4>1
      <3> QED
        BY <1>5, <1>6, <3>1
    <2> QED
      BY <2>2, <2>3
  <1>10. /\ Len(text) \in Nat /\ first \in 1 .. Len(text) /\ start \in {first, first + 1}
         /\ start \in Nat /\ first - 1 = b /\ Len(text) + 1 - start = z + k
         /\ (n = 0 => start = first) /\ (n = 1 => start = first + 1 /\ start # first)
         /\ start \in 1 .. Len(text)
    <2>1. PICK l \in Nat : l = Len(text)
      BY <1>a
    <2>2. l = b + n + z + k
      BY <1>a, <2>1
    <2>3. n = 0 \/ n = 1
      OBVIOUS
    <2>4. first \in Nat /\ start \in Nat /\ first - 1 = b
      BY <1>4, <2>3
    <2>5. first \in 1 .. l /\ start \in 1 .. l /\ l + 1 - start = z + k
      BY <1>4, <1>7, <2>2, <2>3
    <2>6. (n = 0 => start = first) /\ (n = 1 => start = first + 1 /\ start # first)
      BY <1>4
    <2> QED
      BY <2>1, <2>3, <2>4, <2>5, <2>6
  <1>11. n = 0 => text[first] \notin White \cup {"-", "+"}
    <2>1. n = 0 => first \in start .. Len(text)
      BY <1>10
    <2> QED
      BY <1>9, <2>1
  <1>12. text[first] \notin White
    BY <1>5, <1>11 DEF White
  <1>13. text[first] \in {"-", "+"} <=> n = 1
    BY <1>5, <1>11
  <1>14. n = 1 <=> start = first + 1
    BY <1>10
  <1>15. Numeral(text, first, start)
    BY <1>5, <1>9, <1>10, <1>12, <1>13, <1>14 DEF Numeral
  <1>16. NumberAt(text, start, z + k) = v
    <2>1. PICK w : Reads(s, w, v)
      BY <1>1, DigitsRead
    <2>2. \A i \in 1 .. z : start + i - 1 = b + n + i
      BY <1>4
    <2>3. \A i \in 1 .. k : start + z + i - 1 = b + n + z + i
      BY <1>4
    <2>4. \A i \in 1 .. z : text[start + i - 1] = "0"
      BY <1>5, <2>2
    <2>5. \A i \in 1 .. k : text[start + z + i - 1] = s[i]
      BY <1>5, <2>3
    <2>6. Padded(text, start, z, s, k)
      BY <2>4, <2>5 DEF Padded
    <2> QED
      BY <1>3, <1>10, <2>1, <2>6, PaddedNumber
  <1>17. text[first] = "-" <=> n = 1
    BY <1>5, <1>11
  <1> QED
    BY <1>10, <1>15, <1>16, <1>17, AtoiIs

LEMMA PadIs ==
    ASSUME NEW it, it.width \in Nat, NEW len \in Nat
    PROVE  /\ Pad(it, len) \in Seq({"0", " "})
           /\ \A i \in 1 .. Len(Pad(it, len)) : Pad(it, len)[i] = IF it.zero THEN "0" ELSE " "
  <1>1. PICK n \in Nat : n = IF it.width > len THEN it.width - len ELSE 0
    OBVIOUS
  <1>2. PICK c \in {"0", " "} : c = IF it.zero THEN "0" ELSE " "
    OBVIOUS
  <1>3. PICK p : p = [k \in 1 .. n |-> c]
    OBVIOUS
  <1>4. p \in Seq({"0", " "}) /\ \A i \in 1 .. Len(p) : p[i] = c
    <2>1. PICK C : C = {"0", " "}
      OBVIOUS
    <2>2. c \in C
      BY <2>1
    <2>3. p \in [1 .. n -> C]
      BY <1>3, <2>2
    <2>4. p \in Seq(C)
      <3>1. p \in UNION {[1 .. m -> C] : m \in Nat}
        BY <2>3
      <3> QED
        BY <3>1, SeqDef, Zenon
    <2>5. DOMAIN p = 1 .. Len(p)
      BY <2>4, LenProperties
    <2>6. 1 .. Len(p) = 1 .. n
      BY <2>3, <2>5
    <2> QED
      BY <1>3, <2>1, <2>4, <2>6
  <1>5. Pad(it, len) = p
    BY <1>1, <1>2, <1>3 DEF Pad
  <1> QED
    BY <1>2, <1>4, <1>5

\* The characters of texts that are put together.
ThreeParts(t, g, p, s) ==
  /\ Len(t) = Len(g) + Len(p) + Len(s)
  /\ \A i \in 1 .. Len(g) : t[i] = g[i]
  /\ \A i \in 1 .. Len(p) : t[Len(g) + i] = p[i]
  /\ \A i \in 1 .. Len(s) : t[Len(g) + Len(p) + i] = s[i]

LEMMA PartsOf ==
    ASSUME NEW C, NEW g \in Seq(C), NEW p \in Seq(C), NEW s \in Seq(C)
    PROVE  g \o p \o s \in Seq(C) /\ ThreeParts(g \o p \o s, g, p, s)
  <1>1. PICK l, m, n \in Nat : l = Len(g) /\ m = Len(p) /\ n = Len(s)
    OBVIOUS
  <1>2. PICK q : q = g \o p
    OBVIOUS
  <1>3. /\ q \in Seq(C) /\ Len(q) = l + m
        /\ \A i \in 1 .. l + m : q[i] = IF i <= l THEN g[i] ELSE p[i - l]
    <2>1. /\ q \in Seq(C) /\ Len(q) = Len(g) + Len(p)
          /\ \A i \in 1 .. Len(g) + Len(p) : q[i] = IF i <= Len(g) THEN g[i] ELSE p[i - Len(g)]
      BY <1>2, ConcatProperties
    <2> QED
      BY <1>1, <2>1
  <1>4. PICK t : t = q \o s
    OBVIOUS
  <1>5. /\ t \in Seq(C) /\ Len(t) = l + m + n
        /\ \A i \in 1 .. l + m + n : t[i] = IF i <= l + m THEN q[i] ELSE s[i - (l + m)]
    <2>1. /\ t \in Seq(C) /\ Len(t) = Len(q) + Len(s)
          /\ \A i \in 1 .. Len(q) + Len(s) : t[i] = IF i <= Len(q) THEN q[i] ELSE s[i - Len(q)]
      BY <1>3, <1>4, ConcatProperties
    <2>2. Len(q) = l + m /\ Len(s) = n
      BY <1>1, <1>3
    <2> QED
      BY <2>1, <2>2
  <1>6. \A i \in 1 .. l : t[i] = g[i]
    BY <1>3, <1>5
  <1>7. \A i \in 1 .. m : t[l + i] = p[i]
    BY <1>3, <1>5
  <1>8. \A i \in 1 .. n : t[l + m + i] = s[i]
    BY <1>5
  <1> QED
    BY <1>1, <1>2, <1>4, <1>5, <1>6, <1>7, <1>8 DEF ThreeParts

\* The decimal text of a number: its sign, padding and digits.
Parts(text, it, neg, sign, digits, v) ==
  /\ it.width \in Nat
  /\ sign = IF neg THEN <<"-">> ELSE <<>>
  /\ digits = DigitsOf(v, 10)
  /\ text = sign \o Pad(it, Len(sign \o digits)) \o digits

LEMMA PartsRead ==
    ASSUME NEW it, NEW v \in 0 .. VALUE_MAX,
           NEW neg \in BOOLEAN, NEW text, NEW sign, NEW digits,
           Parts(text, it, neg, sign, digits, v)
    PROVE  atoi(text) = (IF neg THEN -v ELSE v) \/ (neg /\ ~it.zero /\ text[2] = " ")
  <1>0. it.width \in Nat /\ sign = (IF neg THEN <<"-">> ELSE <<>>) /\ digits = DigitsOf(v, 10)
    BY DEF Parts
  <1>1. PICK C : C = {Digit(d) : d \in 0 .. 9} \cup {"-", "0", " "}
    OBVIOUS
  <1>2. digits \in Seq(C)
    <2>1. PICK base : base = 10
      OBVIOUS
    <2>2. base \in Nat /\ base > 1 /\ base - 1 = 9
      BY <2>1
    <2>3. DigitsOf(v, base) \in Seq({Digit(d) : d \in 0 .. base - 1})
      BY <2>2, DigitsType
    <2>4. {Digit(d) : d \in 0 .. base - 1} \subseteq C
      BY <1>1, <2>2
    <2>5. PICK D : D = {Digit(d) : d \in 0 .. base - 1}
      OBVIOUS
    <2>6. digits \in Seq(D) /\ D \subseteq C
      BY <1>0, <2>1, <2>3, <2>4, <2>5
    <2> QED
      BY <2>6
  <1>3. PICK n \in {0, 1} : n = IF neg THEN 1 ELSE 0
    BY Zenon
  <1>4. sign \in Seq(C) /\ Len(sign) = n /\ (n = 1 => sign[1] = "-")
    <2>1. "-" \in C
      BY <1>1
    <2>2. CASE neg
      BY <1>0, <1>3, <2>1, <2>2
    <2>3. CASE ~neg
      BY <1>0, <1>3, <2>3
    <2> QED
      BY <2>2, <2>3
  <1>5. PICK len \in Nat : len = Len(sign \o digits)
    BY <1>2, <1>4
  <1>6. PICK p : p = Pad(it, len)
    OBVIOUS
  <1>7. p \in Seq({"0", " "}) /\ \A i \in 1 .. Len(p) : p[i] = IF it.zero THEN "0" ELSE " "
    BY <1>0, <1>6, PadIs
  <1>8. p \in Seq(C)
    <2>1. {"0", " "} \subseteq C
      BY <1>1
    <2>2. PICK D : D = {"0", " "}
      OBVIOUS
    <2>3. p \in Seq(D) /\ D \subseteq C
      BY <1>7, <2>1, <2>2
    <2> QED
      BY <2>3
  <1>9. text = sign \o p \o digits
    BY <1>5, <1>6 DEF Parts
  <1>10. PICK m, k \in Nat : m = Len(p) /\ k = Len(digits)
    BY <1>2, <1>8
  <1>11. /\ Len(text) = n + m + k
         /\ \A i \in 1 .. n : text[i] = sign[i]
         /\ \A i \in 1 .. m : text[n + i] = IF it.zero THEN "0" ELSE " "
         /\ \A i \in 1 .. k : text[n + m + i] = digits[i]
    <2>1. ThreeParts(text, sign, p, digits)
      BY <1>2, <1>4, <1>8, <1>9, PartsOf
    <2>2. Len(sign) = n
      BY <1>4
    <2>3. /\ Len(text) = n + m + k
          /\ \A i \in 1 .. n : text[i] = sign[i]
          /\ \A i \in 1 .. m : text[n + i] = p[i]
          /\ \A i \in 1 .. k : text[n + m + i] = digits[i]
      <3>1. /\ Len(text) = Len(sign) + Len(p) + Len(digits)
            /\ \A i \in 1 .. Len(sign) : text[i] = sign[i]
            /\ \A i \in 1 .. Len(p) : text[Len(sign) + i] = p[i]
            /\ \A i \in 1 .. Len(digits) : text[Len(sign) + Len(p) + i] = digits[i]
        BY <2>1 DEF ThreeParts
      <3>2. Len(p) = m /\ Len(digits) = k
        BY <1>10
      <3> QED
        BY <2>2, <3>1, <3>2
    <2>4. \A i \in 1 .. m : text[n + i] = IF it.zero THEN "0" ELSE " "
      <3>1. \A i \in 1 .. m : p[i] = IF it.zero THEN "0" ELSE " "
        BY <1>7, <1>10
      <3>2. \A i \in 1 .. m : text[n + i] = p[i]
        BY <2>3
      <3> QED
        BY <3>1, <3>2, Zenon
    <2>5. \A i \in 1 .. n : text[i] = sign[i]
      BY <2>3
    <2>6. \A i \in 1 .. k : text[n + m + i] = digits[i]
      BY <2>3
    <2>7. Len(text) = n + m + k
      BY <2>3
    <2> QED
      BY <2>4, <2>5, <2>6, <2>7
  <1>12. n = 1 => text[1] = "-"
    <2>1. n = 1 => 1 \in 1 .. n
      OBVIOUS
    <2> QED
      BY <1>4, <1>11, <2>1
  <1>13. PICK nil \in Nat : nil = 0
    OBVIOUS
  <1>14. CASE it.zero \/ m = 0
    <2>1. \A i \in 1 .. m : text[nil + n + i] = "0"
      <3>1. \A i \in 1 .. m : nil + n + i = n + i /\ m # 0
        BY <1>13
      <3>2. \A i \in 1 .. m : it.zero
        BY <1>14, <3>1
      <3>3. \A i \in 1 .. m : text[n + i] = IF it.zero THEN "0" ELSE " "
        BY <1>11
      <3> QED
        BY <3>1, <3>2, <3>3
    <2>2. nil + 1 = 1 /\ nil + n + m = n + m /\ nil + n + m + k = n + m + k
      BY <1>13
    <2>3. \A i \in 1 .. nil : text[i] = " "
      <3>1. 1 .. nil = {}
        BY <1>13
      <3> QED
        BY <3>1
    <2>4. Laid(text, nil, n, m, digits)
      BY <1>10, <1>11, <1>12, <2>1, <2>2, <2>3 DEF Laid
    <2>5. atoi(text) = IF n = 1 THEN -v ELSE v
      BY <1>0, <2>4, LaidReads
    <2>6. n = 1 <=> neg
      BY <1>3
    <2> QED
      BY <2>5, <2>6
  <1>15. CASE ~it.zero /\ m # 0 /\ neg
    <2>1. n = 1 /\ 1 \in 1 .. m /\ 2 = 1 + 1
      BY <1>3, <1>15
    <2>2. text[2] = " "
      BY <1>11, <1>15, <2>1
    <2> QED
      BY <1>15, <2>2
  <1>16. CASE ~it.zero /\ m # 0 /\ ~neg
    <2>1. n = 0
      BY <1>3, <1>16
    <2>2. \A i \in 1 .. m : text[i] = " "
      <3>1. \A i \in 1 .. m : n + i = i
        BY <2>1
      <3>2. \A i \in 1 .. m : text[n + i] = " "
        BY <1>11, <1>16
      <3> QED
        BY <3>1, <3>2
    <2>3. m + n + nil + k = n + m + k /\ m + n + nil = n + m
      BY <1>13
    <2>4. \A i \in 1 .. nil : text[m + n + i] = "0"
      <3>1. 1 .. nil = {}
        BY <1>13
      <3> QED
        BY <3>1
    <2>5. n = 1 => text[m + 1] = "-"
      BY <2>1
    <2>6. Laid(text, m, n, nil, digits)
      <3>1. Len(text) = m + n + nil + Len(digits)
        BY <1>10, <1>11, <2>3
      <3>2. \A i \in 1 .. Len(digits) : text[m + n + nil + i] = digits[i]
        BY <1>10, <1>11, <2>3
      <3> QED
        BY <2>2, <2>4, <2>5, <3>1, <3>2 DEF Laid
    <2>7. atoi(text) = IF n = 1 THEN -v ELSE v
      BY <1>0, <2>6, LaidReads
    <2> QED
      BY <1>16, <2>1, <2>7
  <1> QED
    BY <1>14, <1>15, <1>16

LEMMA NumberReadsBack ==
    ASSUME NEW it, IsItem(it), it.conv \in {"d", "u"}
    PROVE  ReadsBack(it, Text(it))
  <1>1. VALUE_MAX \in Nat
    BY FormatAssumption
  <1>2. it.width \in Nat /\ it.zero \in BOOLEAN
    BY DEF IsItem
  <1>3. CASE it.conv = "d"
    <2>1. PICK neg \in BOOLEAN : neg <=> it.value < 0
      OBVIOUS
    <2>2. it.value \in -VALUE_MAX .. VALUE_MAX
      BY <1>3 DEF IsItem
    <2>3. PICK v \in 0 .. VALUE_MAX : v = IF it.value < 0 THEN -it.value ELSE it.value
      BY <1>1, <2>2
    <2>4. PICK digits, sign : digits = DigitsOf(v, 10) /\ sign = IF neg THEN <<"-">> ELSE <<>>
      OBVIOUS
    <2>5. Text(it) = sign \o Pad(it, Len(sign \o digits)) \o digits
      BY <1>3, <2>1, <2>3, <2>4 DEF Text, Signed
    <2>6. atoi(Text(it)) = (IF neg THEN -v ELSE v) \/ (neg /\ ~it.zero /\ Text(it)[2] = " ")
      <3>1. PICK text : text = Text(it)
        OBVIOUS
      <3>2. Parts(text, it, neg, sign, digits, v)
        BY <1>2, <2>4, <2>5, <3>1 DEF Parts
      <3> QED
        BY <3>1, <3>2, PartsRead
    <2>7. (IF neg THEN -v ELSE v) = it.value
      BY <1>1, <2>1, <2>2, <2>3
    <2>8. PICK a : a = atoi(Text(it))
      OBVIOUS
    <2>9. a = it.value \/ (it.value < 0 /\ ~it.zero /\ Text(it)[2] = " ")
      <3>1. CASE neg
        BY <2>1, <2>6, <2>7, <2>8, <3>1, Zenon
      <3>2. CASE ~neg
        BY <2>6, <2>7, <2>8, <3>2, Zenon
      <3> QED
        BY <3>1, <3>2
    <2> QED
      BY <1>3, <2>8, <2>9 DEF ReadsBack
  <1>4. CASE it.conv = "u"
    <2>1. it.value \in 0 .. VALUE_MAX
      BY <1>4 DEF IsItem
    <2>2. PICK neg \in BOOLEAN : neg <=> FALSE
      OBVIOUS
    <2>3. PICK digits, sign : digits = DigitsOf(it.value, 10) /\ sign = IF neg THEN <<"-">> ELSE <<>>
      OBVIOUS
    <2>4. Text(it) = Pad(it, Len(digits)) \o digits
      BY <1>4, <2>3 DEF Text, Unsigned
    <2>5. Text(it) = sign \o Pad(it, Len(sign \o digits)) \o digits
      <3>1. PICK C : digits \in Seq(C)
        <4>1. PICK base : base = 10
          OBVIOUS
        <4>2. base \in Nat /\ base > 1
          BY <4>1
        <4>3. DigitsOf(it.value, base) \in Seq({Digit(d) : d \in 0 .. base - 1})
          BY <2>1, <4>2, DigitsType
        <4> QED
          BY <2>3, <4>1, <4>3
      <3>2. sign = <<>> /\ sign \o digits = digits
        BY <2>2, <2>3, <3>1, ConcatEmptySeq
      <3>3. PICK p : p = Pad(it, Len(digits))
        OBVIOUS
      <3>4. PICK D : p \in Seq(D)
        <4>1. Len(digits) \in Nat
          BY <3>1
        <4> QED
          BY <1>2, <3>3, <4>1, PadIs
      <3>5. sign \o p = p
        BY <3>2, <3>4, ConcatEmptySeq
      <3> QED
        BY <2>4, <3>2, <3>3, <3>5
    <2>6. atoi(Text(it)) = (IF neg THEN -it.value ELSE it.value) \/ (neg /\ ~it.zero /\ Text(it)[2] = " ")
      <3>1. PICK text, v : text = Text(it) /\ v = it.value
        OBVIOUS
      <3>2. Parts(text, it, neg, sign, digits, v)
        BY <1>2, <2>3, <2>5, <3>1 DEF Parts
      <3> QED
        BY <2>1, <3>1, <3>2, PartsRead
    <2> QED
      BY <2>2, <2>6 DEF ReadsBack
  <1> QED
    BY <1>3, <1>4

-----------------------------------------------------------------------------
(* Formatting into a buffer.                                               *)

LEMMA DigitsText ==
    ASSUME NEW base \in Nat, base > 1, NEW v \in 0 .. VALUE_MAX
    PROVE  IsText(DigitsOf(v, base))
  BY DigitsType, SeqIsText

LEMMA PaddingText ==
    ASSUME NEW it, it.width \in Nat, NEW len \in Nat
    PROVE  IsText(Pad(it, len))
  BY PadIs, SeqIsText

LEMMA UnsignedText ==
    ASSUME NEW it, it.width \in Nat, it.value \in 0 .. VALUE_MAX, NEW base \in Nat, base > 1
    PROVE  IsText(Unsigned(it, base))
  <1>1. PICK digits : digits = DigitsOf(it.value, base)
    OBVIOUS
  <1>2. IsText(digits)
    BY <1>1, DigitsText
  <1>3. IsText(Pad(it, Len(digits)))
    BY <1>2, PaddingText DEF IsText
  <1> QED
    BY <1>1, <1>2, <1>3, TextsJoin DEF Unsigned

LEMMA ItemText ==
    ASSUME NEW it, IsItem(it)
    PROVE  IsText(Text(it))
  <1>1. VALUE_MAX \in Nat /\ PTR_DIGITS \in Nat
    BY FormatAssumption
  <1>2. PICK ten, sixteen \in Nat : ten = 10 /\ sixteen = 16
    OBVIOUS
  <1>3. ten > 1 /\ sixteen > 1
    BY <1>2
  <1>4. CASE it.conv \in {"lit", "c"}
    <2>1. Text(it) = <<it.ch>>
      BY <1>4 DEF Text
    <2>2. <<it.ch>> \in Seq({it.ch})
      OBVIOUS
    <2> QED
      BY <2>1, <2>2, SeqIsText
  <1>5. CASE it.conv = "%"
    <2>1. Text(it) = <<"%">>
      BY <1>5 DEF Text
    <2>2. <<"%">> \in Seq({"%"})
      OBVIOUS
    <2> QED
      BY <2>1, <2>2, SeqIsText
  <1>6. CASE it.conv = "s"
    <2>1. Text(it) = it.str
      BY <1>6 DEF Text
    <2> QED
      BY <1>6, <2>1 DEF IsItem, IsText
  <1>7. CASE it.conv = "null"
    <2>1. Text(it) = <<"(", "n", "u", "l", "l", ")">>
      BY <1>7 DEF Text
    <2>2. <<"(", "n", "u", "l", "l", ")">> \in Seq({"(", "n", "u", "l", ")"})
      OBVIOUS
    <2> QED
      BY <2>1, <2>2, SeqIsText
  <1>8. CASE it.conv = "d"
    <2>1. it.width \in Nat /\ it.value \in -VALUE_MAX .. VALUE_MAX
      BY <1>8 DEF IsItem
    <2>2. PICK v \in 0 .. VALUE_MAX : v = IF it.value < 0 THEN -it.value ELSE it.value
      BY <1>1, <2>1
    <2>3. PICK sign, digits : /\ digits = DigitsOf(v, ten)
                              /\ sign = IF it.value < 0 THEN <<"-">> ELSE <<>>
      OBVIOUS
    <2>4. Text(it) = sign \o Pad(it, Len(sign \o digits)) \o digits
      BY <1>2, <1>8, <2>2, <2>3 DEF Text, Signed
    <2>5. IsText(digits)
      BY <1>3, <2>3, DigitsText
    <2>6. IsText(sign)
      <3>1. <<"-">> \in Seq({"-"}) /\ <<>> \in Seq({"-"})
        OBVIOUS
      <3>2. sign \in Seq({"-"})
        BY <2>3, <3>1
      <3> QED
        BY <3>2, SeqIsText
    <2>7. IsText(sign \o digits)
      BY <2>5, <2>6, TextsJoin
    <2>8. IsText(Pad(it, Len(sign \o digits)))
      BY <2>1, <2>7, PaddingText DEF IsText
    <2> QED
      BY <2>4, <2>5, <2>6, <2>8, TextsJoin
  <1>9. CASE it.conv = "u"
    <2>1. it.width \in Nat /\ it.value \in 0 .. VALUE_MAX
      BY <1>9 DEF IsItem
    <2>2. Text(it) = Unsigned(it, ten)
      BY <1>2, <1>9 DEF Text
    <2> QED
      BY <1>3, <2>1, <2>2, UnsignedText
  <1>10. CASE it.conv = "x"
    <2>1. it.width \in Nat /\ it.value \in 0 .. VALUE_MAX
      BY <1>10 DEF IsItem
    <2>2. Text(it) = Unsigned(it, sixteen)
      BY <1>2, <1>10 DEF Text
    <2> QED
      BY <1>3, <2>1, <2>2, UnsignedText
  <1>11. CASE it.conv = "p"
    <2>1. it.value \in 0 .. VALUE_MAX
      BY <1>11 DEF IsItem
    <2>2. PICK p : p = [width |-> PTR_DIGITS, zero |-> TRUE, value |-> it.value]
      OBVIOUS
    <2>3. p.width \in Nat /\ p.value \in 0 .. VALUE_MAX
      BY <1>1, <2>1, <2>2
    <2>4. Text(it) = <<"0", "x">> \o Unsigned(p, sixteen)
      BY <1>2, <1>11, <2>2 DEF Text, Pointer
    <2>5. IsText(Unsigned(p, sixteen))
      BY <1>3, <2>3, UnsignedText
    <2>6. <<"0", "x">> \in Seq({"0", "x"})
      OBVIOUS
    <2>7. IsText(<<"0", "x">>)
      BY <2>6, SeqIsText
    <2> QED
      BY <2>4, <2>5, <2>7, TextsJoin
  <1>12. CASE it.conv = "other"
    <2>1. Text(it) = <<"%", it.ch>>
      BY <1>12 DEF Text
    <2>2. <<"%", it.ch>> \in Seq({"%", it.ch})
      OBVIOUS
    <2> QED
      BY <2>1, <2>2, SeqIsText
  <1> QED
    BY <1>4, <1>5, <1>6, <1>7, <1>8, <1>9, <1>10, <1>11, <1>12 DEF IsItem

LEMMA LongestType == Longest \in Nat
  <1> DEFINE L == {Len(Text(it)) : it \in Items}
             Bound(b) == \A it \in Items : Len(Text(it)) <= b
             B == {b \in Nat : Bound(b)}
  <1>1. \A it \in Items : Len(Text(it)) \in Nat
    BY FormatAssumption, ItemText DEF IsText
  <1>2. B # {}
    <2>1. PICK n \in Nat : ExistsBijection(1 .. n, Items)
      BY FormatAssumption, FS_CardinalityType
    <2>2. PICK f \in [1 .. n -> Items] : \A it \in Items : \E j \in 1 .. n : f[j] = it
      BY <2>1 DEF ExistsBijection, Bijection, Injection, Surjection
    <2> DEFINE T == {i \in 0 .. n : \E b \in Nat : \A j \in 1 .. i : Len(Text(f[j])) <= b}
    <2>3. 0 \in T
      <3>1. 1 .. 0 = {}
        OBVIOUS
      <3> QED
        BY <3>1
    <2>4. ASSUME NEW i \in 1 .. n, i - 1 \in T PROVE i \in T
      <3>1. PICK b \in Nat : \A j \in 1 .. i - 1 : Len(Text(f[j])) <= b
        BY <2>4
      <3>2. PICK l \in Nat : l = Len(Text(f[i]))
        BY <1>1
      <3>3. PICK c \in Nat : b <= c /\ l <= c
        <4>1. b + l \in Nat /\ b <= b + l /\ l <= b + l
          OBVIOUS
        <4> QED
          BY <4>1
      <3>4. ASSUME NEW j \in 1 .. i PROVE Len(Text(f[j])) <= c
        <4>1. PICK k \in Nat : k = Len(Text(f[j]))
          BY <1>1
        <4>2. CASE j = i
          BY <3>2, <3>3, <4>2
        <4>3. CASE j # i
          <5>1. j \in 1 .. i - 1
            BY <4>3
          <5>2. k <= b
            BY <3>1, <4>1, <5>1
          <5> QED
            BY <3>3, <4>1, <5>2
        <4> QED
          BY <4>2, <4>3
      <3>5. i \in 0 .. n
        OBVIOUS
      <3>6. \E m \in Nat : \A j \in 1 .. i : Len(Text(f[j])) <= m
        BY <3>4
      <3> QED
        BY <3>5, <3>6
    <2>5. n \in T
      <3>1. n \in 0 .. n
        OBVIOUS
      <3> HIDE DEF T
      <3> QED
        BY <2>3, <2>4, <3>1, CountUp
    <2>6. PICK b \in Nat : \A j \in 1 .. n : Len(Text(f[j])) <= b
      BY <2>5
    <2>7. Bound(b)
      BY <2>2, <2>6
    <2> QED
      BY <2>7
  <1>3. PICK b \in B : \A c \in B : ~(c < b)
    BY <1>2, LeastNat
  <1>4. \E it \in Items : Len(Text(it)) = b
    <2> SUFFICES ASSUME \A it \in Items : Len(Text(it)) # b PROVE FALSE
      OBVIOUS
    <2>1. \A it \in Items : Len(Text(it)) < b
      BY <1>1, <1>3
    <2>2. PICK it \in Items : TRUE
      BY FormatAssumption
    <2>3. b > 0 /\ b - 1 \in Nat
      BY <1>1, <1>3, <2>1, <2>2
    <2>4. \A i \in Items : Len(Text(i)) <= b - 1
      BY <1>1, <1>3, <2>1
    <2>5. b - 1 \in B
      BY <2>3, <2>4
    <2>6. b - 1 < b
      BY <2>3
    <2> HIDE DEF B
    <2> QED
      BY <1>3, <2>5, <2>6
  <1>5. b \in L /\ \A l \in L : b >= l
    BY <1>1, <1>3, <1>4
  <1>6. Longest = Max(L)
    BY DEF Longest
  <1>7. L \subseteq Nat
    BY <1>1
  <1> HIDE DEF L
  <1>8. Max(L) \in L
    BY <1>5 DEF Max
  <1> QED
    BY <1>6, <1>7, <1>8

\* What the bytes of the buffer are, while it is filled and after.
FormatInv ==
  /\ size \in Nat \ {0} /\ pos \in Nat /\ done \in BOOLEAN /\ IsText(full)
  /\ DOMAIN buf = 0 .. size + Longest
  /\ ~done => Len(full) = pos
  /\ Len(full) >= pos /\ (pos < size - 1 => Len(full) = pos)
  /\ \A k \in 0 .. size + Longest : k >= size => buf[k] = Junk
  /\ \A k \in 0 .. size - 1 : k < pos /\ k < size - 1 => buf[k] = full[k + 1]
  /\ done => buf[IF pos < size THEN pos ELSE size - 1] = NUL

LEMMA FormatStarts ==
    ASSUME FormatInit
    PROVE  FormatInv
  <1>1. size \in Nat \ {0} /\ Longest \in Nat
    BY FormatAssumption, LongestType DEF FormatInit
  <1>2. pos = 0 /\ done = FALSE /\ full = <<>>
    BY DEF FormatInit
  <1>3. IsText(full) /\ Len(full) = 0
    <2>1. <<>> \in Seq({0})
      OBVIOUS
    <2> QED
      BY <1>2, <2>1, SeqIsText
  <1>4. buf = [k \in 0 .. size + Longest |-> Junk]
    BY DEF FormatInit
  <1>5. Len(full) = pos
    BY <1>2, <1>3
  <1>6. /\ \A k \in 0 .. size + Longest : buf[k] = Junk
        /\ DOMAIN buf = 0 .. size + Longest
    BY <1>4
  <1>7. \A k \in 0 .. size - 1 : ~(k < pos)
    BY <1>1, <1>2
  <1>8. pos \in Nat /\ Len(full) >= pos /\ ~done
    BY <1>2, <1>3
  <1> QED
    BY <1>1, <1>2, <1>3, <1>5, <1>6, <1>7, <1>8 DEF FormatInv

LEMMA ItemStep ==
    ASSUME FormatInv, NEW it \in Items, Item(it)
    PROVE  /\ FormatInv'
           /\ it.conv \in {"d", "u"} => ReadsBack(it, SubSeq(full', Len(full) + 1, Len(full')))
  <1>1. PICK text : text = Text(it)
    OBVIOUS
  <1>2. IsText(text) /\ IsItem(it)
    BY <1>1, FormatAssumption, ItemText
  <1>3. PICK n \in Nat : n = Len(text)
    BY <1>2 DEF IsText
  <1>4. /\ size \in Nat \ {0} /\ pos \in Nat /\ ~done /\ IsText(full) /\ Len(full) = pos
        /\ pos < size - 1 /\ DOMAIN buf = 0 .. size + Longest
    BY DEF FormatInv, Item
  <1>5. /\ \A k \in 0 .. size + Longest : k >= size => buf[k] = Junk
        /\ \A k \in 0 .. size - 1 : k < pos /\ k < size - 1 => buf[k] = full[k + 1]
    BY DEF FormatInv
  <1>6. Longest \in Nat
    BY LongestType
  <1>7. /\ pos' = pos + n /\ full' = full \o text /\ size' = size /\ done' = done
        /\ buf' = [k \in DOMAIN buf |-> IF k < size - 1 /\ k \in pos .. pos + n - 1
                                        THEN text[k - pos + 1] ELSE buf[k]]
    BY <1>1, <1>3 DEF Item, PUT_CHAR
  <1>8. /\ IsText(full') /\ Len(full') = pos + n
        /\ \A k \in 1 .. pos : full'[k] = full[k]
        /\ \A k \in 1 .. n : full'[pos + k] = text[k]
        /\ SubSeq(full', Len(full) + 1, Len(full')) = text
    <2>1. full' = full \o text /\ IsText(full) /\ IsText(text)
      BY <1>2, <1>4, <1>7
    <2>2. /\ IsText(full') /\ Len(full') = Len(full) + Len(text)
          /\ \A k \in 1 .. Len(full) : full'[k] = full[k]
          /\ \A k \in 1 .. Len(text) : full'[Len(full) + k] = text[k]
          /\ SubSeq(full', Len(full) + 1, Len(full')) = text
      BY <2>1, TextsJoin
    <2> QED
      BY <1>3, <1>4, <2>2
  <1>9. DOMAIN buf' = 0 .. size' + Longest
    BY <1>4, <1>7
  <1>10. ASSUME NEW k \in 0 .. size' + Longest, k >= size' PROVE buf'[k] = Junk
    <2>1. k \in 0 .. size + Longest /\ k >= size
      BY <1>7, <1>10
    <2>2. ~(k < size - 1)
      BY <1>4, <2>1
    <2>3. buf'[k] = buf[k]
      BY <1>4, <1>7, <2>1, <2>2
    <2> QED
      BY <1>5, <2>1, <2>3
  <1>11. ASSUME NEW k \in 0 .. size' - 1, k < pos', k < size' - 1
         PROVE  buf'[k] = full'[k + 1]
    <2>1. k \in 0 .. size - 1 /\ k < pos + n /\ k < size - 1
      BY <1>7, <1>11
    <2>2. k \in 0 .. size + Longest
      BY <1>4, <1>6, <2>1
    <2>3. CASE k < pos
      <3>1. k \notin pos .. pos + n - 1 /\ k + 1 \in 1 .. pos
        BY <1>4, <2>1, <2>3
      <3>2. buf'[k] = buf[k]
        BY <1>4, <1>7, <2>2, <3>1
      <3> QED
        BY <1>5, <1>8, <2>1, <2>3, <3>1, <3>2
    <2>4. CASE ~(k < pos)
      <3>1. k \in pos .. pos + n - 1
        BY <1>4, <2>1, <2>4
      <3>2. k - pos + 1 \in 1 .. n /\ pos + (k - pos + 1) = k + 1
        BY <1>4, <3>1
      <3>3. buf'[k] = text[k - pos + 1]
        BY <1>4, <1>7, <2>1, <2>2, <3>1
      <3>4. full'[pos + (k - pos + 1)] = text[k - pos + 1]
        BY <1>8, <3>2
      <3> QED
        BY <3>2, <3>3, <3>4
    <2> QED
      BY <2>3, <2>4
  <1>12. FormatInv'
    <2>1. pos' \in Nat /\ size' \in Nat \ {0} /\ done' \in BOOLEAN /\ ~done'
      <3>1. pos' \in Nat /\ size' \in Nat \ {0}
        BY <1>4, <1>7
      <3>2. done' \in BOOLEAN /\ ~done'
        BY <1>4, <1>7 DEF FormatInv
      <3> QED
        BY <3>1, <3>2
    <2>2. Len(full') = pos' /\ Len(full') >= pos'
      BY <1>7, <1>8, <2>1
    <2> QED
      BY <1>8, <1>9, <1>10, <1>11, <2>1, <2>2 DEF FormatInv
  <1>13. it.conv \in {"d", "u"} => ReadsBack(it, text)
    BY <1>1, <1>2, NumberReadsBack
  <1> QED
    BY <1>8, <1>12, <1>13

LEMMA ReturnStep ==
    ASSUME FormatInv, FormatReturn
    PROVE  FormatInv'
  <1>1. /\ size \in Nat \ {0} /\ pos \in Nat /\ ~done /\ IsText(full) /\ Len(full) = pos
        /\ DOMAIN buf = 0 .. size + Longest
        /\ Len(full) >= pos /\ (pos < size - 1 => Len(full) = pos)
    BY DEF FormatInv, FormatReturn
  <1>2. /\ \A k \in 0 .. size + Longest : k >= size => buf[k] = Junk
        /\ \A k \in 0 .. size - 1 : k < pos /\ k < size - 1 => buf[k] = full[k + 1]
    BY DEF FormatInv
  <1>3. Longest \in Nat
    BY LongestType
  <1>4. PICK end : end = IF pos < size THEN pos ELSE size - 1
    OBVIOUS
  <1>5. /\ buf' = [buf EXCEPT ![end] = NUL] /\ done' = TRUE
        /\ size' = size /\ pos' = pos /\ full' = full
    BY <1>4 DEF FormatReturn
  <1>6. /\ end \in 0 .. size - 1 /\ end \in 0 .. size + Longest
        /\ \A k \in 0 .. size - 1 : k < pos /\ k < size - 1 => k # end
    BY <1>1, <1>3, <1>4
  <1>7. DOMAIN buf' = 0 .. size + Longest /\ buf'[end] = NUL
        /\ \A k \in 0 .. size + Longest : k # end => buf'[k] = buf[k]
    BY <1>1, <1>5, <1>6
  <1>8. \A k \in 0 .. size + Longest : k >= size => k # end
    BY <1>1, <1>6
  <1>9. \A k \in 0 .. size - 1 : k \in 0 .. size + Longest
    BY <1>1, <1>3
  <1>10. \A k \in 0 .. size + Longest : k >= size => buf'[k] = Junk
    BY <1>2, <1>7, <1>8
  <1>11. \A k \in 0 .. size - 1 : k < pos /\ k < size - 1 => buf'[k] = full[k + 1]
    BY <1>2, <1>6, <1>7, <1>9
  <1> QED
    BY <1>1, <1>4, <1>5, <1>7, <1>10, <1>11 DEF FormatInv

LEMMA UnreadStep ==
    ASSUME FormatInv, NEW it \in Items, Unread(it)
    PROVE  FormatInv'
  <1>1. IsText(Text(it))
    BY FormatAssumption, ItemText
  <1>2. /\ size \in Nat \ {0} /\ pos \in Nat /\ done /\ IsText(full) /\ Len(full) >= pos
        /\ pos >= size - 1
    BY DEF FormatInv, Unread
  <1>3. full' = full \o Text(it) /\ size' = size /\ buf' = buf /\ pos' = pos /\ done' = done
    BY DEF Unread
  <1>4. /\ IsText(full') /\ Len(full') = Len(full) + Len(Text(it))
        /\ \A k \in 1 .. Len(full) : full'[k] = full[k]
    BY <1>1, <1>2, <1>3, TextsJoin
  <1>5. PICK l, n \in Nat : l = Len(full) /\ n = Len(Text(it))
    BY <1>1, <1>2 DEF IsText
  <1>6. /\ Len(full') >= pos /\ ~(pos < size - 1)
        /\ \A k \in 0 .. size - 1 : k < pos => k + 1 \in 1 .. l
    BY <1>2, <1>4, <1>5
  <1>7. \A k \in 0 .. size - 1 : k < pos => full'[k + 1] = full[k + 1]
    BY <1>4, <1>5, <1>6
  <1>8. \A k \in 0 .. size - 1 : k < pos /\ k < size - 1 => buf[k] = full[k + 1]
    BY DEF FormatInv
  <1>9. \A k \in 0 .. size - 1 : k < pos /\ k < size - 1 => buf[k] = full'[k + 1]
    BY <1>7, <1>8
  <1> QED
    BY <1>2, <1>3, <1>4, <1>6, <1>9 DEF FormatInv

LEMMA FormatMoves ==
    ASSUME FormatInv, [FormatNext]_formatVars
    PROVE  FormatInv'
  <1>1. CASE FormatReturn
    BY <1>1, ReturnStep
  <1>2. CASE \E it \in Items : Item(it)
    BY <1>2, ItemStep
  <1>3. CASE \E it \in Items : Unread(it)
    BY <1>3, UnreadStep
  <1>4. CASE UNCHANGED formatVars
    BY <1>4 DEF FormatInv, formatVars
  <1> QED
    BY <1>1, <1>2, <1>3, <1>4 DEF FormatNext

\* The smaller of two numbers.
LEMMA LesserOf ==
    ASSUME NEW a \in Nat, NEW b \in Nat
    PROVE  Min({a, b}) = IF a <= b THEN a ELSE b
  <1>1. PICK m : m = IF a <= b THEN a ELSE b
    OBVIOUS
  <1>2. m \in {a, b} /\ \A y \in {a, b} : m <= y
    BY <1>1
  <1>3. \A x \in {a, b} : (\A y \in {a, b} : x <= y) => x = m
    BY <1>1
  <1> QED
    BY <1>1, <1>2, <1>3 DEF Min

LEMMA FormatIsRight ==
    ASSUME FormatInv
    PROVE  OwnBytesOnly /\ TextIsCut /\ PrintfWritesText
  <1>1. /\ size \in Nat \ {0} /\ pos \in Nat /\ IsText(full)
        /\ DOMAIN buf = 0 .. size + Longest
        /\ Len(full) >= pos /\ (pos < size - 1 => Len(full) = pos)
    BY DEF FormatInv
  <1>2. /\ \A k \in 0 .. size + Longest : k >= size => buf[k] = Junk
        /\ \A k \in 0 .. size - 1 : k < pos /\ k < size - 1 => buf[k] = full[k + 1]
        /\ done => buf[IF pos < size THEN pos ELSE size - 1] = NUL
    BY DEF FormatInv
  <1>3. PICK l \in Nat : l = Len(full)
    BY <1>1 DEF IsText
  <1>4. PICK end : end = IF pos < size THEN pos ELSE size - 1
    OBVIOUS
  <1>5. size - 1 \in Nat
    BY <1>1
  <1>6. PICK len : len = Min({l, size - 1})
    OBVIOUS
  <1>7. len = IF l <= size - 1 THEN l ELSE size - 1
    BY <1>5, <1>6, LesserOf
  <1>8. len = end
    BY <1>1, <1>3, <1>4, <1>7
  <1>9. \A k \in 0 .. len - 1 : k \in 0 .. size - 1 /\ k < pos /\ k < size - 1
    BY <1>1, <1>4, <1>8
  <1>10. OwnBytesOnly
    BY <1>1, <1>2 DEF OwnBytesOnly
  <1>11. TextIsCut
    BY <1>2, <1>3, <1>4, <1>6, <1>8, <1>9 DEF TextIsCut
  <1>12. PrintfWritesText
    BY <1>3, <1>4, <1>6, <1>8 DEF PrintfWritesText, to_write
  <1> QED
    BY <1>10, <1>11, <1>12

(* Whatever the items of a format and the size of the buffer are, the text *)
(* stays in the buffer, is cut at its end and terminated, printf writes    *)
(* what is stored, and the decimal numbers that are put out are read back  *)
(* by atoi.                                                                *)
THEOREM FormatIsCorrect == FormatSpec => FormatCorrect
  <1>1. FormatInit => FormatInv
    BY FormatStarts
  <1>2. FormatInv /\ [FormatNext]_formatVars => FormatInv'
    BY FormatMoves
  <1>3. FormatInv => OwnBytesOnly /\ TextIsCut /\ PrintfWritesText
    BY FormatIsRight
  <1>4. FormatInv /\ [FormatNext]_formatVars =>
          [full' # full => \A it \in Items : (it.conv \in {"d", "u"} /\ Item(it)) =>
             ReadsBack(it, SubSeq(full', Len(full) + 1, Len(full')))]_formatVars
    BY ItemStep
  <1> QED
    BY <1>1, <1>2, <1>3, <1>4, PTL DEF FormatSpec, FormatCorrect, NumbersReadBack

-----------------------------------------------------------------------------
(* The shell.                                                              *)

\* A sequence without its k-th element.
LEMMA RemoveAtProperties ==
    ASSUME NEW X, NEW s \in Seq(X), NEW k \in 1 .. Len(s)
    PROVE  /\ RemoveAt(s, k) \in Seq(X) /\ Len(RemoveAt(s, k)) = Len(s) - 1
           /\ \A j \in 1 .. Len(s) - 1 : RemoveAt(s, k)[j] = s[IF j < k THEN j ELSE j + 1]
  <1> DEFINE front == SubSeq(s, 1, k - 1)
             back == SubSeq(s, k + 1, Len(s))
             rest == front \o back
  <1>0. Len(s) \in Nat /\ k \in Int /\ 1 <= k /\ k <= Len(s)
    BY LenProperties
  <1>1. Len(s) \in Nat /\ DOMAIN s = 1 .. Len(s) /\ \A j \in 1 .. Len(s) : s[j] \in X
    BY LenProperties
  <1>2. /\ front \in Seq(X) /\ Len(front) = k - 1
        /\ \A j \in 1 .. k - 1 : front[j] = s[j]
    <2>1. /\ \A j \in 1 .. k - 1 : s[j] \in X
          /\ 1 \in Int /\ k - 1 \in Int
          /\ (IF 1 <= k - 1 THEN (k - 1) - 1 + 1 ELSE 0) = k - 1
          /\ (k - 1) - 1 + 1 = k - 1
          /\ \A j \in 1 .. k - 1 : 1 + j - 1 = j
      BY <1>1
    <2>2. /\ front \in Seq(X)
          /\ Len(front) = IF 1 <= k - 1 THEN (k - 1) - 1 + 1 ELSE 0
          /\ \A j \in 1 .. (k - 1) - 1 + 1 : front[j] = s[1 + j - 1]
      BY <2>1, SubSeqProperties
    <2> HIDE DEF front
    <2> QED
      BY <2>1, <2>2
  <1>3. /\ back \in Seq(X) /\ Len(back) = Len(s) - k
        /\ \A j \in 1 .. Len(s) - k : back[j] = s[k + j]
    <2> HIDE DEF front, back, rest
    <2>1. PICK n \in Nat, a \in Int : n = Len(s) /\ a = k + 1
      <3>1. Len(s) \in Nat /\ k + 1 \in Int
        BY <1>0
      <3> QED
        BY <3>1
    <2>2. /\ \A j \in a .. n : j \in 1 .. n
          /\ (IF a <= n THEN n - a + 1 ELSE 0) = n - k /\ n - a + 1 = n - k
          /\ \A j \in 1 .. n - k : a + j - 1 = k + j
      BY <1>0, <2>1
    <2>3. \A j \in a .. n : s[j] \in X
      BY <1>1, <2>1, <2>2
    <2>4. /\ SubSeq(s, a, n) \in Seq(X)
          /\ Len(SubSeq(s, a, n)) = IF a <= n THEN n - a + 1 ELSE 0
          /\ \A j \in 1 .. n - a + 1 : SubSeq(s, a, n)[j] = s[a + j - 1]
      BY <2>3, SubSeqProperties
    <2>5. back = SubSeq(s, a, n)
      BY <2>1 DEF back
    <2> QED
      BY <2>1, <2>2, <2>4, <2>5
  <1>4. rest = RemoveAt(s, k)
    BY DEF RemoveAt
  <1> HIDE DEF front, back
  <1>5. /\ rest \in Seq(X) /\ Len(rest) = Len(front) + Len(back)
        /\ \A j \in 1 .. Len(front) + Len(back) :
             rest[j] = IF j <= Len(front) THEN front[j] ELSE back[j - Len(front)]
    BY <1>2, <1>3, ConcatProperties
  <1> HIDE DEF rest
  <1>6. Len(rest) = Len(s) - 1
    BY <1>1, <1>2, <1>3, <1>5
  <1>7. ASSUME NEW j \in 1 .. Len(s) - 1
        PROVE  rest[j] = s[IF j < k THEN j ELSE j + 1]
    <2>1. rest[j] = IF j <= k - 1 THEN front[j] ELSE back[j - (k - 1)]
      BY <1>1, <1>2, <1>3, <1>5, <1>7
    <2>2. CASE j < k
      BY <1>1, <1>2, <2>1, <2>2
    <2>3. CASE ~(j < k)
      <3>1. j - (k - 1) \in 1 .. Len(s) - k /\ k + (j - (k - 1)) = j + 1 /\ ~(j <= k - 1)
        BY <1>1, <1>7, <2>3
      <3> QED
        BY <1>3, <2>1, <2>3, <3>1
    <2> QED
      BY <2>2, <2>3
  <1> QED
    BY <1>4, <1>5, <1>6, <1>7

-----------------------------------------------------------------------------
(* The shell's table of variables.                                         *)

Vars == [name : Names, value : Values, exported : BOOLEAN]

NamesOf(vars) == {vars[i].name : i \in DOMAIN vars}
OneOfEach(vars) ==
  \A i, j \in DOMAIN vars : vars[i].name = vars[j].name => i = j

IsTable(vars) == vars \in Seq(Vars) /\ Len(vars) <= MAX_VARS /\ OneOfEach(vars)

\* What an entry says of its name, and the map that a table is.
Says(v) == [value |-> v.value, exported |-> v.exported]
MapOf(vars) == [n \in NamesOf(vars) |-> Says(vars[find_variable(vars, n)])]

LEMMA TableTypes ==
    ASSUME NEW vars, IsTable(vars)
    PROVE  /\ Len(vars) \in Nat /\ DOMAIN vars = 1 .. Len(vars)
           /\ \A i \in 1 .. Len(vars) : vars[i] \in Vars
  BY LenProperties DEF IsTable

LEMMA FoundVariable ==
    ASSUME NEW vars, IsTable(vars), NEW n
    PROVE  LET i == find_variable(vars, n)
           IN  \/ i = 0 /\ n \notin NamesOf(vars)
               \/ i \in 1 .. Len(vars) /\ i > 0 /\ vars[i].name = n /\ n \in NamesOf(vars)
  <1> DEFINE I == {i \in 1 .. Len(vars) : vars[i].name = n}
  <1>1. Len(vars) \in Nat /\ DOMAIN vars = 1 .. Len(vars)
    BY TableTypes
  <1>2. find_variable(vars, n) = IF I # {} THEN Min(I) ELSE 0
    BY DEF find_variable, SelectInSeq
  <1>3. CASE I = {}
    BY <1>1, <1>2, <1>3 DEF NamesOf
  <1>4. CASE I # {}
    <2>1. PICK k \in I : TRUE
      BY <1>4
    <2>2. \A j \in I : j = k
      BY <1>1, <2>1 DEF IsTable, OneOfEach
    <2>3. I = {k}
      BY <2>1, <2>2
    <2>4. Min({k}) = k
      BY <2>1 DEF Min
    <2>5. find_variable(vars, n) = k
      BY <1>2, <2>3, <2>4
    <2>6. k \in 1 .. Len(vars) /\ vars[k].name = n /\ k > 0
      BY <1>1, <2>1
    <2>7. n \in NamesOf(vars)
      BY <1>1, <2>6 DEF NamesOf
    <2> QED
      BY <2>5, <2>6, <2>7
  <1> QED
    BY <1>3, <1>4

\* The entry of a name is the one that is found.
LEMMA FoundIsEntry ==
    ASSUME NEW vars, IsTable(vars), NEW i \in DOMAIN vars
    PROVE  find_variable(vars, vars[i].name) = i
  <1>1. vars[i].name \in NamesOf(vars)
    BY DEF NamesOf
  <1>2. PICK k : k = find_variable(vars, vars[i].name)
    OBVIOUS
  <1>3. k \in 1 .. Len(vars) /\ vars[k].name = vars[i].name
    BY <1>1, <1>2, FoundVariable
  <1> QED
    BY <1>2, <1>3, TableTypes DEF IsTable, OneOfEach

LEMMA MapOfEntry ==
    ASSUME NEW vars, IsTable(vars), NEW i \in DOMAIN vars
    PROVE  vars[i].name \in NamesOf(vars) /\ MapOf(vars)[vars[i].name] = Says(vars[i])
  BY FoundIsEntry DEF MapOf, NamesOf

\* A map that agrees with every entry is the map of the table.
Agrees(e, vars) ==
  /\ e = [n \in NamesOf(vars) |-> e[n]]
  /\ \A i \in DOMAIN vars : e[vars[i].name] = Says(vars[i])

LEMMA MapIsOf ==
    ASSUME NEW vars, IsTable(vars), NEW e, Agrees(e, vars)
    PROVE  e = MapOf(vars)
  <1>1. ASSUME NEW n \in NamesOf(vars) PROVE e[n] = MapOf(vars)[n]
    <2>1. PICK i \in DOMAIN vars : vars[i].name = n
      BY DEF NamesOf
    <2> QED
      BY <2>1, MapOfEntry DEF Agrees
  <1>2. MapOf(vars) = [n \in NamesOf(vars) |-> MapOf(vars)[n]]
    BY DEF MapOf
  <1> QED
    BY <1>1, <1>2 DEF Agrees

\* As many names as entries.
LEMMA NamesCounted ==
    ASSUME NEW vars, IsTable(vars)
    PROVE  IsFiniteSet(NamesOf(vars)) /\ Cardinality(NamesOf(vars)) = Len(vars)
  <1>1. Len(vars) \in Nat /\ DOMAIN vars = 1 .. Len(vars)
    BY TableTypes
  <1>2. PICK f : f = [i \in 1 .. Len(vars) |-> vars[i].name]
    OBVIOUS
  <1>3. f \in Bijection(1 .. Len(vars), NamesOf(vars))
    <2>1. f \in [1 .. Len(vars) -> NamesOf(vars)]
      BY <1>1, <1>2 DEF NamesOf
    <2>2. \A i, j \in 1 .. Len(vars) : f[i] = f[j] => i = j
      BY <1>1, <1>2 DEF IsTable, OneOfEach
    <2>3. \A n \in NamesOf(vars) : \E i \in 1 .. Len(vars) : f[i] = n
      BY <1>1, <1>2 DEF NamesOf
    <2> QED
      BY <2>1, <2>2, <2>3 DEF Bijection, Injection, Surjection, IsInjective
  <1>4. IsFiniteSet(1 .. Len(vars)) /\ Cardinality(1 .. Len(vars)) = Len(vars)
    <2>1. PICK n \in Nat : n = Len(vars)
      BY <1>1
    <2>2. IsFiniteSet(1 .. n) /\ Cardinality(1 .. n) = IF 1 > n THEN 0 ELSE n - 1 + 1
      BY FS_Interval
    <2> QED
      BY <2>1, <2>2
  <1> QED
    BY <1>3, <1>4, FS_Bijection DEF ExistsBijection

LEMMA SameCardinality ==
    ASSUME NEW S
    PROVE  Env!Cardinality(S) = Cardinality(S)
  BY DEF Env!Cardinality, Cardinality

LEMMA EntryAssigned ==
    ASSUME NEW r \in Vars, NEW v, NEW c
    PROVE  [r EXCEPT !.value = v, !.exported = c]
             = [name |-> r.name, value |-> v, exported |-> c]
  <1>1. DOMAIN r = {"name", "value", "exported"}
    BY DEF Vars
  <1>2. PICK z : z = [r EXCEPT !.value = v, !.exported = c]
    OBVIOUS
  <1>3. DOMAIN z = {"name", "value", "exported"} /\ z = [k \in DOMAIN z |-> z[k]]
    BY <1>1, <1>2
  <1>4. z.name = r.name /\ z.value = v /\ z.exported = c
    BY <1>1, <1>2
  <1> QED
    BY <1>2, <1>3, <1>4

Changed(m, e) == [m EXCEPT ![e.name] = Says(e)]
WithEntry(m, e) ==
  [n \in DOMAIN m \cup {e.name} |-> IF n = e.name THEN Says(e) ELSE m[n]]

\* One entry says something else of the same name.
LEMMA EntryReplaced ==
    ASSUME NEW vars, IsTable(vars), NEW i \in 1 .. Len(vars), NEW e \in Vars,
           e.name = vars[i].name, NEW new, new = [vars EXCEPT ![i] = e]
    PROVE  IsTable(new) /\ MapOf(new) = Changed(MapOf(vars), e)
  <1>1. Len(vars) \in Nat /\ DOMAIN vars = 1 .. Len(vars) /\ vars \in Seq(Vars)
    BY TableTypes DEF IsTable
  <1>2. /\ new \in Seq(Vars) /\ Len(new) = Len(vars) /\ DOMAIN new = DOMAIN vars
        /\ \A j \in DOMAIN vars : new[j] = IF j = i THEN e ELSE vars[j]
    <2>1. new \in Seq(Vars) /\ Len(new) = Len(vars)
      BY <1>1, ExceptSeq
    <2>2. DOMAIN new = DOMAIN vars /\ \A j \in DOMAIN vars : new[j] = IF j = i THEN e ELSE vars[j]
      BY <1>1
    <2> QED
      BY <2>1, <2>2
  <1>3. \A j \in DOMAIN vars : new[j].name = vars[j].name
    BY <1>2
  <1>4. IsTable(new)
    BY <1>2, <1>3 DEF IsTable, OneOfEach
  <1>5. NamesOf(new) = NamesOf(vars)
    BY <1>2, <1>3 DEF NamesOf
  <1>6. PICK m : m = [MapOf(vars) EXCEPT ![e.name] = Says(e)] /\ m = Changed(MapOf(vars), e)
    BY DEF Changed
  <1>7. m = [n \in NamesOf(new) |-> m[n]]
    BY <1>5, <1>6 DEF MapOf
  <1>8. ASSUME NEW j \in DOMAIN new PROVE m[new[j].name] = Says(new[j])
    <2>1. /\ vars[j].name \in NamesOf(vars) /\ MapOf(vars)[vars[j].name] = Says(vars[j])
          /\ DOMAIN MapOf(vars) = NamesOf(vars)
      BY <1>2, MapOfEntry DEF MapOf
    <2>2. CASE j = i
      BY <1>2, <1>6, <2>1, <2>2
    <2>3. CASE j # i
      <3>1. vars[j].name # e.name
        BY <1>1, <1>2, <2>3 DEF IsTable, OneOfEach
      <3> QED
        BY <1>2, <1>6, <2>1, <2>3, <3>1
    <2> QED
      BY <2>2, <2>3
  <1>9. Agrees(m, new)
    BY <1>7, <1>8 DEF Agrees
  <1>10. m = MapOf(new)
    BY <1>4, <1>9, MapIsOf
  <1> QED
    BY <1>4, <1>6, <1>10

\* A new name gets the next entry.
LEMMA EntryAppended ==
    ASSUME NEW vars, IsTable(vars), Len(vars) < MAX_VARS, NEW e \in Vars,
           e.name \notin NamesOf(vars), NEW new, new = Append(vars, e)
    PROVE  IsTable(new) /\ MapOf(new) = WithEntry(MapOf(vars), e)
  <1>1. Len(vars) \in Nat /\ DOMAIN vars = 1 .. Len(vars) /\ vars \in Seq(Vars) /\ MAX_VARS \in Nat
    BY TableTypes, VarsAssumption DEF IsTable
  <1>2. /\ new \in Seq(Vars) /\ Len(new) = Len(vars) + 1 /\ DOMAIN new = 1 .. Len(vars) + 1
        /\ \A j \in 1 .. Len(vars) : new[j] = vars[j]
        /\ new[Len(vars) + 1] = e
    BY <1>1, AppendProperties, LenProperties
  <1>3. /\ DOMAIN new = DOMAIN vars \cup {Len(vars) + 1} /\ Len(vars) + 1 \notin DOMAIN vars
        /\ \A j \in DOMAIN vars : new[j] = vars[j]
    BY <1>1, <1>2
  <1>4. IsTable(new)
    <2>1. Len(new) <= MAX_VARS
      BY <1>1, <1>2
    <2>2. ASSUME NEW i \in DOMAIN new, NEW j \in DOMAIN new, new[i].name = new[j].name
          PROVE  i = j
      <3>1. \A k \in DOMAIN vars : vars[k].name # e.name
        BY DEF NamesOf
      <3> QED
        BY <1>2, <1>3, <2>2, <3>1 DEF IsTable, OneOfEach
    <2> QED
      BY <1>2, <2>1, <2>2 DEF IsTable, OneOfEach
  <1>5. NamesOf(new) = NamesOf(vars) \cup {e.name}
    <2>1. \A k \in DOMAIN vars : new[k].name = vars[k].name
      BY <1>3
    <2>2. new[Len(vars) + 1].name = e.name
      BY <1>2
    <2> QED
      BY <1>3, <2>1, <2>2 DEF NamesOf
  <1>6. PICK m : /\ m = [n \in NamesOf(vars) \cup {e.name} |->
                           IF n = e.name THEN Says(e) ELSE MapOf(vars)[n]]
                 /\ m = WithEntry(MapOf(vars), e)
    BY DEF WithEntry, MapOf
  <1>7. m = [n \in NamesOf(new) |-> m[n]]
    BY <1>5, <1>6
  <1>8. ASSUME NEW j \in DOMAIN new PROVE m[new[j].name] = Says(new[j])
    <2>1. CASE j \in DOMAIN vars
      <3>1. vars[j].name \in NamesOf(vars) /\ MapOf(vars)[vars[j].name] = Says(vars[j])
        BY <2>1, MapOfEntry
      <3> QED
        BY <1>3, <1>6, <2>1, <3>1
    <2>2. CASE j = Len(vars) + 1
      BY <1>2, <1>6, <2>2
    <2> QED
      BY <1>3, <2>1, <2>2
  <1>9. Agrees(m, new)
    BY <1>7, <1>8 DEF Agrees
  <1>10. m = MapOf(new)
    BY <1>4, <1>9, MapIsOf
  <1> QED
    BY <1>4, <1>6, <1>10

LEMMA VariableSet ==
    ASSUME NEW vars, IsTable(vars), NEW n \in Names, NEW v \in Values, NEW x \in BOOLEAN,
           NEW new, new = set_variable(vars, n, v, x)
    PROVE  IsTable(new) /\ MapOf(new) = Env!Put(MapOf(vars), n, v, x)
  <1>1. PICK i : i = find_variable(vars, n)
    OBVIOUS
  <1>2. \/ i = 0 /\ n \notin NamesOf(vars)
        \/ i \in 1 .. Len(vars) /\ i > 0 /\ vars[i].name = n /\ n \in NamesOf(vars)
    BY <1>1, FoundVariable
  <1>3. /\ DOMAIN MapOf(vars) = NamesOf(vars)
        /\ Cardinality(NamesOf(vars)) = Len(vars)
        /\ Len(vars) \in Nat /\ MAX_VARS \in Nat /\ DOMAIN vars = 1 .. Len(vars)
    BY NamesCounted, TableTypes, VarsAssumption DEF MapOf
  <1>4. CASE i # 0
    <2>0. i \in 1 .. Len(vars) /\ i > 0 /\ vars[i].name = n /\ n \in NamesOf(vars)
      BY <1>2, <1>4
    <2>1. vars[i] \in Vars
      BY <2>0, TableTypes
    <2>2. PICK e : e = [name |-> n, value |-> v, exported |-> vars[i].exported \/ x]
      OBVIOUS
    <2>3. e \in Vars /\ e.name = vars[i].name /\ e.name = n
      BY <2>0, <2>1, <2>2 DEF Vars
    <2>4. new = [vars EXCEPT ![i] = e]
      <3>1. new = [vars EXCEPT ![i].value = v, ![i].exported = @ \/ x]
        BY <1>1, <2>0 DEF set_variable
      <3>2. new = [vars EXCEPT ![i] = [vars[i] EXCEPT !.value = v, !.exported = @ \/ x]]
        BY <1>3, <2>0, <3>1
      <3>3. PICK c : c = (vars[i].exported \/ x)
        OBVIOUS
      <3>4. [vars[i] EXCEPT !.value = v, !.exported = @ \/ x]
              = [vars[i] EXCEPT !.value = v, !.exported = c]
        BY <3>3
      <3>5. [vars[i] EXCEPT !.value = v, !.exported = c]
              = [name |-> vars[i].name, value |-> v, exported |-> c]
        BY <2>1, EntryAssigned
      <3> QED
        BY <2>0, <2>2, <3>2, <3>3, <3>4, <3>5
    <2>5. IsTable(new) /\ MapOf(new) = Changed(MapOf(vars), e)
      BY <2>0, <2>3, <2>4, EntryReplaced
    <2>6. MapOf(vars)[n] = Says(vars[i])
      BY <1>3, <2>0, MapOfEntry
    <2>7. Says(e) = [value |-> v, exported |-> MapOf(vars)[n].exported \/ x]
      BY <2>2, <2>6 DEF Says
    <2>8. Env!Put(MapOf(vars), n, v, x)
            = [MapOf(vars) EXCEPT ![n] = [value |-> v, exported |-> @.exported \/ x]]
      BY <1>3, <2>0 DEF Env!Put
    <2> QED
      BY <2>3, <2>5, <2>7, <2>8 DEF Changed
  <1>5. CASE i = 0 /\ Len(vars) >= MAX_VARS
    <2>1. new = vars
      BY <1>1, <1>5 DEF set_variable
    <2>2. n \notin DOMAIN MapOf(vars) /\ Cardinality(DOMAIN MapOf(vars)) >= MAX_VARS
      BY <1>2, <1>3, <1>5
    <2>3. Env!Put(MapOf(vars), n, v, x) = MapOf(vars)
      BY <2>2, SameCardinality DEF Env!Put
    <2> QED
      BY <2>1, <2>3
  <1>6. CASE i = 0 /\ ~(Len(vars) >= MAX_VARS)
    <2>1. PICK e : e = [name |-> n, value |-> v, exported |-> x]
      OBVIOUS
    <2>2. e \in Vars /\ e.name = n
      BY <2>1 DEF Vars
    <2>3. new = Append(vars, e)
      BY <1>1, <1>6, <2>1 DEF set_variable
    <2>4. Len(vars) < MAX_VARS /\ e.name \notin NamesOf(vars)
      BY <1>2, <1>3, <1>6, <2>2
    <2>5. IsTable(new) /\ MapOf(new) = WithEntry(MapOf(vars), e)
      BY <2>2, <2>3, <2>4, EntryAppended
    <2>6. Says(e) = [value |-> v, exported |-> x]
      BY <2>1 DEF Says
    <2>7. n \notin DOMAIN MapOf(vars) /\ ~(Cardinality(DOMAIN MapOf(vars)) >= MAX_VARS)
      BY <1>2, <1>3, <1>6
    <2>8. Env!Put(MapOf(vars), n, v, x)
            = [m \in DOMAIN MapOf(vars) \cup {n} |->
                 IF m = n THEN [value |-> v, exported |-> x] ELSE MapOf(vars)[m]]
      BY <2>7, SameCardinality DEF Env!Put
    <2> QED
      BY <2>2, <2>5, <2>6, <2>8 DEF WithEntry
  <1> QED
    BY <1>4, <1>5, <1>6

LEMMA VariableExported ==
    ASSUME NEW vars, IsTable(vars), NEW n,
           NEW new, new = export_variable(vars, n)
    PROVE  /\ IsTable(new)
           /\ \/ new = vars
              \/ /\ n \in NamesOf(vars)
                 /\ MapOf(new) = [MapOf(vars) EXCEPT ![n].exported = TRUE]
  <1>1. PICK i : i = find_variable(vars, n)
    OBVIOUS
  <1>2. \/ i = 0 /\ n \notin NamesOf(vars)
        \/ i \in 1 .. Len(vars) /\ i > 0 /\ vars[i].name = n /\ n \in NamesOf(vars)
    BY <1>1, FoundVariable
  <1>3. CASE i = 0
    BY <1>1, <1>3 DEF export_variable
  <1>4. CASE i # 0
    <2>0. i \in 1 .. Len(vars) /\ i > 0 /\ vars[i].name = n /\ n \in NamesOf(vars)
      BY <1>2, <1>4
    <2>1. vars[i] \in Vars /\ DOMAIN vars = 1 .. Len(vars)
      BY <2>0, TableTypes
    <2>2. PICK e : e = [vars[i] EXCEPT !.exported = TRUE]
      OBVIOUS
    <2>3. e \in Vars /\ e.name = vars[i].name /\ e.value = vars[i].value /\ e.exported = TRUE
      BY <2>1, <2>2 DEF Vars
    <2>4. new = [vars EXCEPT ![i] = e]
      <3>1. new = [vars EXCEPT ![i].exported = TRUE]
        BY <1>1, <2>0 DEF export_variable
      <3> QED
        BY <2>0, <2>1, <2>2, <3>1
    <2>5. IsTable(new) /\ MapOf(new) = Changed(MapOf(vars), e)
      BY <2>0, <2>3, <2>4, EntryReplaced
    <2>6. MapOf(vars)[n] = Says(vars[i])
      BY <2>0, <2>1, MapOfEntry
    <2>7. [MapOf(vars)[n] EXCEPT !.exported = TRUE] = Says(e)
      <3>1. PICK r, z : r = MapOf(vars)[n] /\ z = [r EXCEPT !.exported = TRUE]
        OBVIOUS
      <3>2. DOMAIN r = {"value", "exported"} /\ r.value = e.value
        BY <2>3, <2>6, <3>1 DEF Says
      <3>3. DOMAIN z = {"value", "exported"} /\ z = [k \in DOMAIN z |-> z[k]]
        BY <3>1, <3>2
      <3>4. z.value = e.value /\ z.exported = e.exported
        BY <2>3, <3>1, <3>2
      <3> QED
        BY <3>1, <3>3, <3>4 DEF Says
    <2> QED
      BY <2>0, <2>3, <2>5, <2>7 DEF Changed
  <1> QED
    BY <1>3, <1>4

LEMMA VariableUnset ==
    ASSUME NEW vars, IsTable(vars), NEW n,
           NEW new, new = unset_variable(vars, n)
    PROVE  /\ IsTable(new)
           /\ \/ new = vars
              \/ /\ n \in NamesOf(vars)
                 /\ MapOf(new) = [m \in NamesOf(vars) \ {n} |-> MapOf(vars)[m]]
  <1>1. PICK i : i = find_variable(vars, n)
    OBVIOUS
  <1>2. \/ i = 0 /\ n \notin NamesOf(vars)
        \/ i \in 1 .. Len(vars) /\ i > 0 /\ vars[i].name = n /\ n \in NamesOf(vars)
    BY <1>1, FoundVariable
  <1>3. CASE i = 0
    BY <1>1, <1>3 DEF unset_variable
  <1>4. CASE i # 0
    <2>0. i \in 1 .. Len(vars) /\ i > 0 /\ vars[i].name = n /\ n \in NamesOf(vars)
      BY <1>2, <1>4
    <2>1. /\ Len(vars) \in Nat /\ DOMAIN vars = 1 .. Len(vars)
          /\ vars \in Seq(Vars) /\ MAX_VARS \in Nat /\ Len(vars) <= MAX_VARS
      BY TableTypes, VarsAssumption DEF IsTable
    <2>2. new = RemoveAt(vars, i)
      BY <1>1, <2>0 DEF unset_variable
    <2>3. /\ new \in Seq(Vars) /\ Len(new) = Len(vars) - 1
          /\ \A j \in 1 .. Len(vars) - 1 : new[j] = vars[IF j < i THEN j ELSE j + 1]
      BY <2>0, <2>1, <2>2, RemoveAtProperties
    <2>4. DOMAIN new = 1 .. Len(vars) - 1
      BY <2>3, LenProperties
    <2>5. PICK source : source = [j \in DOMAIN new |-> IF j < i THEN j ELSE j + 1]
      OBVIOUS
    <2>6. \A j \in DOMAIN new : /\ source[j] \in DOMAIN vars /\ source[j] # i
                                /\ source[j] = IF j < i THEN j ELSE j + 1
      BY <2>0, <2>1, <2>4, <2>5
    <2>7. \A j \in DOMAIN new : new[j] = vars[source[j]]
      BY <2>3, <2>4, <2>5
    <2>8. \A j, k \in DOMAIN new : source[j] = source[k] => j = k
      <3>1. \A j \in DOMAIN new : j \in Int
        BY <2>4
      <3>2. i \in Int
        BY <2>0
      <3> QED
        BY <2>6, <3>1, <3>2
    <2>9. \A k \in DOMAIN vars : k # i => \E j \in DOMAIN new : source[j] = k
      <3>1. ASSUME NEW k \in DOMAIN vars, k # i PROVE \E j \in DOMAIN new : source[j] = k
        <4>1. i \in Int /\ k \in Int /\ 1 <= k /\ k <= Len(vars) /\ 1 <= i /\ i <= Len(vars)
          BY <2>0, <2>1
        <4>2. CASE k < i
          <5>1. k \in DOMAIN new
            BY <2>1, <2>4, <4>1, <4>2
          <5> QED
            BY <2>6, <4>2, <5>1
        <4>3. CASE ~(k < i)
          <5>1. k - 1 \in DOMAIN new /\ ~(k - 1 < i) /\ (k - 1) + 1 = k
            BY <2>1, <2>4, <3>1, <4>1, <4>3
          <5> QED
            BY <2>6, <5>1
        <4> QED
          BY <4>2, <4>3
      <3> QED
        BY <3>1
    <2>10. IsTable(new)
      <3>1. Len(new) <= MAX_VARS
        BY <2>1, <2>3
      <3>2. OneOfEach(new)
        BY <2>6, <2>7, <2>8 DEF IsTable, OneOfEach
      <3> QED
        BY <2>3, <3>1, <3>2 DEF IsTable
    <2>11. NamesOf(new) = NamesOf(vars) \ {n}
      <3>1. ASSUME NEW j \in DOMAIN new PROVE new[j].name \in NamesOf(vars) \ {n}
        <4>1. vars[source[j]].name # n
          BY <2>0, <2>1, <2>6 DEF IsTable, OneOfEach
        <4> QED
          BY <2>6, <2>7, <4>1 DEF NamesOf
      <3>2. ASSUME NEW k \in DOMAIN vars, vars[k].name # n PROVE vars[k].name \in NamesOf(new)
        <4>1. PICK j \in DOMAIN new : source[j] = k
          BY <2>0, <2>9, <3>2
        <4> QED
          BY <2>7, <4>1 DEF NamesOf
      <3>3. NamesOf(new) \subseteq NamesOf(vars) \ {n}
        BY <3>1 DEF NamesOf
      <3>4. NamesOf(vars) \ {n} \subseteq NamesOf(new)
        BY <3>2 DEF NamesOf
      <3> QED
        BY <3>3, <3>4
    <2>12. PICK m : m = [k \in NamesOf(vars) \ {n} |-> MapOf(vars)[k]]
      OBVIOUS
    <2>13. Agrees(m, new)
      <3>1. m = [k \in NamesOf(new) |-> m[k]]
        BY <2>11, <2>12
      <3>2. ASSUME NEW j \in DOMAIN new PROVE m[new[j].name] = Says(new[j])
        <4>1. new[j].name \in NamesOf(vars) \ {n}
          BY <2>11 DEF NamesOf
        <4>2. MapOf(vars)[vars[source[j]].name] = Says(vars[source[j]])
          BY <2>6, MapOfEntry
        <4> QED
          BY <2>7, <2>12, <4>1, <4>2
      <3> QED
        BY <3>1, <3>2 DEF Agrees
    <2>14. m = MapOf(new)
      BY <2>10, <2>13, MapIsOf
    <2> QED
      BY <2>0, <2>10, <2>12, <2>14
  <1> QED
    BY <1>3, <1>4

\* The variables that main sets are a table.
LEMMA DefaultSet ==
    ASSUME NEW vars, IsTable(vars), NEW d \in Names \X Values
    PROVE  IsTable(SetDefault(vars, d))
  <1>1. d[1] \in Names /\ d[2] \in Values /\ TRUE \in BOOLEAN
    OBVIOUS
  <1>2. IsTable(set_variable(vars, d[1], d[2], TRUE))
    BY <1>1, VariableSet
  <1> QED
    BY <1>2 DEF SetDefault

LEMMA EmptyTable == IsTable(<<>>) /\ NamesOf(<<>>) = {}
  <1>1. <<>> \in Seq(Vars) /\ Len(<<>>) = 0 /\ DOMAIN <<>> = {}
    BY EmptySeq
  <1>2. Len(<<>>) <= MAX_VARS
    BY <1>1, VarsAssumption
  <1> QED
    BY <1>1, <1>2 DEF IsTable, OneOfEach, NamesOf

LEMMA DefaultsAreTable == IsTable(SetDefaults)
  <1> DEFINE N == Len(Defaults)
             Tables == {vars \in Seq(Vars) : IsTable(vars)}
             Turn(vars, n) == SetDefault(vars, Defaults[n])
             Eq(h) == h = [n \in 0 .. N |-> IF n = 0 THEN <<>> ELSE Turn(h[n - 1], n)]
             after == CHOOSE h : Eq(h)
  <1>1. N \in Nat /\ \A n \in 1 .. N : Defaults[n] \in Names \X Values
    BY ShellAssumption, LenProperties
  <1>2. \A vars \in Tables, n \in 1 .. N : Turn(vars, n) \in Tables
    BY <1>1, DefaultSet DEF IsTable
  <1>3. <<>> \in Tables
    BY EmptyTable DEF IsTable
  <1>4. SetDefaults = after[N]
    BY DEF SetDefaults
  <1> HIDE DEF N, Tables, Turn
  <1>5. PICK step : step = [p \in (1 .. N) \X Tables |-> Turn(p[2], p[1])]
    OBVIOUS
  <1>6. step \in [(1 .. N) \X Tables -> Tables]
    BY <1>2, <1>5
  <1>7. PICK f \in [0 .. N -> Tables] :
          f[0] = <<>> /\ \A n \in 1 .. N : f[n] = step[<<n, f[n - 1]>>]
    <2>1. \E f : Iterates(f, N, Tables, <<>>, step)
      BY <1>1, <1>3, <1>6, RecursionExists
    <2> QED
      BY <2>1 DEF Iterates
  <1>8. \A n \in 1 .. N : n - 1 \in 0 .. N /\ n \in 0 .. N /\ n # 0
    BY <1>1
  <1>9. \A n \in 1 .. N : f[n] = Turn(f[n - 1], n)
    BY <1>5, <1>7, <1>8
  <1>10. \A n \in 0 .. N : n # 0 => n \in 1 .. N
    BY <1>1
  <1>11. Eq(f)
    BY <1>7, <1>9, <1>10
  <1>12. Eq(after)
    <2> HIDE DEF Eq
    <2> QED
      BY <1>11
  <1> HIDE DEF after
  <1>13. /\ after[0] = <<>>
         /\ \A n \in 1 .. N : after[n] = Turn(after[n - 1], n)
    <2>1. 0 \in 0 .. N
      BY <1>1
    <2> QED
      BY <1>8, <1>12, <2>1
  <1> DEFINE T == {n \in 0 .. N : after[n] \in Tables}
  <1>14. 0 \in T
    BY <1>1, <1>3, <1>13
  <1>15. ASSUME NEW n \in 1 .. N, n - 1 \in T PROVE n \in T
    BY <1>2, <1>8, <1>13, <1>15
  <1>16. N \in T
    <2>1. N \in 0 .. N
      BY <1>1
    <2> HIDE DEF T
    <2> QED
      BY <1>1, <1>14, <1>15, <2>1, CountUp
  <1> QED
    BY <1>4, <1>16 DEF Tables

-----------------------------------------------------------------------------
(* The shell's commands and children.                                      *)

\* A child has these, whatever its program does.
IsChild(k) ==
  /\ DOMAIN k = {"st", "status", "bg", "path"} /\ k = [f \in DOMAIN k |-> k[f]]
  /\ k.status \in Int /\ k.bg \in BOOLEAN

\* The turns of repeat made and left are as many as it was asked for.
TurnsAdd ==
  /\ pc \in {"prompt", "assign"} => ran = 0
  /\ pc \in {"resolve", "fork", "wait"} =>
       /\ left \in Nat /\ ran \in Nat
       /\ pc # "wait" => left > 0
       /\ cmd.op = "repeat" => cmd.args[1] \in Int /\ ran + left = cmd.args[1]

\* The only child not in the background is the one that is waited for.
WaitedFor ==
  /\ \A p \in DOMAIN kids : kids[p].bg \/ (pc = "wait" /\ p = pid)
  /\ pc = "wait" => pid \in DOMAIN kids /\ ~kids[pid].bg

ShellInv ==
  /\ IsTable(variables)
  /\ last_exit_status \in 0 .. 255
  /\ cwd \in Values \cup {"/"}
  /\ IsCommand(cmd)
  /\ DOMAIN kids \subseteq Pids
  /\ \A p \in DOMAIN kids : IsChild(kids[p])
  /\ last_bg_pid # NoPid => last_bg_pid \in DOMAIN kids /\ kids[last_bg_pid].bg
  /\ WaitedFor
  /\ TurnsAdd

LEMMA AsMapIs == AsMap = MapOf(variables)
  BY DEF AsMap, MapOf, NamesOf, Says

LEMMA NoCmdIsCommand == IsCommand(NoCmd)
  <1>1. <<>> \in Seq(Names \X Values)
    BY EmptySeq
  <1> QED
    BY <1>1 DEF IsCommand, NoCmd

LEMMA ShellInvCorrect ==
    ASSUME ShellInv
    PROVE  ShellTypeOK /\ NoNameTwice /\ ForegroundReaped /\ BgPidIsChild
  <1>1. /\ DOMAIN variables = 1 .. Len(variables)
        /\ \A i \in 1 .. Len(variables) : variables[i] \in Vars
    BY TableTypes DEF ShellInv
  <1>2. ShellTypeOK
    BY <1>1 DEF ShellInv, ShellTypeOK, IsTable, Vars
  <1>3. NoNameTwice
    BY DEF ShellInv, IsTable, OneOfEach, NoNameTwice
  <1>4. ForegroundReaped
    BY DEF ShellInv, WaitedFor, ForegroundReaped
  <1>5. BgPidIsChild
    BY DEF ShellInv, BgPidIsChild
  <1> QED
    BY <1>2, <1>3, <1>4, <1>5

\* What is true at the start.
LEMMA ShellStarts == ShellInit => ShellInv
  <1> SUFFICES ASSUME ShellInit PROVE ShellInv
    OBVIOUS
  <1>1. IsTable(variables)
    BY DefaultsAreTable DEF ShellInit
  <1>2. DOMAIN kids = {}
    BY DEF ShellInit
  <1>3. IsCommand(cmd)
    BY NoCmdIsCommand DEF ShellInit
  <1> QED
    BY <1>1, <1>2, <1>3 DEF ShellInit, ShellInv, WaitedFor, TurnsAdd

\* The command is over.
LEMMA DoneKeeps ==
    ASSUME ShellInv, NEW status \in 0 .. 255, pc \in {"assign", "resolve", "fork"},
           IsTable(variables'), cwd' \in Values \cup {"/"}, Done(status)
    PROVE  ShellInv'
  <1>1. \A p \in DOMAIN kids : kids[p].bg
    BY DEF ShellInv, WaitedFor
  <1>2. IsCommand(cmd')
    BY NoCmdIsCommand DEF Done, Return
  <1> QED
    BY <1>1, <1>2 DEF ShellInv, WaitedFor, TurnsAdd, Done, Return

\* The next word of the command.
LEMMA WordKeeps ==
    ASSUME ShellInv, pc = "assign", IsTable(variables'), cwd' = cwd, IsCommand(cmd'),
           UNCHANGED <<last_exit_status, told, last_bg_pid, pc, left, pid, kids, ran, failed>>
    PROVE  ShellInv'
  BY DEF ShellInv, WaitedFor, TurnsAdd

\* A command less its first assignment or argument.
LEMMA CommandTail ==
    ASSUME NEW c, IsCommand(c)
    PROVE  /\ c.assign # <<>> => IsCommand([c EXCEPT !.assign = Tail(@)])
           /\ c.op \in {"export", "unset"} /\ c.args # <<>> =>
                IsCommand([c EXCEPT !.args = Tail(@)])
  <1>1. DOMAIN c = {"assign", "op", "args", "bg"}
    BY DEF IsCommand
  <1>2. ASSUME c.assign # <<>> PROVE IsCommand([c EXCEPT !.assign = Tail(@)])
    <2>1. Tail(c.assign) \in Seq(Names \X Values)
      BY <1>2, HeadTailProperties DEF IsCommand
    <2>2. PICK d : d = [c EXCEPT !.assign = Tail(@)]
      OBVIOUS
    <2>3. d.assign = Tail(c.assign) /\ d.op = c.op /\ d.args = c.args /\ d.bg = c.bg
      BY <1>1, <2>2
    <2>4. DOMAIN d = {"assign", "op", "args", "bg"} /\ d = [k \in DOMAIN d |-> d[k]]
      BY <1>1, <2>2
    <2>5. d = [assign |-> d.assign, op |-> d.op, args |-> d.args, bg |-> d.bg]
      BY <2>4
    <2>6. IsCommand(d)
      BY <2>1, <2>3, <2>5 DEF IsCommand
    <2> QED
      BY <2>2, <2>6
  <1>3. ASSUME c.op \in {"export", "unset"}, c.args # <<>>
        PROVE  IsCommand([c EXCEPT !.args = Tail(@)])
    <2>1. /\ c.op = "export" => Tail(c.args) \in Seq({<<n>> : n \in Names} \cup Names \X Values)
          /\ c.op = "unset" => Tail(c.args) \in Seq(Names)
      BY <1>3, HeadTailProperties DEF IsCommand
    <2>2. PICK d : d = [c EXCEPT !.args = Tail(@)]
      OBVIOUS
    <2>3. d.assign = c.assign /\ d.op = c.op /\ d.args = Tail(c.args) /\ d.bg = c.bg
      BY <1>1, <2>2
    <2>4. DOMAIN d = {"assign", "op", "args", "bg"} /\ d = [k \in DOMAIN d |-> d[k]]
      BY <1>1, <2>2
    <2>5. d = [assign |-> d.assign, op |-> d.op, args |-> d.args, bg |-> d.bg]
      BY <2>4
    <2>6. IsCommand(d)
      BY <1>3, <2>1, <2>3, <2>5 DEF IsCommand
    <2> QED
      BY <2>2, <2>6
  <1> QED
    BY <1>2, <1>3

\* What HOME says is a value or "/".
LEMMA VariableGot ==
    ASSUME NEW vars, IsTable(vars), NEW n, NEW default
    PROVE  get_variable(vars, n, default) \in Values \cup {default}
  <1>1. PICK i : i = find_variable(vars, n)
    OBVIOUS
  <1>2. i = 0 \/ (i \in 1 .. Len(vars) /\ i > 0)
    BY <1>1, FoundVariable
  <1>3. i # 0 => vars[i].value \in Values
    BY <1>2, TableTypes DEF Vars
  <1> QED
    BY <1>1, <1>2, <1>3 DEF get_variable

\* fork gives the shell a child, with or without waiting for it.
LEMMA ForkKeeps == ShellInv /\ fork => ShellInv'
  <1> SUFFICES ASSUME ShellInv, fork PROVE ShellInv'
    OBVIOUS
  <1>1. CASE Pids \subseteq DOMAIN kids
    <2>1. Done(1) /\ 1 \in 0 .. 255 /\ UNCHANGED <<variables, cwd>> /\ pc = "fork"
      BY <1>1 DEF fork
    <2> QED
      BY <2>1, DoneKeeps DEF ShellInv
  <1>2. CASE ~(Pids \subseteq DOMAIN kids)
    <2>1. PICK p \in Pids \ DOMAIN kids :
            /\ LET child == [st |-> "forked", status |-> 0, path |-> Program,
                             bg |-> cmd.bg /\ cmd.op # "repeat"]
               IN  kids' = [q \in DOMAIN kids \cup {p} |-> IF q = p THEN child ELSE kids[q]]
            /\ IF Background THEN Return /\ last_bg_pid' = p
               ELSE /\ pc' = "wait" /\ pid' = p
                    /\ left' = left - 1 /\ ran' = ran + 1
                    /\ UNCHANGED <<cmd, last_bg_pid, failed>>
            /\ UNCHANGED <<last_exit_status, told>>
      BY <1>2 DEF fork
    <2>2. PICK b : b = (cmd.bg /\ cmd.op # "repeat")
      OBVIOUS
    <2>3. b \in BOOLEAN /\ (b <=> Background)
      BY <2>2 DEF Background
    <2>4. PICK k : k = [st |-> "forked", status |-> 0, path |-> Program, bg |-> b]
      OBVIOUS
    <2>5. IsChild(k) /\ k.bg = b
      BY <2>3, <2>4 DEF IsChild
    <2>6. /\ DOMAIN kids' = DOMAIN kids \cup {p} /\ kids'[p] = k
          /\ \A q \in DOMAIN kids : kids'[q] = kids[q] /\ q # p
      <3>1. kids' = [q \in DOMAIN kids \cup {p} |-> IF q = p THEN k ELSE kids[q]]
        BY <2>1, <2>2, <2>4
      <3> QED
        BY <2>1, <3>1
    <2>7. /\ pc = "fork" /\ UNCHANGED <<variables, cwd>> /\ DOMAIN kids \subseteq Pids
          /\ \A q \in DOMAIN kids : kids[q].bg /\ IsChild(kids[q])
          /\ left \in Nat /\ ran \in Nat /\ left > 0
          /\ cmd.op = "repeat" => cmd.args[1] \in Int /\ ran + left = cmd.args[1]
      BY DEF fork, ShellInv, WaitedFor, TurnsAdd
    <2>8. CASE Background
      <3>1. IsCommand(cmd') /\ pc' = "prompt" /\ ran' = 0 /\ last_bg_pid' = p
        BY <2>1, <2>8, NoCmdIsCommand DEF Return
      <3> QED
        BY <2>1, <2>3, <2>5, <2>6, <2>7, <2>8, <3>1 DEF ShellInv, WaitedFor, TurnsAdd
    <2>9. CASE ~Background
      <3>1. WaitedFor'
        BY <2>1, <2>3, <2>5, <2>6, <2>7, <2>9 DEF WaitedFor
      <3>2. TurnsAdd'
        BY <2>1, <2>7, <2>9 DEF TurnsAdd
      <3>3. last_bg_pid' # NoPid => last_bg_pid' \in DOMAIN kids' /\ kids'[last_bg_pid'].bg
        BY <2>1, <2>6, <2>9 DEF ShellInv
      <3>4. \A q \in DOMAIN kids' : IsChild(kids'[q])
        BY <2>5, <2>6, <2>7
      <3>5. IsCommand(cmd')
        BY <2>1, <2>9 DEF ShellInv
      <3> QED
        BY <2>1, <2>6, <2>7, <3>1, <3>2, <3>3, <3>4, <3>5 DEF ShellInv
    <2> QED
      BY <2>8, <2>9
  <1> QED
    BY <1>1, <1>2

\* waitpid takes the child that was waited for away.
LEMMA WaitpidKeeps == ShellInv /\ waitpid => ShellInv'
  <1> SUFFICES ASSUME ShellInv, waitpid PROVE ShellInv'
    OBVIOUS
  <1>1. PICK p \in Dead : 
          LET status == (kids[p].status \div 256) % 256
          IN  /\ kids' = Restrict(kids, DOMAIN kids \ {p})
              /\ last_exit_status' = status
              /\ told' = kids[p].status
              /\ IF MoreTurns /\ status = 0
                 THEN /\ pc' = "resolve"
                      /\ failed' = (failed \/ told' # 0)
                      /\ UNCHANGED <<cmd, left, pid, ran>>
                 ELSE Return
    BY Zenon DEF waitpid
  <1>2. /\ pc = "wait" /\ p = pid /\ pid \in DOMAIN kids /\ ~kids[pid].bg
        /\ \A q \in DOMAIN kids \ {p} : kids[q].bg
        /\ \A q \in DOMAIN kids : IsChild(kids[q])
        /\ left \in Nat /\ ran \in Nat
        /\ cmd.op = "repeat" => cmd.args[1] \in Int /\ ran + left = cmd.args[1]
    BY <1>1 DEF waitpid, Dead, ShellInv, WaitedFor, TurnsAdd
  <1>3. /\ DOMAIN kids' = DOMAIN kids \ {p}
        /\ \A q \in DOMAIN kids \ {p} : kids'[q] = kids[q]
    BY <1>1 DEF Restrict
  <1>4. last_exit_status' \in 0 .. 255
    <2>1. kids[p].status \in Int
      BY <1>2 DEF IsChild
    <2> QED
      BY <1>1, <2>1
  <1>5. UNCHANGED <<variables, last_bg_pid, cwd>>
    BY DEF waitpid, Private
  <1>6. /\ IsCommand(cmd')
        /\ \/ pc' = "resolve" /\ left > 0 /\ UNCHANGED <<cmd, left, ran>>
           \/ pc' = "prompt" /\ ran' = 0
    BY <1>1, <1>2, NoCmdIsCommand DEF Return, MoreTurns, ShellInv
  <1>7. WaitedFor' /\ TurnsAdd'
    BY <1>2, <1>3, <1>6 DEF WaitedFor, TurnsAdd
  <1>8. last_bg_pid' # NoPid => last_bg_pid' \in DOMAIN kids' /\ kids'[last_bg_pid'].bg
    BY <1>2, <1>3, <1>5 DEF ShellInv
  <1> QED
    BY <1>2, <1>3, <1>4, <1>5, <1>6, <1>7, <1>8 DEF ShellInv

\* The children keep what the shell knows of them.
LEMMA ChildKeeps ==
    ASSUME ShellInv, NEW p \in DOMAIN kids, ChildExec(p) \/ ChildExit(p)
    PROVE  ShellInv'
  <1>1. PICK new : Child(p, new) /\ IsChild(new) /\ new.bg = kids[p].bg
    <2>1. IsChild(kids[p])
      BY DEF ShellInv
    <2>2. ASSUME NEW st, NEW s \in Int, NEW new, new = [kids[p] EXCEPT !.st = st, !.status = s]
          PROVE  IsChild(new) /\ new.bg = kids[p].bg
      BY <2>1, <2>2 DEF IsChild
    <2>3. ASSUME NEW st, NEW new, new = [kids[p] EXCEPT !.st = st]
          PROVE  IsChild(new) /\ new.bg = kids[p].bg
      BY <2>1, <2>3 DEF IsChild
    <2>4. CASE ChildExec(p)
      <3>1. CASE kids[p].path \in Missing
        <4>1. PICK new : new = [kids[p] EXCEPT !.st = "zombie", !.status = 1]
          OBVIOUS
        <4>2. Child(p, new)
          BY <2>4, <3>1, <4>1 DEF ChildExec
        <4>3. PICK s \in Int : s = 1
          OBVIOUS
        <4>4. new = [kids[p] EXCEPT !.st = "zombie", !.status = s]
          BY <4>1, <4>3
        <4>5. IsChild(new) /\ new.bg = kids[p].bg
          BY <2>2, <4>4
        <4> QED
          BY <4>2, <4>5
      <3>2. CASE kids[p].path \notin Missing
        <4>1. PICK new : new = [kids[p] EXCEPT !.st = "running"]
          OBVIOUS
        <4> QED
          BY <2>3, <2>4, <3>2, <4>1 DEF ChildExec
      <3> QED
        BY <3>1, <3>2
    <2>5. CASE ChildExit(p)
      <3>1. PICK s \in Statuses : Child(p, [kids[p] EXCEPT !.st = "zombie", !.status = s])
        BY <2>5 DEF ChildExit
      <3>2. PICK new : new = [kids[p] EXCEPT !.st = "zombie", !.status = s]
        OBVIOUS
      <3>3. s \in Int
        BY ShellAssumption
      <3> QED
        BY <2>2, <3>1, <3>2, <3>3
    <2> QED
      BY <2>4, <2>5
  <1>2. /\ DOMAIN kids' = DOMAIN kids /\ kids'[p] = new
        /\ \A q \in DOMAIN kids \ {p} : kids'[q] = kids[q]
    BY <1>1 DEF Child
  <1>3. /\ \A q \in DOMAIN kids' : kids'[q].bg = kids[q].bg
        /\ \A q \in DOMAIN kids' : IsChild(kids'[q])
    BY <1>1, <1>2 DEF ShellInv
  <1> QED
    BY <1>1, <1>2, <1>3 DEF ShellInv, WaitedFor, TurnsAdd, Child, Private

\* Every step keeps the invariant.
LEMMA ShellKept == ShellInv /\ [ShellNext]_shellVars => ShellInv'
  <1> SUFFICES ASSUME ShellInv, [ShellNext]_shellVars PROVE ShellInv'
    OBVIOUS
  <1>0. /\ IsTable(variables) /\ cwd \in Values \cup {"/"} /\ IsCommand(cmd)
        /\ 0 \in 0 .. 255 /\ 1 \in 0 .. 255 /\ 127 \in 0 .. 255
    BY DEF ShellInv
  <1>1. CASE Line
    <2>1. IsCommand(cmd')
      BY <1>1, ShellAssumption DEF Line
    <2> QED
      BY <1>1, <2>1 DEF ShellInv, WaitedFor, TurnsAdd, Line, Private
  <1>2. CASE Assignment
    <2>1. PICK w : w = Head(cmd.assign)
      OBVIOUS
    <2>2. w[1] \in Names /\ w[2] \in Values
      <3>1. w \in Names \X Values
        BY <1>0, <1>2, <2>1, HeadTailProperties DEF Assignment, IsCommand
      <3> QED
        BY <3>1
    <2>3. pc = "assign" /\ variables' = set_variable(variables, w[1], w[2], FALSE) /\ cwd' = cwd
      BY <1>2, <2>1 DEF Assignment
    <2>4. IsTable(variables')
      BY <1>0, <2>2, <2>3, VariableSet
    <2>5. CASE Done(0)
      BY <1>0, <2>3, <2>4, <2>5, DoneKeeps
    <2>6. CASE ~Done(0)
      <3>1. /\ cmd' = [cmd EXCEPT !.assign = Tail(@)]
            /\ UNCHANGED <<last_exit_status, told, last_bg_pid, pc, left, pid, kids, ran, failed>>
        BY <1>2, <2>6 DEF Assignment
      <3>2. IsCommand(cmd')
        BY <1>0, <1>2, <3>1, CommandTail DEF Assignment
      <3> QED
        BY <2>3, <2>4, <3>1, <3>2, WordKeeps
    <2> QED
      BY <2>5, <2>6
  <1>3. CASE Nothing
    <2>1. IsCommand(cmd') /\ pc = "assign" /\ pc' = "prompt" /\ ran' = 0
      BY <1>3, NoCmdIsCommand DEF Nothing, Ready, Return
    <2> QED
      BY <1>3, <2>1 DEF ShellInv, WaitedFor, TurnsAdd, Nothing, Private
  <1>4. CASE builtin_exit
    BY <1>4 DEF ShellInv, WaitedFor, TurnsAdd, builtin_exit, Ready, Private
  <1>5. CASE builtin_cd
    <2>1. pc = "assign" /\ variables' = variables
      BY <1>5 DEF builtin_cd, Ready
    <2>2. cwd' \in Values \cup {"/"}
      <3>1. CASE cmd.args = <<>>
        BY <1>0, <1>5, <3>1, VariableGot DEF builtin_cd
      <3>2. CASE cmd.args # <<>> /\ Len(cmd.args) <= 1
        <4>1. cmd.args \in Seq(Values)
          BY <1>0, <1>5 DEF IsCommand, builtin_cd, Ready
        <4>2. cmd.args[1] \in Values
          BY <3>2, <4>1, HeadTailProperties
        <4> QED
          BY <1>0, <1>5, <3>2, <4>2 DEF builtin_cd
      <3>3. CASE ~(Len(cmd.args) <= 1)
        BY <1>0, <1>5, <3>3 DEF builtin_cd
      <3> QED
        BY <3>1, <3>2, <3>3
    <2>3. Done(0) \/ Done(1)
      BY <1>5 DEF builtin_cd
    <2> QED
      BY <1>0, <2>1, <2>2, <2>3, DoneKeeps
  <1>6. CASE builtin_set
    BY <1>0, <1>6, DoneKeeps DEF builtin_set
  <1>7. CASE builtin_env_like
    <2>1. /\ Done(0) \/ Done(1)
          /\ pc = "assign" /\ UNCHANGED <<variables, cwd>>
      BY <1>7 DEF builtin_env_like, Ready
    <2> QED
      BY <1>0, <2>1, DoneKeeps
  <1>8. CASE builtin_help
    <2>1. /\ Done(0) \/ Done(1)
          /\ pc = "assign" /\ UNCHANGED <<variables, cwd>>
      BY <1>8 DEF builtin_help, Ready
    <2> QED
      BY <1>0, <2>1, DoneKeeps
  <1>9. ASSUME NextArgument, IsTable(variables'), cwd' = cwd, pc = "assign",
               cmd.op \in {"export", "unset"}, cmd.args # <<>>
        PROVE  ShellInv'
    <2>1. CASE Done(0)
      BY <1>0, <1>9, <2>1, DoneKeeps
    <2>2. CASE ~Done(0)
      <3>1. /\ cmd' = [cmd EXCEPT !.args = Tail(@)]
            /\ UNCHANGED <<last_exit_status, told, last_bg_pid, pc, left, pid, kids, ran, failed>>
        BY <1>9, <2>2 DEF NextArgument
      <3>2. IsCommand(cmd')
        BY <1>0, <1>9, <3>1, CommandTail
      <3> QED
        BY <1>9, <3>1, <3>2, WordKeeps
    <2> QED
      BY <2>1, <2>2
  <1>10. CASE builtin_export
    <2>1. PICK a : a = Head(cmd.args)
      OBVIOUS
    <2>2. /\ cmd.args # <<>> /\ cmd.op = "export" /\ pc = "assign" /\ cwd' = cwd
          /\ NextArgument
          /\ variables' = IF Len(a) = 2 THEN set_variable(variables, a[1], a[2], TRUE)
                                        ELSE export_variable(variables, a[1])
      BY <1>10, <2>1 DEF builtin_export, Ready
    <2>3. Len(a) = 2 => a[1] \in Names /\ a[2] \in Values
      <3>1. a \in {<<n>> : n \in Names} \cup Names \X Values
        BY <1>0, <2>1, <2>2, HeadTailProperties DEF IsCommand
      <3> QED
        BY <3>1
    <2>4. IsTable(variables')
      BY <1>0, <2>2, <2>3, VariableSet, VariableExported
    <2> QED
      BY <1>9, <2>2, <2>4
  <1>11. CASE builtin_unset
    <2>1. /\ cmd.op = "unset" /\ pc = "assign" /\ cwd' = cwd
          /\ \/ Done(1) /\ UNCHANGED variables
             \/ /\ cmd.args # <<>> /\ NextArgument
                /\ variables' = unset_variable(variables, Head(cmd.args))
      BY <1>11 DEF builtin_unset, Ready
    <2>2. IsTable(variables')
      BY <1>0, <2>1, VariableUnset
    <2> QED
      BY <1>0, <1>9, <2>1, <2>2, DoneKeeps
  <1>12. CASE builtin_repeat
    <2>1. cmd.op = "repeat" /\ pc = "assign" /\ UNCHANGED <<variables, cwd>>
      BY <1>12 DEF builtin_repeat, Ready
    <2>2. CASE Len(cmd.args) < 2 \/ cmd.args[1] <= 0
      BY <1>0, <1>12, <2>1, <2>2, DoneKeeps DEF builtin_repeat
    <2>3. CASE ~(Len(cmd.args) < 2 \/ cmd.args[1] <= 0)
      <3>1. /\ left' = cmd.args[1] /\ pc' = "resolve"
            /\ UNCHANGED <<last_exit_status, last_bg_pid, cmd, pid, kids, told, ran, failed>>
        BY <1>12, <2>3 DEF builtin_repeat
      <3>2. cmd.args[1] \in Int /\ cmd.args[1] > 0
        BY <1>0, <2>1, <2>3 DEF IsCommand
      <3>3. TurnsAdd'
        BY <2>1, <3>1, <3>2 DEF TurnsAdd, ShellInv
      <3> QED
        BY <2>1, <3>1, <3>3 DEF ShellInv, WaitedFor
    <2> QED
      BY <2>2, <2>3
  <1>13. CASE run_program
    <2>1. cmd.op # "repeat"
      BY <1>13 DEF run_program, Builtins
    <2> QED
      BY <1>13, <2>1 DEF run_program, Ready, ShellInv, WaitedFor, TurnsAdd, Private
  <1>14. CASE resolve_full_path
    <2>1. /\ pc = "resolve" /\ UNCHANGED <<variables, cwd>>
          /\ \/ Done(127)
             \/ pc' = "fork" /\ UNCHANGED <<last_exit_status, last_bg_pid, cmd, left, pid, kids,
                                            told, ran, failed>>
      BY <1>14 DEF resolve_full_path
    <2>2. CASE Done(127)
      BY <1>0, <2>1, <2>2, DoneKeeps
    <2>3. CASE ~Done(127)
      BY <2>1, <2>3 DEF ShellInv, WaitedFor, TurnsAdd
    <2> QED
      BY <2>2, <2>3
  <1>15. CASE ChildStep
    BY <1>15, ChildKeeps DEF ChildStep
  <1>16. CASE UNCHANGED shellVars
    BY <1>16 DEF shellVars, ShellInv, WaitedFor, TurnsAdd
  <1> QED
    BY <1>1, <1>2, <1>3, <1>4, <1>5, <1>6, <1>7, <1>8, <1>10, <1>11, <1>12, <1>13, <1>14,
       <1>15, <1>16, ForkKeeps, WaitpidKeeps DEF ShellNext, Sh

\* The table of the start is a map the promise starts from.
LEMMA EnvStarts == ShellInit => Env!Init
  <1> SUFFICES ASSUME ShellInit PROVE Env!Init
    OBVIOUS
  <1>1. IsTable(variables)
    BY ShellStarts DEF ShellInv
  <1>2. PICK S : S = NamesOf(variables)
    OBVIOUS
  <1>3. S \subseteq Names /\ \A i \in DOMAIN variables : Says(variables[i]) \in Env!Entry
    BY <1>1, <1>2, TableTypes DEF NamesOf, Vars, Says, Env!Entry
  <1>4. Env!Cardinality(S) <= MAX_VARS
    BY <1>1, <1>2, NamesCounted, SameCardinality DEF IsTable
  <1>5. AsMap \in [S -> Env!Entry]
    <2>1. \A n \in S : MapOf(variables)[n] \in Env!Entry
      <3> SUFFICES ASSUME NEW n \in S PROVE MapOf(variables)[n] \in Env!Entry
        OBVIOUS
      <3>1. PICK i \in DOMAIN variables : variables[i].name = n
        BY <1>2 DEF NamesOf
      <3> QED
        BY <1>1, <1>3, <3>1, MapOfEntry
    <2>2. AsMap = [n \in S |-> MapOf(variables)[n]]
      BY <1>2, AsMapIs DEF MapOf
    <2> QED
      BY <2>1, <2>2
  <1> QED
    BY <1>3, <1>4, <1>5 DEF Env!Init

\* A change of the table is one of the map.
LEMMA EnvSteps ==
    ASSUME ShellInv,
           \/ UNCHANGED variables
           \/ \E n \in Names, v \in Values, x \in BOOLEAN :
                variables' = set_variable(variables, n, v, x)
           \/ \E n : variables' = export_variable(variables, n)
           \/ \E n : variables' = unset_variable(variables, n)
    PROVE  [Env!Next]_AsMap
  <1>1. IsTable(variables)
    BY DEF ShellInv
  <1>2. AsMap = MapOf(variables) /\ AsMap' = MapOf(variables')
    BY AsMapIs DEF AsMap, MapOf, NamesOf, Says
  <1>3. NamesOf(variables) \subseteq Names /\ DOMAIN AsMap = NamesOf(variables)
    BY <1>1, <1>2, TableTypes DEF NamesOf, Vars, MapOf
  <1>4. CASE UNCHANGED variables
    BY <1>2, <1>4
  <1>5. CASE \E n \in Names, v \in Values, x \in BOOLEAN :
               variables' = set_variable(variables, n, v, x)
    <2>1. PICK n \in Names, v \in Values, x \in BOOLEAN :
            variables' = set_variable(variables, n, v, x)
      BY <1>5
    <2>2. AsMap' = Env!Put(AsMap, n, v, x)
      BY <1>1, <1>2, <2>1, VariableSet
    <2>3. Env!Assign(n, v, x)
      BY <2>2 DEF Env!Assign
    <2> QED
      BY <2>3 DEF Env!Next
  <1>6. CASE \E n : variables' = export_variable(variables, n)
    <2>1. PICK n : variables' = export_variable(variables, n)
      BY <1>6
    <2>2. \/ variables' = variables
          \/ n \in NamesOf(variables) /\ AsMap' = [AsMap EXCEPT ![n].exported = TRUE]
      BY <1>1, <1>2, <2>1, VariableExported
    <2>3. CASE variables' = variables
      BY <1>2, <2>3
    <2>4. CASE n \in NamesOf(variables) /\ AsMap' = [AsMap EXCEPT ![n].exported = TRUE]
      BY <1>3, <2>4 DEF Env!Next, Env!Mark
    <2> QED
      BY <2>2, <2>3, <2>4
  <1>7. CASE \E n : variables' = unset_variable(variables, n)
    <2>1. PICK n : variables' = unset_variable(variables, n)
      BY <1>7
    <2>2. \/ variables' = variables
          \/ n \in NamesOf(variables) /\ AsMap' = [m \in NamesOf(variables) \ {n} |-> AsMap[m]]
      BY <1>1, <1>2, <2>1, VariableUnset
    <2>3. CASE variables' = variables
      BY <1>2, <2>3
    <2>4. CASE n \in NamesOf(variables) /\ AsMap' = [m \in NamesOf(variables) \ {n} |-> AsMap[m]]
      BY <1>3, <2>4 DEF Env!Next, Env!Unset
    <2> QED
      BY <2>2, <2>3, <2>4
  <1> QED
    BY <1>4, <1>5, <1>6, <1>7

\* No other step changes the table.
LEMMA ShellChanges ==
    ASSUME ShellInv, [ShellNext]_shellVars
    PROVE  \/ UNCHANGED variables
           \/ \E n \in Names, v \in Values, x \in BOOLEAN :
                variables' = set_variable(variables, n, v, x)
           \/ \E n : variables' = export_variable(variables, n)
           \/ \E n : variables' = unset_variable(variables, n)
  <1>1. CASE Assignment
    <2>1. PICK w : w = Head(cmd.assign)
      OBVIOUS
    <2>2. w \in Names \X Values
      BY <1>1, <2>1, HeadTailProperties DEF ShellInv, Assignment, IsCommand
    <2>3. w[1] \in Names /\ w[2] \in Values
      BY <2>2
    <2>4. variables' = set_variable(variables, w[1], w[2], FALSE)
      BY <1>1, <2>1 DEF Assignment
    <2> QED
      BY <2>3, <2>4
  <1>2. CASE builtin_export
    <2>1. PICK a : a = Head(cmd.args)
      OBVIOUS
    <2>2. a \in {<<n>> : n \in Names} \cup Names \X Values
      BY <1>2, <2>1, HeadTailProperties DEF ShellInv, builtin_export, Ready, IsCommand
    <2>3. Len(a) = 2 => a[1] \in Names /\ a[2] \in Values
      BY <2>2
    <2>4. variables' = IF Len(a) = 2 THEN set_variable(variables, a[1], a[2], TRUE)
                                     ELSE export_variable(variables, a[1])
      BY <1>2, <2>1 DEF builtin_export
    <2> QED
      BY <2>3, <2>4
  <1>3. CASE builtin_unset
    BY <1>3 DEF builtin_unset
  <1>4. CASE UNCHANGED variables
    BY <1>4
  <1>5. (\/ Line \/ Nothing \/ builtin_exit \/ builtin_cd \/ builtin_set \/ builtin_env_like
            \/ builtin_help \/ builtin_repeat \/ run_program \/ resolve_full_path
            \/ fork \/ waitpid)
        => UNCHANGED variables
    BY DEF Line, Nothing, builtin_exit, builtin_cd, builtin_set, builtin_env_like,
           builtin_help, builtin_repeat, run_program, resolve_full_path, fork, waitpid,
           Private
  <1>6. ChildStep \/ UNCHANGED shellVars => UNCHANGED variables
    BY DEF ChildStep, ChildExec, ChildExit, Child, Private, shellVars
  <1> QED
    BY <1>1, <1>2, <1>3, <1>4, <1>5, <1>6 DEF ShellNext, Sh

\* repeat that has no turn left has made them all.
LEMMA RepeatTurns ==
    ASSUME ShellInv, [ShellNext]_shellVars,
           cmd.op = "repeat", pc = "wait", pc' = "prompt", last_exit_status' = 0
    PROVE  ran = cmd.args[1]
  <1>1. waitpid
    <2>1. ~(\/ Assignment \/ Nothing \/ builtin_exit \/ builtin_cd \/ builtin_set
            \/ builtin_env_like \/ builtin_help \/ builtin_export \/ builtin_unset
            \/ builtin_repeat \/ run_program)
      BY DEF Assignment, Nothing, builtin_exit, builtin_cd, builtin_set,
             builtin_env_like, builtin_help, builtin_export, builtin_unset,
             builtin_repeat, run_program, Ready
    <2>2. ~(Line \/ resolve_full_path \/ fork)
      BY DEF Line, resolve_full_path, fork
    <2>3. ~ChildStep /\ ~UNCHANGED shellVars
      BY DEF ChildStep, ChildExec, ChildExit, Child, shellVars
    <2> QED
      BY <2>1, <2>2, <2>3 DEF ShellNext, Sh
  <1>2. ~MoreTurns
    BY <1>1 DEF waitpid
  <1> QED
    BY <1>2 DEF ShellInv, TurnsAdd, MoreTurns

(* The shell is correct: its table of variables implements a map, the      *)
(* programs run in the foreground are reaped, $! names a child, and repeat *)
(* makes its turns (process_command and the builtins of bin/sh.c).         *)
THEOREM ShellIsCorrect == ShellSpec => ShellCorrect
  <1>1. ShellInit => ShellInv /\ Env!Init
    BY ShellStarts, EnvStarts
  <1>2. ShellInv /\ [ShellNext]_shellVars => ShellInv'
    BY ShellKept
  <1>3. ShellInv => ShellTypeOK /\ NoNameTwice /\ ForegroundReaped /\ BgPidIsChild
    BY ShellInvCorrect
  <1>4. ShellInv /\ [ShellNext]_shellVars => [Env!Next]_AsMap
    BY ShellChanges, EnvSteps
  <1>5. ShellInv /\ [ShellNext]_shellVars =>
          [cmd.op = "repeat" /\ pc = "wait" /\ pc' = "prompt" /\ last_exit_status' = 0
             => ran = cmd.args[1]]_shellVars
    BY RepeatTurns
  <1> QED
    BY <1>1, <1>2, <1>3, <1>4, <1>5, PTL
    DEF ShellSpec, ShellCorrect, VariablesAreMap, RepeatMakesItsTurns, Env!Spec
==============================================================================
