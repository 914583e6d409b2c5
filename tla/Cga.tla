-------------------------------- MODULE Cga ---------------------------------
(***************************************************************************)
(* The text screen of kernel/console.c as operators on its contents: the   *)
(* cursor and scrolling of cgaputc, the colour table drawn over it and the *)
(* recolouring done by the menu.  A cell is a glyph and an attribute; a    *)
(* glyph is "sp" (a blank), "nul" (the zero byte that memset leaves, also  *)
(* shown blank), "lo" (a 7-bit character), "hi" (a byte above 0x7f) or     *)
(* "menu" (a character of menustr).                                        *)
(***************************************************************************)
EXTENDS Integers, FiniteSets

CONSTANTS COLS,       \* 80
          ROWS,       \* 24 rows are used; the screen has one more
          MenuCol,    \* 57
          MenuWidth,  \* 23
          MenuRows,   \* 10
          NItems,     \* 16 entries, two per row
          BoundEven,  \* 138, cell of the first entry of the left column
          BoundOdd,   \* 149, cell of the first entry of the right column
          ItemWidth   \* 10

ASSUME GeometryAssumption ==
  /\ COLS \in Nat \ {0} /\ ROWS \in Nat \ {0, 1}
  /\ MenuCol \in Nat /\ MenuWidth \in Nat \ {0} /\ MenuRows \in Nat
  /\ NItems \in Nat \ {0} /\ NItems % 2 = 0
  /\ BoundEven \in Nat /\ BoundOdd \in Nat /\ ItemWidth \in Nat
  /\ MenuCol + MenuWidth <= COLS /\ MenuRows <= ROWS

Cells == 0 .. (ROWS + 1) * COLS - 1
Nibble == 0 .. 15
Attr == [fg : Nibble, bg : Nibble]
Glyph == {"sp", "nul", "lo", "hi", "menu"}
Cell == [ch : Glyph, attr : Attr]

DefaultColor == [fg |-> 7, bg |-> 0]    \* 0x0700
MenuAttr == [fg |-> 15, bg |-> 0]       \* 0x0f00
SelectAttr == [fg |-> 0, bg |-> 15]     \* 0xf000

BACKSPACE == "BS"

\* Every cell of S in colour a, its glyph kept.
Recolor(crt, S, a) ==
  [i \in Cells |-> IF i \in S THEN [crt[i] EXCEPT !.attr = a] ELSE crt[i]]

repaint(crt, color) == Recolor(crt, Cells, color)
repaintLastRow(crt, color) ==
  Recolor(crt, (ROWS - 1) * COLS .. ROWS * COLS - 1, color)

-----------------------------------------------------------------------------
(* cgaputc on a screen s = [crt, pos].                                     *)

\* Write the character and move the cursor.
Place(s, c, color) ==
  CASE c = "NL" -> [s EXCEPT !.pos = @ + COLS - (@ % COLS)]
    [] c = BACKSPACE -> [s EXCEPT !.pos = IF @ > 0 THEN @ - 1 ELSE @]
    [] OTHER -> [crt |-> [s.crt EXCEPT ![s.pos] = [ch |-> c, attr |-> color]],
                 pos |-> s.pos + 1]

\* Mutant: the new last row is not repainted.
Scroll_NoRepaint(s, color) ==
  LET pos == s.pos - COLS
  IN  [crt |-> [i \in Cells |->
                  IF pos <= i /\ i < ROWS * COLS
                  THEN [ch |-> "nul", attr |-> [fg |-> 0, bg |-> 0]]
                  ELSE IF i < (ROWS - 1) * COLS THEN s.crt[i + COLS] ELSE s.crt[i]],
       pos |-> pos]

\* Move rows 1 .. ROWS-1 up, zero the screen from the cursor to the last row.
Scroll(s, color) ==
  LET pos == s.pos - COLS
      up == [i \in Cells |->
               IF pos <= i /\ i < ROWS * COLS
               THEN [ch |-> "nul", attr |-> [fg |-> 0, bg |-> 0]]
               ELSE IF i < (ROWS - 1) * COLS THEN s.crt[i + COLS] ELSE s.crt[i]]
  IN  [crt |-> IF color # DefaultColor THEN repaintLastRow(up, color) ELSE up,
       pos |-> pos]

\* The cell under the cursor is always blanked.
Cursor(s, color) ==
  [s EXCEPT !.crt[s.pos] = [ch |-> "sp", attr |-> color]]

cgaputc(s, c, color) ==
  LET t == Place(s, c, color)
  IN  Cursor(IF t.pos \div COLS >= ROWS THEN Scroll(t, color) ELSE t, color)

-----------------------------------------------------------------------------
(* The menu.                                                               *)

MenuCells == {COLS * row + col : row \in 0 .. MenuRows - 1,
                                 col \in MenuCol .. MenuCol + MenuWidth - 1}

saveBackground(crt) == [i \in MenuCells |-> crt[i].ch]

\* Mutant: the table has a row more than the background that is saved.
showMenu_ExtraRow(crt) ==
  [i \in Cells |-> IF i \in MenuCells \cup {c + COLS : c \in MenuCells}
                   THEN [ch |-> "menu", attr |-> MenuAttr] ELSE crt[i]]

showMenu(crt) ==
  [i \in Cells |-> IF i \in MenuCells THEN [ch |-> "menu", attr |-> MenuAttr]
                                      ELSE crt[i]]

\* backgroundBackup is an array of (signed) char: a byte above 0x7f is
\* sign-extended before it is or-ed with the colour, and its attribute
\* becomes 0xff.
Restored(ch, color) ==
  [ch |-> ch,
   attr |-> IF ch = "hi" THEN [fg |-> 15, bg |-> 15] ELSE color]

loadBackground(crt, backup, color) ==
  [i \in Cells |-> IF i \in MenuCells THEN Restored(backup[i], color) ELSE crt[i]]

computeLowerBound(x) ==
  (IF x % 2 = 1 THEN BoundOdd ELSE BoundEven) + (x \div 2) * COLS

\* Every entry lies inside the table.
ASSUME TableAssumption ==
  \A x \in 0 .. NItems - 1 :
    computeLowerBound(x) .. computeLowerBound(x) + ItemWidth - 1 \subseteq MenuCells

displaySelection(crt, sel) ==
  LET lb == computeLowerBound(sel)
  IN  Recolor(crt, lb .. lb + ItemWidth - 1, SelectAttr)

\* getColor (bright = 0) and getBrightColor (bright = 8): an odd entry sets
\* the background, an even one the foreground.
PickColor(color, sel, bright) ==
  IF sel % 2 = 1 THEN [color EXCEPT !.bg = sel \div 2 + bright]
                 ELSE [color EXCEPT !.fg = sel \div 2 + bright]

\* The selection after a key of handleInput.
Moved(sel, c) ==
  CASE c = "s" -> (sel + 2) % NItems
    [] c = "w" -> (sel - 2 + NItems) % NItems
    [] c \in {"a", "d"} -> IF sel % 2 = 1 THEN sel - 1 ELSE sel + 1
    [] OTHER -> sel
=============================================================================
