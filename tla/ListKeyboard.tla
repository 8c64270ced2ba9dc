---------------------------- MODULE ListKeyboard ----------------------------
(* The cursor of minui-list's filter keyboard: three layouts of five rows. *)
(* In every row the keys come first and empty cells after them, so a       *)
(* layout is known by the length of its rows; the last row holds shift,    *)
(* space and enter.                                                        *)
EXTENDS Integers, FiniteSetsExt

KbLayouts == 3
KbRowCount == 5
KbCols == 14

\* ListKeyboard_RowLength.
RowLength(layout, row) ==
  CASE row \in {0, 1} -> 13
    [] row = 2 -> 11
    [] row = 3 -> IF layout = 2 THEN 8 ELSE 10
    [] row = 4 -> 3

\* ListKeyboard_KeyAt: what the key under the cursor does.
KeyAt(c) ==
  CASE c.col \notin 0 .. RowLength(c.layout, c.row) - 1 -> "none"
    [] c.row = 4 -> <<"shift", "space", "enter">>[c.col + 1]
    [] OTHER -> "char"

\* C division truncates.
Half(x) == IF x >= 0 THEN x \div 2 ELSE -((-x) \div 2)

ColumnOffset(layout, from, to) ==
  Half(RowLength(layout, to) - RowLength(layout, from))

ExitLastRow(offset, col) ==
  IF col = 0 THEN offset - 1 ELSE IF col = 2 THEN offset + 1 ELSE offset

EnterLastRow(offset, col, center) ==
  IF col > center THEN offset - 1 ELSE IF col < center THEN offset + 1 ELSE offset

\* rescue: onto the nearest key to the left, else the first of the row.
Rescue(c) ==
  LET row == Max({0, Min({c.row, KbRowCount - 1})})
  IN  [c EXCEPT !.row = row,
                !.col = Max({0, Min({c.col, RowLength(c.layout, row) - 1})})]

Center(c) == (RowLength(c.layout, c.row) - 1) \div 2
Even(c) == RowLength(c.layout, c.row) % 2 = 0

MoveUp(c) ==
  LET up == ColumnOffset(c.layout, c.row, c.row - 1)
      wrap == ColumnOffset(c.layout, 0, KbRowCount - 1)
  IN  IF c.row > 0
      THEN Rescue([c EXCEPT !.row = @ - 1,
             !.col = @ + IF c.row = KbRowCount - 1 THEN ExitLastRow(up, @) ELSE up])
      ELSE Rescue([c EXCEPT !.row = KbRowCount - 1,
             !.col = @ + IF Even(c) /\ @ = Center(c) - 1 THEN wrap
                         ELSE EnterLastRow(wrap, @, Center(c))])

MoveDown(c) ==
  LET down == ColumnOffset(c.layout, c.row, c.row + 1)
      wrap == ColumnOffset(c.layout, KbRowCount - 1, 0)
      entering == /\ c.row + 1 = KbRowCount - 1
                  /\ c.col > Center(c) \/ (~Even(c) /\ c.col < Center(c))
  IN  IF c.row < KbRowCount - 1
      THEN Rescue([c EXCEPT !.row = @ + 1,
             !.col = @ + IF entering THEN EnterLastRow(down, @, Center(c)) ELSE down])
      ELSE Rescue([c EXCEPT !.row = 0, !.col = @ + ExitLastRow(wrap, @)])

\* Left and right wrap within the row and need no rescue.
MoveLeft(c) ==
  [c EXCEPT !.col = IF @ > 0 THEN @ - 1 ELSE RowLength(c.layout, c.row) - 1]
MoveRight(c) ==
  [c EXCEPT !.col = IF @ + 1 >= RowLength(c.layout, c.row) THEN 0 ELSE @ + 1]

\* ListKeyboard_CycleLayout.
CycleLayout(c) == Rescue([c EXCEPT !.layout = (@ + 1) % KbLayouts])
=============================================================================
