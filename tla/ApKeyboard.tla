----------------------------- MODULE ApKeyboard -----------------------------
(***************************************************************************)
(* ap_keyboard and ap_url_keyboard of the Apostrophe widgets.  A text is   *)
(* a sequence of bytes: the first byte of a character is its length in     *)
(* bytes, every further one is 0.  Which of the characters of one length   *)
(* a key types is left out.                                                *)
(***************************************************************************)
EXTENDS Integers, Sequences, SequencesExt

CONSTANTS
  KbLayouts,    \* subset of {"numeric", "general", "url"}
  KbTexts,      \* initial texts
  KbSize,       \* sizeof(result->text)
  Shortcuts     \* number of shortcut keys of the url layout, at most 10

VARIABLE w      \* the stack frame of the widget that runs

-----------------------------------------------------------------------------
(* The text.                                                               *)

Continues(t, i) == i >= 0 /\ i < Len(t) /\ t[i + 1] = 0
InText(t, i) == IF i < 0 THEN 0 ELSE IF i > Len(t) THEN Len(t) ELSE i

\* The nearest start of a character at or before i.
ClampBoundary(t, i) ==
  LET starts == {j \in 0 .. InText(t, i) : j = 0 \/ ~Continues(t, j)}
  IN  CHOOSE j \in starts : \A k \in starts : k <= j

PrevBoundary(t, i) ==
  LET at == InText(t, i)
  IN  IF Continues(t, at) THEN ClampBoundary(t, at)
      ELSE IF at = 0 THEN 0 ELSE ClampBoundary(t, at - 1)

NextBoundary(t, i) ==
  LET at == InText(t, i)
      ends == {j \in at .. Len(t) : j > at /\ ~Continues(t, j)}
  IN  IF at >= Len(t) THEN Len(t) ELSE CHOOSE j \in ends : \A k \in ends : j <= k

\* Text of n bytes: one character, or for a shortcut n characters of a byte.
Char(n) == [k \in 1 .. n |-> IF k = 1 THEN n ELSE 0]

\* One byte is left unused when it fits.
Insert(s, new) ==
  LET at == ClampBoundary(s.text, s.at)
  IN  IF Len(s.text) + Len(new) < KbSize - 1
      THEN [s EXCEPT !.text = SubSeq(@, 1, at) \o new \o SubSeq(@, at + 1, Len(@)),
                     !.at = at + Len(new)]
      ELSE s

Backspace(s) ==
  LET at == ClampBoundary(s.text, s.at)
      prev == PrevBoundary(s.text, at)
  IN  IF at <= 0 THEN [s EXCEPT !.at = 0]
      ELSE [s EXCEPT !.text = SubSeq(@, 1, prev) \o SubSeq(@, at + 1, Len(@)), !.at = prev]

-----------------------------------------------------------------------------
(* The keys.                                                               *)

ShortcutRows == IF Shortcuts > 5 THEN 2 ELSE 1
PerRow == IF ShortcutRows = 2 THEN (Shortcuts + 1) \div 2 ELSE Shortcuts

\* The last column of every row.  The last shortcut row has a backspace, the
\* others of the url layout are those of the general one without the space bar.
NumericMax == <<2, 2, 2, 2>>
GeneralMax == <<10, 9, 9, 8, 0>>
UrlMax == [r \in 1 .. ShortcutRows |->
             IF r < ShortcutRows THEN PerRow - 1 ELSE Shortcuts - PerRow * (ShortcutRows - 1)]
          \o <<9, 9, 9, 8>>
RowMax == IF w.layout = "numeric" THEN NumericMax
          ELSE IF w.layout = "general" THEN GeneralMax ELSE UrlMax

\* Bytes of the seven characters of the bottom row of symbols.
SymbolBytes == <<1, 1, 1, 3, 2, 2, 2>>

OpenKeyboard(layout, text) ==
  [kind |-> "keyboard", layout |-> layout,
   text |-> SubSeq(text, 1, IF Len(text) < KbSize - 1 THEN Len(text) ELSE KbSize - 1),
   at |-> IF Len(text) < KbSize - 1 THEN Len(text) ELSE KbSize - 1,
   row |-> CASE layout = "numeric" -> 0 [] layout = "general" -> 1 [] layout = "url" -> ShortcutRows,
   col |-> 0, mode |-> "lower", keys |-> "lower", result |-> "none", whole |-> Len(text) < KbSize]

KbInit == w \in {OpenKeyboard(l, t) : l \in KbLayouts, t \in KbTexts}

-----------------------------------------------------------------------------
(* Events.                                                                 *)

Polling == w.kind = "keyboard"
LayoutRows == Len(RowMax)

\* The rows wrap and the column is pulled into the new row.
MoveRow(d) ==
  /\ Polling
  /\ LET r == (w.row + d) % LayoutRows
     IN  w' = [w EXCEPT !.row = r, !.col = IF @ > RowMax[r + 1] THEN RowMax[r + 1] ELSE @]

MoveCol(d) ==
  /\ Polling
  /\ w' = [w EXCEPT !.col = (@ + d) % (RowMax[w.row + 1] + 1)]

Type(n) == w' = Insert(w, Char(n))
Ends(how) == w' = [w EXCEPT !.kind = "done", !.result = how]
Toggled(m) == IF w.mode = m THEN "lower" ELSE m

\* A on the digits; two corners of the grid are empty.
TypeNumeric ==
  /\ Polling /\ w.layout = "numeric"
  /\ IF w.row = 3 /\ w.col # 1 THEN UNCHANGED w ELSE Type(1)

\* A on the general layout.  The characters are those of the mode the frame
\* began with, the mode is the current one.
TypeGeneral ==
  /\ Polling /\ w.layout = "general"
  /\ CASE w.row = 0 /\ w.col = 10 -> w' = Backspace(w)
       [] w.row = 2 /\ w.col = 9 -> Ends("ok")
       [] w.row = 3 /\ w.col = 0 -> w' = [w EXCEPT !.mode = Toggled("upper")]
       [] w.row = 3 /\ w.col = 8 -> w' = [w EXCEPT !.mode = Toggled("symbols")]
       [] w.row = 3 /\ w.col \in 1 .. 7 ->
            Type(IF w.keys = "symbols" THEN SymbolBytes[w.col] ELSE 1)
       [] OTHER -> Type(1)

\* A on the url layout, where shift and the digits are looked up at once; the
\* two modes are independent of each other.
TypeUrl ==
  /\ Polling /\ w.layout = "url"
  /\ LET below == w.row - ShortcutRows
     IN  CASE below = -1 /\ w.col = RowMax[w.row + 1] -> w' = Backspace(w)
           [] below < 0 /\ ~(below = -1 /\ w.col = RowMax[w.row + 1]) -> w' = Insert(w, <<1, 1>>)
           [] below \in {0, 1} -> Type(1)
           [] below = 2 -> IF w.col = 9 THEN Ends("ok") ELSE Type(1)
           [] below = 3 /\ w.col = 0 -> UNCHANGED w
           [] below = 3 /\ w.col = 8 -> w' = [w EXCEPT !.mode = Toggled("symbols")]
           [] below = 3 /\ w.col \in 1 .. 7 ->
                Type(IF w.mode = "symbols" THEN SymbolBytes[w.col] ELSE 1)

PressB == Polling /\ w' = Backspace(w)
PressX == Polling /\ w.layout = "general" /\ Type(1)
PressY == Polling /\ Ends("cancelled")
PressStart == Polling /\ Ends("ok")
PressSelect == Polling /\ w.layout = "general" /\ w' = [w EXCEPT !.mode = Toggled("upper")]
PressL1 == Polling /\ w' = [w EXCEPT !.at = PrevBoundary(w.text, @)]
PressR1 == Polling /\ w' = [w EXCEPT !.at = NextBoundary(w.text, @)]

\* The keys of the next frame are those of the mode.
Frame == Polling /\ w.keys # w.mode /\ w' = [w EXCEPT !.keys = w.mode]

KbNext ==
  \/ \E d \in {-1, 1} : MoveRow(d) \/ MoveCol(d)
  \/ TypeNumeric \/ TypeGeneral \/ TypeUrl
  \/ PressB \/ PressX \/ PressY \/ PressStart \/ PressSelect \/ PressL1 \/ PressR1
  \/ Frame

-----------------------------------------------------------------------------
IsKeyboard == w.kind \in {"keyboard", "done"} /\ "layout" \in DOMAIN w

\* A byte sequence of whole characters.
Whole(t) ==
  \A i \in 1 .. Len(t) :
    IF t[i] > 0 THEN i + t[i] - 1 <= Len(t) /\ \A j \in i + 1 .. i + t[i] - 1 : t[j] = 0
    ELSE \E j \in 1 .. i - 1 : j + t[j] > i

\* Whatever is typed, erased and moved over, the text is made of whole
\* characters with the cursor between two of them, unless the text the
\* keyboard was opened with had to be cut; and it always fits its buffer.
TextWhole ==
  IsKeyboard => /\ Len(w.text) < KbSize /\ w.at \in 0 .. Len(w.text)
                /\ w.whole => Whole(w.text) /\ ~Continues(w.text, w.at)
=============================================================================
