------------------------------ MODULE UiProofs ------------------------------
(* Proofs about minui-presenter, for any command line and any slides, and  *)
(* about minui-list, for any list, filter and number of rows.              *)
EXTENDS MinuiList, MinuiPresenter, FiniteSetTheorems, WellFoundedInduction, TLAPS

----------------------------------------------------------------------------
(* minui-presenter.                                                        *)

\* A slide of the list is selected, and every slide noted as having its
\* picture has it: pictures are written, never removed.
SlideSelected ==
    pcode = "run" => /\ Count \in Nat \ {0} /\ slide \in 0 .. Count - 1
                     /\ \A k \in found : slides[k + 1].pic \in pics

\* What the last frame drew, as SlideShown has it.
Page1 ==
    pcode = "run" /\ pshown # <<>> /\ ~dropped /\ ~dirty /\ ~usr1 =>
        /\ pshown.slide = slide
        /\ slide \in found => pshown.pic # ""

PresenterInv ==
    /\ arg \in Args /\ "" \notin pics
    /\ usr1 \in BOOLEAN /\ dirty \in BOOLEAN /\ dropped \in BOOLEAN
    /\ SlideSelected /\ Page1

\* The slides read are those of the file, or the one message.
LEMMA SlidesRead ==
    ASSUME arg \in Args, ~Refused
    PROVE  Len(Slides) \in Nat \ {0} /\ FirstSlide(Len(Slides)) \in 0 .. Len(Slides) - 1
<1>1. DOMAIN arg.file = 1 .. Len(arg.file) /\ Len(arg.file) \in Nat /\ arg.selected \in Int
  BY ArgsAssumption
<1>2. CASE arg.message # <<>>
  <2>1. Len(Slides) = 1
    BY <1>2 DEF Slides
  <2> QED BY <1>2, <2>1 DEF FirstSlide
<1>3. CASE arg.message = <<>>
  <2>1. arg.file # <<>>
    BY <1>3 DEF Refused
  <2> DEFINE n == Len(arg.file)
  <2>2. Slides = [k \in 1 .. n |-> ReadSlide(arg.file[k])]
    BY <1>1, <1>3 DEF Slides
  <2>3. Len(Slides) = n
    BY <2>2, <1>1
  <2>4. n # 0
    BY <2>1, <1>1
  <2> QED BY <1>1, <1>3, <2>3, <2>4 DEF FirstSlide
<1> QED BY <1>2, <1>3

\* What a frame sees before it draws.
LEMMA FrameSees ==
    ASSUME PresenterInv, pcode = "run", NoteFound
    PROVE  /\ Count \in Nat \ {0} /\ slide \in 0 .. Count - 1 /\ Wrapped \in 0 .. Count - 1
           /\ ~usr1 => Wrapped = slide
           /\ \A k \in found' : slides[k + 1].pic \in pics
<1>1. /\ Count \in Nat \ {0} /\ slide \in 0 .. Count - 1 /\ usr1 \in BOOLEAN
      /\ \A k \in found : slides[k + 1].pic \in pics
  BY DEF PresenterInv, SlideSelected
<1>2. Wrapped \in 0 .. Count - 1 /\ (~usr1 => Wrapped = slide)
  BY <1>1 DEF Wrapped, Advanced
<1>3. \A k \in found' : slides[k + 1].pic \in pics
  BY <1>1 DEF NoteFound, PictureFound
<1> QED BY <1>1, <1>2, <1>3

\* The page that is drawn is of its slide, and shows its picture.
LEMMA PageIs ==
    ASSUME NEW s, "" \notin pics
    PROVE  Page(s).slide = s /\ (slides[s + 1].pic \in pics => Page(s).pic # "")
BY DEF Page, PictureDrawn

\* A frame that goes on: the slide it ends on exists, and it was drawn, or
\* nothing asked for it and it is the one drawn before, or the request is noted
\* as dropped.
LEMMA FrameKeeps ==
    ASSUME PresenterInv, pcode = "run", NoteFound, usr1' = FALSE, dropped' \in BOOLEAN,
           NEW s \in 0 .. Count - 1, NEW r \in BOOLEAN, NEW answer,
           FinishFrame(s, r, answer),
           answer = "run" /\ ~r /\ ~dropped' =>
             /\ ~dropped /\ ~dirty /\ ~usr1 /\ ~PictureFound /\ s = slide
    PROVE  PresenterInv'
<1> USE DEF FinishFrame
<1>1. /\ Count \in Nat \ {0} /\ slide \in 0 .. Count - 1
      /\ \A k \in found' : slides[k + 1].pic \in pics
  BY FrameSees
<1>2. arg' \in Args /\ "" \notin pics'
  BY DEF PresenterInv
<1>3. usr1' \in BOOLEAN /\ dirty' \in BOOLEAN
  BY DEF Elapsed
<1>4. SlideSelected'
  BY <1>1 DEF SlideSelected, Count
<1>5. pcode' = "run" => answer = "run"
  BY DEF Elapsed
<1>6. Page1'
  <2>1. CASE r
    <3>1. pshown' = Page(s) /\ slide' = s
      BY <2>1
    <3>2. "" \notin pics
      BY DEF PresenterInv
    <3> QED BY <3>1, <3>2, <1>1, PageIs DEF Page1
  <2>2. CASE ~r
    <3> SUFFICES ASSUME pcode' = "run", ~dropped'
                 PROVE  Page1'
      BY DEF Page1
    <3>1. ~dropped /\ ~dirty /\ ~usr1 /\ ~PictureFound /\ s = slide
      BY <1>5, <2>2
    <3>2. found' = found /\ pshown' = pshown /\ slide' = slide
      BY <2>2, <3>1 DEF NoteFound
    <3>3. Page1
      BY DEF PresenterInv
    <3> QED BY <3>1, <3>2, <3>3 DEF Page1
  <2> QED BY <2>1, <2>2
<1> QED BY <1>2, <1>3, <1>4, <1>6 DEF PresenterInv

\* Nothing that ends the tool is of interest.
LEMMA EndsQuietly ==
    ASSUME PresenterInv, pcode' # "run", UNCHANGED <<arg, pics>>,
           usr1' \in BOOLEAN, dirty' \in BOOLEAN, dropped' \in BOOLEAN
    PROVE  PresenterInv'
BY DEF PresenterInv, SlideSelected, Page1

LEMMA EveryFrameKeeps ==
    ASSUME PresenterInv, Frame
    PROVE  PresenterInv'
<1>1. pcode = "run" /\ NoteFound
  BY DEF Frame, SignalPastEnd, Quiet, HeldAtEnd, PressButton, PressStart, Left, Right, RightQuits,
         Polled
<1>2. /\ Count \in Nat \ {0} /\ slide \in 0 .. Count - 1 /\ Wrapped \in 0 .. Count - 1
      /\ ~usr1 => Wrapped = slide
  BY <1>1, FrameSees
<1>3. usr1 \in BOOLEAN /\ dirty \in BOOLEAN /\ dropped \in BOOLEAN
  BY DEF PresenterInv
<1>4. \A wifi \in BOOLEAN :
        /\ Asked(wifi) \in BOOLEAN
        /\ ~Asked(wifi) => ~dirty /\ ~usr1 /\ ~PictureFound /\ Wrapped = slide
  BY <1>2, <1>3 DEF Asked, PictureFound
<1>5. CASE SignalPastEnd
  <2>1. pcode' # "run" /\ dirty' \in BOOLEAN
    BY <1>5 DEF SignalPastEnd, Elapsed
  <2> QED BY <1>5, <1>3, <2>1, EndsQuietly DEF SignalPastEnd
<1>6. CASE RightQuits
  <2>1. pcode' # "run" /\ dirty' \in BOOLEAN
    BY <1>6 DEF RightQuits, Elapsed
  <2> QED BY <1>6, <1>3, <2>1, EndsQuietly DEF RightQuits
<1>7. ASSUME NEW wifi \in BOOLEAN, Quiet(wifi) PROVE PresenterInv'
  <2>1. /\ usr1' = FALSE /\ dropped' = (dropped /\ ~Asked(wifi))
        /\ FinishFrame(Wrapped, Asked(wifi), "run")
    BY <1>7 DEF Quiet
  <2> HIDE DEF Asked
  <2> QED BY <1>1, <1>2, <1>3, <1>4, <2>1, FrameKeeps
<1>8. ASSUME NEW wifi \in BOOLEAN, NEW end, HeldAtEnd(wifi, end) PROVE PresenterInv'
  <2>1. /\ usr1' = FALSE /\ dropped' = (dropped \/ Asked(wifi))
        /\ FinishFrame(Wrapped, FALSE, "run")
    BY <1>8 DEF HeldAtEnd
  <2> QED BY <1>1, <1>2, <1>3, <1>4, <2>1, FrameKeeps
<1>9. ASSUME NEW b \in Buttons, PressButton(b) PROVE PresenterInv'
  <2>1. usr1' = FALSE /\ dropped' = dropped /\ FinishFrame(Wrapped, FALSE, AnswerOf(b))
    BY <1>9 DEF PressButton
  <2>2. AnswerOf(b) # "run"
    <3>1. arg.show \subseteq {"action", "confirm", "cancel", "inaction"}
      BY ArgsAssumption DEF PresenterInv
    <3> QED BY <1>9, <3>1 DEF PressButton, Answers
  <2> QED BY <1>1, <1>2, <1>3, <2>1, <2>2, FrameKeeps
<1>10. CASE PressStart
  <2>1. usr1' = FALSE /\ dropped' = dropped /\ FinishFrame(Wrapped, FALSE, "start")
    BY <1>10 DEF PressStart
  <2> QED BY <1>1, <1>2, <1>3, <2>1, FrameKeeps
<1>11. ASSUME NEW fresh \in BOOLEAN, Left(fresh) PROVE PresenterInv'
  <2> DEFINE s == IF Wrapped = 0 THEN Count - 1 ELSE Wrapped - 1
  <2>1. usr1' = FALSE /\ dropped' = FALSE /\ FinishFrame(s, TRUE, "run")
    BY <1>11 DEF Left
  <2>2. s \in 0 .. Count - 1
    BY <1>2
  <2> QED BY <1>1, <2>1, <2>2, FrameKeeps
<1>12. ASSUME NEW fresh \in BOOLEAN, Right(fresh) PROVE PresenterInv'
  <2> DEFINE s == IF Wrapped = Count - 1 THEN 0 ELSE Wrapped + 1
  <2>1. usr1' = FALSE /\ dropped' = FALSE /\ FinishFrame(s, TRUE, "run")
    BY <1>12 DEF Right
  <2>2. s \in 0 .. Count - 1
    BY <1>2
  <2> QED BY <1>1, <2>1, <2>2, FrameKeeps
<1> QED BY <1>5, <1>6, <1>7, <1>8, <1>9, <1>10, <1>11, <1>12 DEF Frame

\* minui-presenter: while it runs the slide exists, and after every frame the
\* screen shows it with its picture, unless a held d-pad cancelled the redraw.
THEOREM SlideShownThm == PSpec => []SlideShown
<1>1. PInit => PresenterInv
  BY DEF PInit, PresenterInv, SlideSelected, Page1, PicsOf
<1>2. PresenterInv /\ [PNext]_pvars => PresenterInv'
  <2> SUFFICES ASSUME PresenterInv, PNext \/ UNCHANGED pvars PROVE PresenterInv'
    OBVIOUS
  <2>1. CASE ParseFails
    BY <2>1, EndsQuietly DEF ParseFails, PresenterInv
  <2>2. CASE Parse
    <3>1. /\ slides' = Slides /\ slide' = FirstSlide(Len(Slides)) /\ arg \in Args /\ ~Refused
          /\ found' = {k \in 0 .. Len(Slides) - 1 : Slides[k + 1].pic \in pics}
      BY <2>2 DEF Parse, PresenterInv
    <3>2. SlideSelected'
      BY <2>2, <3>1, SlidesRead DEF Parse, SlideSelected, Count
    <3> QED BY <2>2, <3>1, <3>2 DEF Parse, PresenterInv, Page1
  <2>3. CASE Frame
    BY <2>3, EveryFrameKeeps
  <2>4. CASE Usr1
    BY <2>4 DEF Usr1, PresenterInv, SlideSelected, Page1, Count
  <2>5. ASSUME NEW c \in {"sigint", "sigterm"}, Killed(c) PROVE PresenterInv'
    BY <2>5, EndsQuietly DEF Killed, PresenterInv
  <2>6. CASE Tick
    BY <2>6 DEF Tick, PresenterInv, SlideSelected, Page1, Count
  <2>7. ASSUME NEW p \in PicsOf(arg), PictureWritten(p) PROVE PresenterInv'
    BY <2>7 DEF PictureWritten, PicsOf, PresenterInv, SlideSelected, Page1, Count
  <2>8. CASE PEnded \/ UNCHANGED pvars
    BY <2>8 DEF PEnded, pvars, PresenterInv, SlideSelected, Page1, Count
  <2> QED BY <2>1, <2>2, <2>3, <2>4, <2>5, <2>6, <2>7, <2>8 DEF PNext
<1>3. PresenterInv => SlideShown
  BY DEF PresenterInv, SlideSelected, Page1, SlideShown
<1> QED BY <1>1, <1>2, <1>3, PTL DEF PSpec

----------------------------------------------------------------------------
(* Least and greatest numbers.                                             *)

\* The least and the greatest of a bounded set of numbers are among its members.
LEMMA LeastIs ==
    ASSUME NEW K \in SUBSET Nat, K # {} PROVE Min(K) \in K /\ \A k \in K : Min(K) <= k
<1> DEFINE Less == {ss \in Nat \X Nat : ss[1] < ss[2]}
<1>1. IsWellFoundedOn(Less, Nat)
  BY NatLessThanWellFounded DEF OpToRel
<1>2. \A x, y \in K : ~(<<y, x>> \in Less) => x <= y
  OBVIOUS
<1> HIDE DEF Less
<1>3. PICK m \in K : \A y \in K : ~(<<y, m>> \in Less)
  BY <1>1, WFMin
<1>4. \E x \in K : \A y \in K : x <= y
  BY <1>2, <1>3
<1> QED
  BY <1>4 DEF Min

LEMMA GreatestIs ==
    ASSUME NEW n \in Nat, NEW K \in SUBSET (0 .. n), K # {}
    PROVE  Max(K) \in K /\ \A k \in K : k <= Max(K)
<1> DEFINE Mirror == {j \in 0 .. n : n - j \in K}
<1>1. Mirror \in SUBSET Nat /\ Mirror # {}
  <2>1. PICK k \in K : TRUE
    OBVIOUS
  <2>2. n - k \in 0 .. n /\ n - (n - k) = k
    BY <2>1
  <2>3. n - k \in Mirror
    BY <2>1, <2>2
  <2>4. \A j \in Mirror : j \in Nat
    OBVIOUS
  <2> HIDE DEF Mirror
  <2> QED BY <2>3, <2>4
<1>2. PICK m \in Mirror : \A k \in Mirror : m <= k
  BY <1>1, LeastIs
<1>3. n - m \in K /\ \A k \in K : k <= n - m
  <2>1. m \in 0 .. n /\ n - m \in K
    BY <1>2
  <2>2. \A k \in K : n - k \in Mirror
    <3>1. \A k \in K : n - k \in 0 .. n /\ n - (n - k) = k
      OBVIOUS
    <3> QED BY <3>1
  <2>3. \A k \in K : m <= n - k
    BY <1>2, <2>2
  <2> QED BY <2>1, <2>3
<1> QED
  BY <1>3 DEF Max

LEMMA OfTwo ==
    ASSUME NEW a \in Int, NEW b \in Int
    PROVE  /\ Max({a, b}) = IF a >= b THEN a ELSE b
           /\ Min({a, b}) = IF a <= b THEN a ELSE b
<1>1. Max({a, b}) = IF a >= b THEN a ELSE b
  <2>1. \E x \in {a, b} : \A y \in {a, b} : x >= y
    OBVIOUS
  <2>2. Max({a, b}) \in {a, b} /\ \A y \in {a, b} : Max({a, b}) >= y
    BY <2>1 DEF Max
  <2> QED BY <2>2
<1>2. Min({a, b}) = IF a <= b THEN a ELSE b
  <2>1. \E x \in {a, b} : \A y \in {a, b} : x <= y
    OBVIOUS
  <2>2. Min({a, b}) \in {a, b} /\ \A y \in {a, b} : Min({a, b}) <= y
    BY <2>1 DEF Min
  <2> QED BY <2>2
<1> QED BY <1>1, <1>2

LEMMA OfTwoBounds ==
    ASSUME NEW a \in Int, NEW b \in Int
    PROVE  Min({a, b}) \in Int /\ Min({a, b}) <= b /\ Min({a, b}) <= a
BY OfTwo

----------------------------------------------------------------------------
(* The cursor of the filter keyboard.                                      *)

\* A cursor somewhere, and one that is on a key.
Somewhere == [layout : 0 .. KbLayouts - 1, row : Int, col : Int]
OnKey(c) ==
    /\ c \in [layout : 0 .. KbLayouts - 1, row : 0 .. KbRowCount - 1, col : Nat]
    /\ c.col < RowLength(c.layout, c.row)

LEMMA RowsHaveKeys ==
    ASSUME NEW layout, NEW row \in 0 .. KbRowCount - 1
    PROVE  RowLength(layout, row) \in 3 .. KbCols
BY DEF RowLength, KbRowCount, KbCols

LEMMA RescueFinds == ASSUME NEW c \in Somewhere PROVE OnKey(Rescue(c))
<1> DEFINE row == Max({0, Min({c.row, KbRowCount - 1})})
           long == RowLength(c.layout, row)
           col == Max({0, Min({c.col, long - 1})})
<1>1. c.row \in Int /\ c.col \in Int /\ c.layout \in 0 .. KbLayouts - 1
  BY DEF Somewhere
<1>2. row \in 0 .. KbRowCount - 1
  <2>1. Min({c.row, KbRowCount - 1}) \in Int /\ Min({c.row, KbRowCount - 1}) <= KbRowCount - 1
    <3> DEFINE a == c.row
               b == KbRowCount - 1
    <3>1. a \in Int /\ b \in Int
      BY <1>1 DEF KbRowCount
    <3> HIDE DEF a, b
    <3>2. Min({a, b}) \in Int /\ Min({a, b}) <= b
      BY <3>1, OfTwoBounds
    <3> QED BY <3>2 DEF a, b
  <2> QED BY <2>1, OfTwo DEF KbRowCount
<1>3. long \in 3 .. KbCols
  BY <1>2, RowsHaveKeys
<1> HIDE DEF row, long
<1>4. col \in 0 .. long - 1
  <2>1. Min({c.col, long - 1}) \in Int /\ Min({c.col, long - 1}) <= long - 1
    <3> DEFINE a == c.col
               b == long - 1
    <3>1. a \in Int /\ b \in Int
      BY <1>1, <1>3 DEF KbCols
    <3> HIDE DEF a, b
    <3>2. Min({a, b}) \in Int /\ Min({a, b}) <= b
      BY <3>1, OfTwoBounds
    <3> QED BY <3>2 DEF a, b
  <2> QED BY <2>1, <1>3, OfTwo DEF KbCols
<1> HIDE DEF col
<1>5. Rescue(c) = [c EXCEPT !.row = row, !.col = col]
  BY DEF Rescue, row, long, col
<1>6. /\ Rescue(c) \in [layout : 0 .. KbLayouts - 1, row : 0 .. KbRowCount - 1, col : Nat]
      /\ Rescue(c).layout = c.layout /\ Rescue(c).row = row /\ Rescue(c).col = col
  <2>1. col \in Nat
    BY <1>3, <1>4 DEF KbCols
  <2>2. Rescue(c) = [layout |-> c.layout, row |-> row, col |-> col]
    BY <1>5 DEF Somewhere
  <2> QED BY <1>1, <1>2, <2>1, <2>2
<1>7. Rescue(c).col < RowLength(Rescue(c).layout, Rescue(c).row)
  BY <1>6, <1>3, <1>4 DEF long, KbCols
<1> QED BY <1>6, <1>7 DEF OnKey

LEMMA OnKeyIs ==
    ASSUME NEW c, OnKey(c)
    PROVE  /\ c \in Somewhere /\ c.layout \in 0 .. KbLayouts - 1
           /\ c.row \in 0 .. KbRowCount - 1 /\ c.col \in Nat
           /\ c.col < RowLength(c.layout, c.row) /\ RowLength(c.layout, c.row) \in 3 .. KbCols
           /\ KeyAt(c) # "none"
<1>1. /\ c \in Somewhere /\ c.layout \in 0 .. KbLayouts - 1
      /\ c.row \in 0 .. KbRowCount - 1 /\ c.col \in Nat
  BY DEF OnKey, Somewhere
<1>2. c.col < RowLength(c.layout, c.row) /\ RowLength(c.layout, c.row) \in 3 .. KbCols
  BY <1>1, RowsHaveKeys DEF OnKey
<1>3. KeyAt(c) # "none"
  <2>1. c.col \in 0 .. RowLength(c.layout, c.row) - 1
    BY <1>1, <1>2 DEF KbCols
  <2>2. CASE c.row = 4
    <3>1. c.col \in 0 .. 2
      BY <1>1, <1>2, <2>2 DEF RowLength
    <3> QED BY <2>1, <2>2, <3>1 DEF KeyAt
  <2>3. CASE c.row # 4
    BY <2>1, <2>3 DEF KeyAt
  <2> QED BY <2>2, <2>3
<1> QED BY <1>1, <1>2, <1>3

LEMMA OffsetsAre ==
    ASSUME NEW layout, NEW from \in 0 .. KbRowCount - 1, NEW to \in 0 .. KbRowCount - 1
    PROVE  ColumnOffset(layout, from, to) \in Int
<1>1. RowLength(layout, to) - RowLength(layout, from) \in Int
  BY RowsHaveKeys DEF KbCols
<1> QED BY <1>1 DEF ColumnOffset, Half

\* Every move of the cursor ends on a key.
LEMMA MovesStayOnKeys ==
    ASSUME NEW c, OnKey(c)
    PROVE  /\ OnKey(MoveUp(c)) /\ OnKey(MoveDown(c)) /\ OnKey(MoveLeft(c)) /\ OnKey(MoveRight(c))
           /\ OnKey(CycleLayout(c)) /\ OnKey(Rescue(c))
<1>1. /\ c \in Somewhere /\ c.layout \in 0 .. KbLayouts - 1
      /\ c.row \in 0 .. KbRowCount - 1 /\ c.col \in Nat
      /\ c.col < RowLength(c.layout, c.row) /\ RowLength(c.layout, c.row) \in 3 .. KbCols
  BY OnKeyIs
<1>2. ASSUME NEW r \in Int, NEW k \in Int
      PROVE  OnKey(Rescue([c EXCEPT !.row = r, !.col = k]))
  <2>1. [c EXCEPT !.row = r, !.col = k] \in Somewhere
    BY <1>1 DEF Somewhere
  <2> QED BY <2>1, RescueFinds
<1>3. Center(c) \in Int /\ Even(c) \in BOOLEAN
  BY <1>1 DEF Center, Even, KbCols
<1>4. \A o \in Int : ExitLastRow(o, c.col) \in Int /\ EnterLastRow(o, c.col, Center(c)) \in Int
  BY <1>1, <1>3 DEF ExitLastRow, EnterLastRow
<1>5. OnKey(MoveUp(c))
  <2> DEFINE up == ColumnOffset(c.layout, c.row, c.row - 1)
             wrap == ColumnOffset(c.layout, 0, KbRowCount - 1)
  <2>1. CASE c.row > 0
    <3>1. up \in Int
      BY <1>1, <2>1, OffsetsAre DEF KbRowCount
    <3>2. c.col + (IF c.row = KbRowCount - 1 THEN ExitLastRow(up, c.col) ELSE up) \in Int
      BY <1>1, <1>4, <3>1
    <3>3. MoveUp(c) = Rescue([c EXCEPT !.row = c.row - 1,
            !.col = c.col + IF c.row = KbRowCount - 1 THEN ExitLastRow(up, c.col) ELSE up])
      BY <1>1, <2>1 DEF MoveUp, Somewhere
    <3> DEFINE k == c.col + IF c.row = KbRowCount - 1 THEN ExitLastRow(up, c.col) ELSE up
               r == c.row - 1
    <3>4. r \in Int /\ k \in Int /\ MoveUp(c) = Rescue([c EXCEPT !.row = r, !.col = k])
      BY <1>1, <3>2, <3>3
    <3> HIDE DEF r, k
    <3> QED BY <1>2, <3>4
  <2>2. CASE ~(c.row > 0)
    <3>1. wrap \in Int
      BY OffsetsAre DEF KbRowCount
    <3> HIDE DEF wrap
    <3> DEFINE by == IF Even(c) /\ c.col = Center(c) - 1 THEN wrap
                     ELSE EnterLastRow(wrap, c.col, Center(c))
    <3>2. c.col + by \in Int
      BY <1>1, <1>4, <3>1
    <3> DEFINE k == c.col + by
               r == KbRowCount - 1
    <3>3. MoveUp(c) = Rescue([c EXCEPT !.row = r, !.col = k])
      BY <1>1, <2>2 DEF MoveUp, Somewhere, wrap
    <3>4. r \in Int /\ k \in Int
      BY <3>2 DEF KbRowCount
    <3> HIDE DEF r, k
    <3> QED BY <1>2, <3>3, <3>4
  <2> QED BY <2>1, <2>2
<1>6. OnKey(MoveDown(c))
  <2> DEFINE down == ColumnOffset(c.layout, c.row, c.row + 1)
             wrap == ColumnOffset(c.layout, KbRowCount - 1, 0)
             entering == /\ c.row + 1 = KbRowCount - 1
                         /\ c.col > Center(c) \/ (~Even(c) /\ c.col < Center(c))
  <2>1. CASE c.row < KbRowCount - 1
    <3>1. down \in Int
      BY <1>1, <2>1, OffsetsAre DEF KbRowCount
    <3> HIDE DEF down
    <3> DEFINE by == IF entering THEN EnterLastRow(down, c.col, Center(c)) ELSE down
    <3>2. c.col + by \in Int
      BY <1>1, <1>4, <3>1
    <3> DEFINE k == c.col + by
               r == c.row + 1
    <3>3. MoveDown(c) = Rescue([c EXCEPT !.row = r, !.col = k])
      BY <1>1, <2>1 DEF MoveDown, Somewhere, down
    <3>4. r \in Int /\ k \in Int
      BY <1>1, <3>2
    <3> HIDE DEF r, k
    <3> QED BY <1>2, <3>3, <3>4
  <2>2. CASE ~(c.row < KbRowCount - 1)
    <3>1. wrap \in Int
      BY OffsetsAre DEF KbRowCount
    <3> HIDE DEF wrap
    <3>2. c.col + ExitLastRow(wrap, c.col) \in Int
      BY <1>1, <1>4, <3>1
    <3> DEFINE k == c.col + ExitLastRow(wrap, c.col)
    <3>3. MoveDown(c) = Rescue([c EXCEPT !.row = 0, !.col = k])
      BY <1>1, <2>2 DEF MoveDown, Somewhere, wrap
    <3> DEFINE r == 0
    <3>4. r \in Int /\ k \in Int /\ MoveDown(c) = Rescue([c EXCEPT !.row = r, !.col = k])
      BY <3>2, <3>3
    <3> HIDE DEF r, k
    <3> QED BY <1>2, <3>4
  <2> QED BY <2>1, <2>2
<1>7. \A k \in Nat : k < RowLength(c.layout, c.row) => OnKey([c EXCEPT !.col = k])
  BY <1>1 DEF OnKey, Somewhere
<1>8. OnKey(MoveLeft(c)) /\ OnKey(MoveRight(c))
  <2>1. \E k \in Nat : k < RowLength(c.layout, c.row) /\ MoveLeft(c) = [c EXCEPT !.col = k]
    <3> DEFINE k == IF c.col > 0 THEN c.col - 1 ELSE RowLength(c.layout, c.row) - 1
    <3>1. k \in Nat /\ k < RowLength(c.layout, c.row)
      BY <1>1 DEF KbCols
    <3>2. MoveLeft(c) = [c EXCEPT !.col = k]
      BY <1>1 DEF MoveLeft, Somewhere
    <3> HIDE DEF k
    <3> QED BY <3>1, <3>2
  <2>2. \E k \in Nat : k < RowLength(c.layout, c.row) /\ MoveRight(c) = [c EXCEPT !.col = k]
    <3> DEFINE k == IF c.col + 1 >= RowLength(c.layout, c.row) THEN 0 ELSE c.col + 1
    <3>1. k \in Nat /\ k < RowLength(c.layout, c.row)
      BY <1>1 DEF KbCols
    <3>2. MoveRight(c) = [c EXCEPT !.col = k]
      BY <1>1 DEF MoveRight, Somewhere
    <3> HIDE DEF k
    <3> QED BY <3>1, <3>2
  <2> QED BY <1>7, <2>1, <2>2
<1>9. OnKey(CycleLayout(c))
  <2>1. [c EXCEPT !.layout = (c.layout + 1) % KbLayouts] \in Somewhere
    BY <1>1 DEF Somewhere, KbLayouts
  <2>2. CycleLayout(c) = Rescue([c EXCEPT !.layout = (c.layout + 1) % KbLayouts])
    BY <1>1 DEF CycleLayout, Somewhere
  <2> QED BY <2>1, <2>2, RescueFinds
<1> QED BY <1>1, <1>5, <1>6, <1>8, <1>9, RescueFinds

----------------------------------------------------------------------------
(* minui-list: reading the list and filtering it.                          *)

\* The positions kept are in the set, in order of the sequence built for them:
\* the function that appends them exists for every length.
LEMMA KeptIs ==
    ASSUME NEW n \in Nat, NEW K \in SUBSET (1 .. n)
    PROVE  Kept(K, n) \in Seq(1 .. n)
<1> DEFINE Step(f, k) == IF k = 0 THEN << >> ELSE IF k \in K THEN Append(f[k - 1], k) ELSE f[k - 1]
           Built(f, m) == f = [k \in 0 .. m |-> Step(f, k)]
           Bad == {m \in 0 .. n : ~\E f : Built(f, m)}
<1>1. Bad = {}
  <2> SUFFICES ASSUME Bad # {} PROVE FALSE
    OBVIOUS
  <2> DEFINE m == Min(Bad)
  <2>1. Bad \in SUBSET Nat
    OBVIOUS
  <2>2. m \in Bad /\ \A k \in Bad : m <= k
    <3> HIDE DEF Bad
    <3> QED BY <2>1, LeastIs
  <2>3. m \in 0 .. n /\ ~\E f : Built(f, m)
    BY <2>2
  <2>4. m # 0
    <3> DEFINE f0 == [k \in 0 .. 0 |-> << >>]
    <3>1. Built(f0, 0)
      OBVIOUS
    <3> HIDE DEF m, Built
    <3> QED BY <2>3, <3>1
  <2>5. PICK f : Built(f, m - 1)
    <3> HIDE DEF m, Bad
    <3>1. m - 1 \in 0 .. n /\ ~(m <= m - 1)
      BY <2>3, <2>4
    <3>2. m - 1 \notin Bad
      BY <2>2, <3>1
    <3> USE DEF Bad
    <3> HIDE DEF Built
    <3> QED BY <3>1, <3>2
  <2> HIDE DEF m
  <2> DEFINE v == Step(f, m)
             g == [k \in 0 .. m |-> IF k = m THEN v ELSE f[k]]
  <2>6. m - 1 \in 0 .. m - 1 /\ m \in 1 .. n
    BY <2>3, <2>4
  <2>7. \A k \in 0 .. m : g[k] = Step(g, k)
    <3> TAKE k \in 0 .. m
    <3>1. CASE k = m
      BY <3>1, <2>6
    <3>2. CASE k # m
      <4>1. k \in 0 .. m - 1 /\ (k # 0 => k - 1 \in 0 .. m /\ k - 1 # m)
        BY <3>2, <2>3
      <4>2. f[k] = Step(f, k)
        BY <2>5, <4>1
      <4>3. g[k] = f[k] /\ (k # 0 => g[k - 1] = f[k - 1])
        BY <4>1, <3>2
      <4> QED BY <4>2, <4>3
    <3> QED BY <3>1, <3>2
  <2>8. Built(g, m)
    BY <2>7
  <2> QED BY <2>3, <2>8
<1>2. PICK f : Built(f, n)
  <2> HIDE DEF Built
  <2> QED BY <1>1
<1>3. KeptUpTo(K, n) = CHOOSE h : h = [k \in 0 .. n |-> Step(h, k)]
  BY DEF KeptUpTo
<1> DEFINE h == KeptUpTo(K, n)
<1>4. h = [k \in 0 .. n |-> Step(h, k)]
  BY <1>2, <1>3
<1>5. \A k \in 0 .. n : h[k] \in Seq(1 .. n)
  <2> DEFINE Wrong == {k \in 0 .. n : h[k] \notin Seq(1 .. n)}
  <2> SUFFICES ASSUME Wrong # {} PROVE FALSE
    OBVIOUS
  <2> DEFINE m == Min(Wrong)
  <2>1. Wrong \in SUBSET Nat
    OBVIOUS
  <2>2. m \in Wrong /\ \A k \in Wrong : m <= k
    <3> HIDE DEF Wrong
    <3> QED BY <2>1, LeastIs
  <2>3. m \in 0 .. n /\ h[m] \notin Seq(1 .. n)
    BY <2>2
  <2> HIDE DEF m, h
  <2>4. h[m] = Step(h, m)
    BY <1>4, <2>3
  <2>5. m # 0
    <3>1. << >> \in Seq(1 .. n)
      OBVIOUS
    <3>2. m = 0 => Step(h, m) = << >>
      OBVIOUS
    <3> HIDE DEF Step
    <3> QED BY <2>3, <2>4, <3>1, <3>2
  <2>6. m - 1 \in 0 .. n /\ ~(m <= m - 1) /\ m \in 1 .. n
    BY <2>3, <2>5
  <2>7. h[m - 1] \in Seq(1 .. n)
    BY <2>2, <2>6
  <2>8. Append(h[m - 1], m) \in Seq(1 .. n)
    BY <2>6, <2>7
  <2>9. Step(h, m) = Append(h[m - 1], m) \/ Step(h, m) = h[m - 1]
    BY <2>5
  <2> HIDE DEF Step
  <2> QED BY <2>3, <2>4, <2>7, <2>8, <2>9
<1> QED BY <1>5 DEF Kept

----------------------------------------------------------------------------
(* The view.                                                               *)

\* A window of at most r rows on a list of n.
WindowIs(n, r, f, l) ==
    IF n <= r THEN f = 0 /\ l = n ELSE f \in Nat /\ l = f + r /\ l <= n

\* Something is selected as long as anything can be, and it is in the window
\* if everything can be.
Framed(its, v, r, f, l, s) ==
    /\ WindowIs(Len(v), r, f, l) /\ s \in -1 .. Len(v) - 1
    /\ s = -1 <=> ValidIn(its, v) = {}
    /\ s >= 0 /\ ValidIn(its, v) = 0 .. Len(v) - 1 => s \in f .. l - 1

\* The window drawn around a row holds it.
LEMMA ViewHolds ==
    ASSUME NEW n \in Nat, NEW s \in -1 .. n - 1, NEW r \in Nat \ {0}
    PROVE  /\ WindowIs(n, r, ViewFirst(n, s, r), ViewLast(n, s, r))
           /\ s >= 0 => s \in ViewFirst(n, s, r) .. ViewLast(n, s, r) - 1
<1>1. CASE n <= r
  BY <1>1 DEF ViewFirst, ViewLast, WindowIs
<1>2. CASE ~(n <= r)
  <2> DEFINE a == Max({s, 0})
             h == r \div 2
             b == Max({a - h, 0})
             f == Min({b, n - r})
  <2>1. a \in Nat /\ a <= n - 1 /\ (s >= 0 => a = s)
    BY <1>2, OfTwo
  <2>2. h \in Nat /\ h <= r - 1
    OBVIOUS
  <2> HIDE DEF a, h
  <2>3. b \in Nat /\ b <= a /\ b >= a - h
    BY <2>1, <2>2, OfTwo
  <2> HIDE DEF b
  <2>4. f \in Nat /\ f <= n - r /\ f <= b /\ (f = b \/ f = n - r)
    BY <1>2, <2>3, OfTwo
  <2>5. ViewFirst(n, s, r) = f /\ ViewLast(n, s, r) = f + r
    BY <1>2 DEF ViewFirst, ViewLast, f, b, a, h
  <2> HIDE DEF f
  <2>6. s >= 0 => s \in f .. f + r - 1
    BY <2>1, <2>2, <2>3, <2>4
  <2> QED BY <1>2, <2>4, <2>5, <2>6 DEF WindowIs
<1> QED BY <1>1, <1>2

LEMMA ValidAre ==
    ASSUME NEW its, NEW K, NEW v \in Seq(K)
    PROVE  Len(v) \in Nat /\ ValidIn(its, v) \in SUBSET (0 .. Len(v) - 1)
BY DEF ValidIn

LEMMA ViewSelects ==
    ASSUME NEW its, NEW K, NEW v \in Seq(K), NEW s
    PROVE  /\ ViewSel(its, v, s) \in -1 .. Len(v) - 1
           /\ ViewSel(its, v, s) = -1 <=> ValidIn(its, v) = {}
<1> DEFINE ok == ValidIn(its, v)
<1>1. Len(v) \in Nat /\ ok \in SUBSET (0 .. Len(v) - 1)
  BY ValidAre
<1> HIDE DEF ok
<1>2. ok # {} => Min(ok) \in ok
  BY <1>1, LeastIs
<1>3. ViewSel(its, v, s) = IF s \in ok THEN s ELSE IF ok = {} THEN -1 ELSE Min(ok)
  BY DEF ViewSel, ok
<1>4. ViewSel(its, v, s) \in ok \/ (ok = {} /\ ViewSel(its, v, s) = -1)
  BY <1>2, <1>3
<1>5. ok = {} => ViewSel(its, v, s) = -1
  BY <1>3
<1> QED BY <1>1, <1>4, <1>5 DEF ok

LEMMA Reframed ==
    ASSUME NEW its, NEW K, NEW v \in Seq(K), NEW s, NEW r \in Nat \ {0}, InitView(its, v, s, r)
    PROVE  Framed(its, v, r, first', last', sel')
<1> DEFINE n == Len(v)
           s1 == ViewSel(its, v, s)
<1>1. n \in Nat /\ s1 \in -1 .. n - 1 /\ (s1 = -1 <=> ValidIn(its, v) = {})
  BY ValidAre, ViewSelects
<1>2. sel' = s1 /\ first' = ViewFirst(n, s1, r) /\ last' = ViewLast(n, s1, r)
  BY DEF InitView
<1> HIDE DEF n, s1
<1>3. /\ WindowIs(n, r, first', last')
      /\ sel' >= 0 => sel' \in first' .. last' - 1
  BY <1>1, <1>2, ViewHolds
<1> QED BY <1>1, <1>2, <1>3 DEF Framed, n

----------------------------------------------------------------------------
(* The list and its rows.                                                  *)

\* A record of the list.
IsItem(it) ==
    it = [name |-> it.name, feats |-> it.feats, opts |-> it.opts, opt |-> it.opt,
          initial |-> it.initial, path |-> it.path, back |-> it.back]
IsList(its) ==
    /\ Len(its) \in Nat /\ DOMAIN its = 1 .. Len(its)
    /\ \A i \in DOMAIN its : IsItem(its[i])

LEMMA FilteredIs ==
    ASSUME NEW its, IsList(its), NEW f
    PROVE  FilteredView(its, f) \in Seq(DOMAIN its)
<1> DEFINE n == Len(its)
           K == {i \in DOMAIN its : ItemVisible(its[i], f)}
<1>1. n \in Nat /\ DOMAIN its = 1 .. n /\ K \in SUBSET (1 .. n)
  BY DEF IsList
<1>2. FilteredView(its, f) = Kept(K, n)
  BY DEF FilteredView
<1> HIDE DEF n, K
<1> QED BY <1>1, <1>2, KeptIs

LEMMA EveryRowIs ==
    ASSUME NEW n \in Nat
    PROVE  [k \in 1 .. n |-> k] \in Seq(1 .. n) /\ Len([k \in 1 .. n |-> k]) = n
OBVIOUS

\* What the readers return is a list of items.
LEMMA ReadsItems == ASSUME NEW i \in Inputs PROVE IsList(ReadItems(i))
<1> DEFINE raw == i.raw
           m == Len(raw)
<1>1. i.form \in {"text", "strings", "objects"} /\ m \in Nat /\ DOMAIN raw = 1 .. m
  BY InputsAssumption
<1>3. CASE i.form = "text"
  <2> DEFINE K == {k \in DOMAIN raw : raw[k].name # <<>>}
             lines == Kept(K, m)
             its == [k \in DOMAIN lines |->
                       [name |-> raw[lines[k]].name, feats |-> {}, opts |-> 0, opt |-> 0,
                        initial |-> 0, path |-> "", back |-> i.back]]
  <2>1. K \in SUBSET (1 .. m)
    BY <1>1
  <2>2. lines \in Seq(1 .. m)
    <3> HIDE DEF K, m
    <3> QED BY <1>1, <2>1, KeptIs
  <2>3. Len(lines) \in Nat /\ DOMAIN lines = 1 .. Len(lines)
    <3> HIDE DEF lines, m
    <3> QED BY <2>2
  <2>4. ReadItems(i) = its
    BY <1>3 DEF ReadItems, ReadText
  <2> HIDE DEF lines
  <2>5. Len(its) = Len(lines)
    BY <2>3
  <2>6. \A k \in DOMAIN its : IsItem(its[k])
    BY DEF IsItem
  <2> QED BY <2>3, <2>4, <2>5, <2>6 DEF IsList
<1>4. CASE i.form = "strings"
  <2> DEFINE its == [k \in DOMAIN raw |-> [name |-> raw[k].name, feats |-> {}, opts |-> 0,
                                           opt |-> 0, initial |-> 0, path |-> "", back |-> i.back]]
  <2>1. ReadItems(i) = its
    BY <1>4 DEF ReadItems, ReadStrings
  <2>2. Len(its) = m
    BY <1>1
  <2>3. \A k \in DOMAIN its : IsItem(its[k])
    BY DEF IsItem
  <2> QED BY <1>1, <2>1, <2>2, <2>3 DEF IsList
<1>5. CASE i.form = "objects"
  <2> DEFINE its == [k \in DOMAIN raw |->
     [name |-> raw[k].name, feats |-> ReadFlags(raw[k]) \cup ReadHeader(raw[k]),
      opts |-> raw[k].opts, opt |-> ReadOption(raw[k]),
      initial |-> ReadOption(raw[k]), path |-> ResolvedPath(raw[k]),
      back |-> BackOf(i, raw[k])]]
  <2>1. ReadItems(i) = its
    BY <1>5 DEF ReadItems, ReadObjects
  <2>2. Len(its) = m
    BY <1>1
  <2>3. \A k \in DOMAIN its : IsItem(its[k])
    BY DEF IsItem
  <2> QED BY <1>1, <2>1, <2>2, <2>3 DEF IsList
<1> QED BY <1>1, <1>3, <1>4, <1>5

\* Sorting them gives a list again.
LEMMA SortsItems ==
    ASSUME NEW its, IsList(its), NEW p \in SortedOrders(its)
    PROVE  IsList([k \in DOMAIN p |-> its[p[k]]])
<1> DEFINE n == Len(its)
           new == [k \in DOMAIN p |-> its[p[k]]]
<1>1. n \in Nat /\ DOMAIN its = 1 .. n /\ \A k \in 1 .. n : IsItem(its[k])
  BY DEF IsList
<1>2. p \in [1 .. n -> 1 .. n]
  <2>1. p \in Bijection(DOMAIN its, DOMAIN its)
    BY DEF SortedOrders
  <2>2. p \in [DOMAIN its -> DOMAIN its]
    BY <2>1 DEF Bijection, Injection, Surjection
  <2> QED BY <1>1, <2>2
<1> HIDE DEF n
<1>3. DOMAIN new = 1 .. n /\ Len(new) = n
  BY <1>1, <1>2
<1>4. \A k \in 1 .. n : IsItem(new[k])
  BY <1>1, <1>2
<1> QED BY <1>1, <1>3, <1>4 DEF IsList

----------------------------------------------------------------------------
(* minui-list: the inductive invariant.                                    *)

NotRun == {"start", "error"}

ListTyped ==
    /\ in \in Inputs /\ IsList(items) /\ vis \in Seq(DOMAIN items) /\ kb \in BOOLEAN
    /\ rows \in Nat \ {0} /\ (kb => saved \in Nat \ {0}) /\ OnKey(cur)

\* Before the first frame, and when the input was refused.
NothingRead ==
    code \in NotRun =>
        vis = <<>> /\ sel = -1 /\ first = 0 /\ last = 0 /\ loaded = {}

\* The window of the run: also the rows that cannot be selected are counted.
WindowFramed == code \notin NotRun => Framed(items, vis, rows, first, last, sel)

ListInv ==
    /\ ListTyped /\ NothingRead /\ WindowFramed /\ ScreenCurrent /\ CacheBounded
    /\ backLost \in BOOLEAN

LEMMA ListSizes ==
    ASSUME ListTyped
    PROVE  /\ N \in Nat /\ rows \in Nat \ {0} /\ S \in SUBSET (0 .. N - 1)
           /\ \A k \in 0 .. N - 1 : vis[k + 1] \in DOMAIN items
<1>1. vis \in Seq(DOMAIN items) /\ rows \in Nat \ {0}
  BY DEF ListTyped
<1>2. N \in Nat /\ S \in SUBSET (0 .. N - 1)
  BY <1>1, ValidAre DEF N, S
<1> QED BY <1>1, <1>2 DEF N

LEMMA WindowInside ==
    ASSUME NEW n \in Nat, NEW r \in Nat \ {0}, NEW f, NEW l, WindowIs(n, r, f, l)
    PROVE  f .. l - 1 \subseteq 0 .. n - 1
<1>1. f \in Int /\ l \in Int /\ 0 <= f /\ l <= n
  BY DEF WindowIs
<1> QED BY <1>1

LEMMA RowsOf ==
    ASSUME NEW K, NEW v \in Seq(K)
    PROVE  Len(v) \in Nat /\ \A k \in 0 .. Len(v) - 1 : v[k + 1] \in K
OBVIOUS

\* A frame that draws: a row of the window has its path tried, and the images
\* that stay are those of the window.
LEMMA FirstDrawn ==
    ASSUME ListTyped', code' = "run", NEW old, \A i \in loaded : old[i] # "", DrawImages(old),
           shown' = Screen', backLost' = FALSE,
           Framed(items', vis', rows', first', last', sel')
    PROVE  ListInv'
<1> DEFINE win == Window(vis', first', last')
           path(i) == EffectivePath(items'[i])
           tried == {i \in win : path(i) # old[i]}
<1>1. ScreenCurrent'
  BY DEF ScreenCurrent
<1>2. win \subseteq DOMAIN items'
  <2>1. vis' \in Seq(DOMAIN items') /\ rows' \in Nat \ {0}
    BY DEF ListTyped
  <2>2. Len(vis') \in Nat /\ \A k \in 0 .. Len(vis') - 1 : vis'[k + 1] \in DOMAIN items'
    <3> DEFINE K == DOMAIN items'
               v == vis'
    <3>1. v \in Seq(K)
      BY <2>1
    <3> HIDE DEF K, v
    <3>2. Len(v) \in Nat /\ \A k \in 0 .. Len(v) - 1 : v[k + 1] \in K
      BY <3>1, RowsOf
    <3> QED BY <3>2 DEF K, v
  <2>3. first' .. last' - 1 \subseteq 0 .. Len(vis') - 1
    BY <2>1, <2>2, WindowInside DEF Framed
  <2> QED BY <2>2, <2>3 DEF Window
<1>3. PICK good \in SUBSET {i \in tried : path(i) # ""} :
        loaded' = ((loaded \cap win) \ tried) \cup good
  BY DEF DrawImages, LoadImages
<1>4. active' = [i \in DOMAIN items' |-> IF i \in tried THEN path(i)
                                        ELSE IF i \in win \/ i \notin loaded THEN old[i] ELSE ""]
  BY DEF DrawImages
<1>5. tried \subseteq win /\ win = Window(vis, first, last)'
  BY DEF Window
<1> HIDE DEF win, path, tried
<1>6. loaded' \subseteq Window(vis, first, last)'
  BY <1>3, <1>5
<1>7. ASSUME NEW i \in loaded' PROVE active'[i] # ""
  <2>1. i \in DOMAIN items'
    BY <1>2, <1>5, <1>6
  <2>2. CASE i \in good
    BY <1>3, <1>4, <2>1, <2>2
  <2>3. CASE i \in (loaded \cap win) \ tried
    BY <1>4, <2>1, <2>3
  <2> QED BY <1>3, <2>2, <2>3
<1>8. CacheBounded'
  BY <1>6, <1>7 DEF CacheBounded
<1>9. NothingRead' /\ WindowFramed'
  BY DEF NothingRead, WindowFramed, NotRun
<1> QED BY <1>1, <1>8, <1>9 DEF ListInv

LEMMA DrawnKeeps ==
    ASSUME ListInv, code = "run", ListTyped', code' = "run", PollAndDraw(TRUE),
           Framed(items', vis', rows', first', last', sel')
    PROVE  ListInv'
<1>1. DrawImages(active) /\ shown' = Screen' /\ backLost' = FALSE
  BY DEF PollAndDraw, Draw
<1>2. \A i \in loaded : active[i] # ""
  BY DEF ListInv, CacheBounded
<1> QED BY <1>1, <1>2, FirstDrawn

\* The screen with another background.
LEMMA OtherBack ==
    ASSUME NEW a, NEW b, NEW c, NEW d, NEW e, NEW f, NEW x, NEW y
    PROVE  [[rows |-> a, row |-> b, right |-> c, left |-> d, keyboard |-> e, filter |-> f,
             back |-> x] EXCEPT !.back = y]
           = [rows |-> a, row |-> b, right |-> c, left |-> d, keyboard |-> e, filter |-> f,
              back |-> y]
OBVIOUS

\* A frame that changes nothing on the screen, or the end of the tool; only the
\* picture of the background may come or go.
LEMMA StillKeeps ==
    ASSUME ListInv, UNCHANGED <<in, items, view, cache, shown>>,
           backLost' = (backLost \/ Background' # Background),
           code' = code \/ (code = "run" /\ code' \notin NotRun /\ code' # "run")
                        \/ (code = "start" /\ code' = "error")
    PROVE  ListInv'
<1> USE DEF ListInv, view, cache
<1>1. ListTyped'
  BY DEF ListTyped
<1>2. NothingRead' /\ WindowFramed'
  BY DEF NothingRead, WindowFramed, NotRun
<1>3. ScreenCurrent'
  <2> DEFINE with(f, b) == [f EXCEPT !.back = b]
  <2>1. Screen' = with(Screen, Background')
    <3>1. RightHints' = RightHints /\ LeftHints' = LeftHints
      BY DEF RightHints, LeftHints, At
    <3>2. HighlightedRow' = HighlightedRow /\ KeyboardShown' = KeyboardShown
      BY DEF HighlightedRow, KeyboardShown
    <3>3. \A k : RowShown(k)' = RowShown(k)
      BY DEF RowShown, At
    <3>4. [k \in first .. last - 1 |-> RowShown(k)]' = [k \in first .. last - 1 |-> RowShown(k)]
      BY <3>3
    <3>5. (IF in.filter THEN text ELSE <<>>)' = IF in.filter THEN text ELSE <<>>
      OBVIOUS
    <3> DEFINE lines == [k \in first .. last - 1 |-> RowShown(k)]
               typed == IF in.filter THEN text ELSE <<>>
               new == [rows |-> lines, row |-> HighlightedRow, right |-> RightHints,
                       left |-> LeftHints, keyboard |-> KeyboardShown, filter |-> typed,
                       back |-> Background']
    <3>6. Screen' = new
      BY <3>1, <3>2, <3>4, <3>5 DEF Screen
    <3>7. with(Screen, Background') = new
      <4>1. Screen = [rows |-> lines, row |-> HighlightedRow, right |-> RightHints,
                      left |-> LeftHints, keyboard |-> KeyboardShown, filter |-> typed,
                      back |-> Background]
        BY DEF Screen
      <4> HIDE DEF lines, typed
      <4>2. [Screen EXCEPT !.back = Background'] = new
        BY <4>1, OtherBack
      <4> QED BY <4>2
    <3> QED BY <3>6, <3>7
  <2>2. with(Screen, Background) = Screen
    BY DEF Screen
  <2>3. ASSUME NEW f, NEW a, NEW b PROVE with(with(f, a), b) = with(f, b)
    OBVIOUS
  <2>4. ASSUME code' \notin NotRun
        PROVE  IF backLost' THEN with(shown, Background') = Screen' ELSE shown = Screen'
    <3>1. IF backLost THEN with(shown, Background) = Screen ELSE shown = Screen
      BY <2>4 DEF ScreenCurrent, NotRun
    <3> HIDE DEF with
    <3>2. with(shown, Background') = Screen'
      BY <2>1, <2>3, <3>1
    <3>3. ~backLost' => shown = Screen'
      BY <2>1, <2>2, <3>1
    <3> QED BY <3>2, <3>3
  <2> QED BY <2>4 DEF ScreenCurrent, NotRun
<1>4. CacheBounded'
  BY DEF CacheBounded, Window, NotRun
<1> QED BY <1>1, <1>2, <1>3, <1>4

\* Without a change of the files the background is what it was.
LEMMA SameBackground ==
    ASSUME ListInv, UNCHANGED <<items, view, files, backSeen, backLost>>
    PROVE  backLost' = (backLost \/ Background' # Background)
<1>1. Background' = Background
  BY DEF Background, At, view
<1> QED BY <1>1 DEF ListInv

LEMMA PickingSees ==
    ASSUME ListInv, Picking
    PROVE  /\ code = "run" /\ N \in Nat \ {0} /\ rows \in Nat \ {0}
           /\ S \in SUBSET (0 .. N - 1) /\ S # {} /\ sel \in 0 .. N - 1
           /\ WindowIs(N, rows, first, last)
           /\ S = 0 .. N - 1 => sel \in first .. last - 1
<1>1. code = "run" /\ sel >= 0
  BY DEF Picking, Listing, Running
<1>2. Framed(items, vis, rows, first, last, sel)
  BY <1>1 DEF ListInv, WindowFramed, NotRun
<1>3. N \in Nat /\ rows \in Nat \ {0} /\ S \in SUBSET (0 .. N - 1)
  BY ListSizes DEF ListInv
<1> QED BY <1>1, <1>2, <1>3 DEF Framed, N, S

\* The window and the selection move, nothing else.
LEMMA MovedKeeps ==
    ASSUME ListInv, Picking, Moved, WindowIs(N, rows, first', last'), sel' \in 0 .. N - 1,
           S = 0 .. N - 1 => sel' \in first' .. last' - 1
    PROVE  ListInv'
<1>1. code = "run" /\ S # {} /\ N \in Nat
  BY PickingSees
<1>2. UNCHANGED <<in, items, vis, rows, saved, kb, cur, code>> /\ PollAndDraw(TRUE)
  BY DEF Moved
<1>3. ListTyped'
  BY <1>2 DEF ListInv, ListTyped
<1>4. Framed(items', vis', rows', first', last', sel')
  BY <1>1, <1>2 DEF Framed, N, S
<1> QED BY <1>1, <1>2, <1>3, <1>4, DrawnKeeps

\* The window at the end and at the start of the list.
LEMMA WindowsAtEnds ==
    ASSUME N \in Nat \ {0}, rows \in Nat \ {0}
    PROVE  /\ WindowEnd => WindowIs(N, rows, first', last') /\ N - 1 \in first' .. last' - 1
           /\ WindowStart => WindowIs(N, rows, first', last') /\ 0 \in first' .. last' - 1
<1>1. Max({N - rows, 0}) = (IF N - rows >= 0 THEN N - rows ELSE 0)
  BY OfTwo
<1>2. Min({N, rows}) = (IF N <= rows THEN N ELSE rows)
  BY OfTwo
<1> HIDE DEF N
<1>3. WindowEnd => WindowIs(N, rows, first', last') /\ N - 1 \in first' .. last' - 1
  BY <1>1 DEF WindowEnd, WindowIs
<1>4. WindowStart => WindowIs(N, rows, first', last') /\ 0 \in first' .. last' - 1
  BY <1>2 DEF WindowStart, WindowIs
<1> QED BY <1>3, <1>4

LEMMA UpKeeps == ASSUME ListInv, NEW fresh, Up(fresh) PROVE ListInv'
<1> DEFINE before == {k \in S : k < sel}
<1>1. Picking /\ Moved
  BY DEF Up
<1>2. /\ N \in Nat \ {0} /\ rows \in Nat \ {0} /\ S \in SUBSET (0 .. N - 1) /\ S # {}
      /\ sel \in 0 .. N - 1 /\ WindowIs(N, rows, first, last)
      /\ S = 0 .. N - 1 => sel \in first .. last - 1
  BY <1>1, PickingSees
<1>3. CASE before = {}
  <2>1. sel' = Max(S) /\ WindowEnd
    BY <1>3 DEF Up
  <2>2. Max(S) \in S /\ \A k \in S : k <= Max(S)
    <3>1. N - 1 \in Nat
      BY <1>2
    <3> HIDE DEF S, N
    <3> QED BY <1>2, <3>1, GreatestIs
  <2>3. sel' \in 0 .. N - 1 /\ (S = 0 .. N - 1 => sel' = N - 1)
    <3> DEFINE m == Max(S)
    <3>1. m \in 0 .. N - 1
      BY <1>2, <2>2
    <3>2. S = 0 .. N - 1 => N - 1 <= m
      BY <1>2, <2>2
    <3> HIDE DEF m
    <3>3. sel' = m
      BY <2>1 DEF m
    <3> QED BY <1>2, <3>1, <3>2, <3>3
  <2> QED BY <1>1, <1>2, <2>1, <2>3, WindowsAtEnds, MovedKeeps
<1>4. CASE before # {}
  <2> DEFINE m == Max(before)
  <2>1. m \in before /\ \A k \in before : k <= m
    <3>1. before \in SUBSET (0 .. N - 1) /\ N - 1 \in Nat
      <4>1. before \subseteq S
        OBVIOUS
      <4> HIDE DEF before
      <4> QED BY <1>2, <4>1
    <3> HIDE DEF before, N
    <3> QED BY <1>4, <3>1, GreatestIs
  <2>2. sel' = m /\ IF m < first THEN first' = first - 1 /\ last' = last - 1
                    ELSE UNCHANGED <<first, last>>
    BY <1>4 DEF Up
  <2>3. m \in 0 .. N - 1 /\ m < sel
    BY <1>2, <2>1
  <2>4. S = 0 .. N - 1 => m = sel - 1
    <3> SUFFICES ASSUME S = 0 .. N - 1 PROVE m = sel - 1
      OBVIOUS
    <3>1. sel - 1 \in 0 .. N - 1 /\ sel - 1 < sel
      BY <1>2, <2>3
    <3>2. sel - 1 \in before
      BY <3>1
    <3> HIDE DEF m, before
    <3> QED BY <2>1, <3>2, <2>3, <1>2
  <2> HIDE DEF m, before
  <2>5. WindowIs(N, rows, first', last')
    BY <1>2, <2>2, <2>3 DEF WindowIs
  <2>6. S = 0 .. N - 1 => sel' \in first' .. last' - 1
    BY <1>2, <2>2, <2>3, <2>4 DEF WindowIs
  <2> QED BY <1>1, <2>2, <2>3, <2>5, <2>6, MovedKeeps
<1> QED BY <1>3, <1>4

LEMMA DownKeeps == ASSUME ListInv, NEW fresh, Down(fresh) PROVE ListInv'
<1> DEFINE after == {k \in S : k > sel}
<1>1. Picking /\ Moved
  BY DEF Down
<1>2. /\ N \in Nat \ {0} /\ rows \in Nat \ {0} /\ S \in SUBSET (0 .. N - 1) /\ S # {}
      /\ sel \in 0 .. N - 1 /\ WindowIs(N, rows, first, last)
      /\ S = 0 .. N - 1 => sel \in first .. last - 1
  BY <1>1, PickingSees
<1>3. CASE after = {}
  <2>1. sel' = Min(S) /\ WindowStart
    BY <1>3 DEF Down
  <2>2. Min(S) \in S /\ \A k \in S : Min(S) <= k
    <3>1. S \in SUBSET Nat
      BY <1>2
    <3> HIDE DEF S
    <3> QED BY <1>2, <3>1, LeastIs
  <2>3. sel' \in 0 .. N - 1 /\ (S = 0 .. N - 1 => sel' = 0)
    <3> DEFINE m == Min(S)
    <3>1. m \in 0 .. N - 1
      BY <1>2, <2>2
    <3>2. S = 0 .. N - 1 => m <= 0
      BY <1>2, <2>2
    <3> HIDE DEF m
    <3>3. sel' = m
      BY <2>1 DEF m
    <3> QED BY <1>2, <3>1, <3>2, <3>3
  <2> QED BY <1>1, <1>2, <2>1, <2>3, WindowsAtEnds, MovedKeeps
<1>4. CASE after # {}
  <2> DEFINE m == Min(after)
  <2>1. m \in after /\ \A k \in after : m <= k
    <3>1. after \in SUBSET Nat
      <4>1. after \subseteq S /\ S \subseteq Nat
        BY <1>2
      <4> HIDE DEF after
      <4> QED BY <4>1
    <3> HIDE DEF after
    <3> QED BY <1>4, <3>1, LeastIs
  <2>2. sel' = m /\ IF m >= last THEN first' = first + 1 /\ last' = last + 1
                    ELSE UNCHANGED <<first, last>>
    BY <1>4 DEF Down
  <2>3. m \in 0 .. N - 1 /\ m > sel
    BY <1>2, <2>1
  <2>4. S = 0 .. N - 1 => m = sel + 1
    <3> SUFFICES ASSUME S = 0 .. N - 1 PROVE m = sel + 1
      OBVIOUS
    <3>1. sel + 1 \in 0 .. N - 1 /\ sel + 1 > sel
      BY <1>2, <2>3
    <3>2. sel + 1 \in after
      BY <3>1
    <3> HIDE DEF m, after
    <3> QED BY <2>1, <3>2, <2>3, <1>2
  <2> HIDE DEF m, after
  <2>5. WindowIs(N, rows, first', last')
    BY <1>2, <2>2, <2>3 DEF WindowIs
  <2>6. S = 0 .. N - 1 => sel' \in first' .. last' - 1
    BY <1>2, <2>2, <2>3, <2>4 DEF WindowIs
  <2> QED BY <1>1, <2>2, <2>3, <2>5, <2>6, MovedKeeps
<1> QED BY <1>3, <1>4

LEMMA PageLeftKeeps == ASSUME ListInv, PageLeft PROVE ListInv'
<1> DEFINE from == Max({sel - rows, 0})
           before == {k \in S : k <= from}
           s == IF before = {} THEN Min(S) ELSE Max(before)
           f == Max({first - rows, 0})
<1>1. /\ Picking /\ Moved /\ sel' = s
      /\ IF s < first THEN first' = f /\ last' = f + rows ELSE UNCHANGED <<first, last>>
  BY DEF PageLeft
<1>2. /\ N \in Nat \ {0} /\ rows \in Nat \ {0} /\ S \in SUBSET (0 .. N - 1) /\ S # {}
      /\ sel \in 0 .. N - 1 /\ WindowIs(N, rows, first, last)
      /\ S = 0 .. N - 1 => sel \in first .. last - 1
  BY <1>1, PickingSees
<1>3. from = (IF sel - rows >= 0 THEN sel - rows ELSE 0) /\ from \in 0 .. N - 1
  BY <1>2, OfTwo
<1>4. s \in 0 .. N - 1 /\ (S = 0 .. N - 1 => s = from)
  <2>1. CASE before = {}
    <3>1. Min(S) \in S
      <4>1. S \in SUBSET Nat
        BY <1>2
      <4> HIDE DEF S
      <4> QED BY <1>2, <4>1, LeastIs
    <3>2. S = 0 .. N - 1 => from \in before
      BY <1>3
    <3> HIDE DEF from, before
    <3> QED BY <1>2, <2>1, <3>1, <3>2 DEF s
  <2>2. CASE before # {}
    <3>1. Max(before) \in before /\ \A k \in before : k <= Max(before)
      <4>1. before \subseteq S /\ N - 1 \in Nat
        BY <1>2
      <4> HIDE DEF before, N
      <4>2. before \in SUBSET (0 .. N - 1)
        BY <1>2, <4>1
      <4> QED BY <2>2, <4>1, <4>2, GreatestIs
    <3> DEFINE m == Max(before)
    <3>2. m \in S /\ m <= from
      BY <3>1
    <3>3. S = 0 .. N - 1 => from \in before
      BY <1>3
    <3>4. S = 0 .. N - 1 => from <= m
      BY <3>1, <3>3
    <3>5. s = m
      BY <2>2
    <3> HIDE DEF from, m, before, s
    <3> QED BY <1>2, <1>3, <3>2, <3>4, <3>5
  <2> QED BY <2>1, <2>2
<1>5. f = (IF first - rows >= 0 THEN first - rows ELSE 0)
  BY <1>2, OfTwo DEF WindowIs
<1> HIDE DEF from, s, f
<1>6. WindowIs(N, rows, first', last')
  BY <1>1, <1>2, <1>4, <1>5 DEF WindowIs
<1>7. S = 0 .. N - 1 => sel' \in first' .. last' - 1
  BY <1>1, <1>2, <1>3, <1>4, <1>5 DEF WindowIs
<1> QED BY <1>1, <1>4, <1>6, <1>7, MovedKeeps

LEMMA PageRightKeeps == ASSUME ListInv, PageRight PROVE ListInv'
<1> DEFINE from == Min({sel + rows, N - 1})
           after == {k \in S : k >= from}
           l == Min({last + rows, N})
<1>1. Picking /\ Moved
  BY DEF PageRight
<1>2. /\ N \in Nat \ {0} /\ rows \in Nat \ {0} /\ S \in SUBSET (0 .. N - 1) /\ S # {}
      /\ sel \in 0 .. N - 1 /\ WindowIs(N, rows, first, last)
      /\ S = 0 .. N - 1 => sel \in first .. last - 1
  BY <1>1, PickingSees
<1>3. from = (IF sel + rows <= N - 1 THEN sel + rows ELSE N - 1) /\ from \in 0 .. N - 1
  <2> DEFINE a == sel + rows
             b == N - 1
  <2>1. a \in Nat /\ b \in Nat
    BY <1>2
  <2> HIDE DEF a, b
  <2>2. Min({a, b}) = IF a <= b THEN a ELSE b
    BY <2>1, OfTwo
  <2>3. Min({a, b}) \in 0 .. b
    BY <2>1, <2>2
  <2> QED BY <2>2, <2>3 DEF a, b
<1>4. CASE after = {}
  <2>1. sel' = N - 1 /\ WindowEnd
    BY <1>4 DEF PageRight
  <2> QED BY <1>1, <1>2, <2>1, WindowsAtEnds, MovedKeeps
<1>5. CASE after # {}
  <2> DEFINE m == Min(after)
  <2>1. m \in after /\ \A k \in after : m <= k
    <3>1. after \subseteq S /\ S \subseteq Nat
      BY <1>2
    <3> HIDE DEF after
    <3>2. after \in SUBSET Nat
      BY <3>1
    <3> QED BY <1>5, <3>2, LeastIs
  <2>2. sel' = m /\ IF m >= last THEN last' = l /\ first' = l - rows
                    ELSE UNCHANGED <<first, last>>
    BY <1>5 DEF PageRight
  <2>3. m \in 0 .. N - 1 /\ m >= from
    BY <1>2, <2>1
  <2>4. S = 0 .. N - 1 => from \in after
    BY <1>3
  <2>5. S = 0 .. N - 1 => m <= from
    BY <2>1, <2>4
  <2>6. l = (IF last + rows <= N THEN last + rows ELSE N)
    <3> DEFINE a == last + rows
    <3>1. a \in Int /\ N \in Int
      BY <1>2 DEF WindowIs
    <3> HIDE DEF a
    <3>2. Min({a, N}) = IF a <= N THEN a ELSE N
      BY <3>1, OfTwo
    <3> QED BY <3>2 DEF a
  <2> HIDE DEF from, after, m, l
  <2>7. WindowIs(N, rows, first', last')
    BY <1>2, <2>2, <2>3, <2>6 DEF WindowIs
  <2>8. S = 0 .. N - 1 => sel' \in first' .. last' - 1
    BY <1>2, <1>3, <2>2, <2>3, <2>5, <2>6 DEF WindowIs
  <2> QED BY <1>1, <2>2, <2>3, <2>7, <2>8, MovedKeeps
<1> QED BY <1>4, <1>5

LEMMA JumpKeeps == ASSUME ListInv, NEW target, Jump(target) PROVE ListInv'
<1>1. Picking /\ Moved /\ InitView(items, vis, target, rows)
  BY DEF Jump
<1>2. code = "run" /\ vis \in Seq(DOMAIN items) /\ rows \in Nat \ {0}
  BY <1>1, PickingSees DEF ListInv, ListTyped
<1>3. Framed(items, vis, rows, first', last', sel')
  BY <1>1, <1>2, Reframed
<1>4. UNCHANGED <<in, items, vis, rows, saved, kb, cur, code>> /\ PollAndDraw(TRUE)
  BY <1>1 DEF Moved
<1>5. ListTyped'
  BY <1>4 DEF ListInv, ListTyped
<1> QED BY <1>2, <1>3, <1>4, <1>5, DrawnKeeps

\* Another option of a row, or another state of its switch: what can be
\* selected is the same.
LEMMA RowChanges ==
    ASSUME ListInv, Picking, NEW it, IsItem(it),
           Selectable(it) <=> Selectable(items[vis[sel + 1]]),
           items' = [items EXCEPT ![vis[sel + 1]] = it],
           UNCHANGED <<in, view, code>>, PollAndDraw(TRUE)
    PROVE  ListInv'
<1> DEFINE j == vis[sel + 1]
<1>1. code = "run" /\ sel \in 0 .. N - 1 /\ N \in Nat /\ IsList(items) /\ vis \in Seq(DOMAIN items)
  BY PickingSees DEF ListInv, ListTyped
<1>2. j \in DOMAIN items
  BY <1>1, ListSizes DEF ListInv
<1> HIDE DEF j
<1>3. /\ DOMAIN items' = DOMAIN items
      /\ \A i \in DOMAIN items : items'[i] = IF i = j THEN it ELSE items[i]
  BY <1>1, <1>2 DEF j
<1>4. Len(items') = Len(items)
  BY <1>1, <1>3 DEF IsList, j
<1>5. IsList(items')
  BY <1>1, <1>3, <1>4 DEF IsList
<1>6. ListTyped'
  BY <1>3, <1>5 DEF ListInv, ListTyped, view
<1>7. ValidIn(items', vis) = ValidIn(items, vis)
  <2>1. \A k \in 0 .. Len(vis) - 1 : vis[k + 1] \in DOMAIN items
    BY ListSizes DEF ListInv, N
  <2>2. \A i \in DOMAIN items : Selectable(items'[i]) <=> Selectable(items[i])
    BY <1>3 DEF j
  <2> HIDE DEF Selectable
  <2> QED BY <2>1, <2>2 DEF ValidIn
<1>8. Framed(items, vis, rows, first, last, sel)
  BY <1>1 DEF ListInv, WindowFramed, NotRun
<1>9. Framed(items', vis', rows', first', last', sel')
  BY <1>7, <1>8 DEF Framed, view
<1> QED BY <1>1, <1>6, <1>9, DrawnKeeps

LEMMA CycleOptionKeeps == ASSUME ListInv, NEW right, CycleOption(right) PROVE ListInv'
<1> DEFINE it == items[vis[sel + 1]]
           o == IF right THEN (IF it.opt + 1 >= it.opts THEN 0 ELSE it.opt + 1)
                ELSE (IF it.opt - 1 < 0 THEN it.opts - 1 ELSE it.opt - 1)
<1>1. /\ Picking /\ UNCHANGED <<in, view, code>> /\ PollAndDraw(TRUE)
      /\ items' = IF "disabled" \in it.feats THEN items
                  ELSE [items EXCEPT ![vis[sel + 1]].opt = o]
  BY DEF CycleOption, At
<1>2. IsList(items) /\ vis[sel + 1] \in DOMAIN items
  BY <1>1, PickingSees, ListSizes DEF ListInv, ListTyped
<1>3. IsItem(it)
  BY <1>2 DEF IsList
<1>4. CASE "disabled" \in it.feats
  <2>1. items' = items
    BY <1>1, <1>4
  <2>2. code = "run" /\ ListTyped' /\ Framed(items', vis', rows', first', last', sel')
    BY <1>1, <2>1, PickingSees DEF ListInv, ListTyped, WindowFramed, NotRun, view
  <2> QED BY <1>1, <2>2, DrawnKeeps
<1>5. CASE "disabled" \notin it.feats
  <2> HIDE DEF o
  <2> DEFINE new == [it EXCEPT !.opt = o]
  <2>1. items' = [items EXCEPT ![vis[sel + 1]] = new]
    BY <1>1, <1>2, <1>5
  <2>2. IsItem(new) /\ new.feats = it.feats
    BY <1>3 DEF IsItem
  <2>3. Selectable(new) <=> Selectable(it)
    BY <2>2 DEF Selectable
  <2> HIDE DEF new
  <2> QED BY <1>1, <2>1, <2>2, <2>3, RowChanges
<1> QED BY <1>4, <1>5

LEMMA ToggleEnabledKeeps == ASSUME ListInv, ToggleEnabled PROVE ListInv'
<1> DEFINE it == items[vis[sel + 1]]
           fs == IF "disabled" \in it.feats THEN it.feats \ {"disabled"}
                 ELSE it.feats \cup {"disabled"}
           new == [it EXCEPT !.feats = fs]
<1>1. Picking /\ UNCHANGED <<in, view, code>> /\ PollAndDraw(TRUE)
  BY DEF ToggleEnabled, Pressed
<1>2. IsList(items) /\ vis[sel + 1] \in DOMAIN items
  BY <1>1, PickingSees, ListSizes DEF ListInv, ListTyped
<1>3. items' = [items EXCEPT ![vis[sel + 1]] = new]
  BY <1>2 DEF ToggleEnabled
<1>4. IsItem(it)
  BY <1>2 DEF IsList
<1>5. {"is_header", "unselectable"} \cap fs = {"is_header", "unselectable"} \cap it.feats
  OBVIOUS
<1> HIDE DEF fs
<1>6. IsItem(new) /\ new.feats = fs
  BY <1>4 DEF IsItem
<1>7. Selectable(new) <=> Selectable(it)
  BY <1>5, <1>6 DEF Selectable
<1> HIDE DEF new
<1> QED BY <1>1, <1>3, <1>6, <1>7, RowChanges

----------------------------------------------------------------------------
(* The frames with the keyboard.                                           *)

LEMMA Opens ==
    ASSUME NEW its, NEW K, NEW v \in Seq(K), NEW s, NEW r \in Nat \ {0}, OnKey(cur),
           OpenKeyboard(its, v, s, r)
    PROVE  /\ kb' = TRUE /\ saved' = r /\ rows' \in Nat \ {0} /\ OnKey(cur')
           /\ Framed(its, v, rows', first', last', sel')
<1>1. Min({KbRows, r}) \in Nat \ {0}
  <2>1. KbRows \in Int /\ r \in Int /\ KbRows \in Nat \ {0}
    BY RowsAssumption
  <2>2. Min({KbRows, r}) = IF KbRows <= r THEN KbRows ELSE r
    BY <2>1, OfTwo
  <2> QED BY <2>1, <2>2
<1>2. kb' = TRUE /\ saved' = r /\ rows' = Min({KbRows, r}) /\ InitView(its, v, s, Min({KbRows, r}))
  BY DEF OpenKeyboard
<1>3. OnKey(cur')
  BY MovesStayOnKeys DEF OpenKeyboard
<1> DEFINE q == Min({KbRows, r})
<1> HIDE DEF q
<1>4. q \in Nat \ {0} /\ rows' = q /\ InitView(its, v, s, q)
  BY <1>1, <1>2 DEF q
<1>5. Framed(its, v, q, first', last', sel')
  BY <1>4, Reframed
<1> QED BY <1>2, <1>3, <1>4, <1>5

LEMMA ToggleKeyboardKeeps == ASSUME ListInv, ToggleKeyboard PROVE ListInv'
<1>1. /\ code = "run" /\ OpenKeyboard(items, vis, sel, rows) /\ PollAndDraw(TRUE)
      /\ UNCHANGED <<in, items, vis, code>>
  BY DEF ToggleKeyboard, Listing, Running
<1>2. vis \in Seq(DOMAIN items) /\ rows \in Nat \ {0} /\ OnKey(cur)
  BY DEF ListInv, ListTyped
<1>3. /\ kb' = TRUE /\ saved' = rows /\ rows' \in Nat \ {0} /\ OnKey(cur')
      /\ Framed(items, vis, rows', first', last', sel')
  BY <1>1, <1>2, Opens
<1>4. ListTyped'
  BY <1>1, <1>2, <1>3 DEF ListInv, ListTyped
<1> QED BY <1>1, <1>3, <1>4, DrawnKeeps

LEMMA CloseKeyboardKeeps == ASSUME ListInv, Typing, CloseKeyboard PROVE ListInv'
<1>1. /\ code = "run" /\ kb /\ kb' = FALSE /\ rows' = saved /\ InitView(items, vis, sel, saved)
      /\ UNCHANGED <<in, items, vis, cur, code>> /\ PollAndDraw(TRUE)
  BY DEF CloseKeyboard, Typing, Running
<1>2. vis \in Seq(DOMAIN items) /\ saved \in Nat \ {0}
  BY <1>1 DEF ListInv, ListTyped
<1>3. Framed(items, vis, saved, first', last', sel')
  BY <1>1, <1>2, Reframed
<1>4. ListTyped'
  BY <1>1, <1>2 DEF ListInv, ListTyped
<1> QED BY <1>1, <1>3, <1>4, DrawnKeeps

LEMMA EditKeeps == ASSUME ListInv, Typing, NEW t, Edit(t) PROVE ListInv'
<1> DEFINE w == FilteredView(items, t)
<1>1. /\ code = "run" /\ vis' = w /\ InitView(items, w, KeptSel(vis, sel, w), rows)
      /\ UNCHANGED <<in, items, rows, saved, kb, cur, code>> /\ PollAndDraw(TRUE)
  BY DEF Edit, ApplyFilter, Typing, Running
<1>2. IsList(items) /\ rows \in Nat \ {0}
  BY DEF ListInv, ListTyped
<1>3. w \in Seq(DOMAIN items)
  BY <1>2, FilteredIs
<1> HIDE DEF w
<1>4. Framed(items, w, rows, first', last', sel')
  BY <1>1, <1>2, <1>3, Reframed
<1>5. ListTyped'
  BY <1>1, <1>3 DEF ListInv, ListTyped
<1> QED BY <1>1, <1>4, <1>5, DrawnKeeps

LEMMA CursorKeeps == ASSUME ListInv, NEW c, OnKey(c), CursorTo(c) PROVE ListInv'
<1>1. /\ code = "run" /\ cur' = c /\ PollAndDraw(TRUE)
      /\ UNCHANGED <<in, items, vis, sel, first, last, rows, saved, kb, code>>
  BY DEF CursorTo, Typing, Running
<1>2. ListTyped'
  BY <1>1 DEF ListInv, ListTyped
<1>3. Framed(items, vis, rows, first, last, sel)
  BY <1>1 DEF ListInv, WindowFramed, NotRun
<1> QED BY <1>1, <1>2, <1>3, DrawnKeeps

----------------------------------------------------------------------------
(* The other steps, and the theorems.                                      *)

\* A frame without a change: drawn again or not.
LEMMA SameKeeps ==
    ASSUME ListInv, code = "run", UNCHANGED <<in, items, hasOpts, view, code>>,
           NEW redraw \in BOOLEAN, PollAndDraw(redraw)
    PROVE  ListInv'
<1>1. CASE redraw
  <2>1. ListTyped' /\ Framed(items', vis', rows', first', last', sel') /\ code' = "run"
    BY DEF ListInv, ListTyped, WindowFramed, NotRun, view
  <2> QED BY <1>1, <2>1, DrawnKeeps
<1>2. CASE ~redraw
  BY <1>2, StillKeeps DEF PollAndDraw, Draw
<1> QED BY <1>1, <1>2

LEMMA QuitKeeps ==
    ASSUME ListInv, code = "run", NEW c, c \notin NotRun \cup {"run"}, Quit(c)
    PROVE  ListInv'
<1>1. PICK forced \in BOOLEAN : PollAndDraw(forced)
  BY DEF Quit
<1>2. UNCHANGED <<in, items, view>> /\ code' = c /\ c \notin NotRun /\ c # "run"
  BY DEF Quit, NotRun
<1>3. CASE forced
  <2>1. shown' = Screen' /\ backLost' = FALSE
    BY <1>1, <1>3 DEF PollAndDraw, Draw
  <2>2. ListTyped' /\ WindowFramed'
    BY <1>2 DEF ListInv, ListTyped, WindowFramed, NotRun, view
  <2>3. NothingRead' /\ ScreenCurrent' /\ CacheBounded'
    BY <1>2, <2>1 DEF NothingRead, ScreenCurrent, CacheBounded
  <2> QED BY <2>1, <2>2, <2>3 DEF ListInv
<1>4. CASE ~forced
  BY <1>1, <1>2, <1>4, StillKeeps DEF PollAndDraw, Draw
<1> QED BY <1>3, <1>4

LEMMA StartKeeps == ASSUME ListInv, Start PROVE ListInv'
<1>1. code' = "run" /\ code = "start" /\ UNCHANGED in /\ in \in Inputs /\ OnKey(cur)
  BY DEF Start, ListInv, ListTyped
<1>0. /\ loaded = {} /\ shown' = Screen' /\ backLost' = FALSE
      /\ DrawImages([i \in DOMAIN items' |-> ""])
  BY <1>1 DEF Start, ListInv, NothingRead, NotRun
<1> DEFINE all == ReadItems(in)
<1>2. PICK its \in IF in.alpha THEN {[k \in DOMAIN p |-> all[p[k]]] : p \in SortedOrders(all)}
                   ELSE {all} :
       LET ident == [k \in DOMAIN its |-> k]
           s == IF in.alpha THEN ReselectByName(all, its, in.selected) ELSE in.selected
           s1 == ViewSel(its, ident, s)
           v == IF in.filter THEN FilteredView(its, in.text) ELSE ident
           s2 == IF in.filter /\ in.text # <<>> THEN KeptSel(ident, s1, v) ELSE s1
       IN  /\ items' = its /\ vis' = v
           /\ IF in.filter /\ in.openKb THEN OpenKeyboard(its, v, s2, Rows)
              ELSE /\ kb' = FALSE /\ saved' = 0 /\ rows' = Rows /\ cur' = cur
                   /\ InitView(its, v, s2, Rows)
  BY DEF Start
<1>3. IsList(all)
  BY <1>1, ReadsItems
<1> HIDE DEF all
<1>4. IsList(its)
  BY <1>2, <1>3, SortsItems
<1> DEFINE ident == [k \in DOMAIN its |-> k]
           s == IF in.alpha THEN ReselectByName(all, its, in.selected) ELSE in.selected
           s1 == ViewSel(its, ident, s)
           v == IF in.filter THEN FilteredView(its, in.text) ELSE ident
           s2 == IF in.filter /\ in.text # <<>> THEN KeptSel(ident, s1, v) ELSE s1
<1>5. v \in Seq(DOMAIN its)
  <2>1. ident \in Seq(DOMAIN its)
    BY <1>4, EveryRowIs DEF IsList
  <2>2. FilteredView(its, in.text) \in Seq(DOMAIN its)
    BY <1>4, FilteredIs
  <2> HIDE DEF ident
  <2> QED BY <2>1, <2>2
<1>6. /\ items' = its /\ vis' = v
      /\ IF in.filter /\ in.openKb THEN OpenKeyboard(its, v, s2, Rows)
         ELSE /\ kb' = FALSE /\ saved' = 0 /\ rows' = Rows /\ cur' = cur
              /\ InitView(its, v, s2, Rows)
  BY <1>2
<1> HIDE DEF ident, s, s1, v, s2
<1>7. Rows \in Nat \ {0}
  BY RowsAssumption
<1>8. CASE in.filter /\ in.openKb
  <2>1. OpenKeyboard(its, v, s2, Rows)
    BY <1>6, <1>8
  <2>2. /\ kb' = TRUE /\ saved' = Rows /\ rows' \in Nat \ {0} /\ OnKey(cur')
        /\ Framed(its, v, rows', first', last', sel')
    BY <1>1, <1>5, <1>7, <2>1, Opens
  <2>3. ListTyped'
    BY <1>1, <1>4, <1>5, <1>6, <1>7, <2>2 DEF ListTyped
  <2> QED BY <1>0, <1>1, <1>6, <2>2, <2>3, FirstDrawn
<1>9. CASE ~(in.filter /\ in.openKb)
  <2>1. kb' = FALSE /\ rows' = Rows /\ cur' = cur /\ InitView(its, v, s2, Rows)
    BY <1>6, <1>9
  <2>2. Framed(its, v, Rows, first', last', sel')
    BY <1>5, <1>7, <2>1, Reframed
  <2>3. ListTyped'
    BY <1>1, <1>4, <1>5, <1>6, <1>7, <2>1 DEF ListTyped
  <2> QED BY <1>0, <1>1, <1>6, <2>1, <2>2, <2>3, FirstDrawn
<1> QED BY <1>8, <1>9

LEMMA ListStarts == Init => ListInv
<1> SUFFICES ASSUME Init PROVE ListInv
  OBVIOUS
<1> USE DEF Init
<1>1. OnKey(cur)
  BY DEF OnKey, RowLength, KbLayouts, KbRowCount
<1>2. IsList(items) /\ vis \in Seq(DOMAIN items)
  BY DEF IsList
<1>3. ListTyped
  BY <1>1, <1>2, RowsAssumption DEF ListTyped
<1> QED BY <1>3 DEF ListInv, NothingRead, WindowFramed, NotRun, ScreenCurrent, CacheBounded

LEMMA ListSteps == ListInv /\ [Next]_vars => ListInv'
<1> SUFFICES ASSUME ListInv, Next \/ UNCHANGED vars PROVE ListInv'
  OBVIOUS
<1>1. CASE StartFails
  BY <1>1, StillKeeps, SameBackground DEF StartFails, Refuse, painted, cache
<1>2. CASE Start
  BY <1>2, StartKeeps
<1>3. ASSUME NEW fresh \in BOOLEAN, Up(fresh) \/ Down(fresh) PROVE ListInv'
  BY <1>3, UpKeeps, DownKeeps
<1>4. CASE Held
  BY <1>4, SameKeeps, PickingSees DEF Held
<1>5. CASE PageLeft \/ PageRight
  BY <1>5, PageLeftKeeps, PageRightKeeps
<1>6. ASSUME NEW right \in BOOLEAN, CycleOption(right) PROVE ListInv'
  BY <1>6, CycleOptionKeeps
<1>7. CASE Jump(NextLetter) \/ Jump(PrevLetter)
  BY <1>7, JumpKeeps
<1>8. CASE ToggleEnabled
  BY <1>8, ToggleEnabledKeeps
<1>9. CASE PressAction \/ PressCancel \/ PressConfirm \/ PressMenu \/ Signal
  <2>1. code = "run" /\ \E c \in {"action", "cancel", "success", "menu", "signal"} : Quit(c)
    BY <1>9 DEF PressAction, PressCancel, PressConfirm, PressMenu, Signal, Pressed, Picking,
                Listing, Running
  <2> QED BY <2>1, QuitKeeps DEF NotRun
<1>10. ASSUME NEW forced \in BOOLEAN, Idle(forced) PROVE ListInv'
  <2> DEFINE due == forced \/ ImageStale \/ backSeen' # backSeen
  <2>1. due \in BOOLEAN
    BY DEF ImageStale
  <2>2. code = "run" /\ UNCHANGED <<in, items, hasOpts, view, code>> /\ PollAndDraw(due)
    BY <1>10 DEF Idle, PollAndDraw, Listing, Running
  <2> HIDE DEF due
  <2> QED BY <2>1, <2>2, SameKeeps
<1>11. CASE ToggleKeyboard
  BY <1>11, ToggleKeyboardKeeps
<1>12. CASE PressToggle \/ PressEnter
  BY <1>12, CloseKeyboardKeeps DEF PressToggle, PressEnter
<1>13. ASSUME NEW c \in Letters, PressKey(c) PROVE ListInv'
  BY <1>13, EditKeeps DEF PressKey
<1>14. CASE Backspace \/ ClearText
  BY <1>14, EditKeeps DEF Backspace, ClearText
<1>20. CASE BackspaceEmpty
  BY <1>20, SameKeeps DEF BackspaceEmpty, Typing, Running
<1>15. CASE PressShift
  BY <1>15, CursorKeeps, MovesStayOnKeys DEF PressShift, ListInv, ListTyped
<1>16. ASSUME NEW forced \in BOOLEAN, KeyboardIdle(forced) PROVE ListInv'
  BY <1>16, SameKeeps DEF KeyboardIdle, Typing, Running
<1>17. ASSUME NEW c \in {MoveUp(cur), MoveDown(cur), MoveLeft(cur), MoveRight(cur)}, CursorTo(c)
       PROVE  ListInv'
  BY <1>17, CursorKeeps, MovesStayOnKeys DEF ListInv, ListTyped
<1>18. ASSUME NEW p, FileChange(p) PROVE ListInv'
  BY <1>18, StillKeeps DEF FileChange
<1>19. CASE Ended \/ UNCHANGED vars
  BY <1>19, StillKeeps, SameBackground DEF Ended, vars, view, painted, cache
<1> QED BY <1>1, <1>2, <1>3, <1>4, <1>5, <1>6, <1>7, <1>8, <1>9, <1>10, <1>11, <1>12, <1>13, <1>14,
           <1>15, <1>16, <1>17, <1>18, <1>19, <1>20 DEF Next

\* minui-list: what is drawn is in the list and on the keyboard, the selected
\* row is drawn as long as every row can be selected, the row written on exit
\* is the one that was highlighted, only rows of the window hold an image, and no
\* press changes what is selected, listed or typed without drawing it; only the
\* picture of the background may be missing, after a dropped redraw.
THEOREM ListShownThm == Spec => []ListShown
<1>1. ListInv => SelectionInWindow
  <2> SUFFICES ASSUME ListInv PROVE SelectionInWindow
    OBVIOUS
  <2>1. /\ N \in Nat /\ rows \in Nat \ {0} /\ S \in SUBSET (0 .. N - 1)
        /\ \A k \in 0 .. N - 1 : vis[k + 1] \in DOMAIN items
    BY ListSizes DEF ListInv
  <2>2. KeyAt(cur) # "none"
    BY OnKeyIs DEF ListInv, ListTyped
  <2>3. CASE code \in NotRun
    <3>1. vis = <<>> /\ sel = -1 /\ first = 0 /\ last = 0 /\ N = 0
      BY <2>3 DEF ListInv, NothingRead, N
    <3>2. WindowInList
      BY <2>1, <2>2, <2>3, <3>1 DEF WindowInList, NotRun, N
    <3>3. SelectionShown
      BY <3>1 DEF SelectionShown
    <3> QED BY <3>2, <3>3 DEF ListInv, SelectionInWindow
  <2>4. CASE code \notin NotRun
    <3>1. /\ WindowIs(N, rows, first, last) /\ sel \in -1 .. N - 1 /\ (sel = -1 <=> S = {})
          /\ sel >= 0 /\ S = 0 .. N - 1 => sel \in first .. last - 1
      BY <2>4 DEF ListInv, WindowFramed, Framed, N, S
    <3>2. WindowInList
      BY <2>1, <2>2, <3>1 DEF WindowInList, WindowIs, N
    <3>3. Cardinality(S) = N => S = 0 .. N - 1
      <4>1. IsFiniteSet(0 .. N - 1) /\ Cardinality(0 .. N - 1) = N
        BY <2>1, FS_Interval
      <4> HIDE DEF N, S
      <4> QED BY <2>1, <4>1, FS_Subset
    <3>4. shown.rows = Screen.rows
      <4>1. \/ shown = Screen
            \/ [shown EXCEPT !.back = Background] = Screen
        BY <2>4 DEF ListInv, ScreenCurrent, NotRun
      <4>2. "rows" \in DOMAIN Screen
        BY DEF Screen
      <4> HIDE DEF Screen
      <4>3. CASE [shown EXCEPT !.back = Background] = Screen
        <5>1. DOMAIN shown = DOMAIN Screen
          BY <4>3
        <5>2. [shown EXCEPT !.back = Background].rows = shown.rows
          BY <4>2, <5>1
        <5> QED BY <4>3, <5>2
      <4> QED BY <4>1, <4>3
    <3>5. sel \in first .. last - 1 => shown.rows[sel][1] = vis[sel + 1]
      <4>1. Screen.rows = [k \in first .. last - 1 |-> RowShown(k)]
        BY DEF Screen
      <4>2. RowShown(sel)[1] = vis[sel + 1]
        BY DEF RowShown
      <4> QED BY <3>4, <4>1, <4>2
    <3>6. SelectionShown
      BY <3>1, <3>3, <3>5 DEF SelectionShown, Output
    <3> QED BY <3>2, <3>6 DEF ListInv, SelectionInWindow
  <2> QED BY <2>3, <2>4
<1>2. ListInv => ListShown
  BY <1>1 DEF ListInv, ListShown
<1> QED BY <1>2, ListStarts, ListSteps, PTL DEF Spec
=============================================================================
