-------------------------- MODULE MinuiPresenter --------------------------
(***************************************************************************)
(* minui-presenter: a message, or a series of slides, shown by the paks    *)
(* until a button, a timeout or a signal ends it.  One step is one         *)
(* iteration of the frame loop of main, or one event of the environment:   *)
(* a signal, a second of the wall clock, a picture that is written.        *)
(***************************************************************************)
EXTENDS Integers, Sequences, FiniteSets

CONSTANTS
  Args,       \* the command lines and files the tool may be started with
  MaxClock,   \* bound: seconds of wall clock a run is followed for
  MainRows,   \* MAIN_ROW_COUNT
  LineWidth   \* width of a line of text

\* What getopt and the JSON reader leave: a list of slides, a number, and
\* flags of the four buttons only.
ASSUME ArgsAssumption ==
  \A a \in Args : /\ DOMAIN a.file = 1 .. Len(a.file) /\ Len(a.file) \in Nat
                  /\ a.selected \in Int
                  /\ a.show \subseteq {"action", "confirm", "cancel", "inaction"}

VARIABLES
  arg,        \* the command line
  slides,     \* items_state->items
  slide,      \* items_state->selected, from 0
  usr1,       \* increment_item_list_index, set by the signal handler
  dirty,      \* state.redraw
  now,        \* seconds since start_time
  pics,       \* picture files that exist
  found,      \* slides whose image_exists is set
  pcode,      \* "parse", "run", or the exit code
  pshown,     \* what was drawn last
  pressed,    \* the answer given in the last frame, "none" without one
  dropped     \* a redraw was asked for and cancelled by a held d-pad

pvars == <<arg, slides, slide, usr1, dirty, now, pics, found, pcode, pshown,
           pressed, dropped>>

Buttons == {"A", "B", "X", "Y"}
Roles == <<"action", "confirm", "cancel", "inaction">>
Count == Len(slides)

-----------------------------------------------------------------------------
(* Reading the command line and the file.                                  *)

\* One word is placed: forced breaks first, never past the last row, then on
\* the row if it is empty or has room, else on the next one.  "at" is
\* current_message_index and always equals message_count.
PlaceWord(st, w) ==
  LET at == IF st.at + w.breaks < MainRows THEN st.at + w.breaks
            ELSE IF st.at < MainRows THEN MainRows - 1 ELSE st.at
      used == IF at = st.at THEN st.used ELSE 0
      fits == arg.nowrap \/ used + w.width + 1 <= LineWidth
  IN  IF at >= MainRows THEN st
      ELSE IF used = 0 THEN [at |-> at, used |-> w.width]
      ELSE IF fits THEN [at |-> at, used |-> used + w.width]
      ELSE [at |-> at + 1, used |-> w.width]

\* The row the text ends on.
LastRow(words) ==
  LET placed[k \in 0 .. Len(words)] ==
        IF k = 0 THEN [at |-> 0, used |-> 0] ELSE PlaceWord(placed[k - 1], words[k])
  IN  placed[Len(words)].at

\* draw_screen draws rows 0 to message_count: one more than there are when the
\* text overflows.  They only depend on the text,
\* so they are computed once.
RowsDrawn(words) == 0 .. LastRow(words)

\* One item of the file: an object with a text, a boolean pill and a known
\* alignment.  The whole file is refused for any other.
SlideValid(r) == r.shape = "ok"

\* The picture and the alignment of a slide default to the command line's.
ReadSlide(r) == [rows |-> RowsDrawn(r.words),
                 pic |-> IF r.pic = "" THEN arg.pic ELSE r.pic]

\* A message on the command line is the only slide.
Slides == IF arg.message # <<>> THEN <<[rows |-> RowsDrawn(arg.message), pic |-> arg.pic]>>
          ELSE [k \in DOMAIN arg.file |-> ReadSlide(arg.file[k])]

\* "selected" of the file is clamped into the items.
FirstSlide(n) ==
  IF arg.message # <<>> \/ arg.selected < 0 THEN 0
  ELSE IF arg.selected >= n THEN n - 1 ELSE arg.selected

\* An empty cancel button is B again.
ButtonOf(role) ==
  IF role = "cancel" /\ arg.btn[role] = "" THEN "B" ELSE arg.btn[role]

\* No button has two roles.
ButtonsDistinct ==
  \A i, j \in 1 .. 4 :
    i # j /\ ButtonOf(Roles[i]) \in Buttons => ButtonOf(Roles[i]) # ButtonOf(Roles[j])

ButtonsKnown == \A i \in 1 .. 4 : ButtonOf(Roles[i]) \in Buttons \cup {""}

\* The other options: one of message and file, alignment, font, and numbers.
OptionsValid == arg.bad = {}

Refused ==
  \/ ~OptionsValid \/ ~ButtonsDistinct \/ ~ButtonsKnown
  \/ arg.message = <<>> /\ (arg.file = <<>> \/ \E k \in DOMAIN arg.file : ~SlideValid(arg.file[k]))

ParseFails ==
  /\ pcode = "parse" /\ Refused
  /\ pcode' = "error"
  /\ UNCHANGED <<arg, slides, slide, usr1, dirty, now, pics, found, pshown, pressed, dropped>>

\* access(2) on every picture while the file is read.
Parse ==
  /\ pcode = "parse" /\ ~Refused
  /\ slides' = Slides /\ slide' = FirstSlide(Len(Slides))
  /\ found' = {k \in 0 .. Len(Slides) - 1 : Slides[k + 1].pic \in pics}
  /\ pcode' = "run" /\ dirty' = TRUE
  /\ UNCHANGED <<arg, usr1, now, pics, pshown, pressed, dropped>>

-----------------------------------------------------------------------------
(* Drawing.                                                                *)

\* The buttons that are shown: at most two on each side.
HintsDrawn == {r \in arg.show : ButtonOf(r) # ""}

\* The countdown, when it is asked for and there is one.
TimeLeft == IF arg.timeLeft /\ arg.timeout > 0
            THEN IF arg.timeout > now THEN arg.timeout - now ELSE 0 ELSE -1

\* The background: the picture of the slide, loaded anew for every frame.
PictureDrawn(s) == IF slides[s + 1].pic \in pics THEN slides[s + 1].pic ELSE ""

Page(s) == [slide |-> s, rows |-> slides[s + 1].rows, hints |-> HintsDrawn,
            left |-> TimeLeft, pic |-> PictureDrawn(s)]

\* The end of a frame: the redraw flag that is left for the next one, and the
\* timeout, which wins over the answer of the same frame.
Elapsed(answer, redraw) ==
  /\ pcode' = IF arg.timeout > 0 /\ now >= arg.timeout THEN "timeout" ELSE answer
  /\ dirty' = (redraw \/ (arg.timeout > 0 /\ now # 0 /\ arg.timeLeft))

\* Draw slide s if redraw is set, and finish the frame with that answer.
FinishFrame(s, redraw, answer) ==
  /\ slide' = s
  /\ pshown' = IF redraw THEN Page(s) ELSE pshown
  /\ Elapsed(answer, FALSE)
  /\ pressed' = IF answer = "run" THEN "none" ELSE answer
  /\ UNCHANGED <<arg, slides, now, pics>>

-----------------------------------------------------------------------------
(* handle_input.                                                           *)

\* A picture that was missing has appeared.
PictureFound == slide \notin found /\ slides[slide + 1].pic \in pics
NoteFound == found' = IF PictureFound THEN found \cup {slide} ELSE found

\* The slide after the signal, if one came in: Count past the end.
Advanced == IF usr1 THEN slide + 1 ELSE slide
Wrapped == IF Advanced >= Count THEN 0 ELSE Advanced
SignalQuits == usr1 /\ Advanced >= Count /\ arg.quitLast

\* Mutant: a picture that appeared asks for nothing.
Asked_blind(wifi) == dirty \/ wifi \/ usr1

\* What asks for a redraw before the buttons are looked at.  The wifi state
\* may have changed too.
Asked(wifi) == dirty \/ wifi \/ PictureFound \/ usr1

\* The signal moves past the last slide of a run that then quits; redraw is
\* set after all and the frame draws a slide that does not exist.
SignalPastEnd ==
  /\ pcode = "run" /\ SignalQuits
  /\ NoteFound /\ usr1' = FALSE /\ dropped' = dropped
  /\ slide' = Count /\ pressed' = "none" /\ pshown' = [slide |-> Count]
  /\ \E answer \in {"success", "crash"} :
       IF answer = "crash" THEN pcode' = answer /\ dirty' = TRUE ELSE Elapsed(answer, FALSE)
  /\ UNCHANGED <<arg, slides, now, pics>>

\* A frame without a press; with a negative timeout no press is looked at.
Quiet(wifi) ==
  /\ pcode = "run" /\ ~SignalQuits
  /\ NoteFound /\ usr1' = FALSE
  /\ dropped' = (dropped /\ ~Asked(wifi))
  /\ FinishFrame(Wrapped, Asked(wifi), "run")

Polled == pcode = "run" /\ ~SignalQuits /\ arg.timeout >= 0

\* The role a button has.
AnswerOf(b) == CHOOSE r \in {Roles[i] : i \in 1 .. 4} \cup {"none"} :
               \/ r # "none" /\ ButtonOf(r) = b
               \/ r = "none" /\ \A i \in 1 .. 4 : ButtonOf(Roles[i]) # b

\* Cancel answers also when it is not shown.
Answers(b) == AnswerOf(b) = "cancel" \/ AnswerOf(b) \in arg.show

PressButton(b) ==
  /\ Polled /\ Answers(b)
  /\ NoteFound /\ usr1' = FALSE /\ dropped' = dropped
  /\ FinishFrame(Wrapped, FALSE, AnswerOf(b))

PressStart ==
  /\ Polled
  /\ NoteFound /\ usr1' = FALSE /\ dropped' = dropped
  /\ FinishFrame(Wrapped, FALSE, "start")

\* A held d-pad at an end cancels whatever redraw was asked for.
HeldAtEnd(wifi, end) ==
  /\ Polled /\ Wrapped = end
  /\ NoteFound /\ usr1' = FALSE
  /\ dropped' = (dropped \/ Asked(wifi))
  /\ FinishFrame(Wrapped, FALSE, "run")

Left(fresh) ==
  /\ Polled /\ (Wrapped = 0 => fresh)
  /\ NoteFound /\ usr1' = FALSE /\ dropped' = FALSE
  /\ FinishFrame(IF Wrapped = 0 THEN Count - 1 ELSE Wrapped - 1, TRUE, "run")

Right(fresh) ==
  /\ Polled /\ (Wrapped = Count - 1 => fresh)
  /\ ~(Wrapped = Count - 1 /\ arg.quitLast)
  /\ NoteFound /\ usr1' = FALSE /\ dropped' = FALSE
  /\ FinishFrame(IF Wrapped = Count - 1 THEN 0 ELSE Wrapped + 1, TRUE, "run")

\* Right on the last slide of a run that quits there: nothing is drawn.
RightQuits ==
  /\ Polled /\ Wrapped = Count - 1 /\ arg.quitLast
  /\ NoteFound /\ usr1' = FALSE /\ dropped' = dropped
  /\ slide' = Count /\ pressed' = "success"
  /\ Elapsed("success", FALSE)
  /\ UNCHANGED <<arg, slides, now, pics, pshown>>

Frame ==
  \/ SignalPastEnd
  \/ \E wifi \in BOOLEAN : Quiet(wifi) \/ HeldAtEnd(wifi, 0) \/ HeldAtEnd(wifi, Count - 1)
  \/ \E b \in Buttons : PressButton(b)
  \/ PressStart
  \/ \E fresh \in BOOLEAN : Left(fresh) \/ Right(fresh)
  \/ RightQuits

-----------------------------------------------------------------------------
(* The environment: signals, the clock, and pictures being written.        *)

\* Several signals before the next frame are one.
Usr1 == pcode = "run" /\ usr1' = TRUE /\ UNCHANGED <<arg, slides, slide, dirty, now,
          pics, found, pcode, pshown, pressed, dropped>>

\* SIGINT and SIGTERM exit from the handler.
Killed(c) == pcode = "run" /\ pcode' = c /\ UNCHANGED <<arg, slides, slide, usr1, dirty,
               now, pics, found, pshown, pressed, dropped>>

Tick == pcode = "run" /\ now < MaxClock /\ now' = now + 1 /\ UNCHANGED <<arg, slides,
          slide, usr1, dirty, pics, found, pcode, pshown, pressed, dropped>>

PictureWritten(p) ==
  /\ pcode = "run" /\ p \notin pics /\ pics' = pics \cup {p}
  /\ UNCHANGED <<arg, slides, slide, usr1, dirty, now, found, pcode, pshown, pressed, dropped>>

PicsOf(a) == ({a.file[k].pic : k \in DOMAIN a.file} \cup {a.pic}) \ {""}

PInit ==
  /\ arg \in Args /\ slides = <<>> /\ slide = 0 /\ usr1 = FALSE /\ dirty = TRUE
  /\ now = 0 /\ pics \in SUBSET PicsOf(arg) /\ found = {}
  /\ pcode = "parse" /\ pshown = <<>> /\ pressed = "none" /\ dropped = FALSE

PEnded == pcode \notin {"parse", "run"} /\ UNCHANGED pvars

PNext ==
  \/ ParseFails \/ Parse \/ Frame \/ Usr1
  \/ \E c \in {"sigint", "sigterm"} : Killed(c)
  \/ Tick
  \/ \E p \in PicsOf(arg) : PictureWritten(p)
  \/ PEnded

PSpec == PInit /\ [][PNext]_pvars

-----------------------------------------------------------------------------
(* What must hold.                                                         *)

\* While the tool runs the slide exists, and after a frame the screen shows
\* it, with its picture: no signal, picture or wrap is missed by a redraw
\* unless a held d-pad at an end cancelled it.
SlideShown ==
  pcode = "run" =>
    /\ slide \in 0 .. Count - 1
    /\ pshown # <<>> /\ ~dropped /\ ~dirty /\ ~usr1 =>
         /\ pshown.slide = slide
         /\ slide \in found => pshown.pic # ""
=============================================================================
