------------------------------ MODULE ApDialogs ------------------------------
(***************************************************************************)
(* The smaller Apostrophe widgets: the confirmation, the choice among a    *)
(* few options, the message shown while a worker thread runs, the screen   *)
(* of details, the colour picker and the help overlay.                     *)
(***************************************************************************)
EXTENDS Integers, Sequences, FiniteSets

CONSTANTS
  NChoices,     \* number of options of a selection
  Details,     \* sequences of sections, each with its height on the screen
  DetailView,  \* height of the content area of a screen
  DetailStep,  \* how far a press scrolls: 40 scaled
  SectionGap,  \* space below a section
  HelpTexts    \* records: height the text takes, height estimated for it

VARIABLE w     \* the stack frame of the widget that runs

Is(kind) == w.kind = kind
Ends(how) == [w EXCEPT !.kind = "done", !.result = how]

\* An event that ends a dialog is remembered, the rest of the ring is still
\* handled, and the frame is drawn once more.
Close(how) == [w EXCEPT !.running = FALSE, !.result = how]
LastFrame(kind) == Is(kind) /\ ~w.running /\ w' = [w EXCEPT !.kind = "done"]

-----------------------------------------------------------------------------
(* ap_confirmation: the last of A and B in a frame counts.                 *)

Confirmation == [kind |-> "confirm", running |-> TRUE, result |-> "cancelled"]
ConfirmPress(b) == Is("confirm") /\ w' = Close(IF b = "A" THEN "ok" ELSE "cancelled")
ConfirmEnds == LastFrame("confirm")

-----------------------------------------------------------------------------
(* ap_selection: B leaves at once, also after an A of the same frame.      *)

Selection == [kind |-> "select", running |-> TRUE, result |-> "none", at |-> 0, index |-> 0]

SelectMove(d) ==
  /\ Is("select") /\ w.at + d \in 0 .. NChoices - 1
  /\ w' = [w EXCEPT !.at = @ + d]
SelectA == Is("select") /\ w' = [Close("ok") EXCEPT !.index = w.at]
SelectB == Is("select") /\ w' = Ends("cancelled")
SelectEnds == LastFrame("select")

-----------------------------------------------------------------------------
(* ap_process_message: the message stays until the worker is done, and the *)
(* interrupt button only raises a flag for it.                             *)

Process(hasSignal) ==
  [kind |-> "process", signal |-> FALSE, hasSignal |-> hasSignal, worker |-> "running",
   value |-> "none", result |-> "none", phase |-> "check"]

\* The caller's function returns, and then its result is published under the
\* lock; it may return early when it sees the flag.
WorkerReturns(v) ==
  /\ Is("process") /\ w.worker = "running"
  /\ v = "interrupted" => w.signal
  /\ w' = [w EXCEPT !.worker = "returned", !.value = v]
WorkerDone == Is("process") /\ w.worker = "returned" /\ w' = [w EXCEPT !.worker = "done"]

Interrupt == Is("process") /\ w.hasSignal /\ w.phase = "check" /\ w.worker # "done"
             /\ w' = [w EXCEPT !.signal = TRUE]

ProcessSeen == w.worker = "done"

ProcessJoin == Is("process") /\ w.phase = "check" /\ ProcessSeen
               /\ w' = [w EXCEPT !.phase = "join"]
ProcessEnds == Is("process") /\ w.phase = "join" /\ w.worker = "done" /\ w' = Ends(w.value)

-----------------------------------------------------------------------------
(* ap_detail_screen.                                                       *)

\* Height counted for a section: its title, its body and the gap.  A table is
\* counted with its rows and header even if it has no headers and is not drawn.
Counted(sec) == sec.title + sec.body + SectionGap
Total(secs) ==
  LET upTo[k \in 0 .. Len(secs)] == IF k = 0 THEN 0 ELSE upTo[k - 1] + Counted(secs[k])
  IN  upTo[Len(secs)]

MaxScroll(secs) == IF Total(secs) > DetailView THEN Total(secs) - DetailView ELSE 0

DetailScreen(secs) ==
  [kind |-> "detail", secs |-> secs, target |-> 0, at |-> 0, running |-> TRUE, result |-> "none"]

DetailUp == Is("detail") /\ w' = [w EXCEPT !.target = IF @ < DetailStep THEN 0 ELSE @ - DetailStep]
DetailDown ==
  /\ Is("detail")
  /\ w' = [w EXCEPT !.target = IF @ + DetailStep > MaxScroll(w.secs) THEN MaxScroll(w.secs)
                               ELSE @ + DetailStep]
DetailPress(b) ==
  /\ Is("detail")
  /\ w' = Close(CASE b = "B" -> "back" [] b = "A" -> "action" [] b = "Y" -> "secondary")

\* A frame moves the content toward the target, all the way when the time of
\* the animation is over.
DetailFrame(y) ==
  /\ Is("detail")
  /\ y \in {w.at, w.target} \/ (w.at < y /\ y < w.target) \/ (w.target < y /\ y < w.at)
  /\ w' = [w EXCEPT !.at = y, !.kind = IF w.running THEN "detail" ELSE "done"]

\* Where section k is drawn: below those above it.  One that is off the screen
\* takes the height that was counted, one that is drawn what it really takes.
TopOf(k) ==
  LET y[i \in 1 .. Len(w.secs)] ==
        IF i = 1 THEN -w.at
        ELSE LET above == y[i - 1]
                 sec == w.secs[i - 1]
                 off == above + Counted(sec) <= 0 \/ above >= DetailView
             IN  above + (IF off THEN Counted(sec) ELSE sec.title + sec.drawn + SectionGap)
  IN  y[k]

-----------------------------------------------------------------------------
(* ap_color_picker: a grid of 5 by 5 that wraps.                           *)

ColorPicker(c) == [kind |-> "color", x |-> c % 5, y |-> c \div 5, result |-> "none", color |-> c]
ColorMove(dx, dy) == Is("color") /\ w' = [w EXCEPT !.x = (@ + dx) % 5, !.y = (@ + dy) % 5]
ColorA == Is("color") /\ w' = [Ends("ok") EXCEPT !.color = w.y * 5 + w.x]
ColorB == Is("color") /\ w' = Ends("cancelled")

-----------------------------------------------------------------------------
(* ap_show_help_overlay: any other button than UP and DOWN closes it.      *)

\* The height is estimated from the number of characters alone.
HelpMax(t) == IF t.estimate > DetailView THEN t.estimate - DetailView ELSE 0
HelpOverlay(t) == [kind |-> "help", text |-> t, scroll |-> 0, running |-> TRUE, result |-> "none"]
HelpUp == Is("help") /\ w' = [w EXCEPT !.scroll = IF @ < DetailStep THEN 0 ELSE @ - DetailStep]
HelpDown == Is("help") /\ w' = [w EXCEPT !.scroll = IF @ + DetailStep > HelpMax(w.text) THEN HelpMax(w.text)
                                                    ELSE @ + DetailStep]
HelpClose == Is("help") /\ w' = Close("closed")
HelpEnds == LastFrame("help")

-----------------------------------------------------------------------------
DialogInit ==
  w \in {Confirmation, Selection} \cup {Process(b) : b \in BOOLEAN}
        \cup {DetailScreen(d) : d \in Details} \cup {ColorPicker(c) : c \in {0, 24}}
        \cup {HelpOverlay(t) : t \in HelpTexts}

DialogNext ==
  \/ \E b \in {"A", "B"} : ConfirmPress(b)
  \/ ConfirmEnds
  \/ \E d \in {-1, 1} : SelectMove(d) \/ ColorMove(d, 0) \/ ColorMove(0, d)
  \/ SelectA \/ SelectB \/ SelectEnds
  \/ \E v \in {"ok", "failed", "interrupted"} : WorkerReturns(v)
  \/ WorkerDone \/ Interrupt \/ ProcessJoin \/ ProcessEnds
  \/ DetailUp \/ DetailDown
  \/ \E b \in {"A", "B", "Y"} : DetailPress(b)
  \/ \E y \in 0 .. (IF Is("detail") THEN MaxScroll(w.secs) ELSE 0) : DetailFrame(y)
  \/ ColorA \/ ColorB
  \/ HelpUp \/ HelpDown \/ HelpClose \/ HelpEnds

-----------------------------------------------------------------------------
\* The message of a process is up for as long as the thread that was given the
\* caller's data runs, and the answer is that thread's, interrupted or not.
WorkerOutlived ==
  /\ w.kind = "process" /\ w.phase = "join" => w.worker = "done"
  /\ w.kind = "done" /\ "worker" \in DOMAIN w => w.worker = "done" /\ w.result = w.value

\* Scrolled down as far as it goes, a screen of details shows the end of its
\* last section, if it draws its sections as high as it counted them.
EndReachable ==
  w.kind = "detail" /\ w.secs # <<>> /\ w.at = MaxScroll(w.secs)
    /\ (\A k \in DOMAIN w.secs : w.secs[k].drawn = w.secs[k].body) =>
    TopOf(Len(w.secs)) + w.secs[Len(w.secs)].title + w.secs[Len(w.secs)].drawn <= DetailView
=============================================================================
