------------------------------- MODULE ApInput -------------------------------
(***************************************************************************)
(* The input loop of Apostrophe (apostrophe.h) under every ZcrapeGoat and  *)
(* pak screen.  SDL events of a pad (buttons, hat, stick, triggers) become *)
(* virtual button events in a ring; held directions repeat; combos and the *)
(* footer's "hidden actions" chord watch the same presses; the screen loop *)
(*     while (ap_poll_input(&ev)) handle(ev);  draw;  ap_present();        *)
(* sleeps in ap_present until an event or the nearest deadline.            *)
(*                                                                         *)
(* The thread is single; SDL's queue is filled by the devices at any time. *)
(* Deadlines are kept relative to the clock: d is the time left, negative  *)
(* when overdue, Off when the code's deadline is 0.  The clock may outrun  *)
(* the loop by at most MaxLag.  Axis "y" stands for up/down and "x" for    *)
(* left/right.                                                             *)
(***************************************************************************)
EXTENDS ApCombo, ApFooter

CONSTANTS Setups,         \* the device and application of a session
          Ring,           \* slots of the event ring (64); it holds one less
          RepeatDelay, RepeatRate, Debounce, IdleMax,
          Off,            \* a deadline that is not armed: later than any that is
          MaxLag          \* bound of the model

VARIABLES setup,   \* the member of Setups
          phys,    \* what is physically pressed or deflected
          sdl,     \* SDL's event queue
          g,       \* ap__g and the ring, as far as the input loop uses them;
                   \* g.ev: the screen was last handed a repeat
          at,      \* where the thread is
          rest,    \* the time left of the idle sleep
          keyed    \* buttons whose last processed key event was a press

inVars == <<setup, phys, sdl, g, at, rest, keyed>>

Dirs == {"up", "down", "left", "right"}
Sources == {"up", "down", "left", "right", "A", "B", "X", "Y", "L2"}
Buttons == Sources \cup {"none"}

ASSUME TimingAssumption ==
    Off \in Nat /\ {RepeatDelay, RepeatRate, Debounce, IdleMax} \subseteq 0 .. Off - 1
ASSUME SetupAssumption ==
    \A s \in Setups :
       /\ s.buttons \subseteq Sources /\ s.hats \subseteq SUBSET Dirs /\ s.sticks \subseteq {"x", "y"}
       /\ s.system \subseteq {"quit", "user"} /\ s.frames \subseteq -1 .. Off - 1
       /\ \A o \in s.opts : o.enabled \in BOOLEAN /\ {o.a, o.b} \subseteq Buttons
       /\ s.footers \subseteq {f \in Hints : Len(f) <= MaxFooterItems}
       /\ \A m \in s.combos : m \in Combo /\ m.window < GapCap

Toward(ax, dir) == CASE ax = "y" /\ dir = -1 -> "up"   [] ax = "y" /\ dir = 1 -> "down"
                     [] ax = "x" /\ dir = -1 -> "left" [] ax = "x" /\ dir = 1 -> "right"

Left(d) == IF d = Off THEN Off ELSE d - 1
Due(d) == d # Off /\ d <= 0
\* now >= deadline, where the deadline 0 of an unarmed timer is always past
Past(d) == d = Off \/ d <= 0

(* ap__flip_face_button, ap__map_joy_button and ap__map_controller_button:  *)
(* buttons carry their virtual names; with the flipped layout the faces     *)
(* change places.  On my355 the raw joystick path has no flip.              *)
FlipFace(b) ==
    IF ~setup.flipped THEN b
    ELSE CASE b = "A" -> "B" [] b = "B" -> "A" [] b = "X" -> "Y" [] b = "Y" -> "X"
           [] OTHER -> b
MapController(b) == FlipFace(b)
MapJoy(b) == IF b \in Dirs THEN "none" ELSE b

-----------------------------------------------------------------------------
(* The footer's chord *)

FooterEnabled(s) ==
    /\ s.foot.enabled
    /\ ~s.foot.overlay
    /\ s.foot.hidden > 0
    /\ s.foot.a # "none" /\ s.foot.b # "none" /\ s.foot.a # s.foot.b

RemoveButtons(ring, bs) == SelectSeq(ring, LAMBDA e : e.repeated \/ e.b \notin bs)

\* Mutant: a swallowed release is not followed by the end of the chord.
NoteButton_stuck(s, b, down) ==
    LET ab == {s.foot.a, s.foot.b}
    IN  IF ~down THEN [s |-> [s EXCEPT !.foot.swallow = @ \ {b}], eat |-> b \in s.foot.swallow]
        ELSE IF FooterEnabled(s) /\ ~s.foot.chord /\ b \in ab /\ \A x \in ab : s.held[x]
        THEN [s |-> [s EXCEPT !.foot.chord = TRUE, !.foot.open = TRUE, !.foot.swallow = ab],
              eat |-> TRUE]
        ELSE [s |-> s, eat |-> FALSE]

(* ap__footer_overflow_note_button: the new state and whether the event is   *)
(* kept from the application.                                                *)
NoteButton(s, b, down) ==
    LET ab == {s.foot.a, s.foot.b}
        cleared == IF b \in ab /\ \A x \in ab : ~s.held[x]
                   THEN [s EXCEPT !.foot.chord = FALSE] ELSE s
    IN  IF ~down THEN
           [s |-> [cleared EXCEPT !.foot.swallow = @ \ {b}], eat |-> b \in s.foot.swallow]
        ELSE IF FooterEnabled(s) /\ ~s.foot.chord /\ b \in ab /\ \A x \in ab : s.held[x]
        THEN [s |-> [s EXCEPT !.foot.chord = TRUE, !.foot.open = TRUE,
                              !.foot.swallow = ab, !.ring = RemoveButtons(@, ab)],
              eat |-> TRUE]
        ELSE [s |-> s, eat |-> FALSE]

Enqueue(s, e) ==
    IF Len(s.ring) + 1 >= Ring THEN s
    ELSE [s EXCEPT !.ring = Append(@, e), !.needsFrame = TRUE]

(* ap__input_push.  The history that combos are matched against is kept     *)
(* only for an application that registers some.                             *)
InputPush(s, b, down) ==
    LET changes == down # s.held[b]
        held == IF changes THEN [s EXCEPT !.held[b] = down] ELSE s
        combos == IF ~changes \/ setup.combos = {} THEN held
                  ELSE IF down THEN [held EXCEPT !.c = ComboPress(@, b)]
                  ELSE [held EXCEPT !.c = ComboRelease(@, b)]
        noted == NoteButton(combos, b, down)
    IN  IF b = "none" THEN s
        ELSE IF noted.eat THEN noted.s
        ELSE Enqueue(noted.s, [b |-> b, down |-> down, repeated |-> FALSE])

-----------------------------------------------------------------------------
(* Directions and their repeats *)

PushPress(s, b) ==
    InputPush(IF b \in Dirs THEN [s EXCEPT !.due[b] = RepeatDelay] ELSE s, b, TRUE)
PushRelease(s, b) ==
    InputPush(IF b \in Dirs THEN [s EXCEPT !.due[b] = Off] ELSE s, b, FALSE)

Advance(d) == IF d = Off THEN RepeatRate ELSE d + RepeatRate

RepeatDirection(s, b) ==
    [Enqueue(s, [b |-> b, down |-> TRUE, repeated |-> TRUE]) EXCEPT !.due[b] = Advance(@)]

\* Op on s for the directions in bs, in the order of the code.
InOrder(Op(_, _), s, bs) ==
    LET do(t, b) == IF b \in bs THEN Op(t, b) ELSE t
    IN  do(do(do(do(s, "up"), "down"), "left"), "right")

(* ap__set_hat_state: all releases, then all presses *)
SetHat(s, hat) ==
    [InOrder(PushPress, InOrder(PushRelease, s, s.hat \ hat), hat \ s.hat)
        EXCEPT !.hat = hat, !.hatDue = IF hat = {} THEN Off ELSE RepeatDelay]

(* ap__set_axis_direction_y and _x *)
SetAxis(s, ax, dir) ==
    LET was == s.axis[ax]
        off == IF was = 0 THEN s ELSE PushRelease(s, Toward(ax, was))
        on == IF dir = 0 THEN off ELSE PushPress(off, Toward(ax, dir))
    IN  IF was = dir THEN s
        ELSE [on EXCEPT !.axis[ax] = dir, !.axisDue[ax] = IF dir = 0 THEN Off ELSE RepeatDelay]

(* ap__handle_sdl_event.  With a GameController open, the raw button and    *)
(* hat events of the same pad are skipped; the stick arrives both ways.     *)
Handle(s, e) ==
    CASE e.t = "quit" -> InputPush(s, "B", TRUE)
      [] e.t = "user" -> s
      [] e.t = "ctrl" -> IF e.down THEN PushPress(s, MapController(e.b))
                         ELSE PushRelease(s, MapController(e.b))
      [] e.t = "joy" /\ ~setup.controller ->
                         IF e.down THEN PushPress(s, MapJoy(e.b)) ELSE PushRelease(s, MapJoy(e.b))
      [] e.t = "hat" /\ ~setup.controller -> SetHat(s, e.hat)
      [] e.t = "axis" -> SetAxis(s, e.ax, e.dir)
      [] e.t = "trigger" -> IF e.down # s.held["L2"] THEN InputPush(s, "L2", e.down) ELSE s
      [] OTHER -> s

(* The repeats of ap__process_sdl_events: buttons, then the hat, then the   *)
(* stick, no direction twice in one pass.                                   *)
\* Mutant: the deadline must be met exactly.
ButtonRepeats_exact(s) == {b \in Dirs : s.held[b] /\ s.due[b] = 0}
ButtonRepeats(s) == {b \in Dirs : s.held[b] /\ Past(s.due[b])}
HatRepeats(s) == IF Past(s.hatDue) THEN s.hat ELSE {}
AxisRepeats(s) ==
    {Toward(ax, s.axis[ax]) : ax \in {x \in {"x", "y"} : s.axis[x] # 0 /\ Past(s.axisDue[x])}}

Repeats(s) ==
    LET btn == ButtonRepeats(s)
        hat == HatRepeats(s)
        axis == AxisRepeats(s)
        repeated == InOrder(RepeatDirection,
                       InOrder(RepeatDirection,
                          InOrder(RepeatDirection, s, btn), hat \ btn), axis \ (btn \cup hat))
    IN  [repeated EXCEPT
           !.hatDue = IF hat = {} THEN @ ELSE Advance(@),
           !.axisDue = [ax \in {"x", "y"} |->
                          IF s.axis[ax] # 0 /\ Past(@[ax]) THEN Advance(@[ax]) ELSE @[ax]]]

\* The button a key event is about, and the buttons down after it.
KeyOf(e) ==
    CASE e.t = "ctrl" -> MapController(e.b)
      [] e.t = "joy" /\ ~setup.controller -> MapJoy(e.b)
      [] e.t = "quit" -> "B"
      [] e.t = "trigger" -> "L2"
      [] OTHER -> "none"
KeyedAfter(e) ==
    IF KeyOf(e) = "none" THEN keyed
    ELSE IF e.t = "quit" \/ e.down THEN keyed \cup {KeyOf(e)} ELSE keyed \ {KeyOf(e)}

-----------------------------------------------------------------------------
NoFooter == [enabled |-> TRUE, a |-> "none", b |-> "none", swallow |-> {}, chord |-> FALSE,
             open |-> FALSE, overlay |-> FALSE, hidden |-> 0, running |-> FALSE,
             items |-> << >>, lay |-> FooterLayout(<< >>, TRUE)]

Fresh == [held |-> [b \in Buttons |-> FALSE], due |-> [b \in Dirs |-> Off],
          hat |-> {}, hatDue |-> Off, axis |-> [ax \in {"x", "y"} |-> 0],
          axisDue |-> [ax \in {"x", "y"} |-> Off], ring |-> << >>, needsFrame |-> TRUE,
          redraw |-> Off, last |-> Debounce, wake |-> << >>, c |-> NoCombos,
          foot |-> NoFooter, ev |-> FALSE]
NothingPressed ==
    [keys |-> {}, hat |-> {}, axis |-> [ax \in {"x", "y"} |-> 0], trigger |-> FALSE]
InInit ==
    /\ setup \in Setups
    /\ phys = NothingPressed
    /\ sdl = << >>
    /\ g = Fresh
    /\ at = "poll"
    /\ rest = 0
    /\ keyed = {}

\* A device reports a change.  A pad that SDL knows as a controller reports
\* its buttons twice.  What is reported while the thread is elsewhere is read
\* in the next pass over the queue, so only these two places are told apart.
Report(es) ==
    /\ at \in {"poll", "sleep"}
    /\ Len(sdl) + Len(es) <= setup.burst
    /\ sdl' = sdl \o es
DeviceOnly == UNCHANGED <<setup, g, at, rest, keyed>>

PadButton ==
    \E b \in setup.buttons :
       LET down == b \notin phys.keys
           e(t) == [t |-> t, b |-> b, down |-> down]
       IN  /\ Report(IF setup.controller THEN <<e("joy"), e("ctrl")>> ELSE <<e("joy")>>)
           /\ phys' = [phys EXCEPT !.keys = IF down THEN @ \cup {b} ELSE @ \ {b}]
           /\ DeviceOnly

PadHat ==
    \E hat \in setup.hats \ {phys.hat} :
       /\ Report(<<[t |-> "hat", hat |-> hat]>>)
       /\ phys' = [phys EXCEPT !.hat = hat]
       /\ DeviceOnly

PadStick ==
    \E ax \in setup.sticks : \E dir \in -1..1 \ {phys.axis[ax]} :
       /\ Report(<<[t |-> "axis", ax |-> ax, dir |-> dir]>>)
       /\ phys' = [phys EXCEPT !.axis[ax] = dir]
       /\ DeviceOnly

PadTrigger ==
    /\ setup.trigger
    /\ Report(<<[t |-> "trigger", down |-> ~phys.trigger]>>)
    /\ phys' = [phys EXCEPT !.trigger = ~@]
    /\ DeviceOnly

System ==
    /\ \E t \in setup.system : Report(<<[t |-> t]>>)
    /\ UNCHANGED phys
    /\ DeviceOnly

-----------------------------------------------------------------------------
(* ap_poll_input: every turn of its loop first reads all events, the one    *)
(* that ended the sleep first, and adds the repeats (ap__process_sdl_events, *)
(* which reads the clock once), then looks at the request and the ring.  In *)
(* the overlay of hidden actions it is called from within itself.           *)

HandleWake ==
    /\ at = "poll"
    /\ g.wake # << >>
    /\ g' = Handle([g EXCEPT !.wake = << >>], Head(g.wake))
    /\ keyed' = KeyedAfter(Head(g.wake))
    /\ UNCHANGED <<setup, phys, sdl, at, rest>>

HandleEvent ==
    /\ at = "poll"
    /\ g.wake = << >>
    /\ sdl # << >>
    /\ g' = Handle(g, Head(sdl))
    /\ keyed' = KeyedAfter(Head(sdl))
    /\ sdl' = Tail(sdl)
    /\ UNCHANGED <<setup, phys, at, rest>>

HandleRepeats ==
    /\ at = "poll"
    /\ g.wake = << >>
    /\ sdl = << >>
    /\ g' = Repeats(g)
    /\ at' = "pop"
    /\ UNCHANGED <<setup, phys, sdl, rest, keyed>>

OpenRequest ==
    /\ at = "pop"
    /\ g.foot.open
    /\ g' = [g EXCEPT !.foot.open = FALSE, !.foot.overlay = FooterEnabled(g),
                      !.foot.running = FooterEnabled(g)]
    /\ at' = "poll"
    /\ UNCHANGED <<setup, phys, sdl, rest, keyed>>

PollEmpty ==
    /\ at = "pop"
    /\ ~g.foot.open
    /\ g.ring = << >>
    /\ at' = "draw"
    /\ UNCHANGED <<setup, phys, sdl, g, rest, keyed>>

(* An event too soon after the last delivered one is dropped.  A delivered  *)
(* press other than up and down closes the overlay.                         *)
PollEvent ==
    LET e == Head(g.ring)
        fresh == Debounce = 0 \/ g.last >= Debounce
        closes == g.foot.overlay /\ e.down /\ e.b \notin {"up", "down"}
    IN  /\ at = "pop"
        /\ ~g.foot.open
        /\ g.ring # << >>
        /\ g' = IF fresh
                THEN [g EXCEPT !.ring = Tail(@), !.last = 0, !.ev = e.repeated,
                               !.foot.running = @ /\ ~closes]
                ELSE [g EXCEPT !.ring = Tail(@)]
        /\ at' = "poll"
        /\ UNCHANGED <<setup, phys, sdl, rest, keyed>>

(* A frame of the application: ap_clear_screen, ap_draw_footer, and what it  *)
(* asks of the loop.                                                         *)
DrawFrame ==
    /\ at = "draw"
    /\ ~g.foot.overlay
    /\ \E items \in setup.footers : \E ms \in setup.frames :
          \E lay \in {FooterLayout(items, g.foot.enabled)} :
              g' = [g EXCEPT !.foot.items = items, !.foot.lay = lay,
                             !.foot.hidden = Len(lay.hidden), !.ev = FALSE,
                             !.needsFrame = @ \/ ms = 0,
                             !.redraw = IF ms > 0 /\ (@ = Off \/ ms < @) THEN ms ELSE @]
    /\ at' = "present"
    /\ UNCHANGED <<setup, phys, sdl, rest, keyed>>

DrawOverlay ==
    /\ at = "draw"
    /\ g.foot.overlay
    /\ g' = [g EXCEPT !.ev = FALSE]
    /\ at' = "present"
    /\ UNCHANGED <<setup, phys, sdl, rest, keyed>>

(* ap_set_footer_overflow_opts *)
SetOverflowOpts ==
    /\ at = "draw"
    /\ \E o \in setup.opts \ {[enabled |-> g.foot.enabled, a |-> g.foot.a, b |-> g.foot.b]} :
          LET usable == o.enabled /\ o.a # "none" /\ o.b # "none" /\ o.a # o.b
          IN  g' = [g EXCEPT !.foot.enabled = o.enabled, !.foot.a = o.a, !.foot.b = o.b,
                             !.foot.swallow = {}, !.foot.chord = FALSE, !.foot.open = FALSE,
                             !.foot.hidden = IF usable THEN @ ELSE 0]
    /\ ~g.foot.overlay
    /\ UNCHANGED <<setup, phys, sdl, at, rest, keyed>>

(* ap_register_chord, ap_unregister_combo, ap_clear_combos, ap_poll_combo *)
Combos ==
    /\ at = "draw"
    /\ ~g.foot.overlay
    /\ \/ \E m \in setup.combos : g' = [g EXCEPT !.c = Register(@, m)]
       \/ \E m \in setup.combos : g' = [g EXCEPT !.c = Unregister(@, m.id)]
       \/ setup.combos # {} /\ g' = [g EXCEPT !.c = ClearCombos(@)]
       \/ g.c.q # << >> /\ g' = [g EXCEPT !.c = PollCombo(@)]
    /\ g' # g
    /\ UNCHANGED <<setup, phys, sdl, at, rest, keyed>>

\* Mutant: the stick's deadlines are forgotten.
NextWake_nostick ==
    LET all == {IdleMax, g.redraw} \cup {g.due[b] : b \in {d \in Dirs : g.held[d]}}
                  \cup (IF g.hat = {} THEN {} ELSE {g.hatDue})
    IN  CHOOSE d \in all : \A o \in all : d <= o

(* ap__next_wake_time *)
NextWake ==
    LET buttons == {g.due[b] : b \in {d \in Dirs : g.held[d]}}
        hat == IF g.hat = {} THEN {} ELSE {g.hatDue}
        axes == {g.axisDue[ax] : ax \in {x \in {"x", "y"} : g.axis[x] # 0}}
        all == {IdleMax, g.redraw} \cup buttons \cup hat \cup axes
    IN  CHOOSE d \in all : \A o \in all : d <= o

\* After ap_present the overlay ends if it was told to.
AfterPresent(s) ==
    IF s.foot.overlay /\ ~s.foot.running THEN [s EXCEPT !.foot.overlay = FALSE, !.last = 0]
    ELSE s

Present ==
    /\ at = "present"
    /\ IF g.needsFrame
       THEN g' = AfterPresent([g EXCEPT !.needsFrame = FALSE]) /\ at' = "poll" /\ rest' = 0
       ELSE IF NextWake > 0 THEN g' = g /\ at' = "sleep" /\ rest' = NextWake
       ELSE /\ g' = AfterPresent([g EXCEPT !.redraw = IF Due(@) THEN Off ELSE @])
            /\ at' = "poll" /\ rest' = 0
    /\ UNCHANGED <<setup, phys, sdl, keyed>>

Woken(s) ==
    /\ g' = AfterPresent([s EXCEPT !.redraw = IF Due(@) THEN Off ELSE @])
    /\ at' = "poll"
    /\ rest' = 0
    /\ UNCHANGED <<setup, phys, keyed>>

WakeByEvent ==
    at = "sleep" /\ sdl # << >> /\ sdl' = Tail(sdl) /\ Woken([g EXCEPT !.wake = <<Head(sdl)>>])
WakeByTime == at = "sleep" /\ rest = 0 /\ Woken(g) /\ UNCHANGED sdl

(* The clock.  Time passes while a frame is drawn, before ap_present, and   *)
(* in the sleep, which ends when its time is up.                            *)
Timers(s) == {s.due[b] : b \in Dirs} \cup {s.hatDue, s.redraw}
                \cup {s.axisDue[ax] : ax \in {"x", "y"}}
Tick ==
    /\ at \in {"present", "sleep"}
    /\ at = "sleep" => rest > 0
    /\ \A d \in Timers(g) : d # Off => d > -MaxLag
    /\ g' = [g EXCEPT !.due = [b \in Dirs |-> Left(@[b])], !.hatDue = Left(@),
                      !.axisDue = [ax \in {"x", "y"} |-> Left(@[ax])], !.redraw = Left(@),
                      !.last = IF @ < Debounce THEN @ + 1 ELSE @, 
                      !.c = IF setup.combos = {} THEN @ ELSE ComboTick(@)]
    /\ rest' = IF at = "sleep" THEN rest - 1 ELSE rest
    /\ UNCHANGED <<setup, phys, sdl, at, keyed>>

Poll == HandleWake \/ HandleEvent \/ HandleRepeats \/ OpenRequest \/ PollEmpty \/ PollEvent
Loop == Poll \/ DrawFrame \/ DrawOverlay \/ Present \/ WakeByEvent \/ WakeByTime
InNext == \/ PadButton \/ PadHat \/ PadStick \/ PadTrigger \/ System
          \/ Loop \/ SetOverflowOpts \/ Combos \/ Tick

(* The thread goes on from place to place, which in the end it does when no *)
(* more events come; the clock keeps going.                                 *)
Places == {"poll", "pop", "draw", "present", "sleep"}
InFairness == WF_at(at \in Places /\ at' \in Places \ {at}) /\ WF_inVars(Tick)
InSpec == InInit /\ [][InNext]_inVars /\ InFairness

-----------------------------------------------------------------------------
(* A button counts as held only while some source that was heard last       *)
(* asserts it: no direction is left repeating when everything is let go,    *)
(* whatever buttons, hat and stick were used together (ap__input_push,      *)
(* ap__set_hat_state, ap__set_axis_direction_y).                            *)
HeldHasSource ==
    \A b \in Sources : g.held[b] =>
       \/ b \in keyed
       \/ b \in g.hat
       \/ \E ax \in {"x", "y"} : g.axis[ax] # 0 /\ Toward(ax, g.axis[ax]) = b

(* The footer's chord leaves nothing behind: a swallowed release belongs to *)
(* a button that is down, and the chord is over when both buttons are up    *)
(* (ap__footer_overflow_note_button).                                       *)
ChordClean ==
    /\ \A b \in g.foot.swallow : g.held[b]
    /\ g.foot.chord => g.held[g.foot.a] \/ g.held[g.foot.b]
(* The idle sleep of ap_present never outlasts a repeat or a redraw that is *)
(* due, and nothing that was read is left waiting (ap__next_wake_time).     *)
WakesInTime ==
    at = "sleep" =>
       /\ g.ring = << >>
       /\ ~Due(g.redraw) \/ rest = 0
       /\ \A b \in Dirs : g.held[b] => g.due[b] >= 0
       /\ g.hat # {} => g.hatDue >= 0
       /\ \A ax \in {"x", "y"} : g.axis[ax] # 0 => g.axisDue[ax] >= 0

(* Every hint of the footer is drawn or listed among the hidden actions,    *)
(* and the two groups do not overlap when they can be kept apart            *)
(* (ap_draw_footer).                                                        *)
FooterHonest == LayoutHonest(g.foot.items, g.foot.lay)

(* A combo that is on has its buttons down, in whatever order they and the  *)
(* combos themselves come and go (ap__combo_check_chord_releases).          *)
CombosHeld == ChordsHeld(g.c)

(* Nothing is held that no source asserts, and no chord and no combo        *)
(* outlives its buttons.                                                    *)
NothingLeftHeld == HeldHasSource /\ ChordClean /\ CombosHeld

(* Once the pad is left alone with a direction down, the screen keeps       *)
(* receiving repeats of a held direction (ap__process_sdl_events and the    *)
(* sleep of ap_present).                                                    *)
KeepsRepeating ==
    <>[](sdl = << >>) => []<>((\A b \in Dirs : ~g.held[b]) \/ g.ev)
=============================================================================
