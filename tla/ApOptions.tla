------------------------------ MODULE ApOptions ------------------------------
(***************************************************************************)
(* ap_options_list of the Apostrophe widgets: a list of settings, each with *)
(* a value that is cycled through, typed with the keyboard or picked as a   *)
(* colour.  The keyboard and the colour picker run nested, to their end,    *)
(* inside the handling of the event that opened them.                       *)
(***************************************************************************)
EXTENDS Integers, Sequences

CONSTANTS
  OptOpts,    \* the option records the widget may be opened with
  OptRows     \* max_visible, at least 1

VARIABLE w    \* the stack frame of the widget that runs

N(s) == Len(s.items)
Clamp(k, lo, hi) == IF k < lo THEN lo ELSE IF k > hi THEN hi ELSE k

\* The option an item stands on, pulled into its range; -1 without options.
ValidIndex(item) ==
  IF item.count <= 0 THEN -1 ELSE Clamp(item.sel, 0, item.count - 1)

\* Every look at the option of an item also stores the index it pulled in.
Pulled(item) == IF item.count <= 0 THEN item ELSE [item EXCEPT !.sel = ValidIndex(item)]

OpenOptions(o) ==
  [kind |-> "options", opts |-> o, items |-> o.items,
   cursor |-> Clamp(o.initial, 0, Len(o.items) - 1),
   top |-> Clamp(o.top, 0, IF Len(o.items) > OptRows THEN Len(o.items) - OptRows ELSE 0),
   running |-> TRUE, action |-> "none", focused |-> 0, drawn |-> <<>>]

OptInit == w \in {OpenOptions(o) : o \in OptOpts}

-----------------------------------------------------------------------------
Polling == w.kind = "options"
Here == w.items[w.cursor + 1]
Then(s) == w' = [s EXCEPT !.drawn = <<>>]

Up(rep) ==
  Polling /\ Then([w EXCEPT !.cursor = IF @ > 0 THEN @ - 1 ELSE IF rep THEN @ ELSE N(w) - 1])

Down(rep) ==
  Polling /\ Then([w EXCEPT !.cursor = IF @ < N(w) - 1 THEN @ + 1 ELSE IF rep THEN @ ELSE 0])

Answer(s, what) == [s EXCEPT !.focused = s.cursor, !.action = what, !.running = FALSE]

\* A caller that wants to know is told of the change, by row.
FinishChanged(s) == IF w.opts.onChange THEN Answer(s, "changed") ELSE s

\* The next or the previous option of the row, round the ends.
Cycle(d) ==
  LET k == ValidIndex(Here)
      next == IF k + d < 0 THEN Here.count - 1 ELSE IF k + d >= Here.count THEN 0 ELSE k + d
  IN  FinishChanged([w EXCEPT !.items[w.cursor + 1].sel = next])

\* LEFT and RIGHT.
Step(d) ==
  /\ Polling
  /\ Then(IF Here.type = "standard" /\ ValidIndex(Here) >= 0 THEN Cycle(d)
          ELSE [w EXCEPT !.items[w.cursor + 1] = Pulled(@)])

\* A value typed or picked in a nested widget; v is its answer, "" if it was
\* cancelled.
Nested(v) ==
  LET row == Pulled(Here)
      new == IF v = "" \/ row.count <= 0 THEN row ELSE [row EXCEPT !.value = v]
      s == [w EXCEPT !.items[w.cursor + 1] = new]
  IN  IF v # "" /\ w.opts.confirmA THEN Answer(s, "confirmed") ELSE s

PressA(v) ==
  /\ Polling
  /\ v # "" => Here.type \in {"keyboard", "color"}
  /\ Then(CASE Here.type = "standard" /\ w.opts.confirmA -> Answer(w, "confirmed")
            [] Here.type = "standard" /\ ~w.opts.confirmA ->
                 IF ValidIndex(Here) >= 0 THEN Cycle(1) ELSE w
            [] Here.type = "clickable" -> Answer(w, "selected")
            [] Here.type \in {"keyboard", "color"} -> Nested(v))

PressB == Polling /\ Then(Answer(w, "back"))

\* MENU opens the hidden part of the footer.
Menu == Polling /\ Then(w)

\* The buttons the caller gave a meaning: confirm, action, secondary action.
OptionButton(b) ==
  /\ Polling /\ b \in DOMAIN w.opts.btn
  /\ Then(Answer(w, w.opts.btn[b]))

-----------------------------------------------------------------------------
Scrolled(cursor, top) ==
  LET t == IF cursor < top THEN cursor ELSE top
  IN  IF cursor >= t + OptRows THEN cursor - OptRows + 1 ELSE t

\* What a row shows of its value: the label of its option, or what was typed.
Shown(item) == IF item.count <= 0 THEN <<"", 0>>
               ELSE IF item.type = "standard" THEN <<"", ValidIndex(item)>> ELSE <<item.value, 0>>

Drawn(s) ==
  [k \in 1 .. (IF N(s) - s.top < OptRows THEN N(s) - s.top ELSE OptRows) |->
     [row |-> s.top + k - 1, value |-> Shown(s.items[s.top + k])]]

\* Drawing a row pulls its option into range too.
Frame ==
  /\ Polling
  /\ LET t == Scrolled(w.cursor, w.top)
         s == [w EXCEPT !.top = t,
                        !.items = [k \in DOMAIN @ |-> IF k - 1 \in t .. t + OptRows - 1
                                                      THEN Pulled(@[k]) ELSE @[k]]]
     IN  w' = [s EXCEPT !.drawn = Drawn(s),
                        !.kind = IF w.running THEN "options" ELSE "done"]

OptNext ==
  \/ \E rep \in BOOLEAN : Up(rep) \/ Down(rep)
  \/ \E d \in {-1, 1} : Step(d)
  \/ \E v \in {"", "new"} : PressA(v)
  \/ PressB \/ Menu
  \/ \E b \in {"X", "START"} : OptionButton(b)
  \/ Frame

-----------------------------------------------------------------------------
IsOptions == w.kind \in {"options", "done"} /\ "focused" \in DOMAIN w

\* Every frame shows the row of the cursor.
CursorShown ==
  IsOptions /\ w.drawn # <<>> => \E k \in DOMAIN w.drawn : w.drawn[k].row = w.cursor
=============================================================================
