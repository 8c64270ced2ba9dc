------------------------------- MODULE ApList -------------------------------
(***************************************************************************)
(* ap_list of the Apostrophe widgets: a list with paging, jumps by first   *)
(* letter, marks and a mode in which the rows are reordered.  A frame      *)
(* handles every event of the input ring, also those behind the one that   *)
(* ended the list, and then scrolls and draws.                             *)
(***************************************************************************)
EXTENDS Integers, Sequences, FiniteSets

CONSTANTS
  ListOpts,    \* the option records the list may be opened with
  ListRows,    \* max_visible, at least 1
  AlphaGroups  \* size of alpha_starts

VARIABLE w     \* the stack frame of the widget that runs

Item(s, k) == s.items[k + 1]
N(s) == Len(s.items)

-----------------------------------------------------------------------------
(* Opening.                                                                *)

Clamp(k, lo, hi) == IF k < lo THEN lo ELSE IF k > hi THEN hi ELSE k

Ordered(S) == [k \in 1 .. Cardinality(S) |->
                 CHOOSE x \in S : Cardinality({y \in S : y < x}) = k - 1]

\* The jump index.  A new entry at every change of first letter, as long as
\* there is room; "of" is the entry of every item.
BuildAlpha(items) ==
  LET heads == {k \in DOMAIN items : k = 1 \/ items[k].group # items[k - 1].group}
      kept == Ordered({k - 1 : k \in {h \in heads : Cardinality({g \in heads : g <= h}) <= AlphaGroups}})
  IN  [starts |-> kept,
       of |-> [k \in DOMAIN items |->
                 Cardinality({j \in DOMAIN kept : kept[j] <= k - 1}) - 1]]

\* Options a caller leaves alone: no button has a meaning, no mark, no help.
DefaultOpts(items) ==
  [items |-> items, initial |-> 0, top |-> 0, multi |-> FALSE, help |-> FALSE,
   btn |-> [b \in {} |-> ""]]

OpenList(o) ==
  [kind |-> "list", opts |-> o, items |-> o.items,
   cursor |-> Clamp(o.initial, 0, Len(o.items) - 1),
   top |-> Clamp(o.top, 0, IF Len(o.items) > ListRows THEN Len(o.items) - ListRows ELSE 0),
   reorder |-> FALSE, alpha |-> BuildAlpha(o.items), help |-> FALSE,
   running |-> TRUE, action |-> "none", selected |-> -1, drawn |-> <<>>]

ListInit == w \in {OpenList(o) : o \in ListOpts}

-----------------------------------------------------------------------------
(* One event.  Every press leaves the screen behind, until the frame ends. *)

Polling == w.kind = "list" /\ ~w.help
Then(s) == w' = [s EXCEPT !.drawn = <<>>]

Swap(items, i, j) == [items EXCEPT ![i + 1] = items[j + 1], ![j + 1] = items[i + 1]]

Up(rep) ==
  /\ Polling
  /\ Then(IF w.cursor = 0
          THEN IF rep \/ w.reorder THEN w ELSE [w EXCEPT !.cursor = N(w) - 1]
          ELSE [w EXCEPT !.cursor = @ - 1,
                         !.items = IF w.reorder THEN Swap(@, w.cursor, w.cursor - 1) ELSE @])

Down(rep) ==
  /\ Polling
  /\ Then(IF w.cursor >= N(w) - 1
          THEN IF rep \/ w.reorder THEN w ELSE [w EXCEPT !.cursor = 0]
          ELSE [w EXCEPT !.cursor = @ + 1,
                         !.items = IF w.reorder THEN Swap(@, w.cursor, w.cursor + 1) ELSE @])

Answer(s, what) == [s EXCEPT !.selected = s.cursor, !.action = what, !.running = FALSE]

PressA ==
  /\ Polling
  /\ Then(IF w.opts.multi THEN [w EXCEPT !.items[w.cursor + 1].marked = ~@]
          ELSE Answer(w, "selected"))

\* Leaving the reorder mode rebuilds the jump index from the new order.
EndReorder(s) == [s EXCEPT !.reorder = FALSE, !.alpha = BuildAlpha(s.items)]

PressB ==
  /\ Polling
  /\ Then(IF w.reorder THEN EndReorder(w) ELSE [w EXCEPT !.action = "back", !.running = FALSE])

Page(d) ==
  /\ Polling
  /\ Then(IF w.reorder THEN w ELSE [w EXCEPT !.cursor = Clamp(@ + d * ListRows, 0, N(w) - 1)])

\* L1 and R1 go to the start of the neighbouring group.
JumpAlpha(d) ==
  /\ Polling
  /\ LET g == w.alpha.of[w.cursor + 1] + d
     IN  Then(IF ~w.reorder /\ g >= 0 /\ g < Len(w.alpha.starts)
              THEN [w EXCEPT !.cursor = w.alpha.starts[g + 1]] ELSE w)

\* MENU shows the help in this frame, and stops reading events; without help
\* it only opens the hidden part of the footer.
Menu == Polling /\ Then([w EXCEPT !.help = w.opts.help])

\* The buttons the caller gave a meaning, first match wins.
OptionButton(b) ==
  /\ Polling /\ b \in DOMAIN w.opts.btn
  /\ Then(IF w.opts.btn[b] # "reorder" THEN Answer(w, w.opts.btn[b])
          ELSE IF w.reorder THEN EndReorder(w) ELSE [w EXCEPT !.reorder = TRUE])

-----------------------------------------------------------------------------
(* The end of a frame.                                                     *)

\* The least scrolling that brings the cursor into the window.
Scrolled(cursor, top, n) ==
  LET t == IF cursor < top THEN cursor ELSE top
  IN  IF cursor >= t + ListRows THEN cursor - ListRows + 1 ELSE t

\* The rows on the screen: the item, its mark, and which one is the cursor's.
Drawn(s) ==
  [k \in 1 .. (IF N(s) - s.top < ListRows THEN N(s) - s.top ELSE ListRows) |->
     [item |-> Item(s, s.top + k - 1), here |-> s.top + k - 1 = s.cursor]]

\* The help overlay is closed again before the frame is over.
Frame ==
  /\ w.kind = "list"
  /\ LET s == [w EXCEPT !.top = Scrolled(w.cursor, w.top, N(w)), !.help = FALSE]
     IN  w' = [s EXCEPT !.drawn = Drawn(s),
                        !.kind = IF w.running THEN "list" ELSE "done"]

ListNext ==
  \/ \E rep \in BOOLEAN : Up(rep) \/ Down(rep)
  \/ PressA \/ PressB
  \/ \E d \in {-1, 1} : Page(d) \/ JumpAlpha(d)
  \/ Menu
  \/ \E b \in {"X", "Y", "START", "SELECT"} : OptionButton(b)
  \/ Frame

-----------------------------------------------------------------------------
IsList == w.kind \in {"list", "done"} /\ "reorder" \in DOMAIN w

\* Every frame shows the row of the cursor, whatever moved it: paging, a jump
\* by letter, a wrap, a reordered row or the position the caller asked for.
CursorShown ==
  IsList /\ w.drawn # <<>> => \E k \in DOMAIN w.drawn : w.drawn[k].here

\* Outside the reorder mode the jump index is the one of the order that is
\* shown: every start is the first row of its letter.
AlphaFresh == IsList /\ ~w.reorder => w.alpha = BuildAlpha(w.items)

\* Reordering loses and duplicates no row.
Ids(items) == {items[k].id : k \in DOMAIN items}
SameRows == IsList => Len(w.items) = Len(w.opts.items) /\ Ids(w.items) = Ids(w.opts.items)
=============================================================================
