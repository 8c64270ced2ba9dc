----------------------------- MODULE MinuiList -----------------------------
(***************************************************************************)
(* minui-list: the full-screen list every pak uses to ask the user for a   *)
(* choice.  The list is read from a text or JSON file, may be narrowed by  *)
(* an inline filter keyboard, and is walked with the d-pad through a       *)
(* window of rows.  One step of the module is one iteration of the frame   *)
(* loop of main: poll, handle the press, draw.  Display positions count    *)
(* from 0 as in the C code; vis maps them to positions of items.           *)
(***************************************************************************)
EXTENDS Integers, Sequences, FiniteSets, FiniteSetsExt, SequencesExt, ListKeyboard

CONSTANTS
  Inputs,     \* the command lines and files the tool may be started with
  Letters,    \* characters of names and of the filter
  MaxText,    \* bound: characters the filter buffer holds
  Rows,       \* rows of the list without the keyboard (max_row_count)
  KbRows      \* rows that fit above the filter keyboard

\* The screen has room for a row, with the keyboard too.
ASSUME RowsAssumption == Rows \in Nat \ {0} /\ KbRows \in Nat \ {0}

\* What the command line and the reader of the file leave.
ASSUME InputsAssumption ==
  \A i \in Inputs : /\ i.form \in {"text", "strings", "objects"}
                    /\ Len(i.raw) \in Nat /\ DOMAIN i.raw = 1 .. Len(i.raw)
                    /\ i.selected \in Int

VARIABLES
  in,         \* the input this run of the tool was started with
  items,      \* state->items: name, features, options and current option
  hasOpts,    \* state->has_options
  vis,        \* state->visible: display position -> item
  sel,        \* state->selected, a display position, -1 when nothing is
  first, last,\* the window [first_visible, last_visible)
  rows, saved,\* max_row_count and saved_max_row_count
  kb, text,   \* filter_keyboard_active, filter_text
  cur,        \* filter_cursor
  code,       \* "start", "run", or the exit code
  files,      \* the image files that exist
  active,     \* image_active_path of every item ("" for none)
  loaded,     \* the items with an image_surface
  backSeen,   \* the items with background_image_exists
  shown,      \* what the last GFX_flip put on the screen
  backLost    \* history: the background changed and was not drawn since

view == <<vis, sel, first, last, rows, saved, kb, text, cur>>
cache == <<active, loaded>>
painted == <<cache, backSeen, shown, backLost>>
vars == <<in, items, hasOpts, vis, sel, first, last, rows, saved, kb, text, cur,
          code, files, painted>>

-----------------------------------------------------------------------------
(* Reading the input (ListState_New).                                      *)

Flags == {"can_disable", "disabled", "hide_action", "hide_cancel",
          "hide_confirm", "show_confirm"}

\* The positions up to n that are in K, appended one by one.
KeptUpTo(K, n) ==
  LET kept[k \in 0 .. n] ==
        IF k = 0 THEN <<>> ELSE IF k \in K THEN Append(kept[k - 1], k) ELSE kept[k - 1]
  IN  kept

Kept(K, n) == KeptUpTo(K, n)[n]

\* The background the file names for a row, else the one of the command line.
BackOf(i, r) == IF r.back = "default" THEN i.back ELSE r.back

\* One line of the text format; blank lines (empty names) are skipped.
ReadText(i) ==
  LET lines == Kept({k \in DOMAIN i.raw : i.raw[k].name # <<>>}, Len(i.raw))
  IN  [k \in DOMAIN lines |->
         [name |-> i.raw[lines[k]].name, feats |-> {}, opts |-> 0, opt |-> 0,
          initial |-> 0, path |-> "", back |-> i.back]]

\* An element of the wrong JSON type, without a name, or whose images are no
\* map of strings makes the whole input invalid.
ValidElement(r) == r.shape = "ok" /\ r.name # <<>>

\* The array form: names only.
ReadStrings(i) ==
  [k \in DOMAIN i.raw |-> [name |-> i.raw[k].name, feats |-> {}, opts |-> 0,
                           opt |-> 0, initial |-> 0, path |-> "", back |-> i.back]]

\* The current option of an item is clamped into its options.
ReadOption(r) ==
  IF r.cur < 0 THEN 0
  ELSE IF r.cur >= r.opts THEN Max({r.opts - 1, 0}) ELSE r.cur

\* Every flag is on only when the feature is the JSON value true.
ReadFlags(r) == r.feats \cap Flags

\* A header is unselectable whatever the file says of it.
ReadHeader(r) ==
  (r.feats \cap {"is_header", "unselectable", "display_on_filter"})
    \cup (IF "is_header" \in r.feats THEN {"unselectable"} ELSE {})

\* The image of the resolution in use, else the default one.
ResolvedPath(r) ==
  IF "exact" \in DOMAIN r.images THEN r.images["exact"]
  ELSE IF "default" \in DOMAIN r.images THEN r.images["default"] ELSE ""

ReadObjects(i) ==
  [k \in DOMAIN i.raw |->
     LET r == i.raw[k]
     IN  [name |-> r.name, feats |-> ReadFlags(r) \cup ReadHeader(r),
          opts |-> r.opts, opt |-> ReadOption(r), initial |-> ReadOption(r),
          path |-> ResolvedPath(r), back |-> BackOf(i, r)]]

ReadItems(i) == CASE i.form = "text"    -> ReadText(i)
                  [] i.form = "strings" -> ReadStrings(i)
                  [] i.form = "objects" -> ReadObjects(i)

-----------------------------------------------------------------------------
(* The view: which items are visible, and which of them are in the window. *)

Selectable(it) == {"is_header", "unselectable"} \cap it.feats = {}

\* Positions of a visible sequence v that may be selected.
ValidIn(its, v) == {k \in 0 .. Len(v) - 1 : Selectable(its[v[k + 1]])}

\* ListState_InitView: keep the selection if it is valid, else take the first
\* valid one, and centre the window on it.
ViewSel(its, v, s) ==
  LET S == ValidIn(its, v)
  IN  IF s \in S THEN s ELSE IF S = {} THEN -1 ELSE Min(S)

ViewFirst(n, s, r) ==
  IF n <= r THEN 0
  ELSE Min({Max({Max({s, 0}) - r \div 2, 0}), n - r})

ViewLast(n, s, r) == IF n <= r THEN n ELSE ViewFirst(n, s, r) + r

InitView(its, v, s, r) ==
  LET s1 == ViewSel(its, v, s)
  IN  /\ sel' = s1
      /\ first' = ViewFirst(Len(v), s1, r)
      /\ last' = ViewLast(Len(v), s1, r)

\* ListFilter_Match: the filter occurs in the name at some offset.
Match(name, f) ==
  \/ f = <<>>
  \/ \E i \in 0 .. Len(name) - Len(f) :
       \A j \in DOMAIN f : name[i + j] = f[j]

\* ListFilter_ItemVisible: pinned rows stay, headers go.
ItemVisible(it, f) ==
  \/ f = <<>>
  \/ "display_on_filter" \in it.feats
  \/ "is_header" \notin it.feats /\ Match(it.name, f)

FilteredView(its, f) == Kept({i \in DOMAIN its : ItemVisible(its[i], f)}, Len(its))

\* Where the item selected before is in the new view, -1 if it is not there.
KeptSel(v, s, w) ==
  LET at == {k \in 0 .. Len(w) - 1 : s \in 0 .. Len(v) - 1 /\ w[k + 1] = v[s + 1]}
  IN  IF at = {} THEN -1 ELSE Min(at)

\* ListState_ApplyFilter.
ApplyFilter(f, r) ==
  LET w == FilteredView(items, f)
  IN  vis' = w /\ InitView(items, w, KeptSel(vis, sel, w), r)

-----------------------------------------------------------------------------
(* Drawing.                                                                *)

At(k) == items[vis[k + 1]]
Window(v, f, l) == {v[k + 1] : k \in f .. l - 1}

\* image_effective_path: the item's own image, else the fallback, else none.
EffectivePath(it) ==
  IF it.path = "" THEN ""
  ELSE IF it.path \in files THEN it.path
  ELSE IF "fallback" \in files THEN "fallback" ELSE ""

\* The hints draw_screen puts on the right: what A and B would do here.
RightHints ==
  IF kb THEN {"type", "clear"}
  ELSE IF sel < 0 THEN {}
  ELSE LET it == At(sel)
           hide == /\ ~in.always
                   /\ \/ /\ "show_confirm" \notin it.feats
                         /\ it.opts > 0 /\ it.initial = it.opt
                      \/ "hide_confirm" \in it.feats
       IN  (IF hide THEN {} ELSE {"confirm"})
             \cup (IF "hide_cancel" \in it.feats THEN {} ELSE {"cancel"})

\* The hints on the left, only for a selected row that was drawn.
LeftHints ==
  IF kb THEN {"delete", "done"}
  ELSE IF sel < 0 THEN {}
  ELSE (IF sel \in first .. last - 1 /\ "can_disable" \in At(sel).feats
        THEN {"enable"} ELSE {})
         \cup (IF in.btn.action # "" /\ "hide_action" \notin At(sel).feats
               THEN {"action"} ELSE {})

\* A row: the item, its option, whether it is greyed out, and its image.
RowShown(k) == <<vis[k + 1], At(k).opt, "disabled" \in At(k).feats,
                 IF vis[k + 1] \in loaded THEN active[vis[k + 1]] ELSE "">>

\* The row that carries the pill, counted from the top of the window.
HighlightedRow == sel - first

\* The input field and the focused key of draw_filter_keyboard.
KeyboardShown == IF kb THEN <<text, cur>> ELSE <<>>

\* The background is the one of the selected item, with its picture if that was
\* found and is still there, else the theme's.
Background ==
  IF sel < 0 THEN <<0, FALSE>>
  ELSE <<vis[sel + 1], vis[sel + 1] \in backSeen /\ At(sel).back \in files>>

Screen ==
  [rows |-> [k \in first .. last - 1 |-> RowShown(k)], row |-> HighlightedRow,
   right |-> RightHints, left |-> LeftHints, keyboard |-> KeyboardShown,
   filter |-> IF in.filter THEN text ELSE <<>>, back |-> Background]

\* ensure_item_image: which of the rows whose path is tried get an image; any load
\* may fail, and the path stays where it is.
LoadImages(tried) == SUBSET {i \in tried : EffectivePath(items'[i]) # ""}

\* draw_screen and the caches, old being the paths tried before: each row of the
\* window whose path changed is tried once, and then the loaded images of the
\* other rows are released, with their paths.
DrawImages(old) ==
  LET win == Window(vis', first', last')
      tried == {i \in win : EffectivePath(items'[i]) # old[i]}
  IN  /\ active' = [i \in DOMAIN items' |->
                      IF i \in tried THEN EffectivePath(items'[i])
                      ELSE IF i \in win \/ i \notin loaded THEN old[i] ELSE ""]
      /\ \E good \in LoadImages(tried) :
           loaded' = ((loaded \cap win) \ tried) \cup good

\* The end of an iteration: draw if anything asked for it, else only wait.
Draw(redraw) ==
  IF redraw THEN DrawImages(active) /\ shown' = Screen' /\ backLost' = FALSE
  ELSE UNCHANGED <<shown, cache>> /\ backLost' = (backLost \/ Background' # Background)

\* handle_input's poll: some row of the window should show another image.
ImageStale ==
  \E i \in Window(vis, first, last) :
    items[i].path # "" /\ EffectivePath(items[i]) # active[i]

\* And the background of the selected row may have appeared.
SelectedItem == IF sel < 0 THEN {} ELSE {vis[sel + 1]}
PollBack == backSeen' = backSeen \cup {i \in SelectedItem : items[i].back \in files}

\* One iteration: poll, and draw after what the press has changed.
PollAndDraw(redraw) == PollBack /\ Draw(redraw)

-----------------------------------------------------------------------------
(* main up to the frame loop.                                              *)

\* qsort by name, ties in any order.
SortedOrders(its) ==
  LET Less(a, b) == \E n \in 0 .. Len(b) :
        /\ n <= Len(a) /\ SubSeq(a, 1, n) = SubSeq(b, 1, n)
        /\ n < Len(b) /\ (n < Len(a) => a[n + 1] < b[n + 1])
  IN  {p \in Bijection(DOMAIN its, DOMAIN its) :
         \A j, k \in DOMAIN its :
           j < k => ~Less(its[p[k]].name, its[p[j]].name)}

\* The selection is found again by its name: the first item that has it.
ReselectByName(old, new, s) ==
  IF s \notin 0 .. Len(old) - 1 THEN s
  ELSE Min({k \in 0 .. Len(new) - 1 : new[k + 1].name = old[s + 1].name})

\* open_filter_keyboard shrinks the window.
OpenKeyboard(its, v, s, r) ==
  /\ kb' = TRUE /\ saved' = r /\ rows' = Min({KbRows, r})
  /\ cur' = Rescue(cur)
  /\ InitView(its, v, s, Min({KbRows, r}))

Refuse == code' = "error" /\ UNCHANGED <<in, items, hasOpts, files, painted, view>>

\* parse_arguments: in.badArgs are the options with a value it refuses.
ArgumentsValid == in.badArgs = {}

\* Bad options, invalid input, or nothing to select in it: exit before the
\* first frame.
StartFails ==
  /\ code = "start"
  /\ \/ ~ArgumentsValid
     \/ in.form # "text" /\ \E k \in DOMAIN in.raw : ~ValidElement(in.raw[k])
     \/ ValidIn(ReadItems(in), [k \in DOMAIN ReadItems(in) |-> k]) = {}
  /\ Refuse

\* has_options is never assigned for the text format: any value.
Start ==
  /\ code = "start" /\ ArgumentsValid
  /\ in.form # "text" => \A k \in DOMAIN in.raw : ValidElement(in.raw[k])
  /\ \E its \in IF in.alpha
                THEN {[k \in DOMAIN p |-> ReadItems(in)[p[k]]] :
                        p \in SortedOrders(ReadItems(in))}
                ELSE {ReadItems(in)} :
       LET ident == [k \in DOMAIN its |-> k]
           s == IF in.alpha THEN ReselectByName(ReadItems(in), its, in.selected)
                ELSE in.selected
           s1 == ViewSel(its, ident, s)
           v == IF in.filter THEN FilteredView(its, in.text) ELSE ident
           s2 == IF in.filter /\ in.text # <<>> THEN KeptSel(ident, s1, v) ELSE s1
       IN  /\ s1 >= 0
           /\ items' = its
           /\ hasOpts' \in IF in.form = "text" THEN BOOLEAN
                           ELSE {\E k \in DOMAIN its : its[k].opts > 0}
           /\ vis' = v
           /\ text' = IF in.filter THEN in.text ELSE <<>>
           /\ IF in.filter /\ in.openKb THEN OpenKeyboard(its, v, s2, Rows)
              ELSE /\ kb' = FALSE /\ saved' = 0 /\ rows' = Rows /\ cur' = cur
                   /\ InitView(its, v, s2, Rows)
  /\ code' = "run" /\ backLost' = FALSE
  /\ backSeen' = {i \in DOMAIN items' : items'[i].back \in files}
  /\ UNCHANGED <<in, files>>
  /\ DrawImages([i \in DOMAIN items' |-> ""]) /\ shown' = Screen'

-----------------------------------------------------------------------------
(* One frame without the keyboard.                                         *)

Running == code = "run"
Listing == Running /\ ~kb
Picking == Listing /\ sel >= 0
S == ValidIn(items, vis)
N == Len(vis)

Moved == /\ UNCHANGED <<in, items, hasOpts, vis, rows, saved, kb, text, cur, code, files>>
         /\ PollAndDraw(TRUE)

WindowEnd == first' = Max({N - rows, 0}) /\ last' = N
WindowStart == first' = 0 /\ last' = Min({N, rows})

Up(fresh) ==
  /\ Picking /\ (sel = 0 => fresh)
  /\ LET before == {k \in S : k < sel}
     IN  IF before = {} THEN sel' = Max(S) /\ WindowEnd
         ELSE /\ sel' = Max(before)
              /\ IF Max(before) < first THEN first' = first - 1 /\ last' = last - 1
                 ELSE UNCHANGED <<first, last>>
  /\ Moved

Down(fresh) ==
  /\ Picking /\ (sel = N - 1 => fresh)
  /\ LET after == {k \in S : k > sel}
     IN  IF after = {} THEN sel' = Min(S) /\ WindowStart
         ELSE /\ sel' = Min(after)
              /\ IF Min(after) >= last THEN first' = first + 1 /\ last' = last + 1
                 ELSE UNCHANGED <<first, last>>
  /\ Moved

\* A held d-pad stops at the ends of the list.
Held ==
  /\ Picking /\ sel \in {0, N - 1}
  /\ UNCHANGED <<in, items, hasOpts, view, code, files>>
  /\ PollAndDraw(FALSE)

PageLeft ==
  /\ Picking /\ ~hasOpts
  /\ LET from == Max({sel - rows, 0})
         before == {k \in S : k <= from}
         s == IF before = {} THEN Min(S) ELSE Max(before)
     IN  /\ sel' = s
         /\ IF s < first
            THEN first' = Max({first - rows, 0}) /\ last' = Max({first - rows, 0}) + rows
            ELSE UNCHANGED <<first, last>>
  /\ Moved

\* Past the last selectable item the selection stays on the last row,
\* selectable or not.
PageRight ==
  /\ Picking /\ ~hasOpts
  /\ LET from == Min({sel + rows, N - 1})
         after == {k \in S : k >= from}
     IN  IF after = {} THEN sel' = N - 1 /\ WindowEnd
         ELSE /\ sel' = Min(after)
              /\ IF Min(after) >= last
                 THEN last' = Min({last + rows, N}) /\ first' = Min({last + rows, N}) - rows
                 ELSE UNCHANGED <<first, last>>
  /\ Moved

\* With options anywhere in the list, left and right cycle the option.
CycleOption(right) ==
  /\ Picking /\ hasOpts
  /\ LET it == At(sel)
         o == IF right THEN (IF it.opt + 1 >= it.opts THEN 0 ELSE it.opt + 1)
              ELSE (IF it.opt - 1 < 0 THEN it.opts - 1 ELSE it.opt - 1)
     IN  items' = IF "disabled" \in it.feats THEN items
                  ELSE [items EXCEPT ![vis[sel + 1]].opt = o]
  /\ UNCHANGED <<in, hasOpts, view, code, files>>
  /\ PollAndDraw(TRUE)

\* ListNav_NextLetterIndex: the next selectable item of another letter, from
\* the start of the list when there is none.
NextLetter ==
  LET other == {k \in S : At(k).name[1] # At(sel).name[1]}
      after == {k \in other : k > sel}
  IN  IF after # {} THEN Min(after) ELSE IF other # {} THEN Min(other) ELSE sel

\* ListNav_PrevLetterIndex: the start of the letter group before.
PrevLetter ==
  LET other == {k \in S : At(k).name[1] # At(sel).name[1]}
      from == IF \E k \in other : k < sel THEN {k \in other : k < sel} ELSE other
      hit == Max(from)
      group == {k \in S : /\ k <= hit
                          /\ \A j \in S : j \in k .. hit => At(j).name[1] = At(hit).name[1]}
  IN  IF other = {} THEN sel ELSE Min(group)

\* Mutant: a jump leaves the window where it was.
Jump_stale(target) ==
  /\ Picking /\ in.alpha /\ target # sel
  /\ sel' = target /\ UNCHANGED <<first, last>>
  /\ Moved

Jump(target) ==
  /\ Picking /\ in.alpha /\ target # sel
  /\ InitView(items, vis, target, rows)
  /\ Moved

\* One button may have several roles; a press takes one of them.  A confirms
\* before it cancels, every other button cancels before it confirms.
RoleOf(b) ==
  LET order == IF b = "A" THEN <<"action", "confirm", "cancel", "enable">>
               ELSE <<"action", "cancel", "confirm", "enable">>
      roles == {i \in 1 .. 4 : in.btn[order[i]] = b}
  IN  IF roles = {} THEN "none" ELSE order[Min(roles)]

Pressed(role) == Picking /\ \E b \in {"A", "B", "X", "Y"} : RoleOf(b) = role

ToggleEnabled ==
  /\ Pressed("enable") /\ "can_disable" \in At(sel).feats
  /\ items' = [items EXCEPT ![vis[sel + 1]].feats =
                 IF "disabled" \in @ THEN @ \ {"disabled"} ELSE @ \cup {"disabled"}]
  /\ UNCHANGED <<in, hasOpts, view, code, files>>
  /\ PollAndDraw(TRUE)

\* A press that quits asks for no redraw; the power state may force one.
Quit(c) ==
  /\ code' = c
  /\ UNCHANGED <<in, items, hasOpts, view, files>>
  /\ \E forced \in BOOLEAN : PollAndDraw(forced)

ConfirmHidden ==
  /\ ~in.always
  /\ \/ "show_confirm" \notin At(sel).feats /\ At(sel).opts > 0
          /\ At(sel).initial = At(sel).opt
     \/ "hide_confirm" \in At(sel).feats

PressAction == Pressed("action") /\ "hide_action" \notin At(sel).feats /\ Quit("action")
PressCancel == Pressed("cancel") /\ "hide_cancel" \notin At(sel).feats /\ Quit("cancel")
PressConfirm == Pressed("confirm") /\ ~ConfirmHidden /\ Quit("success")
PressMenu == Running /\ Quit("menu")

\* A frame in which nothing is pressed still shows an image that appeared; the
\* power state and a scrolling row may force the redraw of any frame.
Idle(forced) ==
  /\ Listing
  /\ UNCHANGED <<in, items, hasOpts, view, code, files>>
  /\ PollBack
  /\ Draw(forced \/ ImageStale \/ backSeen' # backSeen)

-----------------------------------------------------------------------------
(* One frame with the filter keyboard.                                     *)

Typing == Running /\ kb

ToggleKeyboard ==
  /\ Listing /\ in.filter
  /\ OpenKeyboard(items, vis, sel, rows)
  /\ UNCHANGED <<in, items, hasOpts, vis, text, code, files>>
  /\ PollAndDraw(TRUE)

CloseKeyboard ==
  /\ kb' = FALSE /\ rows' = saved /\ UNCHANGED <<saved, cur>>
  /\ InitView(items, vis, sel, saved)
  /\ UNCHANGED <<in, items, hasOpts, vis, text, code, files>>
  /\ PollAndDraw(TRUE)

\* A key, a backspace or a clear gives the text t.
Edit(t) ==
  /\ text' = t
  /\ ApplyFilter(t, rows)
  /\ UNCHANGED <<in, items, hasOpts, rows, saved, kb, cur, code, files>>
  /\ PollAndDraw(TRUE)

Typed(c) == IF Len(text) < MaxText THEN Append(text, c) ELSE text

\* Keys under the cursor.  Only the inputs with in.cursor move it; in the
\* others it may be on any key when A is pressed.
Keys == IF in.cursor THEN {KeyAt(cur)} ELSE {"char", "space", "enter"}

PressKey(c) == Typing /\ {"char", "space"} \cap Keys # {} /\ Edit(Typed(c))
PressEnter == Typing /\ "enter" \in Keys /\ CloseKeyboard
Backspace == Typing /\ text # <<>> /\ Edit(Front(text))
BackspaceEmpty ==
  /\ Typing /\ text = <<>>
  /\ UNCHANGED <<in, items, hasOpts, view, code, files>>
  /\ PollAndDraw(TRUE)
ClearText == Typing /\ Edit(<<>>)
PressToggle == Typing /\ CloseKeyboard

CursorTo(c) ==
  /\ Typing /\ in.cursor /\ cur' = c
  /\ UNCHANGED <<in, items, hasOpts, vis, sel, first, last, rows, saved, kb, text,
                 code, files>>
  /\ PollAndDraw(TRUE)

PressShift == "shift" \in Keys /\ CursorTo(CycleLayout(cur))

\* Without a press the redraw the poll asked for is dropped: the rows are polled
\* again, but a background that was found once is not looked for any more.
KeyboardIdle(forced) ==
  /\ Typing
  /\ UNCHANGED <<in, items, hasOpts, view, code, files>>
  /\ PollAndDraw(forced)

-----------------------------------------------------------------------------
(* The environment, and the whole tool.                                    *)

Signal == Running /\ Quit("signal")

\* Another process writes or removes an image between two frames; a background
\* that goes, or comes back, is not polled for.
FileChange(p) ==
  /\ Running
  /\ files' = IF p \in files THEN files \ {p} ELSE files \cup {p}
  /\ UNCHANGED <<in, items, hasOpts, view, code, cache, backSeen, shown>>
  /\ backLost' = (backLost \/ Background' # Background)

Paths(i) ==
  (UNION {Range(i.raw[k].images) \cup {BackOf(i, i.raw[k])} : k \in DOMAIN i.raw}
     \cup {"fallback"}) \ {""}

Init ==
  /\ in \in Inputs
  /\ items = <<>> /\ hasOpts = FALSE /\ vis = <<>>
  /\ sel = -1 /\ first = 0 /\ last = 0 /\ rows = Rows /\ saved = 0
  /\ kb = FALSE /\ text = <<>> /\ code = "start"
  /\ cur = [layout |-> 0, row |-> 0, col |-> 0]
  /\ files \in IF in.images THEN SUBSET Paths(in) ELSE {{}}
  /\ active = <<>> /\ loaded = {} /\ backSeen = {} /\ shown = <<>> /\ backLost = FALSE

\* write_output: the item written for a successful exit.
Output == IF code \in {"success", "action"} /\ sel >= 0 THEN vis[sel + 1] ELSE 0

Ended == code \notin {"start", "run"} /\ UNCHANGED vars

Next ==
  \/ StartFails \/ Start
  \/ \E fresh \in BOOLEAN : Up(fresh) \/ Down(fresh)
  \/ Held \/ PageLeft \/ PageRight
  \/ \E right \in BOOLEAN : CycleOption(right)
  \/ Jump(NextLetter) \/ Jump(PrevLetter)
  \/ ToggleEnabled
  \/ PressAction \/ PressCancel \/ PressConfirm \/ PressMenu
  \/ \E forced \in BOOLEAN : Idle(forced) \/ KeyboardIdle(forced)
  \/ ToggleKeyboard \/ PressToggle \/ PressEnter
  \/ \E c \in Letters : PressKey(c)
  \/ Backspace \/ BackspaceEmpty \/ ClearText \/ PressShift
  \/ \E c \in {MoveUp(cur), MoveDown(cur), MoveLeft(cur), MoveRight(cur)} : CursorTo(c)
  \/ Signal
  \/ \E p \in IF in.images THEN Paths(in) ELSE {} : FileChange(p)
  \/ Ended

Spec == Init /\ [][Next]_vars

-----------------------------------------------------------------------------
(* What must hold.                                                         *)

\* The window is a range of display positions, whatever is typed, toggled or
\* paged, and the cursor is on a key of its layout: draw_screen, the image
\* poll and the keyboard index visible[] and the layout over them unchecked.
WindowInList ==
  code # "start" =>
    /\ 0 <= first /\ first <= last /\ last <= Len(vis)
    /\ last - first <= rows
    /\ KeyAt(cur) # "none"
    /\ sel \in -1 .. Len(vis) - 1
    /\ code = "run" => (sel = -1 <=> S = {})

\* As long as every visible row can be selected, the selected one is on the
\* screen, and what is written on exit is the row the user saw highlighted:
\* paging, wrapping, filtering and the keyboard never lose it.
SelectionShown ==
  code \in {"run", "success", "action"} /\ sel >= 0 /\ Cardinality(S) = N =>
    /\ sel \in first .. last - 1
    /\ Output # 0 => shown.rows[sel][1] = Output

\* After every frame the screen shows the list as it is: no press changes the
\* rows, the selection, an option or the filter without a redraw.  Excepted is
\* the picture of the background: the redraw for one that appears is dropped by
\* the filter keyboard, by a d-pad held at the end of the list and by a press
\* that quits, and one that was found is not looked for again.
ScreenCurrent ==
  code # "start" /\ code # "error" =>
    IF backLost THEN [shown EXCEPT !.back = Background] = Screen ELSE shown = Screen

\* Only rows of the window hold an image: the memory of the cache is bounded
\* by the screen, as the loop that releases the other rows promises; and an
\* image is held for a path that was tried.
CacheBounded ==
  code = "run" => /\ loaded \subseteq Window(vis, first, last)
                  /\ \A i \in loaded : active[i] # ""

\* What is drawn is in the list, what is chosen is drawn, and nothing else is
\* kept in memory.
SelectionInWindow == WindowInList /\ SelectionShown /\ CacheBounded

\* The screen shows the list as it is, with the selected row on it.
ListShown == SelectionInWindow /\ ScreenCurrent
=============================================================================
