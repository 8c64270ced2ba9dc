---------------------------- MODULE ApQueueViewer ----------------------------
(***************************************************************************)
(* ap_queue_viewer of the Apostrophe widgets: a list of jobs that other    *)
(* threads change while it is shown.  Every frame takes a snapshot, builds *)
(* the filtered list, and then handles the events that came in; an event   *)
(* is handled on a list the user has not seen yet.                         *)
(***************************************************************************)
EXTENDS Integers, Sequences, FiniteSets

CONSTANTS
  Jobs,         \* sequence of jobs, each with the group of its first letter
  MaxItems,     \* size of the snapshot buffer
  ViewRows,     \* max_visible, at least 1
  ViewOpts,     \* records: which callbacks there are, and whether Y filters
  ViewGroups    \* size of alpha_starts

VARIABLE w      \* the stack frame of the widget that runs, and the queue

Active == {"pending", "running"}
Finished == {"done", "skipped"}
Terminal == Finished \cup {"failed"}

\* The job statuses a filter lets through: all, in progress, done, failed.
Passes(f) == CASE f = 0 -> Active \cup Terminal [] f = 1 -> Active
               [] f = 2 -> Finished [] f = 3 -> {"failed"}

Ordered(S) == [k \in 1 .. Cardinality(S) |->
                 CHOOSE x \in S : Cardinality({y \in S : y < x}) = k - 1]

-----------------------------------------------------------------------------
OpenViewer(o, q) ==
  [kind |-> "viewer", opts |-> o, queue |-> q, phase |-> "snapshot", items |-> <<>>,
   filter |-> 0, map |-> <<>>, starts |-> <<>>, of |-> <<>>, cursor |-> 0, top |-> 0,
   running |-> TRUE, called |-> "none", drawn |-> <<>>, overflow |-> o.overflow]

\* A queue as the callbacks deliver it: the jobs that are in it, in order.
ViewInit == w \in {OpenViewer(o, q) : o \in ViewOpts, q \in [1 .. Len(Jobs) -> {"pending"}]}

\* The queue lives on: jobs start and end, in threads of the caller.
JobStep(i, st) ==
  /\ w.kind = "viewer" /\ i \in DOMAIN w.queue
  /\ \/ w.queue[i] = "pending" /\ st \in {"running", "skipped"}
     \/ w.queue[i] = "running" /\ st \in {"done", "failed"}
  /\ w' = [w EXCEPT !.queue[i] = st]

Pull(s, n) == IF n = 0 \/ s.cursor < 0 THEN 0 ELSE IF s.cursor >= n THEN n - 1 ELSE s.cursor

\* The frame begins: snapshot, filtered list, jump index, cursor.  Jobs that
\* were cleared are not in the queue any more.
Snapshot ==
  /\ w.kind = "viewer" /\ w.phase = "snapshot"
  /\ LET present == Ordered({i \in DOMAIN w.queue : w.queue[i] # "cleared"})
         items == [k \in 1 .. (IF Len(present) > MaxItems THEN MaxItems ELSE Len(present)) |->
                     [job |-> present[k], status |-> w.queue[present[k]]]]
         map == Ordered({k \in DOMAIN items : items[k].status \in Passes(w.filter)})
         group(k) == Jobs[items[map[k]].job]
         heads == {k \in DOMAIN map : k = 1 \/ group(k) # group(k - 1)}
         starts == Ordered({k - 1 : k \in {h \in heads : Cardinality({g \in heads : g <= h}) <= ViewGroups}})
     IN  w' = [w EXCEPT !.phase = "input", !.items = items, !.map = map, !.starts = starts,
                        !.of = [k \in DOMAIN map |-> Cardinality({j \in DOMAIN starts : starts[j] < k}) - 1],
                        !.cursor = Pull(w, Len(map)), !.called = "none"]

-----------------------------------------------------------------------------
(* Events.                                                                 *)

Polling == w.kind = "viewer" /\ w.phase = "input"
N == Len(w.map)
Cursor(c) == w' = [w EXCEPT !.cursor = IF N > 0 THEN c ELSE @]
Under == w.items[w.map[w.cursor + 1]]

Up == Polling /\ Cursor(IF w.cursor > 0 THEN w.cursor - 1 ELSE N - 1)
Down == Polling /\ Cursor(IF w.cursor < N - 1 THEN w.cursor + 1 ELSE 0)
Left == Polling /\ Cursor(IF w.cursor < ViewRows THEN 0 ELSE w.cursor - ViewRows)
Right == Polling /\ Cursor(IF w.cursor + ViewRows >= N THEN N - 1 ELSE w.cursor + ViewRows)

JumpAlpha(d) ==
  /\ Polling /\ N > 0
  /\ LET g == w.of[w.cursor + 1] + d
     IN  Cursor(IF g >= 0 /\ g < Len(w.starts) THEN w.starts[g + 1] ELSE w.cursor)

\* Y goes to the next filter; the list is the old one until the next frame.
NextFilter ==
  /\ Polling /\ ~w.opts.noFilter
  /\ w' = [w EXCEPT !.filter = (@ + 1) % 4, !.cursor = 0, !.top = 0]

\* A callback ends the input of the frame; a new frame begins at once.
Called(what, s) == w' = [s EXCEPT !.called = what, !.phase = "snapshot",
                                  !.kind = IF w.running THEN "viewer" ELSE "done"]

OpenDetail ==
  /\ Polling /\ w.opts.detail /\ N > 0 /\ Under.status \in Terminal
  /\ Called("detail", w)

HasActive == \E k \in DOMAIN w.items : w.items[k].status \in Active
AnyDone == \E k \in DOMAIN w.items : w.items[k].status \in Finished

\* The caller stops what runs.
StopAll ==
  /\ Polling /\ HasActive /\ w.opts.cancel
  /\ Called("cancel", [w EXCEPT !.queue = [i \in DOMAIN @ |-> IF @[i] \in Active THEN "skipped" ELSE @[i]]])

\* The caller drops what is done.
ClearDone ==
  /\ Polling /\ ~HasActive /\ w.opts.clear /\ AnyDone
  /\ Called("clear", [w EXCEPT !.queue = [i \in DOMAIN @ |-> IF @[i] \in Finished THEN "cleared" ELSE @[i]]])

Leave == Polling /\ w' = [w EXCEPT !.running = FALSE]

-----------------------------------------------------------------------------
(* The end of a frame.                                                     *)

ScrollTop(c, top, n) ==
  LET t == IF c < top THEN c ELSE top
      u == IF n > 0 /\ c >= t + ViewRows THEN c - ViewRows + 1 ELSE t
      most == IF n > ViewRows THEN n - ViewRows ELSE 0
  IN  IF u > most THEN most ELSE u

\* Rows drawn: the jobs of the list from the first row on; and the hints of
\* the footer.
Drawn(s, n) ==
  [rows |-> [k \in 1 .. (IF n - s.top < ViewRows THEN n - s.top ELSE ViewRows) |->
               s.items[s.map[s.top + k]].job],
   here |-> s.cursor - s.top + 1,
   hints |-> (IF HasActive /\ s.opts.cancel THEN {"stop"} ELSE {})
             \cup (IF ~HasActive /\ s.opts.clear /\ AnyDone THEN {"clear"} ELSE {})
             \cup (IF s.opts.detail /\ n > 0 /\ s.items[s.map[s.cursor + 1]].status \in Terminal
                   THEN {"details"} ELSE {})]

Frame ==
  /\ Polling
  /\ LET c == Pull(w, N)
         s == [w EXCEPT !.cursor = c, !.top = ScrollTop(c, w.top, N)]
     IN  w' = [s EXCEPT !.drawn = Drawn(s, N), !.phase = "snapshot",
                        !.kind = IF w.running THEN "viewer" ELSE "done"]

ViewNext ==
  \/ Snapshot \/ Up \/ Down \/ Left \/ Right \/ NextFilter \/ OpenDetail \/ StopAll
  \/ ClearDone \/ Leave \/ Frame
  \/ \E d \in {-1, 1} : JumpAlpha(d)
  \/ \E i \in 1 .. Len(Jobs), st \in {"running", "skipped", "done", "failed"} : JobStep(i, st)

-----------------------------------------------------------------------------
IsViewer == w.kind \in {"viewer", "done"} /\ "queue" \in DOMAIN w

\* A frame shows the row of the cursor, and fills the window as far as the
\* list goes, although the list shrinks and grows under the cursor.
WindowFull ==
  IsViewer /\ w.drawn # <<>> /\ w.phase = "snapshot" /\ w.called = "none" =>
    /\ N > 0 => w.drawn.here \in DOMAIN w.drawn.rows
    /\ Len(w.drawn.rows) = (IF N < ViewRows THEN N ELSE ViewRows)
=============================================================================
