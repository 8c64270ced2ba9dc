----------------------------- MODULE PakHotkey -----------------------------
(***************************************************************************)
(* zlyme-pak-hotkey: while a pak runs, MENU and START held on one virtual  *)
(* controller ask the waiter of the pak to stop it.  Controllers come and  *)
(* go; inotify tells of changes in /dev/input, poll of events and hangups. *)
(*                                                                         *)
(* The kernel gives a new controller the lowest free node, so the node of  *)
(* one that is gone is used again.  Each plugged controller has a number.  *)
(***************************************************************************)
EXTENDS Integers, Sequences

CONSTANTS Nodes,       \* event nodes, numbers
          MaxPads,     \* MAX_PADS
          MaxPlugs,    \* bound: controllers plugged
          MaxKeys      \* bound: key events

VARIABLES dev,     \* node -> number of its controller, 0 for none
          virtual, \* controllers that are InputPlumber's
          down,    \* controller -> keys down
          queue,   \* controller -> events in the watcher's file
          ino,     \* the watch is set; events are pending
          pads,    \* struct app_pad of the watcher
          w,       \* where the watcher is
          chorded, \* controllers that have had both keys down
          plugs, keys

hotVars == <<dev, virtual, down, queue, ino, pads, w, chorded, plugs, keys>>

Numbers == 1 .. MaxPlugs
Both == {"menu", "start"}
Plugged == {d \in Numbers : \E n \in Nodes : dev[n] = d}
Watched(d) == \E i \in DOMAIN pads : pads[i].id = d
Outside == <<dev, virtual, down, chorded, plugs, keys>>

HotInit ==
    /\ dev = [n \in Nodes |-> 0]
    /\ virtual = {} /\ chorded = {}
    /\ down = [d \in Numbers |-> {}]
    /\ queue = [d \in Numbers |-> << >>]
    /\ ino = [on |-> FALSE, pending |-> FALSE]
    /\ pads = << >>
    /\ w = [at |-> "scan", todo |-> Nodes, ready |-> << >>, fire |-> FALSE, first |-> TRUE, told |-> FALSE]
    /\ plugs = 0 /\ keys = 0

-----------------------------------------------------------------------------
(* The kernel and the player. *)

Tell == ino' = [ino EXCEPT !.pending = ino.on]

\* On the lowest free node.
Plug(v) ==
    /\ plugs < MaxPlugs /\ plugs' = plugs + 1
    /\ \E n \in Nodes :
          /\ dev[n] = 0 /\ \A m \in Nodes : dev[m] = 0 => n <= m
          /\ dev' = [dev EXCEPT ![n] = plugs + 1]
    /\ virtual' = IF v THEN virtual \cup {plugs + 1} ELSE virtual
    /\ Tell
    /\ UNCHANGED <<down, queue, pads, w, chorded, keys>>

\* Nothing can be read from an unplugged controller.
Unplug(n) ==
    /\ dev[n] # 0
    /\ dev' = [dev EXCEPT ![n] = 0]
    /\ queue' = [queue EXCEPT ![dev[n]] = << >>]
    /\ down' = [down EXCEPT ![dev[n]] = {}]
    /\ Tell
    /\ UNCHANGED <<virtual, pads, w, chorded, plugs, keys>>

Key(d, k) ==
    /\ keys < MaxKeys /\ keys' = keys + 1
    /\ d \in Plugged
    /\ down' = [down EXCEPT ![d] = IF k \in @ THEN @ \ {k} ELSE @ \cup {k}]
    /\ queue' = IF Watched(d) THEN [queue EXCEPT ![d] = Append(@, [key |-> k, down |-> k \in down'[d]])]
                ELSE queue
    /\ chorded' = IF down'[d] = Both THEN chorded \cup {d} ELSE chorded
    /\ UNCHANGED <<dev, virtual, ino, pads, w, plugs>>

-----------------------------------------------------------------------------
(* scan_pads, an entry of /dev/input at a time. *)

ScanEnds ==
    CASE w.first -> [w EXCEPT !.at = "watch", !.first = FALSE]
      [] OTHER -> [w EXCEPT !.at = "pads"]
Full == Len(pads) >= MaxPads
Known(n) == \E i \in DOMAIN pads : pads[i].node = n

ScanNode ==
    /\ w.at = "scan"
    /\ \E n \in w.todo :
         /\ w' = IF Full /\ dev[n] # 0 /\ ~Known(n) THEN ScanEnds
                 ELSE IF w.todo = {n} THEN ScanEnds ELSE [w EXCEPT !.todo = @ \ {n}]
         /\ pads' = IF dev[n] \in virtual /\ ~Known(n) /\ ~Full
                    THEN Append(pads, [id |-> dev[n], node |-> n, down |-> {}]) ELSE pads
    /\ UNCHANGED <<Outside, queue, ino>>

\* inotify_add_watch, which may fail, and a second scan for what came in between.
AddWatch ==
    /\ w.at = "watch"
    /\ \/ /\ ino' = [ino EXCEPT !.on = TRUE]
          /\ w' = [w EXCEPT !.at = "scan", !.todo = Nodes]
       \/ /\ UNCHANGED ino
          /\ w' = [w EXCEPT !.at = IF pads = << >> THEN "ended" ELSE "poll"]
    /\ UNCHANGED <<Outside, queue, pads>>

-----------------------------------------------------------------------------
(* The loop. *)

Revents(p) == [id |-> p.id, in |-> queue[p.id] # << >>, hup |-> p.id \notin Plugged]

PollFds ==
    /\ w.at = "poll"
    /\ IF ~ino.on /\ pads = << >> THEN w' = [w EXCEPT !.at = "ended"]
       ELSE /\ ino.pending \/ \E i \in DOMAIN pads : Revents(pads[i]).in \/ Revents(pads[i]).hup
            /\ w' = [w EXCEPT !.at = IF ino.pending THEN "drain" ELSE "pads",
                              !.ready = [i \in DOMAIN pads |-> Revents(pads[i])]]
    /\ UNCHANGED <<Outside, queue, ino, pads>>

DrainInotify ==
    /\ w.at = "drain"
    /\ ino' = [ino EXCEPT !.pending = FALSE]
    /\ w' = [w EXCEPT !.at = "scan", !.todo = Nodes]
    /\ UNCHANGED <<Outside, queue, pads>>

\* Mutant: a release is not applied.
Apply_latched(held, e) == IF e.down THEN held \cup {e.key} ELSE held
Apply(held, e) == IF e.down THEN held \cup {e.key} ELSE held \ {e.key}

\* The file poll has told of whose turn it is.
Turned == w.at = "pads" /\ w.ready # << >>
Pad == CHOOSE i \in DOMAIN pads : pads[i].id = Head(w.ready).id
Read(ready) == [ready EXCEPT ![1].in = FALSE]

\* read_pad, an event at a time; it returns at the chord and leaves the rest.
ReadEvent ==
    LET d == Head(w.ready).id
        held == Apply(pads[Pad].down, Head(queue[d]))
    IN /\ Turned /\ Head(w.ready).in /\ queue[d] # << >>
       /\ pads' = [pads EXCEPT ![Pad].down = held]
       /\ queue' = [queue EXCEPT ![d] = Tail(@)]
       /\ w' = IF held = Both THEN [w EXCEPT !.fire = TRUE, !.ready = Read(@)] ELSE w
       /\ UNCHANGED <<Outside, ino>>

\* drop_fd closes the gap with the last pad.
Without(s, i) == [j \in 1 .. Len(s) - 1 |-> IF j = i THEN s[Len(s)] ELSE s[j]]

\* The next file, after a hangup without the one before.
NextPad ==
    /\ Turned /\ (Head(w.ready).in => queue[Head(w.ready).id] = << >>)
    /\ pads' = IF Head(w.ready).hup THEN Without(pads, Pad) ELSE pads
    /\ w' = [w EXCEPT !.ready = Tail(@)]
    /\ UNCHANGED <<Outside, queue, ino>>

\* stop_pak, once; then the helper ends.
Turn ==
    /\ w.at = "pads" /\ w.ready = << >>
    /\ w' = IF w.fire THEN [w EXCEPT !.at = "ended", !.told = TRUE] ELSE [w EXCEPT !.at = "poll"]
    /\ UNCHANGED <<Outside, queue, ino, pads>>

Watches == ScanNode \/ AddWatch \/ PollFds \/ DrainInotify \/ ReadEvent \/ NextPad \/ Turn
HotNext ==
    \/ \E v \in BOOLEAN : Plug(v)
    \/ \E n \in Nodes : Unplug(n)
    \/ \E d \in Numbers, k \in Both : Key(d, k)
    \/ Watches
\* The helper is scheduled; it waits in poll only.
HotSpec == HotInit /\ [][HotNext]_hotVars /\ WF_hotVars(Watches)

-----------------------------------------------------------------------------
\* A pak is stopped only if one virtual controller has had both keys down at once:
\* never by the keys of two controllers, by a key released or unplugged since, or
\* by one of a physical pad ("Buttons from two controllers must not combine").
ChordHonest == w.told => chorded \cap virtual # {}

\* "MENU+START on any one virtual controller exits": where inotify works, each
\* virtual controller that stays is watched in the end.
EveryPadWatched ==
    \A d \in Numbers :
       ino.on /\ d \in Plugged \cap virtual ~> Watched(d) \/ d \notin Plugged \/ w.at = "ended"
=============================================================================
