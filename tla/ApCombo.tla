------------------------------- MODULE ApCombo -------------------------------
(***************************************************************************)
(* Button combinations of Apostrophe (apostrophe.h): chords, which are     *)
(* held together, and sequences, which are pressed one after another.      *)
(* The state is one record c:                                              *)
(*   table  the combos in registration order (slots are never reused);     *)
(*   on     the indices of the chords that are triggered (combo_held);     *)
(*   down   the held buttons in the order they were pressed, each with the *)
(*          time since the held one before it, and since, the time since   *)
(*          the last of them;                                              *)
(*   seq    the last presses, each with the time since the one before, and *)
(*          idle, the time since the last of them;                         *)
(*   q      the events an application has not polled yet.                  *)
(* Only differences of press times are ever compared with a window, so     *)
(* gaps are kept instead of clock values and stop counting at GapCap,      *)
(* which is larger than every window.                                      *)
(***************************************************************************)
EXTENDS Integers, Sequences, FiniteSets, SequencesExt

CONSTANTS MaxCombos,      \* AP_MAX_COMBOS
          SeqBuffer,      \* capacity of seq_buffer (20)
          ComboQueue,     \* slots of combo_queue (16); it holds one less
          GapCap          \* a gap above every window

ASSUME GapAssumption == GapCap \in Nat

CapGap(n) == IF n > GapCap THEN GapCap ELSE n

Combo == [id : STRING, btns : Seq(STRING), sequence : BOOLEAN, strict : BOOLEAN,
          window : Nat, active : BOOLEAN]

NoCombos == [table |-> << >>, on |-> {}, down |-> << >>, since |-> GapCap, seq |-> << >>,
             idle |-> GapCap, q |-> << >>]

(* ap__combo_push_event: a full queue loses the event *)
Pushed(q, id, trig) ==
    IF Len(q) + 1 >= ComboQueue THEN q ELSE Append(q, [id |-> id, triggered |-> trig])
ComboPush(c, i, trig) == [c EXCEPT !.q = Pushed(@, c.table[i].id, trig)]
\* The events of the combos in is, in the order of registration.
PushedAll(q, table, is, trig) ==
    FoldLeft(LAMBDA r, i : IF i \in is THEN Pushed(r, table[i].id, trig) ELSE r,
             q, [i \in DOMAIN table |-> i])

(* The time from the first to the last press of the held buttons bs. *)
Spread(c, bs) ==
    LET at == {k \in DOMAIN c.down : c.down[k].b \in bs}
        lo == CHOOSE k \in at : \A m \in at : k <= m
        hi == CHOOSE k \in at : \A m \in at : k >= m
    IN  FoldSeq(LAMBDA e, sum : sum + e.gap, 0, SubSeq(c.down, lo + 1, hi))

AllDown(c, bs) == bs \subseteq {e.b : e \in Range(c.down)}

CheckChords(c) ==
    LET fired == {i \in DOMAIN c.table :
                    /\ c.table[i].active
                    /\ ~c.table[i].sequence
                    /\ i \notin c.on
                    /\ AllDown(c, Range(c.table[i].btns))
                    /\ Spread(c, Range(c.table[i].btns)) <= c.table[i].window}
    IN  [c EXCEPT !.on = @ \cup fired, !.q = PushedAll(@, c.table, fired, TRUE)]

CheckChordReleases(c) ==
    LET ended == {i \in DOMAIN c.table :
                    /\ c.table[i].active
                    /\ ~c.table[i].sequence
                    /\ i \in c.on
                    /\ ~AllDown(c, Range(c.table[i].btns))}
    IN  [c EXCEPT !.on = @ \ ended, !.q = PushedAll(@, c.table, ended, FALSE)]

(* The presses a sequence would match are the last ones of the buffer. In   *)
(* strict mode the press before them must have an earlier time stamp.       *)
SequenceMatches(c, m) ==
    LET start == Len(c.seq) - Len(m.btns)
    IN  /\ m.active
        /\ m.sequence
        /\ start >= 0
        /\ \A j \in DOMAIN m.btns :
              /\ c.seq[start + j].b = m.btns[j]
              /\ j > 1 => c.seq[start + j].gap <= m.window
        /\ m.strict /\ start > 0 => c.seq[start + 1].gap > 0

(* The first match is reported and empties the buffer. *)
CheckSequences(c) ==
    LET hits == {i \in DOMAIN c.table : SequenceMatches(c, c.table[i])}
    IN  IF hits = {} THEN c
        ELSE [ComboPush(c, CHOOSE i \in hits : \A k \in hits : i <= k, TRUE)
                 EXCEPT !.seq = << >>]

AddSeqEntry(c, e) ==
    [c EXCEPT !.seq = Append(IF Len(@) >= SeqBuffer THEN Tail(@) ELSE @, e)]

(* A press of a button that was up, a release of one that was down, time. *)
ComboPress(c, b) ==
    LET pressed == [c EXCEPT !.down = Append(@, [b |-> b, gap |-> c.since]),
                             !.since = 0, !.idle = 0]
    IN  CheckSequences(CheckChords(AddSeqEntry(pressed, [b |-> b, gap |-> c.idle])))

ComboRelease(c, b) ==
    LET k == CHOOSE n \in DOMAIN c.down : c.down[n].b = b
        gone == c.down[k].gap
        late == IF k = Len(c.down) THEN [c EXCEPT !.since = CapGap(@ + gone)]
                ELSE [c EXCEPT !.down[k + 1].gap = CapGap(@ + gone)]
    IN  CheckChordReleases([late EXCEPT !.down = RemoveAt(@, k)])

ComboTick(c) == [c EXCEPT !.since = CapGap(@ + 1), !.idle = CapGap(@ + 1)]

-----------------------------------------------------------------------------
(* What an application calls. *)

Register(c, m) ==
    IF Len(c.table) >= MaxCombos THEN c ELSE [c EXCEPT !.table = Append(@, m)]

(* Only the first slot with the id is looked at, active or not. *)
Unregister(c, id) ==
    LET same == {i \in DOMAIN c.table : c.table[i].id = id}
    IN  IF same = {} THEN c
        ELSE [c EXCEPT !.table[CHOOSE i \in same : \A k \in same : i <= k].active = FALSE]

ClearCombos(c) == [c EXCEPT !.table = << >>, !.seq = << >>, !.on = {}, !.q = << >>]

PollCombo(c) == [c EXCEPT !.q = Tail(@)]

(* A triggered chord that is still registered has all its buttons down. *)
ChordsHeld(c) ==
    \A i \in c.on : c.table[i].active => AllDown(c, Range(c.table[i].btns))
=============================================================================
