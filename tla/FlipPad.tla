------------------------------- MODULE FlipPad -------------------------------
(***************************************************************************)
(* The sticks of the Miyoo Flip gamepad driver.  Complete frames from the  *)
(* serial line (FlipLine) move the sticks and, after boot, are the samples *)
(* from which each axis finds its resting center; calibrations and dead    *)
(* zones are written through sysfs at any time in between.  Each of these  *)
(* holds pad->lock from beginning to end and is one action.                *)
(*                                                                         *)
(* jiffies are reduced to "elapsed": the settling time has passed since    *)
(* the first frame, or the budget has passed since the collection began.   *)
(***************************************************************************)
EXTENDS Integers, Sequences, FiniteSets, SequencesExt

CONSTANTS Sticks,      \* pairs <<x axis, y axis>>
          Frames,      \* frames: functions from axes to bytes
          Calibrations,\* what can be written: [apply, x, y], x and y of [min, zero, max]
          Deadzones,   \* percentages that can be written
          Default,     \* [min, zero, max] of an uncalibrated axis
          Deadband,    \* MF_RAW_DEADBAND
          Window, Spread, Match,   \* MF_BOOT_WINDOW, MF_BOOT_SPREAD, MF_BOOT_MATCH
          AbsRange     \* MF_ABS_RANGE

VARIABLES axis,      \* pad->axis
          dz,        \* pad->deadzone_left, deadzone_right
          abs,       \* pad->last_abs
          settle,    \* pad->settle_phase
          started,   \* pad->boot_started
          elapsed

flipVars == <<axis, dz, abs, settle, started, elapsed>>

Axes == UNION {{s[1], s[2]} : s \in Sticks}
Finished == {"accepted", "timeout", "cancelled", "rejected"}

AxisDefaults ==
    [min |-> Default.min, saved |-> Default.zero, zero |-> Default.zero, max |-> Default.max,
     latest |-> Default.zero, source |-> "default", boot |-> "wait", win |-> << >>, cand |-> -1]

FlipInit ==
    /\ axis = [a \in Axes |-> AxisDefaults]
    /\ dz = [s \in Sticks |-> 0]
    /\ abs = [a \in Axes |-> 0]
    /\ settle = "wait" /\ started = FALSE /\ elapsed = FALSE

-----------------------------------------------------------------------------
(* Scaling. *)

Clamp(v) == IF v > AbsRange THEN AbsRange ELSE IF v < -AbsRange THEN -AbsRange ELSE v
\* C's division, which truncates toward zero.
Quot(n, d) == IF n < 0 THEN -((-n) \div d) ELSE n \div d

ScaleSide(delta, span) ==
    IF delta <= Deadband \/ span <= Deadband THEN 0
    ELSE Clamp(((delta - Deadband) * AbsRange) \div (span - Deadband))

Scale(a) ==
    IF a.latest >= a.zero THEN ScaleSide(a.latest - a.zero, a.max - a.zero)
    ELSE -ScaleSide(a.zero - a.latest, a.zero - a.min)

IntSqrt(v) == CHOOSE r \in 0 .. 2 * AbsRange : r * r <= v /\ (r + 1) * (r + 1) > v

Radial(pct, x, y) ==
    LET r == IntSqrt(x * x + y * y)
        d == (AbsRange * pct) \div 100
        Shrink(v) == Clamp(Quot(v * (r - d) * AbsRange, r * (AbsRange - d)))
    IN CASE pct = 0 \/ (x = 0 /\ y = 0) -> <<x, y>>
         [] r <= d -> <<0, 0>>
         [] r >= AbsRange -> <<x, y>>
         [] OTHER -> <<Shrink(x), Shrink(y)>>

\* mf_emit_stick: what axis a of the axes ax reports with the dead zones z.
StickOf(a) == CHOOSE s \in Sticks : a \in {s[1], s[2]}
Emitted(ax, z, a) ==
    LET s == StickOf(a)
        v == Radial(z[s], Scale(ax[s[1]]), Scale(ax[s[2]]))
    IN IF a = s[1] THEN v[1] ELSE v[2]

PublishStick(ax, z, s) ==
    abs' = [abs EXCEPT ![s[1]] = Emitted(ax, z, s[1]), ![s[2]] = Emitted(ax, z, s[2])]

ReportAxes(ax) == abs' = [a \in Axes |-> Emitted(ax, dz, a)]

-----------------------------------------------------------------------------
(* The boot center. *)

CenterInRange(min, zero, max) == zero - min > Deadband /\ max - zero > Deadband

WindowStable(win) == \A i, j \in 1 .. Window : win[i] - win[j] <= Spread
\* The middle one of the sorted window: the least sample that more than half
\* of the window does not exceed.
Median(win) ==
    Min({v \in Range(win) : 2 * Cardinality({i \in DOMAIN win : win[i] <= v}) > Window})

Overdue(ax) == elapsed

\* One axis during the collection, after the sample v.
NoteSample(ax, v) ==
    LET win == Append(ax.win, v)
        med == Median(win)
        next == [ax EXCEPT !.win = << >>]
        again == [next EXCEPT !.cand = -1, !.boot = "collect"]
    IN CASE Overdue(ax) -> [ax EXCEPT !.boot = "timeout"]
         [] ~Overdue(ax) /\ Len(win) < Window -> [ax EXCEPT !.win = win]
         [] ~Overdue(ax) /\ Len(win) = Window /\ ~WindowStable(win) -> again
         [] OTHER ->
              CASE ax.boot # "confirm" -> [next EXCEPT !.cand = med, !.boot = "confirm"]
                [] ax.boot = "confirm" /\ (med - ax.cand > Match \/ ax.cand - med > Match) -> again
                [] OTHER -> IF CenterInRange(ax.min, med, ax.max)
                            THEN [next EXCEPT !.zero = med, !.source = "boot", !.boot = "accepted"]
                            ELSE [next EXCEPT !.boot = "rejected"]

AllFinished(ax) == \A a \in Axes : ax[a].boot \in Finished

\* mf_boot_note for one axis.
BootNote(ax, v) ==
    LET seen == [ax EXCEPT !.latest = v,
                           !.boot = IF ~started /\ ax.source # "apply" THEN "settle" ELSE @]
    IN CASE ~started \/ settle = "done" \/ (settle = "hw" /\ ~elapsed) -> seen
         [] started /\ settle = "hw" /\ elapsed ->
              IF seen.boot = "settle" THEN [seen EXCEPT !.boot = "collect", !.win = <<v>>] ELSE seen
         [] OTHER -> IF seen.boot \in Finished THEN seen ELSE NoteSample(seen, v)

\* What mf_feed does with a complete frame.
Frame(raw) ==
    /\ started' = TRUE
    /\ axis' = [a \in Axes |-> BootNote(axis[a], raw[a])]
    /\ settle' = CASE ~started -> "hw"
                   [] started /\ (settle = "done" \/ (settle = "hw" /\ ~elapsed)) -> settle
                   [] OTHER -> IF AllFinished(axis') THEN "done" ELSE "run"
    /\ elapsed' = (elapsed /\ settle # "hw")
    /\ ReportAxes(axis')
    /\ UNCHANGED dz

Elapse ==
    /\ started /\ settle \in {"hw", "run"} /\ ~elapsed
    /\ elapsed' = TRUE
    /\ UNCHANGED <<axis, dz, abs, settle, started>>

-----------------------------------------------------------------------------
(* sysfs. *)

\* Mutant: a restore is checked against its own center only.
Preflight_own(ax, apply, c) == TRUE
Preflight(ax, apply, c) ==
    ~apply /\ ax.source \in {"boot", "apply"} => CenterInRange(c.min, ax.zero, c.max)

InstallAxis(ax, c, apply) ==
    LET ends == [ax EXCEPT !.min = c.min, !.saved = c.zero, !.max = c.max]
    IN IF apply
       THEN [ends EXCEPT !.zero = c.zero, !.source = "apply",
                         !.boot = IF @ \in Finished THEN @ ELSE "cancelled"]
       ELSE IF ax.source \in {"default", "persisted"}
       THEN [ends EXCEPT !.zero = c.zero, !.source = "persisted"]
       ELSE ends

\* mf_cal_store of a calibration that mf_parse_cal lets through.
CalStore(s, c) ==
    LET x == InstallAxis(axis[s[1]], c.x, c.apply)
        y == InstallAxis(axis[s[2]], c.y, c.apply)
    IN /\ CenterInRange(c.x.min, c.x.zero, c.x.max) /\ CenterInRange(c.y.min, c.y.zero, c.y.max)
       /\ Preflight(axis[s[1]], c.apply, c.x) /\ Preflight(axis[s[2]], c.apply, c.y)
       /\ axis' = [axis EXCEPT ![s[1]] = x, ![s[2]] = y]
       /\ settle' = IF started /\ AllFinished(axis') THEN "done" ELSE settle
       /\ PublishStick(axis', dz, s)
       /\ UNCHANGED <<dz, started, elapsed>>

DzStore(s, pct) ==
    /\ dz' = [dz EXCEPT ![s] = pct]
    /\ PublishStick(axis, dz', s)
    /\ UNCHANGED <<axis, settle, started, elapsed>>

AnyFrame == \E raw \in Frames : Frame(raw)
FlipNext ==
    \/ AnyFrame
    \/ Elapse
    \/ \E s \in Sticks : \/ \E c \in Calibrations : CalStore(s, c)
                         \/ \E pct \in Deadzones : DzStore(s, pct)

FlipSpec == FlipInit /\ [][FlipNext]_flipVars

-----------------------------------------------------------------------------
\* Samples are bytes; what mf_parse_cal and the dead zone attributes let
\* through; no axis is on two sticks; the built-in range is usable.
ASSUME PadAssumption ==
    /\ Deadband \in Nat /\ AbsRange \in Nat \ {0} /\ Window \in Nat \ {0}
    /\ \A s \in Sticks : s[1] # s[2]
    /\ \A s, q \in Sticks : s # q => {s[1], s[2]} \cap {q[1], q[2]} = {}
    /\ Frames \subseteq [Axes -> 0 .. 255] /\ Deadzones \subseteq 0 .. 99
    /\ \A r \in {Default} \cup UNION {{c.x, c.y} : c \in Calibrations} :
          {r.min, r.zero, r.max} \subseteq Int
    /\ CenterInRange(Default.min, Default.zero, Default.max)

\* Whatever calibrations, boot centers and restores come in whatever order, the
\* center that scaling uses is inside the active range with usable travel on
\* both sides (mf_center_in_range at each of the three places that move a
\* center or an end).
Centred == \A a \in Axes : CenterInRange(axis[a].min, axis[a].zero, axis[a].max)

\* What was reported last is what the sticks say now: an axis inside its
\* deadband reports no motion, any other reports no motion to the wrong side,
\* and the end of the active travel reports the full range, also right after a
\* new calibration or dead zone.
StickTruthful ==
    \A a \in Axes :
       LET ax == axis[a] off == ax.latest - ax.zero
       IN /\ off \in -Deadband .. Deadband => abs[a] = 0
          /\ off >= 0 => abs[a] \in 0 .. AbsRange
          /\ off <= 0 => abs[a] \in -AbsRange .. 0
          /\ ax.latest >= ax.max => abs[a] = AbsRange
          /\ ax.latest <= ax.min => abs[a] = -AbsRange

\* Both: centers stay usable in whatever order they are moved, and what was
\* reported is where the sticks are.
SticksTrue == Centred /\ StickTruthful
=============================================================================
