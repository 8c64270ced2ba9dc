------------------------------- MODULE KeyLid -------------------------------
(***************************************************************************)
(* zlyme-keylidmon and lid_policy.h: who asks for suspend to memory when   *)
(* the lid closes or power is pressed.  NextUI owns the screen while its   *)
(* process is alive and suspends by itself; keylidmon owns it while a pak  *)
(* runs.  The loop looks at /proc and at the switch once per pass and then *)
(* reads queued events, so everything it knows may be stale.               *)
(***************************************************************************)
EXTENDS Naturals, Sequences

CONSTANT MaxQueue   \* events an input device queues before it drops them

VARIABLES
    ui,       \* nextui.elf, minui.elf or settings.elf is in /proc
    lid,      \* the lid itself, "open" or "closed"
    hallQ,    \* unread SW_LID events; "STALE" is a close of an earlier period
    pwrQ,     \* unread KEY_POWER presses: by the user, or the one that woke us
    p,        \* struct zlyme_lid_policy
    guard,    \* power_ignore_until_ms is in the future
    kpc,      \* where the loop of main is
    ready,    \* the devices poll found readable
    kret,     \* where do_mem_sleep returns to
    cause,    \* what the last request was for
    lidReqs   \* keylidmon's requests for the present closed period

lidVars == <<ui, lid, hallQ, pwrQ, p, guard, kpc, ready, kret, cause, lidReqs>>

LidEvents == {"CLOSE", "OPEN", "STALE"}
Presses   == {"user", "wake"}
Queue(S)  == UNION {[1..n -> S] : n \in 0..MaxQueue}

Policy == [menu_seen : BOOLEAN, menu_owns : BOOLEAN, in_pak : BOOLEAN,
           lid_closed : BOOLEAN, asleep : BOOLEAN, busy : BOOLEAN]

Sleeping == {"pre", "mem", "resume"}

LidTypeOK ==
    /\ ui \in BOOLEAN
    /\ lid \in {"open", "closed"}
    /\ hallQ \in Queue(LidEvents)
    /\ pwrQ \in Queue(Presses)
    /\ p \in Policy
    /\ guard \in BOOLEAN
    /\ kpc \in {"top", "poll", "hall", "pwr"} \cup Sleeping
    /\ ready \subseteq {"hall", "pwr"}
    /\ kret \in {"poll", "hall", "pwr"}
    /\ cause \in {"none", "lid"} \cup Presses
    /\ lidReqs \in 0..2

LidInit ==
    /\ ui = FALSE
    /\ lid \in {"open", "closed"}
    /\ hallQ = <<>>
    /\ pwrQ = <<>>
    /\ p = [menu_seen |-> FALSE, menu_owns |-> FALSE, in_pak |-> FALSE,
            lid_closed |-> FALSE, asleep |-> FALSE, busy |-> FALSE]
    /\ guard = FALSE
    /\ kpc = "top"
    /\ ready = {}
    /\ kret = "poll"
    /\ cause = "none"
    /\ lidReqs = 0

\* The evdev buffer: an event that does not fit drops the ones before it.
Push(q, e) == IF Len(q) < MaxQueue THEN Append(q, e) ELSE <<e>>

Saturate(n) == IF n < 2 THEN n + 1 ELSE n

----------------------------------------------------------------------------
(* lid_policy.h                                                            *)

Closes == {"CLOSE", "STALE"}

\* zlyme_lid_apply: the policy after the event, before a request is counted.
Applied(q, ev) ==
    CASE ev = "MENU"  -> [q EXCEPT !.menu_seen = TRUE, !.menu_owns = TRUE, !.in_pak = FALSE]
      [] ev = "PAK"   -> [q EXCEPT !.menu_owns = FALSE, !.in_pak = @ \/ q.menu_seen]
      [] ev \in Closes -> [q EXCEPT !.lid_closed = TRUE]
      [] ev = "OPEN"  -> [q EXCEPT !.lid_closed = FALSE, !.asleep = FALSE]
      [] ev = "POWER" -> q

\* zlyme_lid_apply: its result, one mem request or none.
Wants(q, ev, g) ==
    /\ ~g /\ ~q.busy
    /\ \/ ev = "PAK" /\ q.menu_seen /\ ~q.in_pak /\ q.lid_closed /\ ~q.asleep
       \/ ev \in Closes /\ ~q.menu_owns /\ q.in_pak /\ ~q.asleep
       \/ ev = "POWER" /\ ~q.menu_owns

\* Mutant: a sample that reads open does not end the closed period.
ObserveClosedOnly(q, l) == IF l = "open" THEN q ELSE [q EXCEPT !.lid_closed = TRUE]

\* zlyme_lid_observe, on the switch as it is now.
Observe(q, l) ==
    IF l = "open" THEN Applied(q, "OPEN") ELSE [q EXCEPT !.lid_closed = TRUE]

\* zlyme_lid_suspend_done: a failed suspend also uses up the closed period.
SuspendDone(q) == [q EXCEPT !.busy = FALSE, !.asleep = @ \/ q.lid_closed]

----------------------------------------------------------------------------
(* The loop of main.                                                       *)

\* maybe_lid: apply the event; a request enters do_mem_sleep at once.
MaybeLid(q, ev, why, back) ==
    LET want == Wants(q, ev, guard) IN
    /\ p' = [Applied(q, ev) EXCEPT !.busy = @ \/ want]
    /\ kpc' = IF want THEN "pre" ELSE back
    /\ kret' = IF want THEN back ELSE kret
    /\ cause' = IF want THEN why ELSE cause
    /\ lidReqs' = IF want /\ ev \in {"PAK", "CLOSE"} THEN Saturate(lidReqs) ELSE lidReqs

\* Mutant: the switch is sampled without discarding its queued events.
TopKeepsEvents ==
    /\ kpc = "top"
    /\ MaybeLid(Observe(p, lid), IF ui THEN "MENU" ELSE "PAK", "lid", "poll")
    /\ UNCHANGED <<ui, lid, hallQ, pwrQ, guard, ready>>

\* menu_owns_keys and sync_owner.  EVIOCGSW reads the switch and discards the
\* SW events the reader has not read yet (external: the kernel's evdev).
Top ==
    /\ kpc = "top"
    /\ MaybeLid(Observe(p, lid), IF ui THEN "MENU" ELSE "PAK", "lid", "poll")
    /\ hallQ' = <<>>
    /\ UNCHANGED <<ui, lid, pwrQ, guard, ready>>

\* poll returns: an event, or 300 ms.
Poll ==
    /\ kpc = "poll"
    /\ kpc' = "hall"
    /\ ready' = {d \in {"hall", "pwr"} : IF d = "hall" THEN hallQ # <<>> ELSE pwrQ # <<>>}
    /\ UNCHANGED <<ui, lid, hallQ, pwrQ, p, guard, kret, cause, lidReqs>>

\* while (read(hall_fd)): one event; or poll saw none, or all are read.
ReadHall ==
    /\ kpc = "hall"
    /\ \/ /\ "hall" \in ready /\ hallQ # <<>>
          /\ hallQ' = Tail(hallQ)
          /\ MaybeLid(p, Head(hallQ), "lid", "hall")
       \/ /\ "hall" \notin ready \/ hallQ = <<>>
          /\ kpc' = "pwr"
          /\ UNCHANGED <<hallQ, p, kret, cause, lidReqs>>
    /\ UNCHANGED <<ui, lid, pwrQ, guard, ready>>

\* while (read(pwr_fd)).
ReadPower ==
    /\ kpc = "pwr"
    /\ \/ /\ "pwr" \in ready /\ pwrQ # <<>>
          /\ pwrQ' = Tail(pwrQ)
          /\ MaybeLid(p, "POWER", Head(pwrQ), "pwr")
       \/ /\ "pwr" \notin ready \/ pwrQ = <<>>
          /\ kpc' = "top"
          /\ UNCHANGED <<pwrQ, p, kret, cause, lidReqs>>
    /\ UNCHANGED <<ui, lid, hallQ, guard, ready>>

----------------------------------------------------------------------------
(* do_mem_sleep.                                                           *)

\* governor idle, radios pre, then the suspend helper: asleep, or it failed.
Suspend ==
    /\ kpc = "pre"
    /\ kpc' \in {"mem", "resume"}
    /\ UNCHANGED <<ui, lid, hallQ, pwrQ, p, guard, kret, cause, lidReqs, ready>>

\* governor resume, radios resume, then the guard and suspend_done.
Resume ==
    /\ kpc = "resume"
    /\ guard' = TRUE
    /\ p' = SuspendDone(p)
    /\ kpc' = kret
    /\ UNCHANGED <<ui, lid, hallQ, pwrQ, kret, cause, lidReqs, ready>>

\* One second goes by: in poll with nothing to read, or in the slow shell
\* commands of do_mem_sleep.  A pass over queued events is far shorter.
ExpireGuard ==
    /\ guard
    /\ \/ kpc = "poll" /\ hallQ = <<>> /\ pwrQ = <<>>
       \/ kpc \in {"pre", "resume"}
    /\ guard' = FALSE
    /\ UNCHANGED <<ui, lid, hallQ, pwrQ, p, kpc, kret, cause, lidReqs, ready>>

----------------------------------------------------------------------------
(* The device around it.                                                   *)

Awake == kpc # "mem"

CloseLid ==
    /\ Awake /\ lid = "open"
    /\ lid' = "closed"
    /\ hallQ' = Push(hallQ, "CLOSE")
    /\ UNCHANGED <<ui, pwrQ, p, guard, kpc, kret, cause, lidReqs, ready>>

\* Opening the lid also wakes the device.
OpenLid ==
    /\ lid = "closed"
    /\ lid' = "open"
    /\ hallQ' = Push([i \in DOMAIN hallQ |-> IF hallQ[i] = "CLOSE" THEN "STALE" ELSE hallQ[i]],
                     "OPEN")
    /\ kpc' = IF kpc = "mem" THEN "resume" ELSE kpc
    /\ lidReqs' = 0
    /\ UNCHANGED <<ui, pwrQ, p, guard, kret, cause, ready>>

\* A power press; the one that wakes the device is delivered after resume.
PressPower ==
    /\ pwrQ' = Push(pwrQ, IF Awake THEN "user" ELSE "wake")
    /\ kpc' = IF kpc = "mem" THEN "resume" ELSE kpc
    /\ UNCHANGED <<ui, lid, hallQ, p, guard, kret, cause, lidReqs, ready>>

\* A volume key or the RTC wakes the device.
OtherWake ==
    /\ kpc = "mem"
    /\ kpc' = "resume"
    /\ UNCHANGED <<ui, lid, hallQ, pwrQ, p, guard, kret, cause, lidReqs, ready>>

\* nextui-session starts the frontend, or the frontend exits into a pak.
UiToggles ==
    /\ Awake
    /\ ui' = ~ui
    /\ UNCHANGED <<lid, hallQ, pwrQ, p, guard, kpc, kret, cause, lidReqs, ready>>

----------------------------------------------------------------------------

LidLoop == Top \/ Poll \/ ReadHall \/ ReadPower \/ Suspend \/ Resume
Device == ExpireGuard \/ CloseLid \/ OpenLid \/ PressPower \/ OtherWake
            \/ UiToggles

LidNext == LidLoop \/ Device

LidSpec == LidInit /\ [][LidNext]_lidVars

\* Each drain loop ends.
DrainsHall  == kpc = "hall" /\ ReadHall /\ kpc' = "pwr"
DrainsPower == kpc = "pwr" /\ ReadPower /\ kpc' = "top"

\* Nobody moves the lid or presses a key so fast that a drain loop never
\* finds its device empty.
QueuesRunDry ==
    /\ []<>(kpc = "hall" => hallQ = <<>>)
    /\ []<>(kpc = "pwr" => pwrQ = <<>>)

\* The daemon is scheduled and poll has a 300 ms timeout.
LidFairness ==
    WF_lidVars(LidLoop) /\ SF_lidVars(DrainsHall) /\ SF_lidVars(DrainsPower) /\ QueuesRunDry

----------------------------------------------------------------------------
(* Properties.                                                             *)

\* One closed period, at most one lid request by keylidmon: not a second one
\* from a queued close, a failed suspend, a wake by power or a return to the
\* menu and into another pak (lid_policy.h, 12-19).
LidRequestedOnce == lidReqs <= 1

\* The press that woke the device does not put it back to sleep, however
\* long the radios take to come back (zlyme-keylidmon.c, 171-182).
WakePressIgnored == cause # "wake"

\* busy is held exactly while do_mem_sleep runs, so no path through the loop
\* leaves suspend requests refused for good (lid_policy.h, 82-83 and 114).
BusyIsSleep == p.busy <=> kpc \in Sleeping

\* keylidmon asks for one suspend per closed period and for none by the press
\* that woke the device, and is busy only while it suspends.
SleepsWhenAsked == LidRequestedOnce /\ WakePressIgnored /\ BusyIsSleep

\* A served closed period ends once the lid is open, even when the open event
\* was lost or discarded, unless the device sleeps first (lid_policy.h, 14-15;
\* sync_owner).  Otherwise the next close would be ignored.
PeriodEnds == (p.asleep /\ lid = "open") ~> (~p.asleep \/ lid = "closed" \/ ~Awake)
=============================================================================
