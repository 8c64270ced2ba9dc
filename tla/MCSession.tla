----------------------------- MODULE MCSession -----------------------------
(* What runs beside a pak, each on its own: the waiter of its session, with *)
(* pids that are used again, the daemon of the lid and the power key, and   *)
(* the calls of zlyme-boot-write.                                           *)
EXTENDS PakSpawn, KeyLid, BootWrite

CONSTANTS W1, W2    \* the two callers of zlyme-boot-write

VARIABLE on         \* the one that runs

LidOff == /\ ui = FALSE /\ lid = "open" /\ hallQ = <<>> /\ pwrQ = <<>> /\ guard = FALSE
          /\ p = [menu_seen |-> FALSE, menu_owns |-> FALSE, in_pak |-> FALSE, lid_closed |-> FALSE,
                  asleep |-> FALSE, busy |-> FALSE]
          /\ kpc = "off" /\ ready = {} /\ kret = "poll" /\ cause = "none" /\ lidReqs = 0
SpawnOff == /\ proc = [q \in Pids |-> [st |-> "free", own |-> "out", gen |-> 0, sig |-> "none"]]
            /\ forks = 0 /\ young = {} /\ child = "off" /\ pc = "off" /\ at = "off" /\ pos = 0 /\ batch = {}
            /\ list = {} /\ fd = {} /\ bad = FALSE /\ polls = 0 /\ ret = "none" /\ leaderFile = FALSE
            /\ acked = FALSE /\ sent = FALSE /\ stop = FALSE /\ strays = {} /\ front = "off"

BootOff == mnt = "none" /\ Booted

SessionInit ==
    \/ on = "pak" /\ Init /\ LidOff /\ BootOff
    \/ on = "lid" /\ LidInit /\ SpawnOff /\ BootOff
    \/ on = "boot" /\ WriteInit /\ SpawnOff /\ LidOff

PakStep(step)  == on = "pak" /\ step /\ UNCHANGED <<on, lidVars, writeVars>>
LidStep(step)  == on = "lid" /\ step /\ UNCHANGED <<on, vars, writeVars>>
BootStep(step) == on = "boot" /\ step /\ UNCHANGED <<on, vars, lidVars>>

SessionNext == PakStep(Next) \/ LidStep(LidNext) \/ BootStep(WriteNext)

\* The fairness of PakSpawn, KeyLid and BootWrite.  Only one of them runs, so
\* one condition can stand for a process of each.
all == <<on, vars, lidVars, writeVars>>
SessionFairness ==
    /\ WF_all(PakStep(Waiter) \/ LidStep(LidLoop) \/ BootStep(Progress(W1)))
    /\ WF_all(PakStep(Child) \/ BootStep(Progress(W2)))
    /\ \A q \in Pids : WF_all(PakStep(proc[q].sig = "kill" /\ Die(q)))
    /\ SF_all(LidStep(DrainsHall) \/ BootStep(CommandEnds(W1)))
    /\ SF_all(LidStep(DrainsPower) \/ BootStep(CommandEnds(W2)))
    /\ QueuesRunDry
SessionSpec == SessionInit /\ [][SessionNext]_all /\ SessionFairness
=============================================================================
