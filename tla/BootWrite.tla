----------------------------- MODULE BootWrite -----------------------------
(***************************************************************************)
(* zlyme-boot-write: one write transaction against the boot vfat, then    *)
(* back to read-only.  Several invocations (init scripts, zlyme-update,    *)
(* zlyme-ctl, zlyme-preloader, nextui-session) run at the same time, may   *)
(* be signalled or SIGKILLed anywhere, may call each other by mistake, and *)
(* the remount they depend on may fail.                                    *)
(*                                                                         *)
(* The flock is on an open file description that the wrapped command       *)
(* inherits (exec 9>>LOCK), so it is held until the wrapper AND its        *)
(* command are gone.  /run and the mount flags do not survive a reboot.    *)
(***************************************************************************)
EXTENDS Naturals

CONSTANTS Writers,    \* invocation slots of zlyme-boot-write
          MaxPolls,   \* 0.2 s polls that fit in ZLYME_BOOT_WRITE_TIMEOUT
          NoWriter    \* "nobody"

ASSUME WritersAssumption  == NoWriter \notin Writers
ASSUME MaxPollsAssumption == MaxPolls \in Nat

VARIABLES
    mnt,       \* what is mounted on /boot: the primary card, another disk, nothing
    fat,       \* mount flag of /boot, "ro" or "rw"
    poison,    \* /run/zlyme-boot-write.poison exists
    owner,     \* invocation whose descriptor holds the flock
    sh,        \* where each wrapper shell is
    cmd,       \* the wrapped command: not started, running, finished
    inner,     \* the invocation a running command has itself called, if any
    waits,     \* failed polls of a waiting wrapper
    result,    \* last exit status of the slot
    dirty,     \* invocations whose writes are in the page cache only
    abandoned, \* history: a SIGKILL left /boot writable since it was last ro
    unmarked   \* history: the marker of a /boot left writable could not be made

writeVars == <<mnt, fat, poison, owner, sh, cmd, inner, waits, result, dirty, abandoned,
               unmarked>>

Mounts == {"boot", "other", "none"}
Results == {"none", "ok", "fail", "busy", "killed"}

\* The wrapper holds the flock itself.
Holding == {"locked", "checked", "opening", "opened", "cmd", "sync", "restore"}
\* INT, TERM and HUP still have their default action: trap '' has not run.
Catchable == {"try", "wait", "locked", "checked"}
Live == Holding \cup Catchable
ShellPCs == Live \cup {"idle", "orphan", "done"}

WriteTypeOK ==
    /\ mnt \in Mounts
    /\ fat \in {"ro", "rw"}
    /\ poison \in BOOLEAN
    /\ owner \in Writers \cup {NoWriter}
    /\ sh \in [Writers -> ShellPCs]
    /\ cmd \in [Writers -> {"none", "run", "ok", "fail"}]
    /\ inner \in [Writers -> Writers \cup {NoWriter}]
    /\ waits \in [Writers -> 0..MaxPolls]
    /\ result \in [Writers -> Results]
    /\ dirty \subseteq Writers
    /\ abandoned \in BOOLEAN
    /\ unmarked \in BOOLEAN

\* A booted system: initramfs hands /boot over read-only.
Booted ==
    /\ fat = "ro"
    /\ poison = FALSE
    /\ owner = NoWriter
    /\ sh = [w \in Writers |-> "idle"]
    /\ cmd = [w \in Writers |-> "none"]
    /\ inner = [w \in Writers |-> NoWriter]
    /\ waits = [w \in Writers |-> 0]
    /\ result = [w \in Writers |-> "none"]
    /\ dirty = {}
    /\ abandoned = FALSE
    /\ unmarked = FALSE

WriteInit == mnt \in Mounts /\ Booted

----------------------------------------------------------------------------
(* Exits.  The kernel drops the flock when the last holder is gone.        *)

\* The wrapper of w exits with status r; nothing of it is left running.
Exit(w, r) ==
    /\ sh' = [sh EXCEPT ![w] = "done"]
    /\ result' = [result EXCEPT ![w] = r]
    /\ owner' = IF owner = w THEN NoWriter ELSE owner

\* Mutant: the descriptor is closed on exec, so a SIGKILLed wrapper drops
\* the lock under its running command.
OrphanUnlocked(w) ==
    /\ sh' = [sh EXCEPT ![w] = "orphan"]
    /\ result' = [result EXCEPT ![w] = "killed"]
    /\ owner' = IF owner = w THEN NoWriter ELSE owner

\* The wrapper is gone but its command goes on, holding the inherited flock.
Orphan(w) ==
    /\ sh' = [sh EXCEPT ![w] = "orphan"]
    /\ result' = [result EXCEPT ![w] = "killed"]
    /\ UNCHANGED owner

----------------------------------------------------------------------------
(* The wrapper, in the order of the script.                                *)

\* Lines 110-118: a call; /boot not mounted is refused before the lock.
StartSlot(w) ==
    /\ sh[w] = "idle"
    /\ cmd' = [cmd EXCEPT ![w] = "none"]
    /\ waits' = [waits EXCEPT ![w] = 0]
    /\ IF mnt = "none"
         THEN Exit(w, "fail")
         ELSE /\ sh' = [sh EXCEPT ![w] = "try"]
              /\ result' = [result EXCEPT ![w] = "none"]
              /\ UNCHANGED owner
    /\ dirty' = dirty \ {w}
    /\ UNCHANGED <<mnt, fat, poison, abandoned, unmarked>>

Start(w) == StartSlot(w) /\ UNCHANGED inner

\* The caller collects the exit status.
TakeStatus(w) ==
    /\ sh[w] = "done"
    /\ \A v \in Writers : inner[v] # w
    /\ sh' = [sh EXCEPT ![w] = "idle"]
    /\ UNCHANGED <<mnt, fat, poison, owner, cmd, inner, waits, result, dirty, abandoned,
                   unmarked>>

TakeLock(w) ==
    /\ owner = NoWriter
    /\ owner' = w
    /\ sh' = [sh EXCEPT ![w] = "locked"]
    /\ UNCHANGED <<waits, result>>

\* Lines 84-97: the first flock -n; WAIT = 0 does not wait at all.
TryLock(w) ==
    /\ sh[w] = "try"
    /\ \/ TakeLock(w)
       \/ /\ owner # NoWriter
          /\ IF MaxPolls = 0
               THEN Exit(w, "busy")
               ELSE /\ sh' = [sh EXCEPT ![w] = "wait"]
                    /\ UNCHANGED <<owner, result>>
          /\ UNCHANGED waits
    /\ UNCHANGED <<mnt, fat, poison, cmd, inner, dirty, abandoned, unmarked>>

\* Mutant: the poll loop has no end time.
PollForever(w) ==
    /\ sh[w] = "wait"
    /\ \/ TakeLock(w)
       \/ /\ owner # NoWriter
          /\ waits' = [waits EXCEPT ![w] = IF @ < MaxPolls THEN @ + 1 ELSE @]
          /\ UNCHANGED <<sh, result, owner>>
    /\ UNCHANGED <<mnt, fat, poison, cmd, inner, dirty, abandoned, unmarked>>

\* Mutant: the end time is compared after one more poll than fits.
PollOnceMore(w) ==
    /\ sh[w] = "wait"
    /\ \/ TakeLock(w)
       \/ /\ owner # NoWriter
          /\ waits[w] <= MaxPolls
          /\ waits' = [waits EXCEPT ![w] = @ + 1]
          /\ UNCHANGED <<sh, result, owner>>
       \/ /\ owner # NoWriter
          /\ waits[w] > MaxPolls
          /\ Exit(w, "busy")
          /\ UNCHANGED waits
    /\ UNCHANGED <<mnt, fat, poison, cmd, inner, dirty, abandoned, unmarked>>

\* Lines 98-107: sleep 0.2, flock -n, give up once the end time is reached.
PollLock(w) ==
    /\ sh[w] = "wait"
    /\ \/ TakeLock(w)
       \/ /\ owner # NoWriter
          /\ waits[w] < MaxPolls
          /\ waits' = [waits EXCEPT ![w] = @ + 1]
          /\ UNCHANGED <<sh, result, owner>>
       \/ /\ owner # NoWriter
          /\ waits[w] = MaxPolls
          /\ Exit(w, "busy")
          /\ UNCHANGED waits
    /\ UNCHANGED <<mnt, fat, poison, cmd, inner, dirty, abandoned, unmarked>>

\* Mutant: the poison marker is not looked at.
CheckNoPoison(w) ==
    /\ sh[w] = "locked"
    /\ IF mnt # "boot"
         THEN Exit(w, "fail")
         ELSE /\ sh' = [sh EXCEPT ![w] = "checked"]
              /\ UNCHANGED <<owner, result>>
    /\ UNCHANGED <<mnt, fat, poison, cmd, inner, waits, dirty, abandoned, unmarked>>

\* Lines 122-132: the poison marker and the device behind /boot.
Check(w) ==
    /\ sh[w] = "locked"
    /\ IF poison \/ mnt # "boot"
         THEN Exit(w, "fail")
         ELSE /\ sh' = [sh EXCEPT ![w] = "checked"]
              /\ UNCHANGED <<owner, result>>
    /\ UNCHANGED <<mnt, fat, poison, cmd, inner, waits, dirty, abandoned, unmarked>>

\* mount -o remount,ro worked: it also writes the page cache back.
WentRo ==
    /\ fat' = "ro"
    /\ dirty' = {}
    /\ abandoned' = FALSE
    /\ unmarked' = FALSE
    /\ UNCHANGED poison

\* mark_poison: the marker is made, or /run takes no file and nothing says so.
MarkPoison ==
    \/ poison' = TRUE /\ UNCHANGED unmarked
    \/ unmarked' = TRUE /\ UNCHANGED poison

\* It did not, and is_ro said so.
StayedRw ==
    /\ MarkPoison
    /\ UNCHANGED <<fat, dirty, abandoned>>

\* Lines 134-139: an earlier SIGKILL may have left the volume writable.
CloseStale(w) ==
    /\ sh[w] = "checked"
    /\ \/ /\ fat = "ro"
          /\ sh' = [sh EXCEPT ![w] = "opening"]
          /\ UNCHANGED <<fat, poison, dirty, abandoned, unmarked, owner, result>>
       \/ /\ fat = "rw"
          /\ WentRo
          /\ sh' = [sh EXCEPT ![w] = "opening"]
          /\ UNCHANGED <<owner, result>>
       \/ /\ fat = "rw"
          /\ StayedRw
          /\ Exit(w, "fail")
    /\ UNCHANGED <<mnt, cmd, inner, waits>>

\* Lines 143-150: remount read-write; a failed one poisons when it is not ro.
OpenRw(w) ==
    /\ sh[w] = "opening"
    /\ \/ /\ fat' = "rw"
          /\ sh' = [sh EXCEPT ![w] = "opened"]
          /\ UNCHANGED <<poison, unmarked, owner, result>>
       \/ /\ fat' = "rw"
          /\ MarkPoison
          /\ Exit(w, "fail")
       \/ /\ Exit(w, "fail")
          /\ UNCHANGED <<fat, poison, unmarked>>
    /\ UNCHANGED <<mnt, cmd, inner, waits, dirty, abandoned>>

\* Line 152: the command runs in the foreground.
RunCommand(w) ==
    /\ sh[w] = "opened"
    /\ sh' = [sh EXCEPT ![w] = "cmd"]
    /\ cmd' = [cmd EXCEPT ![w] = "run"]
    /\ dirty' = dirty \cup {w}
    /\ UNCHANGED <<mnt, fat, poison, owner, inner, waits, result, abandoned, unmarked>>

\* Line 153: status=$?
CommandReturned(w) ==
    /\ sh[w] = "cmd"
    /\ cmd[w] \in {"ok", "fail"}
    /\ sh' = [sh EXCEPT ![w] = "sync"]
    /\ UNCHANGED <<mnt, fat, poison, owner, cmd, inner, waits, result, dirty, abandoned,
                   unmarked>>

\* Line 155.
Sync(w) ==
    /\ sh[w] = "sync"
    /\ sh' = [sh EXCEPT ![w] = "restore"]
    /\ dirty' = {}
    /\ UNCHANGED <<mnt, fat, poison, owner, cmd, inner, waits, result, abandoned, unmarked>>

\* Mutant: the status of the command is returned even when /boot stayed rw.
RestoreIgnored(w) ==
    /\ sh[w] = "restore"
    /\ \/ /\ WentRo
          /\ Exit(w, cmd[w])
       \/ /\ StayedRw
          /\ Exit(w, cmd[w])
    /\ UNCHANGED <<mnt, cmd, inner, waits>>

\* Lines 156-161: the status of the command only when /boot is ro again.
Restore(w) ==
    /\ sh[w] = "restore"
    /\ \/ /\ WentRo
          /\ Exit(w, cmd[w])
       \/ /\ StayedRw
          /\ Exit(w, "fail")
    /\ UNCHANGED <<mnt, cmd, inner, waits>>

----------------------------------------------------------------------------
(* The wrapped command.                                                    *)

\* The command ends; an orphan's end is also the end of its flock.
CommandEnds(w) ==
    /\ cmd[w] = "run"
    /\ inner[w] = NoWriter
    /\ \E s \in {"ok", "fail"} : cmd' = [cmd EXCEPT ![w] = s]
    /\ IF sh[w] = "orphan"
         THEN Exit(w, "killed")
         ELSE UNCHANGED <<sh, result, owner>>
    /\ UNCHANGED <<mnt, fat, poison, inner, waits, dirty, abandoned, unmarked>>

\* A command that calls zlyme-boot-write itself (the header forbids it).
Nest(w, v) ==
    /\ cmd[w] = "run"
    /\ inner[w] = NoWriter
    /\ \A u \in Writers : inner[u] # v
    /\ StartSlot(v)
    /\ inner' = [inner EXCEPT ![w] = v]

\* The inner call returned to the outer command.
InnerReturned(w) ==
    /\ inner[w] # NoWriter
    /\ sh[inner[w]] = "done"
    /\ sh' = [sh EXCEPT ![inner[w]] = "idle"]
    /\ inner' = [inner EXCEPT ![w] = NoWriter]
    /\ UNCHANGED <<mnt, fat, poison, owner, cmd, waits, result, dirty, abandoned,
                   unmarked>>

----------------------------------------------------------------------------
(* What happens to it from outside.                                        *)

\* Mutant: no trap, a signal ends the wrapper in the middle of the transaction.
SignalUntrapped(w) ==
    /\ sh[w] \in Live
    /\ IF cmd[w] = "run" THEN Orphan(w) ELSE Exit(w, "killed")
    /\ UNCHANGED <<mnt, fat, poison, cmd, inner, waits, dirty, abandoned, unmarked>>

\* INT, TERM or HUP before trap '' ends the wrapper; later ones are ignored.
Signal(w) ==
    /\ sh[w] \in Catchable
    /\ Exit(w, "killed")
    /\ UNCHANGED <<mnt, fat, poison, cmd, inner, waits, dirty, abandoned, unmarked>>

\* SIGKILL: the wrapper goes, a running command stays.
Kill(w) ==
    /\ sh[w] \in Live
    /\ IF cmd[w] = "run" THEN Orphan(w) ELSE Exit(w, "killed")
    /\ abandoned' = (abandoned \/ (owner = w /\ fat = "rw"))
    /\ UNCHANGED <<mnt, fat, poison, cmd, inner, waits, dirty, unmarked>>

\* Power loss or reboot: /run and every process are gone.
Reboot ==
    /\ mnt' \in Mounts
    /\ fat' = "ro"
    /\ poison' = FALSE
    /\ owner' = NoWriter
    /\ sh' = [w \in Writers |-> "idle"]
    /\ cmd' = [w \in Writers |-> "none"]
    /\ inner' = [w \in Writers |-> NoWriter]
    /\ waits' = [w \in Writers |-> 0]
    /\ result' = [w \in Writers |-> "none"]
    /\ dirty' = {}
    /\ abandoned' = FALSE
    /\ unmarked' = FALSE

----------------------------------------------------------------------------

\* The steps the scheduler keeps taking: the script and its command.
Progress(w) ==
    \/ TryLock(w) \/ PollLock(w) \/ Check(w) \/ CloseStale(w) \/ OpenRw(w)
    \/ RunCommand(w) \/ CommandReturned(w) \/ Sync(w) \/ Restore(w)
    \/ CommandEnds(w) \/ InnerReturned(w)

Step(w) ==
    \/ Progress(w) \/ Start(w) \/ TakeStatus(w) \/ Signal(w) \/ Kill(w)
    \/ \E v \in Writers : Nest(w, v)

WriteNext == (\E w \in Writers : Step(w)) \/ Reboot

WriteSpec == WriteInit /\ [][WriteNext]_writeVars

\* A runnable shell is scheduled.  The wrapped cp, rm or sh makes finitely
\* many nested calls and then returns, hence the strong fairness of its end.
WriteFairSpec ==
    /\ WriteSpec
    /\ \A w \in Writers : WF_writeVars(Progress(w)) /\ SF_writeVars(CommandEnds(w))

----------------------------------------------------------------------------
(* Properties.                                                             *)

\* A command only ever runs while its own transaction holds the flock and
\* /boot is writable: nobody closes the volume, or runs another command,
\* under it, SIGKILLed wrappers included (zlyme-boot-write, lines 120-161).
WritesAreOwned ==
    \A w \in Writers : cmd[w] = "run" => owner = w /\ fat = "rw"

\* /boot writable and no transaction open means that a marker refuses the
\* next one, that a SIGKILL is the reason, or that a call which failed could
\* not even make its marker (lines 74-76, 134-139, 145-150, 156-160).
NeverSilentlyWritable ==
    fat = "rw" /\ owner = NoWriter => poison \/ abandoned \/ unmarked

\* Once poisoned, /boot takes no new command until a reboot (lines 122-124).
NoneStarts == \A w \in Writers : poison /\ poison' => (cmd'[w] = "run" => cmd[w] = "run")
PoisonRefuses == [][NoneStarts]_writeVars

\* Status 0 is returned only with the data on the card and /boot read-only
\* at that moment (lines 152-161).
IsDurable ==
    \A w \in Writers : result[w] # "ok" /\ result'[w] = "ok"
                        => cmd[w] = "ok" /\ fat' = "ro" /\ w \notin dirty'
SuccessIsDurable == [][IsDurable]_writeVars

\* The strengthening that makes the two invariants above inductive: who may
\* hold the flock, what the volume is at each point of the script, and that
\* no transaction gets past the poison check with the marker set.
TransactionInv ==
    /\ \A w \in Writers : sh[w] \in Holding => owner = w
    /\ owner # NoWriter => sh[owner] \in Holding \cup {"orphan"}
    /\ \A w \in Writers : cmd[w] = "run" => sh[w] \in {"cmd", "orphan"}
    /\ \A w \in Writers :
         sh[w] = "orphan" => owner = w /\ cmd[w] = "run" /\ fat = "rw" /\ abandoned
    /\ \A w \in Writers :
         sh[w] \in {"opened", "cmd", "sync", "restore"} => fat = "rw"
    /\ \A w \in Writers : sh[w] = "opening" => fat = "ro"
    /\ \A w \in Writers :
         sh[w] \in {"checked", "opening", "opened", "cmd", "sync", "restore"} => ~poison
    /\ \A w \in Writers :
         sh[w] \in {"locked", "checked"} /\ fat = "rw" => poison \/ abandoned \/ unmarked

Inv == WriteTypeOK /\ TransactionInv /\ WritesAreOwned /\ NeverSilentlyWritable

\* Every call comes back, even one made from inside another call, which
\* waits for a lock its own caller holds (lines 5-6 and 97-107).
EveryCallReturns ==
    \A w \in Writers : sh[w] = "try" ~> sh[w] \in {"done", "idle"}

=============================================================================
