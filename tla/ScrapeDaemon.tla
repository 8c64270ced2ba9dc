---------------------------- MODULE ScrapeDaemon ----------------------------
(***************************************************************************)
(* Who owns ZcrapeGoat's queue (daemon.c, ui.c): the application, or the    *)
(* daemon it leaves behind on "Exit to Background".  They meet in files of  *)
(* one directory: queue.json, daemon.pid and daemon.control.  What happens  *)
(* inside one owner is ScrapeQueue; here an owner only works on items.      *)
(***************************************************************************)
EXTENDS Naturals

CONSTANTS
    Items,     \* items of the queue
    MaxKills,  \* bound: processes killed and power losses
    CardFaults \* subset of {"save", "full", "init", "read", "pid", "reuse"}

VARIABLES
    app,     \* where the application is
    appq,    \* its queue in memory
    dmn,     \* where the daemon is
    dq,      \* the daemon's queue in memory
    cmd,     \* the command it left its poll loop with
    dirty,   \* g_dirty of the daemon
    told,    \* what it has written to the ready pipe
    file,    \* queue.json
    pid,     \* daemon.pid: none, live, stale, or reused by another process
    control, \* daemon.control
    truth,   \* history: what has become of each item
    bg,      \* history: the queue was left behind and no application has it back
    unnamed, \* history: the daemon is not in daemon.pid, and an application opened beside it
    misread, \* history: what became of a queue that was on the card and could not be read
    saved,   \* history: every serialize_queue has succeeded
    kills    \* bound

appVars  == <<app, appq>>
dmnVars  == <<dmn, dq, cmd, dirty, told>>
seen     == <<unnamed, misread>>
history  == <<truth, bg, saved, kills, seen>>
ownerVars == <<appVars, dmnVars, file, pid, control, history>>

NoQueue  == [i \in {} |-> "idle"]
Torn     == [i \in {"torn"} |-> "idle"]
Finished == {"done", "skipped"}
Queue    == [Items -> {"idle", "busy"} \cup Finished]

OwnerTypeOK ==
    /\ app \in {"closed", "takeover", "status", "restore", "reclaim", "menu", "launch"}
    /\ dmn \in {"none", "boot", "load", "run", "final", "save", "unlock", "exit"}
    /\ appq \in Queue \cup {NoQueue} /\ dq \in Queue \cup {NoQueue}
    /\ file \in Queue \cup {NoQueue, Torn}
    /\ cmd \in {"none", "stop", "handoff"} /\ control \in {"none", "stop", "handoff"}
    /\ pid \in {"none", "live", "stale", "reused"}
    /\ told \in {"none", "ok", "fail"}
    /\ truth \in [Items -> {"todo"} \cup Finished]
    /\ unnamed \in {"no", "now", "beside"} /\ misread \in {"none", "kept", "lost"}
    /\ dirty \in BOOLEAN /\ bg \in BOOLEAN /\ saved \in BOOLEAN /\ kills \in 0..MaxKills

OwnerInit ==
    /\ app = "menu" /\ appq = [i \in Items |-> "idle"]
    /\ dmn = "none" /\ dq = NoQueue /\ cmd = "none" /\ dirty = FALSE /\ told = "none"
    /\ file = NoQueue /\ pid = "none" /\ control = "none"
    /\ truth = [i \in Items |-> "todo"]
    /\ bg = FALSE /\ saved = TRUE /\ kills = 0 /\ unnamed = "no" /\ misread = "none"

Pending(q)     == {i \in DOMAIN q : q[i] \notin Finished}
Requeued(q) == [i \in DOMAIN q |-> IF q[i] \in Finished THEN q[i] ELSE "idle"]
Cancelled(q)   == [i \in DOMAIN q |-> IF q[i] \in Finished THEN q[i] ELSE "skipped"]

\* serialize_queue: a new file renamed over the old one.  Its result is looked
\* at by daemon_launch only, and fputs is not checked before the rename.
serialize_queue(q) ==
    \E o \in {"ok"} \cup (CardFaults \cap {"save", "full"}) :
        /\ file' = CASE o = "ok" -> q [] o = "save" -> file [] o = "full" -> Torn
        /\ saved' = (saved /\ o = "ok")

\* deserialize_queue returns 0 for a file that is missing or does not parse.
Readable == file \notin {NoQueue, Torn}

\* What the file does not have finished is to be done again; a file that new
\* work was queued beside is of an older batch, of which it is the only word.
Redo == truth' = [i \in Items |-> IF file[i] \notin Finished THEN "todo"
                                  ELSE IF misread = "lost" THEN file[i] ELSE truth[i]]

\* daemon_is_running: any process that has the number in the file counts; a
\* file of a dead one, or without a number, is removed with the command file.
daemon_is_running == pid \in {"live", "reused"}
daemon_cleanup     == pid' = "none" /\ control' = "none"
daemon_cleanup_all == daemon_cleanup /\ file' = NoQueue

\* A daemon that the file does not name: not yet, or it could not be written.
Unseen == dmn = "boot" \/ (dmn # "none" /\ unnamed = "now")
NotRunning == /\ ~daemon_is_running
              /\ unnamed' = IF Unseen THEN "beside" ELSE unnamed
              /\ IF pid = "stale" THEN daemon_cleanup ELSE UNCHANGED <<pid, control>>

\* The control file is written anew, or not.
daemon_write_command(c) == control' \in {c} \cup IF "save" \in CardFaults THEN {control} ELSE {}

----------------------------------------------------------------------------
(* The application.                                                        *)

\* Mutant: the queue goes with the other files of a daemon that died.
OpenForgets ==
    /\ app = "closed"
    /\ appq' = NoQueue
    /\ \/ /\ daemon_is_running /\ app' = "takeover"
          /\ daemon_write_command("handoff") /\ UNCHANGED <<pid, unnamed, file>>
       \/ NotRunning /\ app' = "restore" /\ file' = IF pid = "stale" THEN NoQueue ELSE file
    /\ UNCHANGED <<dmnVars, truth, bg, saved, kills, misread>>

\* check_daemon_on_startup: ask a running daemon for the queue, or look for one.
AppOpen ==
    /\ app = "closed"
    /\ appq' = NoQueue
    /\ \/ /\ daemon_is_running /\ app' = "takeover"
          /\ daemon_write_command("handoff") /\ UNCHANGED <<pid, unnamed>>
       \/ NotRunning /\ app' = "restore"
    /\ UNCHANGED <<dmnVars, file, truth, bg, saved, kills, misread>>

\* Mutant: after ten seconds the queue is taken whether the daemon left or not.
TakesAnyway ==
    /\ app = "takeover"
    /\ app' = "reclaim"
    /\ UNCHANGED <<appq, dmnVars, file, pid, control, history>>

\* daemon_takeover_worker polls for ten seconds, then the status view is shown.
Takeover ==
    /\ app = "takeover"
    /\ \/ daemon_is_running /\ app' = "status" /\ UNCHANGED <<pid, control, unnamed>>
       \/ NotRunning /\ app' = "reclaim"
    /\ UNCHANGED <<appq, dmnVars, file, truth, bg, saved, kills, misread>>

\* daemon_on_stop in the status view.
StatusStop ==
    /\ app = "status"
    /\ daemon_write_command("stop")
    /\ UNCHANGED <<appVars, dmnVars, file, pid, history>>

\* The view is left: the queue is taken back, or the application gives up.
StatusLeave ==
    /\ app = "status"
    /\ \/ daemon_is_running /\ app' = "closed" /\ UNCHANGED <<pid, control, unnamed>>
       \/ NotRunning /\ app' = "reclaim"
    /\ UNCHANGED <<appq, dmnVars, file, truth, bg, saved, kills, misread>>

\* restore_daemon_queue: no memory, or a file that cannot be read, is no queue.
Restored == /\ Readable
            /\ appq' = Requeued(file) /\ daemon_cleanup_all /\ Redo
            /\ bg' = FALSE /\ misread' = "none"
NotRestored == /\ ~Readable \/ "read" \in CardFaults
               /\ UNCHANGED <<appq, bg, truth>>

\* When the application finds no daemon, the file stays for its next start.
Restore ==
    /\ app = "restore" /\ app' = "menu"
    /\ \/ Restored
       \/ /\ NotRestored /\ UNCHANGED <<file, pid, control>>
          /\ misread' = IF Readable /\ misread = "none" THEN "kept" ELSE misread
    /\ UNCHANGED <<dmnVars, saved, kills, unnamed>>

\* When it has waited for one, everything is removed, a good queue included.
Reclaim ==
    /\ app = "reclaim" /\ app' = "menu"
    /\ \/ Restored
       \/ /\ NotRestored /\ daemon_cleanup_all
          /\ misread' = IF Readable THEN "lost" ELSE misread
    /\ UNCHANGED <<dmnVars, saved, kills, unnamed>>

\* The user queues everything again once there is nothing left; a queue still
\* on the card will be written over.
AppQueue ==
    /\ app = "menu" /\ Pending(appq) = {}
    /\ appq' = [i \in Items |-> "idle"] /\ truth' = [i \in Items |-> "todo"]
    /\ misread' = IF misread = "kept" THEN "lost" ELSE misread
    /\ UNCHANGED <<app, dmnVars, file, pid, control, bg, saved, kills, unnamed>>

AppWork(i) ==
    /\ app = "menu" /\ i \in Pending(appq)
    /\ \/ appq[i] = "idle" /\ appq' = [appq EXCEPT ![i] = "busy"] /\ UNCHANGED truth
       \/ /\ appq[i] = "busy" /\ appq' = [appq EXCEPT ![i] = "done"]
          /\ truth' = [truth EXCEPT ![i] = "done"]
    /\ UNCHANGED <<app, dmnVars, file, pid, control, bg, saved, kills, seen>>

\* run_app, MAIN_QUIT with the queue empty, or cancelled.
AppQuit ==
    /\ app = "menu"
    /\ app' = "closed" /\ appq' = NoQueue
    /\ truth' = [i \in Items |-> IF i \in Pending(appq) THEN "skipped" ELSE truth[i]]
    /\ UNCHANGED <<dmnVars, file, pid, control, bg, saved, kills, seen>>

\* MAIN_QUIT to the background: queue_handoff_snapshot and daemon_launch up to
\* the fork; when the queue cannot be written the application takes it back.
\* Bound: beside a daemon that it does not see it launches no other.
AppBackground ==
    /\ app = "menu" /\ Pending(appq) # {} /\ dmn = "none"
    /\ appq' = Requeued(appq)
    /\ \/ /\ serialize_queue(Requeued(appq))
          /\ file' \in {Requeued(appq), Torn}
          /\ control' = "none" /\ UNCHANGED pid
          /\ app' = "launch" /\ dmn' = "boot" /\ told' = "none"
          /\ bg' = FALSE /\ misread' = "none"
          /\ unnamed' = IF unnamed = "now" THEN "no" ELSE unnamed
       \/ /\ "save" \in CardFaults /\ daemon_cleanup_all
          /\ UNCHANGED <<app, dmn, told, saved, bg, seen>>
    /\ UNCHANGED <<dq, cmd, dirty, truth, kills>>

\* daemon_launch has read the ready byte, or the end of the pipe.
Launched ==
    /\ app = "launch"
    /\ \/ /\ told = "ok"
          /\ app' = "closed" /\ appq' = NoQueue
          /\ UNCHANGED <<file, pid, control>>
       \/ /\ told = "fail" \/ (told = "none" /\ dmn = "none")
          /\ daemon_cleanup_all
          /\ app' = "menu" /\ UNCHANGED appq
    /\ UNCHANGED <<dmnVars, history>>

----------------------------------------------------------------------------
(* The daemon.                                                             *)

DaemonFails == dmn' = "none" /\ told' = "fail" /\ UNCHANGED <<dq, cmd, dirty>>

\* Another process may have the number when the pid file is read again, after
\* a power loss in particular: the boot gives out the same numbers.
KillDaemon == /\ dmn' = "none" /\ dq' = NoQueue /\ cmd' = "none" /\ dirty' = FALSE
              /\ IF pid = "live"
                 THEN pid' \in {"stale"} \cup IF "reuse" \in CardFaults THEN {"reused"} ELSE {}
                 ELSE UNCHANGED pid
              /\ UNCHANGED told

\* daemon_main: the lock and the pid file, which a failure leaves behind.  A
\* pid file that cannot be opened, or is left empty, is not noticed.
DaemonLock ==
    /\ dmn = "boot"
    /\ \/ /\ dmn' = "load"
          /\ \/ pid' = "live" /\ UNCHANGED unnamed
             \/ /\ "pid" \in CardFaults /\ pid' \in {pid, "stale"}
                /\ unnamed' = IF unnamed = "no" THEN "now" ELSE unnamed
          /\ UNCHANGED <<dq, cmd, dirty, told>>
       \/ "init" \in CardFaults /\ DaemonFails /\ UNCHANGED <<pid, unnamed>>
    /\ UNCHANGED <<appVars, file, control, truth, bg, saved, kills, misread>>

\* systems_init, deserialize_queue, queue_load_items, daemon_report_ready: the
\* byte kills the daemon (SIGPIPE) when the application does not wait for it.
DaemonLoad ==
    /\ dmn = "load"
    /\ \/ /\ Readable /\ app = "launch"
          /\ dmn' = "run" /\ dq' = Requeued(file) /\ dirty' = TRUE /\ told' = "ok"
          /\ bg' = TRUE /\ Redo /\ UNCHANGED <<cmd, pid>>
       \/ Readable /\ app # "launch" /\ KillDaemon /\ UNCHANGED <<bg, truth>>
       \/ /\ ~Readable \/ CardFaults \cap {"init", "read"} # {}
          /\ DaemonFails /\ UNCHANGED <<bg, truth>>
          /\ pid' = IF pid = "live" THEN "stale" ELSE pid
    /\ UNCHANGED <<appVars, file, control, saved, kills, seen>>

DaemonWork(i) ==
    /\ dmn \in {"run", "final"} /\ i \in Pending(dq)
    /\ \/ dq[i] = "idle" /\ dq' = [dq EXCEPT ![i] = "busy"] /\ UNCHANGED truth
       \/ /\ dq[i] = "busy" /\ dq' = [dq EXCEPT ![i] = "done"]
          /\ truth' = [truth EXCEPT ![i] = "done"]
    /\ dirty' = TRUE
    /\ UNCHANGED <<appVars, dmn, cmd, told, file, pid, control, bg, saved, kills, seen>>

\* The command file stays until the daemon has done what it says.
daemon_read_command == control

\* One round of the poll loop; SIGTERM counts as the stop command.
DaemonPoll ==
    /\ dmn = "run"
    /\ \/ /\ daemon_read_command # "none"
          /\ cmd' = daemon_read_command /\ dmn' = "final" /\ UNCHANGED <<dirty, file, saved>>
       \/ /\ daemon_read_command = "none" /\ Pending(dq) = {}
          /\ cmd' = "none" /\ dmn' = "final" /\ UNCHANGED <<dirty, file, saved>>
       \/ /\ daemon_read_command = "none" /\ Pending(dq) # {} /\ dirty
          /\ dirty' = FALSE /\ serialize_queue(dq) /\ UNCHANGED <<cmd, dmn>>
    /\ UNCHANGED <<appVars, dq, told, pid, control, truth, bg, kills, seen>>

DaemonTerm ==
    /\ dmn = "run"
    /\ cmd' = "stop" /\ dmn' = "final"
    /\ UNCHANGED <<appVars, dq, dirty, told, file, pid, control, history>>

\* queue_cancel_all or queue_handoff_snapshot: the workers are joined first.
DaemonCommand ==
    /\ dmn = "final" /\ dmn' = "save"
    /\ dq' = CASE cmd = "stop" -> Cancelled(dq)
               [] cmd = "handoff" -> Requeued(dq)
               [] OTHER -> dq
    /\ truth' = [i \in Items |-> IF cmd = "stop" /\ i \in Pending(dq) THEN "skipped" ELSE truth[i]]
    /\ UNCHANGED <<appVars, cmd, dirty, told, file, pid, control, bg, saved, kills, seen>>

DaemonSave ==
    /\ dmn = "save" /\ dmn' = "unlock"
    /\ serialize_queue(dq)
    /\ UNCHANGED <<appVars, dq, cmd, dirty, told, pid, control, truth, bg, kills, seen>>

\* The command file is removed and the lock released, then the pid file goes.
DaemonUnlock ==
    /\ dmn = "unlock" /\ dmn' = "exit"
    /\ control' = "none"
    /\ UNCHANGED <<appVars, dq, cmd, dirty, told, file, pid, history>>

\* Mutant: the daemon waits for a command before it leaves.
ExitOnCommand ==
    /\ dmn = "exit" /\ cmd # "none" /\ dmn' = "none"
    /\ pid' = "none" /\ dq' = NoQueue /\ cmd' = "none"
    /\ UNCHANGED <<appVars, dirty, told, file, control, history>>

DaemonExit ==
    /\ dmn = "exit" /\ dmn' = "none"
    /\ pid' = "none" /\ dq' = NoQueue /\ cmd' = "none"
    /\ UNCHANGED <<appVars, dirty, told, file, control, history>>

----------------------------------------------------------------------------
(* Faults.                                                                 *)

\* The daemon is killed; the pid file stays.
DaemonKilled ==
    /\ dmn # "none" /\ kills < MaxKills /\ kills' = kills + 1
    /\ KillDaemon
    /\ UNCHANGED <<appVars, file, control, truth, bg, saved, seen>>

\* The application is killed, alone or by a power loss.  While it launches a
\* daemon the queue is already on the card, and nobody else has it.
AppKilled ==
    /\ app # "closed" /\ kills < MaxKills /\ kills' = kills + 1
    /\ app' = "closed" /\ appq' = NoQueue
    /\ KillDaemon \/ UNCHANGED <<dmnVars, pid>>
    /\ bg' = (bg \/ app = "launch")
    /\ UNCHANGED <<file, control, truth, saved, seen>>

----------------------------------------------------------------------------

AppStep == Takeover \/ StatusLeave \/ Restore \/ Reclaim \/ Launched
DaemonStep == \/ DaemonLock \/ DaemonLoad \/ DaemonPoll \/ DaemonCommand \/ DaemonSave
              \/ DaemonUnlock \/ DaemonExit \/ \E i \in Items : DaemonWork(i)

OwnerNext == AppStep \/ DaemonStep \/ AppOpen \/ StatusStop \/ AppQueue \/ AppQuit \/ AppBackground
          \/ (\E i \in Items : AppWork(i)) \/ DaemonTerm \/ DaemonKilled \/ AppKilled

\* Both processes are scheduled, and the user opens the application again.
OwnerSpec == /\ OwnerInit /\ [][OwnerNext]_ownerVars
             /\ WF_ownerVars(AppStep) /\ WF_ownerVars(DaemonStep) /\ WF_ownerVars(AppOpen)

----------------------------------------------------------------------------
(* Properties.                                                             *)

\* The queue is worked on by one process: an application that is past its start
\* never runs beside a daemon (the pid file goes last, after the lock), but one
\* that was opened while the pid file did not name the daemon: before it was
\* written, or because that failed, which daemon_main ignores.
OneOwner == app = "menu" => dmn = "none" \/ unnamed = "beside"

\* From the daemon's ready byte, or the death of the application that waits for
\* it, to the next restore the queue is on the card whatever is killed, no
\* unfinished item is recorded as finished, and once the daemon gives up the
\* lock (README: it "writes a final queue snapshot and exits") the file says
\* what became of every item.  Excepted is a queue that could not be read when
\* it was to be taken back, which check_daemon_on_startup removes, or which new
\* work was queued beside; and what follows on two owners.
QueueOnCard ==
    bg /\ misread # "lost" =>
        /\ Readable
        /\ \A i \in Items : file[i] \in Finished => truth[i] \in Finished
FinalSnapshot ==
    dmn \in {"unlock", "exit"} /\ saved =>
        \A i \in Items : IF truth[i] = "todo" THEN file[i] = "idle" ELSE file[i] = truth[i]
BackgroundSurvives == unnamed # "beside" => QueueOnCard /\ FinalSnapshot

\* README: "On relaunch, the foreground app requests ownership back ... and
\* ScrapeGoat resumes the same queue locally": background work comes back to
\* the application, unless its file could not be read.
Reopens == bg ~> ~bg \/ misread # "none"

============================================================================
