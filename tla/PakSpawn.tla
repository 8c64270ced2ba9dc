------------------------------ MODULE PakSpawn ------------------------------
(***************************************************************************)
(* zlyme-pak-spawn: run one pak in a session of its own and return to      *)
(* nextui-session only when that session has no process left, or with 125 *)
(* when this cannot be shown.  Processes fork, exit, leave the session and *)
(* are replaced by others with the same pid while /proc is being read: its *)
(* entries in batches, and then the stat of each.  zlyme-pak-hotkey       *)
(* (MENU+START) and a nextui-session that gave up waiting for the leader   *)
(* file send one SIGTERM.                                                  *)
(***************************************************************************)
EXTENDS Naturals, FiniteSets

CONSTANTS
    MaxPid,     \* pids 1..MaxPid; the pak's leader is 1
    MaxForks,   \* processes created after the leader
    TermPolls,  \* TERM_POLLS
    KillPolls,  \* KILL_POLLS
    PidsWrap,   \* a free pid may be used again
    Batch,      \* entries of /proc that one getdents64 of readdir returns
    Faults      \* subset of {"proc", "publish", "child"}

ASSUME PidsAssumption  == MaxPid \in Nat \ {0} /\ MaxForks \in Nat
ASSUME PollsAssumption == TermPolls \in Nat \ {0} /\ KillPolls \in Nat \ {0}
ASSUME BatchAssumption == Batch \in Nat \ {0}
ASSUME EnvAssumption   == PidsWrap \in BOOLEAN /\ Faults \subseteq {"proc", "publish", "child"}

VARIABLES
    proc,   \* proc[p]: what the pid p stands for at present
    forks,  \* processes created so far
    young,  \* history: pids forked in the session since the last opendir of /proc
    child,  \* the leader before exec: "new", "sid", "told", "exec"
    pc,     \* where the waiter is
    at,     \* where it is inside collect_members and signal_session
    pos,    \* the pid getdents64 looks at next
    batch,  \* pids it returned whose stat has not been read yet
    list,   \* processes collected and not signalled yet
    fd,     \* the one a pidfd is open for
    bad,    \* signal_session could not signal one of them
    polls,  \* polls of the running wait loop
    ret,    \* the status to return once the session is empty
    leaderFile, acked,
    sent,   \* the SIGTERM was sent
    stop,   \* stop_requested
    strays, \* history: processes outside the pak that were signalled
    front   \* nextui-session: waiting for us, frontend running, or stopped

procVars == <<proc, forks, young>>
callVars == <<at, pos, batch, list, fd, bad>>
vars == <<procVars, child, pc, callVars, polls, ret, leaderFile, acked, sent, stop, strays, front>>

Pids     == 1..MaxPid
Leader   == 1
Instance == Pids \X (0..MaxForks + 1)
NoFd     == {}

\* own: in the pak's session, has left it by setsid, never was in it.
Process == [st : {"free", "live", "zombie"}, own : {"pak", "left", "out"},
            gen : 0..MaxForks + 1, sig : {"none", "term", "kill"}]

ScanPCs   == {"r_first", "r_term", "r_kill"}
SignalPCs == {"r_sigterm", "r_sigkill", "s_term", "s_kill"}
HandPCs   == {"h_wait", "h_term", "h_termwait", "h_kill", "h_killwait"}
PCs == ScanPCs \cup SignalPCs \cup HandPCs
         \cup {"handshake", "publish", "ack", "loop", "call", "waitpid",
               "s_termwait", "s_killleader", "s_killwait", "exit"}
Codes == {"none", "status", "term", "early", "sigpipe", "failed"}

TypeOK ==
    /\ proc \in [Pids -> Process]
    /\ forks \in 0..MaxForks
    /\ young \subseteq Pids
    /\ child \in {"new", "sid", "told", "exec"}
    /\ pc \in PCs
    /\ at \in {"enter", "lead", "collect", "dents", "scan", "sig"}
    /\ pos \in 1..MaxPid + 1
    /\ batch \subseteq Pids
    /\ list \subseteq Instance
    /\ fd \in {NoFd} \cup {{i} : i \in Instance}
    /\ bad \in BOOLEAN
    /\ polls \in Nat /\ (polls < TermPolls \/ polls < KillPolls)
    /\ ret \in Codes
    /\ leaderFile \in BOOLEAN /\ acked \in BOOLEAN
    /\ sent \in BOOLEAN /\ stop \in BOOLEAN
    /\ strays \subseteq Pids
    /\ front \in {"waiting", "running", "stopped"}

Free == [st |-> "free", own |-> "out", gen |-> 0, sig |-> "none"]

\* fork() has returned in the waiter; the child has not run yet.
Init ==
    /\ proc = [p \in Pids |->
                 IF p = Leader THEN [Free EXCEPT !.st = "live", !.own = "left", !.gen = 1] ELSE Free]
    /\ forks = 0 /\ young = {}
    /\ child = "new"
    /\ pc = "handshake"
    /\ at = "enter" /\ pos = 1 /\ batch = {} /\ list = {} /\ fd = NoFd /\ bad = FALSE
    /\ polls = 0
    /\ ret = "none"
    /\ leaderFile = FALSE /\ acked = FALSE
    /\ sent = FALSE /\ stop = FALSE
    /\ strays = {}
    /\ front = "waiting"

Alive(p)  == proc[p].st = "live"
InPak(p)  == Alive(p) /\ proc[p].own = "pak"
PakLives  == \E p \in Pids : InPak(p)

\* The leader's process, by pid and start time: not a later user of the pid.
LeaderUnreaped == proc[Leader].st # "free" /\ proc[Leader].gen = 1

----------------------------------------------------------------------------
(* The processes (external: the kernel and the pak).                       *)

\* A pid for a new process.  A pid that names a session still in use is not
\* given out, and without wrap-around pids only grow.
Fresh(q) ==
    /\ proc[q].st = "free"
    /\ q = Leader => \A p \in Pids : proc[p].st # "free" => proc[p].own # "pak"
    /\ ~PidsWrap => \A p \in Pids : p >= q => proc[p].gen = 0

Spawned(q, whose) ==
    /\ forks < MaxForks
    /\ forks' = forks + 1
    /\ Fresh(q)
    /\ proc' = [proc EXCEPT ![q] = [st |-> "live", own |-> whose,
                                    gen |-> proc[q].gen + 1, sig |-> "none"]]

Others == <<pc, callVars, polls, ret, leaderFile, acked, sent, stop, strays, front>>

\* A killed process forks no more.
Fork(p, q) ==
    /\ InPak(p) /\ proc[p].sig # "kill"
    /\ p = Leader /\ LeaderUnreaped => child = "exec"
    /\ Spawned(q, "pak")
    /\ young' = young \cup {q}
    /\ UNCHANGED <<child, Others>>

ForeignFork(q) == Spawned(q, "out") /\ UNCHANGED <<young, child, Others>>

\* setsid by a member: it leaves on purpose.
Leave(p) ==
    /\ p # Leader /\ InPak(p)
    /\ proc' = [proc EXCEPT ![p].own = "left"]
    /\ UNCHANGED <<forks, young, child, Others>>

\* A process ends by itself or by a signal; with the fault "child" also the
\* leader before exec.
Die(p) ==
    /\ Alive(p)
    /\ p = Leader /\ LeaderUnreaped =>
         child = "exec" \/ proc[p].sig # "none" \/ "child" \in Faults
    /\ proc' = [proc EXCEPT ![p].st = "zombie"]
    /\ UNCHANGED <<forks, young, child, Others>>

\* init or the parent collects it; the leader is the waiter's to collect.
Collected(p) ==
    /\ proc[p].st = "zombie"
    /\ p = Leader /\ LeaderUnreaped => pc = "exit"
    /\ proc' = [proc EXCEPT ![p] = [Free EXCEPT !.gen = proc[p].gen]]
    /\ UNCHANGED <<forks, young, child, Others>>

----------------------------------------------------------------------------
(* The child between fork and exec.                                        *)

LeaderPreExec == Alive(Leader) /\ LeaderUnreaped /\ proc[Leader].sig # "kill"

ChildExits == proc' = [proc EXCEPT ![Leader].st = "zombie"] /\ UNCHANGED child

\* setsid and the read of its own start time, or _exit(127).
ChildSetsid ==
    /\ child = "new" /\ LeaderPreExec
    /\ \/ proc' = [proc EXCEPT ![Leader].own = "pak"] /\ child' = "sid"
       \/ "child" \in Faults /\ ChildExits
    /\ UNCHANGED <<forks, young, Others>>

\* write(fds[1]).
ChildTells ==
    /\ child = "sid" /\ LeaderPreExec
    /\ child' = "told"
    /\ UNCHANGED <<procVars, Others>>

AckClosed == ~acked /\ pc \notin {"handshake", "publish", "ack"}

\* read(ack[0]): a byte, then exec; or end of file.
ChildReleased ==
    /\ child = "told" /\ LeaderPreExec
    /\ \/ acked /\ child' = "exec" /\ UNCHANGED proc
       \/ AckClosed /\ ChildExits
    /\ UNCHANGED <<forks, young, Others>>

----------------------------------------------------------------------------
(* The waiter: handshake and publication.                                  *)

Goto(to) == pc' = to /\ at' = "enter" /\ polls' = 0
Quiet == UNCHANGED <<pos, batch, list, fd, bad>>

Return(code) == Goto("exit") /\ ret' = code

\* read(fds[0]): the identity, end of file, or EINTR.
Handshake ==
    /\ pc = "handshake"
    /\ \/ child = "told" /\ Goto("publish")
       \/ child # "told" /\ ~Alive(Leader) /\ Goto("h_wait")
       \/ child # "told" /\ stop /\ Goto("h_wait")
    /\ Quiet
    /\ UNCHANGED <<procVars, child, ret, leaderFile, acked, sent, stop, strays, front>>

\* waitpid has got the leader's status.
Reap == proc' = [proc EXCEPT ![Leader] = [Free EXCEPT !.gen = proc[Leader].gen]]
LeaderIsZombie == LeaderUnreaped /\ proc[Leader].st = "zombie"

\* wait_child_bounded: got it, one more poll, or the polls are used up.
WaitChild(bound, got, over) ==
    \/ /\ LeaderIsZombie
       /\ Reap
       /\ got
    \/ /\ ~LeaderIsZombie
       /\ polls + 1 < bound
       /\ polls' = polls + 1
       /\ UNCHANGED <<proc, pc, at, ret>>
    \/ /\ ~LeaderIsZombie
       /\ polls + 1 >= bound
       /\ over
       /\ UNCHANGED proc

KillLeader(sig) ==
    proc' = [proc EXCEPT ![Leader].sig = IF Alive(Leader) THEN sig ELSE @]

\* The failed handshake: stop_child_bounded by number, on a child that was
\* not collected and so still has its pid.
FailedHandshake ==
    LET early == Return("early") IN
    /\ \/ pc = "h_wait" /\ WaitChild(1, early, Goto("h_term") /\ UNCHANGED ret)
       \/ pc = "h_term" /\ KillLeader("term") /\ Goto("h_termwait") /\ UNCHANGED ret
       \/ pc = "h_termwait" /\ WaitChild(TermPolls, early, Goto("h_kill") /\ UNCHANGED ret)
       \/ pc = "h_kill" /\ KillLeader("kill") /\ Goto("h_killwait") /\ UNCHANGED ret
       \/ pc = "h_killwait" /\ WaitChild(KillPolls, early, Return("failed"))
    /\ Quiet
    /\ UNCHANGED <<forks, young, child, leaderFile, acked, sent, stop, strays, front>>

\* write_leader: the temporary file is renamed over the leader file.
Publish ==
    /\ pc = "publish"
    /\ \/ leaderFile' = TRUE /\ Goto("ack") /\ UNCHANGED ret
       \/ "publish" \in Faults /\ Goto("s_term") /\ ret' = "early" /\ UNCHANGED leaderFile
    /\ Quiet
    /\ UNCHANGED <<procVars, child, acked, sent, stop, strays, front>>

\* write(ack[1]): SIGPIPE ends the waiter when the child is already gone.
Ack ==
    /\ pc = "ack"
    /\ IF Alive(Leader)
         THEN acked' = TRUE /\ Goto("loop") /\ UNCHANGED ret
         ELSE Return("sigpipe") /\ UNCHANGED acked
    /\ Quiet
    /\ UNCHANGED <<procVars, child, leaderFile, sent, stop, strays, front>>

----------------------------------------------------------------------------
(* The wait loop of main and stop_session_bounded.                         *)

\* if (stop_requested): tested before waitpid is called,
Loop ==
    /\ pc = "loop"
    /\ IF stop THEN Goto("s_term") /\ ret' = "term" ELSE Goto("call") /\ UNCHANGED ret
    /\ Quiet
    /\ UNCHANGED <<procVars, child, leaderFile, acked, sent, stop, strays, front>>

\* and then waitpid blocks.
CallWaitpid ==
    /\ pc = "call"
    /\ Goto("waitpid")
    /\ Quiet
    /\ UNCHANGED <<procVars, child, ret, leaderFile, acked, sent, stop, strays, front>>

\* waitpid without WNOHANG.
Waitpid ==
    /\ pc = "waitpid"
    /\ LeaderIsZombie
    /\ Reap
    /\ Goto("r_first")
    /\ ret' = "status"
    /\ Quiet
    /\ UNCHANGED <<forks, young, child, leaderFile, acked, sent, stop, strays, front>>

\* Between the two signal_session calls and after them.
StopWaits ==
    LET reap == Goto("r_first") /\ UNCHANGED ret IN
    /\ \/ pc = "s_termwait" /\ WaitChild(TermPolls, reap, Goto("s_kill") /\ UNCHANGED ret)
       \/ pc = "s_killleader" /\ KillLeader("kill") /\ Goto("s_killwait") /\ UNCHANGED ret
       \/ pc = "s_killwait" /\ WaitChild(KillPolls, reap, Return("failed"))
    /\ Quiet
    /\ UNCHANGED <<forks, young, child, leaderFile, acked, sent, stop, strays, front>>

----------------------------------------------------------------------------
(* collect_members and signal_session.                                     *)

\* leader_session_state: 1 live, 0 gone or zombie, 2 stands for -1.
LeaderState ==
    CASE proc[Leader].st = "free"      -> 0
      [] proc[Leader].gen # 1          -> 2
      [] proc[Leader].st = "zombie"    -> 0
      [] proc[Leader].own # "pak"      -> 2
      [] OTHER                         -> 1

\* What it may return now: an unreadable /proc is -1 as well.
LeaderStates == {LeaderState} \cup (IF "proc" \in Faults THEN {2} ELSE {})

\* Mutant: the loop only ends when the session is empty.
BusyPollForever(bound, over) == at' = "enter" /\ UNCHANGED <<polls, pc, ret>>

\* One more poll of a loop of reap_session, or its end.
BusyPoll(bound, over) ==
    IF polls + 1 < bound
      THEN polls' = polls + 1 /\ at' = "enter" /\ UNCHANGED <<pc, ret>>
      ELSE over

\* session_busy has answered.
BusyResult(res) ==
    CASE res = "error" -> Return("failed")
      [] res = "empty" -> Return(ret)
      [] res = "busy"  ->
           \/ pc = "r_first" /\ Goto("r_sigterm") /\ UNCHANGED ret
           \/ pc = "r_term" /\ BusyPoll(TermPolls, Goto("r_sigkill") /\ UNCHANGED ret)
           \/ pc = "r_kill" /\ BusyPoll(KillPolls, Return("failed"))

\* signal_session has returned; stop_session_bounded only logs an error.
SignalResult(ok) ==
    \/ pc = "s_term" /\ Goto("s_termwait") /\ UNCHANGED ret
    \/ pc = "s_kill" /\ Goto("s_killleader") /\ UNCHANGED ret
    \/ pc = "r_sigterm" /\ ok /\ Goto("r_term") /\ UNCHANGED ret
    \/ pc = "r_sigkill" /\ ok /\ Goto("r_kill") /\ UNCHANGED ret
    \/ pc \in {"r_sigterm", "r_sigkill"} /\ ~ok /\ Return("failed")

\* Nothing of collect_members or signal_session is left.
CallOver == pos' = 1 /\ batch' = {} /\ list' = {} /\ fd' = NoFd /\ bad' = FALSE

CallFailed ==
    /\ IF pc \in ScanPCs THEN BusyResult("error") ELSE SignalResult(FALSE)
    /\ CallOver

Rest == <<procVars, child, leaderFile, acked, sent, stop, strays, front>>

\* signal_session begins with the leader; session_busy with the scan.
Enter ==
    /\ pc \in ScanPCs \cup SignalPCs /\ at = "enter"
    /\ \/ pc \in ScanPCs /\ at' = "collect" /\ list' = {} /\ UNCHANGED <<pc, polls, ret, pos, batch, fd, bad>>
       \/ /\ pc \in SignalPCs
          /\ \E s \in LeaderStates :
               \/ s = 2 /\ CallFailed
               \/ s = 1 /\ at' = "lead" /\ list' = {<<Leader, 1>>}
                    /\ UNCHANGED <<pc, polls, ret, pos, batch, fd, bad>>
               \/ s = 0 /\ at' = "collect" /\ list' = {}
                    /\ UNCHANGED <<pc, polls, ret, pos, batch, fd, bad>>
    /\ UNCHANGED Rest

\* The leader is looked at, then /proc is opened.
Collect ==
    /\ at = "collect"
    /\ \E s \in LeaderStates :
         \/ s = 2 /\ CallFailed /\ UNCHANGED young
         \/ s # 2 /\ at' = "dents" /\ pos' = 1 /\ batch' = {} /\ list' = {} /\ young' = {}
              /\ UNCHANGED <<pc, polls, ret, fd, bad>>
    /\ UNCHANGED <<proc, forks, child, leaderFile, acked, sent, stop, strays, front>>

\* getdents64 looks at one pid after the other, zombies included, until the
\* buffer is full or there are no more.
GetDents ==
    /\ at = "dents" /\ pos <= MaxPid
    /\ \/ /\ pos' = pos + 1
          /\ batch' = IF proc[pos].st # "free" THEN batch \cup {pos} ELSE batch
          /\ at' = IF pos = MaxPid \/ Cardinality(batch') >= Batch THEN "scan" ELSE "dents"
          /\ UNCHANGED <<pc, polls, ret, list, fd, bad>>
       \/ "proc" \in Faults /\ CallFailed
    /\ UNCHANGED Rest

\* readdir returns the next entry of the batch, whose stat is read only now:
\* live members of the session count.
ReadStat ==
    /\ at = "scan" /\ batch # {}
    /\ \/ \E p \in batch :
            /\ \A q \in batch : p <= q
            /\ batch' = batch \ {p}
            /\ list' = IF p # Leader /\ InPak(p) THEN list \cup {<<p, proc[p].gen>>} ELSE list
            /\ at' = IF batch' = {} /\ pos <= MaxPid THEN "dents" ELSE "scan"
            /\ UNCHANGED <<pc, polls, ret, pos, fd, bad>>
       \/ "proc" \in Faults /\ CallFailed
    /\ UNCHANGED Rest

\* Mutant: what the scan found is signalled once and taken for gone.
ScanEndEmpty ==
    /\ at = "scan" /\ batch = {}
    /\ IF pc \in ScanPCs
         THEN BusyResult(IF pc = "r_first" /\ list # {} THEN "busy" ELSE "empty") /\ CallOver
         ELSE at' = "sig" /\ UNCHANGED <<pc, polls, ret, pos, batch, list, fd, bad>>
    /\ UNCHANGED Rest

\* The end of the directory, and the leader once more.
ScanEnd ==
    /\ at = "scan" /\ batch = {}
    /\ \E s \in LeaderStates :
         \/ s = 2 /\ CallFailed
         \/ /\ s # 2 /\ pc \in ScanPCs
            /\ BusyResult(IF list = {} THEN "empty" ELSE "busy")
            /\ CallOver
         \/ /\ s # 2 /\ pc \in SignalPCs
            /\ at' = "sig"
            /\ UNCHANGED <<pc, polls, ret, pos, batch, list, fd, bad>>
    /\ UNCHANGED Rest

SameProcess(i) == InPak(i[1]) /\ proc[i[1]].gen = i[2]
TheSignal == IF pc \in {"s_term", "r_sigterm"} THEN "term" ELSE "kill"

\* signal_verified: still the same process, so a pidfd is opened for it.
OpenPidfd ==
    /\ at \in {"lead", "sig"} /\ fd = NoFd
    /\ \E i \in list :
         \/ SameProcess(i) /\ fd' = {i} /\ UNCHANGED <<list, bad>>
         \/ ~SameProcess(i) /\ list' = list \ {i} /\ UNCHANGED <<fd, bad>>
         \/ "proc" \in Faults /\ list' = list \ {i} /\ bad' = TRUE /\ UNCHANGED fd
    /\ UNCHANGED <<pc, at, pos, batch, polls, ret, Rest>>

\* The signal reaches whoever has the pid.
Hit(p) ==
    /\ proc' = [proc EXCEPT ![p].sig = IF @ = "kill" THEN @ ELSE TheSignal]
    /\ strays' = IF proc[p].own = "out" THEN strays \cup {p} ELSE strays

\* Mutant: kill(pid) by number, on what was read before.
SendSignalByPid ==
    /\ fd # NoFd
    /\ \E i \in fd :
         /\ IF Alive(i[1]) THEN Hit(i[1]) ELSE UNCHANGED <<proc, strays>>
         /\ list' = list \ {i}
    /\ fd' = NoFd
    /\ UNCHANGED <<pc, at, pos, batch, bad, polls, ret, forks, young, child, leaderFile, acked, sent,
                   stop, front>>

\* Read again with the pidfd open, then pidfd_send_signal.
SendSignal ==
    /\ fd # NoFd
    /\ \E i \in fd :
         /\ IF SameProcess(i) THEN Hit(i[1]) ELSE UNCHANGED <<proc, strays>>
         /\ list' = list \ {i}
    /\ fd' = NoFd
    /\ UNCHANGED <<pc, at, pos, batch, bad, polls, ret, forks, young, child, leaderFile, acked, sent,
                   stop, front>>

\* All of them are done.
SignalsSent ==
    /\ at \in {"lead", "sig"} /\ list = {} /\ fd = NoFd
    /\ IF at = "lead"
         THEN at' = "collect" /\ UNCHANGED <<pc, polls, ret, pos, batch, list, fd, bad>>
         ELSE SignalResult(~bad) /\ CallOver
    /\ UNCHANGED Rest

----------------------------------------------------------------------------
(* nextui-session and zlyme-pak-hotkey.                                    *)

\* One SIGTERM: the hotkey's, which then exits, or reject_pak_spawn's after
\* 50 looks at the leader file.  It interrupts a blocking call only.
Terminate ==
    /\ ~sent /\ pc # "exit"
    /\ sent' = TRUE
    /\ stop' = TRUE
    /\ pc' = IF pc = "waitpid" THEN "loop" ELSE pc
    /\ UNCHANGED <<procVars, child, callVars, polls, ret, leaderFile, acked, strays, front>>

\* wait in run_pak_cmd, then pak_cleanup_failed.
CollectStatus ==
    /\ pc = "exit" /\ front = "waiting"
    /\ front' = IF ret = "failed" THEN "stopped" ELSE "running"
    /\ UNCHANGED <<procVars, child, pc, callVars, polls, ret, leaderFile, acked, sent, stop, strays>>

----------------------------------------------------------------------------

Waiter ==
    \/ Handshake \/ FailedHandshake \/ Publish \/ Ack \/ Loop \/ CallWaitpid \/ Waitpid \/ StopWaits
    \/ Enter \/ Collect \/ GetDents \/ ReadStat \/ ScanEnd \/ OpenPidfd \/ SendSignal \/ SignalsSent
    \/ CollectStatus

Child == ChildSetsid \/ ChildTells \/ ChildReleased

Processes ==
    \/ \E p, q \in Pids : Fork(p, q)
    \/ \E q \in Pids : ForeignFork(q)
    \/ \E p \in Pids : Leave(p) \/ Die(p) \/ Collected(p)

Next == Waiter \/ Child \/ Processes \/ Terminate

Spec == Init /\ [][Next]_vars

\* The waiter and the child are scheduled, a process that was sent SIGKILL
\* ends, and so does a child signalled before exec; a pak need not.
FairSpec ==
    /\ Spec
    /\ WF_vars(Waiter) /\ WF_vars(Child)
    /\ \A p \in Pids : WF_vars(proc[p].sig = "kill" /\ Die(p))

----------------------------------------------------------------------------
(* Properties.                                                             *)

\* No signal reaches a process that was never in the pak's session, whatever
\* pids are used again between /proc and the signal (signal_verified).
NoStraySignal == strays = {}

\* The pak runs only after its identity is in the leader file, so a hotkey
\* and a cleanup can always find it (main, ack pipe).
ExecAfterPublish == child = "exec" => leaderFile

\* And when the frontend is started nobody is left of the session who lived
\* when /proc was opened for the last time, whatever pids are used again and
\* whoever forks, dies or leaves during the scan (reap_session; nextui-session:
\* "do not start another KMS client against an unresolved game").
FrontendAlone ==
    ExecAfterPublish /\ (front = "running" => \A p \in Pids : InPak(p) => p \in young)

\* "Do not exit while that session still has a process" (1-3).  Violated: a
\* member forked when its batch of /proc was already read is not seen, and its
\* parent is gone when its own stat is read.
NobodyLeft == front = "running" => ~PakLives

\* Once the leader is gone, or a stop was seen, the waiter returns, however
\* the members behave: polls are bounded and end in 125 (reap_session,
\* stop_session_bounded).
WaiterReturns ==
    (pc = "loop" /\ stop) \/ (pc = "waitpid" /\ LeaderIsZombie) ~> pc = "exit"

\* MENU+START ends the pak (ARCHITECTURE.md 509: the waiter owns bounded
\* TERM/KILL cleanup).  Violated: a SIGTERM between the test of
\* stop_requested and waitpid is only seen when the pak ends by itself.
StopIsHonoured == (sent /\ acked) ~> pc = "exit"
=============================================================================
