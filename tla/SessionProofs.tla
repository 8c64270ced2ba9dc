---------------------------- MODULE SessionProofs ----------------------------
(* Proofs about two daemons of a session: zlyme-pak-spawn, for any number  *)
(* of pids and processes, any poll counts and any of the faults, and the   *)
(* lid and power daemon, for input queues of any length.                   *)
EXTENDS PakSpawn, KeyLid, FiniteSetTheorems, TLAPS

----------------------------------------------------------------------------
(* zlyme-pak-spawn.  Types.                                                *)

\* A pid stands for at most as many processes as were created, and for one
\* at least while it is in use.
Generations ==
    \A n \in Pids : /\ proc[n].gen <= forks + 1
                    /\ proc[n].st # "free" => proc[n].gen # 0
Typed == TypeOK /\ Generations

USE PidsAssumption, PollsAssumption

LEMMA InitTyped == Init => Typed
<1> SUFFICES ASSUME Init PROVE Typed
  OBVIOUS
<1>1. Free \in Process /\ [Free EXCEPT !.st = "live", !.own = "left", !.gen = 1] \in Process
  <2>1. 0 \in 0 .. MaxForks + 1 /\ 1 \in 0 .. MaxForks + 1
    OBVIOUS
  <2> QED
    BY <2>1 DEF Free, Process
<1>2. proc \in [Pids -> Process]
  BY <1>1 DEF Init
<1>3. Generations
  BY DEF Init, Generations, Free, Pids, Leader
<1> QED
  <2>1. /\ forks \in 0 .. MaxForks /\ pos \in 1 .. MaxPid + 1
        /\ polls \in Nat /\ polls < TermPolls
    BY DEF Init
  <2>2. list \subseteq Instance /\ fd \in {NoFd} /\ strays \subseteq Pids
    BY DEF Init
  <2>3. pc \in PCs /\ ret \in Codes
    BY DEF Init, PCs, Codes
  <2> QED
    BY <1>2, <1>3, <2>1, <2>2, <2>3 DEF Init, Typed, TypeOK

\* What a pid stands for changes, and its generation does not.
LEMMA SameGeneration ==
    ASSUME Typed, NEW n \in Pids, NEW d \in Process, proc' = [proc EXCEPT ![n] = d],
           d.gen = proc[n].gen, d.st # "free" => proc[n].st # "free", UNCHANGED forks
    PROVE  proc' \in [Pids -> Process] /\ Generations'
<1>1. proc \in [Pids -> Process]
  BY DEF Typed, TypeOK
<1> QED
  BY <1>1 DEF Typed, Generations

\* What a process is.
LEMMA ProcessIs ==
    ASSUME Typed, NEW n \in Pids
    PROVE  /\ proc[n] \in Process /\ proc[n].gen \in Nat /\ proc[n].gen <= forks + 1
           /\ Free \in Process /\ Leader \in Pids
BY DEF Typed, TypeOK, Generations, Process, Free, Pids, Leader

\* A process begins: its pid stands for one more.
LEMMA SpawnedTyped ==
    ASSUME Typed, NEW q \in Pids, NEW whose \in {"pak", "out"}, Spawned(q, whose),
           young' \in {young, young \cup {q}}, UNCHANGED <<child, Others>>
    PROVE  Typed'
<1> DEFINE d == [st |-> "live", own |-> whose, gen |-> proc[q].gen + 1, sig |-> "none"]
<1>1. /\ proc \in [Pids -> Process] /\ forks \in 0 .. MaxForks /\ forks < MaxForks
      /\ forks' = forks + 1 /\ proc' = [proc EXCEPT ![q] = d]
  BY DEF Typed, TypeOK, Spawned
<1>2. proc[q].gen \in Nat /\ proc[q].gen <= forks + 1
  BY ProcessIs
<1>3. d \in Process /\ d.gen = proc[q].gen + 1
  BY <1>1, <1>2 DEF Process
<1> HIDE DEF d
<1>4. proc' \in [Pids -> Process] /\ forks' \in 0 .. MaxForks
  BY <1>1, <1>3
<1>5. Generations'
  <2>1. \A n \in Pids : proc[n].gen \in Nat /\ proc[n].gen <= forks + 1
    BY ProcessIs
  <2> QED
    BY <1>1, <1>2, <1>3, <2>1 DEF Typed, Generations
<1>6. UNCHANGED <<child, pc, at, pos, batch, list, fd, bad, polls, ret, leaderFile, acked, sent,
                  stop, strays, front>>
  BY DEF Others, callVars
<1>7. young' \subseteq Pids
  BY DEF Typed, TypeOK
<1> QED
  BY <1>4, <1>5, <1>6, <1>7 DEF Typed, TypeOK

\* The processes and the child before exec.
LEMMA ProcessesTyped == ASSUME Typed, Processes \/ Child PROVE Typed'
<1>1. ASSUME NEW n \in Pids, NEW q \in Pids, Fork(n, q) PROVE Typed'
  BY <1>1, SpawnedTyped DEF Fork
<1>2. ASSUME NEW q \in Pids, ForeignFork(q) PROVE Typed'
  BY <1>2, SpawnedTyped DEF ForeignFork
<1>3. ASSUME NEW n \in Pids, Leave(n) \/ Die(n) \/ Collected(n) PROVE Typed'
  <2>1. proc[n] \in Process /\ proc[n].gen \in Nat
    BY ProcessIs
  <2>2. PICK d \in {[proc[n] EXCEPT !.own = "left"], [proc[n] EXCEPT !.st = "zombie"],
                    [Free EXCEPT !.gen = proc[n].gen]} :
           /\ proc' = [proc EXCEPT ![n] = d]
           /\ d.st # "free" => proc[n].st # "free"
    BY <1>3, <2>1 DEF Leave, Die, Collected, Alive, InPak, Free, Process
  <2>3. d \in Process /\ d.gen = proc[n].gen
    BY <2>1, <2>2 DEF Process, Free
  <2>4. UNCHANGED <<forks, young, child, Others>>
    BY <1>3 DEF Leave, Die, Collected
  <2>5. proc' \in [Pids -> Process] /\ Generations'
    BY <2>2, <2>3, <2>4, SameGeneration
  <2> QED
    BY <2>4, <2>5 DEF Typed, TypeOK, Others, callVars
<1>4. CASE Child
  <2>1. proc[Leader] \in Process /\ Leader \in Pids /\ proc \in [Pids -> Process]
    BY ProcessIs DEF Typed, TypeOK, Pids, Leader
  <2>2. UNCHANGED <<forks, young, Others>> /\ child' \in {"new", "sid", "told", "exec"}
    BY <1>4 DEF Child, ChildSetsid, ChildTells, ChildReleased, ChildExits, Typed, TypeOK, procVars
  <2>3. proc[Leader].st # "free"
    BY <1>4 DEF Child, ChildSetsid, ChildTells, ChildReleased, LeaderPreExec, Alive
  <2>4. PICK d \in {proc[Leader], [proc[Leader] EXCEPT !.own = "pak"],
                    [proc[Leader] EXCEPT !.st = "zombie"]} :
           proc' = [proc EXCEPT ![Leader] = d]
    BY <1>4, <2>1 DEF Child, ChildSetsid, ChildTells, ChildReleased, ChildExits, procVars
  <2>5. d \in Process /\ d.gen = proc[Leader].gen
    BY <2>1, <2>4 DEF Process
  <2>6. proc' \in [Pids -> Process] /\ Generations'
    BY <2>1, <2>2, <2>3, <2>4, <2>5, SameGeneration
  <2> QED
    BY <2>2, <2>6 DEF Typed, TypeOK, Others, callVars
<1> QED
  BY <1>1, <1>2, <1>3, <1>4 DEF Processes

\* What the waiter may do to a process: nothing, collect it, or signal it.
Outcomes(n) == {proc[n], [Free EXCEPT !.gen = proc[n].gen]}
                 \cup {[proc[n] EXCEPT !.sig = s] : s \in {"none", "term", "kill"}}
Handled == \E n \in Pids : \E d \in Outcomes(n) : proc' = [proc EXCEPT ![n] = d]

LEMMA Untouched == ASSUME Typed, UNCHANGED proc PROVE Handled
<1>1. Leader \in Pids /\ proc \in [Pids -> Process]
  BY ProcessIs DEF Pids, Leader, Typed, TypeOK
<1>2. proc' = [proc EXCEPT ![Leader] = proc[Leader]] /\ proc[Leader] \in Outcomes(Leader)
  BY <1>1 DEF Outcomes
<1> QED
  BY <1>1, <1>2 DEF Handled

LEMMA Reaped == ASSUME Typed, Reap PROVE Handled
<1>1. Leader \in Pids
  BY DEF Pids, Leader
<1> QED
  BY <1>1 DEF Reap, Handled, Outcomes

LEMMA Signalled ==
    ASSUME Typed, NEW n \in Pids, NEW s \in {"none", "term", "kill"},
           proc' = [proc EXCEPT ![n].sig = s]
    PROVE  Handled
<1>1. proc' = [proc EXCEPT ![n] = [proc[n] EXCEPT !.sig = s]]
  BY ProcessIs
<1> QED
  BY <1>1 DEF Handled, Outcomes

LEMMA LeaderSignalled ==
    ASSUME Typed, NEW s \in {"term", "kill"}, KillLeader(s) PROVE Handled
<1>1. /\ proc[Leader].sig \in {"none", "term", "kill"} /\ Leader \in Pids
  BY ProcessIs DEF Process, Pids, Leader
<1> DEFINE t == IF Alive(Leader) THEN s ELSE proc[Leader].sig
<1>2. proc' = [proc EXCEPT ![Leader].sig = t] /\ t \in {"none", "term", "kill"}
  BY <1>1 DEF KillLeader
<1> HIDE DEF t
<1> QED
  BY <1>1, <1>2, Signalled

LEMMA MemberSignalled ==
    ASSUME Typed, NEW n \in Pids, Hit(n) PROVE Handled
<1>1. proc[n].sig \in {"none", "term", "kill"}
  BY ProcessIs DEF Process
<1> DEFINE t == IF proc[n].sig = "kill" THEN proc[n].sig ELSE TheSignal
<1>2. proc' = [proc EXCEPT ![n].sig = t] /\ t \in {"none", "term", "kill"}
  BY <1>1 DEF Hit, TheSignal
<1> HIDE DEF t
<1> QED
  BY <1>2, Signalled

\* The steps of the waiter, with the calls that wait for the leader apart.
Waits == FailedHandshake \/ StopWaits
Looks == Enter \/ Collect \/ GetDents \/ ReadStat \/ ScanEnd \/ OpenPidfd \/ SignalsSent
Talks == Handshake \/ Publish \/ Ack \/ Loop \/ CallWaitpid \/ CollectStatus \/ Terminate

LEMMA WaiterHandles ==
    ASSUME Typed, Waiter \/ Terminate PROVE Handled /\ UNCHANGED <<forks, child>>
<1>1. CASE Talks
  <2>1. UNCHANGED <<proc, forks, child>>
    BY <1>1 DEF Talks, Handshake, Publish, Ack, Loop, CallWaitpid, CollectStatus, Terminate,
                procVars
  <2> QED
    BY <2>1, Untouched
<1>2. CASE Looks
  <2>1. UNCHANGED <<proc, forks, child>>
    BY <1>2 DEF Looks, Enter, Collect, GetDents, ReadStat, ScanEnd, OpenPidfd, SignalsSent, Rest,
                procVars
  <2> QED
    BY <2>1, Untouched
<1>3. CASE Waits
  <2>1. UNCHANGED <<forks, child>>
    BY <1>3 DEF Waits, FailedHandshake, StopWaits
  <2>2. UNCHANGED proc \/ Reap \/ \E s \in {"term", "kill"} : KillLeader(s)
    BY <1>3 DEF Waits, FailedHandshake, StopWaits, WaitChild
  <2> QED
    BY <2>1, <2>2, Untouched, Reaped, LeaderSignalled
<1>4. CASE Waitpid
  BY <1>4, Reaped DEF Waitpid
<1>5. CASE SendSignal
  <2>1. PICK i \in fd : IF SameProcess(i) THEN Hit(i[1]) ELSE UNCHANGED <<proc, strays>>
    BY <1>5 DEF SendSignal
  <2>2. i[1] \in Pids
    BY DEF Typed, TypeOK, NoFd, Instance
  <2>3. UNCHANGED <<forks, child>>
    BY <1>5 DEF SendSignal
  <2> QED
    BY <2>1, <2>2, <2>3, Untouched, MemberSignalled
<1> QED
  BY <1>1, <1>2, <1>3, <1>4, <1>5 DEF Waiter, Talks, Looks, Waits

\* No process begins by that, none enters the session, and no pid is given out.
LEMMA HandledIs ==
    ASSUME Typed, Handled
    PROVE  /\ proc' \in [Pids -> Process]
           /\ \A n \in Pids : /\ proc'[n].gen = proc[n].gen
                              /\ proc'[n].st = proc[n].st \/ proc'[n].st = "free"
                              /\ InPak(n)' => InPak(n)
                              /\ Alive(n)' => Alive(n)
<1>0. PICK n \in Pids : \E d \in Outcomes(n) : proc' = [proc EXCEPT ![n] = d]
  BY DEF Handled
<1>1. PICK d \in Outcomes(n) : proc' = [proc EXCEPT ![n] = d]
  BY <1>0
<1>2. proc[n] \in Process /\ proc[n].gen \in 0 .. MaxForks + 1
  BY ProcessIs DEF Process
<1>3. /\ d \in Process /\ d.gen = proc[n].gen
      /\ d.st = "free" \/ (d.st = proc[n].st /\ d.own = proc[n].own)
  BY <1>2 DEF Outcomes, Process, Free
<1>4. proc \in [Pids -> Process]
  BY DEF Typed, TypeOK
<1> QED
  BY <1>1, <1>3, <1>4 DEF InPak, Alive


\* The parts of the type invariant that the steps of the waiter touch.
ControlOK == /\ pc \in PCs /\ at \in {"enter", "lead", "collect", "dents", "scan", "sig"}
             /\ ret \in Codes
             /\ polls \in Nat /\ (polls < TermPolls \/ polls < KillPolls)
CallOK == /\ pos \in 1..MaxPid + 1 /\ batch \subseteq Pids /\ young \subseteq Pids /\ list \subseteq Instance /\ bad \in BOOLEAN
          /\ fd \in {NoFd} \cup {{i} : i \in Instance}
FlagsOK == /\ leaderFile \in BOOLEAN /\ acked \in BOOLEAN /\ sent \in BOOLEAN /\ stop \in BOOLEAN
           /\ front \in {"waiting", "running", "stopped"}

\* A call is over, with any result.
LEMMA ResultTyped ==
    ASSUME Typed, NEW res \in {"error", "empty", "busy"}, NEW ok \in BOOLEAN,
           BusyResult(res) \/ SignalResult(ok)
    PROVE  ControlOK'
<1>1. polls \in Nat /\ TermPolls > 0 /\ KillPolls > 0 /\ pc \in PCs /\ ret \in Codes
  BY DEF Typed, TypeOK
<1>2. CASE BusyResult(res)
  <2>1. \/ pc' \in {"exit", "r_sigterm", "r_sigkill"} /\ at' = "enter" /\ polls' = 0
           /\ ret' \in {ret, "failed"}
        \/ /\ pc' = pc /\ at' = "enter" /\ polls' = polls + 1 /\ ret' = ret
           /\ polls + 1 < TermPolls \/ polls + 1 < KillPolls
    <3>1. CASE res = "error"
      BY <1>2, <3>1 DEF BusyResult, Goto, Return
    <3>2. CASE res = "empty"
      BY <1>2, <3>2 DEF BusyResult, Goto, Return
    <3>3. CASE res = "busy"
      BY <1>2, <3>3 DEF BusyResult, BusyPoll, Goto, Return
    <3> QED
      BY <3>1, <3>2, <3>3
  <2> QED
    BY <1>1, <2>1 DEF ControlOK, PCs, Codes, SignalPCs, ScanPCs
<1>3. CASE SignalResult(ok)
  BY <1>1, <1>3 DEF SignalResult, Goto, Return, ControlOK, PCs, Codes, SignalPCs, ScanPCs
<1> QED
  BY <1>2, <1>3

LEMMA CallOverTyped == ASSUME Typed, CallOver, UNCHANGED young PROVE CallOK'
<1>1. 1 \in 1 .. MaxPid + 1 /\ young \subseteq Pids
  BY DEF Typed, TypeOK
<1> QED
  BY <1>1 DEF CallOver, CallOK, NoFd

LEMMA CallFailedTyped ==
    ASSUME Typed, CallFailed, UNCHANGED young PROVE ControlOK' /\ CallOK'
BY ResultTyped, CallOverTyped DEF CallFailed

Kept == <<proc, forks, child, leaderFile, acked, sent, stop, strays, front>>

LEMMA LooksTyped == ASSUME Typed, Looks PROVE ControlOK' /\ CallOK' /\ UNCHANGED Kept
<1>a. ControlOK /\ CallOK /\ TermPolls > 0
  BY DEF Typed, TypeOK, ControlOK, CallOK
<1>b. UNCHANGED Kept /\ (~Collect => UNCHANGED young)
  BY DEF Looks, Enter, Collect, GetDents, ReadStat, ScanEnd, OpenPidfd, SignalsSent, Rest, procVars,
         Kept
<1>c. CASE CallFailed /\ UNCHANGED young
  BY <1>b, <1>c, CallFailedTyped
<1>1. CASE Enter /\ ~CallFailed
  <2>1. Leader \in Pids /\ <<Leader, 1>> \in Instance
    BY DEF Leader, Pids, Instance
  <2> QED
    BY <1>a, <1>b, <1>1, <2>1 DEF Enter, Collect, ControlOK, CallOK
<1>2. CASE Collect /\ ~(CallFailed /\ UNCHANGED young)
  BY <1>a, <1>b, <1>2 DEF Collect, ControlOK, CallOK
<1>3. CASE GetDents /\ ~CallFailed
  <2>1. pos \in Pids /\ pos + 1 \in 1 .. MaxPid + 1
    BY <1>a, <1>3 DEF GetDents, CallOK, Pids
  <2>2. /\ pos' = pos + 1 /\ batch' \in {batch, batch \cup {pos}} /\ at' \in {"scan", "dents"}
        /\ UNCHANGED <<pc, polls, ret, list, fd, bad, young>>
    BY <1>3 DEF GetDents, Rest, procVars
  <2> QED
    BY <1>a, <1>b, <2>1, <2>2 DEF ControlOK, CallOK
<1>4. CASE ReadStat /\ ~CallFailed
  <2>1. PICK n \in batch :
           /\ batch' = batch \ {n}
           /\ list' \in {list, list \cup {<<n, proc[n].gen>>}} /\ at' \in {"scan", "dents"}
           /\ UNCHANGED <<pc, polls, ret, pos, fd, bad, young>>
    BY <1>4 DEF ReadStat, Rest, procVars
  <2>2. n \in Pids
    BY <1>a DEF CallOK
  <2>3. proc[n].gen \in 0 .. MaxForks + 1
    BY <2>2, ProcessIs DEF Process
  <2>4. <<n, proc[n].gen>> \in Instance
    BY <2>2, <2>3 DEF Instance
  <2> QED
    BY <1>a, <1>b, <2>1, <2>4 DEF ControlOK, CallOK
<1>5. CASE ScanEnd /\ ~CallFailed
  <2>a. UNCHANGED young
    BY <1>5 DEF ScanEnd, Rest, procVars
  <2>1. CASE CallOver /\ BusyResult(IF list = {} THEN "empty" ELSE "busy")
    <3>1. (IF list = {} THEN "empty" ELSE "busy") \in {"error", "empty", "busy"}
      OBVIOUS
    <3> QED
      BY <1>b, <2>a, <2>1, <3>1, ResultTyped, CallOverTyped
  <2>2. CASE at' = "sig" /\ UNCHANGED <<pc, polls, ret, pos, batch, list, fd, bad>>
    BY <1>a, <1>b, <2>a, <2>2 DEF ControlOK, CallOK
  <2> QED
    BY <1>5, <2>1, <2>2 DEF ScanEnd
<1>6. CASE OpenPidfd
  BY <1>a, <1>b, <1>6 DEF OpenPidfd, ControlOK, CallOK, Rest, procVars
<1>7. CASE SignalsSent
  <2>a. UNCHANGED young
    BY <1>7 DEF SignalsSent, Rest, procVars
  <2>1. CASE at' = "collect" /\ UNCHANGED <<pc, polls, ret, pos, batch, list, fd, bad>>
    BY <1>a, <1>b, <2>a, <2>1 DEF ControlOK, CallOK
  <2>2. CASE SignalResult(~bad) /\ CallOver
    <3>1. (~bad) \in BOOLEAN
      OBVIOUS
    <3> QED
      BY <1>b, <2>a, <2>2, <3>1, ResultTyped, CallOverTyped
  <2> QED
    BY <1>7, <2>1, <2>2 DEF SignalsSent
<1> QED
  BY <1>b, <1>c, <1>1, <1>2, <1>3, <1>4, <1>5, <1>6, <1>7 DEF Looks, Enter, GetDents, ReadStat, ScanEnd, Rest, procVars

LEMMA TalksTyped == ASSUME Typed, Talks PROVE ControlOK' /\ CallOK' /\ FlagsOK' /\ UNCHANGED strays
<1>a. ControlOK /\ CallOK /\ FlagsOK /\ TermPolls > 0
  BY DEF Typed, TypeOK, ControlOK, CallOK, FlagsOK
<1>1. CASE Handshake \/ Loop \/ CallWaitpid
  BY <1>a, <1>1 DEF Handshake, Loop, CallWaitpid, Goto, Quiet, ControlOK, CallOK, FlagsOK,
                PCs, Codes, HandPCs, SignalPCs, procVars
<1>2. CASE Publish
  <2>1. ControlOK' /\ UNCHANGED <<pos, batch, list, fd, bad, young>>
    BY <1>a, <1>2 DEF Publish, Goto, Quiet, ControlOK, PCs, Codes, SignalPCs, procVars
  <2>2. leaderFile' = TRUE \/ UNCHANGED leaderFile
    BY <1>2 DEF Publish
  <2>3. UNCHANGED <<acked, sent, stop, front, strays>>
    BY <1>2 DEF Publish
  <2> QED
    BY <1>a, <2>1, <2>2, <2>3 DEF CallOK, FlagsOK
<1>3. CASE Ack
  <2>1. ControlOK' /\ UNCHANGED <<pos, batch, list, fd, bad, young>>
    BY <1>a, <1>3 DEF Ack, Goto, Return, Quiet, ControlOK, PCs, Codes, procVars
  <2>2. acked' = TRUE \/ UNCHANGED acked
    BY <1>3 DEF Ack
  <2>3. UNCHANGED <<leaderFile, sent, stop, front, strays>>
    BY <1>3 DEF Ack
  <2> QED
    BY <1>a, <2>1, <2>2, <2>3 DEF CallOK, FlagsOK
<1>4. CASE CollectStatus
  <2>1. front' \in {"running", "stopped"}
    BY <1>4 DEF CollectStatus
  <2>2. UNCHANGED <<pc, at, pos, batch, list, fd, bad, young, polls, ret, leaderFile, acked, sent,
                    stop, strays>>
    BY <1>4 DEF CollectStatus, callVars, procVars
  <2> QED
    BY <1>a, <2>1, <2>2 DEF ControlOK, CallOK, FlagsOK
<1>5. CASE Terminate
  <2>1. pc' \in PCs /\ sent' = TRUE /\ stop' = TRUE
    BY <1>a, <1>5 DEF Terminate, ControlOK, PCs
  <2>2. UNCHANGED <<at, pos, batch, list, fd, bad, young, polls, ret, leaderFile, acked, strays, front>>
    BY <1>5 DEF Terminate, callVars, procVars
  <2> QED
    BY <1>a, <2>1, <2>2 DEF ControlOK, CallOK, FlagsOK
<1> QED
  BY <1>1, <1>2, <1>3, <1>4, <1>5 DEF Talks

LEMMA WaitsTyped ==
    ASSUME Typed, Waits \/ Waitpid
    PROVE  ControlOK' /\ CallOK' /\ UNCHANGED <<leaderFile, acked, sent, stop, strays, front>>
<1>a. ControlOK /\ CallOK /\ TermPolls > 0 /\ KillPolls > 0
  BY DEF Typed, TypeOK, ControlOK, CallOK
<1> QED
  BY <1>a DEF Waits, FailedHandshake, StopWaits, WaitChild, Waitpid, Goto, Quiet, Return,
              ControlOK, CallOK, PCs, Codes, HandPCs, SignalPCs, ScanPCs

LEMMA SendsTyped ==
    ASSUME Typed, SendSignal
    PROVE  ControlOK' /\ CallOK' /\ strays' \subseteq Pids
           /\ UNCHANGED <<leaderFile, acked, sent, stop, front>>
<1>a. ControlOK /\ CallOK /\ strays \subseteq Pids
  BY DEF Typed, TypeOK, ControlOK, CallOK
<1>1. PICK i \in fd : /\ IF SameProcess(i) THEN Hit(i[1]) ELSE UNCHANGED <<proc, strays>>
                      /\ list' = list \ {i}
  BY DEF SendSignal
<1>2. i[1] \in Pids
  BY <1>a DEF CallOK, NoFd, Instance
<1>3. strays' \subseteq Pids
  BY <1>a, <1>1, <1>2 DEF Hit
<1>4. /\ fd' = NoFd
      /\ UNCHANGED <<pc, at, pos, batch, bad, young, polls, ret, leaderFile, acked, sent, stop, front>>
  BY DEF SendSignal
<1> QED
  BY <1>a, <1>1, <1>3, <1>4 DEF ControlOK, CallOK

LEMMA WaiterTyped == ASSUME Typed, Waiter \/ Terminate PROVE Typed'
<1>1. /\ proc' \in [Pids -> Process] /\ UNCHANGED <<forks, child>> /\ Generations'
  <2>1. Handled /\ UNCHANGED <<forks, child>>
    BY WaiterHandles
  <2> QED
    BY <2>1, HandledIs DEF Typed, Generations
<1>2. ControlOK' /\ CallOK' /\ FlagsOK' /\ strays' \subseteq Pids
  <2>1. FlagsOK /\ strays \subseteq Pids
    BY DEF Typed, TypeOK, FlagsOK
  <2>2. CASE Talks
    BY <2>1, <2>2, TalksTyped
  <2>3. CASE Looks
    BY <2>1, <2>3, LooksTyped DEF Kept, FlagsOK
  <2>4. CASE Waits \/ Waitpid
    BY <2>1, <2>4, WaitsTyped DEF FlagsOK
  <2>5. CASE SendSignal
    BY <2>1, <2>5, SendsTyped DEF FlagsOK
  <2> QED
    BY <2>2, <2>3, <2>4, <2>5 DEF Waiter, Talks, Looks, Waits
<1> QED
  BY <1>1, <1>2 DEF Typed, TypeOK, ControlOK, CallOK, FlagsOK

\* Every variable of zlyme-pak-spawn, of the processes and of nextui-session
\* stays in its range.
THEOREM TypeOKThm == Spec => []TypeOK
<1>1. Typed /\ [Next]_vars => Typed'
  <2>1. ASSUME Typed, UNCHANGED vars PROVE Typed'
    BY <2>1 DEF Typed, TypeOK, Generations, vars, procVars, callVars
  <2> QED
    BY <2>1, ProcessesTyped, WaiterTyped DEF Next
<1>2. Typed => TypeOK
  BY DEF Typed
<1> QED
  BY <1>1, <1>2, InitTyped, PTL DEF Spec

----------------------------------------------------------------------------
(* Signals.                                                                *)

\* No signal reaches a process that was never in the pak's session: the
\* process is looked at again with its pidfd open (signal_verified), so pids
\* may be used again at any moment.
THEOREM NoStraySignalThm == Spec => []NoStraySignal
<1>1. Init => NoStraySignal
  BY DEF Init, NoStraySignal
<1>2. ASSUME NoStraySignal, [Next]_vars PROVE NoStraySignal'
  <2>1. CASE SendSignal
    <3>1. PICK i \in fd : IF SameProcess(i) THEN Hit(i[1]) ELSE UNCHANGED <<proc, strays>>
      BY <2>1 DEF SendSignal
    <3>2. SameProcess(i) => proc[i[1]].own # "out"
      BY DEF SameProcess, InPak
    <3> QED
      BY <1>2, <3>1, <3>2 DEF Hit, NoStraySignal
  <2>2. CASE ~SendSignal
    BY <1>2, <2>2 DEF NoStraySignal, Next, Waiter, Child, Processes, Terminate, Fork, ForeignFork,
       Leave, Die, Collected, ChildSetsid, ChildTells, ChildReleased, Handshake, FailedHandshake,
       Publish, Ack, Loop, CallWaitpid, Waitpid, StopWaits, Enter, Collect, GetDents, ReadStat,
       ScanEnd, OpenPidfd, SignalsSent, CollectStatus, Others, Rest, vars
  <2> QED
    BY <2>1, <2>2
<1> QED
  BY <1>1, <1>2, PTL DEF Spec

----------------------------------------------------------------------------
(* The frontend waits for everybody the last scan could see.               *)

EarlyPCs == HandPCs \cup {"handshake", "publish", "ack"}

\* While the session has a process the leader's pid is not given out again.
LeaderKept == proc[Leader].gen # 0 /\ (InPak(Leader) => proc[Leader].gen = 1)
LeaderDead == ~(Alive(Leader) /\ proc[Leader].gen = 1)

\* The pak is released by the acknowledgement, which follows the leader file.
Handshaken ==
    /\ pc \in EarlyPCs => ~acked
    /\ child = "exec" => acked
    /\ acked \/ pc = "ack" => leaderFile

\* Before exec the session has no other process.
OnlyLeader == child # "exec" => \A n \in Pids \ {Leader} : ~InPak(n)

\* Inside collect_members and signal_session.
CallState ==
    /\ at # "enter" => pc \in ScanPCs \cup SignalPCs
    /\ at \in {"lead", "sig"} => pc \in SignalPCs
    /\ fd # NoFd => at \in {"lead", "sig"}
    /\ at = "scan" /\ batch = {} => pos = MaxPid + 1

\* reap_session begins when the leader has been collected.
LeaderGone == pc \in ScanPCs \cup {"r_sigterm", "r_sigkill"} => LeaderDead

\* A scan that has found nobody so far has passed nobody who lived when it
\* began and whose stat it does not still have to read.
ScanTrue ==
    pc \in ScanPCs /\ at \in {"dents", "scan"} /\ list = {} =>
        \A n \in Pids : n < pos /\ InPak(n) => n \in batch \/ n \in young

\* Every status but 125 is returned with nobody left who lived at the last
\* opendir, and that stays true.
AllYoung == \A n \in Pids : InPak(n) => n \in young
ExitTrue == pc = "exit" /\ ret # "failed" => LeaderDead /\ AllYoung
FrontTrue == front = "running" => pc = "exit" /\ ret # "failed"

SessionInv == /\ Typed /\ LeaderKept /\ Handshaken /\ OnlyLeader /\ CallState
              /\ LeaderGone /\ ScanTrue /\ ExitTrue /\ FrontTrue

LEMMA InitSession == Init => SessionInv
<1> SUFFICES ASSUME Init PROVE SessionInv
  OBVIOUS
<1>1. Typed
  BY InitTyped
<1>2. Leader \in Pids /\ \A n \in Pids : ~InPak(n)
  BY DEF Init, InPak, Alive, Free, Pids, Leader
<1>3. proc[Leader].gen = 1
  BY <1>2 DEF Init, Free
<1>4. /\ pc = "handshake" /\ at = "enter" /\ fd = NoFd /\ child = "new" /\ ~acked
      /\ front = "waiting"
  BY DEF Init
<1> QED
  BY <1>1, <1>2, <1>3, <1>4 DEF SessionInv, LeaderKept, Handshaken, OnlyLeader, CallState,
     LeaderGone, ScanTrue, ExitTrue, FrontTrue, EarlyPCs, HandPCs, ScanPCs, SignalPCs

\* A step of the processes: where the waiter is does not change.
LEMMA SpawnedSession ==
    ASSUME SessionInv, Typed', NEW q \in Pids, NEW whose \in {"pak", "out"},
           Spawned(q, whose), UNCHANGED <<child, Others>>,
           whose = "out" => UNCHANGED young,
           whose = "pak" => /\ young' = young \cup {q}
                            /\ child = "exec"
                            /\ \E n \in Pids : InPak(n)
    PROVE  SessionInv'
<1>a. /\ proc \in [Pids -> Process] /\ Leader \in Pids /\ young \subseteq young'
      /\ \A n \in Pids : proc[n].gen \in Nat
      /\ proc' = [proc EXCEPT ![q] = [st |-> "live", own |-> whose, gen |-> proc[q].gen + 1,
                                      sig |-> "none"]]
  BY ProcessIs DEF SessionInv, Typed, TypeOK, Spawned, Pids, Leader
<1>b. UNCHANGED <<pc, at, pos, batch, list, fd, ret, leaderFile, acked, front, child>>
  BY DEF Others, callVars
<1>c. q = Leader => whose = "out"
  BY DEF Spawned, Fresh, InPak, Alive
<1>d. \A n \in Pids : /\ n # q => proc'[n] = proc[n]
                      /\ InPak(n)' => InPak(n) \/ (n = q /\ whose = "pak")
                      /\ InPak(q)' => whose = "pak" /\ q \in young'
  BY <1>a DEF InPak, Alive
<1>e. /\ proc'[Leader].gen # 0
      /\ LeaderDead => LeaderDead'
      /\ InPak(Leader)' => proc'[Leader].gen = 1
  <2>1. CASE q = Leader
    BY <1>a, <1>c, <1>d, <2>1 DEF SessionInv, LeaderKept, LeaderDead
  <2>2. CASE q # Leader
    BY <1>a, <1>d, <2>2 DEF SessionInv, LeaderKept, LeaderDead, InPak, Alive
  <2> QED
    BY <2>1, <2>2
<1>1. LeaderKept' /\ Handshaken' /\ CallState'
  BY <1>b, <1>e DEF SessionInv, LeaderKept, Handshaken, CallState
<1>2. OnlyLeader' /\ LeaderGone' /\ FrontTrue'
  BY <1>b, <1>d, <1>e DEF SessionInv, OnlyLeader, LeaderGone, FrontTrue
<1>3. ScanTrue'
  BY <1>a, <1>b, <1>d DEF SessionInv, ScanTrue
<1>4. ExitTrue'
  BY <1>a, <1>b, <1>d, <1>e DEF SessionInv, ExitTrue, AllYoung
<1> QED
  BY <1>1, <1>2, <1>3, <1>4 DEF SessionInv

\* The processes and the child otherwise: none begins, and only the leader
\* may enter the session, by its setsid.
LEMMA ProcessesSession ==
    ASSUME SessionInv, Typed', Processes \/ Child PROVE SessionInv'
<1>a. proc \in [Pids -> Process] /\ Leader \in Pids
  BY DEF SessionInv, Typed, TypeOK, Pids, Leader
<1>1. ASSUME NEW n \in Pids, NEW q \in Pids, Fork(n, q) PROVE SessionInv'
  <2>1. child = "exec"
    BY <1>a, <1>1 DEF Fork, InPak, Alive, LeaderUnreaped, SessionInv, LeaderKept, OnlyLeader
  <2> QED
    BY <1>1, <2>1, SpawnedSession DEF Fork
<1>2. ASSUME NEW q \in Pids, ForeignFork(q) PROVE SessionInv'
  BY <1>2, SpawnedSession DEF ForeignFork
<1>3. ASSUME NEW n \in Pids, Leave(n) \/ Die(n) \/ Collected(n) PROVE SessionInv'
  <2>1. UNCHANGED <<young, child, pc, at, pos, batch, list, fd, ret, leaderFile, acked, front>>
    BY <1>3 DEF Leave, Die, Collected, Others, callVars
  <2>2. \A q \in Pids : /\ InPak(q)' => InPak(q)
                        /\ Alive(q)' => Alive(q)
                        /\ proc'[q].gen = proc[q].gen
    BY <1>a, <1>3 DEF Leave, Die, Collected, InPak, Alive, Free, Process
  <2> QED
    BY <1>a, <2>1, <2>2 DEF SessionInv, LeaderKept, Handshaken, OnlyLeader, CallState, LeaderGone,
       LeaderDead, ScanTrue, ExitTrue, FrontTrue, AllYoung
<1>4. CASE Child
  <2>1. UNCHANGED <<young, pc, at, pos, batch, list, fd, ret, leaderFile, acked, front>>
    BY <1>4 DEF Child, ChildSetsid, ChildTells, ChildReleased, Others, callVars, procVars
  <2>2. /\ child # "exec" /\ ~LeaderDead
        /\ child' = "exec" => acked
    BY <1>4 DEF Child, ChildSetsid, ChildTells, ChildReleased, ChildExits, LeaderPreExec,
                LeaderUnreaped, LeaderDead
  <2>3. \A q \in Pids : /\ q # Leader => InPak(q)' = InPak(q)
                        /\ Alive(q)' => Alive(q)
                        /\ proc'[q].gen = proc[q].gen
    BY <1>a, <1>4 DEF Child, ChildSetsid, ChildTells, ChildReleased, ChildExits, InPak, Alive,
                      Process, procVars
  <2>4. pc \notin ScanPCs /\ ~(pc = "exit" /\ ret # "failed") /\ front # "running"
    BY <2>2 DEF SessionInv, LeaderGone, ExitTrue, FrontTrue
  <2> QED
    BY <1>a, <2>1, <2>2, <2>3, <2>4 DEF SessionInv, LeaderKept, LeaderDead, Handshaken, OnlyLeader,
       CallState, LeaderGone, ScanTrue, ExitTrue, FrontTrue
<1> QED
  BY <1>1, <1>2, <1>3, <1>4 DEF Processes

\* What every step of the waiter does to the processes.
LEMMA WaiterKeeps ==
    ASSUME SessionInv, Waiter \/ Terminate
    PROVE  /\ \A n \in Pids : InPak(n)' => InPak(n)
           /\ LeaderKept' /\ OnlyLeader' /\ UNCHANGED child
           /\ LeaderDead => LeaderDead'
           /\ child # "exec" /\ LeaderDead' => AllYoung'
<1>1. Handled /\ UNCHANGED <<forks, child>> /\ Typed /\ Leader \in Pids
  BY WaiterHandles DEF SessionInv, Pids, Leader
<1>2. \A n \in Pids : /\ proc'[n].gen = proc[n].gen
                      /\ InPak(n)' => InPak(n)
                      /\ Alive(n)' => Alive(n)
  BY <1>1, HandledIs
<1>3. LeaderKept' /\ OnlyLeader' /\ (LeaderDead => LeaderDead')
  BY <1>1, <1>2 DEF SessionInv, LeaderKept, LeaderDead, OnlyLeader
<1>4. LeaderDead' => ~InPak(Leader)'
  BY <1>3 DEF InPak, LeaderDead, LeaderKept
<1> QED
  BY <1>1, <1>2, <1>3, <1>4 DEF AllYoung, OnlyLeader

\* The leader has been collected.
LEMMA ReapedIs == ASSUME Typed, Reap PROVE LeaderDead'
<1>1. proc \in [Pids -> Process] /\ Leader \in Pids
  BY DEF Typed, TypeOK, Pids, Leader
<1> QED
  BY <1>1 DEF Reap, LeaderDead, Alive, Free

\* A step of the waiter that does not touch a scan.
LEMMA TalksSession == ASSUME SessionInv, Typed', Talks PROVE SessionInv'
<1>a. /\ \A n \in Pids : InPak(n)' => InPak(n)
      /\ LeaderKept' /\ OnlyLeader' /\ UNCHANGED child
      /\ LeaderDead => LeaderDead'
      /\ child # "exec" /\ LeaderDead' => AllYoung'
  BY WaiterKeeps DEF Talks, Waiter
<1>1. UNCHANGED <<proc, young, fd, pos, batch, list>>
  BY DEF Talks, Handshake, Publish, Ack, Loop, CallWaitpid, CollectStatus, Terminate,
         Quiet, callVars, procVars
<1>b. Leader \in Pids
  BY DEF Pids, Leader
<1>2. Handshaken'
  BY <1>a DEF Talks, Handshake, Publish, Ack, Loop, CallWaitpid, CollectStatus, Terminate, Goto,
         Return, SessionInv, Handshaken, EarlyPCs, HandPCs
<1>3. CASE CollectStatus
  BY <1>a, <1>b, <1>1, <1>2, <1>3 DEF CollectStatus, callVars, SessionInv, CallState, LeaderGone,
         ScanTrue, ExitTrue, FrontTrue, AllYoung, InPak, Alive
<1>4. CASE Terminate
  BY <1>a, <1>b, <1>1, <1>2, <1>4 DEF Terminate, callVars, SessionInv, CallState, LeaderGone,
         ScanTrue, ExitTrue, FrontTrue, AllYoung, InPak, Alive, ScanPCs, SignalPCs
<1>5. CASE Ack
  BY <1>a, <1>b, <1>1, <1>2, <1>5 DEF LeaderDead, Ack, Goto, Return, SessionInv, Handshaken, EarlyPCs, CallState, LeaderGone,
         ScanTrue, ExitTrue, FrontTrue, AllYoung, InPak, Alive, ScanPCs, SignalPCs
<1>6. CASE Handshake \/ Publish \/ Loop \/ CallWaitpid
  BY <1>a, <1>b, <1>1, <1>2, <1>6 DEF Handshake, Publish, Loop, CallWaitpid, Goto, SessionInv,
         CallState, LeaderGone, ScanTrue, ExitTrue, FrontTrue, AllYoung, InPak, Alive, ScanPCs, SignalPCs
<1> QED
  BY <1>3, <1>4, <1>5, <1>6 DEF Talks

\* wait_child_bounded: the leader is collected, or the session is stopped.
LEMMA WaitsSession == ASSUME SessionInv, Typed', Waits \/ Waitpid PROVE SessionInv'
<1>a. /\ \A n \in Pids : InPak(n)' => InPak(n)
      /\ LeaderKept' /\ OnlyLeader' /\ UNCHANGED child
      /\ LeaderDead => LeaderDead'
      /\ child # "exec" /\ LeaderDead' => AllYoung'
  BY WaiterKeeps DEF Waits, Waiter
<1>b. UNCHANGED <<young, fd, pos, batch, list, leaderFile, acked, front>>
  BY DEF Waits, FailedHandshake, StopWaits, Waitpid, Quiet
<1>c. at = "enter" /\ pc \notin {"exit"} \cup ScanPCs \cup SignalPCs
  BY DEF SessionInv, CallState, Waits, FailedHandshake, StopWaits, Waitpid, ScanPCs, SignalPCs
<1>d. at' = "enter"
  BY <1>c DEF Waits, FailedHandshake, StopWaits, Waitpid, WaitChild, Goto, Return
<1>1. CASE FailedHandshake
  <2>1. child # "exec" /\ pc \in EarlyPCs
    BY <1>1 DEF FailedHandshake, SessionInv, Handshaken, EarlyPCs, HandPCs
  <2>2. pc' \in HandPCs \/ (pc' = "exit" /\ (ret' = "failed" \/ Reap))
    BY <1>1 DEF FailedHandshake, WaitChild, Goto, Return, HandPCs
  <2>3. Reap => LeaderDead'
    BY ReapedIs DEF SessionInv
  <2> QED
    BY <1>a, <1>b, <1>c, <1>d, <2>1, <2>2, <2>3 DEF SessionInv, Handshaken, EarlyPCs, HandPCs,
       CallState, LeaderGone, ScanTrue, ExitTrue, FrontTrue, ScanPCs, SignalPCs
<1>2. CASE StopWaits \/ Waitpid
  <2>1. pc \notin EarlyPCs
    BY <1>2 DEF StopWaits, Waitpid, EarlyPCs, HandPCs
  <2>2. \/ pc' \in {"s_termwait", "s_kill", "s_killwait"}
        \/ pc' = "r_first" /\ Reap
        \/ pc' = "exit" /\ ret' = "failed"
    BY <1>2 DEF StopWaits, Waitpid, WaitChild, Goto, Return
  <2>3. Reap => LeaderDead'
    BY ReapedIs DEF SessionInv
  <2> QED
    BY <1>a, <1>b, <1>c, <1>d, <2>1, <2>2, <2>3 DEF SessionInv, Handshaken, EarlyPCs, HandPCs,
       CallState, LeaderGone, ScanTrue, ExitTrue, FrontTrue, ScanPCs, SignalPCs
<1> QED
  BY <1>1, <1>2 DEF Waits

\* session_busy or signal_session has returned; "empty" is said only when
\* nobody is left who lived at the opendir.
LEMMA ResultSession ==
    ASSUME SessionInv, Typed', UNCHANGED Rest, CallOver, pc \in ScanPCs \cup SignalPCs,
           NEW res \in {"error", "empty", "busy"}, NEW ok,
           \/ SignalResult(ok)
           \/ pc \in ScanPCs /\ BusyResult(res) /\ (res = "empty" => AllYoung)
    PROVE  SessionInv'
<1>1. UNCHANGED <<proc, young, child, leaderFile, acked, front>>
  BY DEF Rest, procVars
<1>2. fd' = NoFd
  BY DEF CallOver
<1>3. /\ LeaderKept' /\ OnlyLeader'
      /\ LeaderDead' = LeaderDead /\ AllYoung' = AllYoung
  BY <1>1 DEF SessionInv, LeaderKept, LeaderDead, OnlyLeader, InPak, Alive, AllYoung
<1>4. at' = "enter" /\ \/ pc' \in {"s_termwait", "s_killleader"}
                       \/ pc' \in {"r_sigterm", "r_sigkill"} \cup ScanPCs /\ LeaderDead
                       \/ pc' = "exit" /\ ret' = "failed"
                       \/ pc' = "exit" /\ LeaderDead /\ AllYoung
  <2>1. CASE SignalResult(ok)
    BY <2>1 DEF SignalResult, Goto, Return, SessionInv, LeaderGone, ScanPCs
  <2>2. CASE pc \in ScanPCs /\ BusyResult(res) /\ (res = "empty" => AllYoung)
    <3>1. LeaderDead
      BY <2>2 DEF SessionInv, LeaderGone
    <3>2. CASE res = "error"
      BY <2>2, <3>2 DEF BusyResult, Goto, Return
    <3>3. CASE res = "empty"
      BY <2>2, <3>1, <3>3 DEF BusyResult, Goto, Return
    <3>4. CASE res = "busy"
      BY <2>2, <3>1, <3>4 DEF BusyResult, BusyPoll, Goto, Return, ScanPCs
    <3> QED
      BY <3>2, <3>3, <3>4
  <2> QED
    BY <2>1, <2>2
<1>5. pc' \notin EarlyPCs /\ front # "running" /\ pc' # "ack"
  BY <1>4 DEF EarlyPCs, HandPCs, ScanPCs, SignalPCs, SessionInv, FrontTrue
<1>6. Handshaken'
  BY <1>1, <1>5 DEF SessionInv, Handshaken
<1>7. CallState' /\ ScanTrue' /\ FrontTrue'
  BY <1>1, <1>2, <1>4, <1>5 DEF CallState, ScanTrue, FrontTrue
<1>8. LeaderGone' /\ ExitTrue'
  BY <1>3, <1>4 DEF LeaderGone, ExitTrue, ScanPCs, SignalPCs
<1> QED
  BY <1>3, <1>6, <1>7, <1>8 DEF SessionInv

LEMMA CallFailedSession ==
    ASSUME SessionInv, Typed', UNCHANGED Rest, CallFailed, pc \in ScanPCs \cup SignalPCs
    PROVE  SessionInv'
BY ResultSession DEF CallFailed

\* A call goes on: only where it is, what it found and its pidfd change.
LEMMA CallGoesOn ==
    ASSUME SessionInv, Typed', UNCHANGED <<pc, polls, ret, Rest>>, CallState', ScanTrue'
    PROVE  SessionInv'
<1>1. UNCHANGED <<proc, young, child, leaderFile, acked, front>>
  BY DEF Rest, procVars
<1> QED
  BY <1>1 DEF SessionInv, LeaderKept, Handshaken, OnlyLeader, LeaderGone, LeaderDead, ExitTrue,
              FrontTrue, Alive, InPak, AllYoung

\* The leader is looked at and /proc is opened: nobody has been born since.
LEMMA CollectSession == ASSUME SessionInv, Typed', Collect PROVE SessionInv'
<1>a. pc \in ScanPCs \cup SignalPCs
  BY DEF Collect, SessionInv, CallState
<1>b. UNCHANGED Kept
  BY DEF Collect, Kept
<1>1. CASE CallFailed /\ UNCHANGED young
  BY <1>a, <1>b, <1>1, CallFailedSession DEF Kept, Rest, procVars
<1>2. CASE ~(CallFailed /\ UNCHANGED young)
  <2>1. at' = "dents" /\ pos' = 1 /\ UNCHANGED <<pc, ret, fd, proc, child, leaderFile, acked, front>>
    BY <1>2 DEF Collect
  <2>2. CallState'
    BY <1>a, <2>1 DEF Collect, SessionInv, CallState
  <2>3. \A n \in Pids : ~(n < 1)
    BY DEF Pids
  <2>4. pc # "exit"
    BY <1>a DEF ScanPCs, SignalPCs
  <2> QED
    BY <2>1, <2>2, <2>3, <2>4 DEF SessionInv, LeaderKept, LeaderDead, Handshaken, OnlyLeader,
       LeaderGone, ScanTrue, ExitTrue, FrontTrue, Alive, InPak
<1> QED
  BY <1>1, <1>2

LEMMA LooksSession == ASSUME SessionInv, Typed', Looks PROVE SessionInv'
<1>1. CASE Collect
  BY <1>1, CollectSession
<1> SUFFICES ASSUME ~Collect PROVE SessionInv'
  BY <1>1
<1>a. /\ UNCHANGED Rest /\ pc \in ScanPCs \cup SignalPCs
      /\ ScanPCs \cap SignalPCs = {}
  BY DEF Looks, Enter, GetDents, ReadStat, ScanEnd, OpenPidfd, SignalsSent, SessionInv, CallState,
         ScanPCs, SignalPCs
<1>b. UNCHANGED <<proc, young>> /\ Leader \in Pids
  BY <1>a DEF Rest, procVars, Leader, Pids
<1>2. CASE CallFailed
  BY <1>a, <1>2, CallFailedSession
<1>3. CASE Enter /\ ~CallFailed
  BY <1>a, <1>3, CallGoesOn DEF Enter, SessionInv, CallState, ScanTrue
<1>4. CASE GetDents /\ ~CallFailed
  <2>1. /\ pos' = pos + 1 /\ at = "dents" /\ pos <= MaxPid /\ pos \in Nat
        /\ batch' = IF proc[pos].st # "free" THEN batch \cup {pos} ELSE batch
        /\ at' = IF pos = MaxPid \/ Cardinality(batch') >= Batch THEN "scan" ELSE "dents"
        /\ UNCHANGED <<pc, polls, ret, list, fd>>
    BY <1>4 DEF GetDents, SessionInv, Typed, TypeOK
  <2>2. CallState'
    <3>1. at' = "scan" /\ batch' = {} => pos = MaxPid
      <4>1. Cardinality({}) = 0
        BY FS_EmptySet
      <4> QED
        BY <2>1, <4>1, BatchAssumption
    <3> QED
      BY <2>1, <3>1 DEF SessionInv, CallState
  <2>3. ASSUME pc \in ScanPCs, list = {}, NEW n \in Pids, n < pos + 1, InPak(n)
        PROVE  n \in batch' \/ n \in young
    <3>1. CASE n = pos
      BY <2>1, <2>3, <3>1 DEF InPak, Alive
    <3>2. CASE n # pos
      <4>1. n < pos
        BY <2>1, <2>3, <3>2 DEF Pids
      <4> QED
        BY <2>1, <2>3, <4>1 DEF SessionInv, ScanTrue
    <3> QED
      BY <3>1, <3>2
  <2>4. ScanTrue'
    BY <1>b, <2>1, <2>3 DEF ScanTrue, InPak, Alive
  <2> QED
    BY <1>a, <2>1, <2>2, <2>4, CallGoesOn
<1>5. CASE ReadStat /\ ~CallFailed
  <2>1. PICK q \in batch :
           /\ batch' = batch \ {q}
           /\ list' = IF q # Leader /\ InPak(q) THEN list \cup {<<q, proc[q].gen>>} ELSE list
           /\ at' = IF batch' = {} /\ pos <= MaxPid THEN "dents" ELSE "scan"
           /\ UNCHANGED <<pc, polls, ret, pos, fd>>
    BY <1>5 DEF ReadStat
  <2>2. at = "scan" /\ pos \in 1 .. MaxPid + 1
    BY <1>5 DEF ReadStat, SessionInv, Typed, TypeOK
  <2>3. CallState'
    BY <2>1, <2>2 DEF SessionInv, CallState
  <2>4. ASSUME pc \in ScanPCs, list' = {}, NEW n \in Pids, n < pos, InPak(n)
        PROVE  n \in batch' \/ n \in young
    <3>1. list = {} /\ ~(q # Leader /\ InPak(q))
      BY <2>1, <2>4
    <3>2. n # q
      BY <2>4, <3>1 DEF SessionInv, LeaderKept, LeaderGone, LeaderDead, InPak
    <3> QED
      BY <2>1, <2>2, <2>4, <3>1, <3>2 DEF SessionInv, ScanTrue
  <2>5. ScanTrue'
    BY <1>b, <2>1, <2>4 DEF ScanTrue, InPak, Alive
  <2> QED
    BY <1>a, <2>1, <2>3, <2>5, CallGoesOn
<1>6. CASE ScanEnd /\ ~CallFailed
  <2>1. CASE CallOver /\ pc \in ScanPCs /\ BusyResult(IF list = {} THEN "empty" ELSE "busy")
    <3>1. list = {} => AllYoung
      <4>1. pos = MaxPid + 1 /\ at = "scan" /\ batch = {}
        BY <1>6 DEF ScanEnd, SessionInv, CallState
      <4>2. \A n \in Pids : n < pos
        BY <4>1 DEF Pids
      <4> QED
        BY <2>1, <4>1, <4>2 DEF SessionInv, ScanTrue, AllYoung
    <3> DEFINE res == IF list = {} THEN "empty" ELSE "busy"
    <3>2. res \in {"error", "empty", "busy"} /\ (res = "empty" => AllYoung)
      BY <3>1
    <3>3. BusyResult(res)
      BY <2>1
    <3> HIDE DEF res
    <3> QED
      BY <1>a, <2>1, <3>2, <3>3, ResultSession
  <2>2. CASE /\ pc \in SignalPCs /\ at' = "sig"
             /\ UNCHANGED <<pc, polls, ret, pos, batch, list, fd, bad>>
    BY <1>a, <2>2, CallGoesOn DEF CallState, ScanTrue, SessionInv
  <2> QED
    BY <1>6, <2>1, <2>2 DEF ScanEnd
<1>7. CASE OpenPidfd
  <2>1. CallState' /\ ScanTrue'
    BY <1>a, <1>7 DEF OpenPidfd, SessionInv, CallState, ScanTrue
  <2> QED
    BY <1>a, <1>7, <2>1, CallGoesOn DEF OpenPidfd
<1>8. CASE SignalsSent
  <2>1. CASE at' = "collect" /\ UNCHANGED <<pc, polls, ret, pos, batch, list, fd, bad>>
    <3>1. CallState' /\ ScanTrue'
      BY <1>a, <1>8, <2>1 DEF SignalsSent, SessionInv, CallState, ScanTrue
    <3> QED
      BY <1>a, <2>1, <3>1, CallGoesOn
  <2>2. CASE SignalResult(~bad) /\ CallOver
    BY <1>a, <2>2, ResultSession
  <2> QED
    BY <1>8, <2>1, <2>2 DEF SignalsSent
<1> QED
  BY <1>2, <1>3, <1>4, <1>5, <1>6, <1>7, <1>8 DEF Looks

LEMMA SendsSession == ASSUME SessionInv, Typed', SendSignal PROVE SessionInv'
<1>a. /\ \A n \in Pids : InPak(n)' => InPak(n)
      /\ LeaderKept' /\ OnlyLeader' /\ UNCHANGED child
      /\ LeaderDead => LeaderDead'
  BY WaiterKeeps DEF Waiter
<1>b. /\ fd' = NoFd /\ UNCHANGED <<young, pc, at, pos, batch, ret, leaderFile, acked, front>>
      /\ at \in {"lead", "sig"} /\ Leader \in Pids
  BY DEF SendSignal, SessionInv, CallState, Pids, Leader
<1> QED
  BY <1>a, <1>b DEF SessionInv, Handshaken, CallState, LeaderGone, ScanTrue, ExitTrue, FrontTrue,
                    AllYoung

LEMMA NextSession ==
    ASSUME SessionInv, [Next]_vars PROVE SessionInv'
<1>1. CASE UNCHANGED vars
  BY <1>1 DEF SessionInv, Typed, TypeOK, Generations, LeaderKept, Handshaken, OnlyLeader, CallState,
     LeaderGone, LeaderDead, ScanTrue, ExitTrue, FrontTrue, InPak, Alive, AllYoung, vars, procVars, callVars
<1>2. CASE Next
  <2>1. Typed'
    BY <1>2, ProcessesTyped, WaiterTyped DEF Next, SessionInv
  <2> QED
    BY <1>2, <2>1, ProcessesSession, TalksSession, WaitsSession, LooksSession, SendsSession
       DEF Next, Waiter, Talks, Waits, Looks
<1> QED
  BY <1>1, <1>2

\* The pak runs only after its identity is in the leader file (main, ack
\* pipe), and when the frontend is started nobody is left of the session who
\* lived when /proc was opened for the last time (reap_session), however /proc
\* is read in batches, pids are used again and members fork, die and leave.
THEOREM FrontendAloneThm == Spec => []FrontendAlone
<1>1. Init => SessionInv
  BY InitSession
<1>2. SessionInv /\ [Next]_vars => SessionInv'
  BY NextSession
<1>3. SessionInv => FrontendAlone
  BY DEF SessionInv, FrontTrue, ExitTrue, AllYoung, Handshaken, FrontendAlone, ExecAfterPublish
<1> QED
  BY <1>1, <1>2, <1>3, PTL DEF Spec

----------------------------------------------------------------------------
(* The lid and power daemon.  The inductive invariant.                     *)

\* A queued close of the present period is the last event: nothing is queued
\* behind it before the lid opens, and then it is a close of an earlier one.
CloseIsLast ==
    \A i \in 1 .. Len(hallQ) : hallQ[i] = "CLOSE" => i = Len(hallQ) /\ lid = "closed"

\* Once the closed period was requested, the lid is still closed, no event is
\* left that could end or repeat the period, and the policy knows that it is
\* served, or will when do_mem_sleep is over.
PeriodServed ==
    lidReqs # 0 => /\ lidReqs = 1
                   /\ lid = "closed"
                   /\ hallQ = <<>>
                   /\ p.lid_closed = TRUE
                   /\ p.busy = TRUE \/ p.asleep = TRUE

\* do_mem_sleep is entered without the guard; a press that woke the device is
\* read under the guard that Resume sets.
WakeGuarded ==
    /\ kpc \in {"pre", "mem"} => guard = FALSE
    /\ \A i \in 1 .. Len(pwrQ) : pwrQ[i] = "wake" => guard = TRUE \/ kpc = "resume"

Inv == LidTypeOK /\ SleepsWhenAsked /\ CloseIsLast /\ PeriodServed /\ WakeGuarded

----------------------------------------------------------------------------
(* The queues.                                                             *)

\* Queue(S): the sequences over S that are no longer than the device's buffer.
LEMMA QueueIsSeq ==
    ASSUME MaxQueue \in Nat \ {0}, NEW S, NEW q
    PROVE  q \in Queue(S) <=> q \in Seq(S) /\ Len(q) <= MaxQueue
<1>1. ASSUME q \in Queue(S) PROVE q \in Seq(S) /\ Len(q) <= MaxQueue
  <2>1. PICK n \in 0 .. MaxQueue : q \in [1 .. n -> S]
    BY <1>1 DEF Queue
  <2> QED
    BY <2>1
<1>2. ASSUME q \in Seq(S), Len(q) <= MaxQueue PROVE q \in Queue(S)
  <2>1. Len(q) \in 0 .. MaxQueue /\ q \in [1 .. Len(q) -> S]
    BY <1>2
  <2> QED
    BY <2>1 DEF Queue
<1> QED
  BY <1>1, <1>2

\* An empty queue is one.
LEMMA EmptyQueue == ASSUME MaxQueue \in Nat \ {0}, NEW S PROVE <<>> \in Queue(S)
<1>1. <<>> \in Seq(S) /\ Len(<<>>) <= MaxQueue
  OBVIOUS
<1> QED
  BY <1>1, QueueIsSeq

\* Push puts the event last, behind what was queued or alone.
LEMMA PushLast ==
    ASSUME MaxQueue \in Nat \ {0}, NEW S, NEW q \in Queue(S), NEW e \in S
    PROVE  /\ Push(q, e) \in Queue(S)
           /\ Push(q, e)[Len(Push(q, e))] = e
           /\ \A i \in 1 .. Len(Push(q, e)) :
                 i # Len(Push(q, e)) => i \in 1 .. Len(q) /\ Push(q, e)[i] = q[i]
<1>1. q \in Seq(S) /\ Len(q) <= MaxQueue
  BY QueueIsSeq
<1>2. CASE Len(q) < MaxQueue
  <2>1. Push(q, e) = Append(q, e)
    BY <1>2 DEF Push
  <2>2. Push(q, e) \in Seq(S) /\ Len(Push(q, e)) = Len(q) + 1
    BY <1>1, <2>1
  <2>3. Push(q, e) \in Queue(S)
    BY <1>1, <1>2, <2>2, QueueIsSeq
  <2> QED
    BY <1>1, <2>1, <2>2, <2>3
<1>3. CASE ~(Len(q) < MaxQueue)
  <2>1. Push(q, e) = <<e>>
    BY <1>3 DEF Push
  <2>2. Push(q, e) \in Seq(S) /\ Len(Push(q, e)) = 1 /\ Len(Push(q, e)) <= MaxQueue
    BY <2>1
  <2>3. Push(q, e) \in Queue(S)
    BY <2>2, QueueIsSeq
  <2> QED
    BY <2>1, <2>2, <2>3
<1> QED
  BY <1>2, <1>3

\* A read takes the first event and keeps the others in their order.
LEMMA TailQueue ==
    ASSUME MaxQueue \in Nat \ {0}, NEW S, NEW q \in Queue(S), q # <<>>
    PROVE  /\ Head(q) \in S
           /\ Head(q) = q[1]
           /\ Len(q) \in Nat \ {0}
           /\ Tail(q) \in Queue(S)
           /\ Len(Tail(q)) = Len(q) - 1
           /\ \A i \in 1 .. Len(Tail(q)) : i + 1 \in 1 .. Len(q) /\ Tail(q)[i] = q[i + 1]
<1>1. q \in Seq(S) /\ Len(q) <= MaxQueue
  BY QueueIsSeq
<1>2. Tail(q) \in Seq(S) /\ Len(Tail(q)) = Len(q) - 1 /\ Len(q) \in Nat \ {0}
  BY <1>1
<1>3. Len(Tail(q)) <= MaxQueue
  BY <1>1, <1>2
<1>4. Tail(q) \in Queue(S)
  BY <1>2, <1>3, QueueIsSeq
<1> QED
  BY <1>1, <1>2, <1>4

----------------------------------------------------------------------------
(* The policy.                                                             *)

\* zlyme_lid_apply keeps the record well-formed.
LEMMA AppliedPolicy ==
    ASSUME NEW q \in Policy, NEW ev \in {"MENU", "PAK", "CLOSE", "STALE", "OPEN", "POWER"}
    PROVE  /\ Applied(q, ev) \in Policy
           /\ Applied(q, ev).busy = q.busy
           /\ ev # "OPEN" => /\ Applied(q, ev).asleep = q.asleep
                             /\ q.lid_closed = TRUE => Applied(q, ev).lid_closed = TRUE
           /\ ev \in Closes => Applied(q, ev).lid_closed = TRUE
<1>1. CASE ev = "MENU"
  BY <1>1 DEF Applied, Policy, Closes
<1>2. CASE ev = "PAK"
  <2>1. Applied(q, ev) = [q EXCEPT !.menu_owns = FALSE, !.in_pak = q.in_pak \/ q.menu_seen]
    BY <1>2 DEF Applied, Closes
  <2>2. (q.in_pak \/ q.menu_seen) \in BOOLEAN
    BY Zenon
  <2> QED
    BY <1>2, <2>1, <2>2 DEF Policy, Closes
<1>3. CASE ev \in Closes
  BY <1>3 DEF Applied, Policy, Closes
<1>4. CASE ev = "OPEN"
  BY <1>4 DEF Applied, Policy, Closes
<1>5. CASE ev = "POWER"
  BY <1>5 DEF Applied, Policy, Closes
<1> QED
  BY <1>1, <1>2, <1>3, <1>4, <1>5 DEF Closes

\* What maybe_lid does: it enters do_mem_sleep with one request, or goes on
\* with none.
LidDone(q, ev, why, back) ==
    /\ p' \in Policy
    /\ ev # "OPEN" => /\ p'.asleep = q.asleep
                      /\ q.lid_closed = TRUE => p'.lid_closed = TRUE
    /\ \/ /\ p'.busy = q.busy /\ kpc' = back /\ UNCHANGED <<kret, cause, lidReqs>>
       \/ /\ guard = FALSE /\ q.busy = FALSE
          /\ p'.busy = TRUE /\ kpc' = "pre" /\ kret' = back /\ cause' = why
          /\ ev \in {"PAK", "CLOSE"} => /\ lidReqs' = Saturate(lidReqs)
                                        /\ q.asleep = FALSE /\ p'.lid_closed = TRUE
          /\ ev = "PAK" => q.lid_closed = TRUE
          /\ ev \notin {"PAK", "CLOSE"} => lidReqs' = lidReqs

\* maybe_lid does so on every policy and event.
LEMMA MaybeLidEffect ==
    ASSUME NEW q \in Policy, NEW ev \in {"MENU", "PAK", "CLOSE", "STALE", "OPEN", "POWER"},
           NEW why, NEW back, guard \in BOOLEAN, MaybeLid(q, ev, why, back)
    PROVE  LidDone(q, ev, why, back)
<1> DEFINE a == Applied(q, ev)
           want == Wants(q, ev, guard)
<1>1. /\ a \in Policy /\ a.busy = q.busy
      /\ ev # "OPEN" => a.asleep = q.asleep /\ (q.lid_closed = TRUE => a.lid_closed = TRUE)
      /\ ev \in Closes => a.lid_closed = TRUE
  BY AppliedPolicy
<1>2. /\ p' = [a EXCEPT !.busy = a.busy \/ want]
      /\ kpc' = IF want THEN "pre" ELSE back
      /\ kret' = IF want THEN back ELSE kret
      /\ cause' = IF want THEN why ELSE cause
      /\ lidReqs' = IF want /\ ev \in {"PAK", "CLOSE"} THEN Saturate(lidReqs) ELSE lidReqs
  BY DEF MaybeLid
<1>3. CASE want
  <2>1. (a.busy \/ want) = TRUE
    BY <1>3, Zenon
  <2>2. p' = [a EXCEPT !.busy = TRUE]
    BY <1>2, <2>1
  <2>3. guard = FALSE /\ q.busy = FALSE
    BY <1>3 DEF Wants, Policy
  <2>4. /\ ev \in {"PAK", "CLOSE"} => q.asleep = FALSE /\ p'.lid_closed = TRUE
        /\ ev = "PAK" => q.lid_closed = TRUE
    BY <1>1, <1>3, <2>2 DEF Wants, Policy, Closes
  <2> QED
    BY <1>1, <1>2, <1>3, <2>2, <2>3, <2>4 DEF Policy, LidDone
<1>4. CASE ~want
  <2>1. (a.busy \/ want) = a.busy
    <3>1. a.busy \in BOOLEAN
      BY <1>1 DEF Policy
    <3> QED
      BY <1>4, <3>1, Zenon
  <2>2. p' = [a EXCEPT !.busy = a.busy]
    BY <1>2, <2>1
  <2> QED
    BY <1>1, <1>2, <1>4, <2>2 DEF Policy, LidDone
<1> QED
  BY <1>3, <1>4

\* zlyme_lid_observe takes the switch as it is.
LEMMA ObservePolicy ==
    ASSUME NEW q \in Policy, NEW l \in {"open", "closed"}
    PROVE  /\ Observe(q, l) \in Policy
           /\ Observe(q, l).busy = q.busy
           /\ Observe(q, l).lid_closed = TRUE <=> l = "closed"
           /\ l = "closed" => Observe(q, l).asleep = q.asleep
<1>1. CASE l = "open"
  BY <1>1 DEF Observe, Applied, Policy, Closes
<1>2. CASE l = "closed"
  BY <1>2 DEF Observe, Policy
<1> QED
  BY <1>1, <1>2

----------------------------------------------------------------------------
(* Its induction.                                                          *)

\* The invariant holds when keylidmon starts, with the lid open or closed.
LEMMA InitInv == ASSUME MaxQueue \in Nat \ {0}, LidInit PROVE Inv
<1>1. hallQ \in Queue(LidEvents) /\ pwrQ \in Queue(Presses)
  BY EmptyQueue DEF LidInit
<1>2. ui \in BOOLEAN /\ guard \in BOOLEAN
  BY Zenon DEF LidInit
<1>3. p \in Policy
  BY DEF LidInit, Policy
<1>4. LidTypeOK
  BY <1>1, <1>2, <1>3 DEF LidInit, LidTypeOK, Sleeping, Presses
<1> QED
  BY <1>4 DEF LidInit, Inv, SleepsWhenAsked, LidRequestedOnce, WakePressIgnored, BusyIsSleep,
              Sleeping, CloseIsLast, PeriodServed, WakeGuarded

\* sync_owner: a request needs a period that is not served yet, and the
\* sample discards what is queued.
LEMMA TopInv == ASSUME MaxQueue \in Nat \ {0}, Inv, Top PROVE Inv'
<1> DEFINE q == Observe(p, lid)
           ev == IF ui THEN "MENU" ELSE "PAK"
<1>1. /\ p \in Policy /\ lid \in {"open", "closed"} /\ guard \in BOOLEAN
      /\ kpc = "top" /\ lidReqs \in 0 .. 1 /\ cause # "wake" /\ p.busy = FALSE
  <2>1. p.busy \in BOOLEAN /\ ~p.busy
    BY DEF Inv, LidTypeOK, Policy, Top, SleepsWhenAsked, BusyIsSleep, Sleeping
  <2>2. p.busy = FALSE
    BY <2>1, Zenon
  <2> QED
    BY <2>2 DEF Inv, LidTypeOK, Top, SleepsWhenAsked, LidRequestedOnce, WakePressIgnored
<1>2. /\ q \in Policy /\ q.busy = FALSE /\ (q.lid_closed = TRUE <=> lid = "closed")
      /\ lid = "closed" => q.asleep = p.asleep
  BY <1>1, ObservePolicy
<1>3. ev \in {"MENU", "PAK"}
  OBVIOUS
<1>4. /\ p' \in Policy
      /\ p'.asleep = q.asleep /\ (q.lid_closed = TRUE => p'.lid_closed = TRUE)
      /\ \/ /\ p'.busy = FALSE /\ kpc' = "poll" /\ UNCHANGED <<kret, cause, lidReqs>>
         \/ /\ guard = FALSE
            /\ p'.busy = TRUE /\ kpc' = "pre" /\ kret' = "poll" /\ cause' = "lid"
            /\ \/ lidReqs' = lidReqs
               \/ /\ lidReqs' = Saturate(lidReqs) /\ q.lid_closed = TRUE
                  /\ q.asleep = FALSE /\ p'.lid_closed = TRUE
  <2>1. MaybeLid(q, ev, "lid", "poll")
    BY DEF Top
  <2>2. ev \in {"MENU", "PAK", "CLOSE", "STALE", "OPEN", "POWER"}
    BY <1>3
  <2> HIDE DEF q, ev
  <2>3. LidDone(q, ev, "lid", "poll")
    BY <1>1, <1>2, <2>1, <2>2, MaybeLidEffect
  <2> QED
    BY <1>2, <1>3, <2>3 DEF LidDone
<1>5. hallQ' = <<>> /\ UNCHANGED <<ui, lid, pwrQ, guard, ready>>
  BY DEF Top
<1>6. <<>> \in Queue(LidEvents)
  BY EmptyQueue
<1> HIDE DEF q, ev
<1>7. LidTypeOK'
  BY <1>1, <1>4, <1>5, <1>6 DEF Inv, LidTypeOK, Saturate, Sleeping
<1>8. PeriodServed' /\ LidRequestedOnce'
  <2>1. CASE lidReqs' = lidReqs
    BY <1>1, <1>2, <1>4, <1>5, <2>1 DEF Inv, PeriodServed, LidRequestedOnce
  <2>2. CASE lidReqs' # lidReqs
    <3>1. /\ lidReqs' = Saturate(lidReqs) /\ q.asleep = FALSE /\ p'.lid_closed = TRUE
          /\ q.lid_closed = TRUE /\ p'.busy = TRUE
      BY <1>4, <2>2
    <3> QED
      BY <1>1, <1>2, <1>5, <3>1 DEF Inv, PeriodServed, LidRequestedOnce, Saturate
  <2> QED
    BY <2>1, <2>2
<1>9. WakePressIgnored' /\ BusyIsSleep'
  BY <1>1, <1>4 DEF WakePressIgnored, BusyIsSleep, Sleeping
<1>10. CloseIsLast'
  BY <1>5 DEF CloseIsLast
<1>11. WakeGuarded'
  BY <1>1, <1>4, <1>5 DEF Inv, WakeGuarded
<1> QED
  BY <1>7, <1>8, <1>9, <1>10, <1>11 DEF Inv, SleepsWhenAsked

\* What the loop may use when it reads an event.
LEMMA NotBusy ==
    ASSUME Inv, kpc \in {"hall", "pwr"}
    PROVE  /\ p \in Policy /\ guard \in BOOLEAN /\ p.busy = FALSE
           /\ lidReqs \in 0 .. 1 /\ cause # "wake"
<1>1. p.busy \in BOOLEAN /\ ~p.busy
  BY DEF Inv, LidTypeOK, Policy, SleepsWhenAsked, BusyIsSleep, Sleeping
<1>2. p.busy = FALSE
  BY <1>1, Zenon
<1> QED
  BY <1>2 DEF Inv, LidTypeOK, SleepsWhenAsked, LidRequestedOnce, WakePressIgnored

\* A hall event: the close that is read is the last one queued, so a request
\* leaves none behind, and none is left to read when the period was served.
LEMMA ReadHallInv == ASSUME MaxQueue \in Nat \ {0}, Inv, ReadHall PROVE Inv'
<1>1. /\ p \in Policy /\ guard \in BOOLEAN /\ p.busy = FALSE
      /\ lidReqs \in 0 .. 1 /\ cause # "wake" /\ kpc = "hall"
  BY NotBusy DEF ReadHall
<1>2. CASE /\ "hall" \in ready /\ hallQ # <<>>
           /\ hallQ' = Tail(hallQ)
           /\ MaybeLid(p, Head(hallQ), "lid", "hall")
  <2>1. /\ Head(hallQ) \in LidEvents /\ Head(hallQ) = hallQ[1]
        /\ Len(hallQ) \in Nat \ {0}
        /\ hallQ' \in Queue(LidEvents)
        /\ Len(hallQ') = Len(hallQ) - 1
        /\ \A i \in 1 .. Len(hallQ') : i + 1 \in 1 .. Len(hallQ) /\ hallQ'[i] = hallQ[i + 1]
    BY <1>2, TailQueue DEF Inv, LidTypeOK
  <2>2. LidDone(p, Head(hallQ), "lid", "hall")
    BY <1>1, <1>2, <2>1, MaybeLidEffect DEF LidEvents
  <2>3. UNCHANGED <<ui, lid, pwrQ, guard, ready>>
    BY DEF ReadHall
  <2>4. lidReqs = 0
    BY <1>2 DEF Inv, PeriodServed
  <2>5. LidTypeOK'
    BY <1>1, <2>1, <2>2, <2>3 DEF Inv, LidTypeOK, LidDone, Saturate, Sleeping
  <2>6. CloseIsLast'
    BY <2>1, <2>3 DEF Inv, CloseIsLast
  <2>7. PeriodServed' /\ LidRequestedOnce'
    <3>1. CASE lidReqs' = lidReqs
      BY <2>4, <3>1 DEF PeriodServed, LidRequestedOnce
    <3>2. CASE lidReqs' # lidReqs
      <4>1. /\ lidReqs' = Saturate(lidReqs) /\ p'.busy = TRUE /\ p'.lid_closed = TRUE
            /\ Head(hallQ) = "CLOSE"
        BY <2>1, <2>2, <3>2 DEF LidDone, LidEvents
      <4>2. lid = "closed" /\ Len(hallQ) = 1
        BY <2>1, <4>1 DEF Inv, CloseIsLast
      <4>3. hallQ' = <<>>
        <5>1. hallQ' \in Seq(LidEvents) /\ Len(hallQ') = 0
          BY <2>1, <4>2, QueueIsSeq
        <5> QED
          BY <5>1
      <4> QED
        BY <2>3, <2>4, <4>1, <4>2, <4>3 DEF PeriodServed, LidRequestedOnce, Saturate
    <3> QED
      BY <3>1, <3>2
  <2>8. WakePressIgnored' /\ BusyIsSleep'
    BY <1>1, <2>2 DEF LidDone, WakePressIgnored, BusyIsSleep, Sleeping
  <2>9. WakeGuarded'
    BY <1>1, <2>2, <2>3 DEF Inv, WakeGuarded, LidDone
  <2> QED
    BY <2>5, <2>6, <2>7, <2>8, <2>9 DEF Inv, SleepsWhenAsked
<1>3. CASE kpc' = "pwr" /\ UNCHANGED <<hallQ, p, kret, cause, lidReqs>>
  <2>1. UNCHANGED <<ui, lid, pwrQ, guard, ready>>
    BY DEF ReadHall
  <2> QED
    BY <1>1, <1>3, <2>1
       DEF Inv, LidTypeOK, SleepsWhenAsked, LidRequestedOnce, WakePressIgnored, BusyIsSleep,
           Sleeping, CloseIsLast, PeriodServed, WakeGuarded
<1> QED
  BY <1>2, <1>3 DEF ReadHall

\* A power press: one that woke the device is read under the guard.
LEMMA ReadPowerInv == ASSUME MaxQueue \in Nat \ {0}, Inv, ReadPower PROVE Inv'
<1>1. /\ p \in Policy /\ guard \in BOOLEAN /\ p.busy = FALSE
      /\ lidReqs \in 0 .. 1 /\ cause # "wake" /\ kpc = "pwr"
  BY NotBusy DEF ReadPower
<1>2. CASE /\ "pwr" \in ready /\ pwrQ # <<>>
           /\ pwrQ' = Tail(pwrQ)
           /\ MaybeLid(p, "POWER", Head(pwrQ), "pwr")
  <2>1. /\ Head(pwrQ) \in Presses /\ Head(pwrQ) = pwrQ[1]
        /\ Len(pwrQ) \in Nat \ {0}
        /\ pwrQ' \in Queue(Presses)
        /\ \A i \in 1 .. Len(pwrQ') : i + 1 \in 1 .. Len(pwrQ) /\ pwrQ'[i] = pwrQ[i + 1]
    BY <1>2, TailQueue DEF Inv, LidTypeOK
  <2>2. LidDone(p, "POWER", Head(pwrQ), "pwr")
    BY <1>1, <1>2, MaybeLidEffect
  <2>3. UNCHANGED <<ui, lid, hallQ, guard, ready>>
    BY DEF ReadPower
  <2>4. LidTypeOK'
    BY <1>1, <2>1, <2>2, <2>3 DEF Inv, LidTypeOK, LidDone, Sleeping
  <2>5. CloseIsLast' /\ PeriodServed' /\ LidRequestedOnce' /\ BusyIsSleep'
    BY <1>1, <2>2, <2>3
       DEF Inv, CloseIsLast, PeriodServed, LidRequestedOnce, LidDone, BusyIsSleep, Sleeping
  <2>6. Head(pwrQ) = "wake" => guard = TRUE
    BY <1>1, <2>1 DEF Inv, WakeGuarded
  <2>7. WakePressIgnored'
    BY <1>1, <2>2, <2>6 DEF WakePressIgnored, LidDone
  <2>8. WakeGuarded'
    BY <1>1, <2>1, <2>2, <2>3 DEF Inv, WakeGuarded, LidDone
  <2> QED
    BY <2>4, <2>5, <2>7, <2>8 DEF Inv, SleepsWhenAsked
<1>3. CASE kpc' = "top" /\ UNCHANGED <<pwrQ, p, kret, cause, lidReqs>>
  <2>1. UNCHANGED <<ui, lid, hallQ, guard, ready>>
    BY DEF ReadPower
  <2> QED
    BY <1>1, <1>3, <2>1
       DEF Inv, LidTypeOK, SleepsWhenAsked, LidRequestedOnce, WakePressIgnored, BusyIsSleep,
           Sleeping, CloseIsLast, PeriodServed, WakeGuarded
<1> QED
  BY <1>2, <1>3 DEF ReadPower

\* do_mem_sleep is over: the closed period is used up and the guard is on.
LEMMA ResumeInv == ASSUME Inv, Resume PROVE Inv'
<1>1. /\ p \in Policy /\ kpc = "resume" /\ kret \in {"poll", "hall", "pwr"}
      /\ guard' = TRUE /\ p' = SuspendDone(p) /\ kpc' = kret
      /\ UNCHANGED <<ui, lid, hallQ, pwrQ, kret, cause, lidReqs, ready>>
  BY DEF Inv, LidTypeOK, Resume
<1>2. (p.asleep \/ p.lid_closed) \in BOOLEAN /\ (p.lid_closed = TRUE => (p.asleep \/ p.lid_closed) = TRUE)
  BY Zenon
<1>3. p' = [p EXCEPT !.busy = FALSE, !.asleep = p.asleep \/ p.lid_closed]
  BY <1>1 DEF SuspendDone
<1>4. /\ p' \in Policy /\ p'.busy = FALSE /\ p'.lid_closed = p.lid_closed
      /\ p.lid_closed = TRUE => p'.asleep = TRUE
  BY <1>1, <1>2, <1>3 DEF Policy
<1>5. guard' \in BOOLEAN
  BY <1>1, Zenon
<1>6. LidTypeOK'
  BY <1>1, <1>4, <1>5 DEF Inv, LidTypeOK
<1> QED
  BY <1>1, <1>4, <1>6
     DEF Inv, SleepsWhenAsked, LidRequestedOnce, WakePressIgnored, BusyIsSleep, Sleeping,
         CloseIsLast, PeriodServed, WakeGuarded

\* The lid closes: its event is the last one.
LEMMA CloseLidInv == ASSUME MaxQueue \in Nat \ {0}, Inv, CloseLid PROVE Inv'
<1>1. /\ lid = "open" /\ lid' = "closed" /\ hallQ' = Push(hallQ, "CLOSE")
      /\ UNCHANGED <<ui, pwrQ, p, guard, kpc, kret, cause, lidReqs, ready>>
  BY DEF CloseLid
<1>2. /\ hallQ \in Queue(LidEvents) /\ "CLOSE" \in LidEvents
  BY DEF Inv, LidTypeOK, LidEvents
<1>3. /\ hallQ' \in Queue(LidEvents)
      /\ \A i \in 1 .. Len(hallQ') :
            i # Len(hallQ') => i \in 1 .. Len(hallQ) /\ hallQ'[i] = hallQ[i]
  BY <1>1, <1>2, PushLast
<1>4. lidReqs = 0
  BY <1>1 DEF Inv, PeriodServed
<1>5. CloseIsLast'
  BY <1>1, <1>3 DEF Inv, CloseIsLast
<1> QED
  BY <1>1, <1>3, <1>4, <1>5
     DEF Inv, LidTypeOK, SleepsWhenAsked, LidRequestedOnce, WakePressIgnored, BusyIsSleep,
         PeriodServed, WakeGuarded

\* The lid opens: the closes that are still queued are of an earlier period.
LEMMA OpenLidInv == ASSUME MaxQueue \in Nat \ {0}, Inv, OpenLid PROVE Inv'
<1> DEFINE old == [i \in DOMAIN hallQ |-> IF hallQ[i] = "CLOSE" THEN "STALE" ELSE hallQ[i]]
<1>1. /\ lid' = "open" /\ hallQ' = Push(old, "OPEN")
      /\ kpc' = IF kpc = "mem" THEN "resume" ELSE kpc
      /\ lidReqs' = 0
      /\ UNCHANGED <<ui, pwrQ, p, guard, kret, cause, ready>>
  BY DEF OpenLid
<1>2. hallQ \in Seq(LidEvents) /\ Len(hallQ) <= MaxQueue
  BY QueueIsSeq DEF Inv, LidTypeOK
<1>3. /\ old \in Seq(LidEvents) /\ Len(old) = Len(hallQ)
      /\ \A i \in 1 .. Len(old) : old[i] # "CLOSE"
  <2>1. DOMAIN hallQ = 1 .. Len(hallQ) /\ Len(hallQ) \in Nat
    BY <1>2
  <2>2. old \in [1 .. Len(hallQ) -> LidEvents]
    BY <1>2, <2>1 DEF LidEvents
  <2>3. \A i \in 1 .. Len(hallQ) : old[i] # "CLOSE"
    BY <2>1
  <2> HIDE DEF old
  <2> QED
    BY <2>1, <2>2, <2>3
<1>4. old \in Queue(LidEvents) /\ "OPEN" \in LidEvents
  BY <1>2, <1>3, QueueIsSeq DEF LidEvents
<1> HIDE DEF old
<1>5. /\ hallQ' \in Queue(LidEvents)
      /\ hallQ'[Len(hallQ')] = "OPEN"
      /\ \A i \in 1 .. Len(hallQ') :
            i # Len(hallQ') => i \in 1 .. Len(old) /\ hallQ'[i] = old[i]
  BY <1>1, <1>4, PushLast
<1>6. CloseIsLast'
  BY <1>3, <1>5 DEF CloseIsLast
<1>7. LidTypeOK'
  BY <1>1, <1>5 DEF Inv, LidTypeOK, Sleeping
<1> QED
  BY <1>1, <1>6, <1>7
     DEF Inv, SleepsWhenAsked, LidRequestedOnce, WakePressIgnored, BusyIsSleep, Sleeping,
         PeriodServed, WakeGuarded

\* Power is pressed: a press that wakes the device comes before its Resume.
LEMMA PressPowerInv == ASSUME MaxQueue \in Nat \ {0}, Inv, PressPower PROVE Inv'
<1> DEFINE e == IF Awake THEN "user" ELSE "wake"
<1>1. /\ pwrQ' = Push(pwrQ, e)
      /\ kpc' = IF kpc = "mem" THEN "resume" ELSE kpc
      /\ UNCHANGED <<ui, lid, hallQ, p, guard, kret, cause, lidReqs, ready>>
  BY DEF PressPower
<1>2. e \in Presses /\ (e = "wake" => kpc = "mem")
  BY DEF Presses, Awake
<1> HIDE DEF e
<1>3. /\ pwrQ' \in Queue(Presses)
      /\ pwrQ'[Len(pwrQ')] = e
      /\ \A i \in 1 .. Len(pwrQ') :
            i # Len(pwrQ') => i \in 1 .. Len(pwrQ) /\ pwrQ'[i] = pwrQ[i]
  BY <1>1, <1>2, PushLast DEF Inv, LidTypeOK
<1>4. WakeGuarded'
  BY <1>1, <1>2, <1>3 DEF Inv, WakeGuarded
<1>5. LidTypeOK'
  BY <1>1, <1>3 DEF Inv, LidTypeOK, Sleeping
<1> QED
  BY <1>1, <1>4, <1>5
     DEF Inv, SleepsWhenAsked, LidRequestedOnce, WakePressIgnored, BusyIsSleep, Sleeping,
         CloseIsLast, PeriodServed

\* Every step of the loop and of the device around it keeps the invariant.
LEMMA NextInv == ASSUME MaxQueue \in Nat \ {0}, Inv, [LidNext]_lidVars PROVE Inv'
<1> USE DEF Inv, LidTypeOK, SleepsWhenAsked, LidRequestedOnce, WakePressIgnored, BusyIsSleep,
            Sleeping, CloseIsLast, PeriodServed, WakeGuarded
<1>1. CASE Top
  BY <1>1, TopInv
<1>2. CASE Poll
  BY <1>2 DEF Poll
<1>3. CASE ReadHall
  BY <1>3, ReadHallInv
<1>4. CASE ReadPower
  BY <1>4, ReadPowerInv
<1>5. CASE Suspend
  BY <1>5 DEF Suspend
<1>6. CASE Resume
  BY <1>6, ResumeInv
<1>7. CASE ExpireGuard
  <2>1. guard' \in BOOLEAN
    BY <1>7, Zenon DEF ExpireGuard
  <2>2. LidTypeOK'
    BY <1>7, <2>1 DEF ExpireGuard
  <2> QED
    BY <1>7, <2>2 DEF ExpireGuard
<1>8. CASE CloseLid
  BY <1>8, CloseLidInv
<1>9. CASE OpenLid
  BY <1>9, OpenLidInv
<1>10. CASE PressPower
  BY <1>10, PressPowerInv
<1>11. CASE OtherWake
  BY <1>11 DEF OtherWake
<1>12. CASE UiToggles
  <2>1. ui' \in BOOLEAN
    BY <1>12, Zenon DEF UiToggles
  <2> QED
    BY <1>12, <2>1 DEF UiToggles
<1>13. CASE UNCHANGED lidVars
  BY <1>13 DEF lidVars
<1> QED
  BY <1>1, <1>2, <1>3, <1>4, <1>5, <1>6, <1>7, <1>8, <1>9, <1>10, <1>11, <1>12, <1>13
     DEF LidNext, LidLoop, Device

----------------------------------------------------------------------------

\* keylidmon asks for one suspend per closed period, none for the press that
\* woke the device, and is busy exactly while do_mem_sleep runs, however many
\* events the input devices queue before they drop some.
THEOREM SleepsWhenAskedThm ==
    ASSUME MaxQueue \in Nat \ {0} PROVE LidSpec => []SleepsWhenAsked
<1>1. LidInit => Inv
  BY InitInv
<1>2. Inv /\ [LidNext]_lidVars => Inv'
  BY NextInv
<1>3. Inv => SleepsWhenAsked
  BY DEF Inv
<1> QED
  BY <1>1, <1>2, <1>3, PTL DEF LidSpec
=============================================================================
