----------------------------- MODULE LoopProofs -----------------------------
(* Proofs about the two loops of Apostrophe: the download manager for any  *)
(* number of downloads, threads and slots, and the input loop for any      *)
(* pads, screens, combos and timings.                                      *)
EXTENDS ApDownload, ApInput, FiniteSetTheorems, SequenceTheorems, WellFoundedInduction,
        TLAPS

----------------------------------------------------------------------------
(* The download manager.                                                   *)

States == {"pending", "downloading", "complete", "failed"}
WorkerSteps == {"none", "created", "late", "open", "transfer", "got", "lost", "remove", "count",
                "gone"}
FileStates == {"none", "part", "whole", "short"}
\* What a transfer that ended well leaves.
Written == {"whole"} \cup (IF "flush" \in DlFaults THEN {"short"} ELSE {})
DlTypes ==
    /\ status \in [D -> States] /\ worker \in [D -> WorkerSteps]
    /\ file \in [D -> FileStates]
    /\ next \in 1 .. DlCount + 1 /\ active \in Int /\ completed \in Int
    /\ cancel \in BOOLEAN /\ joinable \subseteq D /\ lock \in BOOLEAN
    /\ ui \in {"dispatch", "snapshot", "input", "join", "cancelled", "error", "ok"}
    /\ seen \in [status : [D -> States], done : Int, all : BOOLEAN]
    /\ result \in [completed : Int, failed : Int, cancelled : BOOLEAN]

\* What has been counted: a download without a thread that is over.
Counted == {d \in D : status[d] \in Over /\ worker[d] \in {"none", "gone"}}

\* Until the user cancels, the state of a download is the one its thread is at,
\* and the count is that of the downloads that are over.
StatusFits ==
    \A d \in D :
        /\ worker[d] = "none" => status[d] \in {"pending", "failed"}
        /\ worker[d] = "created" => status[d] = "pending"
        /\ worker[d] \in {"open", "transfer", "got", "lost"} => status[d] = "downloading"
        /\ worker[d] # "late"
        /\ worker[d] = "remove" => status[d] = "failed"
        /\ worker[d] \in {"count", "gone"} => status[d] \in Over
        /\ d >= next => status[d] = "pending"
        /\ worker[d] = "got" \/ status[d] = "complete" => file[d] \in Written
Uncancelled == ~cancel => StatusFits /\ completed = Cardinality(Counted)

\* Threads belong to downloads that were dispatched, the lock to a dispatcher
\* that was not cancelled, and the answer knows of a cancel.
Dispatched ==
    /\ \A d \in D : d >= next => worker[d] = "none"
    /\ lock => ui = "dispatch" /\ ~cancel
    /\ result.cancelled = cancel

\* From the snapshot in which all is over, nothing changes any more.
Exact == result.completed = In(status, "complete") /\ result.failed = In(status, "failed")
LastFrames ==
    ~cancel /\ ((ui = "input" /\ seen.all) \/ ui \in {"join", "error", "ok", "cancelled"})
        => Settled /\ Exact

\* With slots enough every thread is joined.
Joined ==
    DlCount <= Slots =>
        /\ joinable = {d \in D : worker[d] # "none"}
        /\ Returned => \A d \in joinable : worker[d] = "gone"

DlInv == DlTypes /\ Uncancelled /\ Dispatched /\ LastFrames /\ Joined

LEMMA DlInitInv == ASSUME DlInit PROVE DlInv
<1> USE DlAssumption DEF DlInit
<1>1. DlTypes
  <2>1. [d \in D |-> "pending"] \in [D -> States] /\ [d \in D |-> "none"] \in [D -> WorkerSteps]
    BY DEF States, WorkerSteps
  <2>2. [d \in D |-> "none"] \in [D -> FileStates] /\ 1 \in 1 .. DlCount + 1
    BY DEF FileStates
  <2>3. [status |-> [d \in D |-> "pending"], done |-> 0, all |-> FALSE]
          \in [status : [D -> States], done : Int, all : BOOLEAN]
    BY <2>1
  <2>4. [completed |-> 0, failed |-> 0, cancelled |-> FALSE]
          \in [completed : Int, failed : Int, cancelled : BOOLEAN]
    OBVIOUS
  <2> QED
    BY <2>1, <2>2, <2>3, <2>4 DEF DlTypes
<1>2. Counted = {}
  BY DEF Counted, Over
<1>3. Cardinality(Counted) = 0
  BY <1>2, FS_EmptySet
<1>4. Uncancelled /\ Dispatched /\ LastFrames /\ Joined
  BY <1>3 DEF Uncancelled, StatusFits, Dispatched, LastFrames, Joined, Over, Returned
<1> QED
  BY <1>1, <1>4 DEF DlInv

LEMMA CountedFinite == IsFiniteSet(Counted) /\ Cardinality(Counted) \in Nat /\ IsFiniteSet(D)
                       /\ Cardinality(D) = DlCount
<1>1. IsFiniteSet(D) /\ Cardinality(D) = DlCount
  BY DlAssumption, FS_Interval DEF D
<1> QED
  BY <1>1, FS_Subset, FS_CardinalityType DEF Counted

\* All is over when as many are counted as there are.
LEMMA AllCounted ==
    ASSUME DlInv, ~cancel, completed >= DlCount PROVE Settled
<1>1. completed = Cardinality(Counted) /\ Counted \subseteq D
  BY DEF DlInv, Uncancelled, Counted
<1>2. Cardinality(Counted) = Cardinality(D)
  BY <1>1, CountedFinite, FS_Subset, DlAssumption
<1>3. Counted = D
  BY <1>1, <1>2, CountedFinite, FS_Subset
<1> QED
  BY <1>3 DEF Settled, DlInv, Uncancelled, StatusFits, Counted, Written

\* A step of the thread of one download that is not counted by it.
LEMMA WorkerStep ==
    ASSUME DlInv, NEW d \in D, worker[d] \notin {"none", "gone"},
           NEW to \in WorkerSteps \ {"none", "gone", "created"}, NEW st \in States,
           NEW f \in FileStates,
           worker' = [worker EXCEPT ![d] = to], status' = [status EXCEPT ![d] = st],
           file' = [file EXCEPT ![d] = f],
           UNCHANGED <<active, completed, next, cancel, joinable, lock, ui, seen, result>>,
           ~cancel => /\ to \in {"open", "transfer", "got", "lost"} => st = "downloading"
                      /\ to # "late"
                      /\ to = "remove" => st = "failed"
                      /\ to = "count" => st \in Over
                      /\ to = "got" \/ st = "complete" => f \in Written
    PROVE  DlInv'
<1>1. DlTypes'
  BY DEF DlInv, DlTypes
<1>2. D = 1 .. DlCount /\ ~Settled
  BY DEF D, Settled
<1>3. Counted' = Counted
  BY DEF Counted, DlInv, DlTypes, WorkerSteps
<1>4. ~cancel => StatusFits'
  BY DEF DlInv, DlTypes, Uncancelled, StatusFits, Dispatched, WorkerSteps, D
<1>5. Uncancelled' /\ Dispatched'
  BY <1>3, <1>4 DEF DlInv, DlTypes, Uncancelled, Dispatched
<1>6. LastFrames'
  BY <1>2 DEF DlInv, LastFrames
<1>7. Joined'
  BY DEF DlInv, DlTypes, Joined, Returned
<1> QED
  BY <1>1, <1>5, <1>6, <1>7 DEF DlInv

LEMMA DispatchInv == ASSUME DlInv, NEW how \in {"ok", "thread", "calloc"}, DispatchOne(how) PROVE DlInv'
<1>1. /\ next \in D /\ ~cancel /\ worker[next] = "none" /\ status[next] = "pending"
      /\ ui = "dispatch" /\ lock /\ next' = next + 1 /\ UNCHANGED <<file, cancel, seen, result>>
  BY DlAssumption DEF D, DlInv, DlTypes, Dispatched, DispatchOne, Room
<1>2. D = 1 .. DlCount
  BY DEF D
<1>3. CASE how = "ok"
  <2>1. /\ worker' = [worker EXCEPT ![next] = "created"] /\ active' = active + 1
        /\ joinable' = IF Cardinality(joinable) < Slots THEN joinable \cup {next} ELSE joinable
        /\ UNCHANGED <<status, completed, lock, ui>>
    BY <1>3 DEF DispatchOne
  <2>2. DlTypes'
    BY <1>1, <1>2, <2>1, DlAssumption DEF DlInv, DlTypes, WorkerSteps
  <2>3. StatusFits'
    BY <1>1, <1>2, <2>1 DEF DlInv, DlTypes, Uncancelled, StatusFits, Over
  <2>4. Counted' = Counted
    BY <1>1, <2>1 DEF Counted, DlInv, DlTypes, Over
  <2>5. Dispatched' /\ LastFrames'
    BY <1>1, <1>2, <2>1 DEF DlInv, DlTypes, Dispatched, LastFrames
  <2>6. Joined'
    <3>1. SUFFICES ASSUME DlCount <= Slots PROVE Joined'
      BY DEF Joined
    <3>2. joinable \subseteq D \ {next}
      BY <1>1, <3>1 DEF DlInv, DlTypes, Joined
    <3>3. Cardinality(D \ {next}) = DlCount - 1 /\ IsFiniteSet(D \ {next})
      BY <1>1, CountedFinite, FS_RemoveElement
    <3>4. Cardinality(joinable) < Slots
      BY <3>1, <3>2, <3>3, FS_Subset, FS_CardinalityType, DlAssumption
    <3>5. joinable' = {d \in D : worker'[d] # "none"}
      BY <1>1, <2>1, <3>1, <3>4 DEF DlInv, DlTypes, Joined
    <3> QED
      BY <1>1, <2>1, <3>5 DEF Joined, Returned
  <2> QED
    BY <1>1, <2>1, <2>2, <2>3, <2>4, <2>5, <2>6 DEF DlInv, Uncancelled
<1>4. CASE how = "thread"
  <2>1. /\ status' = [status EXCEPT ![next] = "failed"] /\ completed' = completed + 1
        /\ UNCHANGED <<worker, active, joinable, lock, ui>>
    BY <1>4 DEF DispatchOne
  <2>2. DlTypes'
    <3>1. status' \in [D -> States]
      BY <1>1, <2>1 DEF DlInv, DlTypes, States
    <3>2. next' \in 1 .. DlCount + 1 /\ completed' \in Int
      BY <1>1, <1>2, <2>1, DlAssumption DEF DlInv, DlTypes
    <3>3. joinable' \subseteq D /\ worker' \in [D -> WorkerSteps]
          /\ file' \in [D -> FileStates] /\ active' \in Int
      BY <1>1, <2>1 DEF DlInv, DlTypes
    <3>4. /\ seen' \in [status : [D -> States], done : Int, all : BOOLEAN]
          /\ result' \in [completed : Int, failed : Int, cancelled : BOOLEAN]
      BY <1>1, <2>1 DEF DlInv, DlTypes
    <3>5. lock' \in BOOLEAN /\ cancel' \in BOOLEAN /\ ui' = "dispatch"
      BY <1>1, <2>1 DEF DlInv, DlTypes
    <3> QED
      BY <3>1, <3>2, <3>3, <3>4, <3>5 DEF DlTypes
  <2>3. StatusFits'
    BY <1>1, <1>2, <2>1 DEF DlInv, DlTypes, Uncancelled, StatusFits, Over
  <2>4. Counted' = Counted \cup {next} /\ next \notin Counted
    BY <1>1, <2>1 DEF Counted, DlInv, DlTypes, Over
  <2>5. Cardinality(Counted') = Cardinality(Counted) + 1
    BY <2>4, CountedFinite, FS_AddElement
  <2>6. Dispatched' /\ LastFrames'
    BY <1>1, <1>2, <2>1 DEF DlInv, DlTypes, Dispatched, LastFrames
  <2>7. Joined'
    BY <1>1, <2>1 DEF DlInv, Joined, Returned
  <2> QED
    BY <1>1, <2>1, <2>2, <2>3, <2>5, <2>6, <2>7 DEF DlInv, Uncancelled
<1>5. CASE how = "calloc"
  <2>1. /\ lock' = FALSE /\ ui' = "snapshot"
        /\ UNCHANGED <<status, worker, active, completed, joinable>>
    BY <1>5 DEF DispatchOne
  <2>2. DlTypes'
    <3>1. next' \in 1 .. DlCount + 1
      BY <1>1, <1>2, DlAssumption
    <3> QED
      BY <1>1, <2>1, <3>1 DEF DlInv, DlTypes
  <2>3. StatusFits' /\ Counted' = Counted
    BY <1>1, <1>2, <2>1 DEF DlInv, DlTypes, Uncancelled, StatusFits, Counted
  <2>4. Dispatched' /\ LastFrames' /\ Joined'
    BY <1>1, <1>2, <2>1 DEF DlInv, DlTypes, Dispatched, LastFrames, Joined, Returned
  <2> QED
    BY <1>1, <2>1, <2>2, <2>3, <2>4 DEF DlInv, Uncancelled
<1> QED
  BY <1>3, <1>4, <1>5

\* A step that leaves the downloads, their threads and the count alone.
LEMMA LoopStep ==
    ASSUME DlInv, DlTypes', UNCHANGED <<status, worker, file, next, completed, joinable>>,
           cancel' = cancel, Dispatched', LastFrames',
           Returned' /\ ~Returned => \A d \in joinable : worker[d] = "gone"
    PROVE  DlInv'
<1>1. Counted' = Counted
  BY DEF Counted
<1>2. Uncancelled'
  BY <1>1 DEF DlInv, Uncancelled, StatusFits
<1>3. Joined'
  BY DEF DlInv, Joined
<1> QED
  BY <1>2, <1>3 DEF DlInv

LEMMA SnapshotInv == ASSUME DlInv, Snapshot PROVE DlInv'
<1> USE DEF Snapshot
<1>1. \A s \in States : In(status, s) \in Int
  BY CountedFinite, FS_Subset, FS_CardinalityType DEF In
<1>2. DlTypes'
  <2>1. seen' \in [status : [D -> States], done : Int, all : BOOLEAN]
    BY DEF DlInv, DlTypes
  <2>2. result' \in [completed : Int, failed : Int, cancelled : BOOLEAN]
    BY <1>1 DEF States, DlInv, DlTypes
  <2> QED
    BY <2>1, <2>2 DEF DlInv, DlTypes
<1>3. Dispatched'
  BY DEF DlInv, DlTypes, Dispatched
<1>4. LastFrames'
  <2>1. SUFFICES ASSUME ~cancel, completed >= DlCount PROVE Settled' /\ Exact'
    BY <1>3 DEF LastFrames, DlInv, DlTypes
  <2>2. Settled'
    BY <2>1, AllCounted DEF Settled
  <2>3. Exact'
    BY DEF Exact, In
  <2> QED
    BY <2>2, <2>3
<1> QED
  BY <1>2, <1>3, <1>4, LoopStep DEF Returned

LEMMA PressYInv == ASSUME DlInv, PressY PROVE DlInv'
<1> USE DEF PressY
<1>1. In(status, "pending") \in Int
  BY CountedFinite, FS_Subset, FS_CardinalityType DEF In
<1>2. [d \in D |-> IF status[d] \in {"pending", "downloading"} THEN "failed" ELSE status[d]]
        \in [D -> States]
  BY DEF DlInv, DlTypes, States
<1>3. DlTypes'
  <2>1. status' \in [D -> States]
    BY <1>2
  <2>2. seen' \in [status : [D -> States], done : Int, all : BOOLEAN]
    BY <2>1 DEF DlInv, DlTypes
  <2>3. result' \in [completed : Int, failed : Int, cancelled : BOOLEAN]
    BY DEF DlInv, DlTypes
  <2>4. completed' \in Int
    BY <1>1 DEF DlInv, DlTypes
  <2> QED
    BY <2>1, <2>2, <2>3, <2>4 DEF DlInv, DlTypes
<1>4. Uncancelled' /\ Dispatched' /\ LastFrames'
  BY DEF DlInv, DlTypes, Uncancelled, Dispatched, LastFrames
<1>5. Joined'
  BY DEF DlInv, Joined, Returned
<1> QED
  BY <1>3, <1>4, <1>5 DEF DlInv

LEMMA CountInv == ASSUME DlInv, NEW d \in D, Count(d) PROVE DlInv'
<1> USE DEF Count, Step, Same
<1>1. DlTypes'
  BY DEF DlInv, DlTypes, WorkerSteps
<1>2. ~cancel => StatusFits'
  BY DEF DlInv, DlTypes, Uncancelled, StatusFits, Dispatched, D
<1>3. ~cancel => completed' = Cardinality(Counted')
  <2>1. SUFFICES ASSUME ~cancel PROVE completed' = Cardinality(Counted')
    OBVIOUS
  <2>2. Counted' = Counted \cup {d} /\ d \notin Counted
    BY <2>1 DEF Counted, DlInv, DlTypes, Uncancelled, StatusFits, Over
  <2> QED
    BY <2>1, <2>2, CountedFinite, FS_AddElement DEF DlInv, Uncancelled
<1>4. Dispatched' /\ LastFrames'
  BY DEF DlInv, DlTypes, Dispatched, LastFrames, Settled
<1>5. Joined'
  BY DEF DlInv, DlTypes, Joined, Returned
<1> QED
  BY <1>1, <1>2, <1>3, <1>4, <1>5 DEF DlInv, Uncancelled

LEMMA ThreadInv == ASSUME DlInv, NEW d \in D, Thread(d) PROVE DlInv'
<1> USE DEF Goes, Step, Same
<1>1. status[d] \in States /\ file[d] \in FileStates
      /\ status = [status EXCEPT ![d] = status[d]] /\ file = [file EXCEPT ![d] = file[d]]
  BY DEF DlInv, DlTypes
<1>2. CASE Begin(d)
  BY <1>1, <1>2, WorkerStep DEF Begin, States, WorkerSteps, DlInv, Uncancelled, StatusFits
<1>3. CASE BeganLate(d)
  BY <1>1, <1>3, WorkerStep DEF BeganLate, States, WorkerSteps, Over
<1>4. CASE Got(d)
  BY <1>1, <1>4, WorkerStep DEF Got, States, WorkerSteps, Over, DlInv, Uncancelled, StatusFits
<1>5. CASE Lost(d)
  BY <1>1, <1>5, WorkerStep DEF Lost, States, WorkerSteps
<1>6. CASE Discard(d)
  BY <1>1, <1>6, WorkerStep DEF Discard, States, WorkerSteps, FileStates, Over, DlInv, Uncancelled, StatusFits
<1>7. CASE Count(d)
  BY <1>7, CountInv
<1>8. ASSUME NEW how \in {"ok", "open", "curl"}, Open(d, how) PROVE DlInv'
  <2> USE <1>1, <1>8, WorkerStep DEF Open, States, WorkerSteps, FileStates, Over, DlInv, Uncancelled, StatusFits
  <2>1. CASE how = "ok"
    <3>1. /\ worker[d] = "open" /\ worker' = [worker EXCEPT ![d] = "transfer"]
          /\ status' = [status EXCEPT ![d] = status[d]] /\ file' = [file EXCEPT ![d] = "part"]
          /\ UNCHANGED <<active, completed, next, cancel, joinable, lock, ui, seen, result>>
      BY <1>8, <2>1 DEF Open
    <3>2. ~cancel => status[d] = "downloading"
      BY <3>1 DEF DlInv, Uncancelled, StatusFits
    <3> QED
      BY <1>1, <3>1, <3>2, WorkerStep DEF WorkerSteps, FileStates
  <2>2. CASE how = "open"
    BY <2>2
  <2>3. CASE how = "curl"
    BY <2>3
  <2> QED
    BY <2>1, <2>2, <2>3
<1>9. ASSUME NEW how \in {"ok", "short", "aborted", "error"}, Transfer(d, how) PROVE DlInv'
  <2> DEFINE to == IF how \in {"ok", "short"} THEN "got" ELSE "lost"
             f == CASE how = "ok" -> "whole" [] how = "short" -> "short" [] OTHER -> file[d]
  <2>1. /\ worker[d] = "transfer" /\ worker' = [worker EXCEPT ![d] = to]
        /\ status' = [status EXCEPT ![d] = status[d]] /\ file' = [file EXCEPT ![d] = f]
        /\ UNCHANGED <<active, completed, next, cancel, joinable, lock, ui, seen, result>>
    BY <1>1, <1>9 DEF Transfer
  <2>2. ~cancel => status[d] = "downloading"
    BY <2>1 DEF DlInv, Uncancelled, StatusFits
  <2>3. f \in FileStates /\ (to = "got" => f \in Written)
    BY <1>1, <1>9 DEF Transfer, FileStates, Written
  <2>4. to \in {"got", "lost"}
    OBVIOUS
  <2> HIDE DEF to, f
  <2> QED BY <1>1, <2>1, <2>2, <2>3, <2>4, WorkerStep DEF WorkerSteps
<1> QED
  BY <1>2, <1>3, <1>4, <1>5, <1>6, <1>7, <1>8, <1>9 DEF Thread

LEMMA DlStepInv == ASSUME DlInv, [DlNext]_dvars PROVE DlInv'
<1>1. CASE DispatchBegin
  <2> USE <1>1 DEF DispatchBegin
  <2>1. DlTypes' /\ Dispatched' /\ LastFrames'
    BY DEF DlInv, DlTypes, Dispatched, LastFrames
  <2> QED
    BY <2>1, LoopStep DEF Returned
<1>2. CASE DispatchSkipped
  <2> USE <1>2 DEF DispatchSkipped
  <2>1. DlTypes' /\ Dispatched' /\ LastFrames'
    BY DEF DlInv, DlTypes, Dispatched, LastFrames
  <2> QED
    BY <2>1, LoopStep DEF Returned
<1>3. CASE DispatchEnd
  <2> USE <1>3 DEF DispatchEnd
  <2>1. DlTypes' /\ Dispatched' /\ LastFrames'
    BY DEF DlInv, DlTypes, Dispatched, LastFrames
  <2> QED
    BY <2>1, LoopStep DEF Returned
<1>4. CASE Snapshot
  BY <1>4, SnapshotInv
<1>5. CASE Frame
  <2> USE <1>5 DEF Frame
  <2>1. DlTypes' /\ Dispatched' /\ LastFrames'
    BY DEF DlInv, DlTypes, Dispatched, LastFrames, Settled, Exact, In
  <2> QED
    BY <2>1, LoopStep DEF Returned
<1>6. CASE Return
  <2> USE <1>6 DEF Return
  <2>1. DlTypes' /\ Dispatched' /\ LastFrames'
    BY DEF DlInv, DlTypes, Dispatched, LastFrames, Settled, Exact, In
  <2> QED
    BY <2>1, LoopStep DEF Returned
<1>7. CASE PressA
  <2> USE <1>7 DEF PressA
  <2>1. DlTypes' /\ Dispatched' /\ LastFrames'
    BY DEF DlInv, DlTypes, Dispatched, LastFrames, Settled, Exact, In
  <2> QED
    BY <2>1, LoopStep DEF Returned
<1>8. CASE UNCHANGED dvars
  <2> USE <1>8 DEF dvars
  <2>1. DlTypes' /\ Dispatched' /\ LastFrames'
    BY DEF DlInv, DlTypes, Dispatched, LastFrames, Settled, Exact, In
  <2> QED
    BY <2>1, LoopStep DEF Returned
<1> QED
  BY <1>1, <1>2, <1>3, <1>4, <1>5, <1>6, <1>7, <1>8, DispatchInv, PressYInv, ThreadInv
  DEF DlNext, ManagerLoop

\* The download manager reports exactly what happened to every transfer, and no
\* thread works with the counters on its stack after it returned, for any
\* number of downloads and any of the faults; a file reported as complete is
\* whole where the last flush cannot fail (ap_download_manager).
THEOREM ResultExactThm == DlSpec => []ResultExact
<1>1. DlInv => ResultExact
  BY DEF DlInv, DlTypes, Dispatched, LastFrames, Joined, ResultExact, CountsExact, NoneLeftBehind,
         Exact, Returned
<1> QED
  BY <1>1, DlInitInv, DlStepInv, PTL DEF DlSpec

----------------------------------------------------------------------------
(* The footer: what the recursive functions of its layout compute is reached *)
(* from 0 upwards, which a well-founded order makes into a proof.            *)

LEMMA ElementIn == ASSUME NEW S, NEW s \in Seq(S), NEW n \in 1 .. Len(s) PROVE s[n] \in S
OBVIOUS

\* A set that holds 0 and goes up from each of its members holds all up to n.
LEMMA Climb ==
    ASSUME NEW n \in Nat, NEW G, 0 \in G, \A k \in 1 .. n : k - 1 \in G => k \in G
    PROVE  n \in G
<1> DEFINE Less == {ss \in Nat \X Nat : ss[1] < ss[2]}
           K == (0 .. n) \ G
<1> SUFFICES ASSUME n \notin G PROVE FALSE
  OBVIOUS
<1>0. n \in K
  OBVIOUS
<1>1. IsWellFoundedOn(Less, Nat)
  BY NatLessThanWellFounded DEF OpToRel
<1>2. \A k \in Nat : k # 0 => k - 1 \in Nat /\ <<k - 1, k>> \in Less
  OBVIOUS
<1> HIDE DEF Less
<1>3. K \subseteq Nat
  OBVIOUS
<1>4. PICK m \in K : \A y \in K : ~(<<y, m>> \in Less)
  BY <1>0, <1>1, <1>3, WFMin
<1>5. m \in 1 .. n /\ m \notin G
  BY <1>4
<1>6. m - 1 \in 0 .. n
  BY <1>5
<1>7. <<m - 1, m>> \in Less
  BY <1>2, <1>5
<1>8. m - 1 \notin K
  <2> HIDE DEF K
  <2> QED
    BY <1>4, <1>7
<1> QED
  BY <1>5, <1>6, <1>8

\* A set of numbers up to n has a last one.
LEMMA LastIs ==
    ASSUME NEW n \in Nat, NEW S \in SUBSET (0 .. n), S # {}
    PROVE  \E v \in S : \A u \in S : u <= v
<1> DEFINE G == {k \in 0 .. n : n - k \notin S /\ \A u \in S : u <= n - k}
<1> SUFFICES ASSUME \A v \in S : \E u \in S : ~(u <= v) PROVE FALSE
  OBVIOUS
<1>1. n \notin S
  OBVIOUS
<1>2. 0 \in G
  BY <1>1
<1>3. ASSUME NEW k \in 1 .. n, k - 1 \in G PROVE k \in G
  <2>1. \A u \in S : u <= n - (k - 1) /\ u # n - (k - 1)
    BY <1>3
  <2>2. \A u \in S : u <= n - k
    BY <2>1
  <2> QED
    BY <2>2
<1> HIDE DEF G
<1>4. n \in G
  BY <1>2, <1>3, Climb
<1>5. 0 \notin S /\ \A u \in S : u <= 0
  BY <1>4 DEF G
<1>6. PICK u \in S : TRUE
  OBVIOUS
<1>7. u \in Nat /\ u <= 0
  BY <1>5
<1> QED
  BY <1>5, <1>7

\* What is computed step by step in V exists.
Steps(f, n, e, F) == f[0] = e /\ \A k \in 1 .. n : f[k] = F[k][f[k - 1]]
LEMMA StepByStep ==
    ASSUME NEW n \in Nat, NEW V, NEW e \in V, NEW F \in [1 .. n -> [V -> V]]
    PROVE  \E f \in [0 .. n -> V] : Steps(f, n, e, F)
<1> DEFINE Built(f, m) == f[0] = e /\ \A k \in 1 .. m : f[k] = F[k][f[k - 1]]
           G == {m \in 0 .. n : \E f \in [0 .. m -> V] : Built(f, m)}
<1>1. 0 \in G
  <2>1. [k \in 0 .. 0 |-> e] \in [0 .. 0 -> V] /\ Built([k \in 0 .. 0 |-> e], 0)
    OBVIOUS
  <2> HIDE DEF Built
  <2> QED
    BY <2>1
<1>2. ASSUME NEW m \in 1 .. n, m - 1 \in G PROVE m \in G
  <2>1. PICK f \in [0 .. m - 1 -> V] : Built(f, m - 1)
    BY <1>2
  <2> DEFINE v == F[m][f[m - 1]]
             u == [k \in 0 .. m |-> IF k = m THEN v ELSE f[k]]
  <2>2. m - 1 \in 0 .. m - 1 /\ 0 \in 0 .. m - 1 /\ 0 # m
        /\ \A k \in 0 .. m : k = m \/ k \in 0 .. m - 1
    OBVIOUS
  <2>3. v \in V
    BY <2>2
  <2>4. u \in [0 .. m -> V]
    BY <2>2, <2>3
  <2>5. \A k \in 1 .. m - 1 : k \in 0 .. m /\ k # m /\ k - 1 \in 0 .. m /\ k - 1 # m
    OBVIOUS
  <2>6. u[0] = e /\ \A k \in 1 .. m - 1 : u[k] = F[k][u[k - 1]]
    BY <2>1, <2>2, <2>5
  <2>7. u[m] = v /\ u[m - 1] = f[m - 1]
    OBVIOUS
  <2>8. Built(u, m)
    <3>1. \A k \in 1 .. m : k = m \/ k \in 1 .. m - 1
      OBVIOUS
    <3> HIDE DEF u
    <3> QED
      BY <2>6, <2>7, <3>1
  <2> HIDE DEF Built
  <2> QED
    BY <2>4, <2>8
<1> HIDE DEF G
<1>3. n \in G
  BY <1>1, <1>2, Climb
<1> QED
  BY <1>3 DEF G, Steps

\* Widths that are numbers add up to one.
LEMMA TotalIs ==
    ASSUME NEW ws \in Seq(Nat), NEW n \in 0 .. Len(ws)
    PROVE  Total(ws, n) \in Nat /\ (n = 0 => Total(ws, n) = 0)
<1> DEFINE Built(f) == f = [k \in 0 .. n |-> IF k = 0 THEN 0 ELSE f[k - 1] + ws[k]]
           h == CHOOSE f : Built(f)
<1>1. n \in Nat /\ \A k \in 1 .. n : ws[k] \in Nat /\ k - 1 \in 0 .. n /\ k \in 0 .. n
  OBVIOUS
<1>2. \E f : Built(f)
  <2> DEFINE F == [k \in 1 .. n |-> [v \in Nat |-> v + ws[k]]]
  <2>1. F \in [1 .. n -> [Nat -> Nat]] /\ \A k \in 1 .. n, v \in Nat : F[k][v] = v + ws[k]
    BY <1>1
  <2> HIDE DEF F
  <2>2. PICK f \in [0 .. n -> Nat] : Steps(f, n, 0, F)
    <3>1. n \in Nat /\ 0 \in Nat
      BY <1>1
    <3> QED
      BY <2>1, <3>1, StepByStep
  <2>3. \A k \in 0 .. n : f[k] = IF k = 0 THEN 0 ELSE f[k - 1] + ws[k]
    <3>1. ASSUME NEW k \in 1 .. n PROVE f[k] = f[k - 1] + ws[k]
      <4>1. f[k - 1] \in Nat
        BY <1>1
      <4> QED
        BY <2>1, <2>2, <4>1 DEF Steps
    <3>2. \A k \in 0 .. n : k = 0 \/ k \in 1 .. n
      BY <1>1
    <3> QED
      BY <2>2, <3>1, <3>2 DEF Steps
  <2>4. Built(f)
    BY <2>3
  <2> HIDE DEF Built
  <2> QED
    BY <2>4
<1>3. Total(ws, n) = h[n]
  BY DEF Total
<1>4. Built(h)
  <2> HIDE DEF Built
  <2> QED
    BY <1>2
<1> HIDE DEF h
<1>5. h[0] = 0 /\ \A k \in 1 .. n : h[k] = h[k - 1] + ws[k]
  BY <1>1, <1>4
<1> DEFINE G == {k \in 0 .. n : h[k] \in Nat}
<1>6. 0 \in G
  BY <1>1, <1>5
<1>8. ASSUME NEW k \in 1 .. n, k - 1 \in G PROVE k \in G
  <2>1. h[k - 1] \in Nat /\ h[k] = h[k - 1] + ws[k] /\ ws[k] \in Nat
    BY <1>1, <1>5, <1>8
  <2> QED
    BY <1>1, <2>1
<1> HIDE DEF G
<1>7. n \in G
  BY <1>1, <1>6, <1>8, Climb
<1> QED
  BY <1>3, <1>5, <1>7 DEF G

LEMMA GroupIs ==
    ASSUME NEW ws \in Seq(Nat), NEW n \in 0 .. Len(ws), NEW m \in Nat
    PROVE  GroupWidth(ws, n, m) \in Nat
<1> DEFINE t == Total(ws, n)
<1>1. n \in Nat /\ t \in Nat
  BY TotalIs
<1> DEFINE gaps == (IF n > 1 THEN n - 1 ELSE 0) + (IF n > 0 /\ m > 0 THEN 1 ELSE 0)
<1>2. gaps \in Nat
  BY <1>1
<1> HIDE DEF t, gaps
<1>3. gaps * FooterGap \in Nat /\ 2 * FooterGap \in Nat
  BY <1>2, FooterAssumption
<1> DEFINE inner == gaps * FooterGap
           outer == 2 * FooterGap
<1> HIDE DEF inner, outer
<1>4. outer + t + m + inner \in Nat
  BY <1>1, <1>3 DEF inner, outer
<1>5. GroupWidth(ws, n, m) = IF n <= 0 /\ m <= 0 THEN 0 ELSE outer + t + m + inner
  BY DEF GroupWidth, gaps, t, inner, outer
<1> QED
  BY <1>4, <1>5

\* Every hint is on one side.
Item == [w : Nat, confirm : BOOLEAN]
LEMMA SidesAre ==
    ASSUME NEW items \in Hints
    PROVE  /\ LeftOf(items) \in Hints /\ RightOf(items) \in Hints
           /\ Len(LeftOf(items)) + Len(RightOf(items)) = Len(items)
<1> DEFINE n == Len(items)
           V == [left : Hints, right : Hints]
           none == [left |-> << >>, right |-> << >>]
           With(v, it) == IF it.confirm THEN [v EXCEPT !.right = Append(@, it)]
                          ELSE [v EXCEPT !.left = Append(@, it)]
           Built(f) == f = [k \in 0 .. n |-> IF k = 0 THEN none ELSE With(f[k - 1], items[k])]
           h == CHOOSE f : Built(f)
<1>1. n \in Nat /\ \A k \in 1 .. n : items[k] \in Item /\ k - 1 \in 0 .. n /\ k \in 0 .. n
  <2>1. items \in Seq(Item)
    BY DEF Hints, Item
  <2>2. n \in Nat
    BY <2>1
  <2>3. \A k \in 1 .. n : items[k] \in Item
    BY <2>1, ElementIn
  <2> QED
    BY <2>2, <2>3
<1>2. none \in V
  BY DEF Hints
<1>3. ASSUME NEW v \in V, NEW it \in Item
      PROVE  /\ With(v, it) \in V
             /\ Len(With(v, it).left) + Len(With(v, it).right) = Len(v.left) + Len(v.right) + 1
  <2>1. /\ Append(v.left, it) \in Hints /\ Len(Append(v.left, it)) = Len(v.left) + 1
        /\ Append(v.right, it) \in Hints /\ Len(Append(v.right, it)) = Len(v.right) + 1
        /\ Len(v.left) \in Nat /\ Len(v.right) \in Nat
    BY DEF Hints, Item
  <2> DEFINE l == Append(v.left, it)
             r == Append(v.right, it)
  <2>2. v.left \in Hints /\ v.right \in Hints
    OBVIOUS
  <2> HIDE DEF l, r
  <2>3. ASSUME it.confirm PROVE With(v, it) \in V /\ With(v, it).left = v.left /\ With(v, it).right = r
    BY <2>1, <2>2, <2>3 DEF r
  <2>4. ASSUME ~it.confirm PROVE With(v, it) \in V /\ With(v, it).left = l /\ With(v, it).right = v.right
    BY <2>1, <2>2, <2>4 DEF l
  <2> HIDE DEF With, V
  <2>5. CASE it.confirm
    <3>1. Len(With(v, it).left) = Len(v.left) /\ Len(With(v, it).right) = Len(v.right) + 1
      BY <2>1, <2>3, <2>5 DEF r
    <3>2. With(v, it) \in V
      BY <2>3, <2>5
    <3>3. Len(v.left) \in Nat /\ Len(v.right) \in Nat
      BY <2>1
    <3>4. Len(With(v, it).left) + Len(With(v, it).right) = Len(v.left) + Len(v.right) + 1
      <4>1. \A a, b \in Nat : a + (b + 1) = a + b + 1
        OBVIOUS
      <4> QED
        BY <3>1, <3>3, <4>1, Zenon
    <3> QED
      BY <3>2, <3>4
  <2>6. CASE ~it.confirm
    <3>1. Len(With(v, it).left) = Len(v.left) + 1 /\ Len(With(v, it).right) = Len(v.right)
      BY <2>1, <2>4, <2>6 DEF l
    <3>2. With(v, it) \in V
      BY <2>4, <2>6
    <3>3. Len(v.left) \in Nat /\ Len(v.right) \in Nat
      BY <2>1
    <3>4. Len(With(v, it).left) + Len(With(v, it).right) = Len(v.left) + Len(v.right) + 1
      <4>1. \A a, b \in Nat : (a + 1) + b = a + b + 1
        OBVIOUS
      <4> QED
        BY <3>1, <3>3, <4>1, Zenon
    <3> QED
      BY <3>2, <3>4
  <2> QED
    BY <2>5, <2>6
<1> HIDE DEF n, V, With
<1>4. \E f : Built(f)
  <2> DEFINE F == [k \in 1 .. n |-> [v \in V |-> With(v, items[k])]]
  <2>1. F \in [1 .. n -> [V -> V]] /\ \A k \in 1 .. n, v \in V : F[k][v] = With(v, items[k])
    BY <1>1, <1>3
  <2> HIDE DEF F, none
  <2>2. PICK f \in [0 .. n -> V] : Steps(f, n, none, F)
    <3>1. n \in Nat
      BY <1>1
    <3> QED
      BY <1>2, <2>1, <3>1, StepByStep
  <2>3. \A k \in 0 .. n : f[k] = IF k = 0 THEN none ELSE With(f[k - 1], items[k])
    BY <1>1, <2>1, <2>2 DEF Steps
  <2>4. Built(f)
    BY <2>3
  <2> HIDE DEF Built
  <2> QED
    BY <2>4
<1>5. Sides(items) = h[n]
  BY DEF Sides, n, With
<1>6. Built(h)
  <2> HIDE DEF Built
  <2> QED
    BY <1>4
<1> HIDE DEF h, With
<1>7. h[0] = none /\ \A k \in 1 .. n : h[k] = With(h[k - 1], items[k])
  BY <1>1, <1>6
<1> DEFINE G == {k \in 0 .. n : h[k] \in V /\ Len(h[k].left) + Len(h[k].right) = k}
<1>8. 0 \in G
  <2>1. 0 \in 0 .. n /\ h[0] \in V
    BY <1>1, <1>2, <1>7
  <2>2. Len(h[0].left) + Len(h[0].right) = 0
    BY <1>7
  <2> QED
    BY <2>1, <2>2, Zenon
<1>9. ASSUME NEW k \in 1 .. n, k - 1 \in G PROVE k \in G
  <2>1. h[k - 1] \in V /\ Len(h[k - 1].left) + Len(h[k - 1].right) = k - 1
    BY <1>9
  <2> DEFINE t == With(h[k - 1], items[k])
  <2>2. t \in V /\ Len(t.left) + Len(t.right) = (k - 1) + 1
    BY <1>1, <1>3, <2>1
  <2>3. (k - 1) + 1 = k
    BY <1>1
  <2> QED
    BY <1>1, <1>7, <2>2, <2>3
<1> HIDE DEF G
<1>10. n \in G
  BY <1>1, <1>8, <1>9, Climb
<1> QED
  BY <1>5, <1>10 DEF G, V, n, LeftOf, RightOf

\* The right group begins at one of its items, or behind them.
LEMMA RightFromIs ==
    ASSUME NEW ws \in Seq(Nat)
    PROVE  RightFrom(ws).from \in 1 .. Len(ws) + 1
<1> DEFINE n == Len(ws)
           V == [inner : Int, n : Nat, from : 1 .. n + 1]
           none == [inner |-> 0, n |-> 0, from |-> n + 1]
           cand(s, i) == ws[i] + (IF s.n > 0 THEN FooterGap ELSE 0)
           Taken(s, i) == IF 2 * FooterGap + s.inner + cand(s, i) <= FooterMax \/ s.n = 0
                          THEN [inner |-> s.inner + cand(s, i), n |-> s.n + 1, from |-> i]
                          ELSE s
           Built(f) == f = [k \in 0 .. n |-> IF k = 0 THEN none ELSE Taken(f[k - 1], n + 1 - k)]
           h == CHOOSE f : Built(f)
<1>1. n \in Nat /\ \A k \in 1 .. n : n + 1 - k \in 1 .. n /\ ws[n + 1 - k] \in Nat /\ k - 1 \in 0 .. n /\ k \in 0 .. n
  OBVIOUS
<1>2. none \in V
  BY <1>1
<1>3. ASSUME NEW v \in V, NEW i \in 1 .. n PROVE Taken(v, i) \in V
  <2>1. v.inner \in Int /\ v.n \in Nat /\ i \in 1 .. n + 1 /\ ws[i] \in Nat
    BY <1>1
  <2>2. v.inner + cand(v, i) \in Int
    BY <2>1, FooterAssumption
  <2> HIDE DEF cand
  <2> QED
    BY <2>1, <2>2
<1>5. RightFrom(ws) = h[n]
  BY DEF RightFrom
<1> HIDE DEF n, V, Taken
<1>4. \E f : Built(f)
  <2> DEFINE F == [k \in 1 .. n |-> [v \in V |-> Taken(v, n + 1 - k)]]
  <2>1. F \in [1 .. n -> [V -> V]] /\ \A k \in 1 .. n, v \in V : F[k][v] = Taken(v, n + 1 - k)
    BY <1>1, <1>3
  <2> HIDE DEF F, none
  <2>2. PICK f \in [0 .. n -> V] : Steps(f, n, none, F)
    <3>1. n \in Nat
      BY <1>1
    <3> QED
      BY <1>2, <2>1, <3>1, StepByStep
  <2>3. \A k \in 0 .. n : f[k] = IF k = 0 THEN none ELSE Taken(f[k - 1], n + 1 - k)
    BY <1>1, <2>1, <2>2 DEF Steps
  <2>4. Built(f)
    BY <2>3
  <2> HIDE DEF Built
  <2> QED
    BY <2>4
<1>6. Built(h)
  <2> HIDE DEF Built
  <2> QED
    BY <1>4
<1> HIDE DEF h, none
<1>7. h[0] = none /\ \A k \in 1 .. n : h[k] = Taken(h[k - 1], n + 1 - k)
  BY <1>1, <1>6
<1> DEFINE G == {k \in 0 .. n : h[k] \in V}
<1>8. 0 \in G /\ \A k \in 1 .. n : k - 1 \in G => k \in G
  BY <1>1, <1>2, <1>3, <1>7
<1> HIDE DEF G
<1>9. n \in G
  BY <1>1, <1>8, Climb
<1> QED
  BY <1>5, <1>9 DEF G, V, n

\* The layout of any hints is honest (ap_draw_footer).
LEMMA LayoutIs ==
    ASSUME NEW items \in Hints, NEW enabled \in BOOLEAN
    PROVE  LayoutHonest(items, FooterLayout(items, enabled))
<1> DEFINE left == LeftOf(items)
           right == RightOf(items)
           rw == Widths(right)
           lw == Widths(left)
           whole == GroupWidth(rw, Len(rw), 0)
           cut == enabled /\ Len(rw) > 0 /\ whole > FooterMax
           scan == RightFrom(rw)
           from == IF cut THEN scan.from ELSE 1
           rightW == IF cut THEN 2 * FooterGap + scan.inner ELSE whole
           room == IF FooterMax > rightW THEN FooterMax - rightW ELSE 0
           hiddenWith(v) == (from - 1) + (Len(lw) - v)
           good == {v \in 0..Len(lw) : LeftFits(lw, v, hiddenWith(v), room)}
           leftN == IF ~enabled THEN Len(lw)
                    ELSE IF good = {} THEN 0
                    ELSE CHOOSE v \in good : \A u \in good : u <= v
           hidden == SubSeq(right, 1, from - 1) \o SubSeq(left, leftN + 1, Len(left))
           lay == FooterLayout(items, enabled)
<1>1. lay = [left |-> SubSeq(left, 1, leftN), right |-> SubSeq(right, from, Len(right)),
             hidden |-> hidden, cuts |-> enabled, rightW |-> rightW,
             leftW |-> GroupWidth(lw, leftN, IF enabled THEN MarkerWidth(Len(hidden)) ELSE 0)]
  BY DEF FooterLayout
<1> HIDE DEF lay
<1>2. /\ left \in Hints /\ right \in Hints /\ Len(left) + Len(right) = Len(items)
      /\ Len(left) \in Nat /\ Len(right) \in Nat /\ Len(items) \in Nat
  <2>1. \A x \in Hints : Len(x) \in Nat
    BY DEF Hints
  <2> QED
    BY <2>1, SidesAre
<1> HIDE DEF left, right
<1>3. rw \in Seq(Nat) /\ lw \in Seq(Nat) /\ Len(rw) = Len(right) /\ Len(lw) = Len(left)
  <2>1. ASSUME NEW s \in Hints PROVE Widths(s) \in Seq(Nat) /\ Len(Widths(s)) = Len(s)
    <3>1. Len(s) \in Nat /\ DOMAIN s = 1 .. Len(s) /\ \A i \in 1 .. Len(s) : s[i].w \in Nat
      <4>1. s \in Seq(Item)
        BY DEF Hints, Item
      <4>2. Len(s) \in Nat /\ DOMAIN s = 1 .. Len(s)
        BY <4>1
      <4>3. \A i \in 1 .. Len(s) : s[i] \in Item
        BY <4>1, ElementIn
      <4> QED
        BY <4>2, <4>3 DEF Item
    <3>2. Widths(s) \in [1 .. Len(s) -> Nat]
      BY <3>1 DEF Widths
    <3> QED
      BY <3>1, <3>2
  <2> QED
    BY <1>2, <2>1
<1> HIDE DEF rw, lw
<1>4. from \in 1 .. Len(right) + 1
  BY <1>2, <1>3, RightFromIs
<1>5. leftN \in 0 .. Len(left)
  <2>1. good \subseteq 0 .. Len(left)
    BY <1>3
  <2> HIDE DEF good
  <2>2. good # {} => \E v \in good : \A u \in good : u <= v
    BY <1>2, <2>1, LastIs
  <2> DEFINE last == CHOOSE v \in good : \A u \in good : u <= v
  <2>3. good # {} => last \in good
    BY <2>2
  <2> HIDE DEF last
  <2>4. leftN \in {Len(lw), 0} \/ (good # {} /\ leftN = last)
    BY DEF last
  <2> HIDE DEF leftN
  <2>5. Len(lw) \in 0 .. Len(left) /\ 0 \in 0 .. Len(left)
    BY <1>2, <1>3
  <2>6. good # {} => last \in 0 .. Len(left)
    BY <2>1, <2>3
  <2> QED
    BY <2>4, <2>5, <2>6
<1>6. Len(hidden) = (from - 1) + (Len(left) - leftN) /\ Len(hidden) = hiddenWith(leftN)
  <2> HIDE DEF from, leftN
  <2>1. from - 1 \in 0 .. Len(right) /\ leftN + 1 \in 1 .. Len(left) + 1
    BY <1>2, <1>4, <1>5
  <2>2. /\ \A i \in 1 .. from - 1 : right[i] \in Item
        /\ \A i \in leftN + 1 .. Len(left) : left[i] \in Item
    <3>1. left \in Seq(Item) /\ right \in Seq(Item)
      BY <1>2 DEF Hints, Item
    <3>2. \A i \in 1 .. from - 1 : i \in 1 .. Len(right)
      BY <1>2, <2>1
    <3>3. \A i \in leftN + 1 .. Len(left) : i \in 1 .. Len(left)
      BY <1>2, <2>1
    <3> QED
      BY <3>1, <3>2, <3>3, ElementIn
  <2> DEFINE p == SubSeq(right, 1, from - 1)
             q == SubSeq(left, leftN + 1, Len(left))
  <2>4. p \in Seq(Item) /\ Len(p) = from - 1
    BY <2>1, <2>2, SubSeqProperties
  <2>5. q \in Seq(Item) /\ Len(q) = Len(left) - leftN
    <3> DEFINE l == Len(left)
    <3> DEFINE f == leftN + 1
               t == SubSeq(left, f, l)
    <3>1. leftN \in Int /\ l \in Nat /\ f \in 1 .. l + 1 /\ l - f + 1 = l - leftN /\ (~(f <= l) => l - leftN = 0)
      <4>1. l \in Nat /\ leftN \in 0 .. l
        BY <1>2, <1>5
      <4> HIDE DEF l
      <4> QED
        BY <4>1
    <3>2. \A i \in f .. l : left[i] \in Item
      BY <2>2
    <3> HIDE DEF l, f
    <3>3. t \in Seq(Item) /\ Len(t) = (IF f <= l THEN l - f + 1 ELSE 0)
      BY <3>1, <3>2, SubSeqProperties
    <3> HIDE DEF t
    <3>4. t \in Seq(Item) /\ Len(t) = l - leftN
      BY <3>1, <3>3
    <3> QED
      BY <3>4 DEF l, f, t
  <2> HIDE DEF p, q
  <2>3. Len(p \o q) = Len(p) + Len(q)
    BY <2>4, <2>5
  <2> QED
    BY <1>3, <2>3, <2>4, <2>5 DEF p, q
<1>7. Len(lay.left) = leftN /\ Len(lay.right) = Len(right) - from + 1 /\ lay.hidden = hidden
  <2> HIDE DEF from, leftN, hidden
  <2>1. left \in Seq(Item) /\ right \in Seq(Item)
    BY <1>2 DEF Hints, Item
  <2>2. /\ \A i \in 1 .. leftN : left[i] \in Item
        /\ \A i \in from .. Len(right) : right[i] \in Item
    BY <1>2, <1>4, <1>5, <2>1, ElementIn
  <2>3. Len(SubSeq(left, 1, leftN)) = leftN
    BY <1>2, <1>5, <2>2, SubSeqProperties
  <2>4. Len(SubSeq(right, from, Len(right))) = Len(right) - from + 1
    BY <1>2, <1>4, <2>2, SubSeqProperties
  <2> QED
    BY <1>1, <2>3, <2>4
<1>8. Len(lay.left) + Len(lay.right) + Len(lay.hidden) = Len(items)
  <2> HIDE DEF from, leftN, hidden
  <2> DEFINE l == Len(left)
             r == Len(right)
  <2>1. l \in Nat /\ r \in Nat /\ l + r = Len(items) /\ from \in Int /\ leftN \in Int
    BY <1>2, <1>4, <1>5
  <2>2. /\ Len(lay.left) = leftN /\ Len(lay.right) = r - from + 1
        /\ Len(lay.hidden) = (from - 1) + (l - leftN)
    BY <1>6, <1>7
  <2> HIDE DEF l, r
  <2> QED
    BY <2>1, <2>2
<1>9. ASSUME lay.cuts, GroupWidth(Widths(right), Len(right), 0)
                       + GroupWidth(<< >>, 0, MarkerWidth(Len(items))) <= FooterMax
      PROVE  lay.leftW + lay.rightW <= FooterMax
  <2>1. enabled
    BY <1>1, <1>9
  <2>3. \A k \in Nat : MarkerWidth(k) \in Nat
    BY FooterAssumption DEF MarkerWidth
  <2> DEFINE mark == GroupWidth(<< >>, 0, MarkerWidth(Len(items)))
  <2>4. whole \in Nat /\ mark \in Nat /\ whole + mark <= FooterMax
    <3>1. << >> \in Seq(Nat) /\ 0 \in 0 .. Len(<< >>)
      OBVIOUS
    <3>2. whole \in Nat
      <4>1. Len(rw) \in 0 .. Len(rw) /\ 0 \in Nat
        BY <1>2, <1>3
      <4> QED
        BY <1>3, <4>1, GroupIs
    <3>3. MarkerWidth(Len(items)) \in Nat
      BY <1>2, <2>3
    <3>4. mark \in Nat
      BY <3>1, <3>3, GroupIs
    <3>5. GroupWidth(Widths(right), Len(right), 0) = whole
      BY <1>3 DEF rw
    <3> QED
      BY <1>9, <3>2, <3>4, <3>5
  <2> HIDE DEF whole, mark
  <2>5. ~cut /\ from = 1 /\ rightW = whole
    BY <2>4, FooterAssumption
  <2>6. room \in Nat /\ room + whole = FooterMax /\ mark <= room
    BY <2>4, <2>5, FooterAssumption
  <2> HIDE DEF cut, from, rightW, room
  <2>7. 0 \in good
    <3>1. hiddenWith(0) = Len(left) /\ Len(left) \in 0 .. Len(items)
      BY <1>2, <1>3, <2>5
    <3>2. Total(lw, 0) = 0 /\ Total(<< >>, 0) = 0
      <4>1. << >> \in Seq(Nat) /\ 0 \in 0 .. Len(<< >>) /\ 0 \in 0 .. Len(lw)
        BY <1>3
      <4> QED
        BY <1>3, <4>1, TotalIs
    <3>3. \A m \in Nat : GroupWidth(lw, 0, m) = GroupWidth(<< >>, 0, m)
      BY <3>2 DEF GroupWidth
    <3>4. MarkerWidth(Len(left)) = 0 \/ MarkerWidth(Len(left)) = MarkerWidth(Len(items))
      BY <3>1 DEF MarkerWidth
    <3>5. GroupWidth(lw, 0, 0) = 0
      BY DEF GroupWidth
    <3>6. GroupWidth(lw, 0, MarkerWidth(Len(left))) <= room
      <4>1. MarkerWidth(Len(items)) \in Nat
        BY <1>2, <2>3
      <4>2. CASE MarkerWidth(Len(left)) = 0
        BY <2>6, <3>5, <4>2
      <4>3. CASE MarkerWidth(Len(left)) = MarkerWidth(Len(items))
        BY <2>6, <3>3, <4>1, <4>3 DEF mark
      <4> QED
        BY <3>4, <4>2, <4>3
    <3> QED
      BY <1>2, <1>3, <3>1, <3>6 DEF LeftFits
  <2>8. leftN \in good
    <3>1. good \subseteq 0 .. Len(lw) /\ Len(lw) \in Nat
      BY <1>3
    <3> HIDE DEF good
    <3>2. \E v \in good : \A u \in good : u <= v
      BY <2>7, <3>1, LastIs
    <3> QED
      BY <2>1, <2>7, <3>2
  <2> HIDE DEF leftN, hidden, hiddenWith
  <2>9. GroupWidth(lw, leftN, MarkerWidth(hiddenWith(leftN))) <= room
    BY <2>8 DEF LeftFits
  <2>10. lay.leftW <= room /\ lay.leftW \in Nat /\ lay.rightW = whole
    <3>1. lay.leftW = GroupWidth(lw, leftN, MarkerWidth(Len(hidden))) /\ lay.rightW = whole
      BY <1>1, <2>1, <2>5
    <3>2. Len(hidden) \in Nat
      BY <1>2, <1>4, <1>5, <1>6
    <3>3. lay.leftW \in Nat
      <4>1. MarkerWidth(Len(hidden)) \in Nat
        BY <2>3, <3>2
      <4> QED
        BY <1>2, <1>3, <1>5, <3>1, <4>1, GroupIs
    <3> QED
      BY <1>6, <2>9, <3>1, <3>3
  <2> QED
    BY <2>4, <2>6, <2>10, FooterAssumption
<1> QED
  BY <1>8, <1>9 DEF LayoutHonest, lay, right

----------------------------------------------------------------------------
(* The input loop: what the state is made of.                              *)

Axes == {"x", "y"}
Event == [t : {"ctrl", "joy"}, b : Buttons, down : BOOLEAN] \cup [t : {"hat"}, hat : SUBSET Dirs]
            \cup [t : {"axis"}, ax : Axes, dir : -1 .. 1] \cup [t : {"trigger"}, down : BOOLEAN]
            \cup [t : {"quit", "user"}]

\* A field the proofs do not look into holds whatever it holds.
IsFoot(f) ==
    /\ f \in [enabled : BOOLEAN, a : Buttons, b : Buttons, swallow : SUBSET Buttons,
              chord : {f.chord}, open : {f.open}, overlay : {f.overlay}, hidden : {f.hidden},
              running : {f.running}, items : {f.items}, lay : {f.lay}]
    /\ LayoutHonest(f.items, f.lay)
IsState(s) ==
    /\ s \in [held : [Buttons -> BOOLEAN], due : [Dirs -> Int], hat : SUBSET Dirs, hatDue : Int,
              axis : [Axes -> -1 .. 1], axisDue : [Axes -> Int], ring : {s.ring},
              needsFrame : {s.needsFrame}, redraw : Int, last : {s.last}, wake : {s.wake},
              c : {s.c}, foot : {s.foot}, ev : {s.ev}]
    /\ IsFoot(s.foot)

\* ChordClean of a state in the middle of a step.
FootClean(s) ==
    /\ \A b \in s.foot.swallow : s.held[b]
    /\ s.foot.chord => s.held[s.foot.a] \/ s.held[s.foot.b]

\* The combos as the proofs see them: only chords that exist are on.
IsCombos(c) ==
    /\ c \in [table : Seq(Combo), on : SUBSET Nat, down : Seq([b : Buttons, gap : Int]),
              since : Int, seq : {c.seq}, idle : {c.idle}, q : {c.q}]
    /\ \A i \in c.on : i \in DOMAIN c.table /\ ~c.table[i].sequence
Downs(c) == {c.down[k].b : k \in DOMAIN c.down}
\* The same of the combos: what is held is known to be down, when there are any.
ComboClean(s) ==
    /\ IsCombos(s.c) /\ ChordsHeld(s.c)
    /\ setup.combos # {} => \A b \in Sources : s.held[b] => b \in Downs(s.c)

\* Some source asserts b in s, when ks are the buttons whose last key was a press.
Asserted(s, b, ks) ==
    b \in ks \/ b \in s.hat \/ \E ax \in Axes : s.axis[ax] # 0 /\ Toward(ax, s.axis[ax]) = b

\* The queue was empty when the loop left ap_poll_input, and the sleep ends
\* before every deadline that is armed.
RingRead == at \in {"draw", "present", "sleep"} => g.ring = << >>
SleepsBefore ==
    at = "sleep" =>
       /\ rest \in Nat /\ rest <= g.redraw
       /\ \A b \in Dirs : g.held[b] => rest <= g.due[b]
       /\ g.hat # {} => rest <= g.hatDue
       /\ \A ax \in Axes : g.axis[ax] # 0 => rest <= g.axisDue[ax]

InTypes == setup \in Setups /\ sdl \in Seq(Event) /\ g.wake \in Seq(Event) /\ IsState(g)
InInv == InTypes /\ HeldHasSource /\ ChordClean /\ ComboClean(g) /\ RingRead /\ SleepsBefore

\* What an input event leaves alone.
Kept(s, t) ==
    /\ t.due = s.due /\ t.hat = s.hat /\ t.hatDue = s.hatDue /\ t.axis = s.axis
    /\ t.axisDue = s.axisDue /\ t.wake = s.wake

LEMMA InInitInv == ASSUME InInit PROVE InInv
<1> USE DEF InInit, Fresh, NoFooter
<1>1. IsFoot(g.foot)
  <2>1. << >> \in Hints
    BY DEF Hints
  <2>2. LayoutHonest(<< >>, FooterLayout(<< >>, TRUE))
    BY <2>1, LayoutIs
  <2> QED
    BY <2>2 DEF IsFoot, Buttons
<1>2. IsState(g)
  BY <1>1, TimingAssumption DEF IsState, Buttons, Dirs, Axes
<1>3. InTypes
  BY <1>2 DEF InTypes
<1>4. HeldHasSource /\ ChordClean /\ RingRead /\ SleepsBefore
  BY DEF HeldHasSource, ChordClean, RingRead, SleepsBefore, Buttons, Sources
<1>5. ComboClean(g)
  BY GapAssumption DEF ComboClean, IsCombos, ChordsHeld, NoCombos, Buttons, Sources
<1> QED
  BY <1>3, <1>4, <1>5 DEF InInv

LEMMA DownsAre == ASSUME NEW c, NEW bs PROVE AllDown(c, bs) <=> bs \subseteq Downs(c)
BY DEF AllDown, Downs, Range


LEMMA Removed ==
    ASSUME NEW S, NEW s \in Seq(S), NEW k \in 1 .. Len(s)
    PROVE  LET t == RemoveAt(s, k)
           IN  /\ t \in Seq(S) /\ Len(t) = Len(s) - 1
               /\ \A n \in 1 .. k - 1 : t[n] = s[n]
               /\ \A n \in k .. Len(s) - 1 : t[n] = s[n + 1]
<1> DEFINE a == SubSeq(s, 1, k - 1)
           z == SubSeq(s, k + 1, Len(s))
<1>1. a \in Seq(S) /\ Len(a) = k - 1 /\ \A n \in 1 .. k - 1 : a[n] = s[n]
  OBVIOUS
<1>2. z \in Seq(S) /\ Len(z) = Len(s) - k /\ \A n \in 1 .. Len(s) - k : z[n] = s[k + n]
  OBVIOUS
<1> HIDE DEF a, z
<1>3. a \o z \in Seq(S) /\ Len(a \o z) = Len(s) - 1
  <2>1. a \o z \in Seq(S)
    BY <1>1, <1>2, ConcatProperties
  <2>2. Len(a \o z) = Len(a) + Len(z)
    BY <1>1, <1>2, ConcatProperties
  <2> QED
    BY <1>1, <1>2, <2>1, <2>2
<1>4. ASSUME NEW n \in 1 .. k - 1 PROVE (a \o z)[n] = s[n]
  BY <1>1, <1>2
<1>5. ASSUME NEW n \in k .. Len(s) - 1 PROVE (a \o z)[n] = s[n + 1]
  <2>1. (a \o z)[n] = z[n - (k - 1)] /\ n - (k - 1) \in 1 .. Len(s) - k
    BY <1>1, <1>2
  <2>2. k + (n - (k - 1)) = n + 1
    OBVIOUS
  <2> QED
    BY <1>2, <2>1, <2>2
<1> QED
  BY <1>3, <1>4, <1>5 DEF RemoveAt, a, z

LEMMA CapIs == \A n \in Int : CapGap(n) \in Int
BY GapAssumption DEF CapGap

\* ap__combo_check_chords and ap__combo_check_sequences keep what is on.
LEMMA ChecksKeep ==
    ASSUME NEW c, IsCombos(c), ChordsHeld(c)
    PROVE  LET t == CheckSequences(CheckChords(c))
           IN  IsCombos(t) /\ ChordsHeld(t) /\ Downs(t) = Downs(c)
<1> DEFINE fired == {i \in DOMAIN c.table :
                       /\ c.table[i].active
                       /\ ~c.table[i].sequence
                       /\ i \notin c.on
                       /\ AllDown(c, Range(c.table[i].btns))
                       /\ Spread(c, Range(c.table[i].btns)) <= c.table[i].window}
           q == PushedAll(c.q, c.table, fired, TRUE)
           u == [c EXCEPT !.on = @ \cup fired, !.q = q]
<1>1. CheckChords(c) = u
  BY DEF CheckChords
<1>2. \A i \in fired : i \in DOMAIN c.table /\ ~c.table[i].sequence /\ AllDown(c, Range(c.table[i].btns))
  OBVIOUS
<1>3. DOMAIN c.table \subseteq Nat
  BY DEF IsCombos
<1> HIDE DEF fired, q
<1>4. IsCombos(u) /\ u.table = c.table /\ u.down = c.down /\ u.on = c.on \cup fired
  BY <1>2, <1>3 DEF IsCombos
<1>5. \A bs : AllDown(u, bs) = AllDown(c, bs)
  BY <1>4 DEF AllDown
<1>6. ChordsHeld(u)
  BY <1>2, <1>4, <1>5 DEF ChordsHeld
<1> HIDE DEF u
<1>7. ASSUME NEW t, NEW x, NEW y, t = u \/ t = [u EXCEPT !.q = x, !.seq = y]
      PROVE  IsCombos(t) /\ ChordsHeld(t) /\ Downs(t) = Downs(c)
  <2>1. IsCombos(t) /\ t.table = u.table /\ t.down = u.down /\ t.on = u.on
    BY <1>4, <1>7 DEF IsCombos
  <2>2. \A bs : AllDown(t, bs) = AllDown(u, bs)
    BY <2>1 DEF AllDown
  <2> QED
    BY <1>4, <1>6, <2>1, <2>2 DEF ChordsHeld, Downs
<1> DEFINE hits == {i \in DOMAIN u.table : SequenceMatches(u, u.table[i])}
           first == CHOOSE i \in hits : \A k \in hits : i <= k
           p == Pushed(u.q, u.table[first].id, TRUE)
           t == CheckSequences(u)
<1>8. t = u \/ t = [ComboPush(u, first, TRUE) EXCEPT !.seq = << >>]
  BY DEF CheckSequences
<1> HIDE DEF t, first, hits
<1>9. [ComboPush(u, first, TRUE) EXCEPT !.seq = << >>] = [u EXCEPT !.q = p, !.seq = << >>]
  BY <1>4 DEF ComboPush, IsCombos
<1> HIDE DEF p
<1>10. IsCombos(t) /\ ChordsHeld(t) /\ Downs(t) = Downs(c)
  BY <1>7, <1>8, <1>9
<1> QED
  BY <1>1, <1>10 DEF t

\* A press leaves what is on, and the button is down.
LEMMA ComboPressIs ==
    ASSUME NEW c, IsCombos(c), ChordsHeld(c), NEW b \in Buttons
    PROVE  LET t == ComboPress(c, b)
           IN  IsCombos(t) /\ ChordsHeld(t) /\ Downs(t) = Downs(c) \cup {b}
<1> DEFINE dn == Append(c.down, [b |-> b, gap |-> c.since])
           e == [b |-> b, gap |-> c.idle]
           p == [c EXCEPT !.down = Append(@, [b |-> b, gap |-> c.since]), !.since = 0, !.idle = 0]
           sq == Append(IF Len(c.seq) >= SeqBuffer THEN Tail(c.seq) ELSE c.seq, e)
           u == [c EXCEPT !.down = dn, !.since = 0, !.idle = 0, !.seq = sq]
           zero == 0
<1>1. c.down \in Seq([b : Buttons, gap : Int]) /\ c.since \in Int
  BY DEF IsCombos
<1>2. /\ dn \in Seq([b : Buttons, gap : Int]) /\ Len(dn) = Len(c.down) + 1
      /\ \A k \in 1 .. Len(c.down) : dn[k] = c.down[k]
      /\ dn[Len(dn)] = [b |-> b, gap |-> c.since]
  BY <1>1
<1> HIDE DEF dn
<1>3. p = [c EXCEPT !.down = dn, !.since = 0, !.idle = 0] /\ p.seq = c.seq
  BY DEF dn, IsCombos
<1> HIDE DEF p
<1>4. AddSeqEntry(p, e) = [p EXCEPT !.seq = sq]
  BY <1>3 DEF AddSeqEntry
<1> HIDE DEF sq
<1>5. AddSeqEntry(p, e) = u
  BY <1>3, <1>4 DEF IsCombos
<1>6. IsCombos(u) /\ u.table = c.table /\ u.on = c.on /\ u.down = dn
  <2>1. dn \in Seq([b : Buttons, gap : Int])
    BY <1>2
  <2>4. u = [c EXCEPT !.down = dn, !.since = zero, !.idle = zero, !.seq = sq] /\ zero \in Int
    OBVIOUS
  <2> HIDE DEF zero, u
  <2>2. u.table = c.table /\ u.on = c.on /\ u.down = dn
    BY <2>4 DEF IsCombos
  <2>3. u \in [table : Seq(Combo), on : SUBSET Nat, down : Seq([b : Buttons, gap : Int]),
                since : Int, seq : {u.seq}, idle : {u.idle}, q : {u.q}]
    BY <2>1, <2>4 DEF IsCombos
  <2> QED
    BY <2>2, <2>3 DEF IsCombos
<1> HIDE DEF u
<1>7. Downs(u) = Downs(c) \cup {b}
  <2>1. DOMAIN c.down = 1 .. Len(c.down) /\ DOMAIN dn = 1 .. Len(c.down) + 1
    BY <1>1, <1>2
  <2>2. DOMAIN dn = DOMAIN c.down \cup {Len(dn)}
    BY <1>1, <1>2, <2>1
  <2>3. \A x : x \in Downs(u) <=> \E j \in DOMAIN dn : dn[j].b = x
    BY <1>6 DEF Downs
  <2>4. \A x : x \in Downs(c) <=> \E j \in DOMAIN c.down : c.down[j].b = x
    BY DEF Downs
  <2>5. dn[Len(dn)].b = b /\ \A j \in DOMAIN c.down : dn[j].b = c.down[j].b
    BY <1>2, <2>1
  <2>6. \A x : x \in Downs(u) <=> x \in Downs(c) \/ x = b
    BY <2>2, <2>3, <2>4, <2>5
  <2> QED
    BY <2>6
<1>8. ChordsHeld(u)
  <2>1. \A bs : AllDown(c, bs) => AllDown(u, bs)
    BY <1>7, DownsAre
  <2> QED
    BY <1>6, <2>1 DEF ChordsHeld
<1>9. ComboPress(c, b) = CheckSequences(CheckChords(u))
  BY <1>5 DEF ComboPress, p, e
<1> QED
  BY <1>6, <1>7, <1>8, <1>9, ChecksKeep

\* A release ends every chord it breaks, and no other button goes up.
LEMMA ComboReleaseIs ==
    ASSUME NEW c, IsCombos(c), NEW b \in Downs(c)
    PROVE  LET t == ComboRelease(c, b)
           IN  IsCombos(t) /\ ChordsHeld(t) /\ Downs(c) \ {b} \subseteq Downs(t)
<1> DEFINE Entry == [b : Buttons, gap : Int]
           k == CHOOSE n \in DOMAIN c.down : c.down[n].b = b
           gone == c.down[k].gap
           dn == IF k = Len(c.down) THEN c.down ELSE [c.down EXCEPT ![k + 1].gap = CapGap(@ + gone)]
           sn == IF k = Len(c.down) THEN CapGap(c.since + gone) ELSE c.since
           left == RemoveAt(dn, k)
           u == [c EXCEPT !.down = left, !.since = sn]
           late == IF k = Len(c.down) THEN [c EXCEPT !.since = CapGap(@ + gone)]
                   ELSE [c EXCEPT !.down[k + 1].gap = CapGap(@ + gone)]
<1>1. c.down \in Seq(Entry) /\ DOMAIN c.down = 1 .. Len(c.down) /\ Len(c.down) \in Nat
      /\ c.since \in Int
  BY DEF IsCombos
<1>2. k \in 1 .. Len(c.down) /\ c.down[k].b = b
  <2>1. \E n \in DOMAIN c.down : c.down[n].b = b
    BY DEF Downs
  <2> QED
    BY <1>1, <2>1
<1> HIDE DEF k
<1>3. gone \in Int /\ sn \in Int
  <2>1. c.down[k] \in Entry
    BY <1>1, <1>2, ElementIn
  <2>2. gone \in Int
    BY <2>1
  <2> HIDE DEF gone
  <2> QED
    BY <1>1, <2>2, CapIs
<1>4. dn \in Seq(Entry) /\ Len(dn) = Len(c.down) /\ \A n \in 1 .. Len(c.down) : dn[n].b = c.down[n].b
  <2>1. CASE k = Len(c.down)
    BY <1>1, <2>1
  <2>2. CASE k # Len(c.down)
    <3>1. k + 1 \in 1 .. Len(c.down)
      BY <1>1, <1>2, <2>2
    <3>5. c.down[k + 1] \in Entry
      BY <1>1, <3>1, ElementIn
    <3>6. c.down[k + 1].gap \in Int
      BY <3>5
    <3> DEFINE x == CapGap(c.down[k + 1].gap + gone)
               e == [c.down[k + 1] EXCEPT !.gap = x]
    <3>2. x \in Int
      <4> HIDE DEF gone
      <4>1. c.down[k + 1].gap + gone \in Int
        BY <1>3, <3>6
      <4> QED
        BY <4>1, CapIs
    <3>3. dn = [c.down EXCEPT ![k + 1] = e]
      BY <2>2
    <3> HIDE DEF x
    <3>4. e \in Entry /\ e.b = c.down[k + 1].b
      BY <3>5, <3>2
    <3> HIDE DEF e, dn
    <3> QED
      BY <1>1, <3>1, <3>3, <3>4
  <2> QED
    BY <2>1, <2>2
<1>5. late = [c EXCEPT !.down = dn, !.since = sn]
  <2>1. CASE k = Len(c.down)
    BY <2>1 DEF IsCombos
  <2>2. CASE k # Len(c.down)
    BY <2>2 DEF IsCombos
  <2> QED
    BY <2>1, <2>2
<1> HIDE DEF dn, sn, gone
<1>6. [late EXCEPT !.down = RemoveAt(@, k)] = u
  BY <1>5 DEF IsCombos
<1> HIDE DEF late
<1>8. /\ left \in Seq(Entry) /\ Len(left) = Len(dn) - 1
      /\ \A n \in 1 .. k - 1 : left[n] = dn[n]
      /\ \A n \in k .. Len(dn) - 1 : left[n] = dn[n + 1]
  <2>1. k \in 1 .. Len(dn) /\ dn \in Seq(Entry)
    BY <1>2, <1>4
  <2> HIDE DEF Entry
  <2> QED
    BY <2>1, Removed
<1> HIDE DEF left
<1>9. IsCombos(u) /\ u.table = c.table /\ u.on = c.on /\ u.down = left
  BY <1>3, <1>8 DEF IsCombos
<1> HIDE DEF u
<1>10. Downs(c) \ {b} \subseteq Downs(u)
  <2>1. SUFFICES ASSUME NEW n \in 1 .. Len(c.down), c.down[n].b # b
                 PROVE  \E m \in 1 .. Len(left) : left[m].b = c.down[n].b
    <3>1. DOMAIN left = 1 .. Len(left)
      <4>1. left \in Seq(Entry)
        BY <1>8
      <4> HIDE DEF Entry
      <4> QED
        BY <4>1
    <3>2. \A x \in Downs(c) \ {b} : \E n \in 1 .. Len(c.down) : c.down[n].b = x /\ c.down[n].b # b
      BY <1>1 DEF Downs
    <3>3. \A x : (\E m \in 1 .. Len(left) : left[m].b = x) => x \in Downs(u)
      BY <1>9, <3>1 DEF Downs
    <3> QED
      BY <2>1, <3>2, <3>3
  <2>2. CASE n < k
    <3>1. n \in 1 .. Len(left) /\ n \in 1 .. k - 1
      BY <1>1, <1>2, <1>4, <1>8, <2>2
    <3>2. left[n] = dn[n]
      BY <1>8, <3>1
    <3> QED
      BY <1>4, <3>1, <3>2
  <2>3. CASE n > k
    <3>1. n - 1 \in 1 .. Len(left) /\ n - 1 \in k .. Len(dn) - 1 /\ (n - 1) + 1 = n
      BY <1>1, <1>2, <1>4, <1>8, <2>3
    <3>2. left[n - 1] = dn[n]
      BY <1>8, <3>1
    <3> QED
      BY <1>4, <3>1, <3>2
  <2> QED
    BY <1>1, <1>2, <2>1, <2>2, <2>3
<1> DEFINE ended == {i \in DOMAIN u.table :
                       /\ u.table[i].active
                       /\ ~u.table[i].sequence
                       /\ i \in u.on
                       /\ ~AllDown(u, Range(u.table[i].btns))}
           q == PushedAll(u.q, u.table, ended, FALSE)
           t == [u EXCEPT !.on = @ \ ended, !.q = q]
<1>11. ComboRelease(c, b) = t
  <2>1. ComboRelease(c, b) = CheckChordReleases(u)
    <3>1. ComboRelease(c, b) = CheckChordReleases([late EXCEPT !.down = RemoveAt(@, k)])
      BY DEF ComboRelease, late, k, gone
    <3> QED
      BY <1>6, <3>1, Zenon
  <2> QED
    BY <2>1, Zenon DEF CheckChordReleases
<1>12. \A i \in u.on : i \notin ended => (u.table[i].active => AllDown(u, Range(u.table[i].btns)))
  BY <1>9 DEF IsCombos
<1> HIDE DEF ended, q
<1>13. IsCombos(t) /\ t.table = u.table /\ t.down = u.down /\ t.on = u.on \ ended
  BY <1>9 DEF IsCombos
<1> HIDE DEF t
<1>14. \A bs : AllDown(t, bs) = AllDown(u, bs)
  BY <1>13 DEF AllDown
<1> QED
  BY <1>10, <1>11, <1>12, <1>13, <1>14 DEF ChordsHeld, Downs

\* Time, and the calls of an application.
LEMMA ComboTickIs ==
    ASSUME NEW c, IsCombos(c), ChordsHeld(c)
    PROVE  LET t == ComboTick(c)
           IN  IsCombos(t) /\ ChordsHeld(t) /\ Downs(t) = Downs(c)
<1> DEFINE sn == CapGap(c.since + 1)
           t == [c EXCEPT !.since = sn, !.idle = CapGap(@ + 1)]
<1>1. sn \in Int
  BY CapIs DEF IsCombos
<1> HIDE DEF sn
<1>2. IsCombos(t) /\ t.table = c.table /\ t.on = c.on /\ t.down = c.down
  BY <1>1 DEF IsCombos
<1>3. ComboTick(c) = t
  BY DEF ComboTick, sn
<1> HIDE DEF t
<1> QED
  BY <1>2, <1>3 DEF ChordsHeld, AllDown, Downs

LEMMA RegistryKeeps ==
    ASSUME NEW c, IsCombos(c), ChordsHeld(c), NEW t,
           \/ \E m \in Combo : t = Register(c, m)
           \/ \E id : t = Unregister(c, id)
           \/ t \in {ClearCombos(c), PollCombo(c)}
    PROVE  IsCombos(t) /\ ChordsHeld(t) /\ Downs(t) = Downs(c)
<1>1. c.table \in Seq(Combo) /\ \A i \in c.on : i \in DOMAIN c.table /\ ~c.table[i].sequence
  BY DEF IsCombos
<1>2. ASSUME NEW tab \in Seq(Combo), NEW q, t = [c EXCEPT !.table = tab, !.q = q],
             \A i \in c.on : /\ i \in DOMAIN tab /\ ~tab[i].sequence
                             /\ tab[i].btns = c.table[i].btns
                             /\ tab[i].active => c.table[i].active
      PROVE  IsCombos(t) /\ ChordsHeld(t) /\ Downs(t) = Downs(c)
  <2>1. IsCombos(t) /\ t.table = tab /\ t.on = c.on /\ t.down = c.down
    <3>1. t.table = tab /\ t.on = c.on /\ t.down = c.down
      BY <1>2 DEF IsCombos
    <3>2. t \in [table : Seq(Combo), on : SUBSET Nat, down : Seq([b : Buttons, gap : Int]),
                since : Int, seq : {t.seq}, idle : {t.idle}, q : {t.q}]
      BY <1>2 DEF IsCombos
    <3>3. \A i \in c.on : i \in DOMAIN tab /\ ~tab[i].sequence
      BY <1>2
    <3> QED
      BY <3>1, <3>2, <3>3 DEF IsCombos
  <2>2. \A bs : AllDown(t, bs) = AllDown(c, bs)
    BY <2>1 DEF AllDown
  <2> QED
    <3>1. \A i \in c.on : c.table[i].active => AllDown(c, Range(c.table[i].btns))
      BY DEF ChordsHeld
    <3>2. ASSUME NEW i \in c.on, tab[i].active PROVE AllDown(t, Range(tab[i].btns))
      <4>1. c.table[i].active /\ tab[i].btns = c.table[i].btns
        BY <1>2, <3>2
      <4> QED
        BY <2>2, <3>1, <4>1
    <3> QED
      BY <2>1, <3>2 DEF ChordsHeld, Downs
<1>3. CASE \E m \in Combo : t = Register(c, m)
  <2>3. PICK m \in Combo : t = Register(c, m)
    BY <1>3
  <2>1. CASE Len(c.table) >= MaxCombos
    BY <2>1, <2>3 DEF Register
  <2>2. CASE ~(Len(c.table) >= MaxCombos)
    <3> DEFINE tab == Append(c.table, m)
    <3>1. t = [c EXCEPT !.table = tab, !.q = c.q]
      BY <2>2, <2>3 DEF Register, IsCombos
    <3>2. tab \in Seq(Combo) /\ \A i \in DOMAIN c.table : i \in DOMAIN tab /\ tab[i] = c.table[i]
      BY <1>1
    <3>3. \A i \in c.on : i \in DOMAIN tab /\ tab[i] = c.table[i] /\ ~tab[i].sequence
      BY <1>1, <3>2
    <3> HIDE DEF tab
    <3> QED
      BY <1>2, <3>1, <3>2, <3>3
  <2> QED
    BY <2>1, <2>2
<1>4. CASE \E id : t = Unregister(c, id)
  <2>5. PICK id : t = Unregister(c, id)
    BY <1>4
  <2> DEFINE same == {i \in DOMAIN c.table : c.table[i].id = id}
             first == CHOOSE i \in same : \A k \in same : i <= k
             e == [c.table[first] EXCEPT !.active = FALSE]
             tab == [c.table EXCEPT ![first] = e]
  <2>1. t = c \/ t = [c EXCEPT !.table = tab]
    BY <2>5 DEF Unregister
  <2> HIDE DEF first
  <2>2. first \in DOMAIN c.table => e \in Combo /\ e.sequence = c.table[first].sequence
           /\ e.btns = c.table[first].btns /\ e.active = FALSE
    <3>1. first \in DOMAIN c.table => c.table[first] \in Combo
      BY <1>1, ElementIn
    <3> QED
      BY <3>1 DEF Combo
  <2> HIDE DEF e
  <2>3. /\ tab \in Seq(Combo) /\ DOMAIN tab = DOMAIN c.table
        /\ \A i \in DOMAIN tab : tab[i] = IF i = first THEN e ELSE c.table[i]
    <3>1. CASE first \in DOMAIN c.table
      BY <1>1, <2>2, <3>1
    <3>2. CASE first \notin DOMAIN c.table
      <4>1. tab = c.table
        BY <1>1, <3>2
      <4> QED
        BY <1>1, <3>2, <4>1
    <3> QED
      BY <3>1, <3>2
  <2>4. t = c \/ t = [c EXCEPT !.table = tab, !.q = c.q]
    BY <2>1 DEF IsCombos
  <2> HIDE DEF tab
  <2>6. \A i \in c.on : /\ i \in DOMAIN tab /\ ~tab[i].sequence
                        /\ tab[i].btns = c.table[i].btns
                        /\ tab[i].active => c.table[i].active
    BY <1>1, <2>2, <2>3
  <2> QED
    BY <1>2, <2>3, <2>4, <2>6
<1>5. CASE t = ClearCombos(c)
  <2>1. t = [c EXCEPT !.table = << >>, !.seq = << >>, !.on = {}, !.q = << >>]
    BY <1>5 DEF ClearCombos
  <2>2. t.table = << >> /\ t.on = {} /\ t.down = c.down
    BY <2>1 DEF IsCombos
  <2>3. t \in [table : Seq(Combo), on : SUBSET Nat, down : Seq([b : Buttons, gap : Int]),
              since : Int, seq : {t.seq}, idle : {t.idle}, q : {t.q}]
    <3> DEFINE none == << >>
    <3>1. none \in Seq(Combo) /\ t = [c EXCEPT !.table = none, !.seq = none, !.on = {}, !.q = none]
      BY <2>1
    <3> HIDE DEF none
    <3> QED
      BY <3>1 DEF IsCombos
  <2>4. IsCombos(t)
    BY <2>2, <2>3 DEF IsCombos
  <2> QED
    BY <2>2, <2>4 DEF ChordsHeld, Downs
<1>6. CASE t = PollCombo(c)
  <2>1. t = [c EXCEPT !.table = c.table, !.q = Tail(c.q)]
    BY <1>6 DEF PollCombo, IsCombos
  <2> QED
    BY <1>1, <1>2, <2>1
<1> QED
  BY <1>3, <1>4, <1>5, <1>6

\* Updates of the footer's part, and of the state by a footer's part.
LEMMA FootSwallow ==
    ASSUME NEW f, IsFoot(f), NEW y \in SUBSET Buttons, NEW n, n = [f EXCEPT !.swallow = y]
    PROVE  IsFoot(n) /\ n.swallow = y /\ n.chord = f.chord /\ n.a = f.a /\ n.b = f.b
BY DEF IsFoot

LEMMA FootChord ==
    ASSUME NEW f, IsFoot(f), NEW n, n = [f EXCEPT !.chord = FALSE]
    PROVE  IsFoot(n) /\ n.swallow = f.swallow /\ n.chord = FALSE /\ n.a = f.a /\ n.b = f.b
BY DEF IsFoot

LEMMA WithFoot ==
    ASSUME NEW u, IsState(u), NEW n, IsFoot(n), NEW t, t = [u EXCEPT !.foot = n]
    PROVE  IsState(t) /\ t.foot = n /\ t.held = u.held /\ t.ring = u.ring /\ t.c = u.c /\ Kept(u, t)
BY DEF IsState, Kept

\* ap__footer_overflow_note_button, called when b has just become down.
LEMMA NoteIs ==
    ASSUME NEW s, IsState(s), FootClean(s), NEW b \in Sources, NEW down \in BOOLEAN,
           NEW u, IsState(u), u.foot = s.foot, u.held = [s.held EXCEPT ![b] = down], Kept(s, u)
    PROVE  LET t == NoteButton(u, b, down).s
           IN  IsState(t) /\ FootClean(t) /\ t.held = u.held /\ t.c = u.c /\ Kept(s, t)
<1> DEFINE f == u.foot
           ab == {f.a, f.b}
           t == NoteButton(u, b, down).s
<1>1. f.swallow \subseteq Buttons /\ ab \subseteq Buttons /\ b \in Buttons
  BY DEF IsState, IsFoot, Buttons
<1>2. /\ \A x \in Buttons : u.held[x] = IF x = b THEN down ELSE s.held[x]
      /\ u.held \in [Buttons -> BOOLEAN]
  BY <1>1 DEF IsState
<1>3. CASE ~down
  <2> DEFINE over == b \in ab /\ \A x \in ab : ~u.held[x]
             c == IF over THEN [u EXCEPT !.foot.chord = FALSE] ELSE u
  <2>1. t = [c EXCEPT !.foot.swallow = @ \ {b}]
    BY <1>3 DEF NoteButton
  <2>2. IsState(c) /\ c.held = u.held /\ c.c = u.c /\ Kept(s, c) /\ c.foot.swallow = f.swallow
        /\ c.foot.chord = (IF over THEN FALSE ELSE f.chord) /\ c.foot.a = f.a /\ c.foot.b = f.b
    <3>1. CASE over
      <4> DEFINE n == [f EXCEPT !.chord = FALSE]
      <4>1. IsFoot(f)
        BY DEF IsState
      <4>2. IsFoot(n) /\ n.swallow = f.swallow /\ n.chord = FALSE /\ n.a = f.a /\ n.b = f.b
        BY <4>1, FootChord
      <4>3. c = [u EXCEPT !.foot = n]
        BY <3>1
      <4> HIDE DEF n, c
      <4>4. IsState(c) /\ c.foot = n /\ c.held = u.held /\ c.c = u.c /\ Kept(u, c)
        BY <4>2, <4>3, WithFoot
      <4> QED
        BY <3>1, <4>2, <4>4 DEF Kept
    <3> QED
      BY <3>1
  <2>3. IsState(t) /\ t.held = u.held /\ t.c = u.c /\ Kept(s, t) /\ t.foot.swallow = f.swallow \ {b}
        /\ t.foot.chord = c.foot.chord /\ t.foot.a = f.a /\ t.foot.b = f.b
    <3> HIDE DEF c
    <3> DEFINE n == [c.foot EXCEPT !.swallow = f.swallow \ {b}]
    <3>1. t = [c EXCEPT !.foot = n]
      BY <2>1, <2>2
    <3>2. IsFoot(c.foot) /\ f.swallow \ {b} \in SUBSET Buttons
      BY <1>1, <2>2 DEF IsState
    <3>3. IsFoot(n) /\ n.swallow = f.swallow \ {b} /\ n.chord = c.foot.chord /\ n.a = c.foot.a
          /\ n.b = c.foot.b
      BY <3>2, FootSwallow
    <3> HIDE DEF n, t
    <3>4. IsState(t) /\ t.foot = n /\ t.held = c.held /\ t.c = c.c /\ Kept(c, t)
      BY <2>2, <3>1, <3>3, WithFoot
    <3> QED
      BY <2>2, <3>3, <3>4 DEF Kept
  <2>4. \A x \in t.foot.swallow : t.held[x]
    BY <1>1, <1>2, <2>3 DEF FootClean
  <2>5. t.foot.chord => t.held[t.foot.a] \/ t.held[t.foot.b]
    <3> HIDE DEF c, t
    <3>1. SUFFICES ASSUME f.chord, ~over PROVE u.held[f.a] \/ u.held[f.b]
      BY <2>2, <2>3
    <3>2. s.held[f.a] \/ s.held[f.b]
      BY <3>1 DEF FootClean
    <3> QED
      BY <1>1, <1>2, <3>1, <3>2
  <2> QED
    BY <2>3, <2>4, <2>5 DEF FootClean
<1>4. CASE down
  <2>1. CASE FooterEnabled(u) /\ ~f.chord /\ b \in ab /\ \A x \in ab : u.held[x]
    <3> DEFINE new == [f EXCEPT !.chord = TRUE, !.open = TRUE, !.swallow = ab]
    <3>1. t = [u EXCEPT !.foot = new, !.ring = RemoveButtons(@, ab)]
      BY <1>4, <2>1 DEF NoteButton
    <3>2. IsFoot(new) /\ new.swallow = ab /\ new.a = f.a /\ new.b = f.b
      BY <1>1 DEF IsState, IsFoot
    <3> DEFINE r == RemoveButtons(u.ring, ab)
    <3>3. t = [u EXCEPT !.foot = new, !.ring = r]
      BY <3>1
    <3>4. IsFoot(new)
      BY <3>2
    <3> HIDE DEF new, r, t
    <3>5. IsState(t) /\ t.foot = new /\ t.held = u.held /\ t.c = u.c /\ Kept(s, t)
      BY <1>1, <3>3, <3>4 DEF IsState, Kept
    <3>6. FootClean(t)
      BY <1>1, <1>2, <2>1, <3>2, <3>5 DEF FootClean
    <3> QED
      BY <3>5, <3>6 DEF t
  <2>2. CASE ~(FooterEnabled(u) /\ ~f.chord /\ b \in ab /\ \A x \in ab : u.held[x])
    <3>1. t = u
      BY <1>4, <2>2 DEF NoteButton
    <3> QED
      BY <1>1, <1>2, <1>4, <3>1, ZenonT(60) DEF FootClean
  <2> QED
    BY <2>1, <2>2
<1> QED
  BY <1>3, <1>4

\* A state with its footer and its combos in order, and what the pushes make of it.
Sound(s) == IsState(s) /\ FootClean(s) /\ ComboClean(s)
HeldAfter(s, b, down) == IF b = "none" THEN s.held ELSE [s.held EXCEPT ![b] = down]
Moved(s, t) == t.hat = s.hat /\ t.axis = s.axis /\ t.wake = s.wake

LEMMA EnqueueIs ==
    ASSUME NEW s, Sound(s), NEW e
    PROVE  LET t == Enqueue(s, e)
           IN  Sound(t) /\ t.held = s.held /\ Kept(s, t)
<1> DEFINE t == Enqueue(s, e)
<1>1. CASE Len(s.ring) + 1 >= Ring
  BY <1>1 DEF Enqueue, Kept
<1>2. CASE ~(Len(s.ring) + 1 >= Ring)
  <2>1. t = [s EXCEPT !.ring = Append(@, e), !.needsFrame = TRUE]
    BY <1>2 DEF Enqueue
  <2>2. IsState(t) /\ t.held = s.held /\ t.foot = s.foot /\ t.c = s.c /\ Kept(s, t)
    BY <2>1 DEF Sound, IsState, Kept
  <2> QED
    BY <2>2 DEF Sound, FootClean, ComboClean
<1> QED
  BY <1>1, <1>2

LEMMA PushIs ==
    ASSUME NEW s, Sound(s), NEW b \in Buttons, NEW down \in BOOLEAN
    PROVE  LET t == InputPush(s, b, down)
           IN  Sound(t) /\ t.held = HeldAfter(s, b, down) /\ Kept(s, t)
<1>1. CASE b = "none"
  BY <1>1 DEF InputPush, HeldAfter, Kept
<1>2. CASE b # "none"
  <2> DEFINE h == IF down # s.held[b] THEN [s EXCEPT !.held[b] = down] ELSE s
             u == IF down = s.held[b] \/ setup.combos = {} THEN h
                  ELSE IF down THEN [h EXCEPT !.c = ComboPress(@, b)]
                  ELSE [h EXCEPT !.c = ComboRelease(@, b)]
             noted == NoteButton(u, b, down)
  <2>1. s.held \in [Buttons -> BOOLEAN] /\ IsState(s)
    BY DEF Sound, IsState
  <2>2. IsState(h) /\ h.held = [s.held EXCEPT ![b] = down] /\ h.foot = s.foot /\ h.c = s.c /\ Kept(s, h)
    <3>1. CASE down = s.held[b]
      <4>1. [s.held EXCEPT ![b] = down] = s.held
        BY <2>1, <3>1
      <4> QED
        BY <2>1, <3>1, <4>1 DEF Kept
    <3>2. CASE down # s.held[b]
      BY <2>1, <3>2 DEF IsState, Kept
    <3> QED
      BY <3>1, <3>2
  <2>3. IsState(u) /\ u.held = h.held /\ u.foot = h.foot /\ Kept(s, u)
    <3> HIDE DEF h
    <3>1. ASSUME NEW x PROVE LET v == [h EXCEPT !.c = x]
                             IN  IsState(v) /\ v.held = h.held /\ v.foot = h.foot /\ v.c = x /\ Kept(s, v)
      BY <2>2 DEF IsState, Kept
    <3> QED
      BY <2>2, <3>1
  <2>4. b \in Sources /\ FootClean(s)
    BY <1>2 DEF Buttons, Sound
  <2>7. ComboClean(u)
    <3>1. /\ IsCombos(s.c) /\ ChordsHeld(s.c) /\ Sources \subseteq Buttons
          /\ setup.combos # {} => \A x \in Sources : s.held[x] => x \in Downs(s.c)
      BY DEF Sound, ComboClean, Buttons
    <3>2. \A x \in Buttons : u.held[x] = IF x = b THEN down ELSE s.held[x]
      BY <2>1, <2>2, <2>3
    <3>3. CASE down = s.held[b] \/ setup.combos = {}
      <4>1. u = h
        BY <3>3
      <4> HIDE DEF u, h
      <4>2. u.c = s.c
        BY <2>2, <4>1
      <4> QED
        BY <3>1, <3>2, <3>3, <4>2 DEF ComboClean
    <3>4. CASE down # s.held[b] /\ setup.combos # {} /\ down
      <4> DEFINE c == ComboPress(s.c, b)
      <4> HIDE DEF h
      <4>1. IsCombos(c) /\ ChordsHeld(c) /\ Downs(c) = Downs(s.c) \cup {b}
        BY <3>1, ComboPressIs
      <4>2. u = [h EXCEPT !.c = c]
        BY <2>2, <3>4
      <4> HIDE DEF u, c
      <4>3. u.c = c
        BY <2>2, <4>2 DEF IsState
      <4> QED
        BY <3>1, <3>2, <4>1, <4>3 DEF ComboClean
    <3>5. CASE down # s.held[b] /\ setup.combos # {} /\ ~down
      <4> DEFINE c == ComboRelease(s.c, b)
      <4> HIDE DEF h
      <4>4. b \in Downs(s.c)
        BY <2>1, <2>4, <3>1, <3>5
      <4>1. IsCombos(c) /\ ChordsHeld(c) /\ Downs(s.c) \ {b} \subseteq Downs(c)
        BY <3>1, <4>4, ComboReleaseIs
      <4>2. u = [h EXCEPT !.c = c]
        BY <2>2, <3>5
      <4> HIDE DEF u, c
      <4>3. u.c = c
        BY <2>2, <4>2 DEF IsState
      <4> QED
        BY <3>1, <3>2, <3>5, <4>1, <4>3 DEF ComboClean
    <3> QED
      BY <3>3, <3>4, <3>5
  <2> HIDE DEF u, h
  <2>5. Sound(noted.s) /\ noted.s.held = [s.held EXCEPT ![b] = down] /\ Kept(s, noted.s)
    <3>1. IsState(noted.s) /\ FootClean(noted.s) /\ noted.s.held = u.held /\ noted.s.c = u.c
          /\ Kept(s, noted.s)
      BY <2>1, <2>2, <2>3, <2>4, NoteIs
    <3> HIDE DEF noted
    <3> QED
      BY <2>2, <2>3, <2>7, <3>1 DEF Sound, ComboClean
  <2>6. InputPush(s, b, down) = IF noted.eat THEN noted.s
                                ELSE Enqueue(noted.s, [b |-> b, down |-> down, repeated |-> FALSE])
    BY <1>2, <2>1 DEF InputPush, u, h
  <2> HIDE DEF noted
  <2> QED
    BY <1>2, <2>5, <2>6, EnqueueIs DEF HeldAfter, Kept
<1> QED
  BY <1>1, <1>2

LEMMA PressIs ==
    ASSUME NEW s, Sound(s), NEW b \in Buttons
    PROVE  /\ LET t == PushPress(s, b)
              IN  Sound(t) /\ t.held = HeldAfter(s, b, TRUE) /\ Moved(s, t)
           /\ LET t == PushRelease(s, b)
              IN  Sound(t) /\ t.held = HeldAfter(s, b, FALSE) /\ Moved(s, t)
<1>1. ASSUME NEW d \in Int
      PROVE  LET u == IF b \in Dirs THEN [s EXCEPT !.due[b] = d] ELSE s
             IN  Sound(u) /\ HeldAfter(u, b, TRUE) = HeldAfter(s, b, TRUE)
                 /\ HeldAfter(u, b, FALSE) = HeldAfter(s, b, FALSE) /\ Moved(s, u)
  <2>1. CASE b \in Dirs
    <3> DEFINE u == [s EXCEPT !.due[b] = d]
    <3>1. IsState(u) /\ u.held = s.held /\ u.foot = s.foot /\ u.c = s.c /\ Moved(s, u)
      BY <2>1 DEF Sound, IsState, Moved
    <3> HIDE DEF u
    <3>2. Sound(u)
      BY <3>1 DEF Sound, FootClean, ComboClean
    <3> QED
      BY <2>1, <3>1, <3>2 DEF HeldAfter, u
  <2>2. CASE b \notin Dirs
    BY <2>2 DEF Moved
  <2> QED
    BY <2>1, <2>2
<1>2. RepeatDelay \in Int /\ Off \in Int
  BY TimingAssumption
<1> DEFINE p == IF b \in Dirs THEN [s EXCEPT !.due[b] = RepeatDelay] ELSE s
           r == IF b \in Dirs THEN [s EXCEPT !.due[b] = Off] ELSE s
<1>3. Sound(p) /\ HeldAfter(p, b, TRUE) = HeldAfter(s, b, TRUE) /\ Moved(s, p)
      /\ Sound(r) /\ HeldAfter(r, b, FALSE) = HeldAfter(s, b, FALSE) /\ Moved(s, r)
  BY <1>1, <1>2
<1>4. PushPress(s, b) = InputPush(p, b, TRUE) /\ PushRelease(s, b) = InputPush(r, b, FALSE)
  BY DEF PushPress, PushRelease
<1> HIDE DEF p, r
<1> DEFINE tp == InputPush(p, b, TRUE)
           tr == InputPush(r, b, FALSE)
<1>5. Sound(tp) /\ tp.held = HeldAfter(p, b, TRUE) /\ Kept(p, tp)
  BY <1>3, PushIs
<1>6. Sound(tr) /\ tr.held = HeldAfter(r, b, FALSE) /\ Kept(r, tr)
  BY <1>3, PushIs
<1> HIDE DEF tp, tr
<1>7. Moved(s, tp) /\ Moved(s, tr)
  BY <1>3, <1>5, <1>6 DEF Moved, Kept
<1> QED
  BY <1>3, <1>4, <1>5, <1>6, <1>7 DEF tp, tr

\* One operation after the other on the directions in bs.
LEMMA DirsAre == Dirs \subseteq Buttons /\ Dirs = {"up", "down", "left", "right"} /\ "none" \notin Dirs
BY DEF Dirs, Buttons, Sources

LEMMA PressesAre ==
    ASSUME NEW s, Sound(s), NEW bs \in SUBSET Dirs
    PROVE  LET t == InOrder(PushPress, s, bs)
           IN  Sound(t) /\ Moved(s, t) /\ \A b \in Buttons : t.held[b] = (b \in bs \/ s.held[b])
<1> DEFINE do(u, d) == IF d \in bs THEN PushPress(u, d) ELSE u
<1>1. ASSUME NEW d \in Dirs, NEW u, Sound(u)
      PROVE  LET t == do(u, d)
             IN  Sound(t) /\ Moved(u, t) /\ \A b \in Buttons : t.held[b] = ((b = d /\ b \in bs) \/ u.held[b])
  <2>1. u.held \in [Buttons -> BOOLEAN]
    BY <1>1 DEF Sound, IsState
  <2>2. CASE d \in bs
    <3> DEFINE t == PushPress(u, d)
    <3>1. Sound(t) /\ t.held = HeldAfter(u, d, TRUE) /\ Moved(u, t)
      BY <1>1, DirsAre, PressIs
    <3> HIDE DEF t
    <3>2. t.held = [u.held EXCEPT ![d] = TRUE]
      BY <3>1, DirsAre DEF HeldAfter
    <3>3. \A b \in Buttons : t.held[b] = ((b = d /\ b \in bs) \/ u.held[b])
      BY <2>1, <2>2, <3>2
    <3> QED
      BY <2>2, <3>1, <3>3 DEF t
  <2>3. CASE d \notin bs
    BY <1>1, <2>1, <2>3 DEF Moved
  <2> QED
    BY <2>2, <2>3
<1> DEFINE t1 == do(s, "up")
           t2 == do(t1, "down")
           t3 == do(t2, "left")
           t4 == do(t3, "right")
<1>2. InOrder(PushPress, s, bs) = t4
  BY DEF InOrder
<1> HIDE DEF do
<1>3. Sound(t1) /\ Moved(s, t1) /\ \A b \in Buttons : t1.held[b] = ((b = "up" /\ b \in bs) \/ s.held[b])
  BY <1>1, DirsAre
<1> HIDE DEF t1
<1>4. Sound(t2) /\ Moved(t1, t2) /\ \A b \in Buttons : t2.held[b] = ((b = "down" /\ b \in bs) \/ t1.held[b])
  BY <1>1, <1>3, DirsAre
<1> HIDE DEF t2
<1>5. Sound(t3) /\ Moved(t2, t3) /\ \A b \in Buttons : t3.held[b] = ((b = "left" /\ b \in bs) \/ t2.held[b])
  BY <1>1, <1>4, DirsAre
<1> HIDE DEF t3
<1>6. Sound(t4) /\ Moved(t3, t4) /\ \A b \in Buttons : t4.held[b] = ((b = "right" /\ b \in bs) \/ t3.held[b])
  BY <1>1, <1>5, DirsAre
<1> HIDE DEF t4
<1>7. Moved(s, t4) /\ \A b \in Buttons : t4.held[b] = (b \in bs \/ s.held[b])
  BY <1>3, <1>4, <1>5, <1>6, DirsAre DEF Moved
<1> QED
  BY <1>2, <1>6, <1>7

LEMMA ReleasesAre ==
    ASSUME NEW s, Sound(s), NEW bs \in SUBSET Dirs
    PROVE  LET t == InOrder(PushRelease, s, bs)
           IN  Sound(t) /\ Moved(s, t) /\ \A b \in Buttons : t.held[b] = (b \notin bs /\ s.held[b])
<1> DEFINE do(u, d) == IF d \in bs THEN PushRelease(u, d) ELSE u
<1>1. ASSUME NEW d \in Dirs, NEW u, Sound(u)
      PROVE  LET t == do(u, d)
             IN  Sound(t) /\ Moved(u, t) /\ \A b \in Buttons : t.held[b] = (~(b = d /\ b \in bs) /\ u.held[b])
  <2>1. u.held \in [Buttons -> BOOLEAN]
    BY <1>1 DEF Sound, IsState
  <2>2. CASE d \in bs
    <3> DEFINE t == PushRelease(u, d)
    <3>1. Sound(t) /\ t.held = HeldAfter(u, d, FALSE) /\ Moved(u, t)
      BY <1>1, DirsAre, PressIs
    <3> HIDE DEF t
    <3>2. t.held = [u.held EXCEPT ![d] = FALSE]
      BY <3>1, DirsAre DEF HeldAfter
    <3>3. \A b \in Buttons : t.held[b] = (~(b = d /\ b \in bs) /\ u.held[b])
      BY <2>1, <2>2, <3>2
    <3> QED
      BY <2>2, <3>1, <3>3 DEF t
  <2>3. CASE d \notin bs
    BY <1>1, <2>1, <2>3 DEF Moved
  <2> QED
    BY <2>2, <2>3
<1> DEFINE t1 == do(s, "up")
           t2 == do(t1, "down")
           t3 == do(t2, "left")
           t4 == do(t3, "right")
<1>2. InOrder(PushRelease, s, bs) = t4
  BY DEF InOrder
<1> HIDE DEF do
<1>3. Sound(t1) /\ Moved(s, t1) /\ \A b \in Buttons : t1.held[b] = (~(b = "up" /\ b \in bs) /\ s.held[b])
  BY <1>1, DirsAre
<1> HIDE DEF t1
<1>4. Sound(t2) /\ Moved(t1, t2) /\ \A b \in Buttons : t2.held[b] = (~(b = "down" /\ b \in bs) /\ t1.held[b])
  BY <1>1, <1>3, DirsAre
<1> HIDE DEF t2
<1>5. Sound(t3) /\ Moved(t2, t3) /\ \A b \in Buttons : t3.held[b] = (~(b = "left" /\ b \in bs) /\ t2.held[b])
  BY <1>1, <1>4, DirsAre
<1> HIDE DEF t3
<1>6. Sound(t4) /\ Moved(t3, t4) /\ \A b \in Buttons : t4.held[b] = (~(b = "right" /\ b \in bs) /\ t3.held[b])
  BY <1>1, <1>5, DirsAre
<1> HIDE DEF t4
<1>7. Moved(s, t4) /\ \A b \in Buttons : t4.held[b] = (b \notin bs /\ s.held[b])
  BY <1>3, <1>4, <1>5, <1>6, DirsAre DEF Moved
<1> QED
  BY <1>2, <1>6, <1>7

LEMMA RepeatsAre ==
    ASSUME NEW s, Sound(s), NEW bs
    PROVE  LET t == InOrder(RepeatDirection, s, bs)
           IN  /\ Sound(t) /\ Moved(s, t) /\ t.held = s.held
               /\ t.hatDue = s.hatDue /\ t.axisDue = s.axisDue
<1> DEFINE do(u, d) == IF d \in bs THEN RepeatDirection(u, d) ELSE u
           like(u, t) == Moved(u, t) /\ t.held = u.held /\ t.hatDue = u.hatDue /\ t.axisDue = u.axisDue
<1>1. ASSUME NEW d \in Dirs, NEW u, Sound(u)
      PROVE  Sound(do(u, d)) /\ like(u, do(u, d))
  <2> DEFINE e == Enqueue(u, [b |-> d, down |-> TRUE, repeated |-> TRUE])
             t == [e EXCEPT !.due[d] = Advance(@)]
  <2>1. Sound(e) /\ e.held = u.held /\ Kept(u, e)
    BY <1>1, EnqueueIs
  <2> HIDE DEF e
  <2>2. e.due[d] \in Int
    BY <1>1, <2>1 DEF Sound, IsState
  <2>3. Advance(e.due[d]) \in Int
    BY <2>2, TimingAssumption DEF Advance
  <2>4. IsState(t) /\ t.held = e.held /\ t.foot = e.foot /\ t.hat = e.hat /\ t.axis = e.axis /\ t.wake = e.wake /\ t.hatDue = e.hatDue
        /\ t.axisDue = e.axisDue /\ t.c = e.c
    BY <1>1, <2>1, <2>3 DEF Sound, IsState, Kept
  <2>5. RepeatDirection(u, d) = t
    BY DEF RepeatDirection, e
  <2> HIDE DEF t
  <2>6. Sound(t) /\ like(u, t)
    BY <2>1, <2>4 DEF Sound, FootClean, ComboClean, Kept, Moved
  <2> QED
    BY <1>1, <2>5, <2>6 DEF Moved
<1> DEFINE t1 == do(s, "up")
           t2 == do(t1, "down")
           t3 == do(t2, "left")
           t4 == do(t3, "right")
<1>2. InOrder(RepeatDirection, s, bs) = t4
  BY DEF InOrder
<1> HIDE DEF do, like
<1>3. Sound(t1) /\ like(s, t1)
  BY <1>1, DirsAre
<1>4. Sound(t2) /\ like(t1, t2)
  BY <1>1, <1>3, DirsAre
<1>5. Sound(t3) /\ like(t2, t3)
  BY <1>1, <1>4, DirsAre
<1>6. Sound(t4) /\ like(t3, t4)
  BY <1>1, <1>5, DirsAre
<1> HIDE DEF t1, t2, t3, t4
<1>7. like(s, t4)
  BY <1>3, <1>4, <1>5, <1>6 DEF like, Moved
<1> QED
  BY <1>2, <1>6, <1>7 DEF like

----------------------------------------------------------------------------
(* The input loop: one event, and the repeats.                             *)

\* Every button that is held in s has a source, when ks are the buttons whose
\* last key was a press.
Sourced(s, ks) == \A b \in Sources : s.held[b] => Asserted(s, b, ks)

LEMMA TowardIs == \A ax \in Axes : Toward(ax, -1) \in Dirs /\ Toward(ax, 1) \in Dirs
BY DEF Axes, Toward, Dirs

LEMMA SetHatIs ==
    ASSUME NEW s, Sound(s), NEW hat \in SUBSET Dirs, NEW ks, Sourced(s, ks)
    PROVE  LET t == SetHat(s, hat)
           IN  Sound(t) /\ t.wake = s.wake /\ Sourced(t, ks)
<1> DEFINE r == InOrder(PushRelease, s, s.hat \ hat)
           p == InOrder(PushPress, r, hat \ s.hat)
           due == IF hat = {} THEN Off ELSE RepeatDelay
           t == [p EXCEPT !.hat = hat, !.hatDue = due]
<1>1. s.hat \ hat \in SUBSET Dirs /\ hat \ s.hat \in SUBSET Dirs /\ due \in Int
  BY TimingAssumption DEF Sound, IsState
<1>2. Sound(r) /\ Moved(s, r) /\ \A b \in Buttons : r.held[b] = (b \notin s.hat \ hat /\ s.held[b])
  BY <1>1, ReleasesAre
<1> HIDE DEF r
<1>3. Sound(p) /\ Moved(r, p) /\ \A b \in Buttons : p.held[b] = (b \in hat \ s.hat \/ r.held[b])
  BY <1>1, <1>2, PressesAre
<1>4. SetHat(s, hat) = t
  BY DEF SetHat, r
<1> HIDE DEF p
<1>5. IsState(t) /\ t.held = p.held /\ t.foot = p.foot /\ t.hat = hat /\ t.axis = p.axis
      /\ t.wake = p.wake /\ t.c = p.c
  BY <1>1, <1>3 DEF Sound, IsState
<1> HIDE DEF t
<1>6. ASSUME NEW b \in Sources, t.held[b] PROVE Asserted(t, b, ks)
  <2>1. b \in hat \/ (s.held[b] /\ b \notin s.hat)
    BY <1>2, <1>3, <1>5, <1>6 DEF Buttons
  <2>2. CASE b \in hat
    BY <1>5, <2>2 DEF Asserted
  <2>3. CASE s.held[b] /\ b \notin s.hat
    BY <1>2, <1>3, <1>5, <2>3 DEF Sourced, Asserted, Moved
  <2> QED
    BY <2>1, <2>2, <2>3
<1> QED
  <2>1. Sound(t)
    BY <1>3, <1>5 DEF Sound, FootClean, ComboClean
  <2> QED
    BY <1>2, <1>3, <1>4, <1>5, <1>6, <2>1 DEF Sourced, Moved

LEMMA SetAxisIs ==
    ASSUME NEW s, Sound(s), NEW ax \in Axes, NEW dir \in -1 .. 1, NEW ks, Sourced(s, ks)
    PROVE  LET t == SetAxis(s, ax, dir)
           IN  Sound(t) /\ t.wake = s.wake /\ Sourced(t, ks)
<1> DEFINE was == s.axis[ax]
           off == IF was = 0 THEN s ELSE PushRelease(s, Toward(ax, was))
           on == IF dir = 0 THEN off ELSE PushPress(off, Toward(ax, dir))
           due == IF dir = 0 THEN Off ELSE RepeatDelay
           t == [on EXCEPT !.axis[ax] = dir, !.axisDue[ax] = due]
<1>1. was \in -1 .. 1 /\ due \in Int /\ s.held \in [Buttons -> BOOLEAN] /\ s.axis \in [Axes -> -1 .. 1]
  BY TimingAssumption DEF Sound, IsState
<1>2. /\ was # 0 => Toward(ax, was) \in Dirs
      /\ dir # 0 => Toward(ax, dir) \in Dirs
  BY <1>1, TowardIs
<1>3. Sound(off) /\ Moved(s, off)
      /\ \A b \in Buttons : off.held[b] => s.held[b] /\ ~(was # 0 /\ b = Toward(ax, was))
  <2>1. CASE was = 0
    BY <2>1 DEF Moved
  <2>2. CASE was # 0
    <3>1. Sound(off) /\ off.held = HeldAfter(s, Toward(ax, was), FALSE) /\ Moved(s, off)
      BY <1>2, <2>2, DirsAre, PressIs
    <3> HIDE DEF off
    <3>2. off.held = [s.held EXCEPT ![Toward(ax, was)] = FALSE]
      BY <1>2, <2>2, <3>1, DirsAre DEF HeldAfter
    <3> HIDE DEF was
    <3> QED
      BY <1>1, <1>2, <2>2, <3>1, <3>2, DirsAre
  <2> QED
    BY <2>1, <2>2
<1> HIDE DEF off
<1>4. off.held \in [Buttons -> BOOLEAN]
  BY <1>3 DEF Sound, IsState
<1>5. Sound(on) /\ Moved(off, on)
      /\ \A b \in Buttons : on.held[b] => off.held[b] \/ (dir # 0 /\ b = Toward(ax, dir))
  <2>1. CASE dir = 0
    BY <1>3, <2>1 DEF Moved
  <2>2. CASE dir # 0
    <3>1. Sound(on) /\ on.held = HeldAfter(off, Toward(ax, dir), TRUE) /\ Moved(off, on)
      BY <1>2, <1>3, <2>2, DirsAre, PressIs
    <3> HIDE DEF on
    <3>2. on.held = [off.held EXCEPT ![Toward(ax, dir)] = TRUE]
      BY <1>2, <2>2, <3>1, DirsAre DEF HeldAfter
    <3> QED
      BY <1>2, <1>4, <2>2, <3>1, <3>2, DirsAre
  <2> QED
    BY <2>1, <2>2
<1> HIDE DEF on
<1>6. IsState(t) /\ t.held = on.held /\ t.foot = on.foot /\ t.hat = on.hat /\ t.wake = on.wake
      /\ t.c = on.c /\ t.axis = [on.axis EXCEPT ![ax] = dir]
  BY <1>1, <1>5 DEF Sound, IsState
<1>7. SetAxis(s, ax, dir) = IF was = dir THEN s ELSE t
  BY DEF SetAxis, off, on
<1> HIDE DEF t
<1>8. ASSUME NEW b \in Sources, t.held[b] PROVE Asserted(t, b, ks)
  <2>1. \/ s.held[b] /\ ~(was # 0 /\ b = Toward(ax, was))
        \/ dir # 0 /\ b = Toward(ax, dir)
    BY <1>3, <1>5, <1>6, <1>8 DEF Buttons
  <2>2. t.hat = s.hat /\ t.axis = [s.axis EXCEPT ![ax] = dir]
    BY <1>3, <1>5, <1>6 DEF Moved
  <2>3. CASE dir # 0 /\ b = Toward(ax, dir)
    BY <1>1, <2>2, <2>3 DEF Asserted
  <2>4. CASE s.held[b] /\ ~(was # 0 /\ b = Toward(ax, was))
    <3>1. Asserted(s, b, ks)
      BY <2>4 DEF Sourced
    <3>2. CASE b \in ks \/ b \in s.hat
      BY <2>2, <3>2 DEF Asserted
    <3>3. CASE \E ay \in Axes : s.axis[ay] # 0 /\ Toward(ay, s.axis[ay]) = b
      <4>1. PICK ay \in Axes : s.axis[ay] # 0 /\ Toward(ay, s.axis[ay]) = b
        BY <3>3
      <4>2. ay # ax /\ t.axis[ay] = s.axis[ay]
        BY <1>1, <2>2, <2>4, <4>1
      <4> QED
        BY <4>1, <4>2 DEF Asserted
    <3> QED
      BY <3>1, <3>2, <3>3 DEF Asserted
  <2> QED
    BY <2>1, <2>3, <2>4
<1>9. Sound(t)
  BY <1>5, <1>6 DEF Sound, FootClean, ComboClean
<1> QED
  BY <1>3, <1>5, <1>6, <1>7, <1>8, <1>9 DEF Sourced, Moved

\* The buttons whose last key was a press, after a key.
KeyedWith(ks, b, down) ==
    IF b = "none" THEN ks ELSE IF down THEN ks \cup {b} ELSE ks \ {b}

LEMMA KeySourced ==
    ASSUME NEW s, Sound(s), NEW b \in Buttons, NEW down \in BOOLEAN, NEW ks, Sourced(s, ks),
           NEW t, t.held = HeldAfter(s, b, down), Moved(s, t)
    PROVE  Sourced(t, KeyedWith(ks, b, down))
<1>1. s.held \in [Buttons -> BOOLEAN] /\ Sources \subseteq Buttons
  BY DEF Sound, IsState, Buttons
<1>2. \A x \in Sources : Asserted(s, x, ks) /\ x # b => Asserted(t, x, KeyedWith(ks, b, down))
  BY DEF Asserted, Moved, KeyedWith
<1>3. CASE b = "none"
  BY <1>2, <1>3 DEF HeldAfter, Sourced, Sources
<1>4. CASE b # "none"
  <2>1. t.held = [s.held EXCEPT ![b] = down]
    BY <1>4 DEF HeldAfter
  <2>2. ASSUME NEW x \in Sources, t.held[x] PROVE Asserted(t, x, KeyedWith(ks, b, down))
    <3>1. CASE x = b
      BY <1>1, <1>4, <2>1, <2>2, <3>1 DEF Asserted, KeyedWith
    <3>2. CASE x # b
      BY <1>1, <1>2, <2>1, <2>2, <3>2 DEF Sourced
    <3> QED
      BY <3>1, <3>2
  <2> QED
    BY <2>2 DEF Sourced
<1> QED
  BY <1>3, <1>4

LEMMA MapsAre == \A b \in Buttons : MapController(b) \in Buttons /\ MapJoy(b) \in Buttons
BY DEF MapController, MapJoy, FlipFace, Buttons, Sources

LEMMA HandleIs ==
    ASSUME NEW s, Sound(s), NEW e \in Event, Sourced(s, keyed)
    PROVE  LET t == Handle(s, e)
           IN  Sound(t) /\ t.wake = s.wake /\ Sourced(t, KeyedAfter(e))
<1> DEFINE t == Handle(s, e)
<1>1. ASSUME NEW b \in Buttons, NEW down \in BOOLEAN, KeyedAfter(e) = KeyedWith(keyed, b, down),
             t = (IF down THEN PushPress(s, b) ELSE PushRelease(s, b))
      PROVE  Sound(t) /\ t.wake = s.wake /\ Sourced(t, KeyedAfter(e))
  <2> HIDE DEF t
  <2>1. Sound(t) /\ t.held = HeldAfter(s, b, down) /\ Moved(s, t)
    BY <1>1, PressIs
  <2> QED
    BY <1>1, <2>1, KeySourced DEF Moved
<1>2. ASSUME NEW b \in Buttons, NEW down \in BOOLEAN, KeyedAfter(e) = KeyedWith(keyed, b, down),
             t = InputPush(s, b, down)
      PROVE  Sound(t) /\ t.wake = s.wake /\ Sourced(t, KeyedAfter(e))
  <2> HIDE DEF t
  <2>1. Sound(t) /\ t.held = HeldAfter(s, b, down) /\ Kept(s, t)
    BY <1>2, PushIs
  <2> QED
    BY <1>2, <2>1, KeySourced DEF Moved, Kept
<1>3. CASE e.t = "ctrl"
  <2>1. e.b \in Buttons /\ e.down \in BOOLEAN
    BY <1>3 DEF Event
  <2>2. t = (IF e.down THEN PushPress(s, MapController(e.b)) ELSE PushRelease(s, MapController(e.b)))
    BY <1>3 DEF Handle
  <2>3. KeyedAfter(e) = KeyedWith(keyed, MapController(e.b), e.down)
    BY <1>3 DEF KeyedAfter, KeyOf, KeyedWith
  <2> QED
    BY <1>1, <2>1, <2>2, <2>3, MapsAre
<1>4. CASE e.t = "joy" /\ ~setup.controller
  <2>1. e.b \in Buttons /\ e.down \in BOOLEAN
    BY <1>4 DEF Event
  <2>2. t = (IF e.down THEN PushPress(s, MapJoy(e.b)) ELSE PushRelease(s, MapJoy(e.b)))
    BY <1>4 DEF Handle
  <2>3. KeyedAfter(e) = KeyedWith(keyed, MapJoy(e.b), e.down)
    BY <1>4 DEF KeyedAfter, KeyOf, KeyedWith
  <2> QED
    BY <1>1, <2>1, <2>2, <2>3, MapsAre
<1>5. CASE e.t = "quit"
  <2>1. t = InputPush(s, "B", TRUE) /\ KeyedAfter(e) = KeyedWith(keyed, "B", TRUE)
    BY <1>5 DEF Handle, KeyedAfter, KeyOf, KeyedWith
  <2> QED
    BY <1>2, <2>1 DEF Buttons, Sources
<1>6. CASE e.t = "trigger"
  <2>1. e.down \in BOOLEAN /\ KeyedAfter(e) = KeyedWith(keyed, "L2", e.down) /\ "L2" \in Buttons
    BY <1>6 DEF KeyedAfter, KeyOf, KeyedWith, Event, Buttons, Sources
  <2>2. CASE e.down # s.held["L2"]
    <3>1. t = InputPush(s, "L2", e.down)
      BY <1>6, <2>2 DEF Handle
    <3> QED
      BY <1>2, <2>1, <3>1
  <2>3. CASE e.down = s.held["L2"]
    <3>1. t = s
      BY <1>6, <2>3 DEF Handle
    <3>2. s.held = HeldAfter(s, "L2", e.down)
      BY <2>1, <2>3 DEF HeldAfter, Sound, IsState
    <3> QED
      BY <2>1, <3>1, <3>2, KeySourced DEF Moved
  <2> QED
    BY <2>2, <2>3
<1>7. CASE e.t = "hat" /\ ~setup.controller
  <2>1. e.hat \in SUBSET Dirs /\ t = SetHat(s, e.hat) /\ KeyedAfter(e) = keyed
    BY <1>7 DEF Event, Handle, KeyedAfter, KeyOf
  <2> QED
    BY <2>1, SetHatIs
<1>8. CASE e.t = "axis"
  <2>1. e.ax \in Axes /\ e.dir \in -1 .. 1 /\ t = SetAxis(s, e.ax, e.dir) /\ KeyedAfter(e) = keyed
    BY <1>8 DEF Event, Handle, KeyedAfter, KeyOf
  <2> QED
    BY <2>1, SetAxisIs
<1>9. CASE e.t = "user" \/ (e.t \in {"joy", "hat"} /\ setup.controller)
  <2>1. t = s /\ KeyedAfter(e) = keyed
    BY <1>9 DEF Handle, KeyedAfter, KeyOf
  <2> QED
    BY <2>1
<1>10. e.t \in {"ctrl", "joy", "hat", "axis", "trigger", "quit", "user"}
  BY DEF Event
<1> QED
  BY <1>3, <1>4, <1>5, <1>6, <1>7, <1>8, <1>9, <1>10

LEMMA RepeatsIs ==
    ASSUME NEW s, Sound(s), NEW ks, Sourced(s, ks)
    PROVE  LET t == Repeats(s)
           IN  Sound(t) /\ t.wake = s.wake /\ Sourced(t, ks)
<1> DEFINE btn == ButtonRepeats(s)
           hat == HatRepeats(s)
           axis == AxisRepeats(s)
           r1 == InOrder(RepeatDirection, s, btn)
           r2 == InOrder(RepeatDirection, r1, hat \ btn)
           r3 == InOrder(RepeatDirection, r2, axis \ (btn \cup hat))
           hd == IF hat = {} THEN r3.hatDue ELSE Advance(r3.hatDue)
           ad == [ax \in Axes |-> IF s.axis[ax] # 0 /\ Past(r3.axisDue[ax])
                                  THEN Advance(r3.axisDue[ax]) ELSE r3.axisDue[ax]]
           t == [r3 EXCEPT !.hatDue = hd, !.axisDue = ad]
<1> HIDE DEF btn, hat, axis
<1>1. Sound(r1) /\ Moved(s, r1) /\ r1.held = s.held
  BY RepeatsAre
<1> HIDE DEF r1
<1>2. Sound(r2) /\ Moved(r1, r2) /\ r2.held = r1.held
  BY <1>1, RepeatsAre
<1> HIDE DEF r2
<1>3. Sound(r3) /\ Moved(r2, r3) /\ r3.held = r2.held
  BY <1>2, RepeatsAre
<1>4. Repeats(s) = t
  BY DEF Repeats, r1, r2, btn, hat, axis, Axes
<1> HIDE DEF r3
<1>5. \A d \in Int : Advance(d) \in Int
  BY TimingAssumption DEF Advance
<1>6. hd \in Int /\ ad \in [Axes -> Int]
  BY <1>3, <1>5 DEF Sound, IsState
<1> HIDE DEF hd, ad
<1>7. IsState(t) /\ t.held = r3.held /\ t.foot = r3.foot /\ t.c = r3.c /\ Moved(r3, t)
  BY <1>3, <1>6 DEF Sound, IsState, Moved
<1> HIDE DEF t
<1>8. Moved(s, t) /\ t.held = s.held
  BY <1>1, <1>2, <1>3, <1>7 DEF Moved
<1>9. Sourced(t, ks)
  BY <1>8 DEF Sourced, Asserted, Moved
<1> QED
  BY <1>3, <1>4, <1>7, <1>8, <1>9 DEF Sound, FootClean, ComboClean, Moved

----------------------------------------------------------------------------
(* The input loop: how long it sleeps.                                     *)

HasLeast(S) == S \subseteq Int /\ \E m \in S : \A o \in S : m <= o

LEMMA LeastOfBoth ==
    ASSUME NEW S, HasLeast(S), NEW T, T = {} \/ HasLeast(T)
    PROVE  HasLeast(S \cup T)
<1>1. CASE T = {}
  BY <1>1 DEF HasLeast
<1>2. CASE HasLeast(T)
  <2>1. PICK m \in S : \A o \in S : m <= o
    BY DEF HasLeast
  <2>2. PICK n \in T : \A o \in T : n <= o
    BY <1>2 DEF HasLeast
  <2>3. S \subseteq Int /\ T \subseteq Int
    BY <1>2 DEF HasLeast
  <2>4. CASE m <= n
    BY <2>1, <2>2, <2>3, <2>4 DEF HasLeast
  <2>5. CASE n <= m
    BY <2>1, <2>2, <2>3, <2>5 DEF HasLeast
  <2> QED
    BY <2>3, <2>4, <2>5
<1> QED
  BY <1>1, <1>2

\* ap__next_wake_time is the nearest deadline that is armed.
LEMMA NextWakeIs ==
    ASSUME IsState(g)
    PROVE  /\ NextWake \in Int /\ NextWake <= g.redraw
           /\ \A b \in Dirs : g.held[b] => NextWake <= g.due[b]
           /\ g.hat # {} => NextWake <= g.hatDue
           /\ \A ax \in Axes : g.axis[ax] # 0 => NextWake <= g.axisDue[ax]
<1> DEFINE key(b) == IF g.held[b] THEN {g.due[b]} ELSE {}
           stick(ax) == IF g.axis[ax] # 0 THEN {g.axisDue[ax]} ELSE {}
           buttons == {g.due[b] : b \in {d \in Dirs : g.held[d]}}
           hat == IF g.hat = {} THEN {} ELSE {g.hatDue}
           axes == {g.axisDue[ax] : ax \in {x \in Axes : g.axis[x] # 0}}
           all == {IdleMax, g.redraw} \cup buttons \cup hat \cup axes
<1>1. /\ g.redraw \in Int /\ g.hatDue \in Int /\ IdleMax \in Int
      /\ \A b \in Dirs : g.due[b] \in Int
      /\ \A ax \in Axes : g.axisDue[ax] \in Int
  BY TimingAssumption DEF IsState
<1>2. \A d \in Int : HasLeast({d})
  BY DEF HasLeast
<1>3. HasLeast({IdleMax, g.redraw})
  <2>1. {IdleMax, g.redraw} = {IdleMax} \cup {g.redraw}
    OBVIOUS
  <2>2. HasLeast({IdleMax}) /\ HasLeast({g.redraw})
    BY <1>1, <1>2
  <2>3. HasLeast({IdleMax} \cup {g.redraw})
    BY <2>2, LeastOfBoth, Zenon
  <2> QED
    BY <2>1, <2>3
<1>4. \A b \in Dirs : key(b) = {} \/ HasLeast(key(b))
  BY <1>1, <1>2
<1>5. \A ax \in Axes : stick(ax) = {} \/ HasLeast(stick(ax))
  BY <1>1, <1>2
<1>6. hat = {} \/ HasLeast(hat)
  BY <1>1, <1>2
<1>7. buttons = key("up") \cup key("down") \cup key("left") \cup key("right")
  BY DirsAre
<1>8. axes = stick("x") \cup stick("y")
  BY DEF Axes
<1> DEFINE S1 == {IdleMax, g.redraw} \cup key("up")
           S2 == S1 \cup key("down")
           S3 == S2 \cup key("left")
           S4 == S3 \cup key("right")
           S5 == S4 \cup hat
           S6 == S5 \cup stick("x")
           S7 == S6 \cup stick("y")
<1>9. all = S7
  BY <1>7, <1>8
<1>10. "up" \in Dirs /\ "down" \in Dirs /\ "left" \in Dirs /\ "right" \in Dirs
       /\ "x" \in Axes /\ "y" \in Axes
  BY DirsAre DEF Axes
<1> HIDE DEF key, stick, hat
<1>11. HasLeast(S1)
  BY <1>3, <1>4, <1>10, LeastOfBoth
<1> HIDE DEF S1
<1>12. HasLeast(S2)
  BY <1>4, <1>10, <1>11, LeastOfBoth
<1> HIDE DEF S2
<1>13. HasLeast(S3)
  BY <1>4, <1>10, <1>12, LeastOfBoth
<1> HIDE DEF S3
<1>14. HasLeast(S4)
  BY <1>4, <1>10, <1>13, LeastOfBoth
<1> HIDE DEF S4
<1>15. HasLeast(S5)
  BY <1>6, <1>14, LeastOfBoth
<1> HIDE DEF S5
<1>16. HasLeast(S6)
  BY <1>5, <1>10, <1>15, LeastOfBoth
<1> HIDE DEF S6
<1>17. HasLeast(S7)
  BY <1>5, <1>10, <1>16, LeastOfBoth
<1> HIDE DEF S7
<1>18. NextWake = CHOOSE d \in all : \A o \in all : d <= o
  BY DEF NextWake, Axes, hat
<1>19. HasLeast(all)
  BY <1>9, <1>17
<1> HIDE DEF all
<1>20. NextWake \in all /\ (\A o \in all : NextWake <= o) /\ all \subseteq Int
  BY <1>18, <1>19 DEF HasLeast
<1>21. /\ g.redraw \in all
       /\ \A b \in Dirs : g.held[b] => g.due[b] \in all
       /\ g.hat # {} => g.hatDue \in all
       /\ \A ax \in Axes : g.axis[ax] # 0 => g.axisDue[ax] \in all
  BY DEF all, hat
<1> HIDE DEF axes, buttons
<1> QED
  BY <1>20, <1>21

----------------------------------------------------------------------------
(* The input loop: every step.                                             *)

LEMMA InvIs == InInv <=> /\ InTypes /\ Sound(g) /\ Sourced(g, keyed) /\ RingRead /\ SleepsBefore
<1>1. HeldHasSource <=> Sourced(g, keyed)
  BY DEF HeldHasSource, Sourced, Asserted, Axes
<1>2. ChordClean <=> FootClean(g)
  BY DEF ChordClean, FootClean
<1> QED
  BY <1>1, <1>2 DEF InInv, Sound, InTypes

\* A step that neither presses nor releases anything.
LEMMA QuietStep ==
    ASSUME InInv, setup' = setup, keyed' = keyed, sdl' \in Seq(Event), g'.wake \in Seq(Event),
           IsState(g'), g'.held = g.held, g'.hat = g.hat, g'.axis = g.axis, FootClean(g'), ComboClean(g)',
           RingRead', SleepsBefore'
    PROVE  InInv'
<1>1. Sourced(g, keyed)
  BY InvIs
<1>2. \A b \in Sources : Asserted(g, b, keyed) => Asserted(g', b, keyed')
  BY DEF Asserted
<1>3. HeldHasSource'
  BY <1>1, <1>2 DEF HeldHasSource, Sourced, Asserted, Axes
<1>4. ChordClean'
  BY DEF ChordClean, FootClean
<1>5. InTypes'
  BY DEF InInv, InTypes, IsState, IsFoot
<1> QED
  BY <1>3, <1>4, <1>5 DEF InInv

\* A step that leaves the combos and what is held alone.
LEMMA CombosStay ==
    ASSUME ComboClean(g), setup' = setup, g'.c = g.c, g'.held = g.held
    PROVE  ComboClean(g)'
<1>1. g'.c.table = g.c.table /\ g'.c.on = g.c.on /\ g'.c.down = g.c.down
  OBVIOUS
<1>2. IsCombos(g'.c) /\ ChordsHeld(g'.c) /\ Downs(g'.c) = Downs(g.c)
  BY DEF ComboClean
<1> QED
  BY <1>1, <1>2 DEF ComboClean, IsCombos, ChordsHeld, AllDown, Downs, Range

\* A device reports events.
LEMMA DeviceInv ==
    ASSUME InInv, PadButton \/ PadHat \/ PadStick \/ PadTrigger \/ System
    PROVE  InInv'
<1>1. UNCHANGED <<setup, g, at, rest, keyed>> /\ setup \in Setups /\ sdl \in Seq(Event)
  BY DEF PadButton, PadHat, PadStick, PadTrigger, System, DeviceOnly, InInv, InTypes
<1>2. \A e \in Event, f \in Event : sdl \o <<e>> \in Seq(Event) /\ sdl \o <<e, f>> \in Seq(Event)
  BY <1>1
<1>3. sdl' \in Seq(Event)
  <2>1. CASE PadButton
    <3>1. PICK b \in setup.buttons, down \in BOOLEAN :
             \/ sdl' = sdl \o <<[t |-> "joy", b |-> b, down |-> down],
                                [t |-> "ctrl", b |-> b, down |-> down]>>
             \/ sdl' = sdl \o <<[t |-> "joy", b |-> b, down |-> down]>>
      BY <2>1 DEF PadButton, Report
    <3>2. b \in Buttons
      BY <1>1, SetupAssumption DEF Buttons
    <3>3. [t |-> "joy", b |-> b, down |-> down] \in Event
          /\ [t |-> "ctrl", b |-> b, down |-> down] \in Event
      BY <3>2 DEF Event
    <3> QED
      BY <1>2, <3>1, <3>3
  <2>2. CASE PadHat
    <3>1. PICK hat \in setup.hats : sdl' = sdl \o <<[t |-> "hat", hat |-> hat]>>
      BY <2>2 DEF PadHat, Report
    <3>2. hat \in SUBSET Dirs
      BY <1>1, SetupAssumption
    <3>3. [t |-> "hat", hat |-> hat] \in Event
      BY <3>2 DEF Event
    <3> QED
      BY <1>2, <3>1, <3>3
  <2>3. CASE PadStick
    <3>1. PICK ax \in setup.sticks, dir \in -1 .. 1 :
             sdl' = sdl \o <<[t |-> "axis", ax |-> ax, dir |-> dir]>>
      BY <2>3 DEF PadStick, Report
    <3>2. ax \in Axes
      BY <1>1, SetupAssumption DEF Axes
    <3>3. [t |-> "axis", ax |-> ax, dir |-> dir] \in Event
      BY <3>2 DEF Event
    <3> QED
      BY <1>2, <3>1, <3>3
  <2>4. CASE PadTrigger
    <3>1. PICK down \in BOOLEAN : sdl' = sdl \o <<[t |-> "trigger", down |-> down]>>
      BY <2>4 DEF PadTrigger, Report
    <3>2. [t |-> "trigger", down |-> down] \in Event
      BY DEF Event
    <3> QED
      BY <1>2, <3>1, <3>2
  <2>5. CASE System
    <3>1. PICK t \in setup.system : sdl' = sdl \o <<[t |-> t]>>
      BY <2>5 DEF System, Report
    <3>2. t \in {"quit", "user"}
      BY <1>1, SetupAssumption
    <3>3. [t |-> t] \in Event
      BY <3>2 DEF Event
    <3> QED
      BY <1>2, <3>1, <3>3
  <2> QED
    BY <2>1, <2>2, <2>3, <2>4, <2>5
<1>4. g'.wake \in Seq(Event) /\ IsState(g') /\ FootClean(g') /\ RingRead' /\ SleepsBefore'
  BY <1>1, InvIs DEF InInv, InTypes, Sound, RingRead, SleepsBefore
<1>5. ComboClean(g)'
  BY <1>1, CombosStay DEF InInv
<1> QED
  BY <1>1, <1>3, <1>4, <1>5, QuietStep

\* The loop reads events and adds repeats.
LEMMA ReadInv ==
    ASSUME InInv, HandleWake \/ HandleEvent \/ HandleRepeats
    PROVE  InInv'
<1>1. Sound(g) /\ Sourced(g, keyed) /\ setup \in Setups /\ sdl \in Seq(Event) /\ g.wake \in Seq(Event)
  BY InvIs DEF InTypes
<1>2. ASSUME Sound(g'), Sourced(g', keyed'), g'.wake \in Seq(Event), sdl' \in Seq(Event),
             setup' = setup, at' \in {"poll", "pop"}
      PROVE  InInv'
  <2>1. HeldHasSource'
    BY <1>2 DEF HeldHasSource, Sourced, Asserted, Axes
  <2>2. ChordClean'
    BY <1>2 DEF ChordClean, Sound, FootClean
  <2>3. InTypes'
    BY <1>1, <1>2 DEF InTypes, Sound, IsState, IsFoot
  <2>4. RingRead' /\ SleepsBefore'
    BY <1>2 DEF RingRead, SleepsBefore
  <2>5. ComboClean(g)'
    BY <1>2 DEF Sound, ComboClean
  <2> QED
    BY <2>1, <2>2, <2>3, <2>4, <2>5 DEF InInv
<1>3. CASE HandleWake
  <2> DEFINE s == [g EXCEPT !.wake = << >>]
             e == Head(g.wake)
  <2>1. e \in Event /\ g' = Handle(s, e) /\ keyed' = KeyedAfter(e)
        /\ UNCHANGED <<setup, sdl, at>> /\ at = "poll"
    BY <1>1, <1>3 DEF HandleWake
  <2>2. IsState(s) /\ s.held = g.held /\ s.foot = g.foot /\ s.hat = g.hat /\ s.axis = g.axis
        /\ s.wake = << >> /\ s.c = g.c
    BY <1>1 DEF Sound, IsState
  <2> HIDE DEF s, e
  <2>3. Sound(s) /\ Sourced(s, keyed)
    <3>1. Sound(s)
      BY <1>1, <2>2 DEF Sound, FootClean, ComboClean
    <3> QED
      BY <1>1, <2>2, <3>1 DEF Sourced, Asserted
  <2>4. Sound(g') /\ g'.wake = << >> /\ Sourced(g', keyed')
    BY <2>1, <2>2, <2>3, HandleIs
  <2> QED
    BY <1>1, <1>2, <2>1, <2>4
<1>4. CASE HandleEvent
  <2> DEFINE e == Head(sdl)
  <2>1. e \in Event /\ g' = Handle(g, e) /\ keyed' = KeyedAfter(e) /\ sdl' \in Seq(Event)
        /\ UNCHANGED <<setup, at>> /\ at = "poll"
    BY <1>1, <1>4 DEF HandleEvent
  <2> HIDE DEF e
  <2>2. Sound(g') /\ g'.wake = g.wake /\ Sourced(g', keyed')
    BY <1>1, <2>1, HandleIs
  <2> QED
    BY <1>1, <1>2, <2>1, <2>2
<1>5. CASE HandleRepeats
  <2>1. g' = Repeats(g) /\ UNCHANGED <<setup, sdl, keyed>> /\ at' = "pop"
    BY <1>5 DEF HandleRepeats
  <2>2. Sound(g') /\ g'.wake = g.wake /\ Sourced(g', keyed')
    BY <1>1, <2>1, RepeatsIs
  <2> QED
    BY <1>1, <1>2, <2>1, <2>2
<1> QED
  BY <1>3, <1>4, <1>5

\* A screen is drawn, asks for a redraw, changes the footer and the combos.
LEMMA ScreenInv ==
    ASSUME InInv, OpenRequest \/ PollEmpty \/ PollEvent \/ DrawFrame \/ DrawOverlay \/ Combos
    PROVE  InInv'
<1>1. Sound(g) /\ setup \in Setups /\ sdl \in Seq(Event) /\ g.wake \in Seq(Event) /\ RingRead
  BY InvIs DEF InTypes
<1> DEFINE same == /\ UNCHANGED <<setup, keyed, sdl>> /\ g'.wake = g.wake /\ g'.held = g.held
                   /\ g'.hat = g.hat /\ g'.axis = g.axis /\ g'.foot.swallow = g.foot.swallow
                   /\ g'.foot.chord = g.foot.chord /\ g'.foot.a = g.foot.a /\ g'.foot.b = g.foot.b
<1>2. ASSUME same, IsState(g'), at' # "sleep", RingRead', ComboClean(g)' \/ g'.c = g.c PROVE InInv'
  <2>3. ComboClean(g)'
    BY <1>1, <1>2, CombosStay DEF Sound
  <2>1. FootClean(g')
    BY <1>1, <1>2 DEF Sound, FootClean
  <2>2. SleepsBefore'
    BY <1>2 DEF SleepsBefore
  <2> QED
    BY <1>1, <1>2, <2>1, <2>2, <2>3, QuietStep
<1>3. CASE OpenRequest
  <2> DEFINE n == [g.foot EXCEPT !.open = FALSE, !.overlay = FooterEnabled(g), !.running = FooterEnabled(g)]
  <2>1. g' = [g EXCEPT !.foot = n] /\ UNCHANGED <<setup, keyed, sdl>> /\ at' = "poll"
    BY <1>3 DEF OpenRequest
  <2>2. IsFoot(n) /\ n.swallow = g.foot.swallow /\ n.chord = g.foot.chord /\ n.a = g.foot.a
        /\ n.b = g.foot.b
    BY <1>1 DEF Sound, IsState, IsFoot
  <2> HIDE DEF n
  <2>3. IsState(g') /\ g'.foot = n /\ g'.held = g.held /\ g'.c = g.c /\ Kept(g, g')
    BY <1>1, <2>1, <2>2, WithFoot DEF Sound
  <2> QED
    BY <1>2, <2>1, <2>2, <2>3 DEF Kept, RingRead
<1>4. CASE PollEmpty
  BY <1>1, <1>2, <1>4 DEF PollEmpty, Sound, RingRead
<1>5. CASE PollEvent
  <2> DEFINE e == Head(g.ring)
             closes == g.foot.overlay /\ e.down /\ e.b \notin {"up", "down"}
             n == [g.foot EXCEPT !.running = @ /\ ~closes]
  <2>1. \/ g' = [g EXCEPT !.ring = Tail(@), !.last = 0, !.ev = e.repeated, !.foot = n]
        \/ g' = [g EXCEPT !.ring = Tail(@)]
    BY <1>5 DEF PollEvent
  <2>2. IsFoot(n) /\ n.swallow = g.foot.swallow /\ n.chord = g.foot.chord /\ n.a = g.foot.a
        /\ n.b = g.foot.b
    BY <1>1 DEF Sound, IsState, IsFoot
  <2>3. UNCHANGED <<setup, keyed, sdl>> /\ at' = "poll"
    BY <1>5 DEF PollEvent
  <2> HIDE DEF n
  <2>4. IsState(g') /\ g'.foot \in {n, g.foot} /\ g'.held = g.held /\ g'.c = g.c /\ Kept(g, g')
    BY <1>1, <2>1, <2>2 DEF Sound, IsState, Kept
  <2> QED
    BY <1>2, <2>2, <2>3, <2>4 DEF Kept, RingRead
<1>6. CASE DrawFrame
  <2>1. PICK items \in setup.footers, ms \in setup.frames : \E lay \in {FooterLayout(items, g.foot.enabled)} :
           g' = [g EXCEPT !.foot.items = items, !.foot.lay = lay,
                          !.foot.hidden = Len(lay.hidden), !.ev = FALSE,
                          !.needsFrame = @ \/ ms = 0,
                          !.redraw = IF ms > 0 /\ (@ = Off \/ ms < @) THEN ms ELSE @]
    BY <1>6 DEF DrawFrame
  <2> DEFINE lay == FooterLayout(items, g.foot.enabled)
             h == Len(lay.hidden)
  <2>7. LayoutHonest(items, lay)
    <3>1. items \in Hints /\ g.foot.enabled \in BOOLEAN
      BY <1>1, <2>1, SetupAssumption DEF Sound, IsState, IsFoot, InTypes
    <3> QED
      BY <3>1, LayoutIs
  <2> HIDE DEF lay, h
  <2> DEFINE n == [g.foot EXCEPT !.items = items, !.lay = lay, !.hidden = h]
             nf == (g.needsFrame \/ ms = 0)
             rd == IF ms > 0 /\ (g.redraw = Off \/ ms < g.redraw) THEN ms ELSE g.redraw
  <2>2. g' = [g EXCEPT !.foot = n, !.ev = FALSE, !.needsFrame = nf, !.redraw = rd]
    <3>1. g' = [g EXCEPT !.foot.items = items, !.foot.lay = lay, !.foot.hidden = h, !.ev = FALSE,
                         !.needsFrame = nf, !.redraw = rd]
      BY <2>1, Zenon DEF lay, h
    <3> HIDE DEF nf, rd
    <3>2. IsState(g)
      BY <1>1 DEF Sound
    <3>3. [g EXCEPT !.foot.items = items, !.foot.lay = lay, !.foot.hidden = h]
             = [g EXCEPT !.foot = n]
      BY <3>2 DEF IsState, IsFoot
    <3> QED
      BY <3>1, <3>3, Zenon
  <2>3. IsFoot(n) /\ n.swallow = g.foot.swallow /\ n.chord = g.foot.chord /\ n.a = g.foot.a
        /\ n.b = g.foot.b
    BY <1>1, <2>7 DEF Sound, IsState, IsFoot
  <2>4. rd \in Int
    BY <1>1, SetupAssumption DEF Sound, IsState
  <2>5. UNCHANGED <<setup, keyed, sdl>> /\ at = "draw" /\ at' = "present"
    BY <1>6 DEF DrawFrame
  <2> HIDE DEF n, nf, rd
  <2>6. IsState(g') /\ g'.foot = n /\ g'.held = g.held /\ g'.ring = g.ring /\ g'.wake = g.wake
        /\ g'.hat = g.hat /\ g'.axis = g.axis /\ g'.c = g.c
    BY <1>1, <2>2, <2>3, <2>4 DEF Sound, IsState
  <2> QED
    BY <1>1, <1>2, <2>3, <2>5, <2>6 DEF RingRead
<1>7. CASE DrawOverlay
  <2>1. g' = [g EXCEPT !.ev = FALSE] /\ UNCHANGED <<setup, keyed, sdl>> /\ at = "draw" /\ at' = "present"
    BY <1>7 DEF DrawOverlay
  <2>2. IsState(g') /\ g'.foot = g.foot /\ g'.held = g.held /\ g'.ring = g.ring /\ g'.c = g.c /\ Kept(g, g')
    BY <1>1, <2>1 DEF Sound, IsState, Kept
  <2> QED
    BY <1>1, <1>2, <2>1, <2>2 DEF Kept, RingRead
<1>8. CASE Combos
  <2>1. PICK x : /\ g' = [g EXCEPT !.c = x]
                 /\ \/ \E m \in setup.combos : x = Register(g.c, m) \/ x = Unregister(g.c, m.id)
                    \/ x = ClearCombos(g.c) \/ x = PollCombo(g.c)
    BY <1>8 DEF Combos
  <2>2. UNCHANGED <<setup, keyed, sdl, at>> /\ at = "draw"
    BY <1>8 DEF Combos
  <2>3. IsState(g') /\ g'.foot = g.foot /\ g'.held = g.held /\ g'.ring = g.ring /\ g'.c = x
        /\ Kept(g, g')
    BY <1>1, <2>1 DEF Sound, IsState, Kept
  <2>4. IsCombos(g.c) /\ ChordsHeld(g.c)
    BY <1>1 DEF Sound, ComboClean
  <2>5. IsCombos(x) /\ ChordsHeld(x) /\ Downs(x) = Downs(g.c)
    <3>1. \A m \in setup.combos : m \in Combo
      BY <1>1, SetupAssumption
    <3>2. \/ \E m \in Combo : x = Register(g.c, m)
          \/ \E id : x = Unregister(g.c, id)
          \/ x \in {ClearCombos(g.c), PollCombo(g.c)}
      BY <2>1, <3>1
    <3> QED
      BY <2>4, <3>2, RegistryKeeps
  <2>6. ComboClean(g)'
    <3>1. setup.combos # {} => \A b \in Sources : g.held[b] => b \in Downs(g.c)
      BY <1>1 DEF Sound, ComboClean
    <3>2. setup.combos # {} => \A b \in Sources : g'.held[b] => b \in Downs(g'.c)
      BY <2>3, <2>5, <3>1
    <3> QED
      BY <2>2, <2>3, <2>5, <3>2 DEF ComboClean
  <2> QED
    BY <1>1, <1>2, <2>2, <2>3, <2>6 DEF Kept, RingRead
<1> QED
  BY <1>3, <1>4, <1>5, <1>6, <1>7, <1>8

LEMMA OptsInv == ASSUME InInv, SetOverflowOpts PROVE InInv'
<1>1. IsState(g) /\ setup \in Setups /\ sdl \in Seq(Event) /\ g.wake \in Seq(Event) /\ RingRead
  BY DEF InInv, InTypes
<1>2. PICK o \in setup.opts, hid \in {g.foot.hidden, 0} :
         g' = [g EXCEPT !.foot.enabled = o.enabled, !.foot.a = o.a, !.foot.b = o.b,
                        !.foot.swallow = {}, !.foot.chord = FALSE, !.foot.open = FALSE,
                        !.foot.hidden = hid]
  <2>1. PICK o \in setup.opts :
           LET usable == o.enabled /\ o.a # "none" /\ o.b # "none" /\ o.a # o.b
           IN  g' = [g EXCEPT !.foot.enabled = o.enabled, !.foot.a = o.a, !.foot.b = o.b,
                              !.foot.swallow = {}, !.foot.chord = FALSE, !.foot.open = FALSE,
                              !.foot.hidden = IF usable THEN @ ELSE 0]
    BY Zenon DEF SetOverflowOpts
  <2> DEFINE usable == o.enabled /\ o.a # "none" /\ o.b # "none" /\ o.a # o.b
             hid == IF usable THEN g.foot.hidden ELSE 0
  <2>2. g' = [g EXCEPT !.foot.enabled = o.enabled, !.foot.a = o.a, !.foot.b = o.b,
                       !.foot.swallow = {}, !.foot.chord = FALSE, !.foot.open = FALSE,
                       !.foot.hidden = hid]
    BY <2>1 DEF IsState, IsFoot
  <2>3. hid \in {g.foot.hidden, 0}
    OBVIOUS
  <2> HIDE DEF hid
  <2> QED
    BY <2>2, <2>3, Zenon
<1>3. o.a \in Buttons /\ o.b \in Buttons /\ o.enabled \in BOOLEAN
  BY <1>1, SetupAssumption
<1> DEFINE n == [g.foot EXCEPT !.enabled = o.enabled, !.a = o.a, !.b = o.b, !.swallow = {},
                               !.chord = FALSE, !.open = FALSE, !.hidden = hid]
<1>4. IsFoot(n) /\ n.swallow = {} /\ n.chord = FALSE
  BY <1>1, <1>3 DEF IsState, IsFoot
<1>5. g' = [g EXCEPT !.foot = n]
  BY <1>1, <1>2 DEF IsState, IsFoot
<1> HIDE DEF n
<1>6. IsState(g') /\ g'.foot = n /\ g'.held = g.held /\ g'.ring = g.ring /\ g'.c = g.c /\ Kept(g, g')
  BY <1>1, <1>4, <1>5, WithFoot
<1>7. UNCHANGED <<setup, sdl, at, keyed>> /\ at = "draw"
  BY DEF SetOverflowOpts
<1>8. FootClean(g') /\ RingRead' /\ SleepsBefore'
  BY <1>1, <1>4, <1>6, <1>7 DEF FootClean, RingRead, SleepsBefore
<1>9. ComboClean(g)'
  BY <1>6, <1>7, CombosStay DEF InInv
<1> QED
  BY <1>1, <1>6, <1>7, <1>8, <1>9, QuietStep DEF Kept

\* The end of ap_present.
LEMMA AfterPresentIs ==
    ASSUME NEW s, Sound(s)
    PROVE  LET t == AfterPresent(s)
           IN  Sound(t) /\ t.held = s.held /\ Moved(s, t)
<1>1. CASE s.foot.overlay /\ ~s.foot.running
  <2> DEFINE n == [s.foot EXCEPT !.overlay = FALSE]
             t == [s EXCEPT !.foot = n, !.last = 0]
  <2>1. AfterPresent(s) = t
    BY <1>1 DEF AfterPresent
  <2>2. IsFoot(n) /\ n.swallow = s.foot.swallow /\ n.chord = s.foot.chord /\ n.a = s.foot.a
        /\ n.b = s.foot.b
    BY DEF Sound, IsState, IsFoot
  <2> HIDE DEF n
  <2>3. IsState(t) /\ t.foot = n /\ t.held = s.held /\ t.c = s.c /\ Moved(s, t)
    BY <2>2 DEF Sound, IsState, Moved
  <2> HIDE DEF t
  <2>4. Sound(t)
    BY <2>2, <2>3 DEF Sound, FootClean, ComboClean
  <2> QED
    BY <2>1, <2>3, <2>4
<1>2. CASE ~(s.foot.overlay /\ ~s.foot.running)
  BY <1>2 DEF AfterPresent, Moved
<1> QED
  BY <1>1, <1>2

LEMMA PresentInv == ASSUME InInv, Present \/ WakeByEvent \/ WakeByTime PROVE InInv'
<1>1. Sound(g) /\ setup \in Setups /\ sdl \in Seq(Event) /\ g.wake \in Seq(Event) /\ RingRead
  BY InvIs DEF InTypes
<1>2. ASSUME NEW u, Sound(u), u.held = g.held, u.hat = g.hat, u.axis = g.axis,
             u.wake \in Seq(Event), g' = AfterPresent(u), at' = "poll", sdl' \in Seq(Event),
             UNCHANGED <<setup, keyed>>
      PROVE  InInv'
  <2>1. Sound(g') /\ g'.held = u.held /\ Moved(u, g')
    BY <1>2, AfterPresentIs
  <2>2. RingRead' /\ SleepsBefore'
    BY <1>2 DEF RingRead, SleepsBefore
  <2>3. ComboClean(g)'
    BY <1>2, <2>1 DEF Sound, ComboClean
  <2> QED
    BY <1>2, <2>1, <2>2, <2>3, QuietStep DEF Moved, Sound
<1>3. ASSUME NEW n \in BOOLEAN
      PROVE  LET u == [g EXCEPT !.needsFrame = n]
             IN  Sound(u) /\ u.held = g.held /\ Moved(g, u)
  <2> DEFINE u == [g EXCEPT !.needsFrame = n]
  <2>1. IsState(u) /\ u.held = g.held /\ u.foot = g.foot /\ u.c = g.c /\ Moved(g, u)
    BY <1>1 DEF Sound, IsState, Moved
  <2> HIDE DEF u
  <2>2. Sound(u)
    BY <1>1, <2>1 DEF Sound, FootClean, ComboClean
  <2> QED
    BY <2>1, <2>2 DEF u
<1>4. ASSUME NEW d \in Int, NEW w
      PROVE  LET u == [g EXCEPT !.redraw = d, !.wake = w]
             IN  Sound(u) /\ u.held = g.held /\ u.hat = g.hat /\ u.axis = g.axis /\ u.wake = w
  <2> DEFINE u == [g EXCEPT !.redraw = d, !.wake = w]
  <2>1. IsState(u) /\ u.held = g.held /\ u.foot = g.foot /\ u.hat = g.hat /\ u.axis = g.axis
        /\ u.wake = w /\ u.c = g.c
    BY <1>1, <1>4 DEF Sound, IsState
  <2> HIDE DEF u
  <2>2. Sound(u)
    BY <1>1, <2>1 DEF Sound, FootClean, ComboClean
  <2> QED
    BY <2>1, <2>2 DEF u
<1> DEFINE d == IF Due(g.redraw) THEN Off ELSE g.redraw
<1>5. d \in Int /\ [g EXCEPT !.redraw = d] = [g EXCEPT !.redraw = d, !.wake = g.wake]
  <2>1. IsState(g)
    BY <1>1 DEF Sound
  <2>2. d \in Int
    BY <2>1, TimingAssumption DEF IsState
  <2> HIDE DEF d
  <2>3. [g EXCEPT !.redraw = d] = [g EXCEPT !.redraw = d, !.wake = g.wake]
    BY <2>1 DEF IsState
  <2> QED
    BY <2>2, <2>3
<1>6. CASE Present
  <2>1. UNCHANGED <<setup, keyed, sdl>> /\ at = "present"
    BY <1>6 DEF Present
  <2>2. CASE g.needsFrame
    <3>1. g' = AfterPresent([g EXCEPT !.needsFrame = FALSE]) /\ at' = "poll"
      BY <1>6, <2>2 DEF Present
    <3> QED
      BY <1>1, <1>2, <1>3, <2>1, <3>1 DEF Moved
  <2>3. CASE ~g.needsFrame /\ NextWake > 0
    <3>1. g' = g /\ at' = "sleep" /\ rest' = NextWake
      BY <1>6, <2>3 DEF Present
    <3>2. SleepsBefore'
      BY <1>1, <2>3, <3>1, NextWakeIs DEF SleepsBefore, Sound
    <3>3. RingRead'
      BY <1>1, <2>1, <3>1 DEF RingRead
    <3> QED
      BY <1>1, <2>1, <3>1, <3>2, <3>3, CombosStay, QuietStep DEF Sound
  <2>4. CASE ~g.needsFrame /\ ~(NextWake > 0)
    <3>1. g' = AfterPresent([g EXCEPT !.redraw = d, !.wake = g.wake]) /\ at' = "poll"
      BY <1>5, <1>6, <2>4 DEF Present
    <3> HIDE DEF d
    <3> QED
      BY <1>1, <1>2, <1>4, <1>5, <2>1, <3>1
  <2> QED
    BY <2>2, <2>3, <2>4
<1>7. CASE WakeByEvent
  <2> DEFINE w == <<Head(sdl)>>
  <2>1. w \in Seq(Event) /\ sdl' \in Seq(Event)
    BY <1>1, <1>7 DEF WakeByEvent
  <2>2. g' = AfterPresent([g EXCEPT !.redraw = d, !.wake = w]) /\ at' = "poll"
        /\ UNCHANGED <<setup, keyed>>
    <3>1. IsState(g)
      BY <1>1 DEF Sound
    <3>2. [[g EXCEPT !.wake = w] EXCEPT !.redraw = d] = [g EXCEPT !.redraw = d, !.wake = w]
          /\ [g EXCEPT !.wake = w].redraw = g.redraw
      BY <3>1 DEF IsState
    <3> QED
      BY <1>7, <3>2 DEF WakeByEvent, Woken
  <2> HIDE DEF d, w
  <2> QED
    BY <1>2, <1>4, <1>5, <2>1, <2>2, ZenonT(60)
<1>8. CASE WakeByTime
  <2>1. g' = AfterPresent([g EXCEPT !.redraw = d, !.wake = g.wake]) /\ at' = "poll"
        /\ UNCHANGED <<setup, keyed, sdl>>
    BY <1>5, <1>8 DEF WakeByTime, Woken
  <2> HIDE DEF d
  <2> QED
    BY <1>1, <1>2, <1>4, <1>5, <2>1
<1> QED
  BY <1>6, <1>7, <1>8

\* Time passes in all deadlines alike.
LEMMA TickInv == ASSUME InInv, Tick PROVE InInv'
<1>1. Sound(g) /\ IsState(g) /\ setup \in Setups /\ sdl \in Seq(Event) /\ g.wake \in Seq(Event)
      /\ RingRead /\ SleepsBefore
  BY InvIs DEF InTypes, Sound
<1>2. \A d \in Int : Left(d) \in Int /\ Left(d) >= d - 1
  BY TimingAssumption DEF Left
<1> DEFINE due == [b \in Dirs |-> Left(g.due[b])]
           ad == [ax \in Axes |-> Left(g.axisDue[ax])]
<1>3. PICK lt, c : /\ g' = [g EXCEPT !.due = due, !.hatDue = Left(g.hatDue), !.axisDue = ad,
                                     !.redraw = Left(g.redraw), !.last = lt, !.c = c]
                   /\ c = g.c \/ c = ComboTick(g.c)
  BY DEF Tick, Axes
<1>4. due \in [Dirs -> Int] /\ ad \in [Axes -> Int] /\ Left(g.hatDue) \in Int /\ Left(g.redraw) \in Int
  BY <1>1, <1>2 DEF IsState
<1> HIDE DEF due, ad
<1>5. IsState(g') /\ g'.held = g.held /\ g'.foot = g.foot /\ g'.hat = g.hat /\ g'.axis = g.axis
      /\ g'.wake = g.wake /\ g'.ring = g.ring /\ g'.due = due /\ g'.axisDue = ad
      /\ g'.hatDue = Left(g.hatDue) /\ g'.redraw = Left(g.redraw) /\ g'.c = c
  BY <1>1, <1>3, <1>4 DEF IsState
<1>6. UNCHANGED <<setup, sdl, keyed, at>> /\ (at = "sleep" => rest > 0 /\ rest' = rest - 1)
  BY DEF Tick
<1>7. FootClean(g') /\ RingRead'
  BY <1>1, <1>5, <1>6 DEF Sound, FootClean, RingRead
<1>8. SleepsBefore'
  <2>1. SUFFICES ASSUME at = "sleep" PROVE SleepsBefore'
    BY <1>6 DEF SleepsBefore
  <2>2. rest \in Nat /\ rest' \in Nat /\ rest' = rest - 1
    BY <1>1, <1>6, <2>1 DEF SleepsBefore
  <2>3. rest' <= g'.redraw /\ (g'.hat # {} => rest' <= g'.hatDue)
    BY <1>1, <1>2, <1>5, <2>1, <2>2 DEF SleepsBefore, IsState
  <2>4. \A b \in Dirs : g'.held[b] => rest' <= g'.due[b]
    BY <1>1, <1>2, <1>5, <2>1, <2>2 DEF SleepsBefore, IsState, due
  <2>5. \A ax \in Axes : g'.axis[ax] # 0 => rest' <= g'.axisDue[ax]
    BY <1>1, <1>2, <1>5, <2>1, <2>2 DEF SleepsBefore, IsState, ad
  <2> QED
    BY <2>2, <2>3, <2>4, <2>5 DEF SleepsBefore
<1>9. ComboClean(g)'
  <2>1. /\ IsCombos(g.c) /\ ChordsHeld(g.c)
        /\ setup.combos # {} => \A b \in Sources : g.held[b] => b \in Downs(g.c)
    BY <1>1 DEF Sound, ComboClean
  <2>2. IsCombos(c) /\ ChordsHeld(c) /\ Downs(c) = Downs(g.c)
    BY <1>3, <2>1, ComboTickIs
  <2>3. setup.combos # {} => \A b \in Sources : g'.held[b] => b \in Downs(g'.c)
    BY <1>5, <2>1, <2>2
  <2> QED
    BY <1>5, <1>6, <2>2, <2>3 DEF ComboClean
<1> QED
  BY <1>1, <1>5, <1>6, <1>7, <1>8, <1>9, QuietStep

LEMMA InStepInv == ASSUME InInv, [InNext]_inVars PROVE InInv'
<1>1. CASE UNCHANGED inVars
  <2>1. setup' = setup /\ g' = g
    BY <1>1 DEF inVars
  <2>2. ComboClean(g)'
    BY <2>1, CombosStay DEF InInv
  <2> QED
    BY <1>1, <2>2 DEF inVars, InInv, InTypes, IsState, IsFoot, HeldHasSource, ChordClean, RingRead,
                      SleepsBefore
<1> QED
  BY <1>1, DeviceInv, ReadInv, ScreenInv, OptsInv, PresentInv, TickInv DEF InNext, Loop, Poll

LEMMA InInvThm == InSpec => []InInv
BY InInitInv, InStepInv, PTL DEF InSpec

\* No button stays held when nothing asserts it any more, and no chord and no
\* combo outlives its buttons, with any pad, whatever combos come and go
\* (ap__handle_sdl_event, ap__input_push, ap__footer_overflow_note_button,
\* ap__combo_check_chord_releases).
THEOREM NothingLeftHeldThm == InSpec => []NothingLeftHeld
<1>1. InInv => NothingLeftHeld
  BY DEF InInv, ComboClean, NothingLeftHeld, CombosHeld
<1> QED
  BY <1>1, InInvThm, PTL

\* Every hint of a footer of any width is drawn or listed as hidden, and its two
\* groups do not overlap when they can be kept apart (ap_draw_footer).
THEOREM FooterHonestThm == InSpec => []FooterHonest
<1>1. InInv => FooterHonest
  BY DEF InInv, InTypes, IsState, IsFoot, FooterHonest
<1> QED
  BY <1>1, InInvThm, PTL

\* The idle sleep never outlasts a deadline, for any delays, rates and redraws,
\* and it begins with an empty queue (ap_present, ap__next_wake_time).
THEOREM WakesInTimeThm == InSpec => []WakesInTime
<1>1. ASSUME InInv PROVE WakesInTime
  <2>1. SUFFICES ASSUME at = "sleep" PROVE WakesInTime
    BY DEF WakesInTime
  <2>2. IsState(g) /\ g.ring = << >> /\ SleepsBefore
    BY <1>1, <2>1 DEF InInv, InTypes, RingRead
  <2>3. rest \in Nat /\ g.redraw \in Int /\ rest <= g.redraw /\ g.hatDue \in Int
    BY <2>1, <2>2 DEF SleepsBefore, IsState
  <2>4. \A b \in Dirs : g.held[b] => g.due[b] >= 0
    BY <2>1, <2>2, <2>3 DEF SleepsBefore, IsState
  <2>5. \A ax \in Axes : g.axis[ax] # 0 => g.axisDue[ax] >= 0
    BY <2>1, <2>2, <2>3 DEF SleepsBefore, IsState
  <2>6. (g.hat # {} => g.hatDue >= 0) /\ (~Due(g.redraw) \/ rest = 0)
    BY <2>1, <2>2, <2>3 DEF SleepsBefore, Due
  <2> QED
    BY <2>2, <2>4, <2>5, <2>6 DEF WakesInTime, Axes
<1> QED
  BY <1>1, InInvThm, PTL

=============================================================================
