------------------------------ MODULE ApDownload ------------------------------
(***************************************************************************)
(* ap_download_manager of the Apostrophe widgets: a pool of worker threads *)
(* and the loop that starts them, shows them and lets the user cancel.     *)
(* One lock guards the counters and the states of the downloads.           *)
(***************************************************************************)
EXTENDS Integers, Sequences, FiniteSets, FiniteSetsExt

CONSTANTS
  DlCount,       \* number of downloads
  MaxConcurrent, \* opts->max_concurrent, 3 by default
  Slots,         \* size of threads[], whose members are joined
  DlFaults       \* what may fail: subset of
                 \* {"calloc", "thread", "open", "curl", "net", "flush"}

ASSUME DlAssumption == DlCount \in Nat /\ Slots \in Nat

VARIABLES
  status,     \* of each download
  worker,     \* step of the thread of each download, "none" without one
  file,       \* the destination: "none", "part", "whole", or "short" when its last
              \* bytes were not written
  next,       \* next_index, from 1
  active, completed, cancel,          \* ctx
  joinable,   \* downloads whose thread is in threads[]
  lock,       \* TRUE while the loop of the dispatcher holds the mutex
  ui,         \* step of the loop of the manager
  seen,       \* the snapshot: states, done count, whether all is over
  result      \* result

dvars == <<status, worker, file, next, active, completed, cancel, joinable, lock, ui,
           seen, result>>

D == 1 .. DlCount
Over == {"complete", "failed"}

\* result before the first frame, and what the loop knows of the downloads.
DlInit ==
  /\ status = [d \in D |-> "pending"] /\ worker = [d \in D |-> "none"]
  /\ file = [d \in D |-> "none"] /\ next = 1 /\ active = 0 /\ completed = 0
  /\ cancel = FALSE /\ joinable = {} /\ lock = FALSE /\ ui = "dispatch"
  /\ seen = [status |-> [d \in D |-> "pending"], done |-> 0, all |-> FALSE]
  /\ result = [completed |-> 0, failed |-> 0, cancelled |-> FALSE]

-----------------------------------------------------------------------------
(* ap__dl_dispatch, under the lock.                                        *)

DispatchBegin ==
  /\ ui = "dispatch" /\ ~lock /\ ~cancel
  /\ lock' = TRUE
  /\ UNCHANGED <<status, worker, file, next, active, completed, cancel, joinable, ui, seen, result>>

DispatchSkipped ==
  /\ ui = "dispatch" /\ ~lock /\ cancel
  /\ ui' = "snapshot"
  /\ UNCHANGED <<status, worker, file, next, active, completed, cancel, joinable, lock, seen, result>>

Room == active < MaxConcurrent /\ next <= DlCount

\* One more download: its thread is started, or cannot be.  Without memory for
\* the thread's data the loop ends, and the download has been passed over.
DispatchOne(how) ==
  /\ ui = "dispatch" /\ lock /\ Room /\ status[next] = "pending"
  /\ how = "thread" => "thread" \in DlFaults
  /\ how = "calloc" => "calloc" \in DlFaults
  /\ next' = next + 1
  /\ CASE how = "ok" ->
            /\ worker' = [worker EXCEPT ![next] = "created"] /\ active' = active + 1
            /\ joinable' = IF Cardinality(joinable) < Slots THEN joinable \cup {next} ELSE joinable
            /\ UNCHANGED <<status, completed, lock, ui>>
       [] how = "thread" ->
            /\ status' = [status EXCEPT ![next] = "failed"] /\ completed' = completed + 1
            /\ UNCHANGED <<worker, active, joinable, lock, ui>>
       [] how = "calloc" ->
            /\ lock' = FALSE /\ ui' = "snapshot"
            /\ UNCHANGED <<status, worker, active, completed, joinable>>
  /\ UNCHANGED <<file, cancel, seen, result>>

DispatchEnd ==
  /\ ui = "dispatch" /\ lock /\ ~Room
  /\ lock' = FALSE /\ ui' = "snapshot"
  /\ UNCHANGED <<status, worker, file, next, active, completed, cancel, joinable, seen, result>>

-----------------------------------------------------------------------------
(* ap__dl_worker.  Every step that touches a download holds the lock.      *)

Step(d, from) == worker[d] = from /\ ~lock
Same == UNCHANGED <<next, cancel, joinable, lock, ui, seen, result>>
Goes(d, to, st) == worker' = [worker EXCEPT ![d] = to] /\ status' = [status EXCEPT ![d] = st]
                   /\ UNCHANGED <<active, completed>>

\* The state is "downloading" also when the user has cancelled already.
Begin(d) ==
  /\ Step(d, "created")
  /\ Goes(d, IF cancel THEN "late" ELSE "open", "downloading")
  /\ UNCHANGED file /\ Same

BeganLate(d) == Step(d, "late") /\ Goes(d, "count", "failed") /\ UNCHANGED file /\ Same

\* The destination is created; without curl it is left behind empty.
Open(d, how) ==
  /\ Step(d, "open")
  /\ how # "ok" => how \in DlFaults
  /\ CASE how = "ok" -> Goes(d, "transfer", status[d]) /\ file' = [file EXCEPT ![d] = "part"]
       [] how = "open" -> Goes(d, "count", "failed") /\ UNCHANGED file
       [] how = "curl" -> Goes(d, "count", "failed") /\ file' = [file EXCEPT ![d] = "part"]
  /\ Same

\* curl_easy_perform.  The progress callback aborts a cancelled transfer the
\* next time it is called, which may be never again.  The fclose after it writes
\* the last bytes; on a full card it fails, and its result is not looked at.
Transfer(d, how) ==
  /\ worker[d] = "transfer"
  /\ how = "aborted" => cancel
  /\ how = "error" => "net" \in DlFaults
  /\ how = "short" => "flush" \in DlFaults
  /\ worker' = [worker EXCEPT ![d] = IF how \in {"ok", "short"} THEN "got" ELSE "lost"]
  /\ file' = CASE how = "ok" -> [file EXCEPT ![d] = "whole"]
               [] how = "short" -> [file EXCEPT ![d] = "short"]
               [] OTHER -> file
  /\ UNCHANGED <<status, active, completed>> /\ Same

\* Mutant: the state of a complete transfer is not set.
Got_silent(d) == Step(d, "got") /\ Goes(d, "count", status[d]) /\ UNCHANGED file /\ Same

\* A transfer that is complete is complete although it was cancelled.
Got(d) == Step(d, "got") /\ Goes(d, "count", "complete") /\ UNCHANGED file /\ Same
Lost(d) == Step(d, "lost") /\ Goes(d, "remove", "failed") /\ UNCHANGED file /\ Same
Discard(d) ==
  /\ worker[d] = "remove" /\ Goes(d, "count", status[d])
  /\ file' = [file EXCEPT ![d] = "none"] /\ Same

\* Mutant: a failed download is not counted.
Count_good(d) ==
  /\ Step(d, "count")
  /\ worker' = [worker EXCEPT ![d] = "gone"]
  /\ active' = active - 1
  /\ completed' = IF status[d] = "complete" THEN completed + 1 ELSE completed
  /\ UNCHANGED <<status, file>> /\ Same

\* The thread counts itself out after the state of its download is final.
Count(d) ==
  /\ Step(d, "count")
  /\ worker' = [worker EXCEPT ![d] = "gone"]
  /\ active' = active - 1 /\ completed' = completed + 1
  /\ UNCHANGED <<status, file>> /\ Same

-----------------------------------------------------------------------------
(* The loop of ap_download_manager.                                        *)

In(st, state) == Cardinality({d \in D : st[d] = state})

\* Everything is over when every download was counted, or when it was
\* cancelled and no thread is active.
Snapshot ==
  /\ ui = "snapshot" /\ ~lock
  /\ seen' = [status |-> status, done |-> completed,
              all |-> completed >= DlCount \/ (cancel /\ active <= 0)]
  /\ result' = [completed |-> In(status, "complete"), failed |-> In(status, "failed"),
                cancelled |-> result.cancelled \/ (cancel /\ active <= 0)]
  /\ ui' = "input"
  /\ UNCHANGED <<status, worker, file, next, active, completed, cancel, joinable, lock>>

\* Y.  Downloads that wait are counted here; one whose thread was started and
\* has not begun is counted by its thread again.
PressY ==
  /\ ui = "input" /\ ~lock /\ ~seen.all
  /\ cancel' = TRUE
  /\ status' = [d \in D |-> IF status[d] \in {"pending", "downloading"} THEN "failed" ELSE status[d]]
  /\ completed' = completed + In(status, "pending")
  /\ seen' = [seen EXCEPT !.status = status']
  /\ result' = [result EXCEPT !.cancelled = TRUE]
  /\ UNCHANGED <<worker, file, next, active, joinable, lock, ui>>

\* A leaves a manager that is over or cancelled.
PressA ==
  /\ ui = "input" /\ (seen.all \/ result.cancelled)
  /\ ui' = "join"
  /\ UNCHANGED <<status, worker, file, next, active, completed, cancel, joinable, lock, seen, result>>

\* The frame is drawn: the rows by the snapshot.  The one in which all is
\* over is the last.
Frame ==
  /\ ui = "input"
  /\ ui' = IF seen.all THEN "join" ELSE "dispatch"
  /\ UNCHANGED <<status, worker, file, next, active, completed, cancel, joinable, lock, seen, result>>

Return ==
  /\ ui = "join" /\ \A d \in joinable : worker[d] = "gone"
  /\ ui' = IF result.cancelled THEN "cancelled"
           ELSE IF result.failed > 0 /\ result.completed = 0 THEN "error" ELSE "ok"
  /\ UNCHANGED <<status, worker, file, next, active, completed, cancel, joinable, lock, seen, result>>

Thread(d) ==
  \/ Begin(d) \/ BeganLate(d) \/ Got(d) \/ Lost(d) \/ Discard(d) \/ Count(d)
  \/ \E how \in {"ok", "open", "curl"} : Open(d, how)
  \/ \E how \in {"ok", "short", "aborted", "error"} : Transfer(d, how)
ManagerLoop == DispatchBegin \/ DispatchSkipped \/ DispatchEnd \/ Snapshot \/ Frame \/ Return
        \/ \E how \in {"ok", "thread", "calloc"} : DispatchOne(how)

DlNext == ManagerLoop \/ PressY \/ PressA \/ \E d \in D : Thread(d)

\* Frames go on without input (the loop asks for the next one itself), every
\* transfer ends, since curl gives up a slow one, and a thread that waits for
\* the lock gets it: the loop lets go of it and sleeps until the next frame.
DlFairness == WF_dvars(ManagerLoop) /\ \A d \in D : SF_dvars(Thread(d))
DlSpec == DlInit /\ [][DlNext]_dvars /\ DlFairness

-----------------------------------------------------------------------------
Returned == ui \in {"cancelled", "error", "ok"}

\* Every download is good or bad, no thread works on one, and a good one is
\* complete on disk, but for the last bytes when the flush may fail.
Settled ==
  \A d \in D : /\ status[d] \in Over /\ worker[d] \in {"none", "gone"}
               /\ status[d] = "complete" =>
                    file[d] = "whole" \/ (file[d] = "short" /\ "flush" \in DlFaults)
\* Without a cancel the manager returns with every download settled and with
\* the exact number of good and bad ones (ap_download_manager).
CountsExact ==
  Returned /\ ~result.cancelled =>
    /\ Settled
    /\ result.completed = In(status, "complete") /\ result.failed = In(status, "failed")
\* No thread uses the counters on the manager's stack after it returned, as
\* long as there are no more downloads than slots for their threads.
NoneLeftBehind ==
  Returned /\ DlCount <= Slots => \A d \in D : worker[d] \in {"none", "gone"}
\* The download manager reports what happened, and no thread is left with data
\* of it when it returned.
ResultExact == CountsExact /\ NoneLeftBehind
\* A download that was passed over for lack of memory is never started.
Starved == \E d \in D : d < next /\ status[d] = "pending" /\ worker[d] = "none"

\* The manager ends by itself, unless a download was passed over.
ManagerEnds == <>(Returned \/ Starved)
=============================================================================
