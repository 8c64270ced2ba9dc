---------------------------- MODULE ScrapeQueue ----------------------------
(***************************************************************************)
(* The download queue of ZcrapeGoat (queue.c, cheats.c) inside one process: *)
(* the UI thread, the manager, the workers of an artwork or manual batch    *)
(* and the cheat thread, around one array of items.  An array index is what *)
(* a thread keeps between two locked sections; the UI thread may clear,     *)
(* cancel or hand off the array meanwhile.                                  *)
(***************************************************************************)
EXTENDS Naturals, Sequences, FiniteSets, FiniteSetsExt

CONSTANTS
    Roms,      \* ROM files of one console folder
    Kinds,     \* the queue_item_types in use: subset of AllKinds
    Workers,   \* worker threads ScreenScraper may allow besides the manager
    Dirs,      \* libretro cheat directories the folder may be mapped to
    MaxItems,  \* QUEUE_MAX_ITEMS
    MaxAdds,   \* bound: successful queue_add calls
    Faults     \* subset of {"thread", "settings"}: calls that may fail

AllKinds == {"artwork", "cheat", "manual"}

ASSUME QueueAssumption ==
    /\ Kinds \subseteq AllKinds
    /\ MaxItems \in Nat \ {0} /\ MaxAdds \in Nat
    /\ IsFiniteSet(Workers) /\ Workers # {}
    /\ {"manager", "cheat"} \cap Workers = {}
    /\ Dirs # {}

VARIABLES
    items,     \* g_items[0 .. g_count-1]; item i of the code is items[i+1]
    nextId,    \* g_next_item_id
    started,   \* g_manager_started
    running,   \* g_worker_running
    interrupt, \* g_interrupt
    th,        \* per thread: where it is, and the index and id it claimed
    has,       \* manager: the types it found idle and has not served yet
    batch,     \* manager: the type of its batch and the indices left in it
    maxth,     \* manager: threads the first answer allows
    have,      \* ROMs whose cheat file is on the card
    mapping,   \* the folder's cheat directory at present
    repo,      \* is_repo_initialized: .git is there, of a whole clone or not
    ready,     \* g_cheat_repo_ready
    cache,     \* directories with a list in g_cheat_cache
    ui,        \* what the UI thread is doing
    snap,      \* what queue_handoff_snapshot returned, until it is used
    abandoned  \* history: ids of items whose call this stop has broken off

uiVars    == <<nextId, mapping, ui, snap>>
repoVars  == <<repo, ready, cache>>
flags     == <<started, running, interrupt>>
mgrVars   == <<has, batch, maxth>>
vars == <<items, th, have, abandoned, uiVars, repoVars, flags, mgrVars>>

Threads  == Workers \cup {"manager", "cheat"}
Active   == {"searching", "downloading", "cloning", "matching"}
Terminal == {"done", "failed", "skipped"}   \* failed: QUEUE_NOT_FOUND, QUEUE_ERROR
Item     == [id : 1..MaxAdds, kind : Kinds, rom : Roms, force : BOOLEAN,
             dir : Dirs \cup {"none"}, status : Active \cup Terminal \cup {"idle"}]
WorkPCs  == {"search", "download", "repo", "clone", "update", "checkout", "match"}
PCs      == WorkPCs \cup {"off", "loop", "classify", "batch", "first", "spawn",
                          "join", "joincheat", "next", "find", "exit"}
Off      == [pc |-> "off", i |-> 0, id |-> 0]
StopOps  == {"cancel", "handoff", "edit", "shutdown"}

TypeOK ==
    /\ items \in Seq(Item) /\ Len(items) <= MaxItems
    /\ nextId \in 1..MaxAdds + 1
    /\ started \in BOOLEAN /\ running \in BOOLEAN /\ interrupt \in BOOLEAN
    /\ th \in [Threads -> [pc : PCs, i : 0..MaxItems, id : 0..MaxAdds]]
    /\ has \subseteq Kinds
    /\ batch \in [kind : {"artwork", "manual"}, left : SUBSET (1..MaxItems)]
    /\ maxth \in 1..Cardinality(Workers)
    /\ have \subseteq Roms
    /\ mapping \in Dirs
    /\ repo \in BOOLEAN /\ ready \in BOOLEAN /\ cache \subseteq Dirs
    /\ ui \in {"idle", "handed", "invalidate", "gone"} \cup StopOps
    /\ snap \in Seq(Item)
    /\ abandoned \subseteq 1..MaxAdds

Init ==
    /\ items = <<>> /\ nextId = 1
    /\ started = FALSE /\ running = FALSE /\ interrupt = FALSE
    /\ th = [t \in Threads |-> Off]
    /\ has = {} /\ batch = [kind |-> "artwork", left |-> {}] /\ maxth = 1
    /\ have = {} /\ mapping \in Dirs
    /\ repo = FALSE /\ ready = FALSE /\ cache = {}
    /\ ui = "idle" /\ snap = <<>> /\ abandoned = {}

----------------------------------------------------------------------------
(* Items, each operator one section under g_mutex.                         *)

is_terminal_status(s) == s \in Terminal
Indices          == DOMAIN items
NonTerminal      == {i \in Indices : ~is_terminal_status(items[i].status)}
IdleOf(k)        == {i \in Indices : items[i].kind = k /\ items[i].status = "idle"}
Goto(t, pc)      == th' = [th EXCEPT ![t] = [Off EXCEPT !.pc = pc]]
Keep(t, pc)      == th' = [th EXCEPT ![t].pc = pc]
SetStatus(t, s)  == items' = [items EXCEPT ![th[t].i].status = s]

\* claim_item: IDLE to an active status, or FALSE.
CanClaim(i, k) == i \in IdleOf(k)
claim_item(t, i, s, pc) ==
    /\ items' = [items EXCEPT ![i].status = s]
    /\ th' = [th EXCEPT ![t] = [pc |-> pc, i |-> i, id |-> items[i].id]]
    /\ abandoned' = abandoned \ {items[i].id}

\* A call is broken off (-2, CHEAT_OP_CANCELLED) only while g_interrupt is set.
BrokenOff(t) ==
    /\ interrupt
    /\ abandoned' = abandoned \cup {th[t].id}

----------------------------------------------------------------------------
(* Artwork and manual workers.                                             *)

\* artwork_worker_fn, manual_worker_fn: top of the loop and claim.
WorkerNext(w) ==
    /\ th[w].pc = "next"
    /\ IF interrupt \/ ~running \/ batch.left = {}
       THEN Goto(w, "off") /\ UNCHANGED <<items, abandoned, batch>>
       ELSE LET i == Min(batch.left) IN
            /\ batch' = [batch EXCEPT !.left = @ \ {i}]
            /\ IF CanClaim(i, batch.kind)
               THEN claim_item(w, i, "searching", "search")
               ELSE UNCHANGED <<items, th, abandoned>>
    /\ UNCHANGED <<have, uiVars, repoVars, flags, has, maxth>>

\* ss_search_rom returns and its result is recorded.
WorkerSearched(w) ==
    /\ w \in Workers /\ th[w].pc = "search"
    /\ \/ SetStatus(w, "downloading") /\ Keep(w, "download") /\ UNCHANGED abandoned
       \/ SetStatus(w, "failed") /\ Goto(w, "next") /\ UNCHANGED abandoned
       \/ BrokenOff(w) /\ Goto(w, "off") /\ UNCHANGED items
    /\ UNCHANGED <<have, uiVars, repoVars, flags, mgrVars>>

WorkerDownloaded(w) ==
    /\ w \in Workers /\ th[w].pc = "download"
    /\ \/ \E s \in {"done", "failed"} :
            SetStatus(w, s) /\ Goto(w, "next") /\ UNCHANGED abandoned
       \/ BrokenOff(w) /\ Goto(w, "off") /\ UNCHANGED items
    /\ UNCHANGED <<have, uiVars, repoVars, flags, mgrVars>>

----------------------------------------------------------------------------
(* The manager.                                                            *)

\* manager_thread_fn: leave, sleep, or look for work.
ManagerLoop ==
    /\ th["manager"].pc = "loop"
    /\ \/ /\ ~running \/ interrupt
          /\ running' = FALSE
          /\ Goto("manager", "exit")
       \/ /\ running /\ ~interrupt
          /\ \E k \in Kinds : IdleOf(k) # {}
          /\ Goto("manager", "classify")
          /\ UNCHANGED running
    /\ UNCHANGED <<items, have, abandoned, uiVars, repoVars, started, interrupt, mgrVars>>

\* The types with idle items; the cheat thread, which may fail to start.
ManagerClassify ==
    /\ th["manager"].pc = "classify"
    /\ LET idle   == {k \in Kinds : IdleOf(k) # {}}
           cheats == "cheat" \in idle /\ ~interrupt
       IN /\ has' = idle \ {"cheat"}
          /\ \/ /\ cheats
                /\ th' = [th EXCEPT !["manager"].pc = "batch", !["cheat"].pc = "find"]
             \/ /\ ~cheats \/ "thread" \in Faults
                /\ Keep("manager", "batch")
    /\ UNCHANGED <<items, have, abandoned, uiVars, repoVars, flags, batch, maxth>>

\* process_artwork_batch, then process_manual_batch: the idle indices of one
\* type, or an error for all of them when the settings cannot be copied.
ManagerBatch ==
    /\ th["manager"].pc = "batch"
    /\ IF has = {} \/ interrupt
       THEN Goto("manager", "joincheat") /\ UNCHANGED <<items, has, batch>>
       ELSE LET k == IF "artwork" \in has THEN "artwork" ELSE "manual" IN
            /\ has' = has \ {k}
            /\ \/ /\ batch' = [kind |-> k, left |-> IdleOf(k)]
                  /\ IF IdleOf(k) # {} THEN Goto("manager", "first") ELSE UNCHANGED th
                  /\ UNCHANGED items
               \/ /\ "settings" \in Faults
                  /\ items' = [i \in Indices |-> IF i \in IdleOf(k)
                                 THEN [items[i] EXCEPT !.status = "failed"] ELSE items[i]]
                  /\ UNCHANGED <<batch, th>>
    /\ maxth' = 1
    /\ UNCHANGED <<have, abandoned, uiVars, repoVars, flags>>

\* The manager serves the first item itself.
ManagerFirst ==
    /\ th["manager"].pc = "first"
    /\ LET i == Min(batch.left) IN
       /\ batch' = [batch EXCEPT !.left = @ \ {i}]
       /\ IF CanClaim(i, batch.kind)
          THEN claim_item("manager", i, "searching", "search")
          ELSE Goto("manager", "spawn") /\ UNCHANGED <<items, abandoned>>
    /\ UNCHANGED <<have, uiVars, repoVars, flags, has, maxth>>

ManagerSearched ==
    /\ th["manager"].pc = "search"
    /\ \/ /\ SetStatus("manager", "downloading") /\ Keep("manager", "download")
          /\ maxth' \in 1..Cardinality(Workers)
          /\ UNCHANGED abandoned
       \/ /\ SetStatus("manager", "failed")
          /\ Goto("manager", "spawn") /\ UNCHANGED <<maxth, abandoned>>
       \/ BrokenOff("manager") /\ Goto("manager", "spawn") /\ UNCHANGED <<items, maxth>>
    /\ UNCHANGED <<have, uiVars, repoVars, flags, has, batch>>

\* Any result but 0 is an error here, -2 included.
ManagerDownloaded ==
    /\ th["manager"].pc = "download"
    /\ Goto("manager", "spawn")
    /\ \/ \E s \in {"done", "failed"} : SetStatus("manager", s) /\ UNCHANGED abandoned
       \/ SetStatus("manager", "failed") /\ BrokenOff("manager")
    /\ UNCHANGED <<have, uiVars, repoVars, flags, mgrVars>>

\* Up to max_threads workers for what is left; pthread_create may fail.
ManagerSpawn ==
    /\ th["manager"].pc = "spawn"
    /\ LET want == IF batch.left = {} \/ interrupt THEN 0
                   ELSE Min({maxth, Cardinality(batch.left)})
       IN \E W \in SUBSET Workers :
            /\ Cardinality(W) = want \/ ("thread" \in Faults /\ Cardinality(W) < want)
            /\ th' = [t \in Threads |->
                        CASE t = "manager" -> [Off EXCEPT !.pc = "join"]
                          [] t \in W       -> [Off EXCEPT !.pc = "next"]
                          [] OTHER         -> th[t]]
    /\ UNCHANGED <<items, have, abandoned, uiVars, repoVars, flags, mgrVars>>

ManagerJoin ==
    /\ th["manager"].pc = "join"
    /\ \A w \in Workers : th[w].pc = "off"
    /\ Goto("manager", "batch")
    /\ batch' = [batch EXCEPT !.left = {}]
    /\ UNCHANGED <<items, have, abandoned, uiVars, repoVars, flags, has, maxth>>

\* Mutant: the manager ends after its first round.
ManagerLeaves ==
    /\ th["manager"].pc = "joincheat"
    /\ th["cheat"].pc = "off"
    /\ Goto("manager", "exit")
    /\ has' = {}
    /\ UNCHANGED <<items, have, abandoned, uiVars, repoVars, flags, batch, maxth>>

ManagerJoinCheat ==
    /\ th["manager"].pc = "joincheat"
    /\ th["cheat"].pc = "off"
    /\ Goto("manager", "loop")
    /\ has' = {}
    /\ UNCHANGED <<items, have, abandoned, uiVars, repoVars, flags, batch, maxth>>

----------------------------------------------------------------------------
(* The cheat thread.  It holds g_cheat_state_mutex from "repo" to "match"; *)
(* the list it matches against is used after the mutex is released.        *)

CheatDir == items[th["cheat"].i].dir

\* cheat_thread_fn, find_next_cheat_index and the claim in process_cheat_item.
CheatFind ==
    /\ th["cheat"].pc = "find"
    /\ IF interrupt \/ IdleOf("cheat") = {}
       THEN Goto("cheat", "off") /\ UNCHANGED <<items, abandoned>>
       ELSE claim_item("cheat", Min(IdleOf("cheat")),
                       IF ready THEN "matching" ELSE "cloning", "repo")
    /\ UNCHANGED <<have, uiVars, repoVars, flags, mgrVars>>

\* The item is left as it is when the thread was interrupted.
CheatGivesUp ==
    /\ Goto("cheat", "find")
    /\ IF interrupt
       THEN abandoned' = abandoned \cup {th["cheat"].id} /\ UNCHANGED items
       ELSE SetStatus("cheat", "failed") /\ UNCHANGED abandoned

\* process_cheat_item up to the lock, and the cases of ensure_cheat_list.
CheatRepo ==
    /\ th["cheat"].pc = "repo"
    /\ LET it == items[th["cheat"].i] IN
       CASE ~it.force /\ it.rom \in have ->
              SetStatus("cheat", "skipped") /\ Goto("cheat", "find") /\ UNCHANGED abandoned
         [] (it.force \/ it.rom \notin have) /\ it.dir \in cache /\ interrupt -> CheatGivesUp
         [] OTHER -> /\ Keep("cheat", CASE it.dir \in cache -> "match"
                                        [] it.dir \notin cache /\ ready -> "checkout"
                                        [] OTHER -> IF repo THEN "update" ELSE "clone")
                     /\ UNCHANGED <<items, abandoned>>
    /\ UNCHANGED <<have, uiVars, repoVars, flags, mgrVars>>

\* run_git_streaming: git is killed when, and only when, g_interrupt is set; it
\* may also end first, well or badly.
GitKilled == interrupt

\* init_cheat_repo.  git removes what it made when it fails, not when it is
\* killed: .git may then be there, which is all is_repo_initialized looks at.
CheatClone ==
    /\ th["cheat"].pc = "clone"
    /\ \/ /\ repo' = TRUE /\ ready' = TRUE
          /\ Keep("cheat", "checkout") /\ UNCHANGED <<items, abandoned>>
       \/ CheatGivesUp /\ UNCHANGED <<repo, ready>>
       \/ GitKilled /\ repo' = TRUE /\ CheatGivesUp /\ UNCHANGED ready
    /\ UNCHANGED <<have, uiVars, cache, flags, mgrVars>>

\* update_cheat_repo: only BUSY counts, every other failure is ignored.
CheatUpdate ==
    /\ th["cheat"].pc = "update"
    /\ \/ ready' = TRUE /\ Keep("cheat", "checkout") /\ UNCHANGED <<items, abandoned>>
       \/ CheatGivesUp /\ UNCHANGED ready
    /\ UNCHANGED <<have, uiVars, repo, cache, flags, mgrVars>>

\* ensure_system_checked_out, room in g_cheat_cache and build_cheat_list.
CheatCheckout ==
    /\ th["cheat"].pc = "checkout"
    /\ \/ /\ cache' = cache \cup {CheatDir}
          /\ IF interrupt THEN CheatGivesUp
             ELSE Keep("cheat", "match") /\ UNCHANGED <<items, abandoned>>
       \/ CheatGivesUp /\ UNCHANGED cache
    /\ UNCHANGED <<have, uiVars, repo, ready, flags, mgrVars>>

\* match_cheat and copy_cheat_file.
CheatMatch ==
    /\ th["cheat"].pc = "match"
    /\ Goto("cheat", "find")
    /\ \/ SetStatus("cheat", "failed") /\ UNCHANGED have
       \/ /\ SetStatus("cheat", "done")
          /\ have' = have \cup {items[th["cheat"].i].rom}
    /\ UNCHANGED <<abandoned, uiVars, repoVars, flags, mgrVars>>

----------------------------------------------------------------------------
(* The UI thread.                                                          *)

\* ensure_manager_started; pthread_create may fail.
ensure_manager_started ==
    IF started THEN UNCHANGED <<flags, th>>
    ELSE /\ interrupt' = FALSE
         /\ \/ started' = TRUE /\ running' = TRUE /\ Goto("manager", "loop")
            \/ /\ "thread" \in Faults
               /\ started' = FALSE /\ running' = FALSE /\ UNCHANGED th

\* queue_add_artwork, _cheat and _manual, forced or not.  Whether the asset is
\* there decides an add only; it, force and dir are kept for cheats, of which
\* alone they are read again.
QueueAdd(k, r, force) ==
    /\ ui = "idle" /\ nextId <= MaxAdds
    /\ force \/ k # "cheat" \/ r \notin have
    /\ ~\E i \in NonTerminal : items[i].kind = k /\ items[i].rom = r
    /\ Len(items) < MaxItems
    /\ items' = Append(items, [id |-> nextId, kind |-> k, rom |-> r,
                               force |-> force /\ k = "cheat",
                               dir |-> IF k = "cheat" THEN mapping ELSE "none",
                               status |-> "idle"])
    /\ nextId' = nextId + 1
    /\ ensure_manager_started
    /\ UNCHANGED <<have, abandoned, mapping, ui, snap, repoVars, mgrVars>>

\* Mutant: finished items are removed while others are in work.
ClearDoneAnyTime ==
    /\ ui = "idle" /\ items # <<>>
    /\ items' = SelectSeq(items, LAMBDA it : ~is_terminal_status(it.status))
    /\ UNCHANGED <<th, have, abandoned, uiVars, repoVars, flags, mgrVars>>

\* queue_clear_done does nothing while an item is unfinished.
QueueClearDone ==
    /\ ui = "idle" /\ items # <<>> /\ NonTerminal = {}
    /\ items' = <<>>
    /\ UNCHANGED <<th, have, abandoned, uiVars, repoVars, flags, mgrVars>>

\* queue_cancel_all, queue_handoff_snapshot, queue_begin_mapping_edit and
\* queue_shutdown begin: interrupt the manager if there is one.
StopBegin(op) ==
    /\ ui = "idle"
    /\ op = "edit" => NonTerminal = {}
    /\ ui' = op
    /\ interrupt' = (op # "shutdown" \/ started)
    /\ running' = (running /\ op # "shutdown")
    /\ UNCHANGED <<items, th, have, abandoned, nextId, mapping, snap, repoVars, started, mgrVars>>

\* pthread_join: the manager has returned, or there was none.
Joined == started => th["manager"].pc = "exit"

\* stop_manager_for_transition after the join.
Stopped ==
    /\ Joined
    /\ started' = FALSE /\ running' = FALSE /\ interrupt' = FALSE
    /\ th' = [th EXCEPT !["manager"] = Off]

QueueCancelAll ==
    /\ ui = "cancel" /\ Stopped
    /\ items' = [i \in Indices |-> IF i \in NonTerminal
                   THEN [items[i] EXCEPT !.status = "skipped"] ELSE items[i]]
    /\ ui' = "idle" /\ abandoned' = {}
    /\ UNCHANGED <<have, nextId, mapping, snap, repoVars, mgrVars>>

ResetToIdle(q) == [i \in DOMAIN q |-> IF is_terminal_status(q[i].status) THEN q[i]
                                      ELSE [q[i] EXCEPT !.status = "idle"]]

\* Mutant: the snapshot is taken without waiting for the manager.
SnapshotWithoutJoin ==
    /\ ui = "handoff"
    /\ items' = ResetToIdle(items) /\ snap' = ResetToIdle(items)
    /\ started' = FALSE /\ running' = FALSE /\ interrupt' = FALSE
    /\ ui' = "handed"
    /\ UNCHANGED <<th, have, abandoned, nextId, mapping, repoVars, mgrVars>>

QueueHandoffSnapshot ==
    /\ ui = "handoff" /\ Stopped
    /\ items' = ResetToIdle(items) /\ snap' = ResetToIdle(items)
    /\ ui' = "handed"
    /\ UNCHANGED <<have, abandoned, nextId, mapping, repoVars, mgrVars>>

\* The daemon has the queue and run_app returns; or it could not be started
\* and queue_load_items takes the snapshot back.
HandedOver ==
    /\ ui = "handed"
    /\ \/ ui' = "gone" /\ UNCHANGED <<items, flags, th>>
       \/ /\ ui' = "idle" /\ items' = ResetToIdle(snap)
          /\ IF \E i \in DOMAIN snap : ~is_terminal_status(snap[i].status)
             THEN ensure_manager_started ELSE UNCHANGED <<flags, th>>
    /\ snap' = <<>> /\ abandoned' = {}
    /\ UNCHANGED <<have, nextId, mapping, repoVars, mgrVars>>

\* queue_begin_mapping_edit, then the mapping the user picks.
QueueMappingEdit ==
    /\ ui = "edit" /\ Stopped
    /\ IF NonTerminal = {} THEN cache' = {} /\ ready' = FALSE /\ mapping' \in Dirs
                           ELSE UNCHANGED <<cache, ready, mapping>>
    /\ ui' = "idle" /\ abandoned' = {}
    /\ UNCHANGED <<items, have, nextId, snap, repo, mgrVars>>

ClearCheatCache ==
    /\ ui = "idle" /\ NonTerminal = {} /\ repo
    /\ \/ repo' = FALSE /\ ui' = "invalidate"
       \/ repo' \in BOOLEAN /\ UNCHANGED ui
    /\ UNCHANGED <<items, th, have, abandoned, nextId, mapping, snap, ready, cache, flags, mgrVars>>

QueueInvalidate ==
    /\ ui = "invalidate"
    /\ IF NonTerminal = {} THEN cache' = {} /\ ready' = FALSE ELSE UNCHANGED <<cache, ready>>
    /\ ui' = "idle"
    /\ UNCHANGED <<items, th, have, abandoned, nextId, mapping, snap, repo, flags, mgrVars>>

QueueShutdown ==
    /\ ui = "shutdown" /\ Joined
    /\ started' = FALSE /\ th' = [th EXCEPT !["manager"] = Off]
    /\ items' = <<>> /\ cache' = {} /\ ready' = FALSE
    /\ ui' = "gone"
    /\ UNCHANGED <<have, abandoned, nextId, mapping, snap, repo, running, interrupt, mgrVars>>

\* main has returned; the process is over.
Ended == ui = "gone" /\ UNCHANGED vars

----------------------------------------------------------------------------

WorkerStep(w) == WorkerNext(w) \/ WorkerSearched(w) \/ WorkerDownloaded(w)
artwork_worker_fn(w) == batch.kind = "artwork" /\ WorkerStep(w)
manual_worker_fn(w)  == batch.kind = "manual" /\ WorkerStep(w)

ServeBatch == ManagerFirst \/ ManagerSearched \/ ManagerDownloaded \/ ManagerSpawn \/ ManagerJoin
process_artwork_batch == batch.kind = "artwork" /\ ServeBatch
process_manual_batch  == batch.kind = "manual" /\ ServeBatch
ManagerStep == ManagerLoop \/ ManagerClassify \/ ManagerBatch
                 \/ process_artwork_batch \/ process_manual_batch \/ ManagerJoinCheat
CheatStep == CheatFind \/ CheatRepo \/ CheatClone \/ CheatUpdate \/ CheatCheckout \/ CheatMatch
StopEnds  == QueueCancelAll \/ QueueHandoffSnapshot \/ QueueMappingEdit \/ QueueShutdown
User == \/ \E k \in Kinds, r \in Roms, f \in BOOLEAN : QueueAdd(k, r, f)
        \/ QueueClearDone \/ ClearCheatCache \/ HandedOver
        \/ \E op \in StopOps : StopBegin(op)

Next == \/ \E w \in Workers : artwork_worker_fn(w) \/ manual_worker_fn(w)
        \/ ManagerStep \/ CheatStep
        \/ StopEnds \/ QueueInvalidate \/ User \/ Ended

\* Threads are scheduled and every call they make has a timeout; pthread_create
\* does not fail every time; the UI thread finishes what it began.  The user
\* does nothing for certain.
Fairness == /\ \A w \in Workers : WF_vars(WorkerStep(w))
            /\ WF_vars(ManagerStep) /\ WF_vars(CheatStep)
            /\ SF_vars(ManagerClassify /\ th'["cheat"].pc = "find")
            /\ SF_vars(ManagerSpawn /\ \E w \in Workers : th'[w].pc = "next")
            /\ WF_vars(StopEnds) /\ WF_vars(QueueInvalidate)

Spec == Init /\ [][Next]_vars /\ Fairness

----------------------------------------------------------------------------
(* Properties.                                                             *)

Holding == {t \in Threads : th[t].pc \in WorkPCs}

\* A thread works on an item by the index it claimed under the lock
\* (claim_item, set_item_status).  Whatever the UI thread adds, clears or
\* cancels meanwhile, the index still denotes the claimed item, the item is in
\* an active state, and no second thread works on it.
WorkersOwnItems ==
    \A t \in Holding :
        /\ th[t].i \in Indices
        /\ items[th[t].i].id = th[t].id
        /\ items[th[t].i].status \in Active
        /\ \A u \in Holding \ {t} : th[u].id # th[t].id

\* ensure_cheat_list returns a pointer into g_cheat_cache that process_cheat_item
\* reads without the lock: no invalidation frees the list meanwhile.
ListNotFreed == th["cheat"].pc = "match" => CheatDir \in cache

\* A cheat item keeps the directory it was queued with (queue_begin_mapping_edit
\* refuses while work is unfinished): it is never matched against another one.
TargetKept == \A i \in NonTerminal : items[i].kind = "cheat" => items[i].dir = mapping

\* A thread has the item, the list and the directory it began with until it is
\* done, whatever queue_clear_done, queue_cancel_all or queue_begin_mapping_edit
\* do meanwhile.
ClaimsHold == WorkersOwnItems /\ ListNotFreed /\ TargetKept

\* Between queue_handoff_snapshot and the daemon's start no thread of this
\* process works on the queue: what the daemon is given is what there is.
SnapshotIsFinal ==
    ui = "handed" => /\ snap = items
                     /\ \A t \in Threads : th[t].pc = "off"

\* Work that has a manager is finished once no more is added, unless the user
\* stops it.
WorkDrains == (NonTerminal # {} /\ started) ~> (NonTerminal = {} \/ ui # "idle")

\* queue.h: the hand-off stops the workers "without cancelling queue items" and
\* resets "unfinished work to IDLE": an item whose download the hand-off broke
\* off is idle in the snapshot.
HandoffKeepsWork ==
    ui = "handed" => \A i \in DOMAIN snap : snap[i].id \in abandoned => snap[i].status = "idle"
============================================================================
