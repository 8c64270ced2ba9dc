---------------------------- MODULE ScrapeProofs ----------------------------
(* Proofs about ZcrapeGoat's queue inside one process, for any ROMs,       *)
(* workers and cheat directories, any sizes, and any of the faults, and    *)
(* about its application and its daemon, for any items and any number of   *)
(* kills and power losses.                                                 *)
EXTENDS ScrapeQueue, ScrapeDaemon, WellFoundedInduction, TLAPS

----------------------------------------------------------------------------
(* The queue.  The inductive invariant.                                    *)

ManagerPCs == {"off", "loop", "classify", "batch", "first", "search", "download", "spawn",
               "join", "joincheat", "exit"}
CheatPCs   == {"off", "find", "repo", "clone", "update", "checkout", "match"}
WorkerPCs  == {"off", "next", "search", "download"}
ThreadSet  == [pc : PCs, i : Nat, id : Nat]

\* The array, and the number every item keeps.
ItemsOK ==
    /\ items \in Seq(Item) /\ nextId \in Nat \ {0} /\ mapping \in Dirs
    /\ \A i \in Indices : items[i].id < nextId
    /\ \A i, j \in Indices : items[i].id = items[j].id => i = j

\* Workers live while the manager waits for them, the cheat thread within one
\* round of the manager, and the manager from its creation to its join.
Control ==
    /\ th \in [Threads -> ThreadSet] /\ started \in BOOLEAN
    /\ th["manager"].pc \in ManagerPCs /\ th["cheat"].pc \in CheatPCs
    /\ \A w \in Workers : th[w].pc \in WorkerPCs
    /\ th["manager"].pc # "join" => \A w \in Workers : th[w].pc = "off"
    /\ th["manager"].pc \in {"off", "loop", "classify", "exit"} => th["cheat"].pc = "off"
    /\ started = FALSE => th["manager"].pc = "off"

\* What was handed over has no manager.
Handed == ui = "handed" => snap = items /\ started = FALSE

QueueInv == ItemsOK /\ Control /\ Handed /\ ClaimsHold

LEMMA ThreadsAre ==
    /\ "manager" \in Threads /\ "cheat" \in Threads /\ Workers \subseteq Threads
    /\ "manager" \notin Workers /\ "cheat" \notin Workers
BY QueueAssumption DEF Threads

\* Without a manager no thread works on an item.
LEMMA NobodyHolds ==
    ASSUME Control, th["manager"].pc \in {"off", "exit"}
    PROVE  /\ \A t \in Threads : th[t].pc \notin WorkPCs
           /\ \A t \in Threads \ {"manager"} : th[t].pc = "off"
BY ThreadsAre DEF Control, WorkPCs, Threads

\* Nobody works when every item is finished.
LEMMA NothingHeld ==
    ASSUME QueueInv, NonTerminal = {} PROVE \A t \in Threads : th[t].pc \notin WorkPCs
BY DEF QueueInv, ClaimsHold, WorkersOwnItems, Holding, NonTerminal, is_terminal_status, Active,
       Terminal

LEMMA ItemsAre ==
    ASSUME NEW q \in Seq(Item)
    PROVE  /\ Len(q) \in Nat /\ DOMAIN q = 1 .. Len(q)
           /\ \A i \in DOMAIN q : q[i] \in Item
OBVIOUS

\* Another status for one item: everything else is kept.
LEMMA StatusSet ==
    ASSUME items \in Seq(Item), NEW k \in Indices, NEW s \in Active \cup Terminal \cup {"idle"},
           items' = [items EXCEPT ![k].status = s]
    PROVE  /\ items' \in Seq(Item) /\ DOMAIN items' = DOMAIN items
           /\ \A j \in Indices \ {k} : items'[j] = items[j]
           /\ items'[k].id = items[k].id /\ items'[k].kind = items[k].kind
           /\ items'[k].dir = items[k].dir /\ items'[k].status = s
<1>1. /\ Len(items) \in Nat /\ DOMAIN items = 1 .. Len(items)
      /\ \A j \in 1 .. Len(items) : items[j] \in Item
  BY ItemsAre
<1>2. /\ items' = [items EXCEPT ![k] = [items[k] EXCEPT !.status = s]]
      /\ [items[k] EXCEPT !.status = s] \in Item
      /\ k \in 1 .. Len(items)
  BY <1>1 DEF Item, Indices
<1>3. items' \in Seq(Item) /\ DOMAIN items' = DOMAIN items
  BY <1>1, <1>2
<1>4. \A j \in Indices \ {k} : items'[j] = items[j]
  BY <1>1, <1>2 DEF Indices
<1>5. items'[k] = [items[k] EXCEPT !.status = s]
  BY <1>1, <1>2
<1> QED
  BY <1>1, <1>2, <1>3, <1>4, <1>5 DEF Item

----------------------------------------------------------------------------
(* One thread goes on.                                                     *)

\* Where a thread may go.
Allowed(t, pc) ==
    /\ t = "manager" => /\ pc \in ManagerPCs
                        /\ pc # "join" => \A w \in Workers : th[w].pc = "off"
                        /\ pc \in {"off", "loop", "classify", "exit"} => th["cheat"].pc = "off"
    /\ t = "cheat" => pc \in CheatPCs
    /\ t \in Workers => pc \in WorkerPCs

\* Thread t goes on to d and sets the status of item k at most, which no other
\* thread works on.
LEMMA ThreadStep ==
    ASSUME QueueInv, NEW t \in Threads, th[t].pc # "off", NEW d \in ThreadSet,
           th' = [th EXCEPT ![t] = d],
           UNCHANGED <<uiVars, started>>, cache \subseteq cache',
           items' \in Seq(Item), DOMAIN items' = DOMAIN items,
           NEW k, \A j \in Indices \ {k} : items'[j] = items[j],
           k \in Indices => /\ items'[k].id = items[k].id /\ items'[k].kind = items[k].kind
                            /\ items'[k].dir = items[k].dir
                            /\ items[k].status \notin Terminal
                            /\ \A u \in Holding \ {t} : th[u].i # k,
           d.pc \in WorkPCs => /\ d.i \in Indices /\ d.id = items[d.i].id
                               /\ items'[d.i].status \in Active
                               /\ \A u \in Holding \ {t} : th[u].i # d.i,
           Allowed(t, d.pc),
           t = "cheat" /\ d.pc = "match" => items[d.i].dir \in cache'
    PROVE  QueueInv'
<1>1. /\ th' \in [Threads -> ThreadSet] /\ th'[t] = d
      /\ \A u \in Threads \ {t} : th'[u] = th[u]
  BY DEF QueueInv, Control
<1>2. UNCHANGED <<nextId, mapping, ui, snap, started>>
  BY DEF uiVars
<1>3. \A j \in Indices : /\ items'[j].id = items[j].id /\ items'[j].kind = items[j].kind
                         /\ items'[j].dir = items[j].dir
                         /\ items'[j].status \notin Terminal => items[j].status \notin Terminal
  OBVIOUS
<1>4. Indices' = Indices
  BY DEF Indices
<1>5. ItemsOK'
  BY <1>2, <1>3, <1>4 DEF QueueInv, ItemsOK
<1>6. started # FALSE
  BY ThreadsAre, NobodyHolds DEF QueueInv, Control
<1>7. Control'
  <2>1. CASE t = "manager"
    BY <1>1, <1>2, <1>6, <2>1, ThreadsAre DEF QueueInv, Control, Allowed
  <2>2. CASE t = "cheat"
    BY <1>1, <1>2, <1>6, <2>2, ThreadsAre DEF QueueInv, Control, Allowed
  <2>3. CASE t \in Workers
    BY <1>1, <1>2, <1>6, <2>3, ThreadsAre DEF QueueInv, Control, Allowed
  <2> QED
    BY <2>1, <2>2, <2>3 DEF Threads
<1>8. Handed'
  BY <1>2, <1>6 DEF QueueInv, Handed
<1>9. WorkersOwnItems'
  <2>1. ASSUME NEW u \in Threads, u # t, th[u].pc \in WorkPCs
        PROVE  /\ th[u].i \in Indices /\ items'[th[u].i].id = th[u].id
               /\ items'[th[u].i].status \in Active
               /\ d.pc \in WorkPCs => th[u].id # d.id
    <3>1. /\ u \in Holding \ {t} /\ th[u].i \in Indices /\ items[th[u].i].id = th[u].id
          /\ items[th[u].i].status \in Active
      BY <2>1 DEF QueueInv, ClaimsHold, WorkersOwnItems, Holding
    <3>2. th[u].i # k \/ k \notin Indices
      BY <3>1
    <3>3. d.pc \in WorkPCs => th[u].i # d.i
      BY <3>1
    <3> QED
      BY <3>1, <3>2, <3>3 DEF QueueInv, ItemsOK
  <2>2. \A u, v \in Threads : /\ u # v
                              /\ th[u].pc \in WorkPCs /\ th[v].pc \in WorkPCs
                              => th[u].id # th[v].id
    BY DEF QueueInv, ClaimsHold, WorkersOwnItems, Holding
  <2> QED
    BY <1>1, <1>3, <1>4, <2>1, <2>2 DEF WorkersOwnItems, Holding
<1>10. TargetKept'
  BY <1>2, <1>3, <1>4 DEF QueueInv, ClaimsHold, TargetKept, NonTerminal, is_terminal_status
<1>11. ListNotFreed'
  <2>1. CASE t = "cheat"
    BY <1>1, <1>3, <2>1 DEF ListNotFreed, CheatDir, WorkPCs
  <2>2. CASE t # "cheat" /\ th["cheat"].pc = "match"
    <3>1. th["cheat"].i \in Indices
      BY <2>2, ThreadsAre DEF QueueInv, ClaimsHold, WorkersOwnItems, Holding, WorkPCs
    <3> QED
      BY <1>1, <1>3, <2>2, <3>1, ThreadsAre DEF QueueInv, ClaimsHold, ListNotFreed, CheatDir
  <2> QED
    BY <1>1, <2>1, <2>2, ThreadsAre DEF ListNotFreed
<1> QED
  BY <1>5, <1>7, <1>8, <1>9, <1>10, <1>11 DEF QueueInv, ClaimsHold

\* A thread that works on an item is at its index, and no other thread is.
LEMMA HolderIs ==
    ASSUME QueueInv, NEW t \in Threads, th[t].pc \in WorkPCs
    PROVE  /\ t \in Holding /\ th[t].i \in Indices /\ items[th[t].i].id = th[t].id
           /\ items[th[t].i].status \in Active /\ items[th[t].i].status \notin Terminal
           /\ \A u \in Holding \ {t} : th[u].i # th[t].i
           /\ th[t].pc # "off" /\ th[t] \in ThreadSet
BY DEF QueueInv, ClaimsHold, WorkersOwnItems, Holding, Active, Terminal, WorkPCs, Control

\* A thread that works on nothing, or no longer.
LEMMA Leaves ==
    ASSUME QueueInv, NEW t \in Threads, th[t].pc # "off", NEW pc \in PCs \ WorkPCs, Goto(t, pc),
           Allowed(t, pc), UNCHANGED <<uiVars, started>>, cache \subseteq cache',
           \/ UNCHANGED items
           \/ th[t].pc \in WorkPCs /\ \E s \in Active \cup Terminal : SetStatus(t, s)
    PROVE  QueueInv'
<1> DEFINE d == [Off EXCEPT !.pc = pc]
<1>1. d \in ThreadSet /\ d.pc = pc
  BY DEF Off, ThreadSet
<1>2. th' = [th EXCEPT ![t] = d]
  BY DEF Goto
<1> HIDE DEF d
<1>3. d.pc \notin WorkPCs /\ d.pc # "match" /\ Allowed(t, d.pc)
  BY <1>1 DEF WorkPCs
<1>4. CASE UNCHANGED items
  <2>1. 0 \notin Indices /\ items \in Seq(Item)
    BY ItemsAre DEF QueueInv, ItemsOK, Indices
  <2>2. /\ items' \in Seq(Item) /\ DOMAIN items' = DOMAIN items
        /\ \A j \in Indices \ {0} : items'[j] = items[j]
    BY <1>4, <2>1
  <2> QED
    BY <1>1, <1>2, <1>3, <2>1, <2>2, ThreadStep
<1>5. CASE th[t].pc \in WorkPCs /\ \E s \in Active \cup Terminal : SetStatus(t, s)
  <2> DEFINE k == th[t].i
  <2>1. PICK s \in Active \cup Terminal : SetStatus(t, s)
    BY <1>5
  <2>2. /\ k \in Indices /\ items[k].status \notin Terminal
        /\ \A u \in Holding \ {t} : th[u].i # k
    BY <1>5, HolderIs
  <2>3. items' = [items EXCEPT ![k].status = s]
    BY <2>1 DEF SetStatus
  <2>4. items \in Seq(Item)
    BY DEF QueueInv, ItemsOK
  <2> HIDE DEF k
  <2>5. /\ items' \in Seq(Item) /\ DOMAIN items' = DOMAIN items
        /\ \A j \in Indices \ {k} : items'[j] = items[j]
        /\ items'[k].id = items[k].id /\ items'[k].kind = items[k].kind
        /\ items'[k].dir = items[k].dir
    BY <2>2, <2>3, <2>4, StatusSet
  <2> QED
    BY <1>1, <1>2, <1>3, <2>2, <2>5, ThreadStep
<1> QED
  BY <1>4, <1>5

\* A thread that goes on working on its item.
LEMMA Stays ==
    ASSUME QueueInv, NEW t \in Threads, th[t].pc \in WorkPCs, NEW pc \in WorkPCs, Keep(t, pc),
           Allowed(t, pc), UNCHANGED <<uiVars, started>>, cache \subseteq cache',
           UNCHANGED items \/ \E s \in Active : SetStatus(t, s),
           t = "cheat" /\ pc = "match" => items[th[t].i].dir \in cache'
    PROVE  QueueInv'
<1> DEFINE d == [th[t] EXCEPT !.pc = pc]
           k == th[t].i
<1>1. /\ k \in Indices /\ items[k].id = th[t].id /\ items[k].status \notin Terminal
      /\ items[k].status \in Active
      /\ \A u \in Holding \ {t} : th[u].i # k
      /\ th[t].pc # "off" /\ th[t] \in ThreadSet
  BY HolderIs
<1>2. pc \in PCs
  BY DEF PCs
<1>3. d \in ThreadSet /\ d.pc = pc /\ d.i = k /\ d.id = items[k].id
  BY <1>1, <1>2 DEF ThreadSet
<1>4. th' = [th EXCEPT ![t] = d]
  BY DEF Keep
<1> HIDE DEF d, k
<1>5. items \in Seq(Item)
  BY DEF QueueInv, ItemsOK
<1>6. /\ items' \in Seq(Item) /\ DOMAIN items' = DOMAIN items
      /\ \A j \in Indices \ {k} : items'[j] = items[j]
      /\ items'[k].id = items[k].id /\ items'[k].kind = items[k].kind
      /\ items'[k].dir = items[k].dir /\ items'[k].status \in Active
  <2>1. CASE UNCHANGED items
    BY <1>1, <1>5, <2>1
  <2>2. CASE \E s \in Active : SetStatus(t, s)
    <3>1. PICK s \in Active : SetStatus(t, s)
      BY <2>2
    <3>2. items' = [items EXCEPT ![k].status = s]
      BY <3>1 DEF SetStatus, k
    <3>3. k \in Indices
      BY <1>1
    <3>4. /\ items' \in Seq(Item) /\ DOMAIN items' = DOMAIN items
          /\ \A j \in Indices \ {k} : items'[j] = items[j]
          /\ items'[k].id = items[k].id /\ items'[k].kind = items[k].kind
          /\ items'[k].dir = items[k].dir /\ items'[k].status = s
      BY <1>5, <3>2, <3>3, StatusSet
    <3> QED
      BY <3>4
  <2> QED
    BY <2>1, <2>2
<1>7. /\ t = "cheat" /\ d.pc = "match" => items[d.i].dir \in cache'
      /\ Allowed(t, d.pc) /\ d.pc \in WorkPCs
  BY <1>3 DEF k
<1>8. /\ d.i \in Indices /\ d.id = items[d.i].id /\ items'[d.i].status \in Active
      /\ \A u \in Holding \ {t} : th[u].i # d.i
  BY <1>1, <1>3, <1>6
<1> QED
  BY <1>1, <1>3, <1>4, <1>6, <1>7, <1>8, ThreadStep

\* claim_item: an idle item is nobody's.
LEMMA Claims ==
    ASSUME QueueInv, NEW t \in Threads, th[t].pc # "off",
           NEW i \in Indices, items[i].status = "idle", NEW s \in Active,
           NEW pc \in WorkPCs \ {"match"}, claim_item(t, i, s, pc),
           Allowed(t, pc), UNCHANGED <<uiVars, started>>, cache \subseteq cache'
    PROVE  QueueInv'
<1> DEFINE d == [pc |-> pc, i |-> i, id |-> items[i].id]
<1>1. items \in Seq(Item) /\ i \in Nat /\ items[i].id \in Nat
  <2>1. items[i] \in Item /\ i \in Nat /\ items \in Seq(Item)
    BY ItemsAre DEF QueueInv, ItemsOK, Indices
  <2>2. items[i].id \in 1 .. MaxAdds
    BY <2>1 DEF Item
  <2> QED
    BY <2>1, <2>2
<1>2. pc \in PCs /\ pc # "match" /\ pc \in WorkPCs
  BY DEF PCs
<1>3. d \in ThreadSet /\ d.pc = pc /\ d.i = i /\ d.id = items[i].id
  BY <1>1, <1>2 DEF ThreadSet
<1>4. th' = [th EXCEPT ![t] = d] /\ items' = [items EXCEPT ![i].status = s]
  BY DEF claim_item
<1> HIDE DEF d
<1>5. /\ items' \in Seq(Item) /\ DOMAIN items' = DOMAIN items
      /\ \A j \in Indices \ {i} : items'[j] = items[j]
      /\ items'[i].id = items[i].id /\ items'[i].kind = items[i].kind
      /\ items'[i].dir = items[i].dir /\ items'[i].status \in Active
  BY <1>1, <1>4, StatusSet
<1>6. items[i].status \notin Terminal /\ \A u \in Holding \ {t} : th[u].i # i
  BY DEF QueueInv, ClaimsHold, WorkersOwnItems, Active, Terminal
<1>7. /\ d.i \in Indices /\ d.id = items[d.i].id /\ items'[d.i].status \in Active
      /\ \A u \in Holding \ {t} : th[u].i # d.i
  BY <1>2, <1>3, <1>5, <1>6
<1>8. d.pc # "match" /\ Allowed(t, d.pc) /\ th' = [th EXCEPT ![t] = d] /\ d \in ThreadSet
  BY <1>2, <1>3, <1>4
<1> HIDE DEF QueueInv
<1> QED
  BY <1>5, <1>6, <1>7, <1>8, ThreadStep

\* A step that touches nothing of this.
LEMMA Idles ==
    ASSUME QueueInv, UNCHANGED <<items, th, uiVars, started>>, cache \subseteq cache' PROVE QueueInv'
BY DEF QueueInv, ClaimsHold, ItemsOK, Control, Handed, WorkersOwnItems, ListNotFreed, TargetKept,
       uiVars, Indices, Holding, NonTerminal, CheatDir

----------------------------------------------------------------------------
(* Workers and the manager.                                                *)

LEMMA WorkerInv ==
    ASSUME QueueInv, NEW w \in Workers, WorkerStep(w) PROVE QueueInv'
<1>a. w \in Threads /\ w # "manager" /\ w # "cheat"
  BY ThreadsAre
<1>b. UNCHANGED <<uiVars, started>> /\ cache \subseteq cache'
  BY DEF WorkerStep, WorkerNext, WorkerSearched, WorkerDownloaded, flags, repoVars
<1>c. \A pc \in WorkerPCs : Allowed(w, pc) /\ pc \in PCs
  BY <1>a DEF Allowed, WorkerPCs, PCs, WorkPCs
<1>d. /\ {"off", "next"} \subseteq PCs \ WorkPCs /\ {"off", "next", "search", "download"} = WorkerPCs
      /\ {"search", "download"} \subseteq WorkPCs \ {"match"}
      /\ {"downloading", "searching"} \subseteq Active /\ {"done", "failed"} \subseteq Terminal
  BY DEF PCs, WorkPCs, WorkerPCs, Active, Terminal
<1>1. CASE WorkerNext(w)
  <2>1. th[w].pc # "off"
    BY <1>1 DEF WorkerNext
  <2>2. CASE Goto(w, "off") /\ UNCHANGED items
    BY <1>a, <1>b, <1>c, <1>d, <2>1, <2>2, Leaves
  <2>3. CASE UNCHANGED <<items, th>>
    BY <1>b, <2>3, Idles
  <2>4. ASSUME NEW i, CanClaim(i, batch.kind), claim_item(w, i, "searching", "search")
        PROVE  QueueInv'
    <3>1. i \in Indices /\ items[i].status = "idle"
      BY <2>4 DEF CanClaim, IdleOf
    <3> QED
      BY <1>a, <1>b, <1>c, <1>d, <2>1, <2>4, <3>1, Claims
  <2> QED
    BY <1>1, <2>2, <2>3, <2>4 DEF WorkerNext
<1>2. CASE WorkerSearched(w)
  <2>1. th[w].pc \in WorkPCs /\ th[w].pc # "off"
    BY <1>2 DEF WorkerSearched, WorkPCs
  <2>2. \/ SetStatus(w, "downloading") /\ Keep(w, "download")
        \/ SetStatus(w, "failed") /\ Goto(w, "next")
        \/ Goto(w, "off") /\ UNCHANGED items
    BY <1>2 DEF WorkerSearched
  <2>3. CASE SetStatus(w, "downloading") /\ Keep(w, "download")
    BY <1>a, <1>b, <1>c, <1>d, <2>1, <2>3, Stays
  <2>4. CASE SetStatus(w, "failed") /\ Goto(w, "next")
    BY <1>a, <1>b, <1>c, <1>d, <2>1, <2>4, Leaves
  <2>5. CASE Goto(w, "off") /\ UNCHANGED items
    BY <1>a, <1>b, <1>c, <1>d, <2>1, <2>5, Leaves
  <2> QED
    BY <2>2, <2>3, <2>4, <2>5
<1>3. CASE WorkerDownloaded(w)
  <2>1. th[w].pc \in WorkPCs /\ th[w].pc # "off"
    BY <1>3 DEF WorkerDownloaded, WorkPCs
  <2>2. \/ \E s \in {"done", "failed"} : SetStatus(w, s) /\ Goto(w, "next")
        \/ Goto(w, "off") /\ UNCHANGED items
    BY <1>3 DEF WorkerDownloaded
  <2>3. CASE \E s \in {"done", "failed"} : SetStatus(w, s) /\ Goto(w, "next")
    BY <1>a, <1>b, <1>c, <1>d, <2>1, <2>3, Leaves
  <2>4. CASE Goto(w, "off") /\ UNCHANGED items
    BY <1>a, <1>b, <1>c, <1>d, <2>1, <2>4, Leaves
  <2> QED
    BY <2>2, <2>3, <2>4
<1> QED
  BY <1>1, <1>2, <1>3 DEF WorkerStep

\* The manager's steps that go to one place and set one status at most.
LEMMA ManagerInv ==
    ASSUME QueueInv,
           \/ ManagerLoop \/ ManagerFirst \/ ManagerSearched \/ ManagerDownloaded
           \/ ManagerJoin \/ ManagerJoinCheat
    PROVE  QueueInv'
<1> DEFINE m == "manager"
<1>a. m \in Threads /\ m \notin Workers
  BY ThreadsAre
<1>b. UNCHANGED <<uiVars, started>> /\ cache \subseteq cache' /\ th[m].pc # "off"
  BY DEF ManagerLoop, ManagerFirst, ManagerSearched, ManagerDownloaded, ManagerJoin,
         ManagerJoinCheat, flags, repoVars
<1>c. /\ {"exit", "classify", "spawn", "batch", "loop"} \subseteq PCs \ WorkPCs
      /\ {"search", "download"} \subseteq WorkPCs \ {"match"}
      /\ {"downloading", "searching"} \subseteq Active /\ {"done", "failed"} \subseteq Terminal
  BY DEF PCs, WorkPCs, Active, Terminal
<1>d. /\ th[m].pc # "join" => \A w \in Workers : th[w].pc = "off"
      /\ th[m].pc \in {"off", "loop", "classify", "exit"} => th["cheat"].pc = "off"
  BY DEF QueueInv, Control
<1>1. CASE ManagerLoop
  <2>1. PICK pc \in {"exit", "classify"} : Goto(m, pc)
    BY <1>1 DEF ManagerLoop
  <2>2. Allowed(m, pc) /\ UNCHANGED items
    BY <1>1, <1>a, <1>d DEF ManagerLoop, Allowed, ManagerPCs
  <2> QED
    BY <1>a, <1>b, <1>c, <2>1, <2>2, Leaves
<1>2. CASE ManagerFirst
  <2>1. Allowed(m, "search") /\ Allowed(m, "spawn")
    BY <1>2, <1>a, <1>d DEF ManagerFirst, Allowed, ManagerPCs
  <2>2. CASE Goto(m, "spawn") /\ UNCHANGED items
    BY <1>a, <1>b, <1>c, <2>1, <2>2, Leaves
  <2>3. ASSUME NEW i, CanClaim(i, batch.kind), claim_item(m, i, "searching", "search")
        PROVE  QueueInv'
    <3>1. i \in Indices /\ items[i].status = "idle"
      BY <2>3 DEF CanClaim, IdleOf
    <3> QED
      BY <1>a, <1>b, <1>c, <2>1, <2>3, <3>1, Claims
  <2> QED
    BY <1>2, <2>2, <2>3 DEF ManagerFirst
<1>3. CASE ManagerSearched \/ ManagerDownloaded
  <2>1. Allowed(m, "download") /\ Allowed(m, "spawn") /\ th[m].pc \in WorkPCs
    BY <1>3, <1>a, <1>d DEF ManagerSearched, ManagerDownloaded, Allowed, ManagerPCs, WorkPCs
  <2>2. \/ SetStatus(m, "downloading") /\ Keep(m, "download")
        \/ Goto(m, "spawn") /\ (UNCHANGED items \/ \E s \in {"done", "failed"} : SetStatus(m, s))
    BY <1>3 DEF ManagerSearched, ManagerDownloaded
  <2>3. CASE SetStatus(m, "downloading") /\ Keep(m, "download")
    BY <1>a, <1>b, <1>c, <2>1, <2>3, Stays
  <2>4. CASE Goto(m, "spawn") /\ (UNCHANGED items \/ \E s \in {"done", "failed"} : SetStatus(m, s))
    BY <1>a, <1>b, <1>c, <2>1, <2>4, Leaves
  <2> QED
    BY <2>2, <2>3, <2>4
<1>4. CASE ManagerJoin
  <2>1. Allowed(m, "batch") /\ Goto(m, "batch") /\ UNCHANGED items
    BY <1>4, <1>a DEF ManagerJoin, Allowed, ManagerPCs
  <2> QED
    BY <1>a, <1>b, <1>c, <2>1, Leaves
<1>5. CASE ManagerJoinCheat
  <2>1. Allowed(m, "loop") /\ Goto(m, "loop") /\ UNCHANGED items
    BY <1>5, <1>a, <1>d DEF ManagerJoinCheat, Allowed, ManagerPCs
  <2> QED
    BY <1>a, <1>b, <1>c, <2>1, Leaves
<1> QED
  BY <1>1, <1>2, <1>3, <1>4, <1>5

----------------------------------------------------------------------------
(* Steps of several threads, and of the array as a whole.                  *)

\* Every thread still at work has the item it had.
LEMMA Settles ==
    ASSUME QueueInv, ItemsOK', Control', Handed', TargetKept',
           \A t \in Threads : th'[t].pc \in WorkPCs =>
               /\ th'[t] = th[t] /\ th[t].i \in Indices' /\ items'[th[t].i] = items[th[t].i],
           th'["cheat"].pc = "match" => cache \subseteq cache'
    PROVE  QueueInv'
<1>1. WorkersOwnItems'
  BY DEF QueueInv, ClaimsHold, WorkersOwnItems, Holding
<1>2. ListNotFreed'
  BY ThreadsAre DEF QueueInv, ClaimsHold, ListNotFreed, CheatDir, WorkPCs
<1> QED
  BY <1>1, <1>2 DEF QueueInv, ClaimsHold

\* The statuses of a queue change, and finished items stay finished.
LEMMA Relabelled ==
    ASSUME ItemsOK, TargetKept, UNCHANGED <<nextId, mapping>>,
           DOMAIN items' = DOMAIN items, items' = [i \in DOMAIN items |-> items'[i]],
           \A i \in DOMAIN items :
               \/ items'[i] = items[i]
               \/ /\ items[i].status \notin Terminal
                  /\ \E s \in Terminal \cup {"idle"} : items'[i] = [items[i] EXCEPT !.status = s]
    PROVE  ItemsOK' /\ TargetKept'
<1>1. Len(items) \in Nat /\ DOMAIN items = 1 .. Len(items)
  BY ItemsAre DEF ItemsOK
<1>2. \A i \in DOMAIN items : items[i] \in Item
  BY ItemsAre DEF ItemsOK
<1>3. \A i \in DOMAIN items :
        /\ items'[i] \in Item /\ items'[i].id = items[i].id /\ items'[i].kind = items[i].kind
        /\ items'[i].dir = items[i].dir
        /\ items'[i].status \notin Terminal => items[i].status \notin Terminal
  BY <1>2 DEF Item
<1>4. items' \in Seq(Item)
  BY <1>1, <1>3
<1>5. ItemsOK'
  BY <1>3, <1>4 DEF ItemsOK, Indices
<1>6. TargetKept'
  BY <1>3 DEF TargetKept, NonTerminal, Indices, is_terminal_status
<1> QED
  BY <1>5, <1>6

LEMMA EmptyIs ==
    ASSUME items' = <<>>, UNCHANGED <<nextId, mapping>>, ItemsOK PROVE ItemsOK' /\ TargetKept'
BY DEF ItemsOK, TargetKept, NonTerminal, Indices

LEMMA ManagerClassifyInv == ASSUME QueueInv, ManagerClassify PROVE QueueInv'
<1>1. th["manager"].pc = "classify" /\ UNCHANGED <<items, nextId, mapping, ui, snap, started, cache>>
  BY DEF ManagerClassify, uiVars, repoVars, flags
<1>2. /\ th["cheat"].pc = "off" /\ \A w \in Workers : th[w].pc = "off"
      /\ th \in [Threads -> ThreadSet]
  BY <1>1 DEF QueueInv, Control
<1>3. \/ th' = [th EXCEPT !["manager"].pc = "batch", !["cheat"].pc = "find"]
      \/ th' = [th EXCEPT !["manager"].pc = "batch"]
  BY DEF ManagerClassify, Keep
<1>4. /\ th' \in [Threads -> ThreadSet] /\ th'["manager"].pc = "batch"
      /\ th'["cheat"].pc \in {"find", "off"} /\ \A w \in Workers : th'[w].pc = "off"
  BY <1>2, <1>3, ThreadsAre DEF ThreadSet, PCs
<1>5. Control'
  BY <1>1, <1>4 DEF QueueInv, Control, ManagerPCs, CheatPCs, WorkerPCs
<1>6. ItemsOK' /\ Handed' /\ TargetKept'
  BY <1>1 DEF QueueInv, ClaimsHold, ItemsOK, Handed, TargetKept, Indices, NonTerminal
<1>7. \A t \in Threads : th'[t].pc \notin WorkPCs
  BY <1>4 DEF Threads, WorkPCs
<1> QED
  BY <1>1, <1>5, <1>6, <1>7, Settles

LEMMA ManagerSpawnInv == ASSUME QueueInv, ManagerSpawn PROVE QueueInv'
<1>1. th["manager"].pc = "spawn" /\ UNCHANGED <<items, nextId, mapping, ui, snap, started, cache>>
  BY DEF ManagerSpawn, uiVars, repoVars, flags
<1>2. PICK W \in SUBSET Workers :
        th' = [t \in Threads |-> CASE t = "manager" -> [Off EXCEPT !.pc = "join"]
                                   [] t \in W       -> [Off EXCEPT !.pc = "next"]
                                   [] OTHER         -> th[t]]
  BY DEF ManagerSpawn
<1>3. /\ \A w \in Workers : th[w].pc = "off"
      /\ th["cheat"].pc \in CheatPCs /\ th \in [Threads -> ThreadSet]
  BY <1>1 DEF QueueInv, Control
<1>4. /\ [Off EXCEPT !.pc = "join"] \in ThreadSet /\ [Off EXCEPT !.pc = "next"] \in ThreadSet
      /\ [Off EXCEPT !.pc = "join"].pc = "join" /\ [Off EXCEPT !.pc = "next"].pc = "next"
  BY DEF Off, ThreadSet, PCs
<1>5. /\ th'["manager"] = [Off EXCEPT !.pc = "join"] /\ th'["cheat"] = th["cheat"]
      /\ \A w \in Workers : th'[w] = [Off EXCEPT !.pc = "next"] \/ th'[w] = th[w]
  BY <1>2, ThreadsAre
<1>6. /\ th'["manager"].pc = "join" /\ \A w \in Workers : th'[w].pc \in {"next", "off"}
  BY <1>3, <1>4, <1>5
<1>7. th' \in [Threads -> ThreadSet]
  <2>1. th' = [t \in Threads |-> th'[t]]
    BY <1>2
  <2>2. \A t \in Threads : th'[t] \in ThreadSet
    BY <1>3, <1>4, <1>5 DEF Threads
  <2> QED
    BY <2>1, <2>2
<1>8. Control'
  BY <1>1, <1>3, <1>5, <1>6, <1>7 DEF QueueInv, Control, ManagerPCs, WorkerPCs
<1>9. ItemsOK' /\ Handed' /\ TargetKept'
  BY <1>1 DEF QueueInv, ClaimsHold, ItemsOK, Handed, TargetKept, Indices, NonTerminal
<1>10. \A t \in Threads : th'[t].pc \in WorkPCs => t = "cheat"
  BY <1>6 DEF Threads, WorkPCs
<1>11. th["cheat"].pc \in WorkPCs => th["cheat"].i \in Indices
  BY ThreadsAre DEF QueueInv, ClaimsHold, WorkersOwnItems, Holding
<1>12. \A t \in Threads : th'[t].pc \in WorkPCs =>
         /\ th'[t] = th[t] /\ th[t].i \in Indices' /\ items'[th[t].i] = items[th[t].i]
  BY <1>1, <1>5, <1>10, <1>11 DEF Indices
<1> QED
  BY <1>1, <1>8, <1>9, <1>12, Settles

LEMMA ManagerBatchInv == ASSUME QueueInv, ManagerBatch PROVE QueueInv'
<1> DEFINE m == "manager"
<1>a. /\ m \in Threads /\ m \notin Workers /\ th[m].pc = "batch" /\ th[m].pc # "off"
      /\ UNCHANGED <<uiVars, started>> /\ cache \subseteq cache'
  BY ThreadsAre DEF ManagerBatch, flags, repoVars
<1>b. \A pc \in {"joincheat", "first"} : pc \in PCs \ WorkPCs /\ Allowed(m, pc)
  BY <1>a DEF QueueInv, Control, Allowed, ManagerPCs, PCs, WorkPCs
<1>1. CASE \E pc \in {"joincheat", "first"} : Goto(m, pc) /\ UNCHANGED items
  BY <1>1, <1>a, <1>b, Leaves
<1>2. CASE UNCHANGED <<items, th>>
  BY <1>2, <1>a, Idles
<1>3. ASSUME NEW k, UNCHANGED th,
             items' = [i \in Indices |-> IF i \in IdleOf(k)
                         THEN [items[i] EXCEPT !.status = "failed"] ELSE items[i]]
      PROVE  QueueInv'
  <2>1. UNCHANGED <<nextId, mapping, ui, snap, started>>
    BY <1>a DEF uiVars
  <2>2. /\ DOMAIN items' = DOMAIN items /\ items' = [i \in DOMAIN items |-> items'[i]]
        /\ \A i \in DOMAIN items :
             \/ i \notin IdleOf(k) /\ items'[i] = items[i]
             \/ i \in IdleOf(k) /\ items'[i] = [items[i] EXCEPT !.status = "failed"]
    BY <1>3 DEF Indices
  <2>3. \A i \in IdleOf(k) : items[i].status \notin Active \cup Terminal
    BY DEF IdleOf, Active, Terminal
  <2>4. "failed" \in Terminal
    BY DEF Terminal
  <2>5. ItemsOK /\ TargetKept
    BY DEF QueueInv, ClaimsHold
  <2>6. ItemsOK' /\ TargetKept'
    BY <2>1, <2>2, <2>3, <2>4, <2>5, Relabelled
  <2>7. Control' /\ Handed'
    <3>1. started # FALSE
      BY <1>a DEF QueueInv, Control
    <3> QED
      BY <1>3, <2>1, <3>1 DEF QueueInv, Control, Handed
  <2>8. \A t \in Threads : th[t].pc \in WorkPCs =>
           th[t].i \in Indices' /\ items'[th[t].i] = items[th[t].i]
    BY <2>2, <2>3, HolderIs DEF Indices
  <2> QED
    BY <1>3, <1>a, <2>6, <2>7, <2>8, Settles
<1>4. \/ \E pc \in {"joincheat", "first"} : Goto(m, pc) /\ UNCHANGED items
      \/ UNCHANGED <<items, th>>
      \/ \E k : /\ UNCHANGED th
                /\ items' = [i \in Indices |-> IF i \in IdleOf(k)
                              THEN [items[i] EXCEPT !.status = "failed"] ELSE items[i]]
  BY DEF ManagerBatch
<1> QED
  BY <1>1, <1>2, <1>3, <1>4

LEMMA ManagerStepInv == ASSUME QueueInv, ManagerStep PROVE QueueInv'
BY ManagerInv, ManagerClassifyInv, ManagerBatchInv, ManagerSpawnInv
   DEF ManagerStep, process_artwork_batch, process_manual_batch, ServeBatch

----------------------------------------------------------------------------
(* The cheat thread.                                                       *)

\* The least of a set of numbers is one of them.
LEMMA LeastIs == ASSUME NEW S \in SUBSET Nat, S # {} PROVE Min(S) \in S
<1> DEFINE Less == {ss \in Nat \X Nat : ss[1] < ss[2]}
<1>1. IsWellFoundedOn(Less, Nat)
  BY NatLessThanWellFounded DEF OpToRel
<1>2. \A x, y \in S : ~(<<y, x>> \in Less) => x <= y
  OBVIOUS
<1> HIDE DEF Less
<1>3. PICK m \in S : \A y \in S : ~(<<y, m>> \in Less)
  BY <1>1, WFMin
<1>4. \E x \in S : \A y \in S : x <= y
  BY <1>2, <1>3
<1> QED
  BY <1>4 DEF Min

LEMMA CheatGoes ==
    /\ "cheat" \in Threads
    /\ \A pc \in CheatPCs : Allowed("cheat", pc) /\ pc \in PCs
    /\ {"off", "find"} \subseteq PCs \ WorkPCs
    /\ {"repo", "clone", "update", "checkout"} \subseteq WorkPCs \ {"match"} /\ "match" \in WorkPCs
    /\ WorkPCs \cap CheatPCs = {"repo", "clone", "update", "checkout", "match"}
    /\ {"matching", "cloning"} \subseteq Active /\ Terminal = {"done", "failed", "skipped"}
    /\ CheatPCs = {"off", "find", "repo", "clone", "update", "checkout", "match"}
BY ThreadsAre DEF Allowed, CheatPCs, PCs, WorkPCs, Active, Terminal

LEMMA CheatGivesUpInv ==
    ASSUME QueueInv, th["cheat"].pc \in WorkPCs, CheatGivesUp,
           UNCHANGED <<uiVars, started>>, cache \subseteq cache'
    PROVE  QueueInv'
<1>1. Goto("cheat", "find") /\ (UNCHANGED items \/ SetStatus("cheat", "failed"))
  BY DEF CheatGivesUp
<1>2. th["cheat"].pc # "off"
  BY DEF WorkPCs
<1> QED
  BY <1>1, <1>2, CheatGoes, Leaves

LEMMA CheatInv == ASSUME QueueInv, CheatStep PROVE QueueInv'
<1> DEFINE c == "cheat"
<1>a. UNCHANGED <<uiVars, started>> /\ cache \subseteq cache' /\ th[c].pc # "off"
  BY DEF CheatStep, CheatFind, CheatRepo, CheatClone, CheatUpdate, CheatCheckout, CheatMatch,
         flags, repoVars
<1>b. CheatGivesUp /\ th[c].pc \in WorkPCs => QueueInv'
  BY <1>a, CheatGivesUpInv
<1>1. CASE CheatFind
  <2>1. CASE Goto(c, "off") /\ UNCHANGED items
    BY <1>a, <2>1, CheatGoes, Leaves
  <2>2. CASE /\ IdleOf(c) # {}
             /\ \E s \in {"matching", "cloning"} : claim_item(c, Min(IdleOf(c)), s, "repo")
    <3>1. IdleOf(c) \subseteq Nat
      BY ItemsAre DEF QueueInv, ItemsOK, IdleOf, Indices
    <3>2. Min(IdleOf(c)) \in IdleOf(c)
      BY <2>2, <3>1, LeastIs
    <3> DEFINE i == Min(IdleOf(c))
    <3>3. i \in Indices /\ items[i].status = "idle"
      BY <3>2 DEF IdleOf
    <3>4. PICK s \in {"matching", "cloning"} : claim_item(c, i, s, "repo")
      BY <2>2
    <3> HIDE DEF i
    <3>5. s \in Active /\ Allowed(c, "repo") /\ "repo" \in WorkPCs \ {"match"} /\ c \in Threads
      BY CheatGoes
    <3> QED
      BY <1>a, <3>3, <3>4, <3>5, Claims
  <2> QED
    BY <1>1, <2>1, <2>2 DEF CheatFind
<1>2. CASE CheatMatch
  <2>1. /\ th[c].pc \in WorkPCs /\ Goto(c, "find")
        /\ SetStatus(c, "failed") \/ SetStatus(c, "done")
    BY <1>2, CheatGoes DEF CheatMatch
  <2> QED
    BY <1>a, <2>1, CheatGoes, Leaves
<1>3. CASE CheatClone \/ CheatUpdate
  <2>1. th[c].pc \in WorkPCs
    BY <1>3, CheatGoes DEF CheatClone, CheatUpdate
  <2>2. CheatGivesUp \/ (Keep(c, "checkout") /\ UNCHANGED items)
    BY <1>3 DEF CheatClone, CheatUpdate
  <2>3. CASE Keep(c, "checkout") /\ UNCHANGED items
    BY <1>a, <2>1, <2>3, CheatGoes, Stays
  <2> QED
    BY <1>b, <2>1, <2>2, <2>3
<1>4. CASE CheatCheckout
  <2>1. th[c].pc \in WorkPCs
    BY <1>4, CheatGoes DEF CheatCheckout
  <2>2. CASE Keep(c, "match") /\ UNCHANGED items /\ CheatDir \in cache'
    BY <1>a, <2>1, <2>2, CheatGoes, Stays DEF CheatDir
  <2> QED
    BY <1>4, <1>b, <2>1, <2>2 DEF CheatCheckout
<1>5. CASE CheatRepo
  <2>1. th[c].pc \in WorkPCs
    BY <1>5, CheatGoes DEF CheatRepo
  <2>2. \/ SetStatus(c, "skipped") /\ Goto(c, "find")
        \/ CheatGivesUp
        \/ /\ UNCHANGED items
           /\ \/ Keep(c, "match") /\ items[th[c].i].dir \in cache
              \/ \E pc \in {"checkout", "update", "clone"} : Keep(c, pc)
    <3> DEFINE it == items[th[c].i]
    <3>1. CASE ~it.force /\ it.rom \in have
      BY <1>5, <3>1 DEF CheatRepo
    <3>2. CASE ~(~it.force /\ it.rom \in have) /\ it.dir \in cache /\ interrupt
      BY <1>5, <3>2 DEF CheatRepo
    <3>3. CASE ~(~it.force /\ it.rom \in have) /\ ~(it.dir \in cache /\ interrupt)
      BY <1>5, <3>3 DEF CheatRepo
    <3> QED
      BY <3>1, <3>2, <3>3
  <2>3. CASE SetStatus(c, "skipped") /\ Goto(c, "find")
    BY <1>a, <2>1, <2>3, CheatGoes, Leaves
  <2>4. CASE UNCHANGED items /\ Keep(c, "match") /\ items[th[c].i].dir \in cache
    BY <1>a, <2>1, <2>4, CheatGoes, Stays
  <2>5. CASE UNCHANGED items /\ \E pc \in {"checkout", "update", "clone"} : Keep(c, pc)
    BY <1>a, <2>1, <2>5, CheatGoes, Stays
  <2> QED
    BY <1>b, <2>1, <2>2, <2>3, <2>4, <2>5
<1> QED
  BY <1>1, <1>2, <1>3, <1>4, <1>5 DEF CheatStep

----------------------------------------------------------------------------
(* The UI thread.                                                          *)

\* After pthread_join nobody is left.
LEMMA JoinedRests ==
    ASSUME QueueInv, Joined, started' = FALSE, th' = [th EXCEPT !["manager"] = Off]
    PROVE  Control' /\ \A t \in Threads : th'[t].pc = "off" /\ th[t].pc \notin WorkPCs
<1>1. Control /\ th["manager"].pc \in {"off", "exit"}
  BY DEF QueueInv, Control, Joined
<1>2. \A t \in Threads \ {"manager"} : th[t].pc = "off"
  BY <1>1, NobodyHolds
<1>3. Off \in ThreadSet /\ Off.pc = "off"
  BY DEF Off, ThreadSet, PCs
<1>4. th' \in [Threads -> ThreadSet] /\ \A t \in Threads : th'[t].pc = "off"
  BY <1>1, <1>2, <1>3 DEF Control
<1>5. Control'
  BY <1>4, ThreadsAre DEF Control, ManagerPCs, CheatPCs, WorkerPCs
<1>6. \A t \in Threads : th[t].pc \notin WorkPCs
  BY <1>1, <1>2 DEF WorkPCs
<1> QED
  BY <1>4, <1>5, <1>6

\* A manager is created where there was none.
LEMMA ManagerStarts ==
    ASSUME QueueInv, ensure_manager_started
    PROVE  Control' /\ \A t \in Threads : th'[t].pc \in WorkPCs => th'[t] = th[t]
<1>1. CASE UNCHANGED <<started, th>>
  BY <1>1 DEF QueueInv, Control
<1>2. CASE started' = FALSE /\ UNCHANGED th /\ started = FALSE
  BY <1>2 DEF QueueInv, Control
<1>3. CASE started' = TRUE /\ Goto("manager", "loop") /\ started = FALSE
  <2>1. Control /\ th["manager"].pc = "off"
    BY <1>3 DEF QueueInv, Control
  <2>2. \A t \in Threads \ {"manager"} : th[t].pc = "off"
    BY <2>1, NobodyHolds
  <2> DEFINE d == [Off EXCEPT !.pc = "loop"]
  <2>3. d \in ThreadSet /\ d.pc = "loop" /\ th' = [th EXCEPT !["manager"] = d]
    BY <1>3 DEF Goto, Off, ThreadSet, PCs
  <2> HIDE DEF d
  <2>4. /\ th' \in [Threads -> ThreadSet] /\ th'["manager"].pc = "loop"
        /\ \A t \in Threads \ {"manager"} : th'[t] = th[t] /\ th'[t].pc = "off"
    BY <2>1, <2>2, <2>3, ThreadsAre DEF Control
  <2>5. Control'
    BY <1>3, <2>4, ThreadsAre DEF Control, ManagerPCs, CheatPCs, WorkerPCs
  <2> QED
    BY <2>4, <2>5 DEF WorkPCs
<1>4. started = TRUE \/ started = FALSE
  BY DEF QueueInv, Control
<1>5. CASE started = TRUE
  BY <1>1, <1>5 DEF ensure_manager_started, flags
<1>6. CASE started = FALSE
  BY <1>2, <1>3, <1>6 DEF ensure_manager_started
<1> QED
  BY <1>4, <1>5, <1>6

\* A new item has a number of its own and the folder's present directory.
LEMMA AddInv ==
    ASSUME QueueInv, NEW k \in Kinds, NEW r \in Roms, NEW f \in BOOLEAN, QueueAdd(k, r, f)
    PROVE  QueueInv'
<1> DEFINE it == [id |-> nextId, kind |-> k, rom |-> r, force |-> f /\ k = "cheat",
                  dir |-> IF k = "cheat" THEN mapping ELSE "none", status |-> "idle"]
           n == Len(items)
<1>1. /\ ui = "idle" /\ nextId <= MaxAdds /\ items' = Append(items, it)
      /\ nextId' = nextId + 1 /\ UNCHANGED <<mapping, ui, snap, cache>>
      /\ ensure_manager_started
  BY DEF QueueAdd, repoVars
<1>2. (f /\ k = "cheat") \in BOOLEAN
  OBVIOUS
<1>3. it \in Item /\ it.id = nextId /\ it.status = "idle" /\ (it.kind = "cheat" => it.dir = mapping)
  BY <1>1, <1>2, QueueAssumption DEF QueueInv, ItemsOK, Item
<1> HIDE DEF it
<1>4. /\ items \in Seq(Item) /\ n \in Nat /\ DOMAIN items = 1 .. n
      /\ items' \in Seq(Item) /\ DOMAIN items' = 1 .. n + 1 /\ items'[n + 1] = it
      /\ \A i \in 1 .. n : items'[i] = items[i]
  BY <1>1, <1>3 DEF QueueInv, ItemsOK
<1> HIDE DEF n
<1>5. \A i \in 1 .. n : items[i].id < nextId /\ items[i].id \in Nat
  <2>1. \A i \in 1 .. n : items[i] \in Item
    BY <1>4, ItemsAre
  <2>2. \A i \in 1 .. n : items[i].id \in 1 .. MaxAdds
    BY <2>1 DEF Item
  <2> QED
    BY <1>4, <2>2 DEF QueueInv, ItemsOK, Indices
<1>6. ItemsOK'
  <2>1. \A i \in Indices' : items'[i].id < nextId'
    BY <1>1, <1>3, <1>4, <1>5 DEF QueueInv, ItemsOK, Indices
  <2>2. ASSUME NEW i \in Indices', NEW j \in Indices', items'[i].id = items'[j].id PROVE i = j
    <3>1. i \in 1 .. n + 1 /\ j \in 1 .. n + 1
      BY <1>4 DEF Indices
    <3>2. nextId \in Nat
      BY DEF QueueInv, ItemsOK
    <3>3. CASE i \in 1 .. n /\ j \in 1 .. n
      BY <1>4, <2>2, <3>3 DEF QueueInv, ItemsOK, Indices
    <3>4. CASE i = n + 1 /\ j \in 1 .. n
      BY <1>3, <1>4, <1>5, <2>2, <3>2, <3>4
    <3>5. CASE i \in 1 .. n /\ j = n + 1
      BY <1>3, <1>4, <1>5, <2>2, <3>2, <3>5
    <3> QED
      BY <1>4, <3>1, <3>3, <3>4, <3>5
  <2>3. nextId' \in Nat \ {0} /\ mapping' \in Dirs
    BY <1>1 DEF QueueInv, ItemsOK
  <2> QED
    BY <1>4, <2>1, <2>2, <2>3 DEF ItemsOK
<1>7. TargetKept'
  <2>1. ASSUME NEW i \in NonTerminal', items'[i].kind = "cheat" PROVE items'[i].dir = mapping
    <3>1. i \in 1 .. n + 1 /\ items'[i].status \notin Terminal
      BY <1>4 DEF NonTerminal, Indices, is_terminal_status
    <3>2. CASE i = n + 1
      BY <1>3, <1>4, <2>1, <3>2
    <3>3. CASE i \in 1 .. n
      BY <1>4, <2>1, <3>1, <3>3
         DEF QueueInv, ClaimsHold, TargetKept, NonTerminal, Indices, is_terminal_status
    <3> QED
      BY <1>4, <3>1, <3>2, <3>3
  <2> QED
    BY <1>1, <2>1 DEF TargetKept
<1>8. /\ Control'
      /\ \A t \in Threads : th'[t].pc \in WorkPCs => th'[t] = th[t]
  BY <1>1, ManagerStarts
<1>9. Handed'
  BY <1>1 DEF Handed
<1>10. \A t \in Threads : th[t].pc \in WorkPCs => th[t].i \in 1 .. n
  BY <1>4, HolderIs DEF Indices
<1>11. \A t \in Threads : th'[t].pc \in WorkPCs =>
         /\ th'[t] = th[t] /\ th[t].i \in Indices' /\ items'[th[t].i] = items[th[t].i]
  BY <1>4, <1>8, <1>10 DEF Indices
<1> QED
  BY <1>1, <1>6, <1>7, <1>8, <1>9, <1>11, Settles

\* The UI thread goes on, and the cheat lists are dropped only when every item
\* is finished.
LEMMA UiGoes ==
    ASSUME QueueInv, UNCHANGED <<items, th, nextId, mapping, started>>, ui' # "handed",
           cache \subseteq cache' \/ NonTerminal = {}
    PROVE  QueueInv'
<1>1. ItemsOK' /\ Control' /\ Handed' /\ TargetKept'
  BY DEF QueueInv, ClaimsHold, ItemsOK, Control, Handed, TargetKept, Indices, NonTerminal
<1>2. \A t \in Threads : th'[t].pc \in WorkPCs =>
        /\ th'[t] = th[t] /\ th[t].i \in Indices' /\ items'[th[t].i] = items[th[t].i]
  BY HolderIs DEF Indices
<1>3. th'["cheat"].pc = "match" => cache \subseteq cache'
  BY NothingHeld, ThreadsAre DEF WorkPCs
<1> QED
  BY <1>1, <1>2, <1>3, Settles

LEMMA ClearDoneInv == ASSUME QueueInv, QueueClearDone PROVE QueueInv'
<1>1. /\ items' = <<>> /\ NonTerminal = {} /\ ui' = "idle"
      /\ UNCHANGED <<th, nextId, mapping, started, cache>>
  BY DEF QueueClearDone, uiVars, flags, repoVars
<1>2. ItemsOK' /\ TargetKept'
  BY <1>1, EmptyIs DEF QueueInv
<1>3. Control' /\ Handed'
  BY <1>1 DEF QueueInv, Control, Handed
<1>4. \A t \in Threads : th'[t].pc \notin WorkPCs
  BY <1>1, NothingHeld
<1> QED
  BY <1>1, <1>2, <1>3, <1>4, Settles

\* Unfinished items go back to idle.
LEMMA ResetQueueIs ==
    ASSUME ItemsOK, TargetKept, items' = ResetToIdle(items), UNCHANGED <<nextId, mapping>>
    PROVE  ItemsOK' /\ TargetKept'
<1>1. /\ DOMAIN items' = DOMAIN items /\ items' = [i \in DOMAIN items |-> items'[i]]
      /\ \A i \in DOMAIN items :
           \/ items'[i] = items[i]
           \/ items[i].status \notin Terminal /\ items'[i] = [items[i] EXCEPT !.status = "idle"]
  BY DEF ResetToIdle, is_terminal_status
<1> QED
  BY <1>1, Relabelled

LEMMA StopInv == ASSUME QueueInv, StopEnds PROVE QueueInv'
<1>1. Joined /\ started' = FALSE /\ th' = [th EXCEPT !["manager"] = Off] /\ nextId' = nextId
  BY DEF StopEnds, QueueCancelAll, QueueHandoffSnapshot, QueueMappingEdit, QueueShutdown, Stopped
<1>2. Control' /\ \A t \in Threads : th'[t].pc = "off"
  BY <1>1, JoinedRests
<1>3. \A t \in Threads : th'[t].pc \notin WorkPCs
  BY <1>2 DEF WorkPCs
<1>4. ItemsOK /\ TargetKept
  BY DEF QueueInv, ClaimsHold
<1>5. ASSUME ItemsOK', TargetKept', Handed' PROVE QueueInv'
  <2>1. th'["cheat"].pc # "match"
    BY <1>2, ThreadsAre
  <2> QED
    BY <1>2, <1>3, <1>5, <2>1, Settles
<1>6. CASE QueueCancelAll
  <2>1. /\ DOMAIN items' = DOMAIN items /\ items' = [i \in DOMAIN items |-> items'[i]]
        /\ \A i \in DOMAIN items :
             \/ items'[i] = items[i]
             \/ /\ items[i].status \notin Terminal
                /\ items'[i] = [items[i] EXCEPT !.status = "skipped"]
    BY <1>6 DEF QueueCancelAll, NonTerminal, Indices, is_terminal_status
  <2>2. "skipped" \in Terminal /\ mapping' = mapping /\ ui' = "idle"
    BY <1>6 DEF QueueCancelAll, Terminal
  <2>3. ItemsOK' /\ TargetKept'
    BY <1>1, <1>4, <2>1, <2>2, Relabelled
  <2> QED
    BY <1>5, <2>2, <2>3 DEF Handed
<1>7. CASE QueueHandoffSnapshot
  <2>1. items' = ResetToIdle(items) /\ mapping' = mapping /\ snap' = items'
    BY <1>7 DEF QueueHandoffSnapshot
  <2>2. ItemsOK' /\ TargetKept'
    BY <1>1, <1>4, <2>1, ResetQueueIs
  <2> QED
    BY <1>1, <1>5, <2>1, <2>2 DEF Handed
<1>8. CASE QueueMappingEdit
  <2>1. /\ items' = items /\ ui' = "idle" /\ mapping' \in Dirs
        /\ mapping' = mapping \/ NonTerminal = {}
    BY <1>8, <1>4 DEF QueueMappingEdit, ItemsOK
  <2>2. ItemsOK' /\ TargetKept'
    BY <1>1, <1>4, <2>1 DEF ItemsOK, TargetKept, Indices, NonTerminal
  <2> QED
    BY <1>5, <2>1, <2>2 DEF Handed
<1>9. CASE QueueShutdown
  <2>1. items' = <<>> /\ mapping' = mapping /\ ui' = "gone"
    BY <1>9 DEF QueueShutdown
  <2>2. ItemsOK' /\ TargetKept'
    BY <1>1, <1>4, <2>1, EmptyIs
  <2> QED
    BY <1>5, <2>1, <2>2 DEF Handed
<1> QED
  BY <1>6, <1>7, <1>8, <1>9 DEF StopEnds

\* The snapshot taken back is what the queue still holds.
LEMMA HandedInv == ASSUME QueueInv, HandedOver PROVE QueueInv'
<1>1. ui = "handed" /\ ui' # "handed" /\ UNCHANGED <<nextId, mapping, cache>>
  BY DEF HandedOver, repoVars
<1>2. snap = items /\ started = FALSE
  BY <1>1 DEF QueueInv, Handed
<1>3. \A t \in Threads : th[t].pc \notin WorkPCs
  BY <1>2, NobodyHolds DEF QueueInv, Control
<1>4. CASE UNCHANGED <<items, th, started>>
  BY <1>1, <1>4, UiGoes
<1>5. CASE items' = ResetToIdle(snap) /\ (ensure_manager_started \/ UNCHANGED <<flags, th>>)
  <2>1. ItemsOK' /\ TargetKept'
    <3>1. items' = ResetToIdle(items)
      BY <1>2, <1>5
    <3> QED
      BY <1>1, <3>1, ResetQueueIs DEF QueueInv, ClaimsHold
  <2>2. Control' /\ \A t \in Threads : th'[t].pc \in WorkPCs => th'[t] = th[t]
    <3>1. CASE ensure_manager_started
      BY <3>1, ManagerStarts
    <3>2. CASE UNCHANGED <<flags, th>>
      BY <3>2 DEF QueueInv, Control, flags
    <3> QED
      BY <1>5, <3>1, <3>2
  <2>3. \A t \in Threads : th'[t].pc \notin WorkPCs
    BY <1>3, <2>2
  <2>4. Handed'
    BY <1>1 DEF Handed
  <2> QED
    BY <1>1, <2>1, <2>2, <2>3, <2>4, Settles
<1> QED
  BY <1>4, <1>5 DEF HandedOver, flags

LEMMA UserInv == ASSUME QueueInv, User \/ QueueInvalidate \/ Ended PROVE QueueInv'
<1>1. CASE Ended
  BY <1>1, Idles DEF Ended, vars, flags, repoVars
<1>2. CASE QueueInvalidate
  <2>1. /\ ui' = "idle" /\ UNCHANGED <<items, th, nextId, mapping, started>>
        /\ cache \subseteq cache' \/ NonTerminal = {}
    BY <1>2 DEF QueueInvalidate, flags
  <2> QED
    BY <2>1, UiGoes
<1>3. CASE ClearCheatCache
  <2>1. ui' # "handed" /\ UNCHANGED <<items, th, nextId, mapping, started, cache>>
    BY <1>3 DEF ClearCheatCache, flags
  <2> QED
    BY <2>1, UiGoes
<1>4. ASSUME NEW op \in StopOps, StopBegin(op) PROVE QueueInv'
  <2>1. ui' # "handed" /\ UNCHANGED <<items, th, nextId, mapping, started, cache>>
    BY <1>4 DEF StopBegin, StopOps, repoVars
  <2> QED
    BY <2>1, UiGoes
<1> QED
  BY <1>1, <1>2, <1>3, <1>4, AddInv, ClearDoneInv, HandedInv DEF User

----------------------------------------------------------------------------
(* The theorems.                                                           *)

LEMMA InitInv == ASSUME Init PROVE QueueInv
<1>1. th = [t \in Threads |-> Off] /\ items = <<>> /\ started = FALSE /\ ui = "idle" /\ nextId = 1
  BY DEF Init
<1>2. mapping \in Dirs
  BY DEF Init
<1>3. Off \in ThreadSet /\ Off.pc = "off"
  BY DEF Off, ThreadSet, PCs
<1>4. th \in [Threads -> ThreadSet] /\ \A t \in Threads : th[t].pc = "off"
  BY <1>1, <1>3
<1>5. Control
  BY <1>1, <1>4, ThreadsAre DEF Control, ManagerPCs, CheatPCs, WorkerPCs
<1>6. ItemsOK /\ Handed /\ TargetKept
  BY <1>1, <1>2 DEF ItemsOK, Handed, TargetKept, Indices, NonTerminal
<1>7. WorkersOwnItems /\ ListNotFreed
  BY <1>4, ThreadsAre DEF WorkersOwnItems, ListNotFreed, Holding, WorkPCs
<1> QED
  BY <1>5, <1>6, <1>7 DEF QueueInv, ClaimsHold

LEMMA NextInv == ASSUME QueueInv, [Next]_vars PROVE QueueInv'
<1>1. CASE UNCHANGED vars
  BY <1>1, Idles DEF vars, flags, repoVars
<1>2. CASE Next
  BY <1>2, WorkerInv, ManagerStepInv, CheatInv, StopInv, UserInv
     DEF Next, artwork_worker_fn, manual_worker_fn
<1> QED
  BY <1>1, <1>2

\* The inductive invariant of the queue: every thread that works on an item owns
\* it by a claim that the array, shifted or cleared meanwhile, still carries.
THEOREM QueueInvThm == Spec => []QueueInv
<1>1. Init => QueueInv
  BY InitInv
<1>2. QueueInv /\ [Next]_vars => QueueInv'
  BY NextInv
<1> QED
  BY <1>1, <1>2, PTL DEF Spec

\* The index a thread claimed under g_mutex (claim_item) denotes the claimed
\* item, and no second thread's, until the thread is done with it; the cheat
\* list it reads unlocked is not freed, and a cheat item keeps its directory,
\* whatever the UI thread adds, clears, cancels or hands off meanwhile.
THEOREM ClaimsHoldThm == Spec => []ClaimsHold
<1>1. QueueInv => ClaimsHold
  BY DEF QueueInv
<1> QED
  BY <1>1, QueueInvThm, PTL

\* What queue_handoff_snapshot returned is what the queue holds, and no thread
\* of this process runs, until the daemon has started or has failed to.
THEOREM SnapshotIsFinalThm == Spec => []SnapshotIsFinal
<1>1. QueueInv => SnapshotIsFinal
  <2> SUFFICES ASSUME QueueInv, ui = "handed"
               PROVE  snap = items /\ \A t \in Threads : th[t].pc = "off"
    BY DEF SnapshotIsFinal
  <2>1. Control /\ snap = items /\ th["manager"].pc = "off"
    BY DEF QueueInv, Control, Handed
  <2> QED
    BY <2>1, NobodyHolds
<1> QED
  BY <1>1, QueueInvThm, PTL

----------------------------------------------------------------------------
(* The daemon.  Who owns the queue.                                        *)

\* daemon_launch waits until the daemon has the lock and the queue, and a
\* daemon that it does not wait for dies of its ready byte.
Launching ==
    /\ app = "launch" /\ dmn \in {"boot", "load"} => told = "none"
    /\ app = "launch" /\ told = "fail" => dmn = "none"
    /\ dmn \notin {"none", "boot", "load"} => told = "ok"

\* A daemon with the lock has its number in daemon.pid, until it is gone,
\* unless the file could not be written or was removed beside it.
PidHeld == dmn \notin {"none", "boot"} => pid = "live" \/ unnamed # "no"

\* An application that restores or works has no daemon beside it.
Alone == app \in {"restore", "reclaim", "menu"} => dmn = "none" \/ unnamed = "beside"

OwnerInv == Launching /\ PidHeld /\ Alone /\ unnamed \in {"no", "now", "beside"}

LEMMA AppOwner ==
    ASSUME OwnerInv,
           \/ AppStep \/ AppOpen \/ StatusStop \/ AppQueue \/ AppQuit
           \/ \E i \in Items : AppWork(i)
    PROVE  OwnerInv'
<1>1. CASE Takeover \/ StatusLeave \/ AppOpen
  <2>1. /\ UNCHANGED dmnVars
        /\ \/ UNCHANGED <<pid, unnamed>> /\ app' \in {"takeover", "status", "closed"}
           \/ NotRunning /\ app' \in {"restore", "reclaim"}
    BY <1>1 DEF Takeover, StatusLeave, AppOpen
  <2> QED
    BY <2>1 DEF NotRunning, Unseen, daemon_is_running, daemon_cleanup, dmnVars, OwnerInv, Launching, PidHeld, Alone
<1>3. CASE Restore \/ Reclaim
  <2>1. /\ UNCHANGED <<dmnVars, unnamed>> /\ app' = "menu" /\ app \in {"restore", "reclaim"}
    BY <1>3 DEF Restore, Reclaim
  <2> QED
    BY <2>1 DEF dmnVars, OwnerInv, Launching, PidHeld, Alone
<1>4. CASE Launched
  BY <1>4 DEF Launched, daemon_cleanup_all, daemon_cleanup, dmnVars, history, seen, OwnerInv, Launching, PidHeld, Alone
<1>6. CASE StatusStop
  BY <1>6 DEF StatusStop, appVars, dmnVars, history, seen, OwnerInv, Launching, PidHeld, Alone
<1>7. CASE AppQueue \/ AppQuit
  BY <1>7 DEF AppQueue, AppQuit, dmnVars, seen, OwnerInv, Launching, PidHeld, Alone
<1>8. ASSUME NEW i \in Items, AppWork(i) PROVE OwnerInv'
  BY <1>8 DEF AppWork, dmnVars, seen, OwnerInv, Launching, PidHeld, Alone
<1> QED
  BY <1>1, <1>3, <1>4, <1>6, <1>7, <1>8 DEF AppStep

LEMMA LaunchOwner == ASSUME OwnerInv, AppBackground PROVE OwnerInv'
BY DEF AppBackground, daemon_cleanup_all, daemon_cleanup, seen, OwnerInv, Launching, PidHeld, Alone

LEMMA DaemonOwner == ASSUME OwnerInv, DaemonStep \/ DaemonTerm PROVE OwnerInv'
<1>1. CASE DaemonLock
  BY <1>1 DEF DaemonLock, DaemonFails, appVars, OwnerInv, Launching, PidHeld, Alone
<1>6. CASE DaemonLoad
  BY <1>6 DEF DaemonLoad, DaemonFails, KillDaemon, appVars, seen, OwnerInv, Launching, PidHeld, Alone
<1>2. CASE DaemonPoll \/ DaemonTerm
  BY <1>2 DEF DaemonPoll, DaemonTerm, appVars, history, seen, OwnerInv, Launching, PidHeld, Alone
<1>3. CASE DaemonCommand \/ DaemonSave
  BY <1>3 DEF DaemonCommand, DaemonSave, appVars, history, seen, OwnerInv, Launching, PidHeld, Alone
<1>4. CASE DaemonUnlock \/ DaemonExit
  BY <1>4 DEF DaemonUnlock, DaemonExit, appVars, history, seen, OwnerInv, Launching, PidHeld, Alone
<1>5. ASSUME NEW i \in Items, DaemonWork(i) PROVE OwnerInv'
  BY <1>5 DEF DaemonWork, appVars, history, seen, OwnerInv, Launching, PidHeld, Alone
<1> QED
  BY <1>1, <1>2, <1>3, <1>4, <1>5, <1>6 DEF DaemonStep

LEMMA KillOwner == ASSUME OwnerInv, DaemonKilled \/ AppKilled PROVE OwnerInv'
BY DEF DaemonKilled, AppKilled, KillDaemon, appVars, dmnVars, seen, OwnerInv, Launching, PidHeld, Alone

LEMMA NextOwner == OwnerInv /\ [OwnerNext]_ownerVars => OwnerInv'
<1>1. ASSUME OwnerInv, UNCHANGED ownerVars PROVE OwnerInv'
  BY <1>1 DEF ownerVars, appVars, dmnVars, history, seen, OwnerInv, Launching, PidHeld, Alone
<1> HIDE DEF OwnerInv
<1> QED
  BY <1>1, AppOwner, LaunchOwner, DaemonOwner, KillOwner DEF OwnerNext

\* The queue is worked on by one process: an application past its start never
\* runs beside a daemon, because the pid file goes last, after the lock
\* (daemon_main), and an application that does not see a daemon leave in time
\* gives up (daemon_takeover_worker).  Only a daemon that daemon.pid did not
\* name when the application opened has one beside it.
THEOREM OneOwnerThm == OwnerSpec => []OneOwner
<1>1. OwnerInit => OwnerInv
  BY DEF OwnerInit, OwnerInv, Launching, PidHeld, Alone
<1>2. OwnerInv => OneOwner
  BY DEF OwnerInv, Alone, OneOwner
<1> QED
  BY <1>1, <1>2, NextOwner, PTL DEF OwnerSpec

----------------------------------------------------------------------------
(* What is on the card.                                                    *)

\* A queue can be told from no file and from a file that does not parse, and
\* the card is not full: then fputs fails before the rename, unnoticed.
CardSetting == Items # {} /\ "torn" \notin Items /\ "full" \notin CardFaults

\* What is recorded as finished ended that way.
Recorded(q) == \A i \in Items : q[i] \in Finished => truth[i] = q[i]
\* And what is not is still to be done, and no worker has it.
Exact(q) == Recorded(q) /\ \A i \in Items : q[i] \notin Finished => truth[i] = "todo"
Snapshot(q) == \A i \in Items : IF truth[i] = "todo" THEN q[i] = "idle" ELSE q[i] = truth[i]

QueuesOK ==
    /\ truth \in [Items -> {"todo"} \cup Finished]
    /\ file \in Queue \cup {NoQueue}
    /\ app = "menu" => appq \in Queue \cup {NoQueue}
    /\ misread \in {"none", "kept", "lost"}
    /\ control \in {"none", "stop", "handoff"} /\ cmd \in {"none", "stop", "handoff"}

\* The file is of this batch: an application that works has taken it, or could
\* not read it, and then it has no other queue until new work makes the file old.
FileTaken == app = "menu" /\ Readable => misread # "none"
FileTrue == Readable /\ misread # "lost" => Recorded(file)
\* A daemon without a command leaves because nothing is left.
DaemonTrue == /\ dmn \in {"run", "final"} => dq \in Queue /\ Exact(dq)
              /\ dmn = "final" /\ cmd = "none" => Pending(dq) = {}
              /\ dmn = "save" => dq \in Queue /\ Snapshot(dq)
              /\ dmn \in {"unlock", "exit"} /\ saved => Snapshot(file)
\* An application that may get the queue back from a failed launch still has it.
AppTrue == /\ app \in {"takeover", "status", "restore", "reclaim"} => appq = NoQueue
           /\ app = "menu" /\ appq # NoQueue => Recorded(appq) /\ misread # "kept"
           /\ app = "launch" /\ told # "ok" => appq \in Queue /\ Recorded(appq)
OnCard == /\ bg /\ misread # "lost" => Readable
          /\ app = "launch" => Readable
          /\ app = "launch" /\ told # "ok" => ~bg
          /\ app = "launch" \/ dmn # "none" => misread = "none"

CardInv == OwnerInv /\ QueuesOK /\ FileTaken /\ FileTrue /\ DaemonTrue /\ AppTrue /\ OnCard

\* Queues, and what is done to them as a whole.
LEMMA QueueIs ==
    ASSUME CardSetting, NEW q \in Queue
    PROVE  q # NoQueue /\ q # Torn /\ DOMAIN q = Items
<1>1. DOMAIN q = Items
  BY DEF Queue
<1>2. DOMAIN NoQueue = {} /\ DOMAIN Torn = {"torn"}
  BY DEF NoQueue, Torn
<1> QED
  BY <1>1, <1>2 DEF CardSetting

LEMMA ReadableIs ==
    ASSUME CardSetting, QueuesOK PROVE Readable <=> file \in Queue
BY QueueIs DEF Readable, QueuesOK

LEMMA ResetIs ==
    ASSUME CardSetting, NEW q \in Queue
    PROVE  /\ Requeued(q) \in Queue /\ Cancelled(q) \in Queue
           /\ \A i \in Items : /\ Requeued(q)[i] \in Finished => Requeued(q)[i] = q[i]
                               /\ q[i] \in Finished => Requeued(q)[i] = q[i]
                               /\ Cancelled(q)[i] \in Finished
                               /\ i \in Pending(q) <=> q[i] \notin Finished
BY QueueIs DEF Requeued, Cancelled, Queue, Pending, Finished

\* Without a full card the file is either the new queue or still the old one.
LEMMA SavedIs ==
    ASSUME CardSetting, NEW q, serialize_queue(q)
    PROVE  file' = q \/ (file' = file /\ saved' = FALSE)
BY DEF serialize_queue, CardSetting

LEMMA InitCard == ASSUME CardSetting, OwnerInit PROVE CardInv
<1>1. OwnerInv
  BY DEF OwnerInit, OwnerInv, Launching, PidHeld, Alone
<1>2. [i \in Items |-> "idle"] \in Queue
  BY DEF Queue
<1> QED
  BY <1>1, <1>2 DEF OwnerInit, CardInv, QueuesOK, FileTaken, FileTrue, DaemonTrue, AppTrue, OnCard,
     Readable, Recorded, Finished

\* The application opens, waits for the daemon, shows its state, or closes:
\* the file stays, and an application that does not work forgets its queue.
LEMMA OpenCard ==
    ASSUME CardSetting, CardInv, OwnerInv',
           AppOpen \/ Takeover \/ StatusStop \/ StatusLeave
    PROVE  CardInv'
<1>1. /\ UNCHANGED <<dmn, dq, cmd, file, truth, bg, saved, told, misread>>
      /\ app' \notin {"menu", "launch"}
      /\ app' # "closed" => appq' = NoQueue
      /\ control' \in {"none", "stop", "handoff"}
  BY DEF AppOpen, Takeover, StatusStop, StatusLeave, NotRunning, daemon_write_command,
         daemon_cleanup, appVars, dmnVars, history, seen, CardInv, AppTrue, QueuesOK
<1> QED
  BY <1>1 DEF CardInv, QueuesOK, FileTaken, FileTrue, DaemonTrue, AppTrue, OnCard, Readable,
              Recorded, Exact, Snapshot

\* The queue is taken back, or it could not be read.
LEMMA RestoreCard ==
    ASSUME CardSetting, CardInv, OwnerInv', unnamed # "beside", Restore \/ Reclaim
    PROVE  CardInv'
<1>1. /\ dmn = "none" /\ app' = "menu" /\ UNCHANGED <<dmn, dq, cmd, saved>>
      /\ control' \in {"none", "stop", "handoff"} /\ appq = NoQueue
  BY DEF Restore, Reclaim, NotRestored, Restored, daemon_cleanup_all, daemon_cleanup, dmnVars, CardInv, OwnerInv,
         Alone, QueuesOK, AppTrue
<1>2. CASE Restored
  <2>1. /\ file \in Queue /\ file' = NoQueue /\ bg' = FALSE /\ misread' = "none"
        /\ appq' = Requeued(file)
        /\ truth' = [i \in Items |-> IF file[i] \notin Finished THEN "todo"
                                     ELSE IF misread = "lost" THEN file[i] ELSE truth[i]]
    BY <1>2, ReadableIs DEF Restored, daemon_cleanup_all, daemon_cleanup, CardInv, Redo
  <2>2. appq' \in Queue /\ \A i \in Items : appq'[i] \in Finished => appq'[i] = file[i]
    BY <2>1, ResetIs
  <2>3. Recorded(appq)'
    BY <1>2, <2>1, <2>2 DEF Restored, Recorded, CardInv, FileTrue
  <2>4. truth' \in [Items -> {"todo"} \cup Finished]
    BY <2>1 DEF CardInv, QueuesOK
  <2> QED
    BY <1>1, <2>1, <2>2, <2>3, <2>4 DEF CardInv, QueuesOK, FileTaken, FileTrue, DaemonTrue, AppTrue,
       OnCard, Readable
<1>3. CASE ~Restored
  <2>1. /\ UNCHANGED <<truth, bg>> /\ appq' = NoQueue
        /\ \/ /\ file' = file
              /\ misread' = IF Readable /\ misread = "none" THEN "kept" ELSE misread
           \/ /\ file' = NoQueue
              /\ misread' = IF Readable THEN "lost" ELSE misread
    BY <1>1, <1>3 DEF Restore, Reclaim, NotRestored, daemon_cleanup_all
  <2> QED
    BY <1>1, <2>1 DEF CardInv, QueuesOK, FileTaken, FileTrue, DaemonTrue, AppTrue, OnCard,
       Readable, Recorded
<1> QED
  BY <1>2, <1>3

\* The application works, or its user queues more or gives up.
LEMMA WorkCard ==
    ASSUME CardSetting, CardInv, OwnerInv', unnamed # "beside",
           AppQueue \/ AppQuit \/ \E i \in Items : AppWork(i)
    PROVE  CardInv'
<1>1. /\ app = "menu" /\ dmn = "none"
      /\ UNCHANGED <<dmn, dq, cmd, control, file, bg, told>>
  BY DEF AppQueue, AppQuit, AppWork, dmnVars, CardInv, OwnerInv, Alone
<1>3. Pending(NoQueue) = {}
  BY DEF Pending, NoQueue
\* The file was taken, or could not be read and then nothing changes here, or
\* is old.
<1>4. /\ misread = "none" => ~Readable /\ ~bg /\ misread' = "none"
      /\ misread = "kept" => misread' = "lost" \/ (misread' = "kept" /\ UNCHANGED truth /\ appq' = NoQueue)
      /\ misread = "lost" => misread' = "lost"
      /\ misread \in {"none", "kept", "lost"}
  <2>1. misread = "kept" => appq = NoQueue
    BY <1>1 DEF CardInv, AppTrue
  <2>2. CASE AppQueue
    BY <1>1, <2>2 DEF AppQueue, CardInv, FileTaken, OnCard, QueuesOK
  <2>3. CASE AppQuit
    <3>1. truth \in [Items -> {"todo"} \cup Finished]
      BY DEF CardInv, QueuesOK
    <3> QED
      BY <1>1, <1>3, <2>1, <2>3, <3>1 DEF AppQuit, seen, CardInv, FileTaken, OnCard, QueuesOK
  <2>4. CASE \E i \in Items : AppWork(i)
    BY <1>1, <1>3, <2>1, <2>4 DEF AppWork, seen, CardInv, FileTaken, OnCard, QueuesOK
  <2> QED
    BY <2>2, <2>3, <2>4
<1>2. /\ truth' \in [Items -> {"todo"} \cup Finished]
      /\ app' = "menu" => appq' \in Queue \cup {NoQueue}
      /\ app' = "menu" /\ appq' # NoQueue => Recorded(appq)' /\ misread' # "kept"
      /\ app' \in {"menu", "closed"}
  <2>1. CASE AppQueue
    BY <1>4, <2>1 DEF AppQueue, Queue, Finished, Recorded
  <2>2. CASE AppQuit
    BY <2>2 DEF AppQuit, CardInv, QueuesOK, Finished
  <2>3. CASE \E i \in Items : AppWork(i)
    <3>1. PICK i \in Items : AppWork(i)
      BY <2>3
    <3>2. appq \in Queue /\ Recorded(appq) /\ misread' # "kept"
      <4>1. i \in DOMAIN appq
        BY <3>1 DEF AppWork, Pending
      <4>2. DOMAIN NoQueue = {} /\ misread' = misread
        BY <3>1 DEF NoQueue, AppWork, seen
      <4> QED
        BY <1>1, <4>1, <4>2 DEF CardInv, QueuesOK, AppTrue
    <3>3. PICK s \in {"busy", "done"} :
             /\ appq' = [appq EXCEPT ![i] = s]
             /\ (truth' = truth /\ s = "busy") \/ truth' = [truth EXCEPT ![i] = "done"]
      BY <3>1 DEF AppWork
    <3>4. appq' \in Queue /\ truth' \in [Items -> {"todo"} \cup Finished] /\ app' = "menu"
      BY <3>1, <3>2, <3>3 DEF AppWork, Queue, Finished, CardInv, QueuesOK
    <3>5. Recorded(appq)'
      BY <3>2, <3>3 DEF Recorded, Queue, Finished, CardInv, QueuesOK
    <3> QED
      BY <3>2, <3>4, <3>5
  <2> QED
    BY <2>1, <2>2, <2>3
<1> QED
  BY <1>1, <1>2, <1>4 DEF Recorded, CardInv, QueuesOK, FileTaken, FileTrue, DaemonTrue, AppTrue, OnCard, Readable

\* Exit to Background writes the queue; a launch that fails removes it again.
LEMMA BackgroundCard == ASSUME CardSetting, CardInv, OwnerInv', AppBackground PROVE CardInv'
<1>1. /\ app = "menu" /\ dmn = "none"
      /\ UNCHANGED <<dq, cmd, truth>> /\ control' = "none"
  BY DEF AppBackground, daemon_cleanup_all, daemon_cleanup
<1>2. appq \in Queue /\ Recorded(appq)
  <2>1. Pending(NoQueue) = {}
    BY DEF Pending, NoQueue
  <2> QED
    BY <1>1, <2>1 DEF AppBackground, CardInv, QueuesOK, AppTrue
<1>3. appq' = Requeued(appq) /\ appq' \in Queue /\ Recorded(appq)'
  <2>1. appq' = Requeued(appq)
    BY DEF AppBackground
  <2> QED
    BY <1>1, <1>2, <2>1, ResetIs DEF Recorded
<1>4. CASE app' = "launch" /\ told' = "none" /\ dmn' = "boot"
            /\ serialize_queue(Requeued(appq)) /\ file' \in {Requeued(appq), Torn}
            /\ bg' = FALSE /\ misread' = "none"
  <2>1. file' = appq'
    <3>1. DOMAIN NoQueue = {} /\ DOMAIN Torn = {"torn"}
      BY DEF NoQueue, Torn
    <3>2. file # Torn
      BY <3>1, QueueIs DEF CardInv, QueuesOK
    <3> QED
      BY <1>3, <1>4, <3>2, SavedIs
  <2> QED
    BY <1>1, <1>3, <1>4, <2>1, QueueIs DEF CardInv, QueuesOK, FileTaken, FileTrue, DaemonTrue,
       AppTrue, OnCard, Readable, Recorded
<1>5. CASE UNCHANGED <<app, dmn, told, bg, misread>> /\ file' = NoQueue
  <2>1. misread \in {"none", "lost"} /\ (misread = "none" => ~bg)
    <3>1. Pending(NoQueue) = {}
      BY DEF Pending, NoQueue
    <3> QED
      BY <1>1, <3>1 DEF AppBackground, CardInv, QueuesOK, AppTrue, FileTaken, OnCard
  <2> QED
    BY <1>1, <1>3, <1>5, <2>1 DEF CardInv, QueuesOK, FileTaken, FileTrue, DaemonTrue, AppTrue, OnCard,
     Readable
<1> QED
  BY <1>4, <1>5 DEF AppBackground, daemon_cleanup_all, daemon_cleanup, seen

LEMMA LaunchedCard == ASSUME CardSetting, CardInv, OwnerInv', Launched PROVE CardInv'
<1>1. /\ app = "launch" /\ UNCHANGED <<dmn, dq, cmd, truth, bg, saved, told, misread>>
      /\ control' \in {"none", "stop", "handoff"}
  BY DEF Launched, daemon_cleanup_all, daemon_cleanup, dmnVars, history, seen, CardInv, QueuesOK
<1>2. CASE app' = "closed" /\ appq' = NoQueue /\ UNCHANGED file
  BY <1>1, <1>2 DEF CardInv, QueuesOK, FileTaken, FileTrue, DaemonTrue, AppTrue, OnCard, Readable,
     Recorded, Exact, Snapshot
<1>3. CASE app' = "menu" /\ file' = NoQueue /\ UNCHANGED appq /\ told # "ok"
  <2>1. dmn = "none"
    BY <1>1, <1>3 DEF Launched, CardInv, OwnerInv, Launching
  <2> QED
    BY <1>1, <1>3, <2>1 DEF CardInv, QueuesOK, FileTaken, FileTrue, DaemonTrue, AppTrue, OnCard,
       Readable, Recorded
<1> QED
  BY <1>2, <1>3 DEF Launched, daemon_cleanup_all, daemon_cleanup

\* The daemon takes the queue, or is gone before it does.
LEMMA TakesCard ==
    ASSUME CardSetting, CardInv, OwnerInv', DaemonLock \/ DaemonLoad PROVE CardInv'
<1>1. /\ dmn \in {"boot", "load"} /\ (app = "launch" => told = "none") /\ misread = "none"
      /\ UNCHANGED <<app, appq, file, control, misread>>
  BY DEF DaemonLock, DaemonLoad, appVars, seen, CardInv, OwnerInv, Launching, OnCard
<1>2. CASE /\ dmn' \in {"load", "none"} /\ UNCHANGED <<truth, bg>>
           /\ UNCHANGED cmd \/ cmd' = "none"
           /\ app = "launch" => told' # "ok"
  BY <1>1, <1>2 DEF CardInv, QueuesOK, FileTaken, FileTrue, DaemonTrue, AppTrue, OnCard, Readable,
     Recorded
<1>3. CASE /\ Readable /\ app = "launch" /\ dmn' = "run" /\ dq' = Requeued(file) /\ told' = "ok"
           /\ UNCHANGED cmd /\ Redo
  <2>1. file \in Queue
    BY <1>3, ReadableIs DEF CardInv
  <2>2. truth' = [i \in Items |-> IF file[i] \in Finished THEN truth[i] ELSE "todo"]
    BY <1>1, <1>3 DEF Redo
  <2>3. Recorded(file)' /\ truth' \in [Items -> {"todo"} \cup Finished]
    BY <1>1, <1>3, <2>2 DEF CardInv, FileTrue, Recorded, QueuesOK
  <2>4. dq' \in Queue /\ Exact(dq)'
    BY <1>1, <1>3, <2>1, <2>2, <2>3, ResetIs DEF Recorded, Exact
  <2> QED
    BY <1>1, <1>3, <2>3, <2>4 DEF CardInv, QueuesOK, FileTaken, FileTrue, DaemonTrue, AppTrue,
       OnCard, Readable
<1> QED
  BY <1>1, <1>2, <1>3 DEF DaemonLock, DaemonLoad, DaemonFails, KillDaemon, history

LEMMA RunsCard ==
    ASSUME CardSetting, CardInv, OwnerInv', unnamed # "beside",
           DaemonPoll \/ DaemonTerm \/ DaemonCommand \/ DaemonSave \/ DaemonUnlock \/ DaemonExit
             \/ \E i \in Items : DaemonWork(i)
    PROVE  CardInv'
<1>1. /\ app # "menu" /\ told = "ok" /\ misread = "none"
      /\ UNCHANGED <<app, appq, told, bg, misread>>
  BY DEF DaemonPoll, DaemonTerm, DaemonCommand, DaemonSave, DaemonUnlock, DaemonExit, DaemonWork,
         appVars, history, seen, CardInv, OwnerInv, Alone, Launching, OnCard
\* What remains to be shown of a step.
<1> DEFINE Done == /\ file' \in Queue \cup {NoQueue} /\ (Readable => Readable')
                   /\ Readable' => Recorded(file)'
                   /\ truth' \in [Items -> {"todo"} \cup Finished]
                   /\ {control', cmd'} \subseteq {"none", "stop", "handoff"}
                   /\ DaemonTrue'
<1>2. ASSUME Done PROVE CardInv'
  BY <1>1, <1>2 DEF CardInv, QueuesOK, FileTaken, FileTrue, AppTrue, OnCard
<1>3. CASE DaemonTerm \/ DaemonUnlock \/ DaemonExit
  <2>1. /\ UNCHANGED <<file, truth, saved>> /\ (dmn' # "none" => UNCHANGED dq)
        /\ {control', cmd'} \subseteq {"none", "stop", "handoff"}
    BY <1>3 DEF DaemonTerm, DaemonUnlock, DaemonExit, history, CardInv, QueuesOK
  <2>2. \/ dmn = "run" /\ dmn' = "final" /\ cmd' = "stop"
        \/ dmn = "unlock" /\ dmn' = "exit"
        \/ dmn' = "none"
    BY <1>3 DEF DaemonTerm, DaemonUnlock, DaemonExit
  <2>3. DaemonTrue'
    BY <2>1, <2>2 DEF CardInv, DaemonTrue, Recorded, Exact, Snapshot
  <2>4. Done
    BY <1>1, <2>1, <2>3 DEF CardInv, QueuesOK, FileTrue, Readable, Recorded
  <2> QED
    BY <1>2, <2>4
<1>4. CASE DaemonPoll \/ DaemonSave
  <2>1. /\ dq \in Queue /\ Recorded(dq) /\ UNCHANGED <<truth, dq, control>>
        /\ file' = dq \/ file' = file
        /\ {control', cmd'} \subseteq {"none", "stop", "handoff"}
    <3>1. Snapshot(dq) => Recorded(dq)
      BY DEF Snapshot, Recorded, Finished
    <3> QED
      BY <1>4, <3>1, SavedIs DEF DaemonPoll, DaemonSave, CardInv, DaemonTrue, Exact, QueuesOK,
         daemon_read_command
  <2>2. DaemonTrue'
    <3>1. CASE DaemonPoll
      <4>1. dmn' \in {"run", "final"} /\ (dmn' = "final" /\ cmd' = "none" => Pending(dq) = {})
        BY <3>1 DEF DaemonPoll
      <4>2. Exact(dq) /\ Pending(dq)' = Pending(dq)
        BY <3>1, <2>1 DEF DaemonPoll, CardInv, DaemonTrue, Pending
      <4> QED
        BY <2>1, <4>1, <4>2 DEF DaemonTrue, Exact, Recorded
    <3>2. CASE DaemonSave
      <4>1. dmn' = "unlock" /\ (saved' => file' = dq) /\ Snapshot(dq)
        BY <3>2, SavedIs DEF DaemonSave, CardInv, DaemonTrue
      <4> QED
        BY <2>1, <4>1 DEF DaemonTrue, Snapshot
    <3> QED
      BY <1>4, <3>1, <3>2
  <2>3. Done
    BY <1>1, <2>1, <2>2, QueueIs DEF CardInv, QueuesOK, FileTrue, Readable, Recorded
  <2> QED
    BY <1>2, <2>3
<1>5. CASE DaemonCommand
  <2>1. /\ dq \in Queue /\ Exact(dq) /\ UNCHANGED <<file, control, cmd>> /\ dmn' = "save"
        /\ truth' = [i \in Items |-> IF cmd = "stop" /\ i \in Pending(dq) THEN "skipped" ELSE truth[i]]
        /\ cmd = "none" => Pending(dq) = {}
    BY <1>5 DEF DaemonCommand, CardInv, DaemonTrue
  <2>2. /\ truth' \in [Items -> {"todo"} \cup Finished]
        /\ \A i \in Items : truth[i] # "todo" => truth'[i] = truth[i]
    BY <2>1, ResetIs DEF CardInv, QueuesOK, Finished, Exact
  <2>3. dq' \in Queue /\ Snapshot(dq)'
    <3>1. CASE cmd = "stop"
      <4>1. dq' = Cancelled(dq)
        BY <1>5, <3>1 DEF DaemonCommand
      <4>2. \A i \in Items : dq'[i] = IF i \in Pending(dq) THEN "skipped" ELSE dq[i]
        BY <2>1, <4>1, QueueIs DEF Cancelled, Pending
      <4>3. \A i \in Items : i \notin Pending(dq) => dq[i] = truth[i] /\ truth[i] # "todo"
        BY <2>1, QueueIs DEF Exact, Recorded, Pending, Finished
      <4> QED
        BY <2>1, <3>1, <4>1, <4>2, <4>3, ResetIs DEF Snapshot
    <3>2. CASE cmd = "handoff"
      <4>1. dq' = Requeued(dq) /\ truth' = truth
        BY <1>5, <2>1, <3>2 DEF DaemonCommand, CardInv, QueuesOK
      <4>2. \A i \in Items : dq'[i] = IF dq[i] \in Finished THEN dq[i] ELSE "idle"
        BY <2>1, <4>1, QueueIs DEF Requeued
      <4> QED
        BY <2>1, <4>1, <4>2, ResetIs DEF Snapshot, Exact, Recorded, Finished
    <3>3. CASE cmd = "none"
      <4>1. dq' = dq /\ truth' = truth
        BY <1>5, <2>1, <3>3 DEF DaemonCommand, CardInv, QueuesOK
      <4>2. \A i \in Items : dq[i] \in Finished
        BY <2>1, <3>3, QueueIs DEF Pending
      <4> QED
        BY <2>1, <4>1, <4>2 DEF Snapshot, Exact, Recorded, Finished
    <3> QED
      BY <3>1, <3>2, <3>3 DEF CardInv, QueuesOK
  <2>4. Readable => Recorded(file)'
    BY <1>1, <2>1, <2>2 DEF CardInv, FileTrue, Recorded, Finished
  <2>5. Done
    BY <2>1, <2>2, <2>3, <2>4 DEF CardInv, QueuesOK, DaemonTrue, Readable
  <2> QED
    BY <1>2, <2>5
<1>6. CASE \E i \in Items : DaemonWork(i)
  <2>1. PICK i \in Items : DaemonWork(i)
    BY <1>6
  <2>2. /\ dq \in Queue /\ Exact(dq) /\ UNCHANGED <<file, dmn, control, cmd>>
        /\ i \in Pending(dq) /\ dmn \in {"run", "final"}
    BY <2>1 DEF DaemonWork, CardInv, DaemonTrue
  <2>3. PICK s \in {"busy", "done"} :
           /\ dq' = [dq EXCEPT ![i] = s]
           /\ (truth' = truth /\ s = "busy") \/ (truth' = [truth EXCEPT ![i] = "done"] /\ s = "done")
    BY <2>1 DEF DaemonWork
  <2>4. truth[i] = "todo"
    BY <2>2, ResetIs DEF Exact
  <2>5. /\ dq' \in Queue /\ truth' \in [Items -> {"todo"} \cup Finished]
        /\ \A j \in Items : truth[j] # "todo" => truth'[j] = truth[j]
    BY <2>2, <2>3, <2>4 DEF Queue, Finished, CardInv, QueuesOK
  <2>6. Exact(dq)'
    BY <2>2, <2>3, <2>4 DEF Exact, Recorded, Queue, Finished, CardInv, QueuesOK
  <2>7. ~(dmn = "final" /\ cmd = "none")
    BY <2>2 DEF CardInv, DaemonTrue
  <2>8. Readable => Recorded(file)'
    BY <1>1, <2>2, <2>5 DEF CardInv, FileTrue, Recorded, Finished
  <2>9. Done
    BY <2>2, <2>5, <2>6, <2>7, <2>8 DEF CardInv, QueuesOK, DaemonTrue, Readable
  <2> QED
    BY <1>2, <2>9
<1> QED
  BY <1>3, <1>4, <1>5, <1>6

LEMMA KillCard ==
    ASSUME CardSetting, CardInv, OwnerInv', DaemonKilled \/ AppKilled PROVE CardInv'
<1>1. /\ UNCHANGED <<file, control, truth, saved, told, misread>>
      /\ UNCHANGED <<dmn, dq, cmd>> \/ (dmn' = "none" /\ cmd' = "none")
      /\ UNCHANGED <<app, appq>> \/ app' = "closed"
  BY DEF DaemonKilled, AppKilled, KillDaemon, appVars, dmnVars, seen
<1>6. (UNCHANGED app /\ (bg' => bg)) \/ (app' = "closed" /\ (bg' => bg \/ app = "launch"))
  <2>1. CASE DaemonKilled
    BY <2>1 DEF DaemonKilled, appVars
  <2>2. CASE AppKilled
    BY <2>2 DEF AppKilled
  <2> QED
    BY <2>1, <2>2
<1>2. app = "launch" => Readable
  BY DEF CardInv, OnCard
<1>3. DaemonTrue'
  BY <1>1 DEF CardInv, DaemonTrue, Recorded, Exact, Snapshot
<1>4. QueuesOK' /\ FileTaken' /\ FileTrue' /\ AppTrue'
  BY <1>1 DEF CardInv, QueuesOK, FileTaken, FileTrue, AppTrue, Readable, Recorded
<1>5. OnCard'
  BY <1>1, <1>2, <1>6 DEF CardInv, OnCard, Readable
<1> QED
  BY <1>3, <1>4, <1>5 DEF CardInv

\* Nothing is said of what an application does beside a daemon.
CardIs == OwnerInv /\ (unnamed # "beside" => CardInv)

LEMMA NextCard == ASSUME CardSetting, CardIs, [OwnerNext]_ownerVars PROVE CardIs'
<1>1. OwnerInv' /\ (unnamed = "beside" => unnamed' = "beside")
  <2>1. OwnerInv'
    BY NextOwner DEF CardIs
  <2>2. CASE DaemonStep \/ DaemonTerm \/ DaemonKilled \/ AppKilled
    BY <2>1, <2>2 DEF DaemonStep, DaemonLock, DaemonLoad, DaemonPoll, DaemonTerm, DaemonCommand,
       DaemonSave, DaemonUnlock, DaemonExit, DaemonWork, DaemonKilled, AppKilled, history, seen
  <2>3. CASE AppStep \/ AppOpen \/ StatusStop \/ AppQueue \/ AppQuit \/ AppBackground
               \/ \E i \in Items : AppWork(i)
    BY <2>1, <2>3 DEF AppStep, Takeover, StatusLeave, Restore, Reclaim, Launched, AppOpen, NotRunning,
       StatusStop, AppQueue, AppQuit, AppBackground, AppWork, history, seen
  <2> QED
    BY <2>1, <2>2, <2>3 DEF OwnerNext, ownerVars, history, seen
<1>2. ASSUME unnamed # "beside" PROVE CardInv'
  <2>1. CardInv /\ unnamed # "beside"
    BY <1>2 DEF CardIs
  <2>2. CASE UNCHANGED ownerVars
    BY <1>1, <2>1, <2>2 DEF CardInv, QueuesOK, FileTaken, FileTrue, DaemonTrue, AppTrue, OnCard,
       Readable, Recorded, Exact, Snapshot, ownerVars, appVars, dmnVars, history, seen
  <2>3. CASE OwnerNext
    BY <1>1, <2>1, <2>3, OpenCard, RestoreCard, WorkCard, BackgroundCard, LaunchedCard, TakesCard,
       RunsCard, KillCard DEF OwnerNext, AppStep, DaemonStep
  <2> QED
    BY <2>2, <2>3
<1> QED
  BY <1>1, <1>2 DEF CardIs

\* From the daemon's ready byte, or the death of the application that waits for
\* it, to the next restore the queue is on the card, whatever is killed and
\* whenever serialize_queue fails before its rename, no unfinished item is
\* recorded there as finished, and the daemon leaves the final state of every
\* item there (daemon_main, check_daemon_on_startup, restore_daemon_queue);
\* excepted are a queue that could not be read back, and two owners.
THEOREM BackgroundSurvivesThm == ASSUME CardSetting PROVE OwnerSpec => []BackgroundSurvives
<1>1. OwnerInit => CardIs
  BY InitCard DEF CardIs, CardInv
<1>2. CardIs /\ [OwnerNext]_ownerVars => CardIs'
  BY NextCard
<1>3. CardIs => BackgroundSurvives
  BY DEF CardIs, CardInv, OnCard, FileTrue, Recorded, DaemonTrue, Snapshot, BackgroundSurvives,
     QueueOnCard, FinalSnapshot, Finished
<1> QED
  BY <1>1, <1>2, <1>3, PTL DEF OwnerSpec
=============================================================================
