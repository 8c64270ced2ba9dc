--------------------------- MODULE OsUpdateProofs ---------------------------
(* Proofs about the OS update, for any releases, tar names and fault set,  *)
(* any number of boot files, drops and power losses.                       *)
EXTENDS OsUpdate, TLAPS

\* The whole inductive invariant.
Inv == TypeOK /\ UpdateInv /\ RootRecoverable /\ OnlyCheckedImages

\* A flashed card satisfies it.
LEMMA InitInv == Init => Inv
<1> SUFFICES ASSUME Init PROVE Inv
  OBVIOUS
<1> USE ImagesAssumption, KindAssumption, BoundsAssumption
<1> USE DEF Init, NoPend
<1>1. /\ failed \in BOOLEAN /\ reapply \in BOOLEAN /\ coreNew \in BOOLEAN
      /\ stor \in BOOLEAN /\ refused \in BOOLEAN
  BY Zenon
<1>2. TypeOK
  BY <1>1 DEF TypeOK, PCs, InitramfsPCs, ApplyPCs, FailPCs, Releases
<1>3. UpdateInv
  BY DEF UpdateInv, ApplyPCs
<1>4. RootRecoverable /\ OnlyCheckedImages
  BY DEF RootRecoverable, OnlyCheckedImages
<1> QED
  BY <1>2, <1>3, <1>4 DEF Inv

\* Turning a staged root down leaves a mark that stays.
LEMMA TurnDownEffect ==
    ASSUME TypeOK, TurnDown \/ turned' = turned
    PROVE  /\ turned' \in {"none", "staged", "copied"}
           /\ turned = "copied" => turned' = "copied"
           /\ turned # "none" => turned' # "none"
           /\ TurnDown => turned' # "none"
BY DEF TypeOK, TurnDown

\* rm -rf pending, from a state where the live root is whole: pending keeps
\* its type and loses files only.
LEMMA RmPendingEffect ==
    ASSUME TypeOK, NEW from, NEW to, RmPending(from, to)
    PROVE  /\ pend' \in [ver : BOOLEAN, root : Images \cup {None}]
           /\ pend'.root \in {pend.root, None}
           /\ bytes' \in {bytes, "card"}
           /\ pc = from /\ pc' \in {from, to}
           /\ UNCHANGED <<root, bootVars, tarVars, failVars, job, flagVars, envVars>>
<1>1. pend \in [ver : BOOLEAN, root : Images \cup {None}]
  BY Zenon DEF TypeOK
<1>2. pend' \in {[pend EXCEPT !.ver = FALSE], [pend EXCEPT !.root = None], pend}
  BY Zenon DEF RmPending
<1>3. /\ pend' \in [ver : BOOLEAN, root : Images \cup {None}]
      /\ pend'.root \in {pend.root, None}
  <2>1. CASE pend' = [pend EXCEPT !.ver = FALSE]
    BY <1>1, <2>1
  <2>2. CASE pend' = [pend EXCEPT !.root = None]
    BY <1>1, <2>2
  <2>3. CASE pend' = pend
    BY <1>1, <2>3
  <2> QED
    BY <1>2, <2>1, <2>2, <2>3
<1> QED
  BY <1>3 DEF RmPending, Goto

\* Every step of the boot chain, of zlyme-update and of the user, and a power
\* loss anywhere, keep it, as long as a published root is not torn.
LEMMA NextInv ==
    ASSUME "torn" \notin Faults, Inv, [Next]_vars PROVE Inv'
<1> USE ImagesAssumption, KindAssumption, BoundsAssumption
<1> USE DEF Inv, TypeOK, UpdateInv, RootRecoverable, OnlyCheckedImages, Releases,
            PCs, InitramfsPCs, ApplyPCs, FailPCs, Goto,
            bootVars, stageVars, tarVars, failVars, flagVars, envVars
<1>1. CASE PowerOn
  <2>1. stor' \in BOOLEAN
    BY <1>1, Zenon DEF PowerOn
  <2>2. TypeOK'
    BY <1>1, <2>1 DEF PowerOn
  <2>3. UpdateInv'
    BY <1>1, <2>1 DEF PowerOn
  <2>4. RootRecoverable'
    BY <1>1, <2>1 DEF PowerOn
  <2>5. OnlyCheckedImages'
    BY <1>1, <2>1 DEF PowerOn
  <2> QED
    BY <2>2, <2>3, <2>4, <2>5 DEF Inv
<1>2. CASE Classify
  <2>1. refused' \in BOOLEAN
    BY <1>2, Zenon DEF Classify, Refused
  <2> QED
    BY <1>2, <2>1 DEF Classify, Refused
<1>3. CASE CopyRoot
  BY <1>3 DEF CopyRoot
<1>4. CASE CopyEnds
  BY <1>4 DEF CopyEnds, StagedBytes
<1>5. CASE MarkCores
  <2>1. /\ pc = "i_mark" /\ pc' = "i_post"
        /\ UNCHANGED <<root, bootVars, stageVars, tarVars, failVars, job, reapply, post, envVars>>
    BY <1>5 DEF MarkCores
  <2>2. coreNew' \in BOOLEAN
    BY <1>5, Zenon DEF MarkCores
  <2> QED
    BY <2>1, <2>2
<1>6. CASE PostUpdate
  BY <1>6 DEF PostUpdate
<1>7. CASE RmCommitted
  <2> DEFINE from == "i_rmpend"
             to == "i_rmtars"
  <2>1. /\ pend' \in [ver : BOOLEAN, root : Images \cup {None}]
        /\ pend'.root \in {pend.root, None}
        /\ bytes' \in {bytes, "card"}
        /\ pc = from /\ pc' \in {from, to}
        /\ UNCHANGED <<root, bootVars, tarVars, failVars, job, flagVars, envVars>>
    BY <1>7, RmPendingEffect DEF RmCommitted
  <2> QED
    BY <2>1
<1>8. CASE RmCommittedTars
  BY <1>8 DEF RmCommittedTars, RemoveKnownTars
<1>9. CASE CloseBoot
  <2>1. refused' \in BOOLEAN
    BY <1>9, Zenon DEF CloseBoot, Refused
  <2> QED
    BY <1>9, <2>1 DEF CloseBoot, Refused
<1>10. CASE MountRoot
  <2>1. stor' \in BOOLEAN
    BY <1>10, Zenon DEF MountRoot
  <2>2. TypeOK'
    BY <1>10, <2>1 DEF MountRoot
  <2>3. UpdateInv'
    BY <1>10, <2>1 DEF MountRoot
  <2>4. RootRecoverable'
    BY <1>10, <2>1 DEF MountRoot
  <2>5. OnlyCheckedImages'
    BY <1>10, <2>1 DEF MountRoot
  <2> QED
    BY <2>2, <2>3, <2>4, <2>5 DEF Inv
<1>11. CASE S18
  <2>1. failed' \in BOOLEAN
    BY <1>11, Zenon DEF S18
  <2>2. TypeOK'
    BY <1>11, <2>1 DEF S18
  <2>3. UpdateInv'
    BY <1>11, <2>1 DEF S18
  <2>4. RootRecoverable'
    BY <1>11, <2>1 DEF S18
  <2>5. OnlyCheckedImages'
    BY <1>11, <2>1 DEF S18
  <2> QED
    BY <2>2, <2>3, <2>4, <2>5 DEF Inv
<1>12. CASE ApplyStart
  <2>1. failed' \in BOOLEAN
    BY <1>12, Zenon DEF ApplyStart
  <2>2. TypeOK'
    BY <1>12, <2>1 DEF ApplyStart
  <2>3. UpdateInv'
    BY <1>12, <2>1 DEF ApplyStart
  <2>4. RootRecoverable'
    BY <1>12, <2>1 DEF ApplyStart
  <2>5. OnlyCheckedImages'
    BY <1>12, <2>1 DEF ApplyStart
  <2> QED
    BY <2>2, <2>3, <2>4, <2>5 DEF Inv
<1>13. CASE ReusePending
  <2>1. turned' \in {"none", "staged", "copied"}
    BY <1>13, TurnDownEffect DEF ReusePending
  <2>2. /\ \/ pc' = "a_boot" /\ job' = pend.root /\ UNCHANGED kind
           \/ pc' = "f_rm" /\ kind' = "apply" /\ UNCHANGED job
        /\ pc = "a_ensure" /\ pend.root # None
        /\ UNCHANGED <<root, boot, copied, refused, stageVars, tarVars, failed, kept, flagVars,
                       envVars>>
    BY <1>13 DEF ReusePending, Fail, Staged, TurnDown
  <2> QED
    BY <2>1, <2>2
<1>14. CASE PickTar
  BY <1>14 DEF PickTar, Fail, QueuedTars, QueuedNames
<1>15. CASE Extract
  BY <1>15 DEF Extract, Fail
<1>16. CASE RmOld
  <2> DEFINE from == "a_rmold"
             to == "a_publish"
  <2>1. /\ pend' \in [ver : BOOLEAN, root : Images \cup {None}]
        /\ pend'.root \in {pend.root, None}
        /\ bytes' \in {bytes, "card"}
        /\ pc = from /\ pc' \in {from, to}
        /\ UNCHANGED <<root, bootVars, tarVars, failVars, job, flagVars, envVars>>
    BY <1>16, RmPendingEffect DEF RmOld
  <2> QED
    BY <2>1
<1>17. CASE Publish
  BY <1>17 DEF Publish
<1>18. CASE SyncPending
  BY <1>18 DEF SyncPending
<1>19. CASE OpenBoot
  <2>1. refused' \in BOOLEAN
    BY <1>19, Zenon DEF OpenBoot, Refused
  <2>2. turned' \in {"none", "staged", "copied"}
    BY <1>19, TurnDownEffect DEF OpenBoot
  <2>3. /\ pc' \in {"a_cp", "f_rm"} /\ pc = "a_boot"
        /\ kind' \in {"apply", "junk"}
        /\ UNCHANGED <<root, boot, copied, stageVars, tarVars, failed, kept, job, flagVars,
                       envVars>>
    BY <1>19 DEF OpenBoot, TurnDown, Fail
  <2> QED
    BY <2>1, <2>2, <2>3
<1>20. CASE CopyBootFile
  <2>1. \E x \in {job, Part} :
           /\ x = Part \/ Good(x)
           /\ boot' = [boot EXCEPT ![copied + 1] = x]
    BY <1>20 DEF CopyBootFile, Good
  <2>2. PICK x \in {job, Part} :
           /\ x = Part \/ Good(x)
           /\ boot' = [boot EXCEPT ![copied + 1] = x]
    BY <2>1
  <2>3. /\ x \in Releases \cup {Part}
        /\ \A i \in 1..NBoot : boot'[i] \in {x, boot[i]}
        /\ boot' \in [1..NBoot -> Releases \cup {Part}]
    BY <1>20, <2>2 DEF CopyBootFile
  <2>4. /\ pc = "a_cp" /\ pc' \in {"a_cp", "f_rm"}
        /\ copied' \in 0..NBoot
        /\ kind' \in {"apply", "junk"}
        /\ UNCHANGED <<root, turned, stageVars, tarVars, failed, kept, job, flagVars, envVars>>
    BY <1>20 DEF CopyBootFile, Fail
  <2>5. refused' \in BOOLEAN
    BY <1>20, Zenon DEF CopyBootFile
  <2>6. TypeOK' /\ UpdateInv' /\ RootRecoverable'
    BY <2>3, <2>4, <2>5
  <2>7. OnlyCheckedImages'
    BY <2>2, <2>3, <2>4
  <2> QED
    BY <2>6, <2>7
<1>21. CASE SyncBoot
  BY <1>21 DEF SyncBoot
<1>22. CASE Overlays
  <2>1. reapply' \in BOOLEAN
    BY <1>22, Zenon DEF Overlays
  <2>2. TypeOK'
    BY <1>22, <2>1 DEF Overlays
  <2>3. UpdateInv'
    BY <1>22, <2>1 DEF Overlays
  <2>4. RootRecoverable'
    BY <1>22, <2>1 DEF Overlays
  <2>5. OnlyCheckedImages'
    BY <1>22, <2>1 DEF Overlays
  <2> QED
    BY <2>2, <2>3, <2>4, <2>5 DEF Inv
<1>23. CASE FinishApply
  <2>1. failed' \in BOOLEAN
    BY <1>23, Zenon DEF FinishApply
  <2>2. TypeOK'
    BY <1>23, <2>1 DEF FinishApply, RemoveKnownTars
  <2>3. UpdateInv'
    BY <1>23, <2>1 DEF FinishApply, RemoveKnownTars
  <2>4. RootRecoverable'
    BY <1>23, <2>1 DEF FinishApply, RemoveKnownTars
  <2>5. OnlyCheckedImages'
    BY <1>23, <2>1 DEF FinishApply, RemoveKnownTars
  <2> QED
    BY <2>2, <2>3, <2>4, <2>5 DEF Inv
<1>24. CASE RmRejected
  <2> DEFINE from == "f_rm"
             to == "f_tars"
  <2>1. /\ pend' \in [ver : BOOLEAN, root : Images \cup {None}]
        /\ pend'.root \in {pend.root, None}
        /\ bytes' \in {bytes, "card"}
        /\ pc = from /\ pc' \in {from, to}
        /\ UNCHANGED <<root, bootVars, tarVars, failVars, job, flagVars, envVars>>
    BY <1>24, RmPendingEffect DEF RmRejected
  <2> QED
    BY <2>1
<1>25. CASE HandleTars
  <2>1. failed' \in BOOLEAN
    BY <1>25, Zenon DEF HandleTars
  <2>2. TypeOK'
    BY <1>25, <2>1 DEF HandleTars, QueuedNames
  <2>3. UpdateInv'
    BY <1>25, <2>1 DEF HandleTars, QueuedNames
  <2>4. RootRecoverable'
    BY <1>25, <2>1 DEF HandleTars, QueuedNames
  <2>5. OnlyCheckedImages'
    BY <1>25, <2>1 DEF HandleTars, QueuedNames
  <2> QED
    BY <2>2, <2>3, <2>4, <2>5 DEF Inv
<1>26. CASE CancelStep
  <2>1. CASE RmPending("c_rm", "c_rm")
    <3>1. /\ pend' \in [ver : BOOLEAN, root : Images \cup {None}]
          /\ pend'.root \in {pend.root, None}
          /\ bytes' \in {bytes, "card"}
          /\ pc = "c_rm" /\ pc' \in {"c_rm", "c_rm"}
          /\ UNCHANGED <<root, bootVars, tarVars, failVars, job, flagVars, envVars>>
      BY <2>1, RmPendingEffect
    <3> QED
      BY <3>1
  <2>2. CASE ~RmPending("c_rm", "c_rm")
    <3>1. failed' \in BOOLEAN
      BY <1>26, <2>2, Zenon DEF CancelStep
    <3>2. /\ pc = "c_rm" /\ pc' = "up" /\ want' = None
          /\ UNCHANGED <<root, bootVars, stageVars, tars, kept, kind, job, flagVars, envVars>>
      BY <1>26, <2>2, Zenon DEF CancelStep
    <3> QED
      BY <3>1, <3>2
  <2> QED
    BY <2>1, <2>2
<1>27. CASE ApplyNow
  BY <1>27 DEF ApplyNow
<1>28. CASE Cancel
  BY <1>28 DEF Cancel
<1>29. CASE Late
  <2>1. reapply' \in BOOLEAN /\ coreNew' \in BOOLEAN
    BY <1>29, Zenon DEF Late
  <2>2. TypeOK'
    BY <1>29, <2>1 DEF Late
  <2>3. UpdateInv'
    BY <1>29, <2>1 DEF Late
  <2>4. RootRecoverable'
    BY <1>29, <2>1 DEF Late
  <2>5. OnlyCheckedImages'
    BY <1>29, <2>1 DEF Late
  <2> QED
    BY <2>2, <2>3, <2>4, <2>5 DEF Inv
<1>30. CASE Restart
  BY <1>30 DEF Restart
<1>31. CASE PowerLoss
  <2>1. /\ boot' \in [1..NBoot -> Releases \cup {Part}]
        /\ \A i \in 1..NBoot : boot'[i] \in {Part, boot[i]}
    <3>1. boot' = boot \/ \E i \in 1..NBoot : boot' = [boot EXCEPT ![i] = Part]
      <4>1. copied < NBoot => copied + 1 \in 1..NBoot
        OBVIOUS
      <4>2. 1..copied \subseteq 1..NBoot
        OBVIOUS
      <4> QED
        BY <1>31, <4>1, <4>2, Zenon DEF PowerLoss
    <3>2. CASE boot' = boot
      BY <3>2
    <3>3. ASSUME NEW i \in 1..NBoot, boot' = [boot EXCEPT ![i] = Part]
          PROVE  /\ boot' \in [1..NBoot -> Releases \cup {Part}]
                 /\ \A j \in 1..NBoot : boot'[j] \in {Part, boot[j]}
      BY <3>3
    <3> QED
      BY <3>1, <3>2, <3>3
  <2>2. bytes' \in {bytes, "card"}
    <3>1. CASE bytes = "cache"
      <4>1. bytes' \in {"card"} \cup (Faults \cap {"torn"})
        BY <1>31, <3>1, Zenon DEF PowerLoss
      <4> QED
        BY <4>1
    <3>2. CASE bytes # "cache"
      BY <1>31, <3>2, Zenon DEF PowerLoss
    <3> QED
      BY <3>1, <3>2
  <2>3. /\ pc' = "off" /\ copied' = 0 /\ job' = None /\ kind' = "apply"
        /\ losses' \in 0..MaxLosses
        /\ UNCHANGED <<root, refused, turned, pend, tarVars, failed, kept, flagVars, stor, drops>>
    BY <1>31 DEF PowerLoss
  <2> QED
    BY <2>1, <2>2, <2>3
<1>32. ASSUME NEW n \in Names, NEW v \in Images, Drop(n, v) PROVE Inv'
  BY <1>32 DEF Drop
<1>33. CASE UNCHANGED vars
  BY <1>33 DEF vars
<1> QED
  BY <1>1, <1>2, <1>3, <1>4, <1>5, <1>6, <1>7, <1>8, <1>9, <1>10, <1>11, <1>12, <1>13, <1>14, <1>15, <1>16, <1>17, <1>18, <1>19, <1>20, <1>21, <1>22, <1>23, <1>24, <1>25, <1>26, <1>27, <1>28, <1>29, <1>30, <1>31, <1>32, <1>33, Zenon DEF Next, System, User

\* The invariant as a fact about every behaviour.
LEMMA Invariant == ASSUME "torn" \notin Faults PROVE Spec => []Inv
  BY InitInv, NextInv, PTL DEF Spec

\* ADR 0006, for every release, fault and number of power losses: a partly
\* overwritten /boot/zlyme always has a complete staged root to retry from.
THEOREM RootRecoverableThm ==
    ASSUME "torn" \notin Faults PROVE Spec => []RootRecoverable
<1>1. Inv => RootRecoverable
  BY DEF Inv
<1> QED
  BY Invariant, <1>1, PTL

\* No release that failed a check reaches pending, the root or the boot files.
THEOREM OnlyCheckedImagesThm ==
    ASSUME "torn" \notin Faults PROVE Spec => []OnlyCheckedImages
<1>1. Inv => OnlyCheckedImages
  BY DEF Inv
<1> QED
  BY Invariant, <1>1, PTL

\* The files implement the promise: the root is replaced whole, by a checked
\* image, at the moment the copy begins.
THEOREM ReplacesWholeThm ==
    ASSUME "torn" \notin Faults PROVE Spec => ReplacesWhole
<1>1. Init => Store!Init
  BY ImagesAssumption DEF Init, Store!Init, EffectiveRoot, NoPend
<1>2. ASSUME Inv, [Next]_vars
      PROVE  [Store!Next]_(Store!storeVars)
  <2> USE <1>2, ImagesAssumption
  <2> USE DEF Inv, TypeOK, UpdateInv, RootRecoverable, Releases, EffectiveRoot,
              Store!Next, Store!Commit, Store!Stage, Store!Discard, Store!storeVars
  <2>1. CASE CopyRoot
    BY <2>1 DEF CopyRoot, stageVars
  <2>2. CASE CopyEnds
    BY <2>2 DEF CopyEnds, StagedBytes, stageVars, Goto
  <2>3. CASE Publish
    <3>1. job \in Images /\ Good(job) /\ root # Part /\ root' = root /\ pend'.root = job
      BY <2>3 DEF Publish, ApplyPCs
    <3> QED
      BY <3>1
  <2>4. ASSUME NEW from \in {"i_rmpend", "a_rmold", "f_rm", "c_rm"}, NEW to,
               RmPending(from, to)
        PROVE  [Store!Next]_(Store!storeVars)
    <3>1. /\ pend'.root \in {pend.root, None}
          /\ pc = from
          /\ root' = root
      BY <2>4, RmPendingEffect
    <3>2. root # Part
      BY <3>1
    <3> QED
      BY <3>1, <3>2
  <2>5. ASSUME root' = root, pend' = pend
        PROVE  [Store!Next]_(Store!storeVars)
    BY <2>5
  <2>6. CASE PowerOn \/ Classify \/ MarkCores \/ PostUpdate \/ RmCommittedTars
             \/ CloseBoot \/ MountRoot \/ S18 \/ ApplyStart \/ ReusePending
             \/ PickTar \/ Extract \/ SyncPending \/ OpenBoot \/ CopyBootFile
             \/ SyncBoot \/ Overlays \/ FinishApply \/ HandleTars
             \/ (CancelStep /\ ~RmPending("c_rm", "c_rm"))
    <3>1. root' = root /\ pend' = pend
      BY <2>6 DEF PowerOn, Classify, MarkCores, PostUpdate, RmCommittedTars,
                  CloseBoot, MountRoot, S18, ApplyStart, ReusePending, PickTar,
                  Extract, SyncPending, OpenBoot, CopyBootFile, SyncBoot, Overlays,
                  FinishApply, HandleTars, CancelStep, stageVars
    <3> QED
      BY <3>1, <2>5
  <2>7. CASE ApplyNow \/ Cancel \/ Late \/ Restart \/ PowerLoss
             \/ \E n \in Names, v \in Images : Drop(n, v)
    <3>1. root' = root /\ pend' = pend
      BY <2>7 DEF ApplyNow, Cancel, Late, Restart, PowerLoss, Drop, stageVars
    <3> QED
      BY <3>1, <2>5
  <2>8. CASE UNCHANGED vars
    BY <2>8 DEF vars, stageVars
  <2>9. CASE RmCommitted \/ RmOld \/ RmRejected \/ RmPending("c_rm", "c_rm")
    BY <2>9, <2>4 DEF RmCommitted, RmOld, RmRejected
  <2> QED
    BY <2>1, <2>2, <2>3, <2>6, <2>7, <2>8, <2>9, Zenon DEF Next, System, User
<1> QED
  BY <1>1, <1>2, Invariant, PTL DEF Spec, ReplacesWhole, Store!Spec

----------------------------------------------------------------------------
(* Kernel and root, as long as every write to the boot volume succeeds.    *)

\* Every boot file is of release v.
AllOf(v) == \A i \in 1..NBoot : boot[i] = v

\* Without a power loss: the boot files follow the staged root once they are
\* all written, and nothing staged is removed before it is the root, except a
\* root turned down while the kernel was still that of the live one.
Agreed ==
    /\ \A i \in 1..NBoot : boot[i] # Part
    /\ pend.root # None /\ pend.ver = FALSE => pc \in {"i_rmpend", "f_rm"}
    /\ pc \in {"a_extract", "a_rmold", "a_publish", "f_tars", "c_rm"} => pend.root = None
    /\ pc = "f_rm" => AllOf(root)
    /\ pc = "up" /\ stor = TRUE => pend.root = None
    /\ pc = "i_rmpend" => pend.root \in {root, None}
    /\ pc \in {"a_sync", "a_boot", "a_cp", "a_overlays", "a_rmtars"} => pend.root = job
    /\ pc # "a_cp" => copied = 0
    /\ pc \notin {"a_sync", "a_boot", "a_cp", "f_rm"} =>
         AllOf(IF pend.root = None THEN root ELSE pend.root)
    /\ pc \in {"a_sync", "a_boot", "a_cp"} =>
         \E v \in {root, job} : \A i \in 1..NBoot : boot[i] = IF i <= copied THEN job ELSE v

KernelInv == ~refused /\ turned # "copied" /\ losses = 0 => Agreed

\* What is being removed has run its hook, whatever power losses there were.
HookInv ==
    ~refused /\ turned = "none" /\ pend.root # None
      /\ (\/ pend.ver = FALSE
          \/ pc \in {"i_rmpend", "a_extract", "a_rmold", "a_publish", "f_rm", "f_tars", "c_rm"}
          \/ pc = "up" /\ stor = TRUE)
    => post = pend.root

\* A root that was turned down is not forgotten, and the step that turns it
\* down removes nothing.
LEMMA TurnedStays ==
    ASSUME TypeOK, [Next]_vars
    PROVE  turned' = turned \/ (TurnDown /\ UNCHANGED pend)
BY DEF Next, System, User, vars, bootVars, stageVars, PowerOn, Classify, CopyRoot,
       CopyEnds, MarkCores, PostUpdate, RmCommitted, RmPending, RmCommittedTars, CloseBoot,
       MountRoot, S18, ApplyStart, ReusePending, PickTar, Extract, RmOld, Publish, SyncPending,
       OpenBoot, CopyBootFile, SyncBoot, Overlays, FinishApply, RmRejected, HandleTars, CancelStep,
       Drop, ApplyNow, Cancel, Late, Restart, PowerLoss

\* A refusal is not forgotten, and the step that meets it removes nothing.
LEMMA RefusalStays ==
    ASSUME TypeOK, [Next]_vars
    PROVE  refused' = refused \/ (refused' = TRUE /\ UNCHANGED pend)
BY DEF TypeOK, Next, System, User, vars, bootVars, stageVars, Refused, PowerOn, Classify, CopyRoot,
       CopyEnds, MarkCores, PostUpdate, RmCommitted, RmPending, RmCommittedTars, CloseBoot,
       MountRoot, S18, ApplyStart, ReusePending, PickTar, Extract, RmOld, Publish, SyncPending,
       OpenBoot, CopyBootFile, SyncBoot, Overlays, FinishApply, RmRejected, HandleTars, CancelStep,
       Drop, ApplyNow, Cancel, Late, Restart, PowerLoss

LEMMA HookNext ==
    ASSUME "torn" \notin Faults, Inv, HookInv, [Next]_vars
    PROVE  HookInv' /\ (~refused /\ turned = "none" => HookBeforeCleanup)
<1>x. refused' = refused \/ (refused' = TRUE /\ UNCHANGED pend)
  BY RefusalStays DEF Inv
<1>y. CASE refused' = TRUE
  BY <1>x, <1>y DEF HookInv, HookBeforeCleanup
<1>z. CASE ~(turned' = "none")
  <2>1. turned' = turned \/ UNCHANGED pend
    BY TurnedStays DEF Inv
  <2> QED
    BY <1>z, <2>1 DEF HookInv, HookBeforeCleanup
<1>t. turned' = "none" => turned = "none"
  BY TurnedStays, TurnDownEffect DEF Inv
<1> SUFFICES ASSUME ~refused, ~refused', turned = "none", turned' = "none"
             PROVE  HookInv' /\ HookBeforeCleanup
  BY <1>x, <1>y, <1>z, <1>t DEF HookInv, Inv, TypeOK
<1>u. ~TurnDown
  BY TurnDownEffect DEF Inv
<1>a. ~Refused
  BY DEF Refused
<1>b. /\ pend \in [ver : BOOLEAN, root : Images \cup {None}] /\ root # None /\ bytes # "torn"
      /\ pc \in {"a_publish", "a_sync"} => job \in Images
  BY ImagesAssumption DEF Inv, TypeOK, UpdateInv, Releases, ApplyPCs
<1> USE <1>a, <1>b, <1>u DEF HookInv, HookBeforeCleanup, NoPend, Goto, Fail,
       bootVars, stageVars, tarVars, failVars, flagVars, envVars
<1>1. ASSUME UNCHANGED <<pend, post>>,
             \/ pc' \notin {"i_rmpend", "a_extract", "a_rmold", "a_publish", "f_rm", "f_tars",
                            "c_rm", "up"}
             \/ pc \in {"a_extract", "a_rmold", "f_rm", "f_tars", "c_rm"}
             \/ pc' = pc /\ stor' = stor
      PROVE  HookInv' /\ HookBeforeCleanup
  BY <1>1
<1>2. CASE PowerOn \/ Classify \/ CopyRoot \/ CopyEnds \/ MarkCores \/ RmCommittedTars
             \/ CloseBoot \/ MountRoot \/ ApplyStart
  BY <1>1, <1>2 DEF PowerOn, Classify, CopyRoot, CopyEnds, MarkCores, RmCommittedTars,
                    CloseBoot, MountRoot, ApplyStart
<1>3. CASE Extract \/ SyncPending \/ OpenBoot \/ CopyBootFile \/ SyncBoot \/ Overlays
             \/ FinishApply \/ HandleTars
  BY <1>1, <1>3 DEF Extract, SyncPending, OpenBoot, CopyBootFile, SyncBoot, Overlays,
                    FinishApply, HandleTars
<1>4. CASE ApplyNow \/ Late \/ Restart \/ PowerLoss \/ \E n \in Names, v \in Images : Drop(n, v)
  BY <1>1, <1>4 DEF ApplyNow, Late, Restart, PowerLoss, Drop
<1>5. CASE PostUpdate
  BY <1>5 DEF PostUpdate
<1>6. CASE S18
  BY <1>6 DEF S18, Staged
<1>7. CASE ReusePending
  BY <1>1, <1>7 DEF ReusePending
<1>8. CASE PickTar
  BY <1>8 DEF PickTar, Staged
<1>9. CASE Publish
  BY <1>9 DEF Publish
<1>10. CASE Cancel
  BY <1>10 DEF Cancel
<1>11. ASSUME NEW from \in {"i_rmpend", "a_rmold", "f_rm", "c_rm"},
              NEW to \in {"i_rmtars", "a_publish", "f_tars", "c_rm"}, RmPending(from, to)
       PROVE  HookInv' /\ HookBeforeCleanup
  BY <1>11 DEF RmPending
<1>12. CASE RmCommitted \/ RmOld \/ RmRejected
  BY <1>11, <1>12 DEF RmCommitted, RmOld, RmRejected
<1>13. CASE CancelStep
  <2>1. CASE RmPending("c_rm", "c_rm")
    BY <1>11, <2>1
  <2>2. CASE ~RmPending("c_rm", "c_rm")
    BY <1>13, <1>1, <2>2 DEF CancelStep
  <2> QED
    BY <2>1, <2>2
<1>14. CASE UNCHANGED vars
  BY <1>1, <1>14 DEF vars
<1> QED
  BY <1>2, <1>3, <1>4, <1>5, <1>6, <1>7, <1>8, <1>9, <1>10, <1>12, <1>13, <1>14, Zenon
     DEF Next, System, User

LEMMA KernelNext ==
    ASSUME "torn" \notin Faults, Inv, KernelInv, [Next]_vars PROVE KernelInv'
<1> SUFFICES ASSUME ~refused', turned' # "copied", losses' = 0 PROVE Agreed'
  BY DEF KernelInv
<1>t. turned # "copied"
  BY TurnedStays, TurnDownEffect DEF Inv
<1>a. ~Refused /\ ~refused
  <2>1. refused' = refused \/ refused' = TRUE
    BY RefusalStays DEF Inv
  <2>2. refused \in {TRUE, FALSE} /\ refused' # TRUE
    BY DEF Inv, TypeOK
  <2>3. refused = FALSE
    BY <2>1, <2>2
  <2> QED
    BY <2>2, <2>3, Zenon DEF Refused
<1>b. /\ pend \in [ver : BOOLEAN, root : Images \cup {None}] /\ root # None /\ bytes # "torn"
      /\ boot \in [1..NBoot -> Releases \cup {Part}] /\ copied \in 0..NBoot /\ NBoot \in Nat \ {0}
      /\ None \notin Releases \cup {Part} /\ Part \notin Images /\ losses \in Nat
      /\ pc \in ApplyPCs \ {"a_start", "a_ensure"} => job \in Images
      /\ pc \in {"i_copy", "i_copied", "i_mark", "i_post"} => pend.root # None
      /\ pc \in {"i_mark", "i_post"} => root = pend.root
  BY ImagesAssumption, BoundsAssumption DEF Inv, TypeOK, UpdateInv, Releases
<1>c. losses = 0
  <2>1. losses' \in {losses, losses + 1}
    BY DEF Next, System, User, vars, envVars, PowerOn, Classify, CopyRoot, CopyEnds, MarkCores,
           PostUpdate, RmCommitted, RmPending, RmCommittedTars, CloseBoot, MountRoot, S18,
           ApplyStart, ReusePending, PickTar, Extract, RmOld, Publish, SyncPending, OpenBoot,
           CopyBootFile, SyncBoot, Overlays, FinishApply, RmRejected, HandleTars, CancelStep,
           Drop, ApplyNow, Cancel, Late, Restart, PowerLoss
  <2> QED
    BY <1>b, <2>1
<1>d. Agreed
  BY <1>a, <1>c, <1>t DEF KernelInv
<1> USE <1>a, <1>b, <1>d DEF Agreed, AllOf, NoPend, Goto, Fail, ApplyPCs,
       bootVars, stageVars, tarVars, failVars, flagVars, envVars
<1>1. CASE PowerOn
  BY <1>1 DEF PowerOn
<1>2. CASE Classify
  BY <1>2 DEF Classify
<1>3. CASE CopyRoot
  BY <1>3 DEF CopyRoot
<1>4. CASE CopyEnds
  BY <1>4 DEF CopyEnds, StagedBytes
<1>5. CASE MarkCores
  BY <1>5 DEF MarkCores
<1>6. CASE PostUpdate
  BY <1>6 DEF PostUpdate
<1>7. CASE RmCommittedTars
  BY <1>7 DEF RmCommittedTars
<1>8. CASE CloseBoot
  BY <1>8 DEF CloseBoot
<1>9. CASE MountRoot
  BY <1>9 DEF MountRoot
<1>10. CASE S18
  BY <1>10 DEF S18, Staged
<1>11. CASE ApplyStart
  BY <1>11 DEF ApplyStart
<1>12. CASE ReusePending
  BY <1>12 DEF ReusePending, Staged, TurnDown
<1>13. CASE PickTar
  BY <1>13 DEF PickTar, Staged
<1>14. CASE Extract
  BY <1>14 DEF Extract
<1>15. CASE Publish
  BY <1>15 DEF Publish
<1>16. CASE SyncPending
  BY <1>16 DEF SyncPending
<1>17. CASE OpenBoot
  BY <1>17 DEF OpenBoot, TurnDown
<1>18. CASE CopyBootFile
  <2>1. /\ pc = "a_cp" /\ pc' = pc /\ boot' = [boot EXCEPT ![copied + 1] = job]
        /\ copied' = copied + 1 /\ copied < NBoot /\ UNCHANGED <<root, pend, job, stor>>
    BY <1>18 DEF CopyBootFile
  <2>2. PICK v \in {root, job} : \A i \in 1..NBoot : boot[i] = IF i <= copied THEN job ELSE v
    BY <2>1
  <2>3. job \in Images /\ copied \in Nat /\ copied + 1 \in 1..NBoot
    BY <2>1
  <2>4. \A i \in 1..NBoot : boot'[i] = IF i <= copied + 1 THEN job ELSE v
    BY <2>1, <2>2, <2>3
  <2>5. \A i \in 1..NBoot : boot'[i] # Part
    BY <2>1, <2>3
  <2> QED
    BY <2>1, <2>2, <2>4, <2>5
<1>19. CASE SyncBoot
  BY <1>19 DEF SyncBoot
<1>20. CASE Overlays
  BY <1>20 DEF Overlays
<1>21. CASE FinishApply
  BY <1>21 DEF FinishApply
<1>22. CASE HandleTars
  BY <1>22 DEF HandleTars
<1>23. CASE ApplyNow \/ Cancel \/ Late \/ Restart \/ \E n \in Names, v \in Images : Drop(n, v)
  BY <1>23 DEF ApplyNow, Cancel, Late, Restart, Drop
<1>24. CASE PowerLoss
  BY <1>c, <1>24 DEF PowerLoss
<1>25. ASSUME NEW from \in {"i_rmpend", "a_rmold", "f_rm", "c_rm"},
              NEW to \in {"i_rmtars", "a_publish", "f_tars", "c_rm"}, RmPending(from, to)
       PROVE  Agreed'
  BY <1>25 DEF RmPending
<1>26. CASE RmCommitted \/ RmOld \/ RmRejected
  BY <1>25, <1>26 DEF RmCommitted, RmOld, RmRejected
<1>27. CASE CancelStep
  <2>1. CASE RmPending("c_rm", "c_rm")
    BY <1>25, <2>1
  <2>2. CASE ~RmPending("c_rm", "c_rm")
    BY <1>27, <2>2 DEF CancelStep
  <2> QED
    BY <2>1, <2>2
<1>28. CASE UNCHANGED vars
  BY <1>28 DEF vars
<1> QED
  BY <1>1, <1>2, <1>3, <1>4, <1>5, <1>6, <1>7, <1>8, <1>9, <1>10, <1>11, <1>12, <1>13, <1>14,
     <1>15, <1>16, <1>17, <1>18, <1>19, <1>20, <1>21, <1>22, <1>23, <1>24, <1>26, <1>27, <1>28,
     Zenon DEF Next, System, User

LEMMA KernelInitInv == Init => KernelInv /\ HookInv
BY ImagesAssumption, BoundsAssumption
   DEF Init, KernelInv, HookInv, Agreed, AllOf, NoPend

\* As long as no power was lost, no write to the boot volume failed and no
\* staged root was turned down after its kernel had been copied, kernel and root
\* are of one release whenever NextUI is up, or the root of the kernel's release
\* is staged for the next boot: a missing ZLYME, a full card, a failed copy of
\* the root, a root turned down before the copy, a cancel or a dropped tar at
\* any moment included (install_boot, do_root, handle_apply_failure).
THEOREM KernelFollowsRootThm ==
    ASSUME "torn" \notin Faults PROVE Spec => []KernelFollowsRoot
<1>1. Inv /\ KernelInv => KernelFollowsRoot
  <2> SUFFICES ASSUME Inv, Agreed, pc = "up"
               PROVE  \E v \in {root, pend.root} : \A i \in 1..NBoot : boot[i] = v
    BY DEF KernelFollowsRoot, KernelInv
  <2> QED
    BY DEF Agreed, AllOf
<1>2. Inv /\ KernelInv /\ [Next]_vars => KernelInv'
  BY KernelNext
<1> QED
  BY <1>1, <1>2, Invariant, KernelInitInv, PTL DEF Spec

\* post-update.sh of a release has run before its staged copy is removed,
\* however often power is lost in between, as long as the boot volume could be
\* opened and written and no staged root was turned down (commit_update).
THEOREM HookFirstThm ==
    ASSUME "torn" \notin Faults PROVE Spec => HookFirst
<1>1. Inv /\ HookInv /\ [Next]_vars
        => HookInv' /\ (~refused /\ turned = "none" => HookBeforeCleanup)
  BY HookNext
<1> QED
  BY <1>1, Invariant, KernelInitInv, PTL DEF Spec, HookFirst
=============================================================================
