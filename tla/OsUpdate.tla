------------------------------ MODULE OsUpdate ------------------------------
(***************************************************************************)
(* One OS update from a tar in /storage/.update to the replaced root:      *)
(* S18zlymeupdate and zlyme-update stage the new root on ZLYME and copy    *)
(* the kernel files to the boot vfat, then the initramfs copies the staged *)
(* root over /boot/zlyme before it is mounted.  Power may be lost between  *)
(* any two steps; there is one root file and one kernel, no A/B slot.      *)
(*                                                                         *)
(* An image (a release) is a model value.  Its kind says what the checks   *)
(* of zlyme-update find in its tar.                                        *)
(***************************************************************************)
EXTENDS Naturals, FiniteSets

CONSTANTS
    Images,     \* releases that may be dropped on the card
    Factory,    \* the release the card was flashed with
    None,       \* no file
    Part,       \* a file whose bytes are those of no release
    Kind,       \* Kind[v]: "full", "delta", "bad" (rejected root), "junk"
    Base,       \* Base[v]: the release a delta was made from
    Names,      \* tar names in use: "update", "versioned", "other"
    NBoot,      \* boot files copied one after the other: Image.gz, the dtb, ...
    Faults,     \* what may go wrong in this run
    MaxDrops,   \* tars the user drops
    MaxLosses   \* power losses

FaultNames ==
    {"power", "torn", "storage", "space", "check", "boot_rw", "root_copy", "boot_copy"}

ASSUME ImagesAssumption ==
    /\ Factory \notin Images
    /\ {None, Part} \cap (Images \cup {Factory}) = {}
    /\ None # Part
ASSUME KindAssumption ==
    /\ Kind \in [Images -> {"full", "delta", "bad", "junk"}]
    /\ Base \in [Images -> Images \cup {Factory}]
ASSUME BoundsAssumption ==
    /\ Names \subseteq {"update", "versioned", "other"}
    /\ Faults \subseteq FaultNames
    /\ NBoot \in Nat \ {0}
    /\ MaxDrops \in Nat /\ MaxLosses \in Nat

VARIABLES
    pc,       \* where the one thread of control is
    root,     \* /boot/zlyme
    boot,     \* boot[i]: the i-th boot file on the vfat
    copied,   \* boot files of the running copy that are not synced yet
    refused,  \* history: the boot volume was not opened or closed, or a copy to it failed
    turned,   \* history: a staged root was turned down, and how far it had got
    pend,     \* /storage/.update/pending: its VERSION and its zlyme
    bytes,    \* the bytes of pending/zlyme: on the card, in the cache only, or torn
    tars,     \* tars[n]: the release in the tar of that name
    want,     \* the WANT pin
    failed,   \* FAILED is there for Settings to show
    kept,     \* releases quarantined in .update/failed
    job,      \* the release zlyme-update works on
    kind,     \* FAILKIND: "junk" or "apply"
    reapply,  \* the reapply flag for rc.late
    coreNew,  \* os-image-new: cores have to be refreshed
    post,     \* the release whose post-update.sh ran last
    stor,     \* ZLYME is mounted in this boot
    drops, losses

bootVars  == <<boot, copied, refused, turned>>
stageVars == <<pend, bytes>>
tarVars   == <<tars, want>>
failVars  == <<failed, kept, kind>>
flagVars  == <<reapply, coreNew, post>>
envVars   == <<stor, drops, losses>>
vars == <<pc, root, bootVars, stageVars, tarVars, failVars, job, flagVars, envVars>>

NoPend == [ver |-> FALSE, root |-> None]

\* What the checks of zlyme-update let through.
Good(v) == Kind[v] \in {"full", "delta"}
Releases == Images \cup {Factory}

InitramfsPCs == {"i_classify", "i_copy", "i_copied", "i_mark", "i_post",
                 "i_rmpend", "i_rmtars", "i_close", "i_mount"}
ApplyPCs == {"a_start", "a_ensure", "a_extract", "a_rmold", "a_publish",
             "a_sync", "a_boot", "a_cp", "a_overlays", "a_rmtars"}
FailPCs  == {"f_rm", "f_tars"}
PCs == InitramfsPCs \cup ApplyPCs \cup FailPCs
         \cup {"off", "s18", "up", "c_rm", "ash", "nokernel"}

TypeOK ==
    /\ pc \in PCs
    /\ root \in Releases \cup {Part}
    /\ boot \in [1..NBoot -> Releases \cup {Part}]
    /\ copied \in 0..NBoot
    /\ refused \in BOOLEAN
    /\ turned \in {"none", "staged", "copied"}
    /\ pend \in [ver : BOOLEAN, root : Images \cup {None}]
    /\ bytes \in {"card", "cache", "torn"}
    /\ tars \in [Names -> Images \cup {None}]
    /\ want \in Names \cup {None}
    /\ failed \in BOOLEAN
    /\ kept \subseteq Images
    /\ kind \in {"apply", "junk"}
    /\ job \in Images \cup {None}
    /\ reapply \in BOOLEAN
    /\ coreNew \in BOOLEAN
    /\ post \in Releases
    /\ stor \in BOOLEAN
    /\ drops \in 0..MaxDrops
    /\ losses \in 0..MaxLosses

\* A flashed card, before its first boot with a tar on it.
Init ==
    /\ pc = "off"
    /\ root = Factory
    /\ boot = [i \in 1..NBoot |-> Factory]
    /\ copied = 0
    /\ refused = FALSE
    /\ turned = "none"
    /\ pend = NoPend
    /\ bytes = "card"
    /\ tars = [n \in Names |-> None]
    /\ want = None
    /\ failed = FALSE
    /\ kept = {}
    /\ kind = "apply"
    /\ job = None
    /\ reapply = FALSE
    /\ coreNew = FALSE
    /\ post = Factory
    /\ stor = TRUE
    /\ drops = 0
    /\ losses = 0

Goto(to) == pc' = to

\* The boot volume cannot be opened, or cannot be closed again.
Refused == "boot_rw" \in Faults /\ refused' = TRUE

----------------------------------------------------------------------------
(* The initramfs.                                                          *)

\* U-Boot loads the kernel and its dtb, or cannot (external); the initramfs
\* in it mounts the volumes.  ZLYME may be missing: the boot goes on.
PowerOn ==
    /\ pc = "off"
    /\ stor' \in IF "storage" \in Faults THEN BOOLEAN ELSE {TRUE}
    /\ pc' = IF \E i \in 1..NBoot : boot[i] = Part THEN "nokernel" ELSE "i_classify"
    /\ UNCHANGED <<root, bootVars, stageVars, tarVars, failVars, job, flagVars, drops, losses>>

\* classify_boot_rw and boot_open_rw: only pending/zlyme is looked at.  A
\* window opened for the boot dmesg alone ends in the same close.
Classify ==
    /\ pc = "i_classify"
    /\ \/ stor /\ pend.root # None /\ Goto("i_copy") /\ UNCHANGED refused
       \/ /\ ~(stor /\ pend.root # None) /\ UNCHANGED refused
          /\ Goto("i_close") \/ Goto("i_mount")
       \/ Refused /\ Goto("i_mount")
    /\ UNCHANGED <<root, boot, copied, turned, stageVars, tarVars, failVars, job, flagVars, envVars>>

\* What a copy of pending/zlyme yields.
StagedBytes == IF bytes = "torn" THEN Part ELSE pend.root

\* cp -f truncates /boot/zlyme and rewrites it in place.
CopyRoot ==
    /\ pc = "i_copy"
    /\ root' = Part
    /\ Goto("i_copied")
    /\ UNCHANGED <<bootVars, stageVars, tarVars, failVars, job, flagVars, envVars>>

\* Mutant: pending is not looked at again after a failed copy.
CopyEndsDropping ==
    /\ pc = "i_copied"
    /\ \/ root' = StagedBytes /\ Goto("i_mark")
       \/ "root_copy" \in Faults /\ UNCHANGED root /\ Goto("i_rmpend")
    /\ UNCHANGED <<bootVars, stageVars, tarVars, failVars, job, flagVars, envVars>>

\* cp ends and sync returns: only now are the bytes on the card.  A failed
\* cp keeps pending, and what it wrote of /boot/zlyme.
CopyEnds ==
    /\ pc = "i_copied"
    /\ \/ root' = StagedBytes /\ Goto("i_mark")
       \/ "root_copy" \in Faults /\ UNCHANGED root /\ Goto("i_close")
    /\ UNCHANGED <<bootVars, stageVars, tarVars, failVars, job, flagVars, envVars>>

\* Mutant: pending is cleaned up before its post-update.sh is run.
MarkCoresNoHook ==
    /\ pc = "i_mark"
    /\ coreNew' = TRUE
    /\ Goto("i_rmpend")
    /\ UNCHANGED <<root, bootVars, stageVars, tarVars, failVars, job, reapply, post, envVars>>

\* os-image-new, when it can be written.
MarkCores ==
    /\ pc = "i_mark"
    /\ coreNew' \in {TRUE} \cup (IF "space" \in Faults THEN {coreNew} ELSE {})
    /\ Goto("i_post")
    /\ UNCHANGED <<root, bootVars, stageVars, tarVars, failVars, job, reapply, post, envVars>>

\* post-update.sh from pending; its status is ignored.
PostUpdate ==
    /\ pc = "i_post"
    /\ post' = pend.root
    /\ Goto("i_rmpend")
    /\ UNCHANGED <<root, bootVars, stageVars, tarVars, failVars, job, reapply, coreNew, envVars>>

\* rm -rf pending: file by file, in the order of the directory.
RmPending(from, to) ==
    /\ pc = from
    /\ \/ /\ pend # NoPend
          /\ pend' \in {[pend EXCEPT !.ver = FALSE], [pend EXCEPT !.root = None]}
          /\ pend' # pend
          /\ UNCHANGED <<pc, bytes>>
       \/ /\ pend = NoPend
          /\ Goto(to)
          /\ bytes' = "card"
          /\ UNCHANGED pend
    /\ UNCHANGED <<root, bootVars, tarVars, failVars, job, flagVars, envVars>>

RmCommitted == RmPending("i_rmpend", "i_rmtars")

\* Mutant: only the well-known name is removed.
RemoveUpdateTarOnly ==
    tars' = [n \in Names |-> IF n = "update" THEN None ELSE tars[n]]

\* The names that update.tar and the pattern [0-9]*.tar reach.
RemoveKnownTars ==
    tars' = [n \in Names |-> IF n = "other" THEN tars[n] ELSE None]

\* update.tar, WANT and the versioned tars, in that order, then sync.
RmCommittedTars ==
    /\ pc = "i_rmtars"
    /\ RemoveKnownTars
    /\ want' = None
    /\ Goto("i_close")
    /\ UNCHANGED <<root, bootVars, stageVars, failVars, job, flagVars, envVars>>

\* boot_close_ro: no root is attached on a volume that stayed writable.
CloseBoot ==
    /\ pc = "i_close"
    /\ (Goto("i_mount") /\ UNCHANGED refused) \/ (Refused /\ Goto("ash"))
    /\ UNCHANGED <<root, boot, copied, turned, stageVars, tarVars, failVars, job, flagVars, envVars>>

\* Mount the squashfs and switch_root; S15bootpart tries ZLYME again.
MountRoot ==
    /\ pc = "i_mount"
    /\ pc' = IF root = Part THEN "ash" ELSE "s18"
    /\ stor' \in {stor, TRUE}
    /\ UNCHANGED <<root, bootVars, stageVars, tarVars, failVars, job, flagVars, drops, losses>>

----------------------------------------------------------------------------
(* zlyme-update, called by S18zlymeupdate before NextUI or by hand.        *)

QueuedNames == {n \in Names : tars[n] # None}

\* The tar queued_tar prints: the pinned one, else the newest (any of them).
QueuedTars ==
    IF want \in QueuedNames THEN {want} ELSE QueuedNames

Staged == pend.ver /\ pend.root # None

\* ota_queued, then zlyme-update queued, then boot_apply.
S18 ==
    /\ pc = "s18"
    /\ IF stor /\ (Staged \/ QueuedNames # {})
         THEN Goto("a_start") /\ failed' = FALSE
         ELSE Goto("up") /\ UNCHANGED failed
    /\ UNCHANGED <<root, bootVars, stageVars, tarVars, kept, kind, job, flagVars, envVars>>

\* apply_files up to ensure_pending: earlier failures are forgotten.
ApplyStart ==
    /\ pc = "a_start"
    /\ failed' = FALSE
    /\ kept' = {}
    /\ kind' = "apply"
    /\ Goto("a_ensure")
    /\ UNCHANGED <<root, bootVars, stageVars, tarVars, job, flagVars, envVars>>

\* fail and mark_fail: exit, caught by boot_apply or by the apply command.
Fail(k) == kind' = k /\ Goto("f_rm")

\* verify_dir or squashfs_fits fails on pending: a file cannot be read, the
\* boot volume filled up meanwhile.  A torn root may be seen by its
\* superblock, or not: no data block is read.
TurnDown ==
    /\ "check" \in Faults \/ bytes = "torn"
    /\ Fail("apply")
    /\ turned' = IF \E i \in 1..NBoot : boot[i] = pend.root THEN "copied"
                 ELSE IF turned = "none" THEN "staged" ELSE turned

\* ensure_pending with a staged root: verify_dir and squashfs_fits again.
ReusePending ==
    /\ pc = "a_ensure" /\ Staged
    /\ \/ Goto("a_boot") /\ job' = pend.root /\ UNCHANGED <<kind, turned>>
       \/ TurnDown /\ UNCHANGED job
    /\ UNCHANGED <<root, boot, copied, refused, stageVars, tarVars, failed, kept, flagVars,
                   envVars>>

\* ensure_pending without one: pick a tar, or there is nothing to do.
PickTar ==
    /\ pc = "a_ensure" /\ ~Staged
    /\ \/ /\ \E n \in QueuedTars : job' = tars[n]
          /\ Goto("a_extract")
          /\ UNCHANGED kind
       \/ QueuedTars = {} /\ Fail("apply") /\ UNCHANGED job
    /\ UNCHANGED <<root, bootVars, stageVars, tarVars, failed, kept, flagVars, envVars>>

\* Mutant: the extracted root is published without verify_dir.
ExtractUnchecked ==
    /\ pc = "a_extract"
    /\ \/ Kind[job] = "junk" /\ Fail("junk")
       \/ Kind[job] # "junk" /\ Goto("a_rmold") /\ UNCHANGED kind
    /\ UNCHANGED <<root, bootVars, stageVars, tarVars, failed, kept, job, flagVars, envVars>>

\* stage_tar or stage_delta up to the checks, in incoming or reconstruct:
\* nothing of it is visible yet.  A delta needs its base as the live root.
Extract ==
    /\ pc = "a_extract"
    /\ \/ Kind[job] = "junk" /\ Fail("junk")
       \/ Kind[job] = "bad" /\ Fail("apply")
       \/ "space" \in Faults /\ Kind[job] # "junk" /\ Fail("apply")
       \/ Kind[job] = "delta" /\ root # Base[job] /\ Fail("apply")
       \/ /\ Good(job)
          /\ Kind[job] = "delta" => root = Base[job]
          /\ Goto("a_rmold")
          /\ UNCHANGED kind
    /\ UNCHANGED <<root, bootVars, stageVars, tarVars, failed, kept, job, flagVars, envVars>>

RmOld == RmPending("a_rmold", "a_publish")

\* Mutant: the new root is decoded onto the live one.
PublishInPlace ==
    /\ pc = "a_publish"
    /\ root' = job
    /\ Goto("a_boot")
    /\ UNCHANGED <<stageVars, bootVars, tarVars, failVars, job, flagVars, envVars>>

\* mv to pending.  stage_delta syncs before it, stage_tar only after it.
Publish ==
    /\ pc = "a_publish"
    /\ pend' = [ver |-> TRUE, root |-> job]
    /\ bytes' = IF Kind[job] = "delta" THEN "card" ELSE "cache"
    /\ Goto("a_sync")
    /\ UNCHANGED <<root, bootVars, tarVars, failVars, job, flagVars, envVars>>

\* sync, then pre-update.sh, whose status is ignored.
SyncPending ==
    /\ pc = "a_sync"
    /\ bytes' = "card"
    /\ Goto("a_boot")
    /\ UNCHANGED <<root, bootVars, pend, tarVars, failVars, job, flagVars, envVars>>

\* install_boot: the checks once more (/boot mounted and zlyme-boot-write
\* there among them), then the vfat is opened, or that is refused.
OpenBoot ==
    /\ pc = "a_boot"
    /\ \/ Goto("a_cp") /\ UNCHANGED <<kind, refused, turned>>
       \/ TurnDown /\ UNCHANGED refused
       \/ Refused /\ Fail("apply") /\ UNCHANGED turned
    /\ UNCHANGED <<root, boot, copied, stageVars, tarVars, failed, kept, job, flagVars, envVars>>

\* cp -f of the next boot file, in place.
CopyBootFile ==
    /\ pc = "a_cp" /\ copied < NBoot
    /\ \/ /\ boot' = [boot EXCEPT ![copied + 1] = job]
          /\ copied' = copied + 1
          /\ UNCHANGED <<pc, kind, refused>>
       \/ /\ "boot_copy" \in Faults /\ refused' = TRUE
          /\ boot' = [boot EXCEPT ![copied + 1] = Part]
          /\ copied' = 0
          /\ Fail("apply")
    /\ UNCHANGED <<root, turned, stageVars, tarVars, failed, kept, job, flagVars, envVars>>

\* Mutant: the copy stops before the last file, with status 0.
SyncBootEarly ==
    /\ pc = "a_cp" /\ copied >= 1
    /\ copied' = 0
    /\ Goto("a_overlays")
    /\ UNCHANGED <<root, boot, refused, turned, stageVars, tarVars, failVars, job, flagVars,
                   envVars>>

\* The transaction of zlyme-boot-write ends with sync.
SyncBoot ==
    /\ pc = "a_cp" /\ copied = NBoot
    /\ copied' = 0
    /\ Goto("a_overlays")
    /\ UNCHANGED <<root, boot, refused, turned, stageVars, tarVars, failVars, job, flagVars,
                   envVars>>

\* apply_overlays_now.
Overlays ==
    /\ pc = "a_overlays"
    /\ reapply' = TRUE
    /\ Goto("a_rmtars")
    /\ UNCHANGED <<root, bootVars, stageVars, tarVars, failVars, job, coreNew, post, envVars>>

\* The pin and the tars go, then sync and reboot -f.
FinishApply ==
    /\ pc = "a_rmtars"
    /\ RemoveKnownTars
    /\ want' = None
    /\ failed' = FALSE
    /\ kept' = {}
    /\ job' = None
    /\ Goto("off")
    /\ UNCHANGED <<root, bootVars, stageVars, kind, flagVars, envVars>>

\* handle_apply_failure: the staged root goes first,
RmRejected == RmPending("f_rm", "f_tars")

\* then junk tars are deleted, other tars are moved to .update/failed.
HandleTars ==
    /\ pc = "f_tars"
    /\ tars' = [n \in Names |-> None]
    /\ want' = None
    /\ kept' = IF kind = "junk" THEN kept ELSE {tars[n] : n \in QueuedNames}
    /\ failed' = TRUE
    /\ kind' = "apply"
    /\ job' = None
    /\ Goto("up")
    /\ UNCHANGED <<root, bootVars, stageVars, flagVars, envVars>>

----------------------------------------------------------------------------
(* A running system.                                                       *)

\* A finished tar is copied to /storage/.update, and perhaps pinned.
Drop(n, v) ==
    /\ pc = "up" /\ stor /\ drops < MaxDrops
    /\ drops' = drops + 1
    /\ tars' = [tars EXCEPT ![n] = v]
    /\ want' \in {want, n}
    /\ UNCHANGED <<pc, root, bootVars, stageVars, failVars, job, flagVars, stor, losses>>

\* zlyme-update apply: the same apply_files, without the queued check.
ApplyNow ==
    /\ pc = "up" /\ stor
    /\ Goto("a_start")
    /\ UNCHANGED <<root, bootVars, stageVars, tarVars, failVars, job, flagVars, envVars>>

\* zlyme-update cancel: pending goes, then the pin; the tar stays.
Cancel ==
    /\ pc = "up" /\ stor
    /\ Goto("c_rm")
    /\ UNCHANGED <<root, bootVars, stageVars, tarVars, failVars, job, flagVars, envVars>>

CancelStep ==
    \/ RmPending("c_rm", "c_rm") /\ pend # NoPend
    \/ /\ pc = "c_rm" /\ pend = NoPend
       /\ want' = None
       /\ failed' = FALSE
       /\ Goto("up")
       /\ UNCHANGED <<root, bootVars, stageVars, tars, kept, kind, job, flagVars, envVars>>

\* rc.late runs reapply once; core-sync finishes its copy.
Late ==
    /\ pc = "up" /\ (reapply \/ coreNew)
    /\ reapply' = FALSE
    /\ coreNew' \in {coreNew, FALSE}
    /\ UNCHANGED <<pc, root, bootVars, stageVars, tarVars, failVars, job, post, envVars>>

\* The user restarts, or cycles the power of a device that stays dark.
Restart ==
    /\ pc \in {"up", "ash", "nokernel"}
    /\ Goto("off")
    /\ UNCHANGED <<root, bootVars, stageVars, tarVars, failVars, job, flagVars, envVars>>

\* Power loss: boot files not synced yet may be torn, and so may the bytes
\* of a pending root that was renamed before they were written back.
PowerLoss ==
    /\ "power" \in Faults /\ losses < MaxLosses
    /\ pc # "off"
    /\ losses' = losses + 1
    /\ Goto("off")
    /\ \/ UNCHANGED boot
       \/ copied > 0 /\ \E i \in 1..copied : boot' = [boot EXCEPT ![i] = Part]
       \/ pc = "a_cp" /\ copied < NBoot /\ boot' = [boot EXCEPT ![copied + 1] = Part]
    /\ copied' = 0
    /\ bytes' \in IF bytes = "cache"
                   THEN {"card"} \cup (Faults \cap {"torn"})
                   ELSE {bytes}
    /\ job' = None
    /\ kind' = "apply"
    /\ UNCHANGED <<root, refused, turned, pend, tarVars, failed, kept, flagVars, stor, drops>>

----------------------------------------------------------------------------

System ==
    \/ PowerOn \/ Classify \/ CopyRoot \/ CopyEnds \/ MarkCores \/ PostUpdate
    \/ RmCommitted \/ RmCommittedTars \/ CloseBoot \/ MountRoot
    \/ S18 \/ ApplyStart \/ ReusePending \/ PickTar \/ Extract \/ RmOld \/ Publish
    \/ SyncPending \/ OpenBoot \/ CopyBootFile \/ SyncBoot \/ Overlays \/ FinishApply
    \/ RmRejected \/ HandleTars \/ CancelStep

User ==
    \/ \E n \in Names, v \in Images : Drop(n, v)
    \/ ApplyNow \/ Cancel \/ Late \/ Restart

Next == System \/ User \/ PowerLoss

Spec == Init /\ [][Next]_vars

\* The boot chain and the shell scripts keep running while there is power.
FairSpec == Spec /\ WF_vars(System)

----------------------------------------------------------------------------
(* Properties.                                                             *)

\* ADR 0006: an interrupted copy is attempted again on the next boot.  While
\* /boot/zlyme is partly overwritten, a complete checked root is staged
\* (init, commit_update).
RootRecoverable ==
    root = Part => /\ pend.root \in Images
                   /\ Good(pend.root)
                   /\ bytes # "torn"

\* Nothing that failed a check of zlyme-update is ever staged, installed as
\* root or copied to the boot volume (stage_tar, stage_delta, verify_dir).
OnlyCheckedImages ==
    \A v \in Images :
        (v = root \/ v = pend.root \/ \E i \in 1..NBoot : v = boot[i]) => Good(v)

\* The strengthening that makes the two invariants above inductive: a torn
\* root is only met before the mount, cleaning up only begins once the root
\* is whole, and what apply_files works on has passed the checks.
UpdateInv ==
    /\ "torn" \notin Faults => bytes # "torn"
    /\ root = Part => pc \in {"off", "nokernel", "i_classify", "i_copy", "i_copied",
                              "i_close", "i_mount", "ash"}
    /\ pc \in {"i_copy", "i_copied", "i_mark", "i_post"} => pend.root # None
    /\ pc \in {"i_mark", "i_post"} => root = pend.root
    /\ pc \in ApplyPCs \ {"a_start", "a_ensure"} => job \in Images
    /\ pc \in ApplyPCs \ {"a_start", "a_ensure", "a_extract"} => Good(job)

\* The staged copy of the installed root is not removed before its
\* post-update.sh has run (init, commit_update), however often power fails
\* in between, as long as the boot volume could be opened and written and no
\* staged root was turned down by the checks that zlyme-update repeats.
HookBeforeCleanup ==
    pend.root = root /\ pend'.root # pend.root => post = root
HookFirst == [][~refused /\ turned = "none" => HookBeforeCleanup]_vars

\* As long as power was never lost, every write to the boot volume succeeded
\* and no staged root was turned down after its kernel had been copied: when
\* NextUI is up, kernel and root are of one release, or the root that goes
\* with the kernel is staged for the next boot, a missing ZLYME, a full card
\* and a root turned down before the copy included (apply_files, do_root).
KernelFollowsRoot ==
    pc = "up" /\ losses = 0 /\ ~refused /\ turned # "copied"
    => \E v \in {root, pend.root} : \A i \in 1..NBoot : boot[i] = v

\* A boot ends in the frontend; it does not apply and reboot for ever
\* (S18zlymeupdate: "success reboots and does not return").
BootReachesFrontend == pc = "off" ~> pc = "up"

\* The root an observer is promised: a half-written /boot/zlyme counts as
\* the staged root that the next boot writes again.
EffectiveRoot == IF root = Part THEN pend.root ELSE root

Store == INSTANCE RootStore WITH installed <- EffectiveRoot, staged <- pend.root

\* The update replaces the root whole, by a checked image (ADR 0006).
ReplacesWhole == Store!Spec
=============================================================================
