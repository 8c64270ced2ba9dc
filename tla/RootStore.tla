----------------------------- MODULE RootStore -----------------------------
(***************************************************************************)
(* What ADR 0006 promises of an update, without the files: the device has  *)
(* one installed root, at most one staged root, a staged root is one that  *)
(* passed the checks, and the installed root is replaced whole by it.      *)
(***************************************************************************)
CONSTANTS Images, Factory, Good(_), None

VARIABLES installed, staged

storeVars == <<installed, staged>>

Init == installed = Factory /\ staged = None

\* A checked image is published for the next boot.
Stage ==
    /\ \E v \in Images : Good(v) /\ staged' = v
    /\ UNCHANGED installed

\* The staged image becomes the root, all of it or nothing.
Commit ==
    /\ staged # None
    /\ installed' = staged
    /\ UNCHANGED staged

\* A staged image is dropped: committed, rejected or cancelled.
Discard ==
    /\ staged' = None
    /\ UNCHANGED installed

Next == Stage \/ Commit \/ Discard

Spec == Init /\ [][Next]_storeVars
=============================================================================
