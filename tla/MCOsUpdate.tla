----------------------------- MODULE MCOsUpdate -----------------------------
(* OsUpdate for TLC: a full release A, a delta B made from A, a release    *)
(* whose root is rejected and an archive that is not an update.            *)
EXTENDS OsUpdate

CONSTANTS A, B, Rejected, Junk

MCKind == [v \in Images |->
             CASE v = A -> "full" [] v = B -> "delta"
               [] v = Rejected -> "bad" [] v = Junk -> "junk"]
MCBase == [v \in Images |-> IF v = B THEN A ELSE Factory]
=============================================================================
