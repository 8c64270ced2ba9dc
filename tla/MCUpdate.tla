------------------------------ MODULE MCUpdate ------------------------------
(* One card under three assumptions about its faults: "faults", everything  *)
(* but torn data, with the constants of the configuration; "crash", boot    *)
(* volume writes succeed and power fails more often; "live", power and      *)
(* storage are good and more tars are dropped.                              *)
EXTENDS MCOsUpdate

VARIABLE mode

Crash == INSTANCE OsUpdate WITH Images <- {A, B, Junk}, Names <- {"update", "versioned"},
                                Faults <- {"power", "storage", "space", "check", "root_copy"},
                                MaxDrops <- 2, MaxLosses <- 3
Live == INSTANCE OsUpdate WITH Names <- {"update", "versioned"}, Faults <- {"space", "check"},
                               MaxDrops <- 3, MaxLosses <- 0

UpdateInit ==
    \/ mode = "faults" /\ Init
    \/ mode = "crash" /\ Crash!Init
    \/ mode = "live" /\ Live!Init
UpdateNext ==
    /\ UNCHANGED mode
    /\ \/ mode = "faults" /\ Next
       \/ mode = "crash" /\ Crash!Next
       \/ mode = "live" /\ Live!Next
UpdateSpec ==
    UpdateInit /\ [][UpdateNext]_<<vars, mode>> /\ WF_vars(mode = "live" /\ Live!System)

\* A boot with good power and storage ends in the frontend (OsUpdate).
BootEnds == (mode = "live" /\ pc = "off") ~> pc = "up"
=============================================================================
