------------------------------ MODULE MCScrape ------------------------------
(* ZcrapeGoat's queue inside one process, and between the application and   *)
(* its daemon, each on its own.                                             *)
EXTENDS ScrapeQueue, ScrapeDaemon

VARIABLE side   \* "inside" one process, or "between" two

ScrapeInit ==
    /\ Init /\ OwnerInit
    /\ side \in {"inside", "between"}
    /\ side = "between" => mapping = CHOOSE d \in Dirs : TRUE

Inside  == side = "inside"
Between == side = "between"
ScrapeNext ==
    /\ UNCHANGED side
    /\ \/ Inside /\ Next /\ UNCHANGED ownerVars
       \/ Between /\ OwnerNext /\ UNCHANGED vars

\* The fairness of ScrapeQueue and ScrapeDaemon.
ScrapeFairness ==
    /\ \A w \in Workers : WF_vars(Inside /\ WorkerStep(w))
    /\ WF_vars(Inside /\ ManagerStep) /\ WF_vars(Inside /\ CheatStep)
    /\ SF_vars(Inside /\ ManagerClassify /\ th'["cheat"].pc = "find")
    /\ SF_vars(Inside /\ ManagerSpawn /\ \E w \in Workers : th'[w].pc = "next")
    /\ WF_vars(Inside /\ StopEnds) /\ WF_vars(Inside /\ QueueInvalidate)
    /\ WF_ownerVars(Between /\ AppStep) /\ WF_ownerVars(Between /\ DaemonStep)
    /\ WF_ownerVars(Between /\ AppOpen)
ScrapeSpec == ScrapeInit /\ [][ScrapeNext]_<<side, vars, ownerVars>> /\ ScrapeFairness
=============================================================================
