--------------------------- MODULE ServerWorkers ----------------------------
(***************************************************************************)
(* What the threads of GHPServer hand to one another without a lock: the   *)
(* settings and the critical section while the process comes up, the       *)
(* customer's data from MasterServer, the lists for the clients.  The      *)
(* three parts have no state in common, so a behaviour follows one of      *)
(* them.                                                                   *)
(***************************************************************************)
EXTENDS ServerStart, MasterData, ServedLists

VARIABLE part   \* the part that the behaviour follows

workersVars == <<part, startVars, dataVars, servedVars>>

Init == part \in {"start", "data", "lists"} /\ StartInit /\ DataInit /\ ServedInit

Next ==
    \/ part = "start" /\ StartNext /\ UNCHANGED <<part, dataVars, servedVars>>
    \/ part = "data" /\ DataNext /\ UNCHANGED <<part, startVars, servedVars>>
    \/ part = "lists" /\ ServedNext /\ UNCHANGED <<part, startVars, dataVars>>

Spec == Init /\ [][Next]_workersVars
=============================================================================
