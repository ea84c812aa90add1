--------------------------- MODULE ClientWorkers ----------------------------
(***************************************************************************)
(* What the client does beside its connection: the loader hook with its    *)
(* list of threads, the scanning thread, and the hook of the game's login  *)
(* packet.  They have no state in common, so a behaviour follows one.      *)
(***************************************************************************)
EXTENDS ThreadGuard, CorePass, SerialPacket

VARIABLE part   \* the part that the behaviour follows

workersVars == <<part, guardVars, passVars, packetVars>>

Init ==
    /\ part \in {"loader", "scan", "packet"}
    /\ GuardInit /\ PassInit /\ PacketInit
    /\ part # "loader" => alive = [id \in Ids |-> IF id = mainThread THEN "own" ELSE "none"]
    /\ part # "scan" => running = [p \in Pids |-> NoProgram]

Next ==
    \/ part = "loader" /\ GuardNext /\ UNCHANGED <<part, passVars, packetVars>>
    \/ part = "scan" /\ PassNext /\ UNCHANGED <<part, guardVars, packetVars>>
    \/ part = "packet" /\ PacketNext /\ UNCHANGED <<part, guardVars, passVars>>

Spec == Init /\ [][Next]_workersVars
=============================================================================
