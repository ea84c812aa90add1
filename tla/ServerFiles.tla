---------------------------- MODULE ServerFiles -----------------------------
(***************************************************************************)
(* Three kinds of file that threads of GHPServer share without a lock: the *)
(* hardware ids of an account, the ban records of a player, and the        *)
(* whitelist.  They have no state in common, so a behaviour follows one of *)
(* them, and the instances are the union of those of the three modules.    *)
(***************************************************************************)
EXTENDS HwidFile, BanStore, Whitelist

VARIABLE file   \* the file that the behaviour follows

filesVars == <<file, fileVars, banVars, listVars>>

Init ==
    /\ file \in {"hwid", "ban", "whitelist"}
    /\ FileInit /\ BanInit /\ ListInit
    /\ file # "whitelist" => text = NoText /\ bin = Absent

Next ==
    \/ file = "hwid" /\ FileNext /\ UNCHANGED <<file, banVars, listVars>>
    \/ file = "ban" /\ BanNext /\ UNCHANGED <<file, fileVars, listVars>>
    \/ file = "whitelist" /\ ListNext /\ UNCHANGED <<file, fileVars, banVars>>

Spec == Init /\ [][Next]_filesVars
=============================================================================
