---------------------------- MODULE MasterServer ----------------------------
(***************************************************************************)
(* MasterServer, the service of the vendor: a database of customers and of *)
(* their game servers, kept in db.bin, which administrators fill in by     *)
(* web requests and which answers a game server that names its reference.  *)
(* The answer is the NAME of the customer, as the administrator typed it.  *)
(***************************************************************************)
EXTENDS Naturals

CONSTANTS
    Emails,     \* the addresses that identify customers
    Refs,       \* the references (hash of PRV.KEY) of game servers
    Names,      \* the names that administrators give to customers
    NoData      \* the empty answer

ASSUME MasterAssumption == NoData \notin Names

VARIABLES
    clients,    \* the customers: from their e-mail to their name
    servers     \* the game servers: from their reference to a customer

masterVars == <<clients, servers>>

MasterInit == clients = <<>> /\ servers = <<>>

IsClientAtDB(email) == email \in DOMAIN clients
C_REFAtDB(ref) == ref \in DOMAIN servers

(* A new entry of the database. *)
With(f, key, value) ==
    [k \in DOMAIN f \cup {key} |-> IF k = key THEN value ELSE f[k]]

(* The request "addc": an e-mail has one customer. *)
AddC(email, name) ==
    /\ ~IsClientAtDB(email)
    /\ clients' = With(clients, email, name)
    /\ UNCHANGED servers

(* The request "adds": a server belongs to one customer, known before. *)
AddS(email, ref) ==
    /\ IsClientAtDB(email) /\ ~C_REFAtDB(ref)
    /\ servers' = With(servers, ref, email)
    /\ UNCHANGED clients

MasterNext ==
    \E email \in Emails :
        \/ \E name \in Names : AddC(email, name)
        \/ \E ref \in Refs : AddS(email, ref)

(* What a game server is told that sends its reference. *)
GetClientData(ref) == IF C_REFAtDB(ref) THEN clients[servers[ref]] ELSE NoData
=============================================================================
