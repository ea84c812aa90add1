------------------------------ MODULE BanStore ------------------------------
(***************************************************************************)
(* The ban records of GHPServer, one file per account, hardware id or      *)
(* address under data\block.  BanData calls the site, looks whether the    *)
(* status is 1 already, and writes four keys one after the other; it gives *)
(* up at the first write that fails.  No lock is taken.  Two threads ban:  *)
(*   - the server thread, when a client reports a hack: BlockAll goes      *)
(*     through everything the settings ask for;                            *)
(*   - the web thread, when the administrator bans on a player's page.     *)
(* The module follows the records of one player.                           *)
(***************************************************************************)
EXTENDS Naturals, Sequences, SequencesExt, FiniteSets

CONSTANTS
    HwidKinds,  \* the hardware ids of the player: one record each
    Autoban,    \* kinds of record BlockAll writes: acc_, hwid_, ip_autoban
    ForceApi,   \* force_api: tell the site in any case
    MaxFailures   \* bound: writes that fail, and stops of the process

Kinds == {"userid", "ip"} \cup HwidKinds

\* A session holds a vector of hardware ids.
ASSUME BanAssumption ==
    /\ IsFiniteSet(HwidKinds)
    /\ HwidKinds \cap {"userid", "ip", "none"} = {}
    /\ Autoban \subseteq Kinds /\ ForceApi \in BOOLEAN /\ MaxFailures \in Nat

Threads == {"server", "web"}
NoOne == "no one"
Fields == {"reason", "ip", "userid"}

VARIABLES
    status,     \* the kinds whose record has status 1
    field,      \* who wrote each other key of each record
    todo,       \* the bans each thread has still to make
    pc,         \* where each thread is in BanData
    answer,     \* what the last BanData of each thread returned
    blocked,    \* BlockAll has run to its end since the process started
    overlapped, \* kinds that two threads have been writing at the same time
    failures

banVars == <<status, field, todo, pc, answer, blocked, overlapped, failures>>

BanTypeOK ==
    /\ status \in SUBSET Kinds
    /\ field \in [Kinds -> [Fields -> Threads \cup {NoOne}]]
    /\ todo \in [Threads -> Seq(Kinds \cup {"none"})]
    /\ pc \in [Threads -> {"idle", "call", "look", "status"} \cup Fields]
    /\ answer \in [Threads -> {"none", "ok", "error", "already"}]
    /\ blocked \in BOOLEAN
    /\ overlapped \in SUBSET Kinds
    /\ failures \in 0 .. MaxFailures

BanInit ==
    /\ status = {}
    /\ field = [k \in Kinds |-> [f \in Fields |-> NoOne]]
    /\ todo = [t \in Threads |-> <<>>]
    /\ pc = [t \in Threads |-> "idle"]
    /\ answer = [t \in Threads |-> "none"]
    /\ blocked = FALSE
    /\ overlapped = {}
    /\ failures = 0

-----------------------------------------------------------------------------
Current(t) == Head(todo[t])

\* What BlockAll goes through, in this order.
BlockList ==
    LET only(ks) == SetToSeq(ks \cap Autoban) IN
    only({"userid"}) \o only(HwidKinds) \o only({"ip"})
        \o (IF ForceApi THEN <<"none">> ELSE <<>>)

BlockAll ==
    /\ todo["server"] = <<>> /\ BlockList # <<>>
    /\ todo' = [todo EXCEPT !["server"] = BlockList]
    /\ pc' = [pc EXCEPT !["server"] = "call"]
    /\ blocked' = FALSE
    /\ UNCHANGED <<status, field, answer, overlapped, failures>>

\* BANUSERID, BANIP or BANHWID on the player's page.
WebBan(ks) ==
    /\ todo["web"] = <<>> /\ ks # {}
    /\ todo' = [todo EXCEPT !["web"] = SetToSeq(ks)]
    /\ pc' = [pc EXCEPT !["web"] = "call"]
    /\ UNCHANGED <<status, field, answer, blocked, overlapped, failures>>

\* BanData returns r: on to the next ban, whatever r is.
Return(t, r) ==
    /\ answer' = [answer EXCEPT ![t] = r]
    /\ todo' = [todo EXCEPT ![t] = Tail(@)]
    /\ pc' = [pc EXCEPT ![t] = IF Len(todo[t]) = 1 THEN "idle" ELSE "call"]
    /\ blocked' = (blocked \/ (t = "server" /\ Len(todo[t]) = 1))

\* Bans of an account, and bans of no kind, call the site first and wait for it.
Call(t) ==
    /\ pc[t] = "call"
    /\ pc' = [pc EXCEPT ![t] = "look"]
    /\ UNCHANGED <<status, field, todo, answer, blocked, overlapped, failures>>

Writing(t, k) ==
    todo[t] # <<>> /\ Current(t) = k /\ pc[t] \in {"status"} \cup Fields

\* Mutant: one record that exists already ends the whole list.
LookStops(t) ==
    /\ pc[t] = "look"
    /\ IF Current(t) \in status \cup {"none"}
       THEN /\ answer' = [answer EXCEPT ![t] = "already"]
            /\ todo' = [todo EXCEPT ![t] = <<>>]
            /\ pc' = [pc EXCEPT ![t] = "idle"]
            /\ blocked' = (blocked \/ t = "server")
            /\ UNCHANGED overlapped
       ELSE /\ pc' = [pc EXCEPT ![t] = "status"]
            /\ UNCHANGED <<answer, todo, blocked, overlapped>>
    /\ UNCHANGED <<status, field, failures>>

\* IsDataBanned; a ban of kind BAN_NONE writes nothing.
Look(t) ==
    LET k == Current(t) IN
    /\ pc[t] = "look"
    /\ IF k = "none" \/ k \in status
       THEN Return(t, IF k = "none" THEN "ok" ELSE "already") /\ UNCHANGED overlapped
       ELSE /\ pc' = [pc EXCEPT ![t] = "status"]
            /\ overlapped' = overlapped \cup
                   (IF \E other \in Threads \ {t} : Writing(other, k) THEN {k} ELSE {})
            /\ UNCHANGED <<answer, todo, blocked>>
    /\ UNCHANGED <<status, field, failures>>

\* WritePrivateProfileString fails: BANR_ERROR, and what was written stays.
FailWrite(t) ==
    /\ pc[t] \in {"status"} \cup Fields /\ failures < MaxFailures
    /\ failures' = failures + 1
    /\ Return(t, "error")
    /\ UNCHANGED <<status, field, overlapped>>

\* Mutant: the status is not written.
WriteStatusNot(t) ==
    /\ pc[t] = "status"
    /\ pc' = [pc EXCEPT ![t] = "reason"]
    /\ UNCHANGED <<status, field, todo, answer, blocked, overlapped, failures>>

WriteStatus(t) ==
    /\ pc[t] = "status"
    /\ status' = status \cup {Current(t)}
    /\ pc' = [pc EXCEPT ![t] = "reason"]
    /\ UNCHANGED <<field, todo, answer, blocked, overlapped, failures>>

\* Mutant: the record is taken for written when the address is.
WriteFieldShort(t, f) ==
    /\ pc[t] = f
    /\ field' = [field EXCEPT ![Current(t)][f] = t]
    /\ IF f = "reason"
       THEN pc' = [pc EXCEPT ![t] = "ip"] /\ UNCHANGED <<answer, todo, blocked>>
       ELSE Return(t, "ok")
    /\ UNCHANGED <<status, overlapped, failures>>

\* The keys reason, ip and userid, in this order; then BANR_OK.
WriteField(t, f) ==
    /\ pc[t] = f
    /\ field' = [field EXCEPT ![Current(t)][f] = t]
    /\ IF f = "userid"
       THEN Return(t, "ok")
       ELSE /\ pc' = [pc EXCEPT ![t] = IF f = "reason" THEN "ip" ELSE "userid"]
            /\ UNCHANGED <<answer, todo, blocked>>
    /\ UNCHANGED <<status, overlapped, failures>>

\* The process ends; the records stay.
BanCrash ==
    /\ failures < MaxFailures
    /\ failures' = failures + 1
    /\ todo' = [t \in Threads |-> <<>>]
    /\ pc' = [t \in Threads |-> "idle"]
    /\ answer' = [t \in Threads |-> "none"]
    /\ blocked' = FALSE
    /\ UNCHANGED <<status, field, overlapped>>

BanNext ==
    \/ BlockAll
    \/ \E ks \in {{"userid"}, {"ip"}, HwidKinds} : WebBan(ks)
    \/ \E t \in Threads :
        \/ Call(t) \/ Look(t) \/ FailWrite(t) \/ WriteStatus(t)
        \/ \E f \in Fields : WriteField(t, f)
    \/ BanCrash

BanSpec == BanInit /\ [][BanNext]_banVars

-----------------------------------------------------------------------------
Complete(k) == k \in status /\ \A f \in Fields : field[k][f] # NoOne

\* BANR_OK is only answered for a record that is on disk with all its keys.
\* The reader may come between the writes: a record counts from its first key.
OkIsComplete ==
    [][\A t \in Threads, k \in Kinds :
        /\ pc[t] \in Fields /\ Current(t) = k
        /\ todo'[t] = Tail(todo[t]) /\ answer'[t] = "ok"
        => Complete(k)']_banVars

\* When BlockAll is through and no write failed, everything the settings name
\* is banned, also what somebody had banned in part before.
BlockAllBansAll == blocked /\ failures = 0 => Autoban \subseteq status

\* A record is the work of one ban, unless two threads wrote it at the same
\* time: one that was cut short is not completed by another.
OneAuthor ==
    \A k \in Kinds \ overlapped : \A f, g \in Fields :
        field[k][f] = field[k][g] \/ NoOne \in {field[k][f], field[k][g]}
=============================================================================
