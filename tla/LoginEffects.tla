---------------------------- MODULE LoginEffects ----------------------------
(***************************************************************************)
(* What a login and a logout do outside the registry of GHPServer:         *)
(*   - a session that logs in opens a named mutex, "ghp_pl_<account>":     *)
(*     AssignUserIDToPlayer creates it, RemovePlayerByGUID closes it;      *)
(*   - the site is told "1" and "0" through STATUS_NOTIFY.  CallAPI starts *)
(*     a thread for each call.  Nothing orders those threads, and none is  *)
(*     told whether its call, or the thread itself, came to anything.      *)
(* The registry itself is the matter of SessionRegistry.  Here a session   *)
(* is its name, its mutex handle and its place in the vector; the handlers *)
(* run inside the critical section and are steps.                          *)
(*                                                                         *)
(* "leaked" and "muddled" are history variables.                           *)
(***************************************************************************)
EXTENDS Naturals, FiniteSets, SequencesExt

CONSTANTS
    Guids,          \* one per run of a client
    Users,          \* account names
    NoUser,         \* the empty name
    Absent,         \* in place of a name: not registered
    Null,           \* in place of a name: mutex == NULL
    MaxHandles,     \* bound: handles open on one mutex
    MaxCalls        \* bound: equal calls under way

Names == Users \cup {NoUser}

ASSUME EffectsAssumption ==
    /\ IsFiniteSet(Guids)
    /\ NoUser \notin Users /\ {Absent, Null} \cap Names = {}
    /\ MaxHandles \in Nat /\ MaxCalls \in Nat

VARIABLES
    multi,      \* acc_multisession
    telling,    \* STATUS_NOTIFY is set, and call_api or force_api
    players,    \* the sessions in the order of the vector
    name,       \* Player::userid
    mutex,      \* Player::mutex: the name of the mutex it is a handle of
    handles,    \* handles the process has open on each mutex
    leaked,     \* those of them that nothing refers to any more
    calls,      \* calls to the site under way: <<account, status>> -> number
    site,       \* the accounts the site takes for online
    muddled     \* accounts the site may be wrong about

vars == <<multi, telling, players, name, mutex, handles, leaked, calls, site, muddled>>

Statuses == {"0", "1"}

TypeOK ==
    /\ multi \in BOOLEAN /\ telling \in BOOLEAN
    /\ players \in Seq(Guids)
    /\ name \in [Guids -> Names \cup {Absent}]
    /\ mutex \in [Guids -> Names \cup {Null}]
    /\ handles \in [Names -> 0 .. MaxHandles]
    /\ leaked \in [Names -> 0 .. MaxHandles]
    /\ calls \in [Names \X Statuses -> 0 .. MaxCalls]
    /\ site \in SUBSET Names
    /\ muddled \in SUBSET Names

Init ==
    /\ multi \in BOOLEAN /\ telling \in BOOLEAN
    /\ players = <<>>
    /\ name = [g \in Guids |-> Absent]
    /\ mutex = [g \in Guids |-> Null]
    /\ handles = [u \in Names |-> 0]
    /\ leaked = [u \in Names |-> 0]
    /\ calls = [c \in Names \X Statuses |-> 0]
    /\ site = {}
    /\ muddled = {}

-----------------------------------------------------------------------------
Online(u) == \E g \in Guids : name[g] = u

\* GetPlayerGUIDByUserID finds the first session with the name.  A login is
\* refused if that is another session; a later one with the name refuses nobody.
Found(g, u) ==
    \E i \in DOMAIN players :
        /\ players[i] = g /\ name[g] = u
        /\ \A j \in 1 .. i - 1 : name[players[j]] # u

Refused(g, u) == ~multi /\ \E other \in Guids \ {g} : Found(other, u)

Pending(u) == \E s \in Statuses : calls[<<u, s>>] > 0

\* Accounts that come online or go offline in a step.
Changed == {v \in Users : Online(v)' # Online(v)}

\* The site is told that u came or went.  Either the call is started, and the
\* site will be right about u in the end unless another call is under way,
\* which it may overtake, or the call says what is not so; or calls are
\* switched off, or CreateThread fails, and the site learns of no change.
Notify(u, s) ==
    \/ /\ telling
       /\ calls[<<u, s>>] < MaxCalls
       /\ calls' = [calls EXCEPT ![<<u, s>>] = @ + 1]
       /\ muddled' = IF Pending(u) \/ Online(u)' # (s = "1")
                     THEN muddled \cup Changed \cup {u}
                     ELSE (muddled \cup Changed) \ {u}
    \/ /\ calls' = calls
       /\ muddled' = muddled \cup Changed

AddPlayer(g) ==
    /\ name[g] = Absent
    /\ players' = Append(players, g)
    /\ name' = [name EXCEPT ![g] = NoUser]
    /\ UNCHANGED <<multi, telling, mutex, handles, leaked, calls, site, muddled>>

\* The call goes out before anything is checked.  Refused because another
\* session has the name: the site hears what it knows.  Refused because the
\* check thread has removed this session: the site hears something wrong.
RefuseUserID(g, u) ==
    /\ Refused(g, u) \/ name[g] = Absent
    /\ UNCHANGED <<multi, telling, players, name, mutex, handles, leaked, site>>
    /\ Notify(u, "1")

\* A session that was logged in already gets the new name and a new mutex; its
\* handle is overwritten, and nobody says that the old account is offline.
\* CreateMutexA may fail: "created" is FALSE, and the session plays without.
AssignUserID(g, u, created) ==
    /\ name[g] # Absent /\ ~Refused(g, u)
    /\ handles[u] < MaxHandles
    /\ name' = [name EXCEPT ![g] = u]
    /\ handles' = [handles EXCEPT ![u] = IF created THEN @ + 1 ELSE @]
    /\ mutex' = [mutex EXCEPT ![g] = IF created THEN u ELSE Null]
    /\ leaked' = IF mutex[g] = Null THEN leaked ELSE [leaked EXCEPT ![mutex[g]] = @ + 1]
    /\ Notify(u, "1")
    /\ UNCHANGED <<multi, telling, players, site>>

\* Mutant: the session's handle is closed twice, the opened one never.
RemovePlayerClosesTwice(g) ==
    /\ name[g] # Absent
    /\ \E i \in DOMAIN players : players[i] = g /\ players' = RemoveAt(players, i)
    /\ name' = [name EXCEPT ![g] = Absent]
    /\ mutex' = [mutex EXCEPT ![g] = Null]
    /\ handles' = IF mutex[g] = Null THEN handles ELSE [handles EXCEPT ![mutex[g]] = @ - 2]
    /\ IF name[g] = NoUser THEN UNCHANGED <<calls, muddled>> ELSE Notify(name[g], "0")
    /\ UNCHANGED <<multi, telling, leaked, site>>

\* RemovePlayerByGUID, from the server thread or the check thread: it closes
\* the handle (and the one it opened to release the mutex), and says "0" even
\* if the account has another session.
RemovePlayer(g) ==
    /\ name[g] # Absent
    /\ \E i \in DOMAIN players : players[i] = g /\ players' = RemoveAt(players, i)
    /\ name' = [name EXCEPT ![g] = Absent]
    /\ mutex' = [mutex EXCEPT ![g] = Null]
    /\ handles' = IF mutex[g] = Null THEN handles ELSE [handles EXCEPT ![mutex[g]] = @ - 1]
    /\ IF name[g] = NoUser THEN UNCHANGED <<calls, muddled>> ELSE Notify(name[g], "0")
    /\ UNCHANGED <<multi, telling, leaked, site>>

\* Mutant: the two statuses are taken the wrong way round.
DeliverSwapped(u, s) ==
    /\ calls[<<u, s>>] > 0
    /\ calls' = [calls EXCEPT ![<<u, s>>] = @ - 1]
    /\ site' = IF s = "0" THEN site \cup {u} ELSE site \ {u}
    /\ UNCHANGED <<multi, telling, players, name, mutex, handles, leaked, muddled>>

\* One of the calling threads gets through.
Deliver(u, s) ==
    /\ calls[<<u, s>>] > 0
    /\ calls' = [calls EXCEPT ![<<u, s>>] = @ - 1]
    /\ site' = IF s = "1" THEN site \cup {u} ELSE site \ {u}
    /\ UNCHANGED <<multi, telling, players, name, mutex, handles, leaked, muddled>>

\* curl_easy_perform fails or runs out of time, and its result is not looked at.
Lose(u, s) ==
    /\ calls[<<u, s>>] > 0
    /\ calls' = [calls EXCEPT ![<<u, s>>] = @ - 1]
    /\ muddled' = muddled \cup {u}
    /\ UNCHANGED <<multi, telling, players, name, mutex, handles, leaked, site>>

\* The configuration thread rereads the settings.
Reconfigure ==
    /\ multi' \in BOOLEAN /\ telling' \in BOOLEAN
    /\ UNCHANGED <<players, name, mutex, handles, leaked, calls, site, muddled>>

Next ==
    \/ \E g \in Guids :
        \/ AddPlayer(g) \/ RemovePlayer(g)
        \/ \E u \in Names : RefuseUserID(g, u)
        \/ \E u \in Names, created \in BOOLEAN : AssignUserID(g, u, created)
    \/ \E u \in Names, s \in Statuses : Deliver(u, s) \/ Lose(u, s)
    \/ Reconfigure

Spec == Init /\ [][Next]_vars

-----------------------------------------------------------------------------
\* Every open handle on the mutex of an account is that of a session with the
\* name, or was overwritten by a second login of its session.  So the mutex of
\* an account that has no session is kept in existence by such second logins
\* only.  (A session with the name need not have one: CreateMutexA may fail.)
HandlesAreAccounted ==
    \A u \in Names :
        handles[u] = leaked[u] + Cardinality({g \in Guids : mutex[g] = u /\ name[g] = u})

\* When no call about an account is under way, the site knows whether it is
\* online, unless since the last call about it that was alone and true (or ever,
\* if there was none) one of these happened: two calls about it at once, of
\* which either may arrive last; a call that was lost; a change without a call
\* (switched off, CreateThread failed, or the session took another name); a
\* call that is not so: "1" for a session already removed, "0" when one of the
\* account's two sessions ends.
SiteKnows ==
    \A u \in Users \ muddled : ~Pending(u) => (u \in site <=> Online(u))
=============================================================================
