---------------------------- MODULE PlayerLookup ----------------------------
(***************************************************************************)
(* Reading a session out of the registry.  GetPlayerByGUID finds the slot  *)
(* of a session inside the critical section, leaves it, and only then      *)
(* copies players[i]: whatever stands in that slot by then.  Two threads   *)
(* look sessions up:                                                       *)
(*   - the server thread, when a client reports a hack (PCK_H_INFO); it    *)
(*     bans the account of the copy (BlockAll);                            *)
(*   - the web thread, when the administrator bans a player's account      *)
(*     (WEB_ServerPage, BANUSERID); it also closes the copy's connection.  *)
(* Meanwhile the check thread erases sessions, and for the web thread the  *)
(* server thread adds, changes and erases them too.                        *)
(*                                                                         *)
(* "names" and "hit" are history variables.                                *)
(***************************************************************************)
EXTENDS Naturals, Sequences, SequencesExt

CONSTANTS
    Guids,      \* one per run of a client
    Users,      \* account names
    NoUser      \* the empty name

ASSUME LookupAssumption == NoUser \notin Users

Names == Users \cup {NoUser}
Session == [guid : Guids, userid : Names]
Readers == {"server", "web"}

VARIABLES
    players,    \* the registry
    look,       \* the lookup each reader is making: see Lookup
    banned,     \* the banned accounts
    kicked,     \* connections the web thread has closed
    names,      \* every name each session has had; {} before it connects
    hit         \* readers whose slot another thread has disturbed

vars == <<players, look, banned, kicked, names, hit>>

\* "asked" is the guid looked up, "i" the slot found for it, 0 if none; the
\* copy's guid is known from "half" on and its name from "copied" on; "torn"
\* is "half" after another thread has changed what is being copied.
Lookup == [pc : {"idle", "found", "half", "torn", "copied"}, asked : Guids, i : Nat,
           copy : Session]

TypeOK ==
    /\ players \in Seq(Session)
    /\ look \in [Readers -> Lookup]
    /\ banned \in SUBSET Users
    /\ kicked \in SUBSET Guids
    /\ names \in [Guids -> SUBSET Names]
    /\ hit \in SUBSET Readers

Slots(g) == {i \in DOMAIN players : players[i].guid = g}

Busy(r) == look[r].pc # "idle"

Init ==
    /\ players = <<>>
    /\ look \in [Readers -> [pc : {"idle"}, asked : Guids, i : {0}, copy : Session]]
    /\ look["web"] = look["server"]
    /\ look["server"].asked = look["server"].copy.guid
    /\ look["server"].copy.userid = NoUser
    /\ banned = {}
    /\ kicked = {}
    /\ names = [g \in Guids |-> {}]
    /\ hit = {}

-----------------------------------------------------------------------------
(* Changes of the registry, each inside the critical section.              *)

\* The readers rs are in the middle of a copy that changes under their feet.
Tear(rs) ==
    /\ look' = [r \in Readers |-> IF r \in rs THEN [look[r] EXCEPT !.pc = "torn"] ELSE look[r]]
    /\ hit' = hit \cup rs

\* AddPlayer.  push_back may move the vector to new storage.
AddPlayer(g) ==
    /\ ~Busy("server") /\ names[g] = {}
    /\ players' = Append(players, [guid |-> g, userid |-> NoUser])
    /\ names' = [names EXCEPT ![g] = {NoUser}]
    /\ Tear({r \in Readers : look[r].pc = "half"})
    /\ UNCHANGED <<banned, kicked>>

\* AssignUserIDToPlayer writes the string in place.
AssignUserID(g, u) ==
    /\ ~Busy("server")
    /\ \E i \in Slots(g) :
        /\ players' = [players EXCEPT ![i].userid = u]
        /\ Tear({r \in Readers : look[r].pc = "half" /\ look[r].i = i})
    /\ names' = [names EXCEPT ![g] = @ \cup {u}]
    /\ UNCHANGED <<banned, kicked>>

\* RemovePlayerByGUID: the sessions after slot i move down by one.
Erase(i) ==
    LET before(pc) == {r \in Readers : look[r].pc = pc /\ i <= look[r].i} IN
    /\ players' = RemoveAt(players, i)
    /\ look' = [r \in Readers |-> IF r \in before("half") THEN [look[r] EXCEPT !.pc = "torn"]
                                                         ELSE look[r]]
    /\ hit' = hit \cup before("found") \cup before("half")
    /\ UNCHANGED <<banned, kicked, names>>

Disconnected(g) == ~Busy("server") /\ \E i \in Slots(g) : Erase(i)

Evict(g) == \E i \in Slots(g) : Erase(i)

-----------------------------------------------------------------------------
(* One lookup. *)

\* Mutant: the loop runs one slot too far and stops there when it finds none.
FindOrLast(r, g) ==
    /\ ~Busy(r)
    /\ \E i \in 0 .. Len(players) :
        /\ i = 0 => players = <<>>
        /\ i # 0 => i \in Slots(g) \/ (Slots(g) = {} /\ i = Len(players))
        /\ look' = [look EXCEPT ![r] = [@ EXCEPT !.asked = g, !.i = i,
                                        !.pc = IF i = 0 THEN "copied" ELSE "found"]]
    /\ hit' = hit \ {r}
    /\ UNCHANGED <<players, banned, kicked, names>>

\* The part of GetPlayerByGUID inside the critical section; without a session
\* it returns Player(), which the callers recognise.
Find(r, g) ==
    /\ ~Busy(r)
    /\ \E i \in 0 .. Len(players) :
        /\ IF Slots(g) = {} THEN i = 0 ELSE i \in Slots(g)
        /\ look' = [look EXCEPT ![r] = [@ EXCEPT !.asked = g, !.i = i,
                                        !.pc = IF i = 0 THEN "copied" ELSE "found"]]
    /\ hit' = hit \ {r}
    /\ UNCHANGED <<players, banned, kicked, names>>

\* "return players[i]" copies field by field.  Behind the end of the vector
\* the fields of an erased session may still be found, or anything else.
ReadGuid(r) ==
    /\ look[r].pc = "found"
    /\ \E g \in Guids :
        /\ look[r].i \in DOMAIN players => g = players[look[r].i].guid
        /\ look' = [look EXCEPT ![r].pc = "half", ![r].copy.guid = g]
    /\ UNCHANGED <<players, banned, kicked, names, hit>>

ReadName(r) ==
    /\ look[r].pc \in {"half", "torn"}
    /\ \E u \in Names :
        /\ look[r].pc = "half" /\ look[r].i \in DOMAIN players
            => u = players[look[r].i].userid
        /\ look' = [look EXCEPT ![r].pc = "copied", ![r].copy.userid = u]
    /\ UNCHANGED <<players, banned, kicked, names, hit>>

Banning(r) == look[r].pc = "copied" /\ look[r].i # 0 /\ look[r].copy.userid # NoUser

\* The reader bans the account of its copy; the web thread also closes the
\* connection, unless the account was banned before.
Ban(r) ==
    /\ Banning(r)
    /\ banned' = banned \cup {look[r].copy.userid}
    /\ kicked' = IF r = "web" /\ look[r].copy.userid \notin banned
                 THEN kicked \cup {look[r].copy.guid} ELSE kicked
    /\ look' = [look EXCEPT ![r].pc = "idle"]
    /\ UNCHANGED <<players, names, hit>>

\* No such session, or one without a name: nothing to ban.
Drop(r) ==
    /\ look[r].pc = "copied" /\ ~Banning(r)
    /\ look' = [look EXCEPT ![r].pc = "idle"]
    /\ UNCHANGED <<players, banned, kicked, names, hit>>

Next ==
    \/ \E g \in Guids :
        \/ AddPlayer(g) \/ Disconnected(g) \/ Evict(g)
        \/ \E u \in Users : AssignUserID(g, u)
        \/ \E r \in Readers : Find(r, g)
    \/ \E r \in Readers : ReadGuid(r) \/ ReadName(r) \/ Ban(r) \/ Drop(r)

Spec == Init /\ [][Next]_vars

-----------------------------------------------------------------------------
\* GetPlayerByGUID promises the session with the guid asked for, and copies it
\* after it has left the critical section.  Only the erasure of a session at or
\* before the slot found, or a write in the middle of the copy, gives the reader
\* another session than it asked for.
WrongOnlyIfHit ==
    \A r \in Readers :
        look[r].pc = "copied" /\ look[r].i # 0 /\ r \notin hit =>
            /\ look[r].copy.guid = look[r].asked
            /\ look[r].copy.userid \in names[look[r].asked]

\* An account is banned, and a connection closed, for the session that was
\* asked for, unless that lookup was hit.  Names are assigned by the same
\* thread that handles the reports, so the server thread bans the name the
\* reporter has at that moment.
BanIsForAsked ==
    [][\A r \in Readers :
        /\ Busy(r) /\ ~Busy(r)' /\ banned' # banned /\ r \notin hit
        =>
        /\ \A u \in banned' \ banned : u \in names[look[r].asked]
        /\ kicked' \subseteq kicked \cup {look[r].asked}
        /\ r = "server" => \A i \in Slots(look[r].asked) : players[i].userid \in banned']_vars
=============================================================================
