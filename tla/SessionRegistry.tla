--------------------------- MODULE SessionRegistry ---------------------------
(***************************************************************************)
(* The session registry of GHPServer: the vector "players" of              *)
(* ServerCore.cpp, the ban records it consults, and the connections of the *)
(* RakNet peer, as three threads use them:                                 *)
(*   - the server thread (ServerWorkerThread), which handles one packet at *)
(*     a time.  A handler first looks in the ban records without a lock    *)
(*     and then enters the critical section to change the registry: two    *)
(*     steps, linked by "srv";                                             *)
(*   - the check thread (PlayerCheckWorkerThread), which removes silent    *)
(*     sessions.  When a session counts as silent is the matter of module  *)
(*     PlayerCheck; here any session may be found silent;                  *)
(*   - the web thread (WEB_ServerPage), which bans and disconnects.        *)
(* Everything between EnterCritical and LeaveCritical is one step, because *)
(* every other access modelled here takes the same critical section.       *)
(* The named mutex of a session and the status notifications sent to the   *)
(* site are left to modules of their own.                                  *)
(***************************************************************************)
EXTENDS Naturals, Sequences, SequencesExt, Functions

CONSTANTS
    Guids,      \* RakNet guids: one per run of a client, which connects once
    Users,      \* account names
    Hwids,      \* hardware ids
    Ips,        \* addresses
    IpOf,       \* the address a guid connects from
    NoUser,     \* the empty string in Player::userid
    Configs,    \* the settings the administrator ever gives the server
    MaxHwids    \* bound: hardware ids one client reports

ASSUME RegistryAssumption ==
    /\ NoUser \notin Users
    /\ IpOf \in [Guids -> Ips]
    /\ Configs \subseteq [accMultisession  : BOOLEAN,
                          hwidMultisession : BOOLEAN,
                          autoban          : SUBSET {"userid", "hwid", "ip"}]
    /\ MaxHwids \in Nat

VARIABLES
    players,    \* the registry, in the order of the vector
    conn,       \* the connection of each guid, as RakNet sees it
    config,     \* the settings in force, reread every ten seconds
    banned,     \* the ban records on disk whose status is 1
    saved,      \* data\hwid\<account>.ini: the ids recorded for an account
    srv         \* what the server thread is about to do under the lock

vars == <<players, conn, config, banned, saved, srv>>

Session == [guid : Guids, userid : Users \cup {NoUser}, hwids : Seq(Hwids)]

\* "open": both ends are connected; "closing": this end called
\* CloseConnection, packets already queued are still delivered and no
\* disconnection notice will come; "gone": nothing more will be delivered.
ConnState == {"none", "open", "closing", "gone"}

Idle == [pc |-> "idle"]

SrvState ==
    {Idle}
    \cup [pc : {"admit"}, guid : Guids]
    \cup [pc : {"hwid"},  guid : Guids, hwid : Hwids]
    \cup [pc : {"login"}, guid : Guids, userid : Users \cup {NoUser}]

TypeOK ==
    /\ players \in Seq(Session)
    /\ conn \in [Guids -> ConnState]
    /\ config \in Configs
    /\ banned \in [ip : SUBSET Ips, hwid : SUBSET Hwids, userid : SUBSET Users]
    /\ saved \in [Users -> SUBSET Hwids]
    /\ srv \in SrvState

-----------------------------------------------------------------------------
(* Lookups in the registry, made while the critical section is held.       *)

Slots(g) == {i \in DOMAIN players : players[i].guid = g}

Registered(g) == Slots(g) # {}

\* Mutant: the scan starts at the second session.
HwidInUseSkipsFirst(h) ==
    \E i \in DOMAIN players \ {1} : h \in Range(players[i].hwids)

\* GetPlayerGUIDByHWID finds a session, the asking one included.
HwidInUse(h) == \E i \in DOMAIN players : h \in Range(players[i].hwids)

\* Mutant: the scan starts at the second session.
UserIDTakenSkipsFirst(g, u) ==
    \E i \in DOMAIN players \ {1} : players[i].userid = u /\ players[i].guid # g

\* GetPlayerGUIDByUserID finds another session: the first one with the name.
UserIDTaken(g, u) ==
    \E i \in DOMAIN players :
        /\ players[i].userid = u
        /\ \A j \in 1 .. (i - 1) : players[j].userid # u
        /\ players[i].guid # g

\* The guid's connection after CloseConnection(guid, true).
Closed(g) == [conn EXCEPT ![g] = IF @ = "open" THEN "closing" ELSE @]

\* Packets of g can be at the head of the server thread's queue.
Delivering(g) == srv = Idle /\ conn[g] \in {"open", "closing"}

-----------------------------------------------------------------------------
Init ==
    /\ players = <<>>
    /\ conn = [g \in Guids |-> "none"]
    /\ config \in Configs
    /\ banned = [ip |-> {}, hwid |-> {}, userid |-> {}]
    /\ saved = [u \in Users |-> {}]
    /\ srv = Idle

(* The server thread. *)

\* ID_NEW_INCOMING_CONNECTION from a banned address.
RefuseAddress(g) ==
    /\ srv = Idle /\ conn[g] = "none"
    /\ IpOf[g] \in banned.ip
    /\ conn' = [conn EXCEPT ![g] = "closing"]
    /\ UNCHANGED <<players, config, banned, saved, srv>>

\* ID_NEW_INCOMING_CONNECTION from any other address.
AcceptAddress(g) ==
    /\ srv = Idle /\ conn[g] = "none"
    /\ IpOf[g] \notin banned.ip
    /\ conn' = [conn EXCEPT ![g] = "open"]
    /\ srv' = [pc |-> "admit", guid |-> g]
    /\ UNCHANGED <<players, config, banned, saved>>

\* Mutant: the handler runs again for the same packet.
AddPlayerTwice ==
    /\ srv.pc = "admit" /\ Len(players) < 3
    /\ players' = Append(players, [guid |-> srv.guid, userid |-> NoUser, hwids |-> <<>>])
    /\ UNCHANGED <<conn, config, banned, saved, srv>>

\* The rest of that handler: AddPlayer, then key, serial, CRCs and database.
AddPlayer ==
    /\ srv.pc = "admit"
    /\ players' = Append(players, [guid |-> srv.guid, userid |-> NoUser, hwids |-> <<>>])
    /\ srv' = Idle
    /\ UNCHANGED <<conn, config, banned, saved>>

\* PCK_H_ID.  A packet of the wrong size closes the connection and is then
\* handled with whatever id the uninitialised buffer holds.
ReceiveHwid(g, h) ==
    /\ Delivering(g)
    /\ \A i \in Slots(g) : Len(players[i].hwids) < MaxHwids
    /\ \E malformed \in BOOLEAN :
        /\ conn' = IF malformed \/ h \in banned.hwid THEN Closed(g) ELSE conn
        /\ srv' = IF h \in banned.hwid THEN Idle
                  ELSE [pc |-> "hwid", guid |-> g, hwid |-> h]
    /\ UNCHANGED <<players, config, banned, saved>>

RefuseHwid ==
    /\ srv.pc = "hwid"
    /\ \/ ~config.hwidMultisession /\ HwidInUse(srv.hwid)
       \/ ~Registered(srv.guid)
    /\ conn' = Closed(srv.guid)
    /\ srv' = Idle
    /\ UNCHANGED <<players, config, banned, saved>>

\* Mutant: an account that has a file already is left as it is.
RecordedOnce(u, hwids) ==
    IF u = NoUser \/ saved[u] # {} THEN saved ELSE [saved EXCEPT ![u] = Range(hwids)]

\* SaveHWIDs: nothing for a session that has not logged in.
Recorded(u, hwids) ==
    IF u = NoUser THEN saved ELSE [saved EXCEPT ![u] = @ \cup Range(hwids)]

AssignHwid ==
    /\ srv.pc = "hwid"
    /\ config.hwidMultisession \/ ~HwidInUse(srv.hwid)
    /\ \E i \in Slots(srv.guid) :
        LET hwids == Append(players[i].hwids, srv.hwid) IN
        /\ players' = [players EXCEPT ![i].hwids = hwids]
        /\ saved' = Recorded(players[i].userid, hwids)
    /\ srv' = Idle
    /\ UNCHANGED <<conn, config, banned>>

\* Mutant: the ban record closes the connection and the handler goes on.
ReceiveUserIDGoesOn(g, u) ==
    /\ Delivering(g)
    /\ \/ u \in banned.userid \cup {NoUser} /\ conn' = Closed(g)
       \/ u \notin banned.userid /\ UNCHANGED conn
    /\ srv' = [pc |-> "login", guid |-> g, userid |-> u]
    /\ UNCHANGED <<players, config, banned, saved>>

\* PCK_H_USER_ID.  A packet of the wrong size closes the connection and is
\* then handled as the empty name, which no ban record names; one that holds
\* the empty name leaves the connection open.
ReceiveUserID(g, u) ==
    /\ Delivering(g)
    /\ \/ u \in banned.userid \cup {NoUser} /\ conn' = Closed(g)
       \/ u \notin banned.userid /\ UNCHANGED conn
    /\ srv' = IF u \in banned.userid THEN Idle
              ELSE [pc |-> "login", guid |-> g, userid |-> u]
    /\ UNCHANGED <<players, config, banned, saved>>

RefuseUserID ==
    /\ srv.pc = "login"
    /\ \/ ~config.accMultisession /\ UserIDTaken(srv.guid, srv.userid)
       \/ ~Registered(srv.guid)
    /\ conn' = Closed(srv.guid)
    /\ srv' = Idle
    /\ UNCHANGED <<players, config, banned, saved>>

AssignUserID ==
    /\ srv.pc = "login"
    /\ config.accMultisession \/ ~UserIDTaken(srv.guid, srv.userid)
    /\ \E i \in Slots(srv.guid) :
        /\ players' = [players EXCEPT ![i].userid = srv.userid]
        /\ saved' = Recorded(srv.userid, players[i].hwids)
    /\ srv' = Idle
    /\ UNCHANGED <<conn, config, banned>>

\* ID_DISCONNECTION_NOTIFICATION or ID_CONNECTION_LOST: the session goes, if
\* the check thread has not removed it first.
Disconnected(g) ==
    /\ Delivering(g)
    /\ conn' = [conn EXCEPT ![g] = "gone"]
    /\ IF Registered(g) THEN \E i \in Slots(g) : players' = RemoveAt(players, i)
                        ELSE UNCHANGED players
    /\ UNCHANGED <<config, banned, saved, srv>>

\* Mutant: the name is not compared with the empty string.
BlockableAnyName(u) == {u}

\* The account BlockAll can ban: none before the login.
Blockable(u) == {u} \ {NoUser}

\* PCK_H_INFO with a HACK or DLL report: BlockAll bans what the settings say
\* and leaves the connection open.
ReportHack(g) ==
    /\ Delivering(g)
    /\ \E i \in Slots(g) :
        LET u == players[i].userid
            ban(kind, data) == IF kind \in config.autoban THEN data ELSE {} IN
        banned' = [ip     |-> banned.ip \cup ban("ip", {IpOf[g]}),
                   userid |-> banned.userid \cup ban("userid", Blockable(u)),
                   hwid   |-> banned.hwid \cup
                              IF u = NoUser THEN {} ELSE ban("hwid", saved[u])]
    /\ UNCHANGED <<players, conn, config, saved, srv>>

-----------------------------------------------------------------------------
(* RakNet: a connection closed from this end dies without a notice.        *)
FinishClose(g) ==
    /\ Delivering(g) /\ conn[g] = "closing"
    /\ conn' = [conn EXCEPT ![g] = "gone"]
    /\ UNCHANGED <<players, config, banned, saved, srv>>

\* Mutant: the session goes and the connection stays.
RemoveSilentOnly(g) ==
    /\ \E i \in Slots(g) : players' = RemoveAt(players, i)
    /\ UNCHANGED <<conn, config, banned, saved, srv>>

\* Mutant: the connection goes and the session stays.
CloseSilentOnly(g) ==
    /\ Registered(g)
    /\ conn' = Closed(g)
    /\ UNCHANGED <<players, config, banned, saved, srv>>

(* The check thread finds g silent: CloseConnection, RemovePlayerByGUID.   *)
RemoveSilent(g) ==
    /\ conn' = Closed(g)
    /\ \E i \in Slots(g) : players' = RemoveAt(players, i)
    /\ UNCHANGED <<config, banned, saved, srv>>

(* The web thread.  An online page concerns a session, an offline page an  *)
(* account; "kicked" is the guid the page disconnects, if it does.         *)

WebBanUserID(u, kicked) ==
    /\ u \notin banned.userid
    /\ banned' = [banned EXCEPT !.userid = @ \cup {u}]
    /\ \/ kicked = {} /\ UNCHANGED conn
       \/ \E i \in DOMAIN players : /\ kicked = {players[i].guid}
                                    /\ players[i].userid = u
                                    /\ conn' = Closed(players[i].guid)
    /\ UNCHANGED <<players, config, saved, srv>>

\* Every id recorded for the account; the page disconnects whatever BanData
\* answered.
WebBanHwids(u, kicked) ==
    /\ banned' = [banned EXCEPT !.hwid = @ \cup saved[u]]
    /\ \/ kicked = {} /\ UNCHANGED conn
       \/ \E i \in DOMAIN players : /\ kicked = {players[i].guid}
                                    /\ players[i].userid = u
                                    /\ conn' = Closed(players[i].guid)
    /\ UNCHANGED <<players, config, saved, srv>>

WebBanIp(g) ==
    /\ Registered(g) /\ IpOf[g] \notin banned.ip
    /\ banned' = [banned EXCEPT !.ip = @ \cup {IpOf[g]}]
    /\ conn' = Closed(g)
    /\ UNCHANGED <<players, config, saved, srv>>

WebDisconnect(g) ==
    /\ Registered(g)
    /\ conn' = Closed(g)
    /\ UNCHANGED <<players, config, banned, saved, srv>>

(* The configuration thread rereads the settings, without the lock.        *)
Reconfigure ==
    /\ config' \in Configs
    /\ UNCHANGED <<players, conn, banned, saved, srv>>

-----------------------------------------------------------------------------
ServerStep ==
    \/ \E g \in Guids :
        \/ RefuseAddress(g) \/ AcceptAddress(g)
        \/ \E h \in Hwids : ReceiveHwid(g, h)
        \/ \E u \in Users \cup {NoUser} : ReceiveUserID(g, u)
        \/ Disconnected(g) \/ ReportHack(g)
    \/ AddPlayer
    \/ RefuseHwid \/ AssignHwid
    \/ RefuseUserID \/ AssignUserID

WebStep ==
    \/ \E u \in Users, kicked \in {{}} \cup {{g} : g \in Guids} :
        WebBanUserID(u, kicked) \/ WebBanHwids(u, kicked)
    \/ \E g \in Guids : WebBanIp(g) \/ WebDisconnect(g)

Next ==
    \/ ServerStep
    \/ \E g \in Guids : FinishClose(g) \/ RemoveSilent(g)
    \/ WebStep
    \/ Reconfigure

Spec == Init /\ [][Next]_vars

\* The check thread never stops sweeping, and a session whose connection is
\* closed sends no more pings once its queue is drained: the sweep gets it.
Fairness ==
    \A g \in Guids : WF_vars(conn[g] # "open" /\ RemoveSilent(g))

FairSpec == Spec /\ Fairness

-----------------------------------------------------------------------------
(* What the registry has to guarantee.                                     *)

\* A connection is in the registry once at most: the handlers look for the
\* first slot of a guid and change or erase that one only.
UniqueGuid ==
    \A i, j \in DOMAIN players : players[i].guid = players[j].guid => i = j

\* If no settings ever allow several sessions of an account, then no account
\* is logged in on two connections, whatever order logins, removals and
\* disconnections come in (AssignUserIDToPlayer).
SingleSession ==
    (\A c \in Configs : ~c.accMultisession) =>
        \A i, j \in DOMAIN players :
            players[i].userid = players[j].userid /\ players[i].userid # NoUser => i = j

\* If no settings ever allow several sessions of a machine, then a hardware
\* id is reported by one session, and once (AssignHWIDToPlayer refuses an id
\* that any session holds, the asking one included).
SingleMachine ==
    (\A c \in Configs : ~c.hwidMultisession) =>
        \A i, j \in DOMAIN players :
            \A k \in DOMAIN players[i].hwids, m \in DOMAIN players[j].hwids :
                players[i].hwids[k] = players[j].hwids[m] => i = j /\ k = m

\* Every open connection has a session, so the check thread supervises it;
\* the one exception is the connection being admitted.  Were this broken, a
\* client could stay connected without ever answering a ping.
OpenIsSupervised ==
    \A g \in Guids :
        conn[g] = "open" => Registered(g) \/ (srv.pc = "admit" /\ srv.guid = g)

\* The ids of a logged-in session are all in the account's file, in whichever
\* order ids and name arrived, so that banning an account's machines
\* (BANHWID and BlockAll read the file) reaches the machine it plays on.
SavedCoversSession ==
    \A i \in DOMAIN players :
        players[i].userid # NoUser =>
            Range(players[i].hwids) \subseteq saved[players[i].userid]

LoggedIn(u) == \E i \in DOMAIN players : players[i].userid = u

KeptOut(u) ==
    /\ u \in banned.userid
    /\ \A i \in DOMAIN players : players[i].userid # u
    /\ ~(srv.pc = "login" /\ srv.userid = u)

\* A ban keeps an account out for good, whichever thread wrote it and when:
\* once the record is on disk, the account has no session, and no login of
\* it is between the look at the record and the assignment, no step of any
\* thread brings the account closer to a session again.
BanKeepsOut == [][\A u \in Users : KeptOut(u) => KeptOut(u)']_vars

\* The session of a connection that is no longer open goes away, which frees
\* its account and its machine for the next login.
ClosedIsReclaimed ==
    \A g \in Guids : (Registered(g) /\ conn[g] # "open") ~> ~Registered(g)

\* Who holds what, in a registry ps.
ClaimedAccounts(ps) ==
    {<<ps[i].guid, ps[i].userid>> : i \in {j \in DOMAIN ps : ps[j].userid # NoUser}}

ClaimedMachines(ps) ==
    UNION {{ps[i].guid} \X Range(ps[i].hwids) : i \in DOMAIN ps}

AccountClaims == INSTANCE ExclusiveClaims WITH
    Holder    <- Guids,
    Resource  <- Users,
    claims    <- ClaimedAccounts(players),
    exclusive <- ~config.accMultisession

MachineClaims == INSTANCE ExclusiveClaims WITH
    Holder    <- Guids,
    Resource  <- Hwids,
    claims    <- ClaimedMachines(players),
    exclusive <- ~config.hwidMultisession

\* The registry keeps the promise of ExclusiveClaims for account names
\* (AssignUserIDToPlayer), also when the settings change under open sessions.
KeepsAccountClaims == AccountClaims!Spec

\* The same for hardware ids (AssignHWIDToPlayer).
KeepsMachineClaims == MachineClaims!Spec
=============================================================================
