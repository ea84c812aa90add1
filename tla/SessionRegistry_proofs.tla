------------------------ MODULE SessionRegistry_proofs ------------------------
(***************************************************************************)
(* Proofs, for any number of guids, accounts, machines and settings, of    *)
(* the invariants of SessionRegistry.  None of them is inductive alone:    *)
(* UniqueGuid needs Fresh (a connection that is new, or being admitted,    *)
(* has no session yet), and the others need UniqueGuid, because handlers   *)
(* change the one slot that carries the guid.                              *)
(***************************************************************************)
EXTENDS SessionRegistry, SequenceFacts

Admitting(g) == srv.pc = "admit" /\ srv.guid = g

Fresh ==
    \A g \in Guids :
        /\ conn[g] = "none" => ~Registered(g) /\ ~Admitting(g)
        /\ Admitting(g) => ~Registered(g)

IInv ==
    /\ TypeOK
    /\ UniqueGuid
    /\ Fresh
    /\ SingleSession
    /\ SingleMachine
    /\ OpenIsSupervised
    /\ SavedCoversSession

-----------------------------------------------------------------------------
(* How a step can change the registry.                                     *)

\* The slot of the old registry that slot j shows once slot i is erased.
OldSlot(i, j) == IF j < i THEN j ELSE j + 1

Erased(i) == players' = RemoveAt(players, i)

\* Erasing a slot keeps the other slots, in order, and nothing else.
LEMMA ErasedSlots ==
    ASSUME TypeOK, NEW i \in DOMAIN players, Erased(i)
    PROVE  /\ players' \in Seq(Session)
           /\ \A j \in DOMAIN players' :
                /\ OldSlot(i, j) \in DOMAIN players \ {i}
                /\ players'[j] = players[OldSlot(i, j)]
           /\ \A j, k \in DOMAIN players' : OldSlot(i, j) = OldSlot(i, k) => j = k
           /\ \A k \in DOMAIN players \ {i} :
                \E j \in DOMAIN players' : players'[j] = players[k]
<1> USE DEF Erased, OldSlot
<1>1. players \in Seq(Session)
  BY DEF TypeOK
<1>2. /\ players' \in Seq(Session)
      /\ DOMAIN players' = 1 .. (Len(players) - 1)
      /\ \A j \in DOMAIN players' :
            players'[j] = IF j < i THEN players[j] ELSE players[j + 1]
  BY <1>1, RemoveAtElements
<1>3. DOMAIN players = 1 .. Len(players) /\ Len(players) \in Nat
  BY <1>1
<1>4. ASSUME NEW k \in DOMAIN players \ {i}
      PROVE  \E j \in DOMAIN players' : players'[j] = players[k]
  <2>1. CASE k < i
    BY <1>2, <1>3, <2>1
  <2>2. CASE i < k
    <3>1. k - 1 \in DOMAIN players' /\ ~(k - 1 < i) /\ (k - 1) + 1 = k
      BY <1>2, <1>3, <2>2
    <3> QED BY <1>2, <3>1
  <2> QED BY <1>3, <2>1, <2>2
<1> QED BY <1>2, <1>3, <1>4

\* The server thread's AddPlayer and Assign functions and erasing are the
\* only ways the registry and the files change, and a session is erased with
\* its connection no longer open.
LEMMA RegistryChange ==
    ASSUME TypeOK, [Next]_vars
    PROVE  \/ UNCHANGED <<players, saved>>
           \/ AddPlayer \/ AssignHwid \/ AssignUserID
           \/ \E i \in DOMAIN players :
                /\ Erased(i)
                /\ UNCHANGED <<saved, config>>
                /\ conn'[players[i].guid] # "open"
<1>1. ASSUME NEW g \in Guids, NEW i \in Slots(g)
      PROVE  i \in DOMAIN players /\ players[i].guid = g
  BY DEF Slots
<1>2. ASSUME NEW g \in Guids, Disconnected(g)
      PROVE  \/ UNCHANGED <<players, saved>>
             \/ \E i \in DOMAIN players :
                  Erased(i) /\ UNCHANGED <<saved, config>> /\ conn'[players[i].guid] # "open"
  BY <1>1, <1>2 DEF Disconnected, Erased, TypeOK
<1>3. ASSUME NEW g \in Guids, RemoveSilent(g)
      PROVE  \E i \in DOMAIN players :
                Erased(i) /\ UNCHANGED <<saved, config>> /\ conn'[players[i].guid] # "open"
  BY <1>1, <1>3 DEF RemoveSilent, Erased, TypeOK, Closed
<1> QED
  BY <1>2, <1>3
  DEF Next, ServerStep, WebStep, RefuseAddress, AcceptAddress, ReceiveHwid,
      RefuseHwid, ReceiveUserID, RefuseUserID, ReportHack, FinishClose,
      WebBanUserID, WebBanHwids, WebBanIp, WebDisconnect, Reconfigure, vars

LEMMA SlotsTyped ==
    ASSUME TypeOK, NEW i \in DOMAIN players
    PROVE  /\ players[i] \in Session
           /\ players[i].guid \in Guids
           /\ players[i].userid \in Users \cup {NoUser}
           /\ players[i].hwids \in Seq(Hwids)
<1>1. players \in Seq(Session)
  BY DEF TypeOK
<1>2. players[i] \in Session
  BY <1>1
<1> QED BY <1>2 DEF Session

LEMMA AddPlayerEffect ==
    ASSUME TypeOK, AddPlayer
    PROVE  /\ srv.guid \in Guids
           /\ players' \in Seq(Session)
           /\ DOMAIN players' = DOMAIN players \cup {Len(players) + 1}
           /\ Len(players) + 1 \notin DOMAIN players
           /\ \A j \in DOMAIN players : players'[j] = players[j]
           /\ players'[Len(players) + 1] =
                [guid |-> srv.guid, userid |-> NoUser, hwids |-> <<>>]
<1>1. srv.guid \in Guids
  BY DEF AddPlayer, TypeOK, SrvState, Idle
<1>2. [guid |-> srv.guid, userid |-> NoUser, hwids |-> <<>>] \in Session
  BY <1>1 DEF Session
<1>3. players \in Seq(Session)
  BY DEF TypeOK
<1> QED BY <1>1, <1>2, <1>3 DEF AddPlayer

LEMMA AssignHwidEffect ==
    ASSUME TypeOK, AssignHwid
    PROVE  \E i \in DOMAIN players :
            /\ players[i].guid = srv.guid
            /\ players' \in Seq(Session)
            /\ DOMAIN players' = DOMAIN players
            /\ \A j \in DOMAIN players \ {i} : players'[j] = players[j]
            /\ players'[i].guid = players[i].guid
            /\ players'[i].userid = players[i].userid
            /\ players'[i].hwids = Append(players[i].hwids, srv.hwid)
            /\ saved' = Recorded(players[i].userid, players'[i].hwids)
<1>1. srv.hwid \in Hwids
  BY DEF AssignHwid, TypeOK, SrvState, Idle
<1>2. PICK i \in Slots(srv.guid) :
        /\ players' = [players EXCEPT ![i].hwids = Append(players[i].hwids, srv.hwid)]
        /\ saved' = Recorded(players[i].userid, Append(players[i].hwids, srv.hwid))
  BY DEF AssignHwid
<1>3. i \in DOMAIN players /\ players[i].guid = srv.guid
  BY DEF Slots
<1>4. players \in Seq(Session) /\ DOMAIN players = 1 .. Len(players)
  BY DEF TypeOK
<1> DEFINE hwids == Append(players[i].hwids, srv.hwid)
           e     == [players[i] EXCEPT !.hwids = hwids]
<1>5. hwids \in Seq(Hwids)
  BY <1>1, <1>3, SlotsTyped
<1>6. e \in Session /\ e.guid = players[i].guid /\ e.userid = players[i].userid
      /\ e.hwids = hwids
  BY <1>3, <1>5, SlotsTyped DEF Session
<1>7. players' = [players EXCEPT ![i] = e]
  BY <1>2
<1> HIDE DEF e
<1>8. players' \in Seq(Session) /\ DOMAIN players' = DOMAIN players
      /\ players'[i] = e /\ \A j \in DOMAIN players \ {i} : players'[j] = players[j]
  BY <1>3, <1>4, <1>6, <1>7
<1> QED BY <1>2, <1>3, <1>6, <1>8

LEMMA AssignUserIDEffect ==
    ASSUME TypeOK, AssignUserID
    PROVE  \E i \in DOMAIN players :
            /\ players[i].guid = srv.guid
            /\ players' \in Seq(Session)
            /\ DOMAIN players' = DOMAIN players
            /\ \A j \in DOMAIN players \ {i} : players'[j] = players[j]
            /\ players'[i].guid = players[i].guid
            /\ players'[i].userid = srv.userid
            /\ players'[i].hwids = players[i].hwids
            /\ saved' = Recorded(srv.userid, players[i].hwids)
<1>1. srv.userid \in Users \cup {NoUser}
  BY DEF AssignUserID, TypeOK, SrvState, Idle
<1>2. PICK i \in Slots(srv.guid) :
        /\ players' = [players EXCEPT ![i].userid = srv.userid]
        /\ saved' = Recorded(srv.userid, players[i].hwids)
  BY DEF AssignUserID
<1>3. i \in DOMAIN players /\ players[i].guid = srv.guid
  BY DEF Slots
<1>4. players \in Seq(Session) /\ DOMAIN players = 1 .. Len(players)
  BY DEF TypeOK
<1> DEFINE e == [players[i] EXCEPT !.userid = srv.userid]
<1>5. e \in Session /\ e.guid = players[i].guid /\ e.userid = srv.userid
      /\ e.hwids = players[i].hwids
  BY <1>1, <1>3, SlotsTyped DEF Session
<1>6. players' = [players EXCEPT ![i] = e]
  BY <1>2
<1> HIDE DEF e
<1>7. players' \in Seq(Session) /\ DOMAIN players' = DOMAIN players
      /\ players'[i] = e /\ \A j \in DOMAIN players \ {i} : players'[j] = players[j]
  BY <1>3, <1>4, <1>5, <1>6
<1> QED BY <1>2, <1>3, <1>5, <1>7

\* SaveHWIDs adds the session's ids to its account's file, and takes no id
\* out of any file.
LEMMA RecordedFiles ==
    ASSUME TypeOK, NEW u \in Users \cup {NoUser}, NEW hwids \in Seq(Hwids)
    PROVE  /\ Recorded(u, hwids) \in [Users -> SUBSET Hwids]
           /\ \A v \in Users : saved[v] \subseteq Recorded(u, hwids)[v]
           /\ u # NoUser => Range(hwids) \subseteq Recorded(u, hwids)[u]
<1>1. Range(hwids) \subseteq Hwids
  BY DEF Range
<1> QED BY <1>1 DEF Recorded, TypeOK

-----------------------------------------------------------------------------
\* SessionRegistry's variables keep their types.
LEMMA TypeStep ==
    ASSUME TypeOK, [Next]_vars
    PROVE  TypeOK'
<1> USE RegistryAssumption
<1>1. ASSUME NEW g \in Guids
      PROVE  Closed(g) \in [Guids -> ConnState]
  BY DEF TypeOK, Closed, ConnState
<1>2. Idle \in SrvState
  BY DEF SrvState
<1>3. CASE ServerStep
  <2>1. ASSUME NEW g \in Guids, RefuseAddress(g) PROVE TypeOK'
    BY <2>1 DEF RefuseAddress, TypeOK, ConnState
  <2>2. ASSUME NEW g \in Guids, AcceptAddress(g) PROVE TypeOK'
    BY <2>2 DEF AcceptAddress, TypeOK, ConnState, SrvState
  <2>3. ASSUME NEW g \in Guids, NEW h \in Hwids, ReceiveHwid(g, h) PROVE TypeOK'
    BY <1>1, <1>2, <2>3 DEF ReceiveHwid, TypeOK, SrvState
  <2>4. ASSUME NEW g \in Guids, NEW u \in Users \cup {NoUser}, ReceiveUserID(g, u)
        PROVE TypeOK'
    BY <1>1, <1>2, <2>4 DEF ReceiveUserID, TypeOK, SrvState
  <2>5. ASSUME NEW g \in Guids, Disconnected(g) PROVE TypeOK'
    <3>1. players' \in Seq(Session)
      BY <2>5, ErasedSlots DEF Disconnected, Erased, Slots, TypeOK
    <3> QED BY <2>5, <3>1 DEF Disconnected, TypeOK, ConnState
  <2>6. ASSUME NEW g \in Guids, ReportHack(g) PROVE TypeOK'
    <3>1. PICK i \in Slots(g) : ReportHack(g)!2!(i)
      BY <2>6 DEF ReportHack
    <3>2. i \in DOMAIN players /\ players[i] \in Session
      BY <3>1 DEF Slots, TypeOK
    <3>3. banned' \in [ip : SUBSET Ips, hwid : SUBSET Hwids, userid : SUBSET Users]
      BY <3>1, <3>2 DEF TypeOK, Session, Blockable
    <3> QED BY <2>6, <3>3 DEF ReportHack, TypeOK
  <2>7. ASSUME AddPlayer PROVE TypeOK'
    BY <1>2, <2>7, AddPlayerEffect DEF AddPlayer, TypeOK
  <2>8. ASSUME RefuseHwid PROVE TypeOK'
    <3>1. srv.guid \in Guids
      BY <2>8 DEF RefuseHwid, TypeOK, SrvState, Idle
    <3> QED BY <1>1, <1>2, <2>8, <3>1 DEF RefuseHwid, TypeOK
  <2>9. ASSUME AssignHwid PROVE TypeOK'
    <3>1. PICK i \in DOMAIN players :
            /\ players' \in Seq(Session) /\ DOMAIN players' = DOMAIN players
            /\ saved' = Recorded(players[i].userid, players'[i].hwids)
      BY <2>9, AssignHwidEffect
    <3>2. players'[i] \in Session
      BY <3>1
    <3>3. players'[i].hwids \in Seq(Hwids)
      BY <3>2 DEF Session
    <3>4. saved' \in [Users -> SUBSET Hwids]
      BY <3>1, <3>3, SlotsTyped, RecordedFiles
    <3> QED BY <1>2, <2>9, <3>1, <3>4 DEF AssignHwid, TypeOK
  <2>10. ASSUME RefuseUserID PROVE TypeOK'
    <3>1. srv.guid \in Guids
      BY <2>10 DEF RefuseUserID, TypeOK, SrvState, Idle
    <3> QED BY <1>1, <1>2, <2>10, <3>1 DEF RefuseUserID, TypeOK
  <2>11. ASSUME AssignUserID PROVE TypeOK'
    <3>1. srv.userid \in Users \cup {NoUser}
      BY <2>11 DEF AssignUserID, TypeOK, SrvState, Idle
    <3>2. PICK i \in DOMAIN players :
            /\ players' \in Seq(Session)
            /\ saved' = Recorded(srv.userid, players[i].hwids)
      BY <2>11, AssignUserIDEffect
    <3>3. saved' \in [Users -> SUBSET Hwids]
      BY <3>1, <3>2, SlotsTyped, RecordedFiles
    <3> QED BY <1>2, <2>11, <3>2, <3>3 DEF AssignUserID, TypeOK
  <2> QED
    BY <1>3, <2>1, <2>2, <2>3, <2>4, <2>5, <2>6, <2>7, <2>8, <2>9, <2>10, <2>11
       DEF ServerStep
<1>4. CASE WebStep
  <2>1. ASSUME NEW u \in Users, NEW kicked, WebBanUserID(u, kicked) PROVE TypeOK'
    <3>1. conn' \in [Guids -> ConnState]
      BY <1>1, <2>1, SlotsTyped DEF WebBanUserID, TypeOK
    <3>2. banned' \in [ip : SUBSET Ips, hwid : SUBSET Hwids, userid : SUBSET Users]
      BY <2>1 DEF WebBanUserID, TypeOK
    <3> QED BY <2>1, <3>1, <3>2 DEF WebBanUserID, TypeOK
  <2>2. ASSUME NEW u \in Users, NEW kicked, WebBanHwids(u, kicked) PROVE TypeOK'
    <3>1. conn' \in [Guids -> ConnState]
      BY <1>1, <2>2, SlotsTyped DEF WebBanHwids, TypeOK
    <3>2. banned' \in [ip : SUBSET Ips, hwid : SUBSET Hwids, userid : SUBSET Users]
      BY <2>2 DEF WebBanHwids, TypeOK
    <3> QED BY <2>2, <3>1, <3>2 DEF WebBanHwids, TypeOK
  <2>3. ASSUME NEW g \in Guids, WebBanIp(g) PROVE TypeOK'
    <3>1. banned' \in [ip : SUBSET Ips, hwid : SUBSET Hwids, userid : SUBSET Users]
      BY <2>3 DEF WebBanIp, TypeOK
    <3> QED BY <1>1, <2>3, <3>1 DEF WebBanIp, TypeOK
  <2>4. ASSUME NEW g \in Guids, WebDisconnect(g) PROVE TypeOK'
    BY <1>1, <2>4 DEF WebDisconnect, TypeOK
  <2> QED BY <1>4, <2>1, <2>2, <2>3, <2>4 DEF WebStep
<1>5. ASSUME NEW g \in Guids, FinishClose(g) PROVE TypeOK'
  BY <1>5 DEF FinishClose, TypeOK, ConnState
<1>6. ASSUME NEW g \in Guids, RemoveSilent(g) PROVE TypeOK'
  <2>1. players' \in Seq(Session)
    BY <1>6, ErasedSlots DEF RemoveSilent, Erased, Slots
  <2> QED BY <1>1, <1>6, <2>1 DEF RemoveSilent, TypeOK
<1>7. ASSUME Reconfigure PROVE TypeOK'
  BY <1>7 DEF Reconfigure, TypeOK
<1>8. ASSUME UNCHANGED vars PROVE TypeOK'
  BY <1>8 DEF vars, TypeOK
<1> QED BY <1>3, <1>4, <1>5, <1>6, <1>7, <1>8 DEF Next

-----------------------------------------------------------------------------
\* A connection does not become new again, and only a new one is admitted.
LEMMA AdmissionSource ==
    ASSUME TypeOK, [Next]_vars, NEW g \in Guids
    PROVE  /\ conn'[g] = "none" => conn[g] = "none"
           /\ Admitting(g)' => Admitting(g) \/ (conn[g] = "none" /\ conn'[g] = "open")
<1> USE DEF Admitting
<1>1. ASSUME NEW k \in Guids PROVE Closed(k)[g] = "none" => conn[g] = "none"
  BY DEF Closed, TypeOK
<1>2. Idle.pc # "admit"
  BY DEF Idle
<1>3. ASSUME NEW k \in Guids, AcceptAddress(k)
      PROVE  /\ conn'[g] = "none" => conn[g] = "none"
             /\ Admitting(g)' => conn[g] = "none" /\ conn'[g] = "open"
  BY <1>3 DEF AcceptAddress, TypeOK
<1>4. ASSUME NEW k \in Guids, RefuseAddress(k) \/ Disconnected(k) \/ FinishClose(k)
      PROVE  /\ conn'[g] = "none" => conn[g] = "none"
             /\ Admitting(g)' => Admitting(g)
  BY <1>4 DEF RefuseAddress, Disconnected, FinishClose, TypeOK
<1>5. ASSUME NEW k \in Guids,
             \/ \E h \in Hwids : ReceiveHwid(k, h)
             \/ \E u \in Users \cup {NoUser} : ReceiveUserID(k, u)
      PROVE  (conn'[g] = "none" => conn[g] = "none") /\ ~Admitting(g)'
  BY <1>1, <1>2, <1>5 DEF ReceiveHwid, ReceiveUserID
<1>6. ASSUME RefuseHwid \/ RefuseUserID
      PROVE  (conn'[g] = "none" => conn[g] = "none") /\ ~Admitting(g)'
  <2>1. srv.guid \in Guids
    BY <1>6 DEF RefuseHwid, RefuseUserID, TypeOK, SrvState, Idle
  <2> QED BY <1>1, <1>2, <1>6, <2>1 DEF RefuseHwid, RefuseUserID
<1>7. ASSUME AddPlayer \/ AssignHwid \/ AssignUserID
      PROVE  UNCHANGED conn /\ ~Admitting(g)'
  BY <1>2, <1>7 DEF AddPlayer, AssignHwid, AssignUserID
<1>8. ASSUME NEW k \in Guids,
             ReportHack(k) \/ RemoveSilent(k) \/ WebBanIp(k) \/ WebDisconnect(k)
      PROVE  (conn'[g] = "none" => conn[g] = "none") /\ UNCHANGED srv
  BY <1>1, <1>8 DEF ReportHack, RemoveSilent, WebBanIp, WebDisconnect
<1>9. ASSUME NEW u \in Users, NEW kicked, WebBanUserID(u, kicked) \/ WebBanHwids(u, kicked)
      PROVE  (conn'[g] = "none" => conn[g] = "none") /\ UNCHANGED srv
  BY <1>1, <1>9, SlotsTyped DEF WebBanUserID, WebBanHwids
<1>10. CASE Reconfigure \/ UNCHANGED vars
  BY <1>10 DEF Reconfigure, vars
<1> QED
  BY <1>3, <1>4, <1>5, <1>6, <1>7, <1>8, <1>9, <1>10 DEF Next, ServerStep, WebStep

\* A guid in the registry after a step was there before, unless it was being
\* admitted.
LEMMA RegisteredSource ==
    ASSUME TypeOK, [Next]_vars, NEW g \in Guids, Registered(g)'
    PROVE  Registered(g) \/ (Admitting(g) /\ ~Admitting(g)' /\ UNCHANGED conn)
<1>1. PICK j \in DOMAIN players' : players'[j].guid = g
  BY DEF Registered, Slots
<1>2. CASE UNCHANGED players
  BY <1>1, <1>2 DEF Registered, Slots
<1>3. CASE AddPlayer
  <2>1. CASE j = Len(players) + 1
    BY <1>1, <1>3, <2>1, AddPlayerEffect DEF Admitting, AddPlayer, Idle
  <2>2. CASE j # Len(players) + 1
    BY <1>1, <1>3, <2>2, AddPlayerEffect DEF Registered, Slots
  <2> QED BY <2>1, <2>2
<1>4. CASE AssignHwid
  BY <1>1, <1>4, AssignHwidEffect DEF Registered, Slots
<1>5. CASE AssignUserID
  BY <1>1, <1>5, AssignUserIDEffect DEF Registered, Slots
<1>6. ASSUME NEW i \in DOMAIN players, Erased(i) PROVE Registered(g)
  BY <1>1, <1>6, ErasedSlots DEF Registered, Slots
<1> QED BY <1>2, <1>3, <1>4, <1>5, <1>6, RegistryChange

LEMMA FreshStep ==
    ASSUME TypeOK, Fresh, [Next]_vars
    PROVE  Fresh'
<1> SUFFICES ASSUME NEW g \in Guids
             PROVE  /\ conn'[g] = "none" => ~Registered(g)' /\ ~Admitting(g)'
                    /\ Admitting(g)' => ~Registered(g)'
  BY DEF Fresh
<1> QED BY AdmissionSource, RegisteredSource DEF Fresh

LEMMA UniqueGuidStep ==
    ASSUME TypeOK, Fresh, UniqueGuid, [Next]_vars
    PROVE  UniqueGuid'
<1>1. CASE UNCHANGED players
  BY <1>1 DEF UniqueGuid
<1>2. CASE AddPlayer
  <2>1. \A j \in DOMAIN players : players[j].guid # srv.guid
    BY <1>2, AddPlayerEffect DEF AddPlayer, Fresh, Admitting, Registered, Slots
  <2> QED BY <1>2, <2>1, AddPlayerEffect DEF UniqueGuid
<1>3. CASE AssignHwid
  BY <1>3, AssignHwidEffect DEF UniqueGuid
<1>4. CASE AssignUserID
  BY <1>4, AssignUserIDEffect DEF UniqueGuid
<1>5. ASSUME NEW i \in DOMAIN players, Erased(i) PROVE UniqueGuid'
  BY <1>5, ErasedSlots DEF UniqueGuid
<1> QED BY <1>1, <1>2, <1>3, <1>4, <1>5, RegistryChange

\* The heart of the matter: when the lookup under the lock finds no other
\* session with the name, no other session has it.
LEMMA SingleSessionStep ==
    ASSUME TypeOK, UniqueGuid, SingleSession, [Next]_vars
    PROVE  SingleSession'
<1> DEFINE Single(ps) == \A i, j \in DOMAIN ps :
                ps[i].userid = ps[j].userid /\ ps[i].userid # NoUser => i = j
<1> SUFFICES ASSUME \A c \in Configs : ~c.accMultisession, Single(players)
             PROVE  Single(players')
  BY DEF SingleSession
<1>1. CASE UNCHANGED players
  BY <1>1
<1>2. CASE AddPlayer
  BY <1>2, AddPlayerEffect
<1>3. CASE AssignHwid
  BY <1>3, AssignHwidEffect
<1>4. CASE AssignUserID
  <2>1. PICK i \in DOMAIN players :
            /\ players[i].guid = srv.guid
            /\ DOMAIN players' = DOMAIN players
            /\ \A j \in DOMAIN players \ {i} : players'[j] = players[j]
            /\ players'[i].userid = srv.userid
    BY <1>4, AssignUserIDEffect
  <2>2. ~UserIDTaken(srv.guid, srv.userid)
    BY <1>4 DEF AssignUserID, TypeOK
  <2>3. ASSUME NEW j \in DOMAIN players \ {i}, players[j].userid = srv.userid,
               srv.userid # NoUser
        PROVE  FALSE
    <3>1. \A k \in 1 .. (j - 1) : players[k].userid # srv.userid
      <4>1. \A k \in 1 .. (j - 1) : k \in DOMAIN players /\ k # j
        BY DEF TypeOK
      <4> QED BY <2>3, <4>1
    <3>2. players[j].guid # srv.guid
      BY <2>1 DEF UniqueGuid
    <3> QED BY <2>2, <2>3, <3>1, <3>2 DEF UserIDTaken
  <2> QED BY <2>1, <2>3
<1>5. ASSUME NEW i \in DOMAIN players, Erased(i) PROVE Single(players')
  BY <1>5, ErasedSlots
<1> QED BY <1>1, <1>2, <1>3, <1>4, <1>5, RegistryChange

LEMMA SingleMachineStep ==
    ASSUME TypeOK, SingleMachine, [Next]_vars
    PROVE  SingleMachine'
<1> DEFINE Single(ps) ==
        \A i, j \in DOMAIN ps :
            \A k \in DOMAIN ps[i].hwids, m \in DOMAIN ps[j].hwids :
                ps[i].hwids[k] = ps[j].hwids[m] => i = j /\ k = m
<1> SUFFICES ASSUME \A c \in Configs : ~c.hwidMultisession, Single(players)
             PROVE  Single(players')
  BY DEF SingleMachine
<1>1. CASE UNCHANGED players
  BY <1>1
<1>2. CASE AddPlayer
  BY <1>2, AddPlayerEffect
<1>3. CASE AssignHwid
  <2>1. PICK i \in DOMAIN players :
            /\ DOMAIN players' = DOMAIN players
            /\ \A j \in DOMAIN players \ {i} : players'[j] = players[j]
            /\ players'[i].hwids = Append(players[i].hwids, srv.hwid)
    BY <1>3, AssignHwidEffect
  <2>2. \A j \in DOMAIN players : \A k \in DOMAIN players[j].hwids :
            players[j].hwids[k] # srv.hwid
    BY <1>3 DEF AssignHwid, TypeOK, HwidInUse, Range
  <2> DEFINE n == Len(players[i].hwids) + 1
  <2>3. /\ DOMAIN players'[i].hwids = DOMAIN players[i].hwids \cup {n}
        /\ n \notin DOMAIN players[i].hwids
        /\ players'[i].hwids[n] = srv.hwid
        /\ \A k \in DOMAIN players[i].hwids : players'[i].hwids[k] = players[i].hwids[k]
    BY <2>1, SlotsTyped
  <2> HIDE DEF n
  <2>4. ASSUME NEW a \in DOMAIN players, NEW b \in DOMAIN players,
               NEW k \in DOMAIN players'[a].hwids, NEW m \in DOMAIN players'[b].hwids,
               players'[a].hwids[k] = players'[b].hwids[m]
        PROVE  a = b /\ k = m
    <3>1. CASE a # i /\ b # i
      BY <2>1, <2>4, <3>1
    <3>2. CASE a = i /\ b # i
      BY <2>1, <2>2, <2>3, <2>4, <3>2
    <3>3. CASE a # i /\ b = i
      BY <2>1, <2>2, <2>3, <2>4, <3>3
    <3>4. CASE a = i /\ b = i
      BY <2>2, <2>3, <2>4, <3>4
    <3> QED BY <3>1, <3>2, <3>3, <3>4
  <2> QED BY <2>1, <2>4
<1>4. CASE AssignUserID
  BY <1>4, AssignUserIDEffect
<1>5. ASSUME NEW i \in DOMAIN players, Erased(i) PROVE Single(players')
  BY <1>5, ErasedSlots
<1> QED BY <1>1, <1>2, <1>3, <1>4, <1>5, RegistryChange

LEMMA OpenIsSupervisedStep ==
    ASSUME TypeOK, OpenIsSupervised, [Next]_vars
    PROVE  OpenIsSupervised'
<1> SUFFICES ASSUME NEW g \in Guids, conn'[g] = "open"
             PROVE  Registered(g)' \/ Admitting(g)'
  BY DEF OpenIsSupervised, Admitting
<1>1. ASSUME Registered(g) PROVE Registered(g)'
  <2>1. PICK j \in DOMAIN players : players[j].guid = g
    BY <1>1 DEF Registered, Slots
  <2>2. \E k \in DOMAIN players' : players'[k].guid = g
    <3>1. CASE UNCHANGED players
      BY <2>1, <3>1
    <3>2. CASE AddPlayer
      BY <2>1, <3>2, AddPlayerEffect
    <3>3. CASE AssignHwid
      BY <2>1, <3>3, AssignHwidEffect
    <3>4. CASE AssignUserID
      BY <2>1, <3>4, AssignUserIDEffect
    <3>5. ASSUME NEW i \in DOMAIN players, Erased(i), conn'[players[i].guid] # "open"
          PROVE  \E k \in DOMAIN players' : players'[k].guid = g
      BY <2>1, <3>5, ErasedSlots
    <3> QED BY <3>1, <3>2, <3>3, <3>4, <3>5, RegistryChange
  <2> QED BY <2>2 DEF Registered, Slots
<1>2. ASSUME Admitting(g), ~Admitting(g)' PROVE Registered(g)'
  <2>1. AddPlayer
    BY <1>2
    DEF Next, ServerStep, WebStep, RefuseAddress, AcceptAddress, ReceiveHwid,
        RefuseHwid, AssignHwid, ReceiveUserID, RefuseUserID, AssignUserID,
        Disconnected, ReportHack, FinishClose, RemoveSilent, WebBanUserID,
        WebBanHwids, WebBanIp, WebDisconnect, Reconfigure, vars, Admitting,
        Delivering, Idle
  <2> QED BY <1>2, <2>1, AddPlayerEffect DEF Registered, Slots, Admitting
<1>3. conn[g] = "open" \/ Admitting(g)'
  <2>1. ASSUME NEW k \in Guids, AcceptAddress(k) PROVE conn[g] = "open" \/ Admitting(g)'
    BY <2>1 DEF AcceptAddress, Admitting, TypeOK
  <2>2. ASSUME NEW k \in Guids, RefuseAddress(k) \/ Disconnected(k) \/ FinishClose(k)
        PROVE  conn[g] = "open"
    BY <2>2 DEF RefuseAddress, Disconnected, FinishClose, TypeOK
  <2>3. ASSUME NEW k \in Guids PROVE Closed(k)[g] = "open" => conn[g] = "open"
    BY DEF Closed, TypeOK
  <2>4. CASE RefuseHwid \/ RefuseUserID
    <3>1. srv.guid \in Guids
      BY <2>4 DEF RefuseHwid, RefuseUserID, TypeOK, SrvState, Idle
    <3> QED BY <2>3, <2>4, <3>1 DEF RefuseHwid, RefuseUserID
  <2>5. ASSUME NEW k \in Guids,
               \/ \E h \in Hwids : ReceiveHwid(k, h)
               \/ \E u \in Users \cup {NoUser} : ReceiveUserID(k, u)
               \/ ReportHack(k) \/ RemoveSilent(k) \/ WebBanIp(k) \/ WebDisconnect(k)
        PROVE  conn[g] = "open"
    BY <2>3, <2>5 DEF ReceiveHwid, ReceiveUserID, ReportHack, RemoveSilent,
                      WebBanIp, WebDisconnect
  <2>6. ASSUME NEW u \in Users, NEW kicked,
               WebBanUserID(u, kicked) \/ WebBanHwids(u, kicked)
        PROVE  conn[g] = "open"
    BY <2>3, <2>6, SlotsTyped DEF WebBanUserID, WebBanHwids
  <2>7. CASE AddPlayer \/ AssignHwid \/ AssignUserID \/ Reconfigure \/ UNCHANGED vars
    BY <2>7 DEF AddPlayer, AssignHwid, AssignUserID, Reconfigure, vars
  <2> QED
    BY <2>1, <2>2, <2>4, <2>5, <2>6, <2>7 DEF Next, ServerStep, WebStep
<1> QED BY <1>1, <1>2, <1>3 DEF OpenIsSupervised, Admitting

LEMMA SavedCoversSessionStep ==
    ASSUME TypeOK, SavedCoversSession, [Next]_vars
    PROVE  SavedCoversSession'
<1> DEFINE Covered(e, files) ==
        e.userid # NoUser => Range(e.hwids) \subseteq files[e.userid]
<1>0. \A j \in DOMAIN players : Covered(players[j], saved)
  BY DEF SavedCoversSession
<1> SUFFICES \A j \in DOMAIN players' : Covered(players'[j], saved')
  BY DEF SavedCoversSession
<1>1. CASE UNCHANGED <<players, saved>>
  BY <1>0, <1>1
<1>2. CASE AddPlayer
  <2>1. UNCHANGED saved
    BY <1>2 DEF AddPlayer
  <2> QED BY <1>0, <1>2, <2>1, AddPlayerEffect
<1>3. CASE AssignHwid
  <2>1. PICK i \in DOMAIN players :
            /\ players' \in Seq(Session)
            /\ DOMAIN players' = DOMAIN players
            /\ \A j \in DOMAIN players \ {i} : players'[j] = players[j]
            /\ players'[i].userid = players[i].userid
            /\ saved' = Recorded(players[i].userid, players'[i].hwids)
    BY <1>3, AssignHwidEffect
  <2>2. players'[i] \in Session
    BY <2>1
  <2>3. players'[i].hwids \in Seq(Hwids)
    BY <2>2 DEF Session
  <2>4. /\ \A v \in Users : saved[v] \subseteq saved'[v]
        /\ Covered(players'[i], saved')
    BY <2>1, <2>3, SlotsTyped, RecordedFiles
  <2>5. ASSUME NEW j \in DOMAIN players \ {i} PROVE Covered(players[j], saved')
    BY <1>0, <2>4, SlotsTyped
  <2> QED BY <2>1, <2>4, <2>5
<1>4. CASE AssignUserID
  <2>1. PICK i \in DOMAIN players :
            /\ DOMAIN players' = DOMAIN players
            /\ \A j \in DOMAIN players \ {i} : players'[j] = players[j]
            /\ players'[i].userid = srv.userid
            /\ players'[i].hwids = players[i].hwids
            /\ saved' = Recorded(srv.userid, players[i].hwids)
    BY <1>4, AssignUserIDEffect
  <2>2. srv.userid \in Users \cup {NoUser}
    BY <1>4 DEF AssignUserID, TypeOK, SrvState, Idle
  <2>3. /\ \A v \in Users : saved[v] \subseteq saved'[v]
        /\ Covered(players'[i], saved')
    BY <2>1, <2>2, SlotsTyped, RecordedFiles
  <2>4. ASSUME NEW j \in DOMAIN players \ {i} PROVE Covered(players[j], saved')
    BY <1>0, <2>3, SlotsTyped
  <2> QED BY <2>1, <2>3, <2>4
<1>5. ASSUME NEW i \in DOMAIN players, Erased(i), UNCHANGED saved
      PROVE  \A j \in DOMAIN players' : Covered(players'[j], saved')
  <2>1. ASSUME NEW j \in DOMAIN players'
        PROVE  /\ OldSlot(i, j) \in DOMAIN players
               /\ players'[j] = players[OldSlot(i, j)]
    BY <1>5, ErasedSlots
  <2> HIDE DEF Covered
  <2>2. ASSUME NEW j \in DOMAIN players' PROVE Covered(players'[j], saved)
    BY <1>0, <2>1
  <2>3. saved' = saved
    BY <1>5
  <2> QED BY <2>2, <2>3
<1> QED BY <1>1, <1>2, <1>3, <1>4, <1>5, RegistryChange

-----------------------------------------------------------------------------
LEMMA InitIInv == Init => IInv
<1> SUFFICES ASSUME Init PROVE IInv
  OBVIOUS
<1> USE DEF Init
<1>1. TypeOK
  <2>1. players \in Seq(Session)
    OBVIOUS
  <2>2. conn \in [Guids -> ConnState] /\ srv \in SrvState
    BY DEF ConnState, SrvState
  <2>3. banned \in [ip : SUBSET Ips, hwid : SUBSET Hwids, userid : SUBSET Users]
    OBVIOUS
  <2> QED BY <2>1, <2>2, <2>3 DEF TypeOK
<1>2. \A g \in Guids : ~Registered(g) /\ ~Admitting(g)
  BY DEF Registered, Slots, Admitting, Idle
<1> QED
  BY <1>1, <1>2 DEF IInv, Fresh, UniqueGuid, SingleSession, SingleMachine,
                    OpenIsSupervised, SavedCoversSession

LEMMA IInvStep == IInv /\ [Next]_vars => IInv'
BY TypeStep, FreshStep, UniqueGuidStep, SingleSessionStep, SingleMachineStep,
   OpenIsSupervisedStep, SavedCoversSessionStep DEF IInv

LEMMA Invariance == Spec => []IInv
BY InitIInv, IInvStep, PTL DEF Spec

\* The variables of the registry keep their types, whatever the clients, the
\* administrator and the three threads do.
THEOREM TypeCorrect == Spec => []TypeOK
<1>1. IInv => TypeOK
  BY DEF IInv
<1> QED BY <1>1, Invariance, PTL

\* A connection has one session at most, so looking up a guid is unambiguous.
THEOREM RegistryUnique == Spec => []UniqueGuid
<1>1. IInv => UniqueGuid
  BY DEF IInv
<1> QED BY <1>1, Invariance, PTL

\* While several sessions of an account are never allowed, no account is ever
\* logged in twice.
THEOREM OneSessionPerAccount == Spec => []SingleSession
<1>1. IInv => SingleSession
  BY DEF IInv
<1> QED BY <1>1, Invariance, PTL

\* While several sessions of a machine are never allowed, no hardware id is
\* ever held twice.
THEOREM OneSessionPerMachine == Spec => []SingleMachine
<1>1. IInv => SingleMachine
  BY DEF IInv
<1> QED BY <1>1, Invariance, PTL

\* No connection stays open outside the reach of the check thread.
THEOREM NoUnsupervisedConnection == Spec => []OpenIsSupervised
<1>1. IInv => OpenIsSupervised
  BY DEF IInv
<1> QED BY <1>1, Invariance, PTL

\* The file of an account covers the machines it is playing on.
THEOREM FilesCoverSessions == Spec => []SavedCoversSession
<1>1. IInv => SavedCoversSession
  BY DEF IInv
<1> QED BY <1>1, Invariance, PTL

-----------------------------------------------------------------------------
(* Bans.                                                                   *)

LEMMA BansStay ==
    ASSUME TypeOK, [Next]_vars
    PROVE  banned.userid \subseteq banned'.userid
BY DEF Next, ServerStep, WebStep, RefuseAddress, AcceptAddress, AddPlayer,
       ReceiveHwid, RefuseHwid, AssignHwid, ReceiveUserID, RefuseUserID,
       AssignUserID, Disconnected, ReportHack, FinishClose, RemoveSilent,
       WebBanUserID, WebBanHwids, WebBanIp, WebDisconnect, Reconfigure, vars,
       TypeOK

LEMMA KeptOutStep ==
    ASSUME TypeOK, [Next]_vars, NEW u \in Users, KeptOut(u)
    PROVE  KeptOut(u)'
<1>1. u \in banned'.userid
  BY BansStay DEF KeptOut
<1>2. \A i \in DOMAIN players : players[i].userid # u
  BY DEF KeptOut
<1>3. \A i \in DOMAIN players' : players'[i].userid # u
  <2>1. CASE UNCHANGED players
    BY <1>2, <2>1
  <2>2. CASE AddPlayer
    BY <1>2, <2>2, AddPlayerEffect, RegistryAssumption
  <2>3. CASE AssignHwid
    BY <1>2, <2>3, AssignHwidEffect
  <2>4. CASE AssignUserID
    <3>1. srv.userid # u
      BY <2>4 DEF AssignUserID, KeptOut
    <3> QED BY <1>2, <2>4, <3>1, AssignUserIDEffect
  <2>5. ASSUME NEW i \in DOMAIN players, Erased(i)
        PROVE  \A j \in DOMAIN players' : players'[j].userid # u
    BY <1>2, <2>5, ErasedSlots
  <2> QED BY <2>1, <2>2, <2>3, <2>4, <2>5, RegistryChange
<1>4. ~(srv'.pc = "login" /\ srv'.userid = u)
  <2>1. ASSUME NEW g \in Guids, NEW v \in Users \cup {NoUser}, ReceiveUserID(g, v)
        PROVE  ~(srv'.pc = "login" /\ srv'.userid = u)
    BY <2>1 DEF ReceiveUserID, KeptOut, Idle
  <2>2. ASSUME \/ \E g \in Guids : AcceptAddress(g) \/ \E h \in Hwids : ReceiveHwid(g, h)
               \/ AddPlayer \/ RefuseHwid \/ AssignHwid \/ RefuseUserID \/ AssignUserID
        PROVE  srv'.pc # "login"
    BY <2>2 DEF AcceptAddress, ReceiveHwid, AddPlayer, RefuseHwid, AssignHwid,
                RefuseUserID, AssignUserID, Idle
  <2> QED
    BY <2>1, <2>2
    DEF Next, ServerStep, WebStep, RefuseAddress, Disconnected, ReportHack,
        FinishClose, RemoveSilent, WebBanUserID, WebBanHwids, WebBanIp,
        WebDisconnect, Reconfigure, vars, KeptOut
<1> QED BY <1>1, <1>3, <1>4 DEF KeptOut

\* Once an account is banned and has neither a session nor a login under way,
\* no step of any thread logs it in or brings a login of it under way.
THEOREM BannedStaysOut == Spec => BanKeepsOut
<1>1. IInv /\ [Next]_vars => [\A u \in Users : KeptOut(u) => KeptOut(u)']_vars
  BY KeptOutStep DEF IInv
<1> QED BY <1>1, Invariance, PTL DEF Spec, BanKeepsOut

-----------------------------------------------------------------------------
(* The registry implements ExclusiveClaims for account names.              *)

LEMMA ClaimsOfSlots ==
    ASSUME NEW ps \in Seq(Session)
    PROVE  /\ ClaimedAccounts(ps) \subseteq Guids \X Users
           /\ \A g \in Guids, u \in Users :
                <<g, u>> \in ClaimedAccounts(ps) <=>
                    \E i \in DOMAIN ps : ps[i].guid = g /\ ps[i].userid = u
<1>1. \A i \in DOMAIN ps : ps[i].guid \in Guids /\ ps[i].userid \in Users \cup {NoUser}
  <2>1. \A i \in DOMAIN ps : ps[i] \in Session
    OBVIOUS
  <2> QED BY <2>1 DEF Session
<1> QED BY <1>1, RegistryAssumption DEF ClaimedAccounts

\* Two sets of claims with the same pairs are the same set.
LEMMA SameClaims ==
    ASSUME NEW C \in SUBSET (Guids \X Users), NEW D \in SUBSET (Guids \X Users),
           \A g \in Guids, u \in Users : <<g, u>> \in C <=> <<g, u>> \in D
    PROVE  C = D
OBVIOUS

Holds(g, u) ==
    \E i \in DOMAIN players : players[i].guid = g /\ players[i].userid = u

\* A login moves the claims of one guid, and a refusal none.
LEMMA LoginMovesClaims ==
    ASSUME TypeOK, UniqueGuid, AssignUserID, NEW g \in Guids, NEW u \in Users
    PROVE  Holds(g, u)' <=> IF g = srv.guid THEN u = srv.userid ELSE Holds(g, u)
<1>1. PICK i \in DOMAIN players :
        /\ players[i].guid = srv.guid
        /\ DOMAIN players' = DOMAIN players
        /\ \A j \in DOMAIN players \ {i} : players'[j] = players[j]
        /\ players'[i].guid = players[i].guid
        /\ players'[i].userid = srv.userid
  BY AssignUserIDEffect
<1>2. \A j \in DOMAIN players \ {i} : players[j].guid # srv.guid
  BY <1>1 DEF UniqueGuid
<1>3. CASE g = srv.guid
  BY <1>1, <1>2, <1>3 DEF Holds
<1>4. CASE g # srv.guid
  BY <1>1, <1>4 DEF Holds
<1> QED BY <1>3, <1>4

\* Erasing a session releases the claims of its guid.
LEMMA ErasingReleasesClaims ==
    ASSUME TypeOK, UniqueGuid, NEW i \in DOMAIN players, Erased(i),
           NEW g \in Guids, NEW u \in Users
    PROVE  Holds(g, u)' <=> g # players[i].guid /\ Holds(g, u)
<1>1. \A j \in DOMAIN players \ {i} : players[j].guid # players[i].guid
  BY DEF UniqueGuid
<1>2. Holds(g, u)' => g # players[i].guid /\ Holds(g, u)
  BY <1>1, ErasedSlots DEF Holds
<1>3. g # players[i].guid /\ Holds(g, u) => Holds(g, u)'
  BY ErasedSlots DEF Holds
<1> QED BY <1>2, <1>3

\* A guid has one name at most.
LEMMA OneNameEach ==
    ASSUME UniqueGuid, NEW g, NEW u, NEW v, Holds(g, u), Holds(g, v)
    PROVE  u = v
BY DEF Holds, UniqueGuid

\* GetPlayerGUIDByUserID looks at the first session with the name only.
\* If the name is not the asker's already, that is enough.
LEMMA FreeNameHasNoHolder ==
    ASSUME TypeOK, NEW g, NEW u, ~Holds(g, u), ~UserIDTaken(g, u)
    PROVE  \A other : ~Holds(other, u)
<1> DEFINE T == {i \in DOMAIN players : players[i].userid = u}
<1>1. players \in Seq(Session) /\ DOMAIN players \subseteq Nat
  BY DEF TypeOK
<1>2. CASE T = {}
  BY <1>2 DEF Holds
<1>3. CASE T # {}
  <2>1. T \in SUBSET Nat
    BY <1>1
  <2> HIDE DEF T
  <2>2. PICK m \in T : \A k \in T : m <= k
    BY <1>3, <2>1, LeastElement
  <2>3. m \in DOMAIN players /\ players[m].userid = u
    BY DEF T
  <2>4. ASSUME NEW j \in 1 .. (m - 1)
        PROVE  players[j].userid # u
    <3>1. m \in 1 .. Len(players) /\ DOMAIN players = 1 .. Len(players) /\ Len(players) \in Nat
      BY <1>1, <2>3
    <3>2. j \in DOMAIN players /\ ~(m <= j)
      BY <3>1
    <3> QED BY <2>2, <3>2 DEF T
  <2>5. players[m].guid # g
    BY <2>3 DEF Holds
  <2>6. UserIDTaken(g, u)
    BY <2>3, <2>4, <2>5 DEF UserIDTaken
  <2> QED BY <2>6
<1> QED BY <1>2, <1>3

LEMMA AccountClaimsStep ==
    ASSUME TypeOK, TypeOK', UniqueGuid, [Next]_vars
    PROVE  [AccountClaims!Next]_(AccountClaims!vars)
<1> DEFINE C == ClaimedAccounts(players)
           D == ClaimedAccounts(players')
           Kept(g) == {c \in C : c[1] # g}
<1>1. /\ players \in Seq(Session) /\ players' \in Seq(Session)
      /\ config \in Configs /\ config' \in Configs
  BY DEF TypeOK
<1>2. /\ C \in SUBSET (Guids \X Users) /\ D \in SUBSET (Guids \X Users)
      /\ \A g \in Guids, u \in Users : /\ <<g, u>> \in C <=> Holds(g, u)
                                       /\ <<g, u>> \in D <=> Holds(g, u)'
  BY <1>1, ClaimsOfSlots DEF Holds
<1> HIDE DEF C, D
<1>3. ASSUME C = D
      PROVE  [AccountClaims!Next]_(AccountClaims!vars)
  <2>1. (~config'.accMultisession) \in BOOLEAN
    BY <1>1, RegistryAssumption
  <2> QED
    BY <1>3, <2>1 DEF C, D, AccountClaims!Next, AccountClaims!Reconfigure, AccountClaims!vars
<1>4. ASSUME NEW g \in Guids, D = Kept(g), UNCHANGED config
      PROVE  AccountClaims!Next
  BY <1>4 DEF C, D, AccountClaims!Next, AccountClaims!Release
<1>5. CASE UNCHANGED players
  BY <1>3, <1>5 DEF C, D
<1>6. CASE AddPlayer \/ AssignHwid
  <2>1. ASSUME NEW g \in Guids, NEW u \in Users
        PROVE  Holds(g, u) <=> Holds(g, u)'
    BY <1>6, AddPlayerEffect, AssignHwidEffect, RegistryAssumption DEF Holds
  <2>2. C = D
    BY <1>2, <2>1, SameClaims
  <2> QED BY <1>3, <2>2
<1>7. CASE AssignUserID
  <2>1. /\ srv.guid \in Guids /\ srv.userid \in Users \cup {NoUser}
        /\ UNCHANGED config
        /\ config.accMultisession \/ ~UserIDTaken(srv.guid, srv.userid)
    BY <1>7 DEF AssignUserID, TypeOK, SrvState, Idle
  <2>2. CASE srv.userid = NoUser
    <3>1. ASSUME NEW g \in Guids, NEW u \in Users
          PROVE  <<g, u>> \in D <=> <<g, u>> \in Kept(srv.guid)
      BY <1>2, <1>7, <2>2, LoginMovesClaims, RegistryAssumption
    <3>2. D = Kept(srv.guid)
      BY <1>2, <3>1, SameClaims
    <3> QED BY <1>4, <2>1, <3>2
  <2>3. CASE srv.userid # NoUser
    <3>1. srv.userid \in Users
      BY <2>1, <2>3
    <3> DEFINE E == Kept(srv.guid) \cup {<<srv.guid, srv.userid>>}
    <3>2. ASSUME NEW g \in Guids, NEW u \in Users
          PROVE  <<g, u>> \in D <=> <<g, u>> \in E
      BY <1>2, <1>7, LoginMovesClaims
    <3>3. E \in SUBSET (Guids \X Users)
      BY <1>2, <2>1, <3>1
    <3>4. D = E
      BY <1>2, <3>2, <3>3, SameClaims
    <3>5. CASE Holds(srv.guid, srv.userid)
      <4>1. ASSUME NEW g \in Guids, NEW u \in Users
            PROVE  <<g, u>> \in C <=> <<g, u>> \in D
        BY <1>2, <1>7, <3>5, LoginMovesClaims, OneNameEach
      <4> QED BY <1>2, <1>3, <4>1, SameClaims
    <3>6. CASE ~Holds(srv.guid, srv.userid)
      <4>1. ~config.accMultisession => ~AccountClaims!HeldByOther(srv.guid, srv.userid)
        BY <1>2, <2>1, <3>1, <3>6, FreeNameHasNoHolder DEF C, AccountClaims!HeldByOther
      <4> QED
        BY <2>1, <3>1, <3>4, <4>1
        DEF C, D, AccountClaims!Next, AccountClaims!Switch
    <3> QED BY <3>5, <3>6
  <2> QED BY <2>2, <2>3
<1>8. ASSUME NEW i \in DOMAIN players, Erased(i), UNCHANGED config
      PROVE  [AccountClaims!Next]_(AccountClaims!vars)
  <2>1. players[i].guid \in Guids
    BY SlotsTyped
  <2>2. ASSUME NEW g \in Guids, NEW u \in Users
        PROVE  <<g, u>> \in D <=> <<g, u>> \in Kept(players[i].guid)
    BY <1>2, <1>8, ErasingReleasesClaims
  <2>3. D = Kept(players[i].guid)
    BY <1>2, <2>2, SameClaims
  <2> QED BY <1>4, <1>8, <2>1, <2>3
<1> QED BY <1>5, <1>6, <1>7, <1>8, RegistryChange

(***************************************************************************)
(* The registry implements ExclusiveClaims for account names: every step   *)
(* of the three threads claims, switches or releases names as the abstract *)
(* specification lets it, or does not touch them (AssignUserIDToPlayer,    *)
(* RemovePlayerByGUID), under every sequence of settings.                  *)
(***************************************************************************)
THEOREM ImplementsAccountClaims == Spec => KeepsAccountClaims
<1>1. Init => AccountClaims!Init
  <2> SUFFICES ASSUME Init PROVE AccountClaims!Init
    OBVIOUS
  <2>1. ClaimedAccounts(players) = {}
    BY DEF Init, ClaimedAccounts
  <2>2. (~config.accMultisession) \in BOOLEAN
    OBVIOUS
  <2> QED BY <2>1, <2>2 DEF AccountClaims!Init
<1>2. IInv /\ IInv' /\ [Next]_vars => [AccountClaims!Next]_(AccountClaims!vars)
  BY AccountClaimsStep DEF IInv
<1>3. Spec => []IInv
  BY Invariance
<1> QED
  BY <1>1, <1>2, <1>3, PTL DEF Spec, KeepsAccountClaims, AccountClaims!Spec

-----------------------------------------------------------------------------
(* The registry implements ExclusiveClaims for hardware ids.               *)

Reports(g, h) ==
    \E i \in DOMAIN players : players[i].guid = g /\ h \in Range(players[i].hwids)

\* The ids of a list with one more id at its end.
LEMMA RangeOfAppend ==
    ASSUME NEW s \in Seq(Hwids), NEW h \in Hwids
    PROVE  Range(Append(s, h)) = Range(s) \cup {h}
<1>1. /\ DOMAIN Append(s, h) = DOMAIN s \cup {Len(s) + 1}
      /\ Len(s) + 1 \notin DOMAIN s
      /\ Append(s, h)[Len(s) + 1] = h
      /\ \A k \in DOMAIN s : Append(s, h)[k] = s[k]
  OBVIOUS
<1> QED BY <1>1 DEF Range

LEMMA MachinesOfSlots ==
    ASSUME NEW ps \in Seq(Session)
    PROVE  /\ ClaimedMachines(ps) \subseteq Guids \X Hwids
           /\ \A g \in Guids, h \in Hwids :
                <<g, h>> \in ClaimedMachines(ps) <=>
                    \E i \in DOMAIN ps : ps[i].guid = g /\ h \in Range(ps[i].hwids)
<1>1. \A i \in DOMAIN ps : ps[i].guid \in Guids /\ Range(ps[i].hwids) \subseteq Hwids
  <2>1. \A i \in DOMAIN ps : ps[i] \in Session
    OBVIOUS
  <2>2. \A i \in DOMAIN ps : ps[i].guid \in Guids /\ ps[i].hwids \in Seq(Hwids)
    BY <2>1 DEF Session
  <2> QED BY <2>2 DEF Range
<1>2. \A c : c \in ClaimedMachines(ps) <=>
                \E i \in DOMAIN ps : c \in {ps[i].guid} \X Range(ps[i].hwids)
  BY DEF ClaimedMachines
<1> QED BY <1>1, <1>2

\* Two sets of claims with the same pairs are the same set.
LEMMA SameMachines ==
    ASSUME NEW C \in SUBSET (Guids \X Hwids), NEW D \in SUBSET (Guids \X Hwids),
           \A g \in Guids, h \in Hwids : <<g, h>> \in C <=> <<g, h>> \in D
    PROVE  C = D
OBVIOUS

\* An accepted id is claimed by the guid that reports it, and nothing else
\* changes hands.
LEMMA ReportAddsClaim ==
    ASSUME TypeOK, AssignHwid, NEW g \in Guids, NEW h \in Hwids
    PROVE  Reports(g, h)' <=> Reports(g, h) \/ (g = srv.guid /\ h = srv.hwid)
<1>1. PICK i \in DOMAIN players :
        /\ players[i].guid = srv.guid
        /\ DOMAIN players' = DOMAIN players
        /\ \A j \in DOMAIN players \ {i} : players'[j] = players[j]
        /\ players'[i].guid = players[i].guid
        /\ players'[i].hwids = Append(players[i].hwids, srv.hwid)
  BY AssignHwidEffect
<1>2. srv.hwid \in Hwids
  BY DEF AssignHwid, TypeOK, SrvState, Idle
<1>3. Range(players'[i].hwids) = Range(players[i].hwids) \cup {srv.hwid}
  BY <1>1, <1>2, SlotsTyped, RangeOfAppend
<1>4. \A j \in DOMAIN players :
        /\ players'[j].guid = players[j].guid
        /\ h \in Range(players'[j].hwids) <=>
              h \in Range(players[j].hwids) \/ (j = i /\ h = srv.hwid)
  BY <1>1, <1>3
<1> QED BY <1>1, <1>4 DEF Reports

\* Erasing a session releases the ids of its guid.
LEMMA ErasingReleasesMachines ==
    ASSUME TypeOK, UniqueGuid, NEW i \in DOMAIN players, Erased(i),
           NEW g \in Guids, NEW h \in Hwids
    PROVE  Reports(g, h)' <=> g # players[i].guid /\ Reports(g, h)
<1>1. \A j \in DOMAIN players \ {i} : players[j].guid # players[i].guid
  BY DEF UniqueGuid
<1>2. Reports(g, h)' => g # players[i].guid /\ Reports(g, h)
  BY <1>1, ErasedSlots DEF Reports
<1>3. g # players[i].guid /\ Reports(g, h) => Reports(g, h)'
  BY ErasedSlots DEF Reports
<1> QED BY <1>2, <1>3

LEMMA MachineClaimsStep ==
    ASSUME TypeOK, TypeOK', UniqueGuid, [Next]_vars
    PROVE  [MachineClaims!Next]_(MachineClaims!vars)
<1> DEFINE C == ClaimedMachines(players)
           D == ClaimedMachines(players')
           Kept(g) == {c \in C : c[1] # g}
<1>1. /\ players \in Seq(Session) /\ players' \in Seq(Session)
      /\ config \in Configs /\ config' \in Configs
  BY DEF TypeOK
<1>2. /\ C \in SUBSET (Guids \X Hwids) /\ D \in SUBSET (Guids \X Hwids)
      /\ \A g \in Guids, h \in Hwids : /\ <<g, h>> \in C <=> Reports(g, h)
                                       /\ <<g, h>> \in D <=> Reports(g, h)'
  BY <1>1, MachinesOfSlots DEF Reports
<1> HIDE DEF C, D
<1>3. ASSUME C = D
      PROVE  [MachineClaims!Next]_(MachineClaims!vars)
  <2>1. (~config'.hwidMultisession) \in BOOLEAN
    BY <1>1, RegistryAssumption
  <2> QED
    BY <1>3, <2>1 DEF C, D, MachineClaims!Next, MachineClaims!Reconfigure, MachineClaims!vars
<1>4. CASE UNCHANGED players
  BY <1>3, <1>4 DEF C, D
<1>5. CASE AddPlayer \/ AssignUserID
  <2>1. ASSUME NEW g \in Guids, NEW h \in Hwids
        PROVE  Reports(g, h) <=> Reports(g, h)'
    <3>1. CASE AddPlayer
      <4>1. Range(<<>>) = {}
        BY DEF Range
      <4> QED BY <3>1, <4>1, AddPlayerEffect DEF Reports
    <3>2. CASE AssignUserID
      BY <3>2, AssignUserIDEffect DEF Reports
    <3> QED BY <1>5, <3>1, <3>2
  <2>2. C = D
    BY <1>2, <2>1, SameMachines
  <2> QED BY <1>3, <2>2
<1>6. CASE AssignHwid
  <2>1. /\ srv.guid \in Guids /\ srv.hwid \in Hwids
        /\ UNCHANGED config
        /\ config.hwidMultisession \/ ~HwidInUse(srv.hwid)
    BY <1>6 DEF AssignHwid, TypeOK, SrvState, Idle
  <2> DEFINE E == C \cup {<<srv.guid, srv.hwid>>}
  <2>2. ASSUME NEW g \in Guids, NEW h \in Hwids
        PROVE  <<g, h>> \in D <=> <<g, h>> \in E
    BY <1>2, <1>6, ReportAddsClaim
  <2>3. E \in SUBSET (Guids \X Hwids)
    BY <1>2, <2>1
  <2>4. D = E
    BY <1>2, <2>2, <2>3, SameMachines
  <2>5. ~config.hwidMultisession => ~MachineClaims!HeldByOther(srv.guid, srv.hwid)
    BY <1>2, <2>1 DEF C, MachineClaims!HeldByOther, HwidInUse, Reports
  <2> QED
    BY <2>1, <2>4, <2>5 DEF C, D, MachineClaims!Next, MachineClaims!Claim
<1>7. ASSUME NEW i \in DOMAIN players, Erased(i), UNCHANGED config
      PROVE  [MachineClaims!Next]_(MachineClaims!vars)
  <2>1. players[i].guid \in Guids
    BY SlotsTyped
  <2>2. ASSUME NEW g \in Guids, NEW h \in Hwids
        PROVE  <<g, h>> \in D <=> <<g, h>> \in Kept(players[i].guid)
    BY <1>2, <1>7, ErasingReleasesMachines
  <2>3. D = Kept(players[i].guid)
    BY <1>2, <2>2, SameMachines
  <2> QED
    BY <1>7, <2>1, <2>3 DEF C, D, MachineClaims!Next, MachineClaims!Release
<1> QED BY <1>4, <1>5, <1>6, <1>7, RegistryChange

(***************************************************************************)
(* The registry implements ExclusiveClaims for hardware ids: an id is      *)
(* granted to no second session while the settings forbid it, and given up *)
(* with its session only (AssignHWIDToPlayer, RemovePlayerByGUID).         *)
(***************************************************************************)
THEOREM ImplementsMachineClaims == Spec => KeepsMachineClaims
<1>1. Init => MachineClaims!Init
  <2> SUFFICES ASSUME Init PROVE MachineClaims!Init
    OBVIOUS
  <2>1. ClaimedMachines(players) = {}
    BY DEF Init, ClaimedMachines
  <2>2. (~config.hwidMultisession) \in BOOLEAN
    OBVIOUS
  <2> QED BY <2>1, <2>2 DEF MachineClaims!Init
<1>2. IInv /\ IInv' /\ [Next]_vars => [MachineClaims!Next]_(MachineClaims!vars)
  BY MachineClaimsStep DEF IInv
<1>3. Spec => []IInv
  BY Invariance
<1> QED
  BY <1>1, <1>2, <1>3, PTL DEF Spec, KeepsMachineClaims, MachineClaims!Spec
=============================================================================
