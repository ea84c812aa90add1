------------------------ MODULE SessionCopies_proofs ------------------------
(***************************************************************************)
(* Proofs about what is done with copies of a session: the lookups of      *)
(* GetPlayerByGUID (PlayerLookup), the exchange that refreshes a session   *)
(* (PingVerify) and the requests for screenshots (Screenshot), for any     *)
(* sessions, names, periods, delays and settings.                          *)
(*   - LookIInv: a reader that was not hit has found, and still finds, the *)
(*     session it asked for, in the slot it remembers; the name it copies  *)
(*     is one that this session has had, and for the server thread, which  *)
(*     alone assigns names, it is the name it has;                         *)
(*   - PingIInv: at most one exchange and the last answer of the one       *)
(*     before are under way, and their ages bound the silence;             *)
(*   - RequestIInv: the difference of ticks kept in lastSS is the time     *)
(*     since the last request, give or take a page, unless it has wrapped. *)
(***************************************************************************)
EXTENDS PlayerLookup, Screenshot, SequenceFacts

\* A registered session has had the name it has, and its guid is its own.
NamesAreKept == \A i \in DOMAIN players : players[i].userid \in names[players[i].guid]
GuidsDiffer == \A i, j \in DOMAIN players : players[i].guid = players[j].guid => i = j

\* The slot of a reader holds the session it asked for.
SlotIsAsked(r) ==
    look[r].i \in DOMAIN players /\ players[look[r].i].guid = look[r].asked

\* A reader that was not hit is on the right slot, or has the right copy.
ReaderIsRight(r) ==
    r \notin hit =>
        /\ look[r].pc # "torn"
        /\ look[r].pc \in {"found", "half"} => SlotIsAsked(r)
        /\ look[r].pc \in {"half", "copied"} /\ look[r].i # 0
            => look[r].copy.guid = look[r].asked
        /\ look[r].pc = "copied" /\ look[r].i # 0
            => look[r].copy.userid \in names[look[r].asked]

\* The copy of the server thread has the name that the session has.
ServerCopyIsFresh ==
    "server" \notin hit /\ look["server"].pc = "copied" /\ look["server"].i # 0 =>
        \A j \in DOMAIN players :
            players[j].guid = look["server"].asked
                => players[j].userid = look["server"].copy.userid

LookIInv ==
    /\ TypeOK /\ NamesAreKept /\ GuidsDiffer
    /\ \A r \in Readers : ReaderIsRight(r)
    /\ ServerCopyIsFresh

-----------------------------------------------------------------------------
LEMMA LookInitially == Init => LookIInv
<1> SUFFICES ASSUME Init PROVE LookIInv
  OBVIOUS
<1>1. players = <<>> /\ DOMAIN players = {} /\ players \in Seq(Session)
  BY DEF Init
<1>2. look \in [Readers -> Lookup] /\ \A r \in Readers : look[r].pc = "idle"
  BY DEF Init, Lookup
<1>3. TypeOK
  BY <1>1, <1>2 DEF Init, TypeOK, Names
<1>4. \A r \in Readers : ReaderIsRight(r)
  BY <1>2 DEF ReaderIsRight
<1> QED
  BY <1>1, <1>2, <1>3, <1>4 DEF LookIInv, NamesAreKept, GuidsDiffer, ServerCopyIsFresh, Readers

LEMMA SessionsAreSessions ==
    ASSUME TypeOK
    PROVE  \A k \in DOMAIN players : players[k] \in Session /\ players[k].guid \in Guids
<1>1. players \in Seq(Session)
  BY DEF TypeOK
<1>2. \A k \in DOMAIN players : players[k] \in Session
  BY <1>1
<1> QED
  BY <1>2 DEF Session

\* A reader that a step leaves alone stays right if its slot keeps its session
\* and no name is forgotten.
LEMMA OthersStayRight ==
    ASSUME TypeOK, NEW r \in Readers, ReaderIsRight(r),
           look'[r] = look[r], hit \subseteq hit' ,
           look[r].pc \in {"found", "half"} /\ r \notin hit' /\ SlotIsAsked(r) => SlotIsAsked(r)',
           \A g \in Guids : names[g] \subseteq names'[g]
    PROVE  ReaderIsRight(r)'
<1>1. look[r].asked \in Guids
  BY DEF TypeOK, Lookup
<1>2. r \notin hit' => r \notin hit
  OBVIOUS
<1> QED
  BY <1>1, <1>2 DEF ReaderIsRight

\* A session joins at the end of the vector; its guid is new.
LEMMA AddPlayerStep ==
    ASSUME LookIInv, NEW g \in Guids, AddPlayer(g)
    PROVE  LookIInv'
<1> USE DEF LookIInv
<1> DEFINE new == [guid |-> g, userid |-> NoUser]
<1>1. new \in Session /\ new.guid = g /\ new.userid = NoUser
  BY DEF Session, Names
<1>2. /\ players' = Append(players, new)
      /\ names[g] = {} /\ names' = [names EXCEPT ![g] = {NoUser}]
      /\ ~Busy("server") /\ banned' = banned /\ kicked' = kicked
  BY DEF AddPlayer
<1>3. players \in Seq(Session) /\ names \in [Guids -> SUBSET Names]
  BY DEF TypeOK
<1> HIDE DEF new
<1>4. /\ players' \in Seq(Session)
      /\ DOMAIN players' = DOMAIN players \cup {Len(players) + 1}
      /\ Len(players) + 1 \notin DOMAIN players
      /\ players'[Len(players) + 1] = new
      /\ \A k \in DOMAIN players : players'[k] = players[k]
  BY <1>1, <1>2, <1>3, AppendElements
<1>5. \A k \in DOMAIN players : players[k] \in Session /\ players[k].guid \in Guids
  BY SessionsAreSessions
<1>6. names' \in [Guids -> SUBSET Names] /\ names'[g] = {NoUser}
      /\ \A h \in Guids \ {g} : names'[h] = names[h]
  BY <1>2, <1>3 DEF Names
<1>7. \A k \in DOMAIN players : players[k].guid # g
  BY <1>2 DEF NamesAreKept
<1> DEFINE torn == {r \in Readers : look[r].pc = "half"}
<1>8. /\ look' = [r \in Readers |-> IF r \in torn THEN [look[r] EXCEPT !.pc = "torn"] ELSE look[r]]
      /\ hit' = hit \cup torn
  BY DEF AddPlayer, Tear
<1>9. TypeOK'
  <2>1. \A r \in Readers : [look[r] EXCEPT !.pc = "torn"] \in Lookup
    BY DEF TypeOK, Lookup
  <2>2. look' \in [Readers -> Lookup] /\ hit' \in SUBSET Readers
    BY <1>8, <2>1 DEF TypeOK
  <2> QED
    BY <1>2, <1>4, <1>6, <2>2 DEF TypeOK
<1>10. NamesAreKept'
  BY <1>1, <1>4, <1>5, <1>6, <1>7 DEF NamesAreKept
<1>11. GuidsDiffer'
  BY <1>1, <1>4, <1>7 DEF GuidsDiffer
<1>12. ASSUME NEW r \in Readers
       PROVE  ReaderIsRight(r)'
  <2>1. CASE r \in torn
    BY <1>8, <2>1 DEF ReaderIsRight
  <2>2. CASE r \notin torn
    <3>1. look'[r] = look[r] /\ hit \subseteq hit'
      BY <1>8, <2>2
    <3>2. SlotIsAsked(r) => SlotIsAsked(r)'
      BY <1>4, <3>1 DEF SlotIsAsked
    <3>3. \A h \in Guids : names[h] \subseteq names'[h]
      BY <1>2, <1>6
    <3> QED
      BY <3>1, <3>2, <3>3, OthersStayRight
  <2> QED
    BY <2>1, <2>2
<1>13. ServerCopyIsFresh'
  <2>1. "server" \in Readers /\ look["server"].pc = "idle"
    BY <1>2 DEF Busy, Readers
  <2> QED
    BY <1>8, <2>1 DEF ServerCopyIsFresh
<1> QED
  BY <1>9, <1>10, <1>11, <1>12, <1>13

\* A name is written into one slot; whoever was copying that slot is hit.
LEMMA AssignUserIDStep ==
    ASSUME LookIInv, NEW g \in Guids, NEW u \in Users, AssignUserID(g, u)
    PROVE  LookIInv'
<1> USE DEF LookIInv
<1>1. PICK i \in Slots(g) :
        /\ players' = [players EXCEPT ![i].userid = u]
        /\ Tear({r \in Readers : look[r].pc = "half" /\ look[r].i = i})
  BY DEF AssignUserID
<1>2. /\ ~Busy("server") /\ banned' = banned /\ kicked' = kicked
      /\ names' = [names EXCEPT ![g] = @ \cup {u}]
  BY DEF AssignUserID
<1>3. i \in DOMAIN players /\ players[i].guid = g
  BY DEF Slots
<1>4. players \in Seq(Session) /\ names \in [Guids -> SUBSET Names] /\ u \in Names
  BY DEF TypeOK, Names
<1>5. \A k \in DOMAIN players : players[k] \in Session /\ players[k].guid \in Guids
  BY SessionsAreSessions
<1>6. [players[i] EXCEPT !.userid = u] \in Session
      /\ [players[i] EXCEPT !.userid = u].guid = g
      /\ [players[i] EXCEPT !.userid = u].userid = u
  BY <1>3, <1>4, <1>5 DEF Session
<1>7. /\ players' \in Seq(Session) /\ DOMAIN players' = DOMAIN players
      /\ players'[i].guid = g /\ players'[i].userid = u
      /\ \A k \in DOMAIN players \ {i} : players'[k] = players[k]
  <2>1. players' = [players EXCEPT ![i] = [players[i] EXCEPT !.userid = u]]
    BY <1>1
  <2>2. players' \in Seq(Session) /\ DOMAIN players' = DOMAIN players
    BY <1>3, <1>4, <1>6, <2>1, ExceptSeq
  <2> QED
    BY <1>3, <1>6, <2>1, <2>2
<1>8. /\ names' \in [Guids -> SUBSET Names] /\ u \in names'[g]
      /\ \A h \in Guids : names[h] \subseteq names'[h]
  BY <1>2, <1>4
<1>9. \A k \in DOMAIN players : players'[k].guid = players[k].guid
  BY <1>3, <1>7
<1> DEFINE torn == {r \in Readers : look[r].pc = "half" /\ look[r].i = i}
<1>10. /\ look' = [r \in Readers |-> IF r \in torn THEN [look[r] EXCEPT !.pc = "torn"] ELSE look[r]]
       /\ hit' = hit \cup torn
  BY <1>1 DEF Tear
<1>11. TypeOK'
  <2>1. \A r \in Readers : [look[r] EXCEPT !.pc = "torn"] \in Lookup
    BY DEF TypeOK, Lookup
  <2>2. look' \in [Readers -> Lookup] /\ hit' \in SUBSET Readers
    BY <1>10, <2>1 DEF TypeOK
  <2> QED
    BY <1>2, <1>7, <1>8, <2>2 DEF TypeOK
<1>12. NamesAreKept'
  <2>1. ASSUME NEW k \in DOMAIN players
        PROVE  players'[k].userid \in names'[players'[k].guid]
    BY <1>5, <1>7, <1>8 DEF NamesAreKept
  <2> QED
    BY <1>7, <2>1 DEF NamesAreKept
<1>13. GuidsDiffer'
  BY <1>7, <1>9 DEF GuidsDiffer
<1>14. ASSUME NEW r \in Readers
       PROVE  ReaderIsRight(r)'
  <2>1. CASE r \in torn
    BY <1>10, <2>1 DEF ReaderIsRight
  <2>2. CASE r \notin torn
    <3>1. look'[r] = look[r] /\ hit \subseteq hit'
      BY <1>10, <2>2
    <3>2. SlotIsAsked(r) => SlotIsAsked(r)'
      BY <1>7, <1>9, <3>1 DEF SlotIsAsked
    <3> QED
      BY <1>8, <3>1, <3>2, OthersStayRight
  <2> QED
    BY <2>1, <2>2
<1>15. ServerCopyIsFresh'
  <2>1. "server" \in Readers /\ look["server"].pc = "idle"
    BY <1>2 DEF Busy, Readers
  <2> QED
    BY <1>10, <2>1 DEF ServerCopyIsFresh
<1> QED
  BY <1>11, <1>12, <1>13, <1>14, <1>15

\* A session is erased; whoever stood on its slot or behind is hit.
LEMMA EraseStep ==
    ASSUME LookIInv, NEW g \in Guids, NEW i \in Slots(g), Erase(i)
    PROVE  LookIInv'
<1> USE DEF LookIInv
<1> DEFINE before(pc) == {r \in Readers : look[r].pc = pc /\ i <= look[r].i}
           torn == before("half")
<1>1. /\ players' = RemoveAt(players, i)
      /\ look' = [r \in Readers |-> IF r \in torn THEN [look[r] EXCEPT !.pc = "torn"] ELSE look[r]]
      /\ hit' = hit \cup before("found") \cup torn
      /\ banned' = banned /\ kicked' = kicked /\ names' = names
  BY DEF Erase
<1>2. i \in DOMAIN players /\ players \in Seq(Session)
  BY DEF Slots, TypeOK
<1>3. /\ players' \in Seq(Session) /\ DOMAIN players' = 1 .. (Len(players) - 1)
      /\ \A j \in DOMAIN players' : players'[j] = IF j < i THEN players[j] ELSE players[j + 1]
  BY <1>1, <1>2, RemoveAtElements
<1>4. DOMAIN players = 1 .. Len(players) /\ Len(players) \in Nat /\ i \in 1 .. Len(players)
  BY <1>2
<1>5. ASSUME NEW j \in DOMAIN players'
      PROVE  \E k \in DOMAIN players : players'[j] = players[k] /\ k = (IF j < i THEN j ELSE j + 1)
  BY <1>3, <1>4
<1>6. TypeOK'
  <2>1. \A r \in Readers : [look[r] EXCEPT !.pc = "torn"] \in Lookup
    BY DEF TypeOK, Lookup
  <2>2. look' \in [Readers -> Lookup] /\ hit' \in SUBSET Readers
    BY <1>1, <2>1 DEF TypeOK
  <2> QED
    BY <1>1, <1>3, <2>2 DEF TypeOK
<1>7. NamesAreKept'
  BY <1>1, <1>5 DEF NamesAreKept
<1>8. GuidsDiffer'
  <2>1. ASSUME NEW a \in DOMAIN players', NEW b \in DOMAIN players',
               players'[a].guid = players'[b].guid
        PROVE  a = b
    <3>1. PICK k \in DOMAIN players : players'[a] = players[k] /\ k = (IF a < i THEN a ELSE a + 1)
      BY <1>5
    <3>2. PICK l \in DOMAIN players : players'[b] = players[l] /\ l = (IF b < i THEN b ELSE b + 1)
      BY <1>5
    <3>3. k = l
      BY <2>1, <3>1, <3>2 DEF GuidsDiffer
    <3>4. a \in Nat /\ b \in Nat /\ i \in Nat
      BY <1>3, <1>4
    <3> QED
      BY <3>1, <3>2, <3>3, <3>4
  <2> QED
    BY <2>1 DEF GuidsDiffer
<1>9. ASSUME NEW r \in Readers
      PROVE  ReaderIsRight(r)'
  <2>1. CASE r \in torn
    BY <1>1, <2>1 DEF ReaderIsRight
  <2>2. CASE r \notin torn
    <3>1. look'[r] = look[r] /\ hit \subseteq hit'
      BY <1>1, <2>2
    <3>2. ASSUME look[r].pc \in {"found", "half"}, r \notin hit', SlotIsAsked(r)
          PROVE  SlotIsAsked(r)'
      <4>1. ~ (i <= look[r].i) /\ look[r].i \in DOMAIN players
        BY <1>1, <3>2 DEF SlotIsAsked
      <4>2. look[r].i < i /\ look[r].i \in DOMAIN players'
        BY <1>3, <1>4, <4>1
      <4>3. players'[look[r].i] = players[look[r].i]
        BY <1>3, <4>2
      <4> QED
        BY <3>1, <3>2, <4>2, <4>3 DEF SlotIsAsked
    <3> QED
      BY <1>1, <3>1, <3>2, OthersStayRight
  <2> QED
    BY <2>1, <2>2
<1>10. ServerCopyIsFresh'
  <2> SUFFICES ASSUME "server" \notin hit', look'["server"].pc = "copied", look'["server"].i # 0
               PROVE  \A j \in DOMAIN players' : players'[j].guid = look'["server"].asked
                        => players'[j].userid = look'["server"].copy.userid
    BY DEF ServerCopyIsFresh
  <2>1. "server" \in Readers
    BY DEF Readers
  <2>2. look'["server"] = look["server"] /\ "server" \notin hit
    BY <1>1, <2>1
  <2> QED
    BY <1>5, <2>2 DEF ServerCopyIsFresh
<1> QED
  BY <1>6, <1>7, <1>8, <1>9, <1>10

\* A step of reader r that leaves the registry alone.
LEMMA ReaderStepKeepsRest ==
    ASSUME LookIInv, NEW r \in Readers, NEW entry \in Lookup,
           look' = [look EXCEPT ![r] = entry],
           players' = players, names' = names, hit' \in SUBSET Readers,
           hit' \cup {r} = hit \cup {r},
           banned' \in SUBSET Users, kicked' \in SUBSET Guids,
           ReaderIsRight(r)',
           r = "server" => ServerCopyIsFresh'
    PROVE  LookIInv'
<1> USE DEF LookIInv
<1>1. look \in [Readers -> Lookup]
  BY DEF TypeOK
<1>2. look'[r] = entry /\ \A q \in Readers \ {r} : look'[q] = look[q]
  BY <1>1
<1>3. TypeOK'
  BY <1>1 DEF TypeOK
<1>4. \A q \in Readers \ {r} : ReaderIsRight(q)'
  <2> SUFFICES ASSUME NEW q \in Readers \ {r}
               PROVE  ReaderIsRight(q)'
    OBVIOUS
  <2>1. ReaderIsRight(q) /\ look'[q] = look[q] /\ (q \in hit' <=> q \in hit)
    BY <1>2
  <2>2. SlotIsAsked(q) => SlotIsAsked(q)'
    BY <2>1 DEF SlotIsAsked
  <2> QED
    BY <2>1, <2>2 DEF ReaderIsRight
<1>5. ServerCopyIsFresh'
  <2>1. CASE r = "server"
    BY <2>1
  <2>2. CASE r # "server"
    <3>1. look'["server"] = look["server"] /\ ("server" \in hit' <=> "server" \in hit)
      BY <1>2, <2>2 DEF Readers
    <3> QED
      BY <3>1 DEF ServerCopyIsFresh
  <2> QED
    BY <2>1, <2>2
<1> QED
  BY <1>3, <1>4, <1>5 DEF NamesAreKept, GuidsDiffer

\* The slot is found inside the critical section.
LEMMA FindStep ==
    ASSUME LookIInv, NEW r \in Readers, NEW g \in Guids, Find(r, g)
    PROVE  LookIInv'
<1> USE DEF LookIInv
<1>1. PICK i \in 0 .. Len(players) :
        /\ IF Slots(g) = {} THEN i = 0 ELSE i \in Slots(g)
        /\ look' = [look EXCEPT ![r] = [look[r] EXCEPT !.asked = g, !.i = i,
                                        !.pc = IF i = 0 THEN "copied" ELSE "found"]]
  BY DEF Find
<1> DEFINE entry == [look[r] EXCEPT !.asked = g, !.i = i,
                                    !.pc = IF i = 0 THEN "copied" ELSE "found"]
<1>2. look \in [Readers -> Lookup] /\ players \in Seq(Session)
  BY DEF TypeOK
<1>3. i \in Nat /\ look[r] \in Lookup
  BY <1>2
<1>4. /\ entry \in Lookup /\ entry.asked = g /\ entry.i = i
      /\ entry.pc = IF i = 0 THEN "copied" ELSE "found"
  BY <1>3 DEF Lookup
<1> HIDE DEF entry
<1>5. look' = [look EXCEPT ![r] = entry] /\ look'[r] = entry
  BY <1>1, <1>2 DEF entry
<1>6. /\ players' = players /\ names' = names /\ hit' = hit \ {r}
      /\ banned' = banned /\ kicked' = kicked
  BY DEF Find
<1>7. i # 0 => i \in DOMAIN players /\ players[i].guid = g
  BY <1>1 DEF Slots
<1>8. ReaderIsRight(r)'
  <2>1. i # 0 => SlotIsAsked(r)'
    BY <1>4, <1>5, <1>6, <1>7 DEF SlotIsAsked
  <2> QED
    BY <1>4, <1>5, <2>1 DEF ReaderIsRight
<1>9. r = "server" => ServerCopyIsFresh'
  BY <1>4, <1>5 DEF ServerCopyIsFresh
<1>10. hit' \in SUBSET Readers /\ banned' \in SUBSET Users /\ kicked' \in SUBSET Guids
  BY <1>6 DEF TypeOK
<1>11. hit' \cup {r} = hit \cup {r}
  BY <1>6
<1> QED
  BY <1>4, <1>5, <1>6, <1>8, <1>9, <1>10, <1>11, ReaderStepKeepsRest

\* The first half of the copy.
LEMMA ReadGuidStep ==
    ASSUME LookIInv, NEW r \in Readers, ReadGuid(r)
    PROVE  LookIInv'
<1> USE DEF LookIInv
<1>1. PICK g \in Guids :
        /\ look[r].i \in DOMAIN players => g = players[look[r].i].guid
        /\ look' = [look EXCEPT ![r].pc = "half", ![r].copy.guid = g]
  BY DEF ReadGuid
<1> DEFINE entry == [look[r] EXCEPT !.pc = "half", !.copy.guid = g]
<1>2. look \in [Readers -> Lookup] /\ look[r] \in Lookup
  BY DEF TypeOK
<1>3. /\ entry \in Lookup /\ entry.asked = look[r].asked /\ entry.i = look[r].i
      /\ entry.pc = "half" /\ entry.copy.guid = g
  BY <1>2 DEF Lookup, Session
<1>4. look' = [look EXCEPT ![r] = entry] /\ look'[r] = entry
  BY <1>1, <1>2
<1> HIDE DEF entry
<1>5. /\ players' = players /\ names' = names /\ hit' = hit
      /\ banned' = banned /\ kicked' = kicked
  BY DEF ReadGuid
<1>6. ReaderIsRight(r)'
  <2>1. look[r].pc = "found"
    BY DEF ReadGuid
  <2>2. r \notin hit => SlotIsAsked(r)
    BY <2>1 DEF ReaderIsRight
  <2>3. r \notin hit' => SlotIsAsked(r)' /\ entry.copy.guid = entry.asked
    BY <1>1, <1>3, <1>4, <1>5, <2>2 DEF SlotIsAsked
  <2> QED
    BY <1>3, <1>4, <2>3 DEF ReaderIsRight
<1>7. r = "server" => ServerCopyIsFresh'
  BY <1>3, <1>4 DEF ServerCopyIsFresh
<1>8. hit' \in SUBSET Readers /\ banned' \in SUBSET Users /\ kicked' \in SUBSET Guids
  BY <1>5 DEF TypeOK
<1> QED
  BY <1>3, <1>4, <1>5, <1>6, <1>7, <1>8, ReaderStepKeepsRest

\* The second half.
LEMMA ReadNameStep ==
    ASSUME LookIInv, NEW r \in Readers, ReadName(r)
    PROVE  LookIInv'
<1> USE DEF LookIInv
<1>1. PICK u \in Names :
        /\ look[r].pc = "half" /\ look[r].i \in DOMAIN players
            => u = players[look[r].i].userid
        /\ look' = [look EXCEPT ![r].pc = "copied", ![r].copy.userid = u]
  BY DEF ReadName
<1> DEFINE entry == [look[r] EXCEPT !.pc = "copied", !.copy.userid = u]
<1>2. look \in [Readers -> Lookup] /\ look[r] \in Lookup
  BY DEF TypeOK
<1>3. /\ entry \in Lookup /\ entry.asked = look[r].asked /\ entry.i = look[r].i
      /\ entry.pc = "copied" /\ entry.copy.guid = look[r].copy.guid
      /\ entry.copy.userid = u
  BY <1>2 DEF Lookup, Session
<1>4. look' = [look EXCEPT ![r] = entry] /\ look'[r] = entry
  BY <1>1, <1>2
<1> HIDE DEF entry
<1>5. /\ players' = players /\ names' = names /\ hit' = hit
      /\ banned' = banned /\ kicked' = kicked
  BY DEF ReadName
<1>6. ASSUME r \notin hit
      PROVE  /\ SlotIsAsked(r) /\ u = players[look[r].i].userid
             /\ look[r].i # 0 => look[r].copy.guid = look[r].asked
  <2>1. look[r].pc = "half"
    BY <1>6 DEF ReadName, ReaderIsRight
  <2> QED
    BY <1>1, <1>6, <2>1 DEF ReaderIsRight, SlotIsAsked
<1>7. ReaderIsRight(r)'
  <2>1. ASSUME r \notin hit
        PROVE  u \in names[look[r].asked]
    BY <1>6, <2>1 DEF NamesAreKept, SlotIsAsked
  <2> QED
    BY <1>3, <1>4, <1>5, <1>6, <2>1 DEF ReaderIsRight
<1>8. ASSUME r = "server"
      PROVE  ServerCopyIsFresh'
  <2> SUFFICES ASSUME "server" \notin hit, NEW j \in DOMAIN players,
                      players[j].guid = look[r].asked
               PROVE  players[j].userid = u
    BY <1>3, <1>4, <1>5, <1>8 DEF ServerCopyIsFresh
  <2>1. j = look[r].i
    BY <1>6, <1>8 DEF SlotIsAsked, GuidsDiffer
  <2> QED
    BY <1>6, <1>8, <2>1
<1>9. hit' \in SUBSET Readers /\ banned' \in SUBSET Users /\ kicked' \in SUBSET Guids
  BY <1>5 DEF TypeOK
<1> QED
  BY <1>3, <1>4, <1>5, <1>7, <1>8, <1>9, ReaderStepKeepsRest

\* The lookup is over.
LEMMA BanOrDropStep ==
    ASSUME LookIInv, NEW r \in Readers, Ban(r) \/ Drop(r)
    PROVE  LookIInv'
<1> USE DEF LookIInv
<1> DEFINE entry == [look[r] EXCEPT !.pc = "idle"]
<1>1. look \in [Readers -> Lookup] /\ look[r] \in Lookup
  BY DEF TypeOK
<1>2. entry \in Lookup /\ entry.pc = "idle"
  BY <1>1 DEF Lookup
<1>3. look' = [look EXCEPT ![r] = entry] /\ look'[r] = entry
  BY <1>1 DEF Ban, Drop
<1> HIDE DEF entry
<1>4. players' = players /\ names' = names /\ hit' = hit
  BY DEF Ban, Drop
<1>5. look[r].copy.guid \in Guids /\ look[r].copy.userid \in Names
  BY <1>1 DEF Lookup, Session
<1>6. hit' \in SUBSET Readers /\ banned' \in SUBSET Users /\ kicked' \in SUBSET Guids
  <2>1. CASE Ban(r)
    BY <1>4, <1>5, <2>1 DEF Ban, Banning, TypeOK, Names
  <2>2. CASE Drop(r)
    BY <1>4, <2>2 DEF Drop, TypeOK
  <2> QED
    BY <2>1, <2>2
<1>7. ReaderIsRight(r)' /\ (r = "server" => ServerCopyIsFresh')
  BY <1>2, <1>3 DEF ReaderIsRight, ServerCopyIsFresh
<1> QED
  BY <1>2, <1>3, <1>4, <1>6, <1>7, ReaderStepKeepsRest

LEMMA LookInductive == LookIInv /\ [Next]_vars => LookIInv'
<1> SUFFICES ASSUME LookIInv, [Next]_vars
             PROVE  LookIInv'
  OBVIOUS
<1>1. ASSUME NEW g \in Guids, AddPlayer(g)
      PROVE  LookIInv'
  BY <1>1, AddPlayerStep
<1>2. ASSUME NEW g \in Guids, Disconnected(g) \/ Evict(g)
      PROVE  LookIInv'
  BY <1>2, EraseStep DEF Disconnected, Evict
<1>3. ASSUME NEW g \in Guids, NEW u \in Users, AssignUserID(g, u)
      PROVE  LookIInv'
  BY <1>3, AssignUserIDStep
<1>4. ASSUME NEW g \in Guids, NEW r \in Readers, Find(r, g)
      PROVE  LookIInv'
  BY <1>4, FindStep
<1>5. ASSUME NEW r \in Readers, ReadGuid(r) \/ ReadName(r) \/ Ban(r) \/ Drop(r)
      PROVE  LookIInv'
  BY <1>5, ReadGuidStep, ReadNameStep, BanOrDropStep
<1>6. CASE UNCHANGED vars
  BY <1>6 DEF LookIInv, TypeOK, NamesAreKept, GuidsDiffer, ReaderIsRight, SlotIsAsked,
              ServerCopyIsFresh, vars
<1> QED
  BY <1>1, <1>2, <1>3, <1>4, <1>5, <1>6 DEF Next

LEMMA LookInvariant == Spec => []LookIInv
BY LookInitially, LookInductive, PTL DEF Spec

\* GetPlayerByGUID gives a reader the session it asked for, with a name that
\* this session has had, unless a session was erased at or before its slot or
\* its slot was written while it copied: for any number of sessions.
THEOREM LookupIsRight == Spec => []WrongOnlyIfHit
<1>1. LookIInv => WrongOnlyIfHit
  BY DEF LookIInv, ReaderIsRight, WrongOnlyIfHit
<1> QED
  BY <1>1, LookInvariant, PTL

\* BlockAll and the ban of the page reach the account that was asked for, and
\* the report of a hack the name which its sender has at that moment, unless
\* the lookup was hit.
THEOREM BansReachTheAsked == Spec => BanIsForAsked
<1> DEFINE Aimed == \A r \in Readers :
        /\ Busy(r) /\ ~Busy(r)' /\ banned' # banned /\ r \notin hit
        =>
        /\ \A u \in banned' \ banned : u \in names[look[r].asked]
        /\ kicked' \subseteq kicked \cup {look[r].asked}
        /\ r = "server" => \A i \in Slots(look[r].asked) : players[i].userid \in banned'
<1>1. LookIInv /\ [Next]_vars => [Aimed]_vars
  <2> SUFFICES ASSUME LookIInv, [Next]_vars, NEW r \in Readers,
                      Busy(r), ~Busy(r)', banned' # banned, r \notin hit
               PROVE  /\ \A u \in banned' \ banned : u \in names[look[r].asked]
                      /\ kicked' \subseteq kicked \cup {look[r].asked}
                      /\ r = "server" => \A i \in Slots(look[r].asked) :
                                            players[i].userid \in banned'
    OBVIOUS
  <2>1. PICK q \in Readers : Ban(q)
    <3>1. ~ UNCHANGED vars
      BY DEF vars
    <3>2. \A g \in Guids : ~ (AddPlayer(g) \/ Disconnected(g) \/ Evict(g))
      BY DEF AddPlayer, Disconnected, Evict, Erase
    <3>3. \A g \in Guids, u \in Users : ~ AssignUserID(g, u)
      BY DEF AssignUserID
    <3>4. \A g \in Guids, q \in Readers : ~ Find(q, g)
      BY DEF Find
    <3>5. \A q \in Readers : ~ (ReadGuid(q) \/ ReadName(q) \/ Drop(q))
      BY DEF ReadGuid, ReadName, Drop
    <3> QED
      BY <3>1, <3>2, <3>3, <3>4, <3>5 DEF Next
  <2>2. q = r
    BY <2>1 DEF Ban, Busy, LookIInv, TypeOK
  <2>3. /\ look[r].pc = "copied" /\ look[r].i # 0
        /\ banned' = banned \cup {look[r].copy.userid}
        /\ kicked' = kicked \/ kicked' = kicked \cup {look[r].copy.guid}
    BY <2>1, <2>2 DEF Ban, Banning
  <2>4. look[r].copy.guid = look[r].asked /\ look[r].copy.userid \in names[look[r].asked]
    BY <2>3 DEF LookIInv, ReaderIsRight
  <2>5. ASSUME r = "server", NEW i \in Slots(look[r].asked)
        PROVE  players[i].userid \in banned'
    BY <2>3, <2>5 DEF LookIInv, ServerCopyIsFresh, Slots
  <2> QED
    BY <2>3, <2>4, <2>5
<1>2. Spec => [][Aimed]_vars
  BY <1>1, LookInvariant, PTL DEF Spec
<1> QED
  BY <1>2 DEF BanIsForAsked

-----------------------------------------------------------------------------
(* The ping, its challenge and its answer (PingVerify), and the requests   *)
(* for screenshots (Screenshot).                                           *)

\* Where the exchange of the last ping stands, on a network on which a ping and
\* its challenge together take less than the period: the answer to the ping
\* before may still be on its way in front of it, the ping, its challenge or its
\* answer is, or nothing is.
AnswerInFront ==
    /\ Len(up) = 2 /\ Len(down) = 0
    /\ up[1].kind = "verify_ret" /\ up[1].data = challenge
    /\ Period + since <= up[1].age + 2 * MaxDelay
    /\ up[2].kind = "ping" /\ up[2].age = since
    /\ silent <= since + 2 * Period

PingUnderWay ==
    /\ Len(up) = 1 /\ Len(down) = 0
    /\ up[1].kind = "ping" /\ up[1].age = since
    /\ silent <= since + Period

ChallengeUnderWay ==
    /\ Len(up) = 0 /\ Len(down) = 1
    /\ down[1].data = challenge
    /\ since <= down[1].age + MaxDelay
    /\ silent <= since + Period

AnswerUnderWay ==
    /\ Len(up) = 1 /\ Len(down) = 0
    /\ up[1].kind = "verify_ret" /\ up[1].data = challenge
    /\ since <= up[1].age + 2 * MaxDelay
    /\ silent <= since + Period

NothingUnderWay == Len(up) = 0 /\ Len(down) = 0 /\ silent <= since

InOrder ==
    \/ AnswerInFront \/ PingUnderWay \/ ChallengeUnderWay \/ AnswerUnderWay
    \/ NothingUnderWay

PingIInv == PingTypeOK /\ (2 * MaxDelay < Period => InOrder)

\* lastSS is the time since the last request, give or take the time of a page,
\* as long as neither has wrapped.
SSIsAsked ==
    /\ page.pc # "send" /\ asked + MaxPage < ClockWrap
        => asked <= lastSS /\ lastSS <= asked + MaxPage
    /\ page.pc = "send" => lastSS <= page.ran

\* A page that has passed its check still has a copy that was right.
PageIsRight ==
    ~crossed =>
        /\ page.pc = "copied" => page.lastSS = lastSS
        /\ page.pc \in {"store", "send"} => asked + MaxPage > Spacing

\* With a steady setting a request is never later than the next answer.
AutoIsPunctual ==
    2 * MaxDelay < Period /\ steady /\ Fits(interval) =>
        /\ ~section => lastSS <= interval * Minute + silent
        /\ section => silent = 0 /\ lastSS <= interval * Minute + Unheard
        /\ page.pc # "send" => asked <= lastSS

RequestIInv == SSTypeOK /\ SSIsAsked /\ PageIsRight /\ AutoIsPunctual

LEMMA PingConstants ==
    /\ Period \in Nat \ {0} /\ MaxDelay \in Nat /\ W \in Nat /\ W > 0
    /\ Unheard = Period + 3 * MaxDelay /\ Unheard \in Nat
BY PingAssumption DEF Unheard

\* Counting up modulo n.
LEMMA NextModulo ==
    ASSUME NEW n \in Nat \ {0}, NEW t \in 0 .. (n - 1)
    PROVE  /\ (t + 1) % n \in 0 .. (n - 1)
           /\ t + 1 < n => (t + 1) % n = t + 1
           /\ (t + 1) % n <= t + 1
<1>1. CASE t + 1 < n
  <2>1. (t + 1) % n = t + 1
    BY <1>1
  <2> QED
    BY <1>1, <2>1
<1>2. CASE t + 1 = n
  <2>1. n % n = 0
    OBVIOUS
  <2> QED
    BY <1>2, <2>1
<1> QED
  BY <1>1, <1>2

\* A second passes for messages that are not due.
LEMMA OlderMessages ==
    ASSUME NEW ms \in Seq(Message), ~Due(ms)
    PROVE  /\ Older(ms) \in Seq(Message) /\ Len(Older(ms)) = Len(ms)
           /\ \A i \in 1 .. Len(ms) :
                /\ Older(ms)[i].kind = ms[i].kind /\ Older(ms)[i].data = ms[i].data
                /\ Older(ms)[i].age = ms[i].age + 1
<1>1. /\ DOMAIN ms = 1 .. Len(ms) /\ Len(ms) \in Nat
      /\ \A i \in 1 .. Len(ms) : ms[i] \in Message
  OBVIOUS
<1> DEFINE older(i) == [ms[i] EXCEPT !.age = @ + 1]
<1>2. ASSUME NEW i \in 1 .. Len(ms)
      PROVE  /\ older(i) \in Message /\ older(i).kind = ms[i].kind
             /\ older(i).data = ms[i].data /\ older(i).age = ms[i].age + 1
  <2>1. ms[i].age # MaxDelay
    BY <1>1 DEF Due
  <2>2. ms[i] \in Message
    BY <1>1
  <2>3. ms[i].age + 1 \in 0 .. MaxDelay
    BY <2>1, <2>2, PingConstants DEF Message
  <2> QED
    BY <2>2, <2>3 DEF Message
<1>3. Older(ms) = [i \in 1 .. Len(ms) |-> older(i)]
  BY <1>1 DEF Older
<1> HIDE DEF older
<1>4. Older(ms) \in Seq(Message) /\ Len(Older(ms)) = Len(ms)
  BY <1>1, <1>2, <1>3
<1>5. \A i \in 1 .. Len(ms) : Older(ms)[i] = older(i)
  BY <1>3
<1> QED
  BY <1>2, <1>4, <1>5

\* A message is sent: it comes last and is new.
LEMMA SentMessage ==
    ASSUME NEW ms \in Seq(Message), NEW kind \in {"ping", "verify", "verify_ret"},
           NEW data \in Second
    PROVE  /\ Append(ms, Msg(kind, data)) \in Seq(Message)
           /\ Len(Append(ms, Msg(kind, data))) = Len(ms) + 1
           /\ \A i \in 1 .. Len(ms) : Append(ms, Msg(kind, data))[i] = ms[i]
           /\ Append(ms, Msg(kind, data))[Len(ms) + 1].kind = kind
           /\ Append(ms, Msg(kind, data))[Len(ms) + 1].data = data
           /\ Append(ms, Msg(kind, data))[Len(ms) + 1].age = 0
<1>1. /\ Msg(kind, data) \in Message
      /\ Msg(kind, data).kind = kind /\ Msg(kind, data).data = data
      /\ Msg(kind, data).age = 0
  BY PingConstants DEF Message, Msg
<1>2. DOMAIN ms = 1 .. Len(ms)
  OBVIOUS
<1> QED
  BY <1>1, <1>2, AppendElements

\* The first message is received.
LEMMA ReceivedMessage ==
    ASSUME NEW ms \in Seq(Message), ms # <<>>
    PROVE  /\ Tail(ms) \in Seq(Message)
           /\ Len(ms) \in Nat /\ Len(ms) >= 1 /\ Len(Tail(ms)) = Len(ms) - 1
           /\ Head(ms) = ms[1] /\ Head(ms) \in Message
           /\ \A i \in 1 .. Len(Tail(ms)) : Tail(ms)[i] = ms[i + 1]
BY HeadTailElements

LEMMA EmptyMessages == ASSUME NEW ms \in Seq(Message) PROVE ms = <<>> <=> Len(ms) = 0
OBVIOUS

LEMMA MessageParts ==
    ASSUME NEW ms \in Seq(Message)
    PROVE  \A i \in 1 .. Len(ms) :
                ms[i].age \in Nat /\ ms[i].age <= MaxDelay /\ ms[i].data \in Second
<1>1. \A i \in 1 .. Len(ms) : ms[i] \in Message
  OBVIOUS
<1> QED
  BY <1>1, PingConstants DEF Message

LEMMA FirstMessages ==
    ASSUME NEW ms \in Seq(Message)
    PROVE  /\ Len(ms) = 1 \/ Len(ms) = 2 => /\ ms[1].age \in Nat /\ ms[1].age <= MaxDelay
                                           /\ ms[1].data \in Second
           /\ Len(ms) = 2 => ms[2].age \in Nat /\ ms[2].age <= MaxDelay
<1>1. (Len(ms) = 1 \/ Len(ms) = 2 => 1 \in 1 .. Len(ms)) /\ (Len(ms) = 2 => 2 \in 1 .. Len(ms))
  OBVIOUS
<1> QED
  BY <1>1, MessageParts

LEMMA PingTyped ==
    ASSUME PingTypeOK
    PROVE  /\ now \in Second /\ challenge \in Second
           /\ since \in Nat /\ since <= Period
           /\ up \in Seq(Message) /\ down \in Seq(Message)
           /\ Len(up) \in Nat /\ Len(down) \in Nat
           /\ silent \in Nat /\ silent <= Unheard + 1
BY PingConstants DEF PingTypeOK

LEMMA PingInitially == PingInit => PingIInv
<1> SUFFICES ASSUME PingInit PROVE PingIInv
  OBVIOUS
<1> DEFINE ping == [kind |-> "ping", data |-> 0, age |-> 0]
<1>1. ping \in Message /\ 0 \in Second /\ W - 1 \in Second
  BY PingConstants DEF Message, Second
<1>2. up = <<ping>> /\ down = <<>> /\ ping.kind = "ping" /\ ping.age = 0
  BY DEF PingInit
<1> HIDE DEF ping
<1>3. up \in Seq(Message) /\ down \in Seq(Message) /\ Len(up) = 1 /\ Len(down) = 0 /\ up[1] = ping
  BY <1>1, <1>2
<1>4. PingTypeOK
  BY <1>1, <1>3, PingConstants DEF PingInit, PingTypeOK
<1>5. PingUnderWay
  BY <1>2, <1>3, PingConstants DEF PingInit, PingUnderWay
<1> QED
  BY <1>4, <1>5 DEF PingIInv, InOrder

LEMMA TickStep == ASSUME PingIInv, Tick PROVE PingIInv'
<1> USE PingConstants
<1>1. /\ since < Period /\ ~Due(up) /\ ~Due(down)
      /\ now' = Later(now) /\ since' = since + 1 /\ challenge' = challenge
      /\ up' = Older(up) /\ down' = Older(down)
      /\ silent' = IF silent > Unheard THEN silent ELSE silent + 1
  BY DEF Tick
<1>2. /\ now \in Second /\ challenge \in Second /\ since \in Nat /\ since <= Period
      /\ up \in Seq(Message) /\ down \in Seq(Message)
      /\ Len(up) \in Nat /\ Len(down) \in Nat /\ silent \in Nat /\ silent <= Unheard + 1
  BY PingTyped DEF PingIInv
<1>3. /\ up' \in Seq(Message) /\ Len(up') = Len(up)
      /\ \A i \in 1 .. Len(up) : /\ up'[i].kind = up[i].kind /\ up'[i].data = up[i].data
                                 /\ up'[i].age = up[i].age + 1
  BY <1>1, <1>2, OlderMessages
<1>4. /\ down' \in Seq(Message) /\ Len(down') = Len(down)
      /\ \A i \in 1 .. Len(down) : /\ down'[i].data = down[i].data
                                   /\ down'[i].age = down[i].age + 1
  BY <1>1, <1>2, OlderMessages
<1>5. PingTypeOK'
  <2>1. now' \in Second
    BY <1>1, <1>2, NextModulo DEF Later, Second
  <2>2. since' \in 0 .. Period /\ silent' \in 0 .. (Unheard + 1)
    BY <1>1, <1>2
  <2> QED
    BY <1>1, <1>2, <1>3, <1>4, <2>1, <2>2 DEF PingTypeOK
<1>6. ASSUME InOrder
      PROVE  InOrder'
  <2>1. silent' <= silent + 1 /\ silent' \in Nat
    BY <1>1, <1>2
  <2>2. \A i \in 1 .. Len(up) : up[i].age \in Nat
    BY <1>2, MessageParts
  <2>3. \A i \in 1 .. Len(down) : down[i].age \in Nat
    BY <1>2, MessageParts
  <2>4. CASE AnswerInFront
    <3>1. 1 \in 1 .. Len(up) /\ 2 \in 1 .. Len(up)
      BY <2>4 DEF AnswerInFront
    <3> QED
      BY <1>1, <1>2, <1>3, <1>4, <2>1, <2>2, <2>4, <3>1 DEF AnswerInFront, InOrder
  <2>5. CASE PingUnderWay
    <3>1. 1 \in 1 .. Len(up)
      BY <2>5 DEF PingUnderWay
    <3> QED
      BY <1>1, <1>2, <1>3, <1>4, <2>1, <2>2, <2>5, <3>1 DEF PingUnderWay, InOrder
  <2>6. CASE ChallengeUnderWay
    <3>1. 1 \in 1 .. Len(down)
      BY <2>6 DEF ChallengeUnderWay
    <3> QED
      BY <1>1, <1>2, <1>3, <1>4, <2>1, <2>3, <2>6, <3>1 DEF ChallengeUnderWay, InOrder
  <2>7. CASE AnswerUnderWay
    <3>1. 1 \in 1 .. Len(up)
      BY <2>7 DEF AnswerUnderWay
    <3> QED
      BY <1>1, <1>2, <1>3, <1>4, <2>1, <2>2, <2>7, <3>1 DEF AnswerUnderWay, InOrder
  <2>8. CASE NothingUnderWay
    BY <1>1, <1>2, <1>3, <1>4, <2>1, <2>8 DEF NothingUnderWay, InOrder
  <2> QED
    BY <1>6, <2>4, <2>5, <2>6, <2>7, <2>8 DEF InOrder
<1> QED
  BY <1>5, <1>6 DEF PingIInv

LEMMA SendPingStep == ASSUME PingIInv, SendPing PROVE PingIInv'
<1> USE PingConstants
<1>1. /\ since = Period /\ since' = 0 /\ up' = Append(up, Msg("ping", 0))
      /\ UNCHANGED <<now, down, challenge, silent>>
  BY DEF SendPing
<1>2. /\ now \in Second /\ challenge \in Second
      /\ up \in Seq(Message) /\ down \in Seq(Message)
      /\ Len(up) \in Nat /\ Len(down) \in Nat /\ silent \in Nat /\ silent <= Unheard + 1
  BY PingTyped DEF PingIInv
<1>3. 0 \in Second
  BY DEF Second
<1>4. /\ up' \in Seq(Message) /\ Len(up') = Len(up) + 1
      /\ \A i \in 1 .. Len(up) : up'[i] = up[i]
      /\ up'[Len(up) + 1].kind = "ping" /\ up'[Len(up) + 1].age = 0
  BY <1>1, <1>2, <1>3, SentMessage
<1>5. PingTypeOK'
  BY <1>1, <1>2, <1>4 DEF PingTypeOK
<1>6. ASSUME InOrder, 2 * MaxDelay < Period
      PROVE  InOrder'
  <2>1. ~AnswerInFront
    <3>1. AnswerInFront => up[2].age <= MaxDelay
      BY <1>2, FirstMessages DEF AnswerInFront
    <3> QED
      BY <1>1, <1>6, <3>1 DEF AnswerInFront
  <2>2. ~PingUnderWay
    <3>1. PingUnderWay => up[1].age <= MaxDelay
      BY <1>2, FirstMessages DEF PingUnderWay
    <3> QED
      BY <1>1, <1>6, <3>1 DEF PingUnderWay
  <2>3. ~ChallengeUnderWay
    <3>1. ChallengeUnderWay => down[1].age <= MaxDelay /\ down[1].age \in Nat
      BY <1>2, FirstMessages DEF ChallengeUnderWay
    <3> QED
      BY <1>1, <1>6, <3>1 DEF ChallengeUnderWay
  <2>4. CASE AnswerUnderWay
    <3>1. 1 \in 1 .. Len(up) /\ Len(up) + 1 = 2 /\ up[1].age \in Nat
      BY <1>2, <2>4, FirstMessages DEF AnswerUnderWay
    <3>2. up'[1] = up[1] /\ up'[2].kind = "ping" /\ up'[2].age = 0
      BY <1>4, <3>1
    <3>3. AnswerInFront'
      BY <1>1, <1>2, <1>4, <2>4, <3>1, <3>2 DEF AnswerInFront, AnswerUnderWay
    <3> QED
      BY <3>3 DEF InOrder
  <2>5. CASE NothingUnderWay
    BY <1>1, <1>2, <1>4, <2>5 DEF NothingUnderWay, PingUnderWay, InOrder
  <2> QED
    BY <1>6, <2>1, <2>2, <2>3, <2>4, <2>5 DEF InOrder
<1> QED
  BY <1>5, <1>6 DEF PingIInv

LEMMA ServerPingStep == ASSUME PingIInv, ServerPing PROVE PingIInv'
<1> USE PingConstants
<1>1. /\ up # <<>> /\ Head(up).kind = "ping" /\ challenge' = now
      /\ down' = Append(down, Msg("verify", now)) /\ up' = Tail(up)
      /\ UNCHANGED <<now, since, silent>>
  BY DEF ServerPing
<1>2. /\ now \in Second /\ challenge \in Second /\ since \in Nat /\ since <= Period
      /\ up \in Seq(Message) /\ down \in Seq(Message)
      /\ Len(up) \in Nat /\ Len(down) \in Nat /\ silent \in Nat /\ silent <= Unheard + 1
  BY PingTyped DEF PingIInv
<1>3. /\ up' \in Seq(Message) /\ Len(up) >= 1 /\ Len(up') = Len(up) - 1 /\ Head(up) = up[1]
  BY <1>1, <1>2, ReceivedMessage
<1>4. /\ down' \in Seq(Message) /\ Len(down') = Len(down) + 1
      /\ down'[Len(down) + 1].data = now /\ down'[Len(down) + 1].age = 0
  BY <1>1, <1>2, SentMessage
<1>5. PingTypeOK'
  BY <1>1, <1>2, <1>3, <1>4 DEF PingTypeOK
<1>6. ASSUME InOrder
      PROVE  InOrder'
  <2>1. PingUnderWay
    BY <1>1, <1>3, <1>6 DEF InOrder, AnswerInFront, ChallengeUnderWay, AnswerUnderWay,
                            NothingUnderWay
  <2>2. up[1].age <= MaxDelay
    BY <1>2, <2>1, FirstMessages DEF PingUnderWay
  <2>3. Len(down) + 1 = 1
    BY <2>1 DEF PingUnderWay
  <2>4. ChallengeUnderWay'
    BY <1>1, <1>2, <1>3, <1>4, <2>1, <2>2, <2>3 DEF PingUnderWay, ChallengeUnderWay
  <2> QED
    BY <2>4 DEF InOrder
<1> QED
  BY <1>5, <1>6 DEF PingIInv

LEMMA ClientVerifyStep == ASSUME PingIInv, ClientVerify PROVE PingIInv'
<1> USE PingConstants
<1>1. /\ down # <<>> /\ down' = Tail(down)
      /\ up' = Append(up, Msg("verify_ret", Head(down).data))
      /\ UNCHANGED <<now, since, challenge, silent>>
  BY DEF ClientVerify
<1>2. /\ now \in Second /\ challenge \in Second /\ since \in Nat /\ since <= Period
      /\ up \in Seq(Message) /\ down \in Seq(Message)
      /\ Len(up) \in Nat /\ Len(down) \in Nat /\ silent \in Nat /\ silent <= Unheard + 1
  BY PingTyped DEF PingIInv
<1>3. /\ down' \in Seq(Message) /\ Len(down) >= 1 /\ Len(down') = Len(down) - 1
      /\ Head(down) = down[1]
  BY <1>1, <1>2, ReceivedMessage
<1>4. Head(down).data \in Second
  <2>1. Head(down) \in Message
    BY <1>1, <1>2, ReceivedMessage
  <2> QED
    BY <2>1 DEF Message
<1>5. /\ up' \in Seq(Message) /\ Len(up') = Len(up) + 1
      /\ up'[Len(up) + 1].kind = "verify_ret" /\ up'[Len(up) + 1].data = down[1].data
      /\ up'[Len(up) + 1].age = 0
  BY <1>1, <1>2, <1>3, <1>4, SentMessage
<1>6. PingTypeOK'
  BY <1>1, <1>2, <1>3, <1>5 DEF PingTypeOK
<1>7. ASSUME InOrder
      PROVE  InOrder'
  <2>1. ChallengeUnderWay
    BY <1>3, <1>7 DEF InOrder, AnswerInFront, PingUnderWay, AnswerUnderWay, NothingUnderWay
  <2>2. down[1].age \in Nat /\ down[1].age <= MaxDelay
    BY <1>2, <2>1, FirstMessages DEF ChallengeUnderWay
  <2>3. Len(up) + 1 = 1
    BY <2>1 DEF ChallengeUnderWay
  <2>4. AnswerUnderWay'
    BY <1>1, <1>2, <1>3, <1>5, <2>1, <2>2, <2>3 DEF AnswerUnderWay, ChallengeUnderWay
  <2> QED
    BY <2>4 DEF InOrder
<1> QED
  BY <1>6, <1>7 DEF PingIInv

\* In order, the answer that arrives is the answer to the challenge of the session.
LEMMA AnswersMatch ==
    ASSUME PingIInv, 2 * MaxDelay < Period, up # <<>>, Head(up).kind = "verify_ret"
    PROVE  AnswerMatches
<1>1. up \in Seq(Message) /\ Head(up) = up[1] /\ Len(up) >= 1
  BY PingTyped, ReceivedMessage DEF PingIInv
<1> QED
  BY <1>1 DEF PingIInv, InOrder, AnswerInFront, PingUnderWay, ChallengeUnderWay, AnswerUnderWay,
              NothingUnderWay, AnswerMatches

LEMMA ServerVerifyRetStep == ASSUME PingIInv, ServerVerifyRet PROVE PingIInv'
<1> USE PingConstants
<1>1. /\ up # <<>> /\ Head(up).kind = "verify_ret" /\ up' = Tail(up)
      /\ silent' = IF AnswerMatches THEN 0 ELSE silent
      /\ UNCHANGED <<now, since, down, challenge>>
  BY DEF ServerVerifyRet
<1>2. /\ now \in Second /\ challenge \in Second /\ since \in Nat /\ since <= Period
      /\ up \in Seq(Message) /\ down \in Seq(Message)
      /\ Len(up) \in Nat /\ Len(down) \in Nat /\ silent \in Nat /\ silent <= Unheard + 1
  BY PingTyped DEF PingIInv
<1>3. /\ up' \in Seq(Message) /\ Len(up) >= 1 /\ Len(up') = Len(up) - 1 /\ Head(up) = up[1]
      /\ \A i \in 1 .. Len(up') : up'[i] = up[i + 1]
  BY <1>1, <1>2, ReceivedMessage
<1>4. PingTypeOK'
  BY <1>1, <1>2, <1>3 DEF PingTypeOK
<1>5. ASSUME InOrder, 2 * MaxDelay < Period
      PROVE  InOrder'
  <2>1. silent' = 0
    BY <1>1, <1>5, AnswersMatch
  <2>2. CASE AnswerInFront
    <3>1. Len(up') = 1 /\ up'[1] = up[2]
      <4>1. Len(up') = 1 /\ 1 \in 1 .. Len(up')
        BY <1>3, <2>2 DEF AnswerInFront
      <4>2. up'[1] = up[1 + 1]
        BY <1>3, <4>1
      <4> QED
        BY <4>1, <4>2
    <3>2. PingUnderWay'
      <4>1. since' = since /\ down' = down
        BY <1>1
      <4>2. up'[1].kind = "ping" /\ up'[1].age = since'
        BY <2>2, <3>1, <4>1 DEF AnswerInFront
      <4>3. silent' <= since' + Period
        BY <1>2, <2>1, <4>1
      <4>4. Len(up') = 1 /\ Len(down') = 0
        BY <2>2, <3>1, <4>1 DEF AnswerInFront
      <4> QED
        BY <4>2, <4>3, <4>4 DEF PingUnderWay
    <3> QED
      BY <3>2 DEF InOrder
  <2>3. CASE AnswerUnderWay
    BY <1>1, <1>2, <1>3, <2>1, <2>3 DEF AnswerUnderWay, NothingUnderWay, InOrder
  <2>4. ~PingUnderWay /\ ~ChallengeUnderWay /\ ~NothingUnderWay
    BY <1>1, <1>3 DEF PingUnderWay, ChallengeUnderWay, NothingUnderWay
  <2> QED
    BY <1>5, <2>2, <2>3, <2>4 DEF InOrder
<1> QED
  BY <1>4, <1>5 DEF PingIInv

LEMMA PingInductive == PingIInv /\ [PingNext]_pingVars => PingIInv'
<1>1. PingIInv /\ UNCHANGED pingVars => PingIInv'
  BY DEF PingIInv, PingTypeOK, InOrder, AnswerInFront, PingUnderWay, ChallengeUnderWay,
         AnswerUnderWay, NothingUnderWay, pingVars
<1> QED
  BY <1>1, TickStep, SendPingStep, ServerPingStep, ClientVerifyStep, ServerVerifyRetStep
     DEF PingNext

\* In order, nobody is silent for longer than a period and three trips.
LEMMA InOrderIsHeard == PingIInv => LiveIsHeard
<1> SUFFICES ASSUME PingIInv, 2 * MaxDelay < Period
             PROVE  silent <= Unheard
  BY DEF LiveIsHeard
<1> USE PingConstants
<1>1. /\ since \in Nat /\ since <= Period /\ up \in Seq(Message) /\ down \in Seq(Message)
      /\ silent \in Nat
  BY PingTyped DEF PingIInv
<1>2. CASE AnswerInFront
  <2>1. up[1].age \in Nat /\ up[1].age <= MaxDelay
    BY <1>1, <1>2, FirstMessages DEF AnswerInFront
  <2> QED
    BY <1>1, <1>2, <2>1 DEF AnswerInFront
<1>3. CASE PingUnderWay
  <2>1. up[1].age \in Nat /\ up[1].age <= MaxDelay
    BY <1>1, <1>3, FirstMessages DEF PingUnderWay
  <2> QED
    BY <1>1, <1>3, <2>1 DEF PingUnderWay
<1>4. CASE ChallengeUnderWay
  <2>1. down[1].age \in Nat /\ down[1].age <= MaxDelay
    BY <1>1, <1>4, FirstMessages DEF ChallengeUnderWay
  <2> QED
    BY <1>1, <1>4, <2>1 DEF ChallengeUnderWay
<1>5. CASE AnswerUnderWay
  <2>1. up[1].age \in Nat /\ up[1].age <= MaxDelay
    BY <1>1, <1>5, FirstMessages DEF AnswerUnderWay
  <2> QED
    BY <1>1, <1>5, <2>1 DEF AnswerUnderWay
<1>6. CASE NothingUnderWay
  BY <1>1, <1>6 DEF NothingUnderWay
<1> QED
  BY <1>2, <1>3, <1>4, <1>5, <1>6 DEF PingIInv, InOrder

LEMMA FollowsPing == SSSpec => PingSpec
<1>1. SSInit => PingInit
  BY DEF SSInit
<1>2. [SSNext]_allVars => [PingNext]_pingVars
  <2> SUFFICES ASSUME [SSNext]_allVars
               PROVE  PingNext \/ UNCHANGED pingVars
    OBVIOUS
  <2>1. CASE Pass \/ Exchange \/ Refresh
    BY <2>1 DEF Pass, Exchange, Refresh, PingNext
  <2>2. CASE AskOrNot \/ OpenPage \/ CheckPage \/ StorePage \/ SendPage
    BY <2>2 DEF AskOrNot, OpenPage, CheckPage, StorePage, SendPage
  <2>3. CASE \E i \in Intervals : Configure(i)
    BY <2>3 DEF Configure
  <2>4. CASE UNCHANGED allVars
    BY <2>4 DEF allVars
  <2> QED
    BY <2>1, <2>2, <2>3, <2>4 DEF SSNext
<1> QED
  BY <1>1, <1>2, PTL DEF SSSpec, PingSpec

LEMMA PingInvariant == PingSpec => []PingIInv
BY PingInitially, PingInductive, PTL DEF PingSpec

\* On a network on which a ping and its challenge take less than the period, the
\* session of a live client is never silent for longer than a period and three
\* trips, for every period and delay: no ping replaces a challenge that is yet
\* to be answered.
THEOREM LiveClientsAreHeard == SSSpec => []LiveIsHeard
BY FollowsPing, PingInvariant, InOrderIsHeard, PTL

LEMMA RequestConstants ==
    /\ Spacing \in Nat /\ Minute \in Nat /\ MaxPage \in Nat
    /\ ClockWrap \in Nat \ {0} /\ Spacing < ClockWrap /\ Intervals \subseteq Nat
BY ScreenshotAssumption

LEMMA RequestTyped ==
    ASSUME SSTypeOK
    PROVE  /\ interval \in Intervals /\ interval \in Nat /\ interval * Minute \in Nat
           /\ lastSS \in Nat /\ lastSS < ClockWrap
           /\ asked \in Nat /\ asked <= ClockWrap
           /\ page.pc \in {"idle", "copied", "store", "send"}
           /\ page.lastSS \in 0 .. (ClockWrap - 1)
           /\ page.ran \in Nat /\ page.ran <= MaxPage
           /\ section \in BOOLEAN /\ steady \in BOOLEAN /\ crossed \in BOOLEAN
<1>1. interval \in Nat /\ Minute \in Nat
  BY RequestConstants DEF SSTypeOK
<1>2. interval * Minute \in Nat
  BY <1>1
<1> QED
  BY <1>1, <1>2, RequestConstants DEF SSTypeOK

\* A setting that fits is the product it is meant to be.
LEMMA FittingProduct ==
    ASSUME SSTypeOK, Fits(interval)
    PROVE  /\ interval > 0 /\ interval * Minute + Unheard + MaxPage < ClockWrap
           /\ (interval * Minute) % ClockWrap = interval * Minute
<1>1. interval > 0 /\ interval * Minute + Unheard + MaxPage < ClockWrap
  BY DEF Fits
<1> DEFINE span == interval * Minute
<1>2. span \in Nat
  BY RequestTyped
<1>3. span < ClockWrap
  <2> HIDE DEF span
  <2>1. span + Unheard + MaxPage < ClockWrap
    BY <1>1 DEF span
  <2> QED
    BY <1>2, <2>1, PingConstants, RequestConstants
<1>4. span % ClockWrap = span
  <2> HIDE DEF span
  <2> QED
    BY <1>2, <1>3, RequestConstants
<1> QED
  BY <1>1, <1>4

LEMMA RequestInitially == SSInit => RequestIInv
<1> SUFFICES ASSUME SSInit PROVE RequestIInv
  OBVIOUS
<1>1. /\ interval \in Intervals /\ lastSS = 0 /\ asked = 0 /\ section = FALSE
      /\ page.pc = "idle" /\ page.lastSS = 0 /\ page.ran = 0
      /\ page = [pc |-> "idle", lastSS |-> 0, ran |-> 0]
      /\ steady = TRUE /\ crossed = FALSE
  BY DEF SSInit, NoPage
<1>2. PingTypeOK /\ silent \in Nat
  BY PingInitially, PingTyped DEF SSInit, PingIInv
<1>3. SSTypeOK
  <2>1. 0 \in 0 .. (ClockWrap - 1) /\ 0 \in 0 .. MaxPage /\ 0 \in 0 .. ClockWrap
    BY RequestConstants
  <2>2. page \in [pc : {"idle", "copied", "store", "send"},
                  lastSS : 0 .. (ClockWrap - 1), ran : 0 .. MaxPage]
    BY <1>1, <2>1
  <2> QED
    BY <1>1, <1>2, <2>1, <2>2 DEF SSTypeOK
<1>4. SSIsAsked /\ PageIsRight
  BY <1>1, RequestConstants DEF SSIsAsked, PageIsRight
<1>5. AutoIsPunctual
  <2>1. interval * Minute \in Nat
    BY <1>3, RequestTyped
  <2>2. lastSS <= interval * Minute + silent
    BY <1>1, <1>2, <2>1
  <2> QED
    BY <1>1, <2>2 DEF AutoIsPunctual
<1> QED
  BY <1>3, <1>4, <1>5 DEF RequestIInv

\* A second passes.
LEMMA PassStep ==
    ASSUME PingIInv, PingIInv', LiveIsHeard', RequestIInv, Pass
    PROVE  RequestIInv'
<1>1. /\ Tick /\ ~section /\ (page.pc = "idle" \/ page.ran < MaxPage)
      /\ lastSS' = Older32(lastSS)
      /\ page' = IF page.pc = "idle" THEN page
                 ELSE [page EXCEPT !.lastSS = Older32(page.lastSS), !.ran = page.ran + 1]
      /\ asked' = IF asked = ClockWrap THEN asked ELSE asked + 1
      /\ UNCHANGED <<interval, section, steady, crossed>>
  BY DEF Pass
<1>2. /\ SSTypeOK /\ interval * Minute \in Nat /\ lastSS \in Nat /\ lastSS < ClockWrap
      /\ asked \in Nat /\ asked <= ClockWrap
      /\ page.pc \in {"idle", "copied", "store", "send"}
      /\ page.lastSS \in 0 .. (ClockWrap - 1) /\ page.ran \in Nat /\ page.ran <= MaxPage
  BY RequestTyped DEF RequestIInv
<1>3. /\ lastSS' \in 0 .. (ClockWrap - 1) /\ lastSS' <= lastSS + 1
      /\ lastSS + 1 < ClockWrap => lastSS' = lastSS + 1
  BY <1>1, <1>2, NextModulo, RequestConstants DEF Older32
<1>4. Older32(page.lastSS) \in 0 .. (ClockWrap - 1)
  BY <1>2, NextModulo, RequestConstants DEF Older32
<1>5. /\ page' \in [pc : {"idle", "copied", "store", "send"},
                    lastSS : 0 .. (ClockWrap - 1), ran : 0 .. MaxPage]
      /\ page'.pc = page.pc
      /\ page.pc # "idle" => page'.lastSS = Older32(page.lastSS) /\ page'.ran = page.ran + 1
  <2>1. page \in [pc : {"idle", "copied", "store", "send"},
                  lastSS : 0 .. (ClockWrap - 1), ran : 0 .. MaxPage]
    BY <1>2 DEF SSTypeOK
  <2>2. CASE page.pc = "idle"
    BY <1>1, <2>1, <2>2
  <2>3. CASE page.pc # "idle"
    <3>1. page.ran + 1 \in 0 .. MaxPage
      BY <1>1, <1>2, <2>3, RequestConstants
    <3> QED
      BY <1>1, <1>4, <2>1, <2>3, <3>1
  <2> QED
    BY <2>2, <2>3
<1>6. SSTypeOK'
  <2>1. asked' \in 0 .. ClockWrap
    BY <1>1, <1>2, RequestConstants
  <2>2. PingTypeOK'
    BY DEF PingIInv
  <2> QED
    BY <1>1, <1>2, <1>3, <1>5, <2>1, <2>2 DEF SSTypeOK
<1>7. SSIsAsked'
  BY <1>1, <1>2, <1>3, <1>5, RequestConstants DEF RequestIInv, SSIsAsked
<1>8. PageIsRight'
  <2> SUFFICES ASSUME ~crossed
               PROVE  /\ page'.pc = "copied" => page'.lastSS = lastSS'
                      /\ page'.pc \in {"store", "send"} => asked' + MaxPage > Spacing
    BY <1>1 DEF PageIsRight
  <2>1. page.pc = "copied" => page'.lastSS = lastSS'
    BY <1>1, <1>5 DEF RequestIInv, PageIsRight
  <2>2. page.pc \in {"store", "send"} => asked + MaxPage > Spacing
    BY DEF RequestIInv, PageIsRight
  <2>3. asked' = asked \/ asked' = asked + 1
    BY <1>1, <1>2
  <2>4. page.pc \in {"store", "send"} => asked' + MaxPage > Spacing
    <3>1. asked \in Nat /\ MaxPage \in Nat /\ Spacing \in Nat
      BY <1>2, RequestConstants
    <3>2. asked + MaxPage > Spacing => asked' + MaxPage > Spacing
      BY <2>3, <3>1
    <3> QED
      BY <2>2, <3>2
  <2> QED
    BY <1>5, <2>1, <2>4
<1>9. AutoIsPunctual'
  <2> SUFFICES ASSUME 2 * MaxDelay < Period, steady, Fits(interval)
               PROVE  /\ lastSS' <= interval * Minute + silent'
                      /\ page'.pc # "send" => asked' <= lastSS'
    BY <1>1 DEF AutoIsPunctual
  <2>1. lastSS <= interval * Minute + silent /\ (page.pc # "send" => asked <= lastSS)
    BY <1>1 DEF RequestIInv, AutoIsPunctual
  <2>2. silent \in Nat /\ silent' \in Nat /\ silent' <= Unheard /\ silent' = silent + 1
    <3>1. silent \in Nat /\ silent' \in Nat
      BY PingConstants DEF PingIInv, PingTypeOK
    <3>2. silent' <= Unheard
      BY DEF LiveIsHeard
    <3> QED
      BY <1>1, <3>1, <3>2, PingConstants DEF Tick
  <2> DEFINE span == interval * Minute
  <2>3. span \in Nat /\ span + Unheard + MaxPage < ClockWrap
    BY <1>2, FittingProduct
  <2> HIDE DEF span
  <2>4. lastSS <= span + silent
    BY <2>1 DEF span
  <2>5. lastSS + 1 < ClockWrap
    BY <1>2, <2>2, <2>3, <2>4, PingConstants, RequestConstants
  <2>6. lastSS' = lastSS + 1
    BY <1>3, <2>5
  <2>7. lastSS' <= span + silent'
    BY <1>2, <2>2, <2>3, <2>4, <2>6
  <2>8. page.pc # "send" => asked' <= lastSS'
    BY <1>1, <1>2, <2>1, <2>6
  <2> QED
    BY <1>5, <2>7, <2>8 DEF span
<1> QED
  BY <1>6, <1>7, <1>8, <1>9 DEF RequestIInv

\* A step that does not touch the requests.
LEMMA RequestStutters ==
    ASSUME RequestIInv, PingTypeOK', UNCHANGED ssVars, silent' = silent
    PROVE  RequestIInv'
<1>1. /\ interval' = interval /\ lastSS' = lastSS /\ section' = section /\ page' = page
      /\ asked' = asked /\ steady' = steady /\ crossed' = crossed
  BY DEF ssVars
<1>2. SSTypeOK'
  BY <1>1 DEF RequestIInv, SSTypeOK
<1>3. SSIsAsked' /\ PageIsRight'
  BY <1>1 DEF RequestIInv, SSIsAsked, PageIsRight
<1>4. AutoIsPunctual'
  BY <1>1 DEF RequestIInv, AutoIsPunctual, Fits
<1> QED
  BY <1>2, <1>3, <1>4 DEF RequestIInv

LEMMA ExchangeStep ==
    ASSUME PingIInv, PingIInv', RequestIInv, Exchange
    PROVE  RequestIInv'
<1>1. PingTypeOK' /\ PingTypeOK /\ up \in Seq(Message)
  BY DEF PingIInv, PingTypeOK
<1>2. UNCHANGED ssVars /\ silent' = silent
  BY DEF Exchange, SendPing, ClientVerify, ServerPing
<1> QED
  BY <1>1, <1>2, RequestStutters

\* An answer refreshes the session; with a steady setting that fits, a request
\* is considered at once.
LEMMA RefreshStep ==
    ASSUME PingIInv, PingIInv', LiveIsHeard, RequestIInv, Refresh
    PROVE  RequestIInv'
<1>1. /\ ~section /\ ServerVerifyRet /\ section' = (AnswerMatches /\ interval > 0)
      /\ interval' = interval /\ lastSS' = lastSS /\ page' = page
      /\ asked' = asked /\ steady' = steady /\ crossed' = crossed
  BY DEF Refresh
<1>2. SSTypeOK'
  <2>1. section' \in BOOLEAN
    BY <1>1
  <2> QED
    BY <1>1, <2>1 DEF RequestIInv, SSTypeOK, PingIInv
<1>3. SSIsAsked' /\ PageIsRight'
  BY <1>1 DEF RequestIInv, SSIsAsked, PageIsRight
<1>4. AutoIsPunctual'
  <2> SUFFICES ASSUME 2 * MaxDelay < Period, steady, Fits(interval)
               PROVE  /\ section' /\ silent' = 0 /\ lastSS <= interval * Minute + Unheard
                      /\ page.pc # "send" => asked <= lastSS
    BY <1>1 DEF AutoIsPunctual
  <2>1. AnswerMatches
    BY <1>1, AnswersMatch DEF ServerVerifyRet
  <2>2. section' /\ silent' = 0
    BY <1>1, <2>1 DEF Fits, ServerVerifyRet
  <2>3. lastSS <= interval * Minute + silent /\ (page.pc # "send" => asked <= lastSS)
    BY <1>1 DEF RequestIInv, AutoIsPunctual
  <2>4. silent \in Nat /\ silent <= Unheard
    BY PingTyped DEF PingIInv, LiveIsHeard
  <2> DEFINE span == interval * Minute
  <2>5. span \in Nat /\ lastSS \in Nat
    BY RequestTyped DEF RequestIInv
  <2>6. lastSS <= span + silent
    BY <2>3
  <2> HIDE DEF span
  <2>7. lastSS <= span + Unheard
    BY <2>4, <2>5, <2>6, PingConstants
  <2> QED
    BY <2>2, <2>3, <2>7 DEF span
<1> QED
  BY <1>2, <1>3, <1>4 DEF RequestIInv

\* The request is sent if it is due.
LEMMA AskOrNotStep ==
    ASSUME PingIInv, PingIInv', RequestIInv, AskOrNot
    PROVE  RequestIInv'
<1>1. /\ section /\ section' = FALSE /\ interval' = interval /\ page' = page /\ silent' = silent
      /\ IF IsDue THEN /\ lastSS' = 0 /\ asked' = 0 /\ steady' = TRUE
                       /\ crossed' = (page.pc # "idle")
                  ELSE lastSS' = lastSS /\ asked' = asked /\ steady' = steady /\ crossed' = crossed
  BY DEF AskOrNot, pingVars
<1>2. /\ SSTypeOK /\ PingTypeOK' /\ interval * Minute \in Nat
      /\ lastSS \in Nat /\ asked \in Nat /\ silent \in Nat
      /\ page.ran \in Nat /\ page.pc \in {"idle", "copied", "store", "send"}
  BY RequestTyped, PingTyped DEF RequestIInv, PingIInv
<1>3. SSTypeOK'
  <2>1. 0 \in 0 .. (ClockWrap - 1) /\ 0 \in 0 .. ClockWrap
    BY RequestConstants
  <2>2. crossed' \in BOOLEAN
    BY <1>1, <1>2 DEF SSTypeOK
  <2> QED
    BY <1>1, <1>2, <2>1, <2>2 DEF SSTypeOK
<1>4. CASE IsDue
  <2>1. lastSS' = 0 /\ asked' = 0 /\ (~crossed' => page'.pc = "idle")
    BY <1>1, <1>4
  <2>2. SSIsAsked'
    BY <1>1, <1>2, <2>1, RequestConstants DEF SSIsAsked
  <2>3. PageIsRight'
    BY <2>1 DEF PageIsRight
  <2>4. AutoIsPunctual'
    <3>1. lastSS' <= interval * Minute + silent
      BY <1>2, <2>1
    <3> QED
      BY <1>1, <2>1, <3>1 DEF AutoIsPunctual
  <2> QED
    BY <1>3, <2>2, <2>3, <2>4 DEF RequestIInv
<1>5. CASE ~IsDue
  <2>1. lastSS' = lastSS /\ asked' = asked /\ steady' = steady /\ crossed' = crossed
    BY <1>1, <1>5
  <2>2. SSIsAsked' /\ PageIsRight'
    BY <1>1, <2>1 DEF RequestIInv, SSIsAsked, PageIsRight
  <2>3. AutoIsPunctual'
    <3> SUFFICES ASSUME 2 * MaxDelay < Period, steady, Fits(interval)
                 PROVE  /\ lastSS <= interval * Minute + silent
                        /\ page.pc # "send" => asked <= lastSS
      BY <1>1, <2>1 DEF AutoIsPunctual
    <3>1. silent = 0 /\ (page.pc # "send" => asked <= lastSS)
      BY <1>1 DEF RequestIInv, AutoIsPunctual
    <3> DEFINE span == interval * Minute
    <3>2. span \in Nat /\ ~ (lastSS > span)
      BY <1>2, <1>5, FittingProduct DEF IsDue
    <3> HIDE DEF span
    <3>3. lastSS <= span + silent
      BY <1>2, <3>1, <3>2
    <3> QED
      BY <3>1, <3>3 DEF span
  <2> QED
    BY <1>3, <2>2, <2>3 DEF RequestIInv
<1> QED
  BY <1>4, <1>5

\* The page begins, with a copy of the session.
LEMMA OpenPageStep == ASSUME PingIInv', RequestIInv, OpenPage PROVE RequestIInv'
<1>1. /\ page.pc = "idle" /\ page' = [pc |-> "copied", lastSS |-> lastSS, ran |-> 0]
      /\ UNCHANGED <<interval, lastSS, section, asked, steady, crossed>> /\ silent' = silent
  BY DEF OpenPage, pingVars
<1>2. page'.pc = "copied" /\ page'.lastSS = lastSS
  BY <1>1
<1>3. SSTypeOK'
  <2>1. page' \in [pc : {"idle", "copied", "store", "send"},
                   lastSS : 0 .. (ClockWrap - 1), ran : 0 .. MaxPage]
    BY <1>1, RequestConstants DEF RequestIInv, SSTypeOK
  <2> QED
    BY <1>1, <2>1 DEF RequestIInv, SSTypeOK, PingIInv
<1>4. SSIsAsked' /\ PageIsRight'
  BY <1>1, <1>2 DEF RequestIInv, SSIsAsked, PageIsRight
<1>5. AutoIsPunctual'
  BY <1>1, <1>2 DEF RequestIInv, AutoIsPunctual, Fits
<1> QED
  BY <1>3, <1>4, <1>5 DEF RequestIInv

\* The page compares the clock with its copy.
LEMMA CheckPageStep == ASSUME PingIInv', RequestIInv, CheckPage PROVE RequestIInv'
<1>1. /\ page.pc = "copied"
      /\ page' = IF page.lastSS > Spacing THEN [page EXCEPT !.pc = "store"] ELSE NoPage
      /\ crossed' = (crossed /\ page'.pc # "idle")
      /\ UNCHANGED <<interval, lastSS, section, asked, steady>> /\ silent' = silent
  BY DEF CheckPage, pingVars
<1>2. /\ SSTypeOK /\ lastSS \in Nat /\ asked \in Nat
  BY RequestTyped DEF RequestIInv
<1>3. /\ page' \in [pc : {"idle", "copied", "store", "send"},
                    lastSS : 0 .. (ClockWrap - 1), ran : 0 .. MaxPage]
      /\ page'.pc = IF page.lastSS > Spacing THEN "store" ELSE "idle"
  <2>1. page \in [pc : {"idle", "copied", "store", "send"},
                  lastSS : 0 .. (ClockWrap - 1), ran : 0 .. MaxPage]
    BY <1>2 DEF SSTypeOK
  <2>2. NoPage \in [pc : {"idle", "copied", "store", "send"},
                    lastSS : 0 .. (ClockWrap - 1), ran : 0 .. MaxPage] /\ NoPage.pc = "idle"
    BY RequestConstants DEF NoPage
  <2> QED
    BY <1>1, <2>1, <2>2
<1>4. SSTypeOK'
  <2>1. crossed' \in BOOLEAN
    BY <1>1
  <2> QED
    BY <1>1, <1>2, <1>3, <2>1 DEF SSTypeOK, PingIInv
<1>5. SSIsAsked'
  BY <1>1, <1>3 DEF RequestIInv, SSIsAsked
<1>6. PageIsRight'
  <2> SUFFICES ASSUME ~crossed', page.lastSS > Spacing
               PROVE  asked + MaxPage > Spacing
    BY <1>1, <1>3 DEF PageIsRight
  <2>1. ~crossed
    BY <1>1, <1>3
  <2>2. page.lastSS = lastSS
    BY <1>1, <2>1 DEF RequestIInv, PageIsRight
  <2>3. asked + MaxPage < ClockWrap => lastSS <= asked + MaxPage
    BY <1>1 DEF RequestIInv, SSIsAsked
  <2> QED
    BY <1>2, <2>2, <2>3, RequestConstants
<1>7. AutoIsPunctual'
  BY <1>1, <1>3 DEF RequestIInv, AutoIsPunctual, Fits
<1> QED
  BY <1>4, <1>5, <1>6, <1>7 DEF RequestIInv

\* The page writes lastSS.
LEMMA StorePageStep == ASSUME PingIInv', RequestIInv, StorePage PROVE RequestIInv'
<1>1. /\ page.pc = "store" /\ ~section /\ lastSS' = 0 /\ steady' = TRUE
      /\ page' = [page EXCEPT !.pc = "send"]
      /\ UNCHANGED <<interval, section, asked, crossed>> /\ silent' = silent
  BY DEF StorePage, pingVars
<1>2. /\ SSTypeOK /\ interval * Minute \in Nat /\ page.ran \in Nat /\ PingTypeOK'
      /\ silent' \in Nat
  BY RequestTyped, PingConstants DEF RequestIInv, PingIInv, PingTypeOK
<1>3. /\ page' \in [pc : {"idle", "copied", "store", "send"},
                    lastSS : 0 .. (ClockWrap - 1), ran : 0 .. MaxPage]
      /\ page'.pc = "send" /\ page'.ran = page.ran
  BY <1>1, <1>2 DEF SSTypeOK
<1>4. SSTypeOK'
  <2>1. 0 \in 0 .. (ClockWrap - 1)
    BY RequestConstants
  <2> QED
    BY <1>1, <1>2, <1>3, <2>1 DEF SSTypeOK
<1>5. SSIsAsked' /\ PageIsRight'
  BY <1>1, <1>2, <1>3 DEF RequestIInv, SSIsAsked, PageIsRight
<1>6. AutoIsPunctual'
  <2>1. lastSS' <= interval * Minute + silent'
    BY <1>1, <1>2
  <2> QED
    BY <1>1, <1>3, <2>1 DEF AutoIsPunctual
<1> QED
  BY <1>4, <1>5, <1>6 DEF RequestIInv

\* The page sends the request.
LEMMA SendPageStep == ASSUME PingIInv', RequestIInv, SendPage PROVE RequestIInv'
<1>1. /\ page.pc = "send" /\ page' = NoPage /\ asked' = 0 /\ crossed' = FALSE
      /\ UNCHANGED <<interval, lastSS, section, steady>> /\ silent' = silent
  BY DEF SendPage, pingVars
<1>2. /\ SSTypeOK /\ lastSS \in Nat /\ page.ran \in Nat /\ page.ran <= MaxPage
  BY RequestTyped DEF RequestIInv
<1>3. /\ page' \in [pc : {"idle", "copied", "store", "send"},
                    lastSS : 0 .. (ClockWrap - 1), ran : 0 .. MaxPage]
      /\ page'.pc = "idle"
  BY <1>1, RequestConstants DEF NoPage
<1>4. SSTypeOK'
  <2>1. 0 \in 0 .. ClockWrap
    BY RequestConstants
  <2> QED
    BY <1>1, <1>2, <1>3, <2>1 DEF SSTypeOK, PingIInv
<1>5. SSIsAsked'
  <2>1. lastSS <= page.ran
    BY <1>1 DEF RequestIInv, SSIsAsked
  <2> QED
    BY <1>1, <1>2, <1>3, <2>1, RequestConstants DEF SSIsAsked
<1>6. PageIsRight'
  BY <1>3 DEF PageIsRight
<1>7. AutoIsPunctual'
  BY <1>1, <1>2, <1>3 DEF RequestIInv, AutoIsPunctual, Fits
<1> QED
  BY <1>4, <1>5, <1>6, <1>7 DEF RequestIInv

\* The setting is changed.
LEMMA ConfigureStep ==
    ASSUME PingIInv', RequestIInv, NEW i \in Intervals, Configure(i)
    PROVE  RequestIInv'
<1>1. /\ interval' = i /\ steady' = FALSE
      /\ UNCHANGED <<lastSS, section, page, asked, crossed>>
  BY DEF Configure
<1>2. SSTypeOK'
  BY <1>1 DEF RequestIInv, SSTypeOK, PingIInv
<1>3. SSIsAsked' /\ PageIsRight' /\ AutoIsPunctual'
  BY <1>1 DEF RequestIInv, SSIsAsked, PageIsRight, AutoIsPunctual
<1> QED
  BY <1>2, <1>3 DEF RequestIInv

LEMMA RequestInductive ==
    /\ PingIInv /\ PingIInv' /\ LiveIsHeard /\ LiveIsHeard'
    /\ RequestIInv /\ [SSNext]_allVars
    => RequestIInv'
<1> SUFFICES ASSUME PingIInv, PingIInv', LiveIsHeard, LiveIsHeard', RequestIInv, [SSNext]_allVars
             PROVE  RequestIInv'
  OBVIOUS
<1>1. CASE UNCHANGED allVars
  BY <1>1, RequestStutters DEF allVars, pingVars, PingIInv
<1> QED
  BY <1>1, PassStep, ExchangeStep, RefreshStep, AskOrNotStep, OpenPageStep, CheckPageStep,
     StorePageStep, SendPageStep, ConfigureStep DEF SSNext

LEMMA RequestInvariant == SSSpec => [](RequestIInv /\ PingIInv /\ LiveIsHeard)
<1>1. SSSpec => []PingIInv /\ []LiveIsHeard
  BY FollowsPing, PingInvariant, LiveClientsAreHeard, PTL
<1> QED
  BY <1>1, RequestInitially, RequestInductive, PTL DEF SSSpec

\* The page asks at most once in the spacing, less the time that a page takes,
\* unless an automatic request crosses it: also when the ticks wrap around.
THEOREM PagesAreSpaced == SSSpec => PageWaits
<1> DEFINE Spaced == page.pc = "send" /\ page'.pc = "idle" /\ ~crossed => asked + MaxPage > Spacing
<1>1. RequestIInv /\ [SSNext]_allVars => [Spaced]_allVars
  BY DEF RequestIInv, PageIsRight
<1>2. SSSpec => [][Spaced]_allVars
  BY <1>1, RequestInvariant, PTL DEF SSSpec
<1> QED
  BY <1>2 DEF PageWaits

\* An automatic request is the setting apart from the request before it, less the
\* time that a page takes, if the product of the setting fits.
THEOREM AutomaticAreSpaced == SSSpec => AutoWaits
<1> DEFINE Spaced == section /\ ~section' /\ lastSS' # lastSS /\ Fits(interval)
                        => asked + MaxPage > interval * Minute
<1>1. RequestIInv /\ [SSNext]_allVars => [Spaced]_allVars
  <2> SUFFICES ASSUME RequestIInv, [SSNext]_allVars,
                      section, ~section', lastSS' # lastSS, Fits(interval)
               PROVE  asked + MaxPage > interval * Minute
    OBVIOUS
  <2>1. AskOrNot
    <3>1. ~ (Pass \/ Exchange \/ Refresh \/ OpenPage \/ CheckPage \/ StorePage \/ SendPage)
      BY DEF Pass, Exchange, Refresh, OpenPage, CheckPage, StorePage, SendPage, ssVars
    <3>2. ~ (\E i \in Intervals : Configure(i)) /\ ~ UNCHANGED allVars
      BY DEF Configure, allVars, ssVars
    <3> QED
      BY <3>1, <3>2 DEF SSNext
  <2> DEFINE span == interval * Minute
  <2>2. span \in Nat /\ lastSS > span /\ span + Unheard + MaxPage < ClockWrap
    BY <2>1, RequestTyped, FittingProduct DEF AskOrNot, IsDue, RequestIInv
  <2>3. lastSS \in Nat /\ asked \in Nat /\ page.ran \in Nat /\ page.ran <= MaxPage
    BY RequestTyped DEF RequestIInv
  <2> HIDE DEF span
  <2>4. CASE page.pc # "send"
    <3>1. asked + MaxPage < ClockWrap => lastSS <= asked + MaxPage
      BY <2>4 DEF RequestIInv, SSIsAsked
    <3> QED
      BY <2>2, <2>3, <3>1, PingConstants, RequestConstants DEF span
  <2>5. CASE page.pc = "send"
    <3>1. lastSS <= page.ran
      BY <2>5 DEF RequestIInv, SSIsAsked
    <3> QED
      BY <2>2, <2>3, <3>1, RequestConstants DEF span
  <2> QED
    BY <2>4, <2>5
<1>2. SSSpec => [][Spaced]_allVars
  BY <1>1, RequestInvariant, PTL DEF SSSpec
<1> QED
  BY <1>2 DEF AutoWaits

\* With a steady setting a live client on a fast enough network is asked again an
\* interval later, for every setting whose product fits the clock.
THEOREM AutomaticArrive == SSSpec => []AutoAsks
<1>1. RequestIInv /\ PingIInv /\ LiveIsHeard => AutoAsks
  <2> SUFFICES ASSUME RequestIInv, PingIInv, LiveIsHeard,
                      2 * MaxDelay < Period, steady, Fits(interval), page.pc # "send"
               PROVE  asked <= interval * Minute + Unheard + MaxPage
    BY DEF AutoAsks
  <2> DEFINE span == interval * Minute
  <2>1. span \in Nat /\ lastSS \in Nat /\ asked \in Nat /\ section \in BOOLEAN
    BY RequestTyped DEF RequestIInv
  <2>2. silent \in Nat /\ silent <= Unheard
    BY PingTyped DEF PingIInv, LiveIsHeard
  <2>3. asked <= lastSS /\ (lastSS <= span + silent \/ lastSS <= span + Unheard)
    BY <2>1 DEF RequestIInv, AutoIsPunctual
  <2> HIDE DEF span
  <2>4. asked <= span + Unheard + MaxPage
    BY <2>1, <2>2, <2>3, PingConstants, RequestConstants
  <2> QED
    BY <2>4 DEF span
<1> QED
  BY <1>1, RequestInvariant, PTL
=============================================================================
