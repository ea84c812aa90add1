---------------------------- MODULE Login_proofs -----------------------------
(***************************************************************************)
(* Proofs about logins, on the side of the client and on the side of the   *)
(* server, for any accounts, bounds, sizes, key streams and bytes.         *)
(*   - The login packet.  LoginArrives needs that both ends go through the *)
(*     same keys of the second layer in step (PacketIInv), and that taking *)
(*     the layers off undoes putting them on (EncodedTurns).               *)
(*   - The side effects of logins.  HandlesAreAccounted needs that a       *)
(*     session with a handle has the name of its mutex (MutexFollowsName), *)
(*     and it bounds the count of leaked handles in turn: type correctness *)
(*     is proved with it.  SiteKnows needs to say what a call under way    *)
(*     will tell the site (CallsTellTruth): the only call there is about   *)
(*     an account.                                                         *)
(***************************************************************************)
EXTENDS LoginEffects, SerialPacket, SequenceFacts, FiniteSetTheorems

-----------------------------------------------------------------------------
(* The side effects of logins.                                             *)

\* The sessions that hold the mutex of u.
Holders(u) == {g \in Guids : mutex[g] = u /\ name[g] = u}

MutexFollowsName == \A g \in Guids : mutex[g] # Null => mutex[g] = name[g]

HandleIInv == TypeOK /\ MutexFollowsName /\ HandlesAreAccounted

\* Nothing was muddled about u: one call is under way and says what is so, or
\* none is and the site knows.
TruthIsTold(u) ==
    LET offline == calls[<<u, "0">>]  online == calls[<<u, "1">>] IN
    \/ offline = 0 /\ online = 0 /\ (u \in site <=> Online(u))
    \/ offline = 1 /\ online = 0 /\ ~Online(u)
    \/ offline = 0 /\ online = 1 /\ Online(u)

CallsTellTruth == \A u \in Users \ muddled : TruthIsTold(u)

-----------------------------------------------------------------------------
(* Handles.                                                                *)

LEMMA HoldersCount ==
    ASSUME NEW u
    PROVE  IsFiniteSet(Holders(u)) /\ Cardinality(Holders(u)) \in Nat
<1>1. Holders(u) \in SUBSET Guids
  BY DEF Holders
<1> QED BY <1>1, EffectsAssumption, FS_Subset, FS_CardinalityType

\* One session lets go of its mutex, and takes that of k unless k is Null.
LEMMA HoldersMove ==
    ASSUME TypeOK, MutexFollowsName,
           NEW g \in Guids, NEW k \in Names \cup {Null}, NEW n \in Names \cup {Absent},
           mutex' = [mutex EXCEPT ![g] = k], name' = [name EXCEPT ![g] = n],
           k # Null => n = k,
           NEW v \in Names
    PROVE  /\ mutex[g] = v => Cardinality(Holders(v)) >= 1
           /\ Cardinality(Holders(v)') =
                Cardinality(Holders(v)) - (IF mutex[g] = v THEN 1 ELSE 0)
                                        + (IF k = v THEN 1 ELSE 0)
<1>1. /\ mutex'[g] = k /\ name'[g] = n
      /\ \A h \in Guids \ {g} : mutex'[h] = mutex[h] /\ name'[h] = name[h]
  BY DEF TypeOK
<1>2. v # Null /\ v # Absent
  BY EffectsAssumption
<1>3. g \in Holders(v) <=> mutex[g] = v
  BY <1>2 DEF Holders, MutexFollowsName
<1> DEFINE rest == Holders(v) \ {g}
<1>4. IsFiniteSet(rest)
      /\ Cardinality(rest) = Cardinality(Holders(v)) - (IF mutex[g] = v THEN 1 ELSE 0)
  <2>1. /\ IsFiniteSet(rest)
        /\ Cardinality(rest) = IF g \in Holders(v) THEN Cardinality(Holders(v)) - 1
                                                   ELSE Cardinality(Holders(v))
    BY HoldersCount, FS_RemoveElement
  <2> QED BY <1>3, <2>1, HoldersCount
<1>5. Cardinality(rest) \in Nat
  BY <1>4, FS_CardinalityType
<1>6. Holders(v)' = IF k = v THEN rest \cup {g} ELSE rest
  <2>1. Holders(v)' = {h \in Guids : mutex'[h] = v /\ name'[h] = v}
    BY DEF Holders
  <2> QED BY <1>1, <1>2, <2>1 DEF Holders
<1>7. g \notin rest
  OBVIOUS
<1> HIDE DEF rest
<1>8. Cardinality(rest \cup {g}) = Cardinality(rest) + 1
  BY <1>4, <1>7, FS_AddElement
<1> QED BY <1>4, <1>5, <1>6, <1>8, HoldersCount

LEMMA InitHandles == Init => HandleIInv
<1> SUFFICES ASSUME Init PROVE HandleIInv
  OBVIOUS
<1>1. 0 \in 0 .. MaxHandles /\ 0 \in 0 .. MaxCalls
  BY EffectsAssumption
<1>2. TypeOK /\ MutexFollowsName
  BY <1>1 DEF Init, TypeOK, MutexFollowsName
<1>3. \A u \in Names : Holders(u) = {}
  BY EffectsAssumption DEF Init, Holders
<1>4. HandlesAreAccounted
  <2>1. \A u \in Names : Cardinality(Holders(u)) = 0
    BY <1>3, FS_EmptySet
  <2> QED BY <2>1 DEF Init, HandlesAreAccounted, Holders
<1> QED BY <1>2, <1>4 DEF HandleIInv

\* The count in the words of the invariant.
LEMMA Accounted ==
    HandlesAreAccounted <=> \A u \in Names : handles[u] = leaked[u] + Cardinality(Holders(u))
BY DEF HandlesAreAccounted, Holders

\* A notification leaves the calls and what is muddled in their ranges.
LEMMA NotifyTypes ==
    ASSUME TypeOK, NEW u \in Names, NEW s \in Statuses, Notify(u, s)
    PROVE  calls' \in [Names \X Statuses -> 0 .. MaxCalls] /\ muddled' \in SUBSET Names
<1>1. muddled' \in SUBSET Names
  <2>1. Changed \in SUBSET Names
    BY DEF Changed, Names
  <2> QED BY <2>1 DEF Notify, TypeOK
<1>2. CASE calls' = calls
  BY <1>1, <1>2 DEF TypeOK
<1>3. CASE calls[<<u, s>>] < MaxCalls /\ calls' = [calls EXCEPT ![<<u, s>>] = @ + 1]
  <2>1. calls[<<u, s>>] + 1 \in 0 .. MaxCalls
    BY <1>3, EffectsAssumption DEF TypeOK
  <2> QED BY <1>1, <1>3, <2>1 DEF TypeOK
<1> QED BY <1>2, <1>3 DEF Notify

LEMMA AssignKeepsHandles ==
    ASSUME HandleIInv, NEW g \in Guids, NEW u \in Names, NEW created \in BOOLEAN,
           AssignUserID(g, u, created)
    PROVE  HandleIInv'
<1>0. TypeOK /\ MutexFollowsName /\ HandlesAreAccounted
  BY DEF HandleIInv
<1> DEFINE k == IF created THEN u ELSE Null
<1>1. /\ name[g] # Absent /\ handles[u] < MaxHandles
      /\ name' = [name EXCEPT ![g] = u] /\ mutex' = [mutex EXCEPT ![g] = k]
      /\ handles' = [handles EXCEPT ![u] = IF created THEN @ + 1 ELSE @]
      /\ leaked' = IF mutex[g] = Null THEN leaked ELSE [leaked EXCEPT ![mutex[g]] = @ + 1]
      /\ multi' = multi /\ telling' = telling /\ players' = players /\ site' = site
  BY DEF AssignUserID
<1>2. /\ k \in Names \cup {Null} /\ (k # Null => u = k)
      /\ \A v \in Names : k = v <=> (created /\ v = u)
  BY EffectsAssumption
<1> HIDE DEF k
<1>3. \A v \in Names :
        /\ handles[v] = leaked[v] + Cardinality(Holders(v))
        /\ Cardinality(Holders(v)) \in Nat
        /\ handles[v] \in 0 .. MaxHandles /\ leaked[v] \in 0 .. MaxHandles
  BY <1>0, Accounted, HoldersCount DEF TypeOK
<1>4. \A v \in Names :
        /\ mutex[g] = v => Cardinality(Holders(v)) >= 1
        /\ Cardinality(Holders(v)') =
                Cardinality(Holders(v)) - (IF mutex[g] = v THEN 1 ELSE 0)
                                        + (IF k = v THEN 1 ELSE 0)
  BY <1>0, <1>1, <1>2, HoldersMove
<1>5. \A v \in Names :
        /\ handles'[v] = handles[v] + (IF k = v THEN 1 ELSE 0)
        /\ leaked'[v] = leaked[v] + (IF mutex[g] = v THEN 1 ELSE 0)
  <2>1. \A v \in Names : handles'[v] = handles[v] + (IF k = v THEN 1 ELSE 0)
    BY <1>0, <1>1, <1>2, <1>3 DEF TypeOK
  <2>2. \A v \in Names : leaked'[v] = leaked[v] + (IF mutex[g] = v THEN 1 ELSE 0)
    <3>1. mutex[g] \in Names \cup {Null}
      BY <1>0 DEF TypeOK
    <3>2. CASE mutex[g] = Null
      BY <1>1, <1>3, <3>2, EffectsAssumption
    <3>3. CASE mutex[g] # Null
      BY <1>0, <1>1, <1>3, <3>1, <3>3 DEF TypeOK
    <3> QED BY <3>2, <3>3
  <2> QED BY <2>1, <2>2
<1>6. HandlesAreAccounted'
  <2> SUFFICES ASSUME NEW v \in Names
               PROVE  handles'[v] = leaked'[v] + Cardinality(Holders(v)')
    BY DEF HandlesAreAccounted, Holders
  <2> QED BY <1>3, <1>4, <1>5
<1>7. MutexFollowsName'
  BY <1>0, <1>1, <1>2 DEF MutexFollowsName, TypeOK
<1>8. TypeOK'
  <2>1. name' \in [Guids -> Names \cup {Absent}] /\ mutex' \in [Guids -> Names \cup {Null}]
    BY <1>0, <1>1, <1>2 DEF TypeOK
  <2>2. handles' \in [Names -> 0 .. MaxHandles]
    <3>1. handles[u] \in 0 .. MaxHandles /\ handles[u] + 1 \in 0 .. MaxHandles
      BY <1>1, <1>3, EffectsAssumption
    <3> QED BY <1>0, <1>1, <3>1 DEF TypeOK
  <2>3. leaked' \in [Names -> 0 .. MaxHandles]
    <3>1. \A v \in Names : mutex[g] = v => leaked[v] + 1 \in 0 .. MaxHandles
      BY <1>3, <1>4, EffectsAssumption
    <3>2. mutex[g] \in Names \cup {Null}
      BY <1>0 DEF TypeOK
    <3> QED BY <1>0, <1>1, <3>1, <3>2 DEF TypeOK
  <2>4. calls' \in [Names \X Statuses -> 0 .. MaxCalls] /\ muddled' \in SUBSET Names
    BY <1>0, NotifyTypes DEF AssignUserID, Statuses
  <2> QED BY <1>0, <1>1, <2>1, <2>2, <2>3, <2>4 DEF TypeOK
<1> QED BY <1>6, <1>7, <1>8 DEF HandleIInv

LEMMA RemoveKeepsHandles ==
    ASSUME HandleIInv, NEW g \in Guids, RemovePlayer(g)
    PROVE  HandleIInv'
<1>0. TypeOK /\ MutexFollowsName /\ HandlesAreAccounted
  BY DEF HandleIInv
<1>1. /\ name[g] # Absent /\ name' = [name EXCEPT ![g] = Absent]
      /\ mutex' = [mutex EXCEPT ![g] = Null]
      /\ handles' = IF mutex[g] = Null THEN handles ELSE [handles EXCEPT ![mutex[g]] = @ - 1]
      /\ leaked' = leaked /\ multi' = multi /\ telling' = telling /\ site' = site
  BY DEF RemovePlayer
<1>2. \A v \in Names : v # Null
  BY EffectsAssumption
<1>3. \A v \in Names :
        /\ handles[v] = leaked[v] + Cardinality(Holders(v))
        /\ Cardinality(Holders(v)) \in Nat
        /\ handles[v] \in 0 .. MaxHandles /\ leaked[v] \in 0 .. MaxHandles
  BY <1>0, Accounted, HoldersCount DEF TypeOK
<1>4. \A v \in Names :
        /\ mutex[g] = v => Cardinality(Holders(v)) >= 1
        /\ Cardinality(Holders(v)') =
                Cardinality(Holders(v)) - (IF mutex[g] = v THEN 1 ELSE 0)
                                        + (IF Null = v THEN 1 ELSE 0)
  BY <1>0, <1>1, HoldersMove
<1>5. \A v \in Names : handles'[v] = handles[v] - (IF mutex[g] = v THEN 1 ELSE 0)
  <2>1. mutex[g] \in Names \cup {Null}
    BY <1>0 DEF TypeOK
  <2>2. CASE mutex[g] = Null
    BY <1>1, <1>2, <1>3, <2>2
  <2>3. CASE mutex[g] # Null
    BY <1>0, <1>1, <1>3, <2>1, <2>3 DEF TypeOK
  <2> QED BY <2>2, <2>3
<1>6. HandlesAreAccounted'
  <2> SUFFICES ASSUME NEW v \in Names
               PROVE  handles'[v] = leaked[v] + Cardinality(Holders(v)')
    BY <1>1 DEF HandlesAreAccounted, Holders
  <2> QED BY <1>2, <1>3, <1>4, <1>5
<1>7. MutexFollowsName'
  BY <1>0, <1>1 DEF MutexFollowsName, TypeOK
<1>8. TypeOK'
  <2>1. name' \in [Guids -> Names \cup {Absent}] /\ mutex' \in [Guids -> Names \cup {Null}]
    BY <1>0, <1>1 DEF TypeOK
  <2>2. handles' \in [Names -> 0 .. MaxHandles]
    <3>1. \A v \in Names : mutex[g] = v => handles[v] - 1 \in 0 .. MaxHandles
      BY <1>3, <1>4, EffectsAssumption
    <3>2. mutex[g] \in Names \cup {Null}
      BY <1>0 DEF TypeOK
    <3> QED BY <1>0, <1>1, <3>1, <3>2 DEF TypeOK
  <2>3. name[g] \in Names
    BY <1>0, <1>1 DEF TypeOK
  <2>4. calls' \in [Names \X Statuses -> 0 .. MaxCalls] /\ muddled' \in SUBSET Names
    <3>1. CASE calls' = calls /\ muddled' = muddled
      BY <1>0, <3>1 DEF TypeOK
    <3>2. CASE Notify(name[g], "0")
      BY <1>0, <2>3, <3>2, NotifyTypes DEF Statuses
    <3> QED BY <3>1, <3>2 DEF RemovePlayer
  <2>5. players' \in Seq(Guids)
    <3>1. PICK i \in DOMAIN players : players' = RemoveAt(players, i)
      BY DEF RemovePlayer
    <3> QED BY <1>0, <3>1, RemoveAtElements DEF TypeOK
  <2> QED BY <1>0, <1>1, <2>1, <2>2, <2>4, <2>5 DEF TypeOK
<1> QED BY <1>6, <1>7, <1>8 DEF HandleIInv

\* Refusals, deliveries and settings leave the handles alone, and a session that
\* begins has none.
LEMMA OthersKeepHandles ==
    ASSUME HandleIInv,
           \/ \E g \in Guids : AddPlayer(g) \/ \E u \in Names : RefuseUserID(g, u)
           \/ \E u \in Names, s \in Statuses : Deliver(u, s) \/ Lose(u, s)
           \/ Reconfigure
    PROVE  HandleIInv'
<1>0. TypeOK /\ MutexFollowsName /\ HandlesAreAccounted
  BY DEF HandleIInv
<1>1. mutex' = mutex /\ handles' = handles /\ leaked' = leaked
  BY DEF AddPlayer, RefuseUserID, Deliver, Lose, Reconfigure
<1>2. \/ name' = name
      \/ \E g \in Guids : name[g] = Absent /\ name' = [name EXCEPT ![g] = NoUser]
  BY DEF AddPlayer, RefuseUserID, Deliver, Lose, Reconfigure
<1>3. name' \in [Guids -> Names \cup {Absent}]
  BY <1>0, <1>2 DEF TypeOK, Names
<1>4. \A g \in Guids : mutex[g] # Null => name'[g] = name[g]
  <2>1. \A g \in Guids : mutex[g] # Null => name[g] # Absent
    BY <1>0, EffectsAssumption DEF MutexFollowsName, TypeOK
  <2> QED BY <1>0, <1>2, <2>1 DEF TypeOK
<1>5. MutexFollowsName'
  BY <1>0, <1>1, <1>4 DEF MutexFollowsName
<1>6. \A u \in Names : Holders(u)' = Holders(u)
  <2>1. \A u \in Names : u # Null
    BY EffectsAssumption
  <2>2. \A u \in Names : \A g \in Guids :
            (mutex'[g] = u /\ name'[g] = u) <=> (mutex[g] = u /\ name[g] = u)
    BY <1>1, <1>4, <2>1
  <2> QED BY <2>2 DEF Holders
<1>7. HandlesAreAccounted'
  <2>1. \A u \in Names : handles[u] = leaked[u] + Cardinality(Holders(u))
    BY <1>0, Accounted
  <2> SUFFICES ASSUME NEW u \in Names
               PROVE  handles[u] = leaked[u] + Cardinality(Holders(u)')
    BY <1>1 DEF HandlesAreAccounted, Holders
  <2> QED BY <1>6, <2>1
<1>8. calls' \in [Names \X Statuses -> 0 .. MaxCalls] /\ muddled' \in SUBSET Names
  <2>1. CASE calls' = calls /\ muddled' = muddled
    BY <1>0, <2>1 DEF TypeOK
  <2>2. ASSUME NEW g \in Guids, NEW u \in Names, RefuseUserID(g, u)
        PROVE  calls' \in [Names \X Statuses -> 0 .. MaxCalls] /\ muddled' \in SUBSET Names
    BY <1>0, <2>2, NotifyTypes DEF RefuseUserID, Statuses
  <2>3. ASSUME NEW u \in Names, NEW s \in Statuses, Deliver(u, s) \/ Lose(u, s)
        PROVE  calls' \in [Names \X Statuses -> 0 .. MaxCalls] /\ muddled' \in SUBSET Names
    <3>1. /\ calls[<<u, s>>] > 0 /\ calls' = [calls EXCEPT ![<<u, s>>] = @ - 1]
          /\ muddled' = muddled \/ muddled' = muddled \cup {u}
      BY <2>3 DEF Deliver, Lose
    <3>2. calls[<<u, s>>] - 1 \in 0 .. MaxCalls
      BY <1>0, <3>1, EffectsAssumption DEF TypeOK
    <3> QED BY <1>0, <3>1, <3>2 DEF TypeOK
  <2> QED BY <2>1, <2>2, <2>3 DEF AddPlayer, Reconfigure
<1>9. multi' \in BOOLEAN /\ telling' \in BOOLEAN /\ site' \in SUBSET Names
  BY <1>0 DEF TypeOK, AddPlayer, RefuseUserID, Deliver, Lose, Reconfigure
<1>10. players' \in Seq(Guids)
  <2>1. ASSUME NEW g \in Guids, AddPlayer(g) PROVE players' \in Seq(Guids)
    BY <1>0, <2>1 DEF AddPlayer, TypeOK
  <2>2. CASE players' = players
    BY <1>0, <2>2 DEF TypeOK
  <2> QED BY <2>1, <2>2 DEF RefuseUserID, Deliver, Lose, Reconfigure
<1>11. TypeOK'
  BY <1>0, <1>1, <1>3, <1>8, <1>9, <1>10 DEF TypeOK
<1> QED BY <1>5, <1>7, <1>11 DEF HandleIInv

LEMMA HandleStep == HandleIInv /\ [Next]_vars => HandleIInv'
<1> SUFFICES ASSUME HandleIInv, [Next]_vars PROVE HandleIInv'
  OBVIOUS
<1>1. CASE UNCHANGED vars
  BY <1>1 DEF vars, HandleIInv, TypeOK, MutexFollowsName, HandlesAreAccounted
<1>2. CASE Next
  BY <1>2, AssignKeepsHandles, RemoveKeepsHandles, OthersKeepHandles DEF Next
<1> QED BY <1>1, <1>2

LEMMA HandleInvariance == Spec => []HandleIInv
BY InitHandles, HandleStep, PTL DEF Spec

\* The counts and names stay in their ranges: no handle is closed that is not
\* open.
THEOREM TypeCorrect == Spec => []TypeOK
<1>1. HandleIInv => TypeOK
  BY DEF HandleIInv
<1> QED BY HandleInvariance, <1>1, PTL

\* AssignUserIDToPlayer and RemovePlayerByGUID (ServerCore.cpp) account for every
\* handle: it is that of a session with the name of the mutex, so that it goes
\* with the session, or a second login of its session has overwritten it.
THEOREM MutexesAreAccounted == Spec => []HandlesAreAccounted
<1>1. HandleIInv => HandlesAreAccounted
  BY DEF HandleIInv
<1> QED BY HandleInvariance, <1>1, PTL

-----------------------------------------------------------------------------
(* What the site is told.                                                  *)

LEMMA InitTruth == Init => CallsTellTruth
<1> SUFFICES ASSUME Init, NEW u \in Users PROVE TruthIsTold(u)
  BY DEF CallsTellTruth
<1>1. u \in Names /\ u # Absent
  BY EffectsAssumption DEF Names
<1>2. calls[<<u, "0">>] = 0 /\ calls[<<u, "1">>] = 0
  BY <1>1 DEF Init, Statuses
<1>3. ~Online(u) /\ u \notin site
  BY <1>1 DEF Init, Online
<1> QED BY <1>2, <1>3 DEF TruthIsTold

LEMMA PendingFacts ==
    ASSUME TypeOK, NEW u \in Names, ~Pending(u)
    PROVE  calls[<<u, "0">>] = 0 /\ calls[<<u, "1">>] = 0
<1>1. calls[<<u, "0">>] \in Nat /\ calls[<<u, "1">>] \in Nat
  BY EffectsAssumption DEF TypeOK, Statuses
<1> QED BY <1>1 DEF Pending, Statuses

\* A call about u that overtakes none leaves no other about u under way, and the
\* calls about the others as they were.
LEMMA CallFacts ==
    ASSUME TypeOK, NEW u \in Names, NEW s \in Statuses,
           calls' = [calls EXCEPT ![<<u, s>>] = @ + 1]
    PROVE  /\ ~Pending(u) => \A t \in Statuses : calls'[<<u, t>>] = IF t = s THEN 1 ELSE 0
           /\ \A v \in Names \ {u}, t \in Statuses : calls'[<<v, t>>] = calls[<<v, t>>]
<1>1. /\ calls'[<<u, s>>] = calls[<<u, s>>] + 1
      /\ \A t \in Statuses \ {s} : calls'[<<u, t>>] = calls[<<u, t>>]
      /\ \A v \in Names \ {u}, t \in Statuses : calls'[<<v, t>>] = calls[<<v, t>>]
  BY DEF TypeOK
<1>2. ~Pending(u) => \A t \in Statuses : calls[<<u, t>>] = 0
  BY PendingFacts DEF Statuses
<1> QED BY <1>1, <1>2

\* Nothing that concerns u.
LEMMA TruthStays ==
    ASSUME NEW u, TruthIsTold(u), \A s \in Statuses : calls'[<<u, s>>] = calls[<<u, s>>],
           u \in site' <=> u \in site, Online(u)' <=> Online(u)
    PROVE  TruthIsTold(u)'
<1>1. calls'[<<u, "0">>] = calls[<<u, "0">>] /\ calls'[<<u, "1">>] = calls[<<u, "1">>]
  BY DEF Statuses
<1>2. \/ calls'[<<u, "0">>] = 0 /\ calls'[<<u, "1">>] = 0 /\ (u \in site' <=> Online(u)')
      \/ calls'[<<u, "0">>] = 1 /\ calls'[<<u, "1">>] = 0 /\ ~Online(u)'
      \/ calls'[<<u, "0">>] = 0 /\ calls'[<<u, "1">>] = 1 /\ Online(u)'
  BY <1>1 DEF TruthIsTold
<1> QED BY <1>2 DEF TruthIsTold

\* Whoever comes online or goes offline in a step is muddled by it, but for the
\* account of a lone call that says so.
LEMMA NotifyTellsTruth ==
    ASSUME TypeOK, CallsTellTruth, NEW u \in Names, NEW s \in Statuses, Notify(u, s),
           site' = site
    PROVE  CallsTellTruth'
<1> SUFFICES ASSUME NEW v \in Users, v \notin muddled' PROVE TruthIsTold(v)'
  BY DEF CallsTellTruth
<1>1. v \in Names
  BY DEF Names
<1>2. ASSUME v \notin muddled, v \notin Changed,
             \A t \in Statuses : calls'[<<v, t>>] = calls[<<v, t>>]
      PROVE  TruthIsTold(v)'
  <2>1. TruthIsTold(v)
    BY <1>2 DEF CallsTellTruth
  <2>2. Online(v)' <=> Online(v)
    BY <1>2 DEF Changed
  <2> QED BY <1>2, <2>1, <2>2, TruthStays
<1>3. CASE calls' = calls /\ muddled' = muddled \cup Changed
  BY <1>2, <1>3
<1>4. CASE /\ calls' = [calls EXCEPT ![<<u, s>>] = @ + 1]
           /\ muddled' = IF Pending(u) \/ Online(u)' # (s = "1")
                         THEN muddled \cup Changed \cup {u}
                         ELSE (muddled \cup Changed) \ {u}
  <2>1. CASE v = u
    <3>1. ~Pending(u) /\ (Online(u)' <=> s = "1")
      <4>1. ~(Pending(u) \/ Online(u)' # (s = "1"))
        BY <1>4, <2>1
      <4> QED BY <4>1 DEF Online
    <3>2. \A t \in Statuses : calls'[<<u, t>>] = IF t = s THEN 1 ELSE 0
      BY <1>4, <3>1, CallFacts
    <3>3. CASE s = "1"
      <4>1. calls'[<<u, "0">>] = 0 /\ calls'[<<u, "1">>] = 1
        BY <3>2, <3>3 DEF Statuses
      <4> QED BY <2>1, <3>1, <3>3, <4>1 DEF TruthIsTold
    <3>4. CASE s = "0"
      <4>1. calls'[<<u, "0">>] = 1 /\ calls'[<<u, "1">>] = 0
        BY <3>2, <3>4 DEF Statuses
      <4>2. ~Online(u)'
        BY <3>1, <3>4
      <4> QED BY <2>1, <4>1, <4>2 DEF TruthIsTold
    <3> QED BY <3>3, <3>4 DEF Statuses
  <2>2. CASE v # u
    <3>1. v \notin muddled /\ v \notin Changed
      BY <1>4, <2>2
    <3>2. \A t \in Statuses : calls'[<<v, t>>] = calls[<<v, t>>]
      BY <1>1, <1>4, <2>2, CallFacts
    <3> QED BY <1>2, <3>1, <3>2
  <2> QED BY <2>1, <2>2
<1> QED BY <1>3, <1>4 DEF Notify

\* The call that was under way says what is so.
LEMMA DeliverTellsTruth ==
    ASSUME TypeOK, CallsTellTruth, NEW u \in Names, NEW s \in Statuses, Deliver(u, s)
    PROVE  CallsTellTruth'
<1>1. /\ calls[<<u, s>>] > 0 /\ calls' = [calls EXCEPT ![<<u, s>>] = @ - 1]
      /\ site' = IF s = "1" THEN site \cup {u} ELSE site \ {u}
      /\ name' = name /\ muddled' = muddled
  BY DEF Deliver
<1> SUFFICES ASSUME NEW v \in Users \ muddled PROVE TruthIsTold(v)'
  BY <1>1 DEF CallsTellTruth
<1>2. TruthIsTold(v) /\ v \in Names
  BY DEF CallsTellTruth, Names
<1>3. Online(v)' <=> Online(v)
  BY <1>1 DEF Online
<1>4. /\ calls'[<<u, s>>] = calls[<<u, s>>] - 1
      /\ \A t \in Statuses \ {s} : calls'[<<u, t>>] = calls[<<u, t>>]
      /\ \A w \in Names \ {u}, t \in Statuses : calls'[<<w, t>>] = calls[<<w, t>>]
  BY <1>1 DEF TypeOK
<1>5. CASE v = u
  <2>1. CASE s = "1"
    <3>1. calls[<<u, "0">>] = 0 /\ calls[<<u, "1">>] = 1 /\ Online(u)
      BY <1>1, <1>2, <1>5, <2>1 DEF TruthIsTold
    <3>2. calls'[<<u, "0">>] = 0 /\ calls'[<<u, "1">>] = 0 /\ u \in site'
      BY <1>1, <1>4, <2>1, <3>1 DEF Statuses
    <3> QED BY <1>3, <1>5, <3>1, <3>2 DEF TruthIsTold
  <2>2. CASE s = "0"
    <3>1. calls[<<u, "0">>] = 1 /\ calls[<<u, "1">>] = 0 /\ ~Online(u)
      BY <1>1, <1>2, <1>5, <2>2 DEF TruthIsTold
    <3>2. calls'[<<u, "0">>] = 0 /\ calls'[<<u, "1">>] = 0 /\ u \notin site'
      BY <1>1, <1>4, <2>2, <3>1 DEF Statuses
    <3> QED BY <1>3, <1>5, <3>1, <3>2 DEF TruthIsTold
  <2> QED BY <2>1, <2>2 DEF Statuses
<1>6. CASE v # u
  <2>1. \A t \in Statuses : calls'[<<v, t>>] = calls[<<v, t>>]
    BY <1>2, <1>4, <1>6
  <2>2. v \in site' <=> v \in site
    BY <1>1, <1>6
  <2> QED BY <1>2, <1>3, <2>1, <2>2, TruthStays
<1> QED BY <1>5, <1>6

\* The account of a lost call is muddled, and nothing else changes.
LEMMA LoseTellsTruth ==
    ASSUME TypeOK, CallsTellTruth, NEW u \in Names, NEW s \in Statuses, Lose(u, s)
    PROVE  CallsTellTruth'
<1>1. /\ calls' = [calls EXCEPT ![<<u, s>>] = @ - 1]
      /\ muddled' = muddled \cup {u} /\ site' = site /\ name' = name
  BY DEF Lose
<1> SUFFICES ASSUME NEW v \in Users, v \notin muddled' PROVE TruthIsTold(v)'
  BY DEF CallsTellTruth
<1>2. TruthIsTold(v) /\ v \in Names /\ v # u
  BY <1>1 DEF CallsTellTruth, Names
<1>3. \A t \in Statuses : calls'[<<v, t>>] = calls[<<v, t>>]
  BY <1>1, <1>2 DEF TypeOK
<1>4. Online(v)' <=> Online(v)
  BY <1>1 DEF Online
<1> QED BY <1>1, <1>2, <1>3, <1>4, TruthStays

\* A session that begins, or ends, without an account.
LEMMA QuietStepTellsTruth ==
    ASSUME TypeOK, CallsTellTruth, calls' = calls, site' = site, muddled' = muddled,
           \/ name' = name
           \/ \E g \in Guids, n \in {NoUser, Absent} :
                name[g] \in {NoUser, Absent} /\ name' = [name EXCEPT ![g] = n]
    PROVE  CallsTellTruth'
<1>1. ASSUME NEW v \in Users PROVE Online(v)' <=> Online(v)
  <2>1. v # NoUser /\ v # Absent
    BY EffectsAssumption DEF Names
  <2>2. CASE name' = name
    BY <2>2 DEF Online
  <2>3. ASSUME NEW g \in Guids, NEW n \in {NoUser, Absent},
               name[g] \in {NoUser, Absent}, name' = [name EXCEPT ![g] = n]
        PROVE  Online(v)' <=> Online(v)
    <3>1. \A h \in Guids : name'[h] = v <=> name[h] = v
      BY <2>1, <2>3 DEF TypeOK
    <3> QED BY <3>1 DEF Online
  <2> QED BY <2>2, <2>3
<1> SUFFICES ASSUME NEW v \in Users \ muddled PROVE TruthIsTold(v)'
  BY DEF CallsTellTruth
<1>2. TruthIsTold(v)
  BY DEF CallsTellTruth
<1> QED BY <1>1, <1>2, TruthStays

LEMMA TruthStep == TypeOK /\ CallsTellTruth /\ [Next]_vars => CallsTellTruth'
<1> SUFFICES ASSUME TypeOK, CallsTellTruth, [Next]_vars PROVE CallsTellTruth'
  OBVIOUS
<1>1. ASSUME NEW g \in Guids, RemovePlayer(g) PROVE CallsTellTruth'
  <2>1. CASE name[g] = NoUser
    <3>1. /\ calls' = calls /\ site' = site /\ muddled' = muddled
          /\ name' = [name EXCEPT ![g] = Absent]
      BY <1>1, <2>1 DEF RemovePlayer
    <3> QED BY <2>1, <3>1, QuietStepTellsTruth
  <2>2. CASE name[g] # NoUser
    <3>1. Notify(name[g], "0") /\ site' = site /\ name[g] \in Names
      BY <1>1, <2>2 DEF RemovePlayer, TypeOK
    <3> QED BY <3>1, NotifyTellsTruth DEF Statuses
  <2> QED BY <2>1, <2>2
<1>2. ASSUME NEW g \in Guids, NEW u \in Names,
             RefuseUserID(g, u) \/ \E created \in BOOLEAN : AssignUserID(g, u, created)
      PROVE  CallsTellTruth'
  <2>1. Notify(u, "1") /\ site' = site
    BY <1>2 DEF RefuseUserID, AssignUserID
  <2> QED BY <2>1, NotifyTellsTruth DEF Statuses
<1>3. ASSUME NEW u \in Names, NEW s \in Statuses, Deliver(u, s) \/ Lose(u, s)
      PROVE  CallsTellTruth'
  BY <1>3, DeliverTellsTruth, LoseTellsTruth
<1>4. ASSUME NEW g \in Guids, AddPlayer(g) PROVE CallsTellTruth'
  <2>1. /\ calls' = calls /\ site' = site /\ muddled' = muddled
        /\ name[g] = Absent /\ name' = [name EXCEPT ![g] = NoUser]
    BY <1>4 DEF AddPlayer
  <2> QED BY <2>1, QuietStepTellsTruth
<1>5. CASE Reconfigure \/ UNCHANGED vars
  BY <1>5, QuietStepTellsTruth DEF Reconfigure, vars
<1> QED BY <1>1, <1>2, <1>3, <1>4, <1>5 DEF Next

\* STATUS_NOTIFY (AssignUserIDToPlayer, RemovePlayerByGUID, CallAPI): although
\* calls are lost, overtake each other and are switched off, the site knows who
\* plays once the threads that call it have finished, but for the accounts to
\* whom one of the things named at SiteKnows happened after the last call about
\* them that was alone and true; whatever the sessions, accounts and settings.
THEOREM SiteIsTold == Spec => []SiteKnows
<1>1. TypeOK /\ CallsTellTruth => SiteKnows
  <2> SUFFICES ASSUME TypeOK, CallsTellTruth, NEW u \in Users \ muddled, ~Pending(u)
               PROVE  u \in site <=> Online(u)
    BY DEF SiteKnows
  <2>1. calls[<<u, "0">>] = 0 /\ calls[<<u, "1">>] = 0
    BY PendingFacts DEF Names
  <2> QED BY <2>1 DEF CallsTellTruth, TruthIsTold
<1> QED BY TypeCorrect, InitTruth, TruthStep, <1>1, PTL DEF Spec

-----------------------------------------------------------------------------
(* Numbers and the exclusive or.                                           *)

\* Sets of numbers with names: the provers are not to count to their ends.
Below(n) == {k \in Nat : k < n}
Bit == Below(2)
Octet == Below(256)
Word16 == Below(65536)
Word18 == Below(262144)
Word32 == Below(4294967296)

\* Multiplication, quotient and remainder, for any modulus.
LEMMA Mono ==
  ASSUME NEW x \in Nat, NEW y \in Nat, NEW m \in Nat, x <= y
  PROVE  x * m <= y * m
<1>1. PICK d \in Nat : y = x + d
  <2> y - x \in Nat /\ y = x + (y - x)
    OBVIOUS
  <2> QED OBVIOUS
<1>2. y * m = x * m + d * m /\ d * m >= 0
  BY <1>1
<1> QED BY <1>2

LEMMA ModUnique ==
  ASSUME NEW m \in Nat, m > 0, NEW q \in Nat, NEW r \in Nat, r < m
  PROVE  (q * m + r) % m = r
<1> DEFINE z == q * m + r
           d == z \div m
           s == z % m
<1>1. z \in Nat
  OBVIOUS
<1>2. d \in Nat /\ s \in Nat /\ s < m /\ z = m * d + s
  BY <1>1
<1>3. m * d = d * m /\ d * m \in Nat /\ q * m \in Nat
  BY <1>2
<1>4. z = q * m + r
  OBVIOUS
<1> HIDE DEF z, d, s
<1>5. ~(d < q)
  <2> SUFFICES ASSUME d < q PROVE FALSE
    OBVIOUS
  <2>1. (d + 1) * m <= q * m
    BY <1>2, Mono
  <2>2. (d + 1) * m = d * m + m
    BY <1>2
  <2> QED BY <2>1, <2>2, <1>2, <1>3, <1>4
<1>6. ~(q < d)
  <2> SUFFICES ASSUME q < d PROVE FALSE
    OBVIOUS
  <2>1. (q + 1) * m <= d * m
    BY <1>2, Mono
  <2>2. (q + 1) * m = q * m + m
    OBVIOUS
  <2> QED BY <2>1, <2>2, <1>2, <1>3, <1>4
<1>7. d = q
  BY <1>2, <1>5, <1>6
<1>8. s = r
  BY <1>2, <1>3, <1>4, <1>7
<1> QED BY <1>8 DEF s, z

LEMMA SumMod ==
  ASSUME NEW m \in Nat, m > 0, NEW k \in Nat, NEW z \in Nat
  PROVE  (k * m + z) % m = z % m
<1> DEFINE q == z \div m
           r == z % m
<1>1. q \in Nat /\ r \in Nat /\ r < m /\ z = q * m + r
  OBVIOUS
<1>2. k * m + z = (k + q) * m + r
  BY <1>1
<1> HIDE DEF q, r
<1>3. k + q \in Nat 
  BY <1>1
<1>4. ((k + q) * m + r) % m = r
  BY <1>1, <1>3, ModUnique
<1> QED BY <1>2, <1>4 DEF r

\* The halves that TimesMod computes make up the product.
LEMMA Halves ==
  ASSUME NEW p1 \in Nat, NEW p0 \in Nat, p1 * 512 + p0 < 4294967296, NEW low, NEW high,
         low = (p1 % 128) * 512 + (p0 % 65536),
         high = (p1 \div 128 + p0 \div 65536 + low \div 65536) % 65536
  PROVE  /\ low \in Nat /\ high \in Nat
         /\ high * 65536 + (low % 65536) = p1 * 512 + p0
<1>1. low \in Nat /\ p1 \div 128 \in Nat /\ p0 \div 65536 \in Nat /\ low \div 65536 \in Nat
  OBVIOUS
<1>2. p1 = 128 * (p1 \div 128) + (p1 % 128) /\ p0 = 65536 * (p0 \div 65536) + (p0 % 65536)
      /\ low = 65536 * (low \div 65536) + (low % 65536) /\ (low % 65536) \in Nat
  BY <1>1
<1>3. (p1 \div 128 + p0 \div 65536 + low \div 65536) * 65536 + (low % 65536) = p1 * 512 + p0
  BY <1>1, <1>2
<1>4. p1 \div 128 + p0 \div 65536 + low \div 65536 < 65536
  BY <1>1, <1>2, <1>3
<1>5. high = p1 \div 128 + p0 \div 65536 + low \div 65536
  BY <1>1, <1>4
<1> QED BY <1>1, <1>3, <1>5

\* TimesMod is (a * b) % m where the product fits in an unsigned long.
LEMMA TimesModIsProduct ==
  ASSUME NEW a \in Nat, NEW b \in Nat, NEW m \in Nat, m > 0, a * b < 4294967296
  PROVE  TimesMod(a, b, m) = (a * b) % m
<1> DEFINE p1 == (a \div 512) * b
           p0 == (a % 512) * b
           low == (p1 % 128) * 512 + (p0 % 65536)
           high == (p1 \div 128 + p0 \div 65536 + low \div 65536) % 65536
           q == (high * 256) \div m
           r == (high * 256) % m
           y == low % 65536
<1>1. TimesMod(a, b, m) = (r * 256 + y) % m
  BY DEF TimesMod
<1>2. p1 \in Nat /\ p0 \in Nat /\ p1 * 512 + p0 = a * b
  <2>1. a = (a \div 512) * 512 + (a % 512) /\ (a \div 512) \in Nat /\ (a % 512) \in Nat
    OBVIOUS
  <2>2. a * b = ((a \div 512) * 512 + (a % 512)) * b
    BY <2>1
  <2>3. a * b = ((a \div 512) * b) * 512 + (a % 512) * b
    BY <2>1, <2>2
  <2> QED BY <2>1, <2>3
<1> HIDE DEF p1, p0
<1>3. low \in Nat /\ high \in Nat /\ high * 65536 + y = a * b
  BY <1>2, Halves
<1> HIDE DEF low, high
<1>4. y \in Nat
  BY <1>3
<1>5. q \in Nat /\ r \in Nat /\ high * 256 = q * m + r
  BY <1>3
<1> HIDE DEF q, r, y
<1>6. a * b = (256 * q) * m + (256 * r + y)
  <2>1. high * 65536 = 256 * (high * 256)
    BY <1>3
  <2>2. 256 * (q * m + r) = (256 * q) * m + 256 * r
    BY <1>5
  <2> QED BY <1>3, <1>4, <1>5, <2>1, <2>2
<1>7. (a * b) % m = (256 * r + y) % m
  <2> DEFINE k == 256 * q
             z == 256 * r + y
             s == a * b
  <2>1. k \in Nat /\ z \in Nat /\ s = k * m + z /\ m > 0
    BY <1>4, <1>5, <1>6
  <2> HIDE DEF k, z, s
  <2>2. (k * m + z) % m = z % m
    BY ONLY <2>1, SumMod
  <2> QED BY <2>1, <2>2 DEF z, s
<1> QED BY <1>1, <1>4, <1>5, <1>7

\* op is the exclusive or of the numbers in S.
XorLaws(op(_, _), S) ==
    /\ \A a, b \in S : op(a, b) \in S /\ op(a, b) = op(b, a)
    /\ \A a \in S : op(a, 0) = a /\ op(a, a) = 0
    /\ \A a, b, c \in S : op(op(a, b), c) = op(a, op(b, c))

\* The laws of the exclusive or hold for a bit, and for a word if they hold for
\* its halves.
LEMMA Xor1Laws == XorLaws(Xor1, Below(2))
BY DEF XorLaws, Xor1, Below

LEMMA Xor2Laws == XorLaws(Xor2, Below(4))
<1> DEFINE W == Below(4)
           H == Below(2)
<1>1. \A a \in W : a \div 2 \in H /\ a % 2 \in H /\ 2 * (a \div 2) + (a % 2) = a
  BY DEF Below
<1>2. \A h, l \in H : 2 * h + l \in W /\ (2 * h + l) \div 2 = h /\ (2 * h + l) % 2 = l
  BY DEF Below
<1>3. /\ \A a, b \in H : Xor1(a, b) \in H /\ Xor1(a, b) = Xor1(b, a)
      /\ \A a \in H : Xor1(a, 0) = a /\ Xor1(a, a) = 0
      /\ \A a, b, c \in H : Xor1(Xor1(a, b), c) = Xor1(a, Xor1(b, c))
  BY Xor1Laws DEF XorLaws
<1>4. 0 \div 2 = 0 /\ 0 % 2 = 0 /\ 2 * 0 + 0 = 0 /\ 0 \in H /\ 0 \in W
  BY DEF Below
<1>5. \A a, b : Xor2(a, b) = 2 * Xor1(a \div 2, b \div 2) + Xor1(a % 2, b % 2)
  BY DEF Xor2
<1> HIDE DEF W, H
<1>6. ASSUME NEW a \in W, NEW b \in W
      PROVE  /\ Xor2(a, b) \in W /\ Xor2(a, b) = Xor2(b, a)
             /\ Xor2(a, b) \div 2 = Xor1(a \div 2, b \div 2)
             /\ Xor2(a, b) % 2 = Xor1(a % 2, b % 2)
  BY ONLY <1>1, <1>2, <1>3, <1>5, <1>6
<1>7. ASSUME NEW a \in W
      PROVE  Xor2(a, 0) = a /\ Xor2(a, a) = 0
  BY ONLY <1>1, <1>3, <1>4, <1>5, <1>7
<1>8. ASSUME NEW a \in W, NEW b \in W, NEW c \in W
      PROVE  Xor2(Xor2(a, b), c) = Xor2(a, Xor2(b, c))
  BY ONLY <1>1, <1>3, <1>5, <1>6, <1>8
<1> QED BY <1>6, <1>7, <1>8 DEF XorLaws, W

LEMMA Xor4Laws == XorLaws(Xor4, Below(16))
<1> DEFINE W == Below(16)
           H == Below(4)
<1>1. \A a \in W : a \div 4 \in H /\ a % 4 \in H /\ 4 * (a \div 4) + (a % 4) = a
  BY DEF Below
<1>2. \A h, l \in H : 4 * h + l \in W /\ (4 * h + l) \div 4 = h /\ (4 * h + l) % 4 = l
  BY DEF Below
<1>3. /\ \A a, b \in H : Xor2(a, b) \in H /\ Xor2(a, b) = Xor2(b, a)
      /\ \A a \in H : Xor2(a, 0) = a /\ Xor2(a, a) = 0
      /\ \A a, b, c \in H : Xor2(Xor2(a, b), c) = Xor2(a, Xor2(b, c))
  BY Xor2Laws DEF XorLaws
<1>4. 0 \div 4 = 0 /\ 0 % 4 = 0 /\ 4 * 0 + 0 = 0 /\ 0 \in H /\ 0 \in W
  BY DEF Below
<1>5. \A a, b : Xor4(a, b) = 4 * Xor2(a \div 4, b \div 4) + Xor2(a % 4, b % 4)
  BY DEF Xor4
<1> HIDE DEF W, H
<1>6. ASSUME NEW a \in W, NEW b \in W
      PROVE  /\ Xor4(a, b) \in W /\ Xor4(a, b) = Xor4(b, a)
             /\ Xor4(a, b) \div 4 = Xor2(a \div 4, b \div 4)
             /\ Xor4(a, b) % 4 = Xor2(a % 4, b % 4)
  BY ONLY <1>1, <1>2, <1>3, <1>5, <1>6
<1>7. ASSUME NEW a \in W
      PROVE  Xor4(a, 0) = a /\ Xor4(a, a) = 0
  BY ONLY <1>1, <1>3, <1>4, <1>5, <1>7
<1>8. ASSUME NEW a \in W, NEW b \in W, NEW c \in W
      PROVE  Xor4(Xor4(a, b), c) = Xor4(a, Xor4(b, c))
  BY ONLY <1>1, <1>3, <1>5, <1>6, <1>8
<1> QED BY <1>6, <1>7, <1>8 DEF XorLaws, W

LEMMA Xor8Laws == XorLaws(Xor8, Below(256))
<1> DEFINE W == Below(256)
           H == Below(16)
<1>1. \A a \in W : a \div 16 \in H /\ a % 16 \in H /\ 16 * (a \div 16) + (a % 16) = a
  BY DEF Below
<1>2. \A h, l \in H : 16 * h + l \in W /\ (16 * h + l) \div 16 = h /\ (16 * h + l) % 16 = l
  BY DEF Below
<1>3. /\ \A a, b \in H : Xor4(a, b) \in H /\ Xor4(a, b) = Xor4(b, a)
      /\ \A a \in H : Xor4(a, 0) = a /\ Xor4(a, a) = 0
      /\ \A a, b, c \in H : Xor4(Xor4(a, b), c) = Xor4(a, Xor4(b, c))
  BY Xor4Laws DEF XorLaws
<1>4. 0 \div 16 = 0 /\ 0 % 16 = 0 /\ 16 * 0 + 0 = 0 /\ 0 \in H /\ 0 \in W
  BY DEF Below
<1>5. \A a, b : Xor8(a, b) = 16 * Xor4(a \div 16, b \div 16) + Xor4(a % 16, b % 16)
  BY DEF Xor8
<1> HIDE DEF W, H
<1>6. ASSUME NEW a \in W, NEW b \in W
      PROVE  /\ Xor8(a, b) \in W /\ Xor8(a, b) = Xor8(b, a)
             /\ Xor8(a, b) \div 16 = Xor4(a \div 16, b \div 16)
             /\ Xor8(a, b) % 16 = Xor4(a % 16, b % 16)
  BY ONLY <1>1, <1>2, <1>3, <1>5, <1>6
<1>7. ASSUME NEW a \in W
      PROVE  Xor8(a, 0) = a /\ Xor8(a, a) = 0
  BY ONLY <1>1, <1>3, <1>4, <1>5, <1>7
<1>8. ASSUME NEW a \in W, NEW b \in W, NEW c \in W
      PROVE  Xor8(Xor8(a, b), c) = Xor8(a, Xor8(b, c))
  BY ONLY <1>1, <1>3, <1>5, <1>6, <1>8
<1> QED BY <1>6, <1>7, <1>8 DEF XorLaws, W

LEMMA Xor16Laws == XorLaws(Xor16, Below(65536))
<1> DEFINE W == Below(65536)
           H == Below(256)
<1>1. \A a \in W : a \div 256 \in H /\ a % 256 \in H /\ 256 * (a \div 256) + (a % 256) = a
  BY DEF Below
<1>2. \A h, l \in H : 256 * h + l \in W /\ (256 * h + l) \div 256 = h /\ (256 * h + l) % 256 = l
  BY DEF Below
<1>3. /\ \A a, b \in H : Xor8(a, b) \in H /\ Xor8(a, b) = Xor8(b, a)
      /\ \A a \in H : Xor8(a, 0) = a /\ Xor8(a, a) = 0
      /\ \A a, b, c \in H : Xor8(Xor8(a, b), c) = Xor8(a, Xor8(b, c))
  BY Xor8Laws DEF XorLaws
<1>4. 0 \div 256 = 0 /\ 0 % 256 = 0 /\ 256 * 0 + 0 = 0 /\ 0 \in H /\ 0 \in W
  BY DEF Below
<1>5. \A a, b : Xor16(a, b) = 256 * Xor8(a \div 256, b \div 256) + Xor8(a % 256, b % 256)
  BY DEF Xor16
<1> HIDE DEF W, H
<1>6. ASSUME NEW a \in W, NEW b \in W
      PROVE  /\ Xor16(a, b) \in W /\ Xor16(a, b) = Xor16(b, a)
             /\ Xor16(a, b) \div 256 = Xor8(a \div 256, b \div 256)
             /\ Xor16(a, b) % 256 = Xor8(a % 256, b % 256)
  BY ONLY <1>1, <1>2, <1>3, <1>5, <1>6
<1>7. ASSUME NEW a \in W
      PROVE  Xor16(a, 0) = a /\ Xor16(a, a) = 0
  BY ONLY <1>1, <1>3, <1>4, <1>5, <1>7
<1>8. ASSUME NEW a \in W, NEW b \in W, NEW c \in W
      PROVE  Xor16(Xor16(a, b), c) = Xor16(a, Xor16(b, c))
  BY ONLY <1>1, <1>3, <1>5, <1>6, <1>8
<1> QED BY <1>6, <1>7, <1>8 DEF XorLaws, W

LEMMA Xor32Laws == XorLaws(Xor32, Below(4294967296))
<1> DEFINE W == Below(4294967296)
           H == Below(65536)
<1>1. \A a \in W : a \div 65536 \in H /\ a % 65536 \in H /\ 65536 * (a \div 65536) + (a % 65536) = a
  BY DEF Below
<1>2. \A h, l \in H : 65536 * h + l \in W /\ (65536 * h + l) \div 65536 = h /\ (65536 * h + l) % 65536 = l
  BY DEF Below
<1>3. /\ \A a, b \in H : Xor16(a, b) \in H /\ Xor16(a, b) = Xor16(b, a)
      /\ \A a \in H : Xor16(a, 0) = a /\ Xor16(a, a) = 0
      /\ \A a, b, c \in H : Xor16(Xor16(a, b), c) = Xor16(a, Xor16(b, c))
  BY Xor16Laws DEF XorLaws
<1>4. 0 \div 65536 = 0 /\ 0 % 65536 = 0 /\ 65536 * 0 + 0 = 0 /\ 0 \in H /\ 0 \in W
  BY DEF Below
<1>5. \A a, b : Xor32(a, b) = 65536 * Xor16(a \div 65536, b \div 65536) + Xor16(a % 65536, b % 65536)
  BY DEF Xor32
<1> HIDE DEF W, H
<1>6. ASSUME NEW a \in W, NEW b \in W
      PROVE  /\ Xor32(a, b) \in W /\ Xor32(a, b) = Xor32(b, a)
             /\ Xor32(a, b) \div 65536 = Xor16(a \div 65536, b \div 65536)
             /\ Xor32(a, b) % 65536 = Xor16(a % 65536, b % 65536)
  BY ONLY <1>1, <1>2, <1>3, <1>5, <1>6
<1>7. ASSUME NEW a \in W
      PROVE  Xor32(a, 0) = a /\ Xor32(a, a) = 0
  BY ONLY <1>1, <1>3, <1>4, <1>5, <1>7
<1>8. ASSUME NEW a \in W, NEW b \in W, NEW c \in W
      PROVE  Xor32(Xor32(a, b), c) = Xor32(a, Xor32(b, c))
  BY ONLY <1>1, <1>3, <1>5, <1>6, <1>8
<1> QED BY <1>6, <1>7, <1>8 DEF XorLaws, W

\* The keys as LoadKeys reads them.
LEMMA ClientKeyValues ==
    /\ ClientEncryptKeys[0] = 128079
    /\ ClientEncryptKeys[1] = 164742
    /\ ClientEncryptKeys[2] = 70235
    /\ ClientEncryptKeys[3] = 106898
    /\ ClientEncryptKeys[4] = 23489
    /\ ClientEncryptKeys[5] = 11911
    /\ ClientEncryptKeys[6] = 19816
    /\ ClientEncryptKeys[7] = 13647
    /\ ClientEncryptKeys[8] = 48413
    /\ ClientEncryptKeys[9] = 46165
    /\ ClientEncryptKeys[10] = 15171
    /\ ClientEncryptKeys[11] = 37433
<1> USE DEF ClientEncryptKeys, LoadKeys, Enc1, C3Keys, Xor8, Xor4, Xor2, Xor1
<1>1. ClientEncryptKeys[0] = 128079
  OBVIOUS
<1>2. ClientEncryptKeys[1] = 164742
  OBVIOUS
<1>3. ClientEncryptKeys[2] = 70235
  OBVIOUS
<1>4. ClientEncryptKeys[3] = 106898
  OBVIOUS
<1>5. ClientEncryptKeys[4] = 23489
  OBVIOUS
<1>6. ClientEncryptKeys[5] = 11911
  OBVIOUS
<1>7. ClientEncryptKeys[6] = 19816
  OBVIOUS
<1>8. ClientEncryptKeys[7] = 13647
  OBVIOUS
<1>9. ClientEncryptKeys[8] = 48413
  OBVIOUS
<1>10. ClientEncryptKeys[9] = 46165
  OBVIOUS
<1>11. ClientEncryptKeys[10] = 15171
  OBVIOUS
<1>12. ClientEncryptKeys[11] = 37433
  OBVIOUS
<1> HIDE DEF ClientEncryptKeys, LoadKeys, Enc1, C3Keys, Xor8, Xor4, Xor2, Xor1
<1> QED BY ONLY <1>1, <1>2, <1>3, <1>4, <1>5, <1>6, <1>7, <1>8, <1>9, <1>10, <1>11, <1>12

LEMMA ServerKeyValues ==
    /\ ServerDecryptKeys[0] = 128079
    /\ ServerDecryptKeys[1] = 164742
    /\ ServerDecryptKeys[2] = 70235
    /\ ServerDecryptKeys[3] = 106898
    /\ ServerDecryptKeys[4] = 31544
    /\ ServerDecryptKeys[5] = 2047
    /\ ServerDecryptKeys[6] = 57011
    /\ ServerDecryptKeys[7] = 10183
    /\ ServerDecryptKeys[8] = 48413
    /\ ServerDecryptKeys[9] = 46165
    /\ ServerDecryptKeys[10] = 15171
    /\ ServerDecryptKeys[11] = 37433
<1> USE DEF ServerDecryptKeys, LoadKeys, Dec1, C3Keys, Xor8, Xor4, Xor2, Xor1
<1>1. ServerDecryptKeys[0] = 128079
  OBVIOUS
<1>2. ServerDecryptKeys[1] = 164742
  OBVIOUS
<1>3. ServerDecryptKeys[2] = 70235
  OBVIOUS
<1>4. ServerDecryptKeys[3] = 106898
  OBVIOUS
<1>5. ServerDecryptKeys[4] = 31544
  OBVIOUS
<1>6. ServerDecryptKeys[5] = 2047
  OBVIOUS
<1>7. ServerDecryptKeys[6] = 57011
  OBVIOUS
<1>8. ServerDecryptKeys[7] = 10183
  OBVIOUS
<1>9. ServerDecryptKeys[8] = 48413
  OBVIOUS
<1>10. ServerDecryptKeys[9] = 46165
  OBVIOUS
<1>11. ServerDecryptKeys[10] = 15171
  OBVIOUS
<1>12. ServerDecryptKeys[11] = 37433
  OBVIOUS
<1> HIDE DEF ServerDecryptKeys, LoadKeys, Dec1, C3Keys, Xor8, Xor4, Xor2, Xor1
<1> QED BY ONLY <1>1, <1>2, <1>3, <1>4, <1>5, <1>6, <1>7, <1>8, <1>9, <1>10, <1>11, <1>12

\* For each of the four words, the server's factor is the inverse of the
\* client's one under the modulus of both.
LEMMA FactorsInvert0 ==
  ASSUME NEW x \in Below(65536)
  PROVE  /\ TimesMod(x, 23489, 128079) \in Below(262144)
         /\ TimesMod(TimesMod(x, 23489, 128079), 31544, 128079) = x
<1> DEFINE q == (x * 23489) \div 128079
           e == (x * 23489) % 128079
<1>1. q \in Int /\ e \in Nat /\ e < 128079 /\ x * 23489 = 128079 * q + e
  BY DEF Below
<1>2. TimesMod(x, 23489, 128079) = e
  BY TimesModIsProduct DEF Below
<1> HIDE DEF q, e
<1>3. TimesMod(e, 31544, 128079) = (e * 31544) % 128079
  BY <1>1, TimesModIsProduct
<1>4. (e * 31544) % 128079 = x
  BY <1>1 DEF Below
<1> QED BY <1>1, <1>2, <1>3, <1>4 DEF Below

LEMMA FactorsInvert1 ==
  ASSUME NEW x \in Below(65536)
  PROVE  /\ TimesMod(x, 11911, 164742) \in Below(262144)
         /\ TimesMod(TimesMod(x, 11911, 164742), 2047, 164742) = x
<1> DEFINE q == (x * 11911) \div 164742
           e == (x * 11911) % 164742
<1>1. q \in Int /\ e \in Nat /\ e < 164742 /\ x * 11911 = 164742 * q + e
  BY DEF Below
<1>2. TimesMod(x, 11911, 164742) = e
  BY TimesModIsProduct DEF Below
<1> HIDE DEF q, e
<1>3. TimesMod(e, 2047, 164742) = (e * 2047) % 164742
  BY <1>1, TimesModIsProduct
<1>4. (e * 2047) % 164742 = x
  BY <1>1 DEF Below
<1> QED BY <1>1, <1>2, <1>3, <1>4 DEF Below

LEMMA FactorsInvert2 ==
  ASSUME NEW x \in Below(65536)
  PROVE  /\ TimesMod(x, 19816, 70235) \in Below(262144)
         /\ TimesMod(TimesMod(x, 19816, 70235), 57011, 70235) = x
<1> DEFINE q == (x * 19816) \div 70235
           e == (x * 19816) % 70235
<1>1. q \in Int /\ e \in Nat /\ e < 70235 /\ x * 19816 = 70235 * q + e
  BY DEF Below
<1>2. TimesMod(x, 19816, 70235) = e
  BY TimesModIsProduct DEF Below
<1> HIDE DEF q, e
<1>3. TimesMod(e, 57011, 70235) = (e * 57011) % 70235
  BY <1>1, TimesModIsProduct
<1>4. (e * 57011) % 70235 = x
  BY <1>1 DEF Below
<1> QED BY <1>1, <1>2, <1>3, <1>4 DEF Below

LEMMA FactorsInvert3 ==
  ASSUME NEW x \in Below(65536)
  PROVE  /\ TimesMod(x, 13647, 106898) \in Below(262144)
         /\ TimesMod(TimesMod(x, 13647, 106898), 10183, 106898) = x
<1> DEFINE q == (x * 13647) \div 106898
           e == (x * 13647) % 106898
<1>1. q \in Int /\ e \in Nat /\ e < 106898 /\ x * 13647 = 106898 * q + e
  BY DEF Below
<1>2. TimesMod(x, 13647, 106898) = e
  BY TimesModIsProduct DEF Below
<1> HIDE DEF q, e
<1>3. TimesMod(e, 10183, 106898) = (e * 10183) % 106898
  BY <1>1, TimesModIsProduct
<1>4. (e * 10183) % 106898 = x
  BY <1>1 DEF Below
<1> QED BY <1>1, <1>2, <1>3, <1>4 DEF Below

\* All that the rest uses of the keys.
LEMMA KeysMatch ==
  ASSUME NEW i \in 0 .. 3
  PROVE  /\ ClientEncryptKeys[i + 8] \in Below(65536)
         /\ ClientEncryptKeys[8 + i] = ClientEncryptKeys[i + 8]
         /\ ServerDecryptKeys[i + 8] = ClientEncryptKeys[i + 8]
         /\ ServerDecryptKeys[8 + i] = ClientEncryptKeys[i + 8]
         /\ \A x \in Below(65536) :
               LET e == TimesMod(x, ClientEncryptKeys[i + 4], ClientEncryptKeys[i])
               IN  /\ e \in Below(262144)
                   /\ TimesMod(e, ServerDecryptKeys[4 + i], ServerDecryptKeys[i]) = x
<1> USE ClientKeyValues, ServerKeyValues
<1>1. CASE i = 0
  BY <1>1, FactorsInvert0 DEF Below
<1>2. CASE i = 1
  BY <1>2, FactorsInvert1 DEF Below
<1>3. CASE i = 2
  BY <1>3, FactorsInvert2 DEF Below
<1>4. CASE i = 3
  BY <1>4, FactorsInvert3 DEF Below
<1> QED BY <1>1, <1>2, <1>3, <1>4

-----------------------------------------------------------------------------
(* Blocks of the codec, bit by bit.                                        *)

\* Behind its first k elements, src holds n elements of s.
Holds(src, k, s, n) == \A p \in 1 .. n : src[k + p] = s[p]

\* r is s with t behind it; s has m elements and t has n.
Joins(r, s, m, t, n, S) ==
    r \in Seq(S) /\ Len(r) = m + n /\ Holds(r, 0, s, m) /\ Holds(r, m, t, n)

\* r holds the n elements of s that are behind the first k.
Copies(r, s, k, n, S) == r \in Seq(S) /\ Len(r) = n /\ Holds(s, k, r, n)

\* Sequences of known length, joined, in part, and copied out.
LEMMA Joined ==
  ASSUME NEW S, NEW s \in Seq(S), NEW t \in Seq(S), NEW m \in Nat, NEW n \in Nat,
         Len(s) = m, Len(t) = n
  PROVE  Joins(s \o t, s, m, t, n, S)
<1>1. /\ s \o t \in Seq(S) /\ Len(s \o t) = Len(s) + Len(t)
      /\ \A i \in 1 .. Len(s) + Len(t) :
            (s \o t)[i] = IF i <= Len(s) THEN s[i] ELSE t[i - Len(s)]
  BY ConcatProperties
<1>2. \A i \in 1 .. m : i \in 1 .. m + n /\ i <= m
  OBVIOUS
<1>3. \A i \in 1 .. n : m + i \in 1 .. m + n /\ ~(m + i <= m) /\ (m + i) - m = i
  OBVIOUS
<1> QED BY <1>1, <1>2, <1>3 DEF Joins, Holds

LEMMA HoldsPart ==
  ASSUME NEW r, NEW s, NEW t, NEW k \in Nat, NEW n \in Nat, NEW j \in Nat, NEW m \in Nat,
         Holds(r, k, s, n), Holds(s, j, t, m), j + m <= n
  PROVE  Holds(r, k + j, t, m)
<1>1. ASSUME NEW p \in 1 .. m
      PROVE  r[(k + j) + p] = t[p]
  <2>1. j + p \in 1 .. n /\ k + (j + p) = (k + j) + p
    OBVIOUS
  <2>2. s[j + p] = t[p]
    BY DEF Holds
  <2>3. r[k + (j + p)] = s[j + p]
    BY <2>1 DEF Holds
  <2> QED BY <2>1, <2>2, <2>3
<1> QED BY <1>1 DEF Holds

LEMMA Copied ==
  ASSUME NEW S, NEW s \in Seq(S), NEW k \in Nat, NEW n \in Nat, k + n <= Len(s)
  PROVE  Copies(HashBuffer(s, k, n), s, k, n, S)
<1>1. \A i \in k + 1 .. k + n : s[i] \in S
  OBVIOUS
<1>2. /\ SubSeq(s, k + 1, k + n) \in Seq(S)
      /\ Len(SubSeq(s, k + 1, k + n)) = IF k + 1 <= k + n THEN (k + n) - (k + 1) + 1 ELSE 0
      /\ \A i \in 1 .. (k + n) - (k + 1) + 1 :
            SubSeq(s, k + 1, k + n)[i] = s[(k + 1) + i - 1]
  BY <1>1, SubSeqProperties, k + 1 \in Int, k + n \in Int
<1>3. \A i \in 1 .. n : i \in 1 .. (k + n) - (k + 1) + 1 /\ (k + 1) + i - 1 = k + i
  OBVIOUS
<1> QED BY <1>2, <1>3 DEF Copies, Holds, HashBuffer

\* A word below 2^18 is the one that its bits spell, and six of them are zero.
LEMMA BitsOfByte ==
  ASSUME NEW b \in Octet
  PROVE  /\ Bits(b) \in Seq(Bit) /\ Len(Bits(b)) = 8
         /\ ByteAt(Bits(b), 0) = b
<1>1. Bits(b) \in Seq(Bit) /\ Len(Bits(b)) = 8
  BY DEF Bits, Below, Bit, Octet
<1>2. ByteAt(Bits(b), 0) = b
  BY DEF Bits, Below, ByteAt, Octet
<1> QED BY <1>1, <1>2

LEMMA BitsOfWord ==
  ASSUME NEW w \in Nat
  PROVE  /\ BitsOf(w) \in Seq(Bit) /\ Len(BitsOf(w)) = 24
         /\ \A p \in 1 .. 8 : /\ BitsOf(w)[p] = Bits(Byte(w, 0))[p]
                              /\ BitsOf(w)[8 + p] = Bits(Byte(w, 1))[p]
                              /\ BitsOf(w)[16 + p] = Bits(Byte(w, 2))[p]
<1> DEFINE a == Bits(Byte(w, 0))
           b == Bits(Byte(w, 1))
           c == Bits(Byte(w, 2))
<1>1. Byte(w, 0) \in Octet /\ Byte(w, 1) \in Octet /\ Byte(w, 2) \in Octet
  BY DEF Byte, Below, Octet, Word18
<1>2. /\ a \in Seq(Bit) /\ b \in Seq(Bit) /\ c \in Seq(Bit)
      /\ Len(a) = 8 /\ Len(b) = 8 /\ Len(c) = 8
  BY <1>1, BitsOfByte
<1>3. BitsOf(w) = (a \o b) \o c
  BY DEF BitsOf
<1> HIDE DEF a, b, c
<1>4. 8 \in Nat /\ 16 \in Nat
  OBVIOUS
<1> DEFINE ab == a \o b
           abc == ab \o c
<1>5. Joins(ab, a, 8, b, 8, Bit)
  BY <1>2, <1>4, Joined, Zenon
<1> HIDE DEF ab
<1>6. /\ ab \in Seq(Bit) /\ Len(ab) = 16
      /\ \A p \in 1 .. 8 : ab[p] = a[p] /\ ab[8 + p] = b[p]
  BY <1>5 DEF Joins, Holds
<1>7. Joins(abc, ab, 16, c, 8, Bit)
  BY <1>2, <1>6, <1>4, Joined, Zenon
<1> HIDE DEF abc
<1>8. /\ abc \in Seq(Bit) /\ Len(abc) = 24
      /\ \A p \in 1 .. 16 : abc[p] = ab[p]
      /\ \A p \in 1 .. 8 : abc[16 + p] = c[p]
  BY <1>7 DEF Joins, Holds
<1>9. BitsOf(w) = abc
  BY <1>3 DEF abc, ab
<1>10. \A p \in 1 .. 8 : p \in 1 .. 16 /\ 8 + p \in 1 .. 16
  OBVIOUS
<1>11. \A p \in 1 .. 8 : /\ BitsOf(w)[p] = a[p] /\ BitsOf(w)[8 + p] = b[p]
                        /\ BitsOf(w)[16 + p] = c[p]
  BY <1>9, <1>6, <1>8, <1>10
<1> QED BY <1>9, <1>8, <1>11 DEF a, b, c

LEMMA WordOfBits ==
  ASSUME NEW w \in Word18
  PROVE  /\ WordOf(BitsOf(w)) = w
         /\ \A p \in 17 .. 22 : BitsOf(w)[p] = 0
<1> DEFINE a == Byte(w, 0)
           b == Byte(w, 1)
           c == Byte(w, 2)
           s == BitsOf(w)
<1>1. /\ a \in Octet /\ b \in Octet /\ c \in Below(4)
      /\ w = a + 256 * b + 65536 * c
  BY DEF Byte, Below, Octet, Word18
<1>2. w \in Nat /\ c \in Octet
  BY <1>1 DEF Below, Octet, Word18
<1>3. \A p \in 1 .. 8 : s[p] = Bits(a)[p] /\ s[8 + p] = Bits(b)[p] /\ s[16 + p] = Bits(c)[p]
  BY <1>2, BitsOfWord
<1> HIDE DEF a, b, c, s
<1>4. ByteAt(s, 0) = ByteAt(Bits(a), 0)
  BY <1>3 DEF ByteAt
<1>5. ByteAt(s, 8) = ByteAt(Bits(b), 0)
  BY <1>3 DEF ByteAt
<1>6. ByteAt(s, 16) = ByteAt(Bits(c), 0)
  BY <1>3 DEF ByteAt
<1>7. WordOf(s) = w
  BY <1>1, <1>2, <1>4, <1>5, <1>6, BitsOfByte DEF WordOf
<1>8. \A p \in 1 .. 6 : Bits(c)[p] = 0
  BY <1>1 DEF Bits, Below, Bit, Octet
<1>9. \A p \in 17 .. 22 : s[p] = 0
  BY <1>3, <1>8
<1> QED BY <1>7, <1>9 DEF s

IsBlock(src) == src \in Seq(Bit) /\ Len(src) = 88

\* What Pack keeps of a word is enough for Unpack.
LEMMA PackOfWord ==
  ASSUME NEW w \in Word18
  PROVE  /\ Pack(w) \in Seq(Bit) /\ Len(Pack(w)) = 18
         /\ \A p \in 1 .. 16 : Pack(w)[p] = BitsOf(w)[p]
         /\ \A p \in 1 .. 2 : Pack(w)[16 + p] = BitsOf(w)[22 + p]
<1> DEFINE s == BitsOf(w)
           a == HashBuffer(s, 0, 16)
           b == HashBuffer(s, 22, 2)
           r == a \o b
<1>1. w \in Nat
  BY DEF Word18, Below
<1>2. s \in Seq(Bit) /\ Len(s) = 24
  BY <1>1, BitsOfWord
<1>3. /\ 0 \in Nat /\ 2 \in Nat /\ 16 \in Nat /\ 22 \in Nat
      /\ 0 + 16 <= 24 /\ 22 + 2 <= 24
  OBVIOUS
<1>4. Pack(w) = r
  BY DEF Pack
<1> HIDE DEF s
<1>5. Copies(a, s, 0, 16, Bit) /\ Copies(b, s, 22, 2, Bit)
  BY <1>2, <1>3, Copied
<1> HIDE DEF a, b
<1>6. a \in Seq(Bit) /\ Len(a) = 16 /\ b \in Seq(Bit) /\ Len(b) = 2
  BY <1>5 DEF Copies, Holds
<1>7. Joins(r, a, 16, b, 2, Bit)
  BY <1>3, <1>6, Joined, Zenon
<1> HIDE DEF r
<1>8. r \in Seq(Bit) /\ Len(r) = 18
  BY <1>7 DEF Joins, Holds
<1>9. \A p \in 1 .. 16 : r[p] = s[p]
  BY <1>5, <1>7 DEF Joins, Copies, Holds
<1>10. \A p \in 1 .. 2 : r[16 + p] = s[22 + p]
  BY <1>5, <1>7 DEF Joins, Copies, Holds
<1> QED BY <1>4, <1>8, <1>9, <1>10 DEF s

LEMMA UnpackOfPack ==
  ASSUME NEW src, IsBlock(src), NEW i \in 0 .. 3, NEW w \in Word18,
         Holds(src, 18 * i, Pack(w), 18)
  PROVE  Unpack(src, i) = w
<1> DEFINE a == HashBuffer(src, 18 * i, 16)
           z == <<0, 0, 0, 0, 0, 0>>
           b == HashBuffer(src, 18 * i + 16, 2)
           az == a \o z
           r == az \o b
<1>1. /\ 2 \in Nat /\ 6 \in Nat /\ 16 \in Nat /\ 22 \in Nat
      /\ 18 * i \in Nat /\ 18 * i + 16 \in Nat
      /\ 18 * i + 16 <= 88 /\ (18 * i + 16) + 2 <= 88
  OBVIOUS
<1>2. z \in Seq(Bit) /\ Len(z) = 6 /\ \A p \in 1 .. 6 : z[p] = 0
  BY DEF Bit, Below
<1>3. Unpack(src, i) = WordOf(r)
  BY DEF Unpack
<1>4. Copies(a, src, 18 * i, 16, Bit) /\ Copies(b, src, 18 * i + 16, 2, Bit)
  <2>1. /\ src \in Seq(Bit)
        /\ 18 * i + 16 <= Len(src) /\ (18 * i + 16) + 2 <= Len(src)
    BY <1>1 DEF IsBlock
  <2> QED BY <1>1, <2>1, Copied
<1> HIDE DEF a, b, z
<1>5. a \in Seq(Bit) /\ Len(a) = 16 /\ b \in Seq(Bit) /\ Len(b) = 2
  BY <1>4 DEF Copies, Holds
<1>6. Joins(az, a, 16, z, 6, Bit)
  BY <1>1, <1>2, <1>5, Joined, Zenon
<1> HIDE DEF az
<1>7. az \in Seq(Bit) /\ Len(az) = 22
  BY <1>6 DEF Joins, Holds
<1>8. Joins(r, az, 22, b, 2, Bit)
  BY <1>1, <1>5, <1>7, Joined, Zenon
<1> HIDE DEF r
<1>9. r \in Seq(Bit) /\ Len(r) = 24
  BY <1>8 DEF Joins, Holds
<1>10. /\ Holds(az, 0, a, 16) /\ Holds(az, 16, z, 6) /\ Holds(r, 0, az, 22) /\ Holds(r, 22, b, 2)
       /\ Holds(src, 18 * i, a, 16) /\ Holds(src, 18 * i + 16, b, 2)
  BY <1>4, <1>6, <1>8 DEF Joins, Copies
<1>11. ASSUME NEW p \in 1 .. 24
       PROVE  r[p] = BitsOf(w)[p]
  <2>1. CASE p \in 1 .. 16
    <3>1. p \in 1 .. 22 /\ p \in 1 .. 18
      BY <2>1
    <3>2. 0 + p = p /\ r[0 + p] = az[p]
      BY <3>1, <1>10 DEF Holds
    <3>3. az[0 + p] = a[p]
      BY <2>1, <1>10 DEF Holds
    <3>4. a[p] = src[18 * i + p]
      BY <2>1, <1>10 DEF Holds
    <3>5. src[18 * i + p] = Pack(w)[p]
      BY <3>1 DEF Holds
    <3>6. Pack(w)[p] = BitsOf(w)[p]
      BY <2>1, PackOfWord
    <3> QED BY <3>2, <3>3, <3>4, <3>5, <3>6
  <2>2. CASE p \in 17 .. 22
    <3>1. p - 16 \in 1 .. 6 /\ 16 + (p - 16) = p /\ p \in 1 .. 22
      BY <2>2
    <3>2. 0 + p = p /\ r[0 + p] = az[p]
      BY <3>1, <1>10 DEF Holds
    <3>3. az[16 + (p - 16)] = z[p - 16] /\ z[p - 16] = 0
      BY <3>1, <1>2, <1>10 DEF Holds
    <3>4. BitsOf(w)[p] = 0
      BY <2>2, WordOfBits
    <3> QED BY <3>1, <3>2, <3>3, <3>4
  <2>3. CASE p \in 23 .. 24
    <3> DEFINE j == p - 22
    <3>1. j \in 1 .. 2 /\ 22 + j = p /\ 16 + j \in 1 .. 18
      BY <2>3
    <3>2. 18 * i + (16 + j) = (18 * i + 16) + j
      BY <3>1
    <3> HIDE DEF j
    <3>3. r[22 + j] = b[j] /\ b[j] = src[(18 * i + 16) + j]
      BY <3>1, <1>10 DEF Holds
    <3>4. src[18 * i + (16 + j)] = Pack(w)[16 + j]
      BY <3>1 DEF Holds
    <3>5. Pack(w)[16 + j] = BitsOf(w)[22 + j]
      BY <3>1, PackOfWord
    <3> QED BY <3>1, <3>2, <3>3, <3>4, <3>5
  <2> QED BY <2>1, <2>2, <2>3
<1>12. WordOf(r) = WordOf(BitsOf(w))
  BY <1>11 DEF WordOf, ByteAt
<1> QED BY <1>3, <1>12, WordOfBits

\* The checksum and the length are the last sixteen bits.
LEMMA UnpackOfLast ==
  ASSUME NEW src, IsBlock(src), NEW w \in Word16, Holds(src, 72, BitsOf(w), 16)
  PROVE  UnpackLast(src) = w
<1> DEFINE a == HashBuffer(src, 72, 16)
           z == <<0, 0, 0, 0, 0, 0, 0, 0>>
           r == a \o z
<1>1. 72 \in Nat /\ 8 \in Nat /\ 16 \in Nat /\ 72 + 16 <= 88
  OBVIOUS
<1>2. z \in Seq(Bit) /\ Len(z) = 8 /\ \A p \in 1 .. 8 : z[p] = 0
  BY DEF Bit, Below
<1>3. UnpackLast(src) = WordOf(r)
  BY DEF UnpackLast
<1>4. Copies(a, src, 72, 16, Bit)
  <2>1. src \in Seq(Bit) /\ 72 + 16 <= Len(src)
    BY <1>1 DEF IsBlock
  <2> QED BY <1>1, <2>1, Copied
<1> HIDE DEF a, z
<1>5. a \in Seq(Bit) /\ Len(a) = 16
  BY <1>4 DEF Copies, Holds
<1>6. Joins(r, a, 16, z, 8, Bit)
  BY <1>1, <1>2, <1>5, Joined, Zenon
<1> HIDE DEF r
<1>7. w \in Word18 /\ w \in Nat /\ Byte(w, 2) = 0
  BY DEF Word16, Word18, Below, Byte
<1>8. \A p \in 1 .. 8 : BitsOf(w)[16 + p] = 0
  <2>1. \A p \in 1 .. 8 : Bits(0)[p] = 0
    BY DEF Bits
  <2>2. \A p \in 1 .. 8 : BitsOf(w)[16 + p] = Bits(Byte(w, 2))[p]
    BY <1>7, BitsOfWord
  <2> QED BY <1>7, <2>1, <2>2
<1>9. \A p \in 1 .. 16 : r[p] = BitsOf(w)[p]
  <2>1. Holds(r, 0, a, 16) /\ Holds(src, 72, a, 16)
    BY <1>4, <1>6 DEF Joins, Copies
  <2>2. \A p \in 1 .. 16 : 0 + p = p /\ r[0 + p] = a[p] /\ a[p] = BitsOf(w)[p]
    BY <2>1 DEF Holds
  <2> QED BY <2>2
<1>10. \A p \in 1 .. 8 : r[16 + p] = BitsOf(w)[16 + p]
  BY <1>2, <1>6, <1>8 DEF Joins, Holds
<1>11. WordOf(r) = WordOf(BitsOf(w))
  <2>1. ByteAt(r, 0) = ByteAt(BitsOf(w), 0)
    BY <1>9 DEF ByteAt
  <2>2. ByteAt(r, 8) = ByteAt(BitsOf(w), 8)
    BY <1>9 DEF ByteAt
  <2>3. ByteAt(r, 16) = ByteAt(BitsOf(w), 16)
    BY <1>10 DEF ByteAt
  <2> QED BY <2>1, <2>2, <2>3 DEF WordOf
<1> QED BY <1>3, <1>7, <1>11, WordOfBits

\* A block, of four words and the last sixteen bits.
BlockOf(w0, w1, w2, w3, l) ==
    Pack(w0) \o Pack(w1) \o Pack(w2) \o Pack(w3) \o HashBuffer(BitsOf(l), 0, 16)

\* The words are found where they were put.
LEMMA BlockHolds ==
  ASSUME NEW w0 \in Word18, NEW w1 \in Word18, NEW w2 \in Word18, NEW w3 \in Word18,
         NEW l \in Word16
  PROVE  LET block == BlockOf(w0, w1, w2, w3, l)
  IN     /\ IsBlock(block)
         /\ Unpack(block, 0) = w0 /\ Unpack(block, 1) = w1
         /\ Unpack(block, 2) = w2 /\ Unpack(block, 3) = w3
         /\ UnpackLast(block) = l
<1> DEFINE s0 == Pack(w0)
           s1 == Pack(w1)
           s2 == Pack(w2)
           s3 == Pack(w3)
           s4 == HashBuffer(BitsOf(l), 0, 16)
           b1 == s0 \o s1
           b2 == b1 \o s2
           b3 == b2 \o s3
           b4 == b3 \o s4
<1>1. /\ 0 \in Nat /\ 16 \in Nat /\ 18 \in Nat /\ 36 \in Nat /\ 54 \in Nat /\ 72 \in Nat
      /\ 0 + 16 <= 24
  OBVIOUS
<1>2. BlockOf(w0, w1, w2, w3, l) = b4
  BY DEF BlockOf
<1>3. Copies(s4, BitsOf(l), 0, 16, Bit)
  <2>1. l \in Nat
    BY DEF Word16, Below
  <2>2. BitsOf(l) \in Seq(Bit) /\ Len(BitsOf(l)) = 24
    BY <2>1, BitsOfWord
  <2>3. 0 + 16 <= Len(BitsOf(l))
    BY <2>2
  <2> QED BY <1>1, <2>2, <2>3, Copied
<1>4. /\ s0 \in Seq(Bit) /\ s1 \in Seq(Bit) /\ s2 \in Seq(Bit) /\ s3 \in Seq(Bit)
      /\ Len(s0) = 18 /\ Len(s1) = 18 /\ Len(s2) = 18 /\ Len(s3) = 18
  BY PackOfWord
<1> HIDE DEF s0, s1, s2, s3, s4
<1>5. s4 \in Seq(Bit) /\ Len(s4) = 16
  BY <1>3 DEF Copies
<1>6. Joins(b1, s0, 18, s1, 18, Bit)
  BY <1>1, <1>4, Joined, Zenon
<1> HIDE DEF b1
<1>7. b1 \in Seq(Bit) /\ Len(b1) = 36
  BY <1>6 DEF Joins
<1>8. Joins(b2, b1, 36, s2, 18, Bit)
  BY <1>1, <1>4, <1>7, Joined, Zenon
<1> HIDE DEF b2
<1>9. b2 \in Seq(Bit) /\ Len(b2) = 54
  BY <1>8 DEF Joins
<1>10. Joins(b3, b2, 54, s3, 18, Bit)
  BY <1>1, <1>4, <1>9, Joined, Zenon
<1> HIDE DEF b3
<1>11. b3 \in Seq(Bit) /\ Len(b3) = 72
  BY <1>10 DEF Joins
<1>12. Joins(b4, b3, 72, s4, 16, Bit)
  BY <1>1, <1>5, <1>11, Joined, Zenon
<1> HIDE DEF b4
<1>13. IsBlock(b4)
  BY <1>12 DEF Joins, IsBlock
<1>14. Holds(b4, 0, b3, 72) /\ Holds(b4, 72, s4, 16)
  BY <1>12 DEF Joins
<1>15. Holds(b3, 0, b2, 54) /\ Holds(b3, 54, s3, 18)
  BY <1>10 DEF Joins
<1>16. Holds(b2, 0, b1, 36) /\ Holds(b2, 36, s2, 18)
  BY <1>8 DEF Joins
<1>17. Holds(b1, 0, s0, 18) /\ Holds(b1, 18, s1, 18)
  BY <1>6 DEF Joins
<1>18. Holds(b4, 18 * 3, s3, 18) /\ Holds(b4, 0, b2, 54)
  BY <1>14, <1>15, HoldsPart
<1>19. Holds(b4, 18 * 2, s2, 18) /\ Holds(b4, 0, b1, 36)
  BY <1>16, <1>18, HoldsPart
<1>20. Holds(b4, 18 * 1, s1, 18) /\ Holds(b4, 18 * 0, s0, 18)
  BY <1>17, <1>19, HoldsPart
<1>21. Holds(b4, 72, BitsOf(l), 16)
  <2>1. Holds(BitsOf(l), 0, s4, 16)
    BY <1>3 DEF Copies
  <2>2. ASSUME NEW p \in 1 .. 16
        PROVE  b4[72 + p] = BitsOf(l)[p]
    <3>1. 0 + p = p /\ BitsOf(l)[0 + p] = s4[p]
      BY <2>1 DEF Holds
    <3> QED BY <1>14, <3>1 DEF Holds
  <2> QED BY <2>2 DEF Holds
<1> USE DEF s0, s1, s2, s3
<1>22. Unpack(b4, 0) = w0 /\ Unpack(b4, 1) = w1 /\ Unpack(b4, 2) = w2 /\ Unpack(b4, 3) = w3
  BY <1>13, <1>18, <1>19, <1>20, UnpackOfPack
<1>23. UnpackLast(b4) = l
  BY <1>13, <1>21, UnpackOfLast
<1> QED BY <1>2, <1>13, <1>22, <1>23

-----------------------------------------------------------------------------
(* A block, a packet and the chain of bytes, there and back.               *)

\* The exclusive or takes back what it has put on.
LEMMA XorOfWords ==
  /\ \A a, b \in Word32 : Xor32(a, b) \in Word32 /\ Xor32(a, b) = Xor32(b, a)
  /\ \A a \in Word32 : Xor32(a, 0) = a /\ Xor32(a, a) = 0
  /\ \A a, b, c \in Word32 : Xor32(Xor32(a, b), c) = Xor32(a, Xor32(b, c))
BY Xor32Laws DEF XorLaws, Word32

LEMMA XorOfBytes ==
  /\ \A a, b \in Octet : Xor8(a, b) \in Octet /\ Xor8(a, b) = Xor8(b, a)
  /\ \A a \in Octet : Xor8(a, 0) = a /\ Xor8(a, a) = 0
  /\ \A a, b, c \in Octet : Xor8(Xor8(a, b), c) = Xor8(a, Xor8(b, c))
BY Xor8Laws DEF XorLaws, Octet

\* An exclusive or with a short word changes only the low half.
LEMMA XorNarrow ==
  /\ \A a \in Word18, b \in Word16 : Xor32(a, b) \in Word18
  /\ \A a, b \in Word16 : Xor32(a, b) \in Word16
<1>1. /\ \A a, b \in Word16 : Xor16(a, b) \in Word16
      /\ \A a \in Word16 : Xor16(a, 0) = a
  BY Xor16Laws DEF XorLaws, Word16
<1>2. ASSUME NEW a \in Word18, NEW b \in Word16
      PROVE  /\ Xor32(a, b) = 65536 * (a \div 65536) + Xor16(a % 65536, b)
             /\ a % 65536 \in Word16 /\ a \div 65536 \in 0 .. 3
             /\ a \in Word16 => a \div 65536 = 0
  <2>1. /\ a \div 65536 \in Word16 /\ a % 65536 \in Word16 /\ a \div 65536 \in 0 .. 3
        /\ b \div 65536 = 0 /\ b % 65536 = b
        /\ a \in Word16 => a \div 65536 = 0
    BY DEF Word16, Word18, Below
  <2> QED BY <1>1, <2>1 DEF Xor32
<1>3. ASSUME NEW h \in 0 .. 3, NEW l \in Word16
      PROVE  /\ 65536 * h + l \in Word18
             /\ h = 0 => 65536 * h + l \in Word16
  BY DEF Word16, Word18, Below
<1>4. Word16 \subseteq Word18
  BY DEF Word16, Word18, Below
<1>5. ASSUME NEW a \in Word18, NEW b \in Word16
      PROVE  Xor32(a, b) \in Word18
  <2> DEFINE h == a \div 65536
             l == Xor16(a % 65536, b)
  <2>1. h \in 0 .. 3 /\ l \in Word16 /\ Xor32(a, b) = 65536 * h + l
    BY <1>1, <1>2
  <2> HIDE DEF h, l
  <2> QED BY <1>3, <2>1
<1>6. \A a, b \in Word16 : Xor32(a, b) \in Word16
  BY <1>1, <1>2, <1>3, <1>4
<1> QED BY <1>5, <1>6

LEMMA WordsNest ==
  /\ Word16 \subseteq Word18 /\ Word16 \subseteq Word32 /\ Word18 \subseteq Word32
  /\ \A e \in Word18 : e % 65536 \in Word16
BY DEF Word16, Word18, Word32, Below

LEMMA XorWordsBack ==
  ASSUME NEW a \in Word32, NEW b \in Word32, NEW c \in Word32
  PROVE  /\ XorWords(XorWords(a, b, c), b, c) = a
         /\ XorWords(XorWords(a, b, c), a, c) = b
<1> DEFINE x == Xor32(b, c)
           y == Xor32(a, c)
<1>1. x \in Word32 /\ y \in Word32
  BY XorOfWords
<1>2. XorWords(a, b, c) = Xor32(a, x)
  BY DEF XorWords
<1>3. Xor32(a, x) = Xor32(b, y)
  <2>1. Xor32(a, Xor32(b, c)) = Xor32(Xor32(a, b), c)
    BY XorOfWords
  <2>2. Xor32(b, Xor32(a, c)) = Xor32(Xor32(b, a), c)
    BY XorOfWords
  <2>3. Xor32(a, b) = Xor32(b, a)
    BY XorOfWords
  <2> QED BY <2>1, <2>2, <2>3
<1>4. XorWords(XorWords(a, b, c), b, c) = Xor32(Xor32(a, x), x)
  BY DEF XorWords
<1>5. XorWords(XorWords(a, b, c), a, c) = Xor32(Xor32(b, y), y)
  BY <1>2, <1>3 DEF XorWords
<1> HIDE DEF x, y
<1>6. Xor32(Xor32(a, x), x) = Xor32(a, 0) /\ Xor32(Xor32(b, y), y) = Xor32(b, 0)
  BY <1>1, XorOfWords
<1> QED BY <1>4, <1>5, <1>6, XorOfWords

LEMMA XorBytesBack ==
  ASSUME NEW a \in Octet, NEW b \in Octet, NEW c \in Octet
  PROVE  /\ XorBytes(a, b, c) \in Octet
         /\ XorBytes(XorBytes(a, b, c), b, c) = a
         /\ XorBytes(a, XorBytes(a, b, c), c) = b
<1> DEFINE x == Xor8(b, c)
<1>1. x \in Octet /\ Xor8(a, x) \in Octet
  BY XorOfBytes
<1>2. XorBytes(a, b, c) = Xor8(a, x)
  BY DEF XorBytes
<1>3. XorBytes(XorBytes(a, b, c), b, c) = Xor8(Xor8(a, x), x)
  BY DEF XorBytes
<1>4. XorBytes(a, XorBytes(a, b, c), c) = Xor8(a, Xor8(Xor8(a, x), c))
  BY DEF XorBytes
<1>5. Xor8(Xor8(b, c), c) = b
  <2>1. Xor8(Xor8(b, c), c) = Xor8(b, Xor8(c, c))
    BY XorOfBytes
  <2> QED BY <2>1, XorOfBytes
<1>6. Xor8(x, c) = b
  BY <1>5
<1> HIDE DEF x
<1>7. Xor8(Xor8(a, x), x) = a
  <2>1. Xor8(Xor8(a, x), x) = Xor8(a, Xor8(x, x))
    BY <1>1, XorOfBytes
  <2> QED BY <1>1, <2>1, XorOfBytes
<1>8. Xor8(a, Xor8(Xor8(a, x), c)) = b
  <2>1. Xor8(Xor8(a, x), c) = Xor8(a, b)
    BY <1>1, <1>6, XorOfBytes
  <2>2. Xor8(a, Xor8(a, b)) = Xor8(Xor8(a, a), b)
    BY XorOfBytes
  <2>3. 0 \in Octet /\ Xor8(a, a) = 0 /\ Xor8(0, b) = Xor8(b, 0) /\ Xor8(b, 0) = b
    <3>1. 0 \in Octet
      BY DEF Octet, Below
    <3> QED BY <3>1, XorOfBytes
  <2> QED BY <2>1, <2>2, <2>3
<1> QED BY <1>1, <1>2, <1>3, <1>4, <1>7, <1>8

\* A word of a block that the client encrypts comes out of the server's keys.
LEMMA LinkTurns ==
  ASSUME NEW i \in 0 .. 3, NEW v \in Word16, NEW p \in Word16, NEW x, NEW e,
         x = XorWords(ClientEncryptKeys[i + 8], v, p),
         e = TimesMod(x, ClientEncryptKeys[i + 4], ClientEncryptKeys[i])
  PROVE  /\ e \in Word18
         /\ XorWords(TimesMod(e, ServerDecryptKeys[4 + i], ServerDecryptKeys[i]),
                     ServerDecryptKeys[i + 8], p) % 65536 = v
<1> DEFINE k == ClientEncryptKeys[i + 8]
<1>1. k \in Word16 /\ ServerDecryptKeys[i + 8] = k
  BY KeysMatch DEF Word16
<1>2. x \in Word16
  BY <1>1, XorNarrow DEF XorWords
<1>3. /\ e \in Word18
      /\ TimesMod(e, ServerDecryptKeys[4 + i], ServerDecryptKeys[i]) = x
  BY <1>2, KeysMatch DEF Word16, Word18
<1> HIDE DEF k
<1>4. XorWords(XorWords(k, v, p), k, p) = v
  BY <1>1, WordsNest, XorWordsBack
<1>5. v % 65536 = v
  BY DEF Word16, Below
<1> QED BY <1>1, <1>3, <1>4, <1>5 DEF k

LEMMA MaskTurns ==
  ASSUME NEW i \in 0 .. 3, NEW e \in Word18, NEW n \in Word16
  PROVE  /\ XorWords(e, ClientEncryptKeys[8 + i], n) \in Word18
         /\ XorWords(XorWords(e, ClientEncryptKeys[8 + i], n), ServerDecryptKeys[8 + i], n) = e
<1> DEFINE k == ClientEncryptKeys[8 + i]
<1>1. k \in Word16 /\ ServerDecryptKeys[8 + i] = k
  BY KeysMatch DEF Word16
<1> HIDE DEF k
<1>2. XorWords(e, k, n) \in Word18
  BY <1>1, XorNarrow DEF XorWords
<1>3. XorWords(XorWords(e, k, n), k, n) = e
  BY <1>1, WordsNest, XorWordsBack
<1> QED BY <1>1, <1>2, <1>3 DEF k

\* Eight bytes.
IsOctets(src) == src \in Seq(Octet) /\ Len(src) = 8

LEMMA OctetsOf ==
  ASSUME NEW src, IsOctets(src)
  PROVE  \A p \in 1 .. 8 : src[p] \in Octet
<1>1. src \in Seq(Octet) /\ 1 .. Len(src) = 1 .. 8
  BY DEF IsOctets
<1>2. \A p \in 1 .. Len(src) : src[p] \in Octet
  BY <1>1, ElementOfSeq
<1> QED BY <1>1, <1>2

\* The four words of a block, and the bytes of them again.
LEMMA WordsOfOctets ==
  ASSUME NEW a \in Octet, NEW b \in Octet
  PROVE  /\ a + 256 * b \in Word16
         /\ Byte(a + 256 * b, 0) = a /\ Byte(a + 256 * b, 1) = b
<1>1. a + 256 * b \in Word16
  BY DEF Octet, Word16, Below
<1>2. Byte(a + 256 * b, 0) = a
  BY DEF Octet, Below, Byte
<1>3. Byte(a + 256 * b, 1) = b
  BY DEF Octet, Below, Byte
<1> QED BY <1>1, <1>2, <1>3

LEMMA OctetsRejoin ==
  ASSUME NEW src, IsOctets(src)
  PROVE  <<src[1], src[2]>> \o <<src[3], src[4]>> \o <<src[5], src[6]>> \o <<src[7], src[8]>>
            = src
<1> DEFINE r == <<src[1], src[2]>> \o <<src[3], src[4]>> \o <<src[5], src[6]>>
                \o <<src[7], src[8]>>
<1>1. \A p \in 1 .. 8 : src[p] \in Octet
  BY OctetsOf
<1>2. r \in Seq(Octet) /\ Len(r) = 8
  BY <1>1
<1>3. r[1] = src[1] /\ r[2] = src[2] /\ r[3] = src[3] /\ r[4] = src[4]
  BY <1>1
<1>4. r[5] = src[5] /\ r[6] = src[6] /\ r[7] = src[7] /\ r[8] = src[8]
  BY <1>1
<1> HIDE DEF r
<1>5. \A p \in 1 .. 8 : r[p] = src[p]
  BY <1>3, <1>4
<1>6. src \in Seq(Octet) /\ Len(r) = Len(src) /\ 1 .. Len(r) = 1 .. 8
  BY <1>2 DEF IsOctets
<1>7. \A p \in 1 .. Len(r) : r[p] = src[p]
  BY <1>5, <1>6
<1>8. r = src
  BY <1>2, <1>6, <1>7, SeqEqual
<1> QED BY <1>8 DEF r

LEMMA CheckByteIsOctet ==
  ASSUME NEW src, IsOctets(src)
  PROVE  CheckByte(src) \in Octet
<1>1. \A a, b, c \in Octet : XorBytes(a, b, c) \in Octet
  BY XorBytesBack
<1>2. \hF8 \in Octet
  BY DEF Octet, Below
<1> DEFINE x == XorBytes(\hF8, src[1], src[2])
           y == XorBytes(src[3], src[4], src[5])
           z == XorBytes(src[6], src[7], src[8])
<1>3. x \in Octet /\ y \in Octet /\ z \in Octet
  BY <1>1, <1>2, OctetsOf
<1>4. CheckByte(src) = XorBytes(x, y, z)
  BY DEF CheckByte
<1> HIDE DEF x, y, z
<1> QED BY <1>1, <1>3, <1>4

\* The checksum and the length come back.
LEMMA LengthTurns ==
  ASSUME NEW c \in Octet, NEW last, last = XorBytes(c, 8, \h3D) + 256 * c
  PROVE  /\ last \in Word16 /\ Byte(last, 1) = c
         /\ XorBytes(Byte(last, 1), Byte(last, 0), \h3D) = 8
<1>1. 8 \in Octet /\ \h3D \in Octet
  BY DEF Octet, Below
<1>2. XorBytes(c, 8, \h3D) \in Octet
  BY <1>1, XorBytesBack
<1>3. last \in Word16 /\ Byte(last, 0) = XorBytes(c, 8, \h3D) /\ Byte(last, 1) = c
  BY <1>2, WordsOfOctets
<1>4. XorBytes(c, XorBytes(c, 8, \h3D), \h3D) = 8
  BY <1>1, XorBytesBack
<1> QED BY <1>3, <1>4

\* What the client makes of eight bytes, the server takes apart again.
LEMMA BlockTurns ==
  ASSUME NEW src, IsOctets(src)
  PROVE  DecC3Bytes(EncC3Bytes(src, 8, ClientEncryptKeys), ServerDecryptKeys)
            = [bytes |-> src, length |-> 8]
<1> DEFINE ck == ClientEncryptKeys
           sk == ServerDecryptKeys
           v0 == src[2 * 0 + 1] + 256 * src[2 * 0 + 2]
           v1 == src[2 * 1 + 1] + 256 * src[2 * 1 + 2]
           v2 == src[2 * 2 + 1] + 256 * src[2 * 2 + 2]
           v3 == src[2 * 3 + 1] + 256 * src[2 * 3 + 2]
           e0 == TimesMod(XorWords(ck[0 + 8], v0, 0 % 65536), ck[0 + 4], ck[0])
           e1 == TimesMod(XorWords(ck[1 + 8], v1, e0 % 65536), ck[1 + 4], ck[1])
           e2 == TimesMod(XorWords(ck[2 + 8], v2, e1 % 65536), ck[2 + 4], ck[2])
           e3 == TimesMod(XorWords(ck[3 + 8], v3, e2 % 65536), ck[3 + 4], ck[3])
           m0 == XorWords(e0, ck[8 + 0], e1 % 65536)
           m1 == XorWords(e1, ck[8 + 1], e2 % 65536)
           m2 == XorWords(e2, ck[8 + 2], e3 % 65536)
           c == CheckByte(src)
           last == XorBytes(c, 8, \h3D) + 256 * c
           block == BlockOf(m0, m1, m2, e3, last)
<1>1. EncC3Bytes(src, 8, ClientEncryptKeys) = block
  BY DEF EncC3Bytes, BlockOf
<1>2. \A p \in 1 .. 8 : src[p] \in Octet
  BY OctetsOf
<1>3. /\ v0 \in Word16 /\ Byte(v0, 0) = src[1] /\ Byte(v0, 1) = src[2]
      /\ v1 \in Word16 /\ Byte(v1, 0) = src[3] /\ Byte(v1, 1) = src[4]
      /\ v2 \in Word16 /\ Byte(v2, 0) = src[5] /\ Byte(v2, 1) = src[6]
      /\ v3 \in Word16 /\ Byte(v3, 0) = src[7] /\ Byte(v3, 1) = src[8]
  BY <1>2, WordsOfOctets
<1> HIDE DEF v0, v1, v2, v3
<1> DEFINE u(i, e, p) == XorWords(TimesMod(e, sk[4 + i], sk[i]), sk[i + 8], p % 65536) % 65536
<1>4. 0 \in Word18 /\ \A e \in Word18 : e % 65536 \in Word16
  BY WordsNest DEF Word18, Below
<1>5. e0 \in Word18 /\ u(0, e0, 0) = v0
  <2>1. 0 % 65536 \in Word16
    BY <1>4
  <2> QED BY <1>3, <2>1, LinkTurns
<1> HIDE DEF e0
<1>6. e1 \in Word18 /\ u(1, e1, e0) = v1
  <2>1. e0 % 65536 \in Word16
    BY <1>4, <1>5
  <2> QED BY <1>3, <2>1, LinkTurns
<1> HIDE DEF e1
<1>7. e2 \in Word18 /\ u(2, e2, e1) = v2
  <2>1. e1 % 65536 \in Word16
    BY <1>4, <1>6
  <2> QED BY <1>3, <2>1, LinkTurns
<1> HIDE DEF e2
<1>8. e3 \in Word18 /\ u(3, e3, e2) = v3
  <2>1. e2 % 65536 \in Word16
    BY <1>4, <1>7
  <2> QED BY <1>3, <2>1, LinkTurns
<1> HIDE DEF e3
<1>9. /\ m0 \in Word18 /\ XorWords(m0, sk[8 + 0], e1 % 65536) = e0
      /\ m1 \in Word18 /\ XorWords(m1, sk[8 + 1], e2 % 65536) = e1
      /\ m2 \in Word18 /\ XorWords(m2, sk[8 + 2], e3 % 65536) = e2
  <2>1. e1 % 65536 \in Word16 /\ e2 % 65536 \in Word16 /\ e3 % 65536 \in Word16
    BY <1>4, <1>6, <1>7, <1>8
  <2> QED BY <1>5, <1>6, <1>7, <2>1, MaskTurns
<1> HIDE DEF m0, m1, m2
<1>10. /\ last \in Word16 /\ Byte(last, 1) = c
       /\ XorBytes(Byte(last, 1), Byte(last, 0), \h3D) = 8
  BY CheckByteIsOctet, LengthTurns
<1> HIDE DEF c, last
<1>11. /\ Unpack(block, 0) = m0 /\ Unpack(block, 1) = m1
       /\ Unpack(block, 2) = m2 /\ Unpack(block, 3) = e3
       /\ UnpackLast(block) = last
  BY <1>8, <1>9, <1>10, BlockHolds
<1> HIDE DEF block, sk
<1> DEFINE d3 == Unpack(block, 3)
           d2 == XorWords(Unpack(block, 2), sk[8 + 2], d3 % 65536)
           d1 == XorWords(Unpack(block, 1), sk[8 + 1], d2 % 65536)
           d0 == XorWords(Unpack(block, 0), sk[8 + 0], d1 % 65536)
           pair(i, d, p) == <<Byte(u(i, d, p), 0), Byte(u(i, d, p), 1)>>
           dest == pair(0, d0, 0) \o pair(1, d1, d0) \o pair(2, d2, d1) \o pair(3, d3, d2)
<1>12. DecC3Bytes(block, sk)
         = [bytes |-> dest,
            length |-> IF CheckByte(dest) # Byte(UnpackLast(block), 1) THEN -1
                       ELSE XorBytes(Byte(UnpackLast(block), 1), Byte(UnpackLast(block), 0),
                                     \h3D)]
  BY DEF DecC3Bytes
<1>13. d3 = e3 /\ d2 = e2 /\ d1 = e1 /\ d0 = e0
  BY <1>9, <1>11
<1> HIDE DEF d0, d1, d2, d3, u
<1>14. dest = src
  <2>1. /\ pair(0, d0, 0) = <<src[1], src[2]>> /\ pair(1, d1, d0) = <<src[3], src[4]>>
        /\ pair(2, d2, d1) = <<src[5], src[6]>> /\ pair(3, d3, d2) = <<src[7], src[8]>>
    BY <1>3, <1>5, <1>6, <1>7, <1>8, <1>13
  <2> HIDE DEF pair
  <2> QED BY <2>1, OctetsRejoin
<1> HIDE DEF dest
<1>15. DecC3Bytes(block, sk) = [bytes |-> src, length |-> 8]
  BY <1>10, <1>11, <1>12, <1>14 DEF c
<1> QED BY <1>1, <1>15 DEF sk

\* A part of a packet.
LEMMA OctetsOfPacket ==
  ASSUME NEW bytes \in Seq(Octet), NEW n \in Nat, Len(bytes) = 8 * n, NEW k \in 1 .. n
  PROVE  /\ IsOctets(SubSeq(bytes, 8 * k - 7, 8 * k))
         /\ \A j \in 1 .. 8 : SubSeq(bytes, 8 * k - 7, 8 * k)[j] = bytes[8 * k - 8 + j]
<1> DEFINE from == 8 * k - 7
           to == 8 * k
<1>1. from \in Int /\ to \in Int /\ from <= to /\ to - from + 1 = 8
      /\ from .. to \subseteq 1 .. 8 * n
  OBVIOUS
<1>2. \A i \in from .. to : bytes[i] \in Octet
  BY <1>1, ElementOfSeq
<1>3. \A j \in 1 .. 8 : from + j - 1 = 8 * k - 8 + j
  OBVIOUS
<1> HIDE DEF from, to
<1>4. /\ SubSeq(bytes, from, to) \in Seq(Octet)
      /\ Len(SubSeq(bytes, from, to)) = IF from <= to THEN to - from + 1 ELSE 0
      /\ \A i \in 1 .. to - from + 1 : SubSeq(bytes, from, to)[i] = bytes[from + i - 1]
  BY <1>1, <1>2, SubSeqProperties
<1>5. IsOctets(SubSeq(bytes, from, to))
  BY <1>1, <1>4 DEF IsOctets
<1>6. \A j \in 1 .. 8 : SubSeq(bytes, from, to)[j] = bytes[8 * k - 8 + j]
  BY <1>1, <1>3, <1>4
<1> QED BY <1>5, <1>6 DEF from, to

\* A packet of whole blocks comes out of the server's end as the client put it in.
LEMMA PacketTurns ==
  ASSUME NEW bytes \in Seq(Octet), NEW n \in Nat, Len(bytes) = 8 * n
  PROVE  DecryptC3asServer(EncryptC3asClient(bytes)) = bytes
<1> DEFINE part(k) == SubSeq(bytes, 8 * k - 7, 8 * k)
           blocks == [k \in 1 .. n |-> EncC3Bytes(part(k), 8, ClientEncryptKeys)]
           dec == [k \in DOMAIN blocks |-> DecC3Bytes(blocks[k], ServerDecryptKeys)]
<1>1. EncryptC3asClient(bytes) = blocks
  <2>1. Len(bytes) \div 8 = n
    OBVIOUS
  <2> QED BY <2>1 DEF EncryptC3asClient, EncryptC3
<1>2. DOMAIN blocks = 1 .. n /\ Len(blocks) = n
  OBVIOUS
<1>3. \A k \in 1 .. n : dec[k] = [bytes |-> part(k), length |-> 8]
  BY OctetsOfPacket, BlockTurns
<1>4. DecryptC3asServer(blocks)
        = IF \E k \in DOMAIN dec : dec[k].length < 0 THEN <<>>
          ELSE [b \in 1 .. 8 * Len(blocks) |->
                   dec[((b - 1) \div 8) + 1].bytes[((b - 1) % 8) + 1]]
  BY DEF DecryptC3asServer, DecryptC3
<1>5. DOMAIN dec = 1 .. n
  OBVIOUS
<1>6. \A k \in 1 .. n : \A j \in 1 .. 8 : part(k)[j] = bytes[8 * k - 8 + j]
  BY OctetsOfPacket
<1> HIDE DEF dec, blocks, part
<1>7. \A k \in 1 .. n : dec[k].bytes = part(k)
  <2> TAKE k \in 1 .. n
  <2>1. dec[k] = [bytes |-> part(k), length |-> 8]
    BY <1>3
  <2>2. dec[k].bytes = [bytes |-> part(k), length |-> 8].bytes
    BY ONLY <2>1, Zenon
  <2>3. [bytes |-> part(k), length |-> 8].bytes = part(k)
    BY ONLY TRUE
  <2> QED BY <2>2, <2>3
<1>8. ~ \E k \in DOMAIN dec : dec[k].length < 0
  BY <1>3, <1>5
<1>9. DecryptC3asServer(blocks)
        = [b \in 1 .. 8 * n |-> dec[((b - 1) \div 8) + 1].bytes[((b - 1) % 8) + 1]]
  BY <1>2, <1>4, <1>8
<1>10. ASSUME NEW b \in 1 .. 8 * n
      PROVE  dec[((b - 1) \div 8) + 1].bytes[((b - 1) % 8) + 1] = bytes[b]
  <2> DEFINE k == ((b - 1) \div 8) + 1
             j == ((b - 1) % 8) + 1
  <2>1. k \in 1 .. n /\ j \in 1 .. 8 /\ 8 * k - 8 + j = b
    OBVIOUS
  <2> HIDE DEF k, j
  <2>2. dec[k].bytes = part(k)
    BY ONLY <1>7, <2>1
  <2>3. part(k)[j] = bytes[8 * k - 8 + j]
    BY <1>6, <2>1
  <2>4. dec[k].bytes[j] = bytes[b]
    BY <2>1, <2>2, <2>3
  <2> QED BY <2>4 DEF k, j
<1>11. bytes = [b \in 1 .. 8 * n |-> bytes[b]]
  OBVIOUS
<1> QED BY <1>1, <1>9, <1>10, <1>11

\* EncXor32 as the recursion over the bytes that it is.
Xored(bytes, size, done, n) ==
    Append(done, IF n = 1 THEN bytes[1] ELSE XorBytes(bytes[n], XorKey(n, size), done[n - 1]))

Chains(f, bytes, size, last) ==
    f = [n \in 0 .. last |-> IF n = 0 THEN <<>> ELSE Xored(bytes, size, f[n - 1], n)]

LEMMA ChainExists ==
  ASSUME NEW bytes, NEW size, NEW last \in Nat
  PROVE  \E f : Chains(f, bytes, size, last)
<1> DEFINE T == {m \in Nat : ~ \E f : Chains(f, bytes, size, m)}
<1> SUFFICES ASSUME T # {} PROVE FALSE
  OBVIOUS
<1>1. PICK m \in T : \A k \in T : m <= k
  BY LeastElement
<1>2. m # 0
  <2> DEFINE g == [n \in 0 .. 0 |-> <<>>]
  <2>1. Chains(g, bytes, size, 0)
    BY DEF Chains
  <2> QED BY <2>1
<1>3. m - 1 \in Nat /\ m - 1 \notin T
  BY <1>1, <1>2
<1>4. PICK f : Chains(f, bytes, size, m - 1)
  BY <1>3
<1> DEFINE g == [n \in 0 .. m |-> IF n = m THEN Xored(bytes, size, f[m - 1], m) ELSE f[n]]
<1>5. ASSUME NEW n \in 0 .. m
      PROVE  g[n] = IF n = 0 THEN <<>> ELSE Xored(bytes, size, g[n - 1], n)
  <2>1. CASE n = m
    BY <1>2, <1>3, <2>1
  <2>2. CASE n # m
    <3>1. n \in 0 .. m - 1
      BY <2>2
    <3>2. f[n] = IF n = 0 THEN <<>> ELSE Xored(bytes, size, f[n - 1], n)
      BY <1>4, <3>1 DEF Chains
    <3>3. n # 0 => n - 1 \in 0 .. m /\ n - 1 # m
      BY <3>1
    <3> QED BY <2>2, <3>1, <3>2, <3>3
  <2> QED BY <2>1, <2>2
<1>6. Chains(g, bytes, size, m)
  BY <1>5 DEF Chains
<1> QED BY <1>1, <1>6

LEMMA EncXor32Chains ==
  ASSUME NEW bytes \in Seq(Octet), NEW size
  PROVE  \E f : Chains(f, bytes, size, Len(bytes)) /\ EncXor32(bytes, size) = f[Len(bytes)]
<1> DEFINE f == CHOOSE f : Chains(f, bytes, size, Len(bytes))
<1>1. Chains(f, bytes, size, Len(bytes))
  BY ChainExists
<1>2. EncXor32(bytes, size) = f[Len(bytes)]
  BY DEF EncXor32, Chains, Xored
<1> QED BY <1>1, <1>2

LEMMA XorKeyIsOctet ==
  ASSUME NEW b \in Nat \ {0, 1}, NEW size \in Nat
  PROVE  XorKey(b, size) \in Octet
<1>1. \A i \in 1 .. 32 : C2Keys[i] \in Octet
  BY DEF C2Keys, Octet, Below
<1>2. ((b - 2 + size) % 32) + 1 \in 1 .. 32
  OBVIOUS
<1> QED BY <1>1, <1>2 DEF XorKey

\* The server takes off what the client has put on, byte by byte.
LEMMA XorTurns ==
  ASSUME NEW bytes \in Seq(Octet), NEW size \in Nat
  PROVE  /\ EncXor32(bytes, size) \in Seq(Octet)
         /\ Len(EncXor32(bytes, size)) = Len(bytes)
         /\ DecXor32(EncXor32(bytes, size), size) = bytes
<1> DEFINE last == Len(bytes)
<1>1. last \in Nat /\ \A b \in 1 .. last : bytes[b] \in Octet
  BY ElementOfSeq
<1>2. PICK f : Chains(f, bytes, size, last) /\ EncXor32(bytes, size) = f[last]
  BY EncXor32Chains
<1>3. bytes = [b \in 1 .. last |-> bytes[b]]
  OBVIOUS
<1> HIDE DEF last
<1> DEFINE Good(n) ==
             /\ f[n] \in Seq(Octet) /\ Len(f[n]) = n
             /\ \A b \in 1 .. n :
                   f[n][b] = IF b = 1 THEN bytes[1]
                             ELSE XorBytes(bytes[b], XorKey(b, size), f[n][b - 1])
           T == {n \in Nat : n \in 0 .. last /\ ~Good(n)}
<1>4. T = {}
  <2> SUFFICES ASSUME T # {} PROVE FALSE
    OBVIOUS
  <2>1. PICK n \in T : \A k \in T : n <= k
    BY LeastElement
  <2>2. n \in 0 .. last /\ ~Good(n)
    BY <2>1
  <2>3. n # 0
    <3>1. f[0] = <<>>
      BY <1>1, <1>2 DEF Chains
    <3>2. Good(0)
      BY <3>1
    <3> QED BY <2>2, <3>2
  <2> DEFINE p == n - 1
             d == f[p]
             x == IF n = 1 THEN bytes[1] ELSE XorBytes(bytes[n], XorKey(n, size), d[p])
  <2>4. p \in 0 .. last /\ p \in Nat /\ n \in 1 .. last /\ n = p + 1
    BY <1>1, <2>2, <2>3
  <2>5. Good(p)
    BY <2>1, <2>4
  <2>6. f[n] = Append(d, x)
    BY <1>2, <2>3, <2>4 DEF Chains, Xored
  <2>7. x \in Octet
    <3>1. CASE n = 1
      BY <1>1, <2>4, <3>1
    <3>2. CASE n # 1
      <4>1. d[p] \in Octet
        BY <2>4, <2>5, <3>2, ElementOfSeq
      <4>2. bytes[n] \in Octet /\ XorKey(n, size) \in Octet
        BY <1>1, <2>4, <3>2, XorKeyIsOctet
      <4> QED BY <3>2, <4>1, <4>2, XorBytesBack
    <3> QED BY <3>1, <3>2
  <2>8. d \in Seq(Octet) /\ Len(d) = p
    BY <2>5
  <2>9. \A b \in 1 .. p : d[b] = IF b = 1 THEN bytes[1]
                                 ELSE XorBytes(bytes[b], XorKey(b, size), d[b - 1])
    BY <2>5
  <2> HIDE DEF d, x, p
  <2>10. /\ f[n] \in Seq(Octet) /\ Len(f[n]) = p + 1
         /\ f[n][p + 1] = x
         /\ \A b \in 1 .. p : f[n][b] = d[b]
    BY <2>4, <2>6, <2>7, <2>8, AppendElements
  <2>11. ASSUME NEW b \in 1 .. n
         PROVE  f[n][b] = IF b = 1 THEN bytes[1]
                          ELSE XorBytes(bytes[b], XorKey(b, size), f[n][b - 1])
    <3>1. CASE b = n
      <4>1. f[n][b] = x
        BY <2>4, <2>10, <3>1
      <4>2. n # 1 => f[n][b - 1] = d[p]
        BY <2>4, <2>10, <3>1
      <4> QED BY <3>1, <4>1, <4>2 DEF x
    <3>2. CASE b # n
      <4>1. b \in 1 .. p /\ (b # 1 => b - 1 \in 1 .. p)
        BY <2>4, <3>2
      <4> QED BY <2>9, <2>10, <4>1
    <3> QED BY <3>1, <3>2
  <2>12. Good(n)
    BY <2>4, <2>10, <2>11
  <2> QED BY <2>2, <2>12
<1>5. Good(last)
  BY <1>1, <1>4
<1> DEFINE e == EncXor32(bytes, size)
<1>6. /\ e \in Seq(Octet) /\ Len(e) = last
      /\ \A b \in 1 .. last : e[b] = IF b = 1 THEN bytes[1]
                                     ELSE XorBytes(bytes[b], XorKey(b, size), e[b - 1])
  BY <1>2, <1>5
<1> HIDE DEF e, Good, T
<1>7. DOMAIN e = 1 .. last /\ \A b \in 1 .. last : e[b] \in Octet
  BY <1>6, ElementOfSeq
<1>8. ASSUME NEW b \in 1 .. last
      PROVE  (IF b = 1 THEN e[1] ELSE XorBytes(e[b], XorKey(b, size), e[b - 1])) = bytes[b]
  <2>1. CASE b = 1
    BY <1>6, <2>1
  <2>2. CASE b # 1
    <3>1. b - 1 \in 1 .. last /\ b \in Nat \ {0, 1}
      BY <1>1, <2>2
    <3>2. bytes[b] \in Octet /\ XorKey(b, size) \in Octet /\ e[b - 1] \in Octet
      BY <1>1, <1>7, <3>1, XorKeyIsOctet
    <3>3. e[b] = XorBytes(bytes[b], XorKey(b, size), e[b - 1])
      BY <1>6, <2>2
    <3>4. XorBytes(e[b], XorKey(b, size), e[b - 1]) = bytes[b]
      BY <3>2, <3>3, XorBytesBack
    <3> QED BY <2>2, <3>4
  <2> QED BY <2>1, <2>2
<1>9. DecXor32(e, size)
        = [b \in 1 .. last |->
              IF b = 1 THEN e[1] ELSE XorBytes(e[b], XorKey(b, size), e[b - 1])]
  BY <1>7 DEF DecXor32
<1>10. DecXor32(e, size) = bytes
  BY <1>3, <1>8, <1>9
<1> QED BY <1>6, <1>10 DEF e, last

-----------------------------------------------------------------------------
(* The login packet.                                                       *)

\* Both layers of the codec, as EncryptC3asClient and EncXor32 put them on.
Encoded(bytes) == EncryptC3asClient(EncXor32(bytes, 2))

(* Whatever the bytes are: a packet that the client's end of the codec has *)
(* made, both layers of it, is the same again behind the server's end.     *)
THEOREM EncodedTurns ==
  ASSUME NEW bytes \in Seq(Octet), NEW n \in Nat, Len(bytes) = 8 * n
  PROVE  DecXor32(DecryptC3asServer(Encoded(bytes)), 2) = bytes
<1> DEFINE x == EncXor32(bytes, 2)
<1>1. x \in Seq(Octet) /\ Len(x) = 8 * n /\ DecXor32(x, 2) = bytes
  BY XorTurns
<1>2. Encoded(bytes) = EncryptC3asClient(x)
  BY DEF Encoded
<1> HIDE DEF x
<1>3. DecryptC3asServer(EncryptC3asClient(x)) = x
  BY <1>1, PacketTurns
<1> QED BY <1>1, <1>2, <1>3

\* What a packet is: as many bytes as its length on the wire says.
IsPlain(bytes, size) == bytes \in Seq(Octet) /\ Len(bytes) = DecSize(size)

\* The lengths that are sent are those of whole blocks, and the two that are
\* taken for a login are the same after the packet was encrypted again.
LEMMA SizesWhole ==
  ASSUME NEW size \in Sizes
  PROVE  /\ \E n \in Nat : DecSize(size) = 8 * n
         /\ DecSize(size) \in Nat /\ DecSize(size) >= 13
         /\ IsSerialPacket(size) => EncSize(size) = size
<1>1. DecSize(\h18) = 16 /\ DecSize(\h44) = 48 /\ DecSize(\h65) = 72
  BY DEF DecSize
<1>2. EncSize(\h44) = \h44 /\ EncSize(\h65) = \h65
  BY <1>1 DEF EncSize
<1>3. 16 = 8 * 2 /\ 48 = 8 * 6 /\ 72 = 8 * 9
  OBVIOUS
<1> QED BY <1>1, <1>2, <1>3 DEF Sizes, IsSerialPacket

\* The game's packets come back, the serial replaces none of the name, and a
\* packet is as long as its size says.
LEMMA PlainTurns ==
  ASSUME NEW size \in Sizes, NEW bytes, IsPlain(bytes, size)
  PROVE  DecXor32(DecryptC3asServer(Encoded(bytes)), 2) = bytes
BY SizesWhole, EncodedTurns DEF IsPlain

LEMMA LoginKept ==
  ASSUME NEW size \in Sizes, NEW bytes, IsPlain(bytes, size), NEW serial \in Serials
  PROVE  /\ IsPlain(WithSerial(bytes, size, serial), size)
         /\ IsSerialPacket(size) => NameIn(WithSerial(bytes, size, serial)) = NameIn(bytes)
<1> DEFINE n == DecSize(size)
           r == WithSerial(bytes, size, serial)
<1>1. bytes \in Seq(Octet) /\ DOMAIN bytes = 1 .. n /\ n \in Nat /\ n >= 13
  BY SizesWhole DEF IsPlain
<1>2. \A b \in 1 .. n : bytes[b] \in Octet
  BY SizesWhole, ElementOfSeq DEF IsPlain
<1>3. \A b \in 1 .. 16 : serial[b] \in Octet
  <2>1. 0 .. 255 = Octet
    BY DEF Octet, Below
  <2>2. serial \in Seq(Octet) /\ 1 .. Len(serial) = 1 .. 16
    BY <2>1, PacketAssumption
  <2>3. \A b \in 1 .. Len(serial) : serial[b] \in Octet
    BY <2>2, ElementOfSeq
  <2> QED BY <2>2, <2>3
<1>4. r = [b \in 1 .. n |-> IF b - SerialAt(size) \in 1 .. 16
                            THEN serial[b - SerialAt(size)] ELSE bytes[b]]
  BY <1>1 DEF WithSerial
<1>5. \A b \in 1 .. n : r[b] \in Octet
  BY <1>2, <1>3, <1>4
<1>6. IsPlain(r, size)
  <2> HIDE DEF r, n
  <2>1. r \in [1 .. n -> Octet]
    BY <1>4, <1>5
  <2>2. r \in Seq(Octet) /\ Len(r) = n
    BY <1>1, <2>1
  <2> QED BY <2>2 DEF IsPlain, n
<1>7. ASSUME IsSerialPacket(size)
      PROVE  SubSeq(r, 4, 13) = SubSeq(bytes, 4, 13)
  <2>1. \A b \in 4 .. 13 : b \in 1 .. n /\ b - SerialAt(size) \notin 1 .. 16
    BY <1>1 DEF SerialAt
  <2> HIDE DEF n
  <2>2. \A b \in 4 .. 13 : r[b] = bytes[b] /\ r[b] \in Octet
    BY <1>2, <1>4, <2>1
  <2> HIDE DEF r
  <2>3. /\ SubSeq(r, 4, 13) \in Seq(Octet)
        /\ Len(SubSeq(r, 4, 13)) = IF 4 <= 13 THEN 13 - 4 + 1 ELSE 0
        /\ \A i \in 1 .. 13 - 4 + 1 : SubSeq(r, 4, 13)[i] = r[4 + i - 1]
    BY <2>2, SubSeqProperties, 4 \in Int, 13 \in Int
  <2>4. /\ SubSeq(bytes, 4, 13) \in Seq(Octet)
        /\ Len(SubSeq(bytes, 4, 13)) = IF 4 <= 13 THEN 13 - 4 + 1 ELSE 0
        /\ \A i \in 1 .. 13 - 4 + 1 : SubSeq(bytes, 4, 13)[i] = bytes[4 + i - 1]
    BY <2>2, SubSeqProperties, 4 \in Int, 13 \in Int
  <2> DEFINE x == SubSeq(r, 4, 13)
             y == SubSeq(bytes, 4, 13)
  <2>5. \A i \in 1 .. 10 : i \in 1 .. 13 - 4 + 1 /\ 4 + i - 1 \in 4 .. 13
    OBVIOUS
  <2>6. x \in Seq(Octet) /\ y \in Seq(Octet) /\ Len(x) = Len(y) /\ 1 .. Len(x) = 1 .. 10
    BY <2>3, <2>4
  <2>7. \A i \in 1 .. 10 : x[i] = y[i]
    BY <2>2, <2>3, <2>4, <2>5
  <2> HIDE DEF x, y
  <2>8. \A i \in 1 .. Len(x) : x[i] = y[i]
    BY <2>6, <2>7
  <2>9. x = y
    BY <2>6, <2>8, SeqEqual
  <2> QED BY <2>9 DEF x, y
<1> QED BY <1>6, <1>7 DEF NameIn

LEMMA LoginIsPlain ==
  ASSUME NEW size \in Sizes, NEW counter \in Counters, NEW code \in {Login, OtherCode},
         NEW login \in Logins, NEW fill \in Fills
  PROVE  LET head == <<counter, code, 1>> \o EncDecLogin(login)
         IN  IsPlain(head \o [b \in 1 .. (DecSize(size) - Len(head)) |-> fill], size)
<1> DEFINE front == <<counter, code, 1>>
           user == EncDecLogin(login)
           head == front \o user
           rest == [b \in 1 .. (DecSize(size) - Len(head)) |-> fill]
<1>1. 0 .. 255 = Octet
  BY DEF Octet, Below
<1>2. counter \in Octet /\ code \in Octet /\ fill \in Octet /\ 1 \in Octet
  <2>1. counter \in Octet /\ fill \in Octet
    BY <1>1, PacketAssumption
  <2>2. code \in Octet /\ 1 \in Octet
    BY DEF Login, OtherCode, Octet, Below
  <2> QED BY <2>1, <2>2
<1>3. front \in Seq(Octet) /\ Len(front) = 3
  BY <1>2
<1>4. user \in Seq(Octet) /\ Len(user) = 10
  <2>1. login \in Seq(Octet) /\ Len(login) = 10
    BY <1>1, PacketAssumption
  <2>2. DOMAIN login = 1 .. 10
    BY <2>1
  <2>3. \A b \in 1 .. Len(login) : login[b] \in Octet
    BY <2>1, ElementOfSeq
  <2>4. \A i \in 1 .. 3 : LoginKeys[i] \in Octet
    BY DEF LoginKeys, Octet, Below
  <2>5. \A b \in 1 .. 10 : ((b - 1) % 3) + 1 \in 1 .. 3 /\ b \in 1 .. Len(login)
    BY <2>1
  <2>6. \A b \in 1 .. 10 : Xor8(login[b], LoginKeys[((b - 1) % 3) + 1]) \in Octet
    BY <2>3, <2>4, <2>5, XorOfBytes
  <2>7. user = [b \in 1 .. 10 |-> Xor8(login[b], LoginKeys[((b - 1) % 3) + 1])]
    BY <2>2 DEF EncDecLogin
  <2> DEFINE ten == 10
  <2>8. ten \in Nat
    OBVIOUS
  <2>9. ten = 10
    OBVIOUS
  <2> HIDE DEF user, ten
  <2>10. user \in [1 .. ten -> Octet]
    BY <2>6, <2>7, <2>9
  <2>11. user \in Seq(Octet) /\ Len(user) = ten
    BY ONLY <2>8, <2>10
  <2> QED BY <2>11, <2>9
<1> HIDE DEF front, user
<1>5. head \in Seq(Octet) /\ Len(head) = 13
  <2>1. Joins(head, front, 3, user, 10, Octet)
    BY <1>3, <1>4, Joined, 3 \in Nat, 10 \in Nat, Zenon
  <2> QED BY <2>1 DEF Joins
<1> HIDE DEF head
<1> DEFINE n == DecSize(size) - 13
<1>6. n \in Nat /\ 13 \in Nat /\ 13 + n = DecSize(size)
  BY SizesWhole
<1>7. rest \in Seq(Octet) /\ Len(rest) = n
  <2>1. rest = [b \in 1 .. n |-> fill]
    BY <1>5
  <2> HIDE DEF rest, n
  <2>2. rest \in [1 .. n -> Octet]
    BY <1>2, <2>1
  <2> QED BY <1>6, <2>2
<1> HIDE DEF rest, n
<1>8. Joins(head \o rest, head, 13, rest, n, Octet)
  BY <1>5, <1>6, <1>7, Joined, Zenon
<1>9. IsPlain(head \o rest, size)
  BY <1>6, <1>8 DEF Joins, IsPlain
<1> QED BY <1>9 DEF head, rest, front, user

\* The packet as the game's server has to read it.
Expected == IF sending.serial # NoSerial /\ sending.alone
            THEN WithSerial(plain, sending.size, sending.serial) ELSE plain

\* Before the hook the wire holds what the game wrote, behind it what the
\* server expects; and the name was taken from what the game wrote.
PacketIInv ==
    /\ GameSerial \in Serials \cup {NoSerial}
    /\ sending = [pc |-> sending.pc, size |-> sending.size, wire |-> sending.wire,
                  alone |-> sending.alone, serial |-> sending.serial]
    /\ sending.pc \in {"idle", "hook", "sent", "read"}
    /\ sending.serial \in Serials \cup {NoSerial}
    /\ sending.pc # "idle" => sending.size \in Sizes /\ IsPlain(plain, sending.size)
    /\ sending.pc = "hook" => sending.serial = NoSerial /\ sending.wire = Encoded(plain)
    /\ sending.pc = "sent" => sending.wire = Encoded(Expected)
    /\ sending.pc = "read" => got = Expected
    /\ sending.serial # NoSerial =>
          sending.pc # "idle" /\ IsSerialPacket(sending.size) /\ GameLogin = NameIn(plain)

LEMMA PacketInitially == PacketInit => PacketIInv
BY DEF PacketInit, PacketIInv

LEMMA ExpectedIsPlain ==
  ASSUME PacketIInv, sending.pc # "idle"
  PROVE  /\ IsPlain(Expected, sending.size)
         /\ sending.serial # NoSerial => NameIn(Expected) = NameIn(plain)
<1>1. /\ sending.size \in Sizes /\ IsPlain(plain, sending.size)
      /\ sending.serial \in Serials \cup {NoSerial}
      /\ sending.serial # NoSerial => IsSerialPacket(sending.size)
  BY DEF PacketIInv
<1> QED BY <1>1, LoginKept DEF Expected

LEMMA ReceiveSerialKeeps ==
  ASSUME PacketIInv, NEW serial \in Serials \cup {NoSerial}, ReceiveSerial(serial)
  PROVE  PacketIInv'
BY DEF PacketIInv, ReceiveSerial, Expected, IsPlain, Encoded

LEMMA GameSendsKeeps ==
  ASSUME PacketIInv, NEW size \in Sizes, NEW counter \in Counters,
         NEW code \in {Login, OtherCode}, NEW login \in Logins, NEW fill \in Fills,
         NEW alone \in BOOLEAN, GameSends(size, counter, code, login, fill, alone)
  PROVE  PacketIInv'
<1>1. IsPlain(plain', size)
  BY LoginIsPlain DEF GameSends
<1>2. /\ GameSerial' = GameSerial
      /\ sending' = [pc |-> "hook", size |-> size, alone |-> alone, serial |-> NoSerial,
                     wire |-> Encoded(plain')]
  BY DEF GameSends, Encoded
<1>3. /\ sending'.pc = "hook" /\ sending'.size = size /\ sending'.serial = NoSerial
      /\ sending'.wire = Encoded(plain')
  BY <1>2
<1> QED BY <1>1, <1>2, <1>3 DEF PacketIInv, IsPlain, Encoded

\* What the hook decrypts is what the game wrote.
LEMMA HookReads ==
  ASSUME PacketIInv, sending.pc = "hook"
  PROVE  /\ DecXor32(DecryptC3asServer(sending.wire), 2) = plain
         /\ sending.size \in Sizes /\ IsPlain(plain, sending.size)
<1>1. /\ sending.size \in Sizes /\ IsPlain(plain, sending.size)
      /\ sending.wire = Encoded(plain)
  BY DEF PacketIInv
<1> QED BY <1>1, PlainTurns

LEMMA SendKeeps ==
  ASSUME PacketIInv, ghp_send
  PROVE  PacketIInv'
<1>1. /\ sending.pc = "hook" /\ sending.serial = NoSerial /\ sending.wire = Encoded(plain)
      /\ GameSerial \in Serials \cup {NoSerial}
      /\ sending = [pc |-> sending.pc, size |-> sending.size, wire |-> sending.wire,
                    alone |-> sending.alone, serial |-> sending.serial]
      /\ GameSerial' = GameSerial /\ plain' = plain /\ got' = got
  BY DEF PacketIInv, ghp_send
<1>2. sending.size \in Sizes /\ IsPlain(plain, sending.size)
  BY <1>1, HookReads
<1>3. CASE GameSerial # NoSerial /\ IsSerialPacket(sending.size)
  <2>1. SetSerialAndGetLogin
    BY <1>3 DEF ghp_send
  <2>2. DecXor32(DecryptC3asServer(sending.wire), 2) = plain
    BY <1>1, HookReads
  <2>3. EncSize(sending.size) = sending.size
    BY <1>2, <1>3, SizesWhole
  <2> DEFINE wire == IF sending.alone THEN Encoded(WithSerial(plain, sending.size, GameSerial))
                     ELSE sending.wire
  <2>4. /\ GameLogin' = NameIn(plain)
        /\ sending' = [sending EXCEPT !.pc = "sent", !.serial = GameSerial, !.wire = wire]
    BY <2>1, <2>2, <2>3 DEF SetSerialAndGetLogin, Encoded
  <2> HIDE DEF wire
  <2>5. sending' = [pc |-> "sent", size |-> sending.size, wire |-> wire,
                    alone |-> sending.alone, serial |-> GameSerial]
    BY <1>1, <2>4
  <2>6. /\ sending'.pc = "sent" /\ sending'.size = sending.size /\ sending'.wire = wire
        /\ sending'.alone = sending.alone /\ sending'.serial = GameSerial
    BY <2>5
  <2>7. Expected' = IF sending.alone THEN WithSerial(plain, sending.size, GameSerial) ELSE plain
    BY <1>1, <1>3, <2>6 DEF Expected
  <2>8. wire = Encoded(Expected')
    BY <1>1, <2>7 DEF wire
  <2> QED BY <1>1, <1>2, <1>3, <2>4, <2>5, <2>6, <2>8 DEF PacketIInv, IsPlain, Encoded
<1>4. CASE ~(GameSerial # NoSerial /\ IsSerialPacket(sending.size))
  <2>1. sending' = [sending EXCEPT !.pc = "sent"] /\ GameLogin' = GameLogin
    BY <1>4 DEF ghp_send
  <2>2. sending' = [pc |-> "sent", size |-> sending.size, wire |-> sending.wire,
                    alone |-> sending.alone, serial |-> sending.serial]
    BY <1>1, <2>1
  <2>3. /\ sending'.pc = "sent" /\ sending'.size = sending.size
        /\ sending'.wire = sending.wire /\ sending'.serial = NoSerial
    BY <1>1, <2>2
  <2>4. Expected' = plain
    BY <1>1, <2>3 DEF Expected
  <2> QED BY <1>1, <1>2, <2>2, <2>3, <2>4 DEF PacketIInv, IsPlain, Encoded
<1> QED BY <1>3, <1>4

LEMMA ServerReadsKeeps ==
  ASSUME PacketIInv, ServerReads
  PROVE  PacketIInv'
<1>1. /\ sending.pc = "sent" /\ sending.wire = Encoded(Expected) /\ sending.size \in Sizes
      /\ sending = [pc |-> sending.pc, size |-> sending.size, wire |-> sending.wire,
                    alone |-> sending.alone, serial |-> sending.serial]
      /\ got' = DecXor32(DecryptC3asServer(sending.wire), 2)
      /\ sending' = [sending EXCEPT !.pc = "read"]
      /\ UNCHANGED <<GameSerial, GameLogin, plain>>
  BY DEF PacketIInv, ServerReads
<1>2. IsPlain(Expected, sending.size)
  BY <1>1, ExpectedIsPlain
<1>3. got' = Expected
  BY <1>1, <1>2, PlainTurns
<1>4. sending' = [pc |-> "read", size |-> sending.size, wire |-> sending.wire,
                  alone |-> sending.alone, serial |-> sending.serial]
  BY <1>1
<1>5. /\ sending'.pc = "read" /\ sending'.size = sending.size /\ sending'.wire = sending.wire
      /\ sending'.alone = sending.alone /\ sending'.serial = sending.serial
  BY <1>4
<1>6. Expected' = Expected
  BY <1>1, <1>5 DEF Expected
<1> QED BY <1>1, <1>3, <1>4, <1>5, <1>6 DEF PacketIInv, IsPlain, Encoded

LEMMA PacketInductive == PacketIInv /\ [PacketNext]_packetVars => PacketIInv'
<1> SUFFICES ASSUME PacketIInv, [PacketNext]_packetVars PROVE PacketIInv'
  OBVIOUS
<1>1. CASE \E serial \in Serials \cup {NoSerial} : ReceiveSerial(serial)
  BY <1>1, ReceiveSerialKeeps
<1>2. CASE \E size \in Sizes, counter \in Counters, code \in {Login, OtherCode},
              login \in Logins, fill \in Fills, alone \in BOOLEAN :
              GameSends(size, counter, code, login, fill, alone)
  BY <1>2, GameSendsKeeps
<1>3. CASE ghp_send
  BY <1>3, SendKeeps
<1>4. CASE ServerReads
  BY <1>4, ServerReadsKeeps
<1>5. CASE UNCHANGED packetVars
  BY <1>5 DEF PacketIInv, packetVars, Expected, IsPlain, Encoded
<1> QED BY <1>1, <1>2, <1>3, <1>4, <1>5 DEF PacketNext

LEMMA PacketInvariant == PacketSpec => []PacketIInv
BY PacketInitially, PacketInductive, PTL DEF PacketSpec

(* The game's server reads what the game wrote, with the serial in it where *)
(* it belongs, and the account that GHPServer is told is the one the game's *)
(* server reads: for any names, serials, counters and other bytes.          *)
THEOREM LoginIsDelivered == PacketSpec => []LoginArrives
<1>1. PacketIInv => LoginArrives
  <2> SUFFICES ASSUME PacketIInv, sending.pc = "read"
               PROVE  /\ got = Expected
                      /\ sending.serial # NoSerial => GameLogin = NameIn(got)
    BY DEF LoginArrives, Expected
  <2>1. got = Expected /\ (sending.serial # NoSerial => GameLogin = NameIn(plain))
    BY DEF PacketIInv
  <2> QED BY <2>1, ExpectedIsPlain
<1> QED BY <1>1, PacketInvariant, PTL

=============================================================================
