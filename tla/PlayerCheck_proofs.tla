------------------------- MODULE PlayerCheck_proofs -------------------------
(***************************************************************************)
(* Proofs about the check thread, for any number of sessions, any size of  *)
(* the clock, timeout and lag.                                             *)
(*                                                                         *)
(* The invariant relates three clocks without the remainder: a ping and    *)
(* its silence add up to the clock or to one turn more (PingsAge), and so  *)
(* do the thread's "now" and its lag (NowAges).  SilenceBySlot is the      *)
(* argument of SilenceBounded: each walk that passes over a session moves  *)
(* it one slot forward, so that a session in slot i has been passed over   *)
(* Cardinality(Guids) - i times at most since it was due.                  *)
(***************************************************************************)
EXTENDS PlayerCheck, SequenceFacts, FiniteSetTheorems

Most == Cardinality(Guids)

OneSlotEach ==
    \A i, j \in DOMAIN players : players[i].guid = players[j].guid => i = j

PingsAge ==
    \A i \in DOMAIN players :
        players[i].lastPing + silence[players[i].guid] \in {clock, clock + W}

NowAges == check.now + lag \in {clock, clock + W}

\* What was refreshed since "now" is younger than it, the rest is not.
FreshIsYoung ==
    \A i \in DOMAIN players :
        IF players[i].guid \in fresh THEN silence[players[i].guid] <= lag
                                     ELSE lag <= silence[players[i].guid]

IndexInWalk == check.i >= 1

\* The walk is past slot i.
Passed(i) == check.pc = "sleep" \/ (check.pc = "walk" /\ i < check.i)

\* The walks that can pass over a session that is due and in slot i, in ticks.
Walks(i) == MaxLag * (Most - i)

\* The ticks that a session in slot i can have been due for.
Overdue(i) == IF Passed(i) THEN Walks(i) ELSE Walks(i) + MaxLag

SilenceBySlot ==
    \A i \in DOMAIN players : silence[players[i].guid] <= Timeout + Overdue(i) + lag

IInv ==
    /\ TypeOK /\ OneSlotEach /\ PingsAge /\ NowAges /\ FreshIsYoung /\ IndexInWalk
    /\ SilenceBySlot

-----------------------------------------------------------------------------
(* Arithmetic of the bound and of the clock.                               *)

LEMMA Constants ==
    /\ Most \in Nat /\ W \in Nat \ {0} /\ Timeout \in Nat /\ MaxLag \in Nat \ {0}
    /\ Timeout + MaxLag * (Most + 1) < W
<1>1. Most \in Nat
  BY CheckAssumption, FS_CardinalityType DEF Most
<1>2. Timeout + MaxLag * (Most + 1) < W /\ W \in Nat /\ Timeout \in Nat /\ MaxLag \in Nat \ {0}
  BY CheckAssumption DEF MaxSilence, Most
<1>3. MaxLag * (Most + 1) \in Nat
  BY <1>1, <1>2
<1> QED BY <1>1, <1>2, <1>3

LEMMA WalksFacts ==
    /\ \A i \in 0 .. Most : Walks(i) \in Nat
    /\ \A i \in 1 .. Most : Walks(i) + MaxLag = Walks(i - 1)
    /\ \A i, j \in 0 .. Most : i <= j => Walks(j) <= Walks(i)
    /\ Timeout + Walks(0) + MaxLag < W /\ MaxLag < W
<1>1. Most \in Nat /\ W \in Nat /\ Timeout \in Nat /\ MaxLag \in Nat
  BY Constants
<1>2. \A k \in Nat : MaxLag * k \in Nat /\ MaxLag * (k + 1) = MaxLag * k + MaxLag
  BY <1>1
<1>3. \A k, l \in Nat : k <= l => MaxLag * k <= MaxLag * l
  BY <1>1
<1>4. \A i \in 0 .. Most : Most - i \in Nat
  BY <1>1
<1>5. \A i \in 1 .. Most : Most - (i - 1) = (Most - i) + 1 /\ Most - i \in Nat
  BY <1>1
<1>6. \A i, j \in 0 .. Most : i <= j => Most - j <= Most - i
  BY <1>1
<1>7. \A i \in 1 .. Most : Walks(i) + MaxLag = Walks(i - 1)
  BY <1>2, <1>5 DEF Walks
<1>8. Walks(0) + MaxLag = MaxLag * (Most + 1) /\ Walks(0) \in Nat
  BY <1>1, <1>2 DEF Walks
<1>9. Timeout + Walks(0) + MaxLag < W /\ MaxLag < W
  BY <1>1, <1>8, Constants
<1> QED BY <1>2, <1>3, <1>4, <1>6, <1>7, <1>9 DEF Walks

LEMMA LaterFacts ==
    ASSUME NEW t \in 0 .. (W - 1)
    PROVE  Later(t) = IF t + 1 = W THEN 0 ELSE t + 1
<1>1. W \in Nat \ {0}
  BY Constants
<1>2. W % W = 0 /\ \A a \in 0 .. (W - 1) : a % W = a
  BY <1>1
<1> QED BY <1>1, <1>2 DEF Later

\* The unsigned difference of two readings.
LEMMA SilentFacts ==
    ASSUME NEW s \in Session, NEW now \in 0 .. (W - 1)
    PROVE  Silent(s, now) <=>
             (IF s.lastPing <= now THEN now - s.lastPing ELSE W + now - s.lastPing) > Timeout
<1>1. W \in Nat \ {0} /\ s.lastPing \in 0 .. (W - 1)
  BY Constants DEF Session
<1>2. \A a \in 0 .. (W - 1) : a % W = a /\ (W + a) % W = a
  BY <1>1
<1>3. CASE s.lastPing <= now
  <2>1. now - s.lastPing \in 0 .. (W - 1) /\ W + now - s.lastPing = W + (now - s.lastPing)
    BY <1>1, <1>3
  <2> QED BY <1>2, <1>3, <2>1 DEF Silent
<1>4. CASE ~(s.lastPing <= now)
  <2>1. W + now - s.lastPing \in 0 .. (W - 1)
    BY <1>1, <1>4
  <2> QED BY <1>2, <1>4, <2>1 DEF Silent
<1> QED BY <1>3, <1>4

-----------------------------------------------------------------------------
(* The registry.                                                           *)

LEMMA SlotsTyped ==
    ASSUME TypeOK
    PROVE  /\ DOMAIN players = 1 .. Len(players) /\ Len(players) \in Nat
           /\ \A i \in DOMAIN players :
                /\ players[i] \in Session /\ players[i].guid \in Guids
                /\ players[i].lastPing \in 0 .. (W - 1)
                /\ silence[players[i].guid] \in Nat
<1>1. players \in Seq(Session) /\ silence \in [Guids -> Nat]
  BY DEF TypeOK
<1>2. \A i \in DOMAIN players : players[i] \in Session
  BY <1>1
<1> QED BY <1>1, <1>2 DEF Session

\* As many slots as sessions, in any registry.
LEMMA SlotsOf ==
    ASSUME NEW ps \in Seq(Session),
           \A i, j \in DOMAIN ps : ps[i].guid = ps[j].guid => i = j
    PROVE  Len(ps) <= Most
<1>1. DOMAIN ps = 1 .. Len(ps) /\ Len(ps) \in Nat
      /\ \A i \in DOMAIN ps : ps[i].guid \in Guids
  <2>1. \A i \in DOMAIN ps : ps[i] \in Session
    OBVIOUS
  <2> QED BY <2>1 DEF Session
<1> DEFINE guidOf == [i \in 1 .. Len(ps) |-> ps[i].guid]
<1>2. guidOf \in Injection(1 .. Len(ps), Guids)
  BY <1>1 DEF Injection, IsInjective
<1>3. Cardinality(1 .. Len(ps)) = Len(ps)
  BY <1>1, FS_Interval
<1>4. Cardinality(1 .. Len(ps)) <= Cardinality(Guids)
  BY <1>2, CheckAssumption, FS_Injection
<1> QED BY <1>3, <1>4 DEF Most

LEMMA SlotsBounded == TypeOK /\ OneSlotEach => Len(players) <= Most
BY SlotsOf DEF TypeOK, OneSlotEach

\* A session in the registry has been silent for less than a turn of the clock.
LEMMA SilenceIsShort ==
    ASSUME IInv, NEW i \in DOMAIN players
    PROVE  /\ silence[players[i].guid] <= Timeout + Walks(0) + MaxLag
           /\ silence[players[i].guid] < W
<1>1. i \in 1 .. Most /\ silence[players[i].guid] \in Nat
  BY SlotsTyped, SlotsBounded, Constants DEF IInv
<1>2. silence[players[i].guid] <= Timeout + Overdue(i) + lag /\ lag \in 0 .. MaxLag
  BY DEF IInv, SilenceBySlot, TypeOK
<1>3. /\ Walks(i) \in Nat /\ Walks(0) \in Nat
      /\ Walks(i) + MaxLag = Walks(i - 1) /\ Walks(i - 1) <= Walks(0)
  <2>1. i - 1 \in 0 .. Most /\ i \in 0 .. Most /\ 0 \in 0 .. Most /\ 0 <= i - 1
    BY <1>1, Constants
  <2> QED BY <1>1, <2>1, WalksFacts
<1>4. Overdue(i) <= Walks(0) /\ Overdue(i) \in Nat
  BY <1>3, Constants DEF Overdue
<1> QED BY <1>1, <1>2, <1>3, <1>4, Constants, WalksFacts

-----------------------------------------------------------------------------
(* The steps.                                                              *)

LEMMA Parts ==
    IInv => /\ TypeOK /\ OneSlotEach /\ PingsAge /\ NowAges /\ FreshIsYoung
            /\ IndexInWalk /\ SilenceBySlot
BY DEF IInv

LEMMA CheckTyped ==
    ASSUME TypeOK
    PROVE  /\ check.pc \in {"sleep", "wait", "walk"}
           /\ check.now \in 0 .. (W - 1) /\ check.i \in Nat
           /\ clock \in 0 .. (W - 1) /\ lag \in 0 .. MaxLag
BY DEF TypeOK

LEMMA InitIInv == Init => IInv
<1> SUFFICES ASSUME Init PROVE IInv
  OBVIOUS
<1>1. 0 \in 0 .. (W - 1) /\ 0 \in 0 .. MaxLag
  BY Constants
<1>2. players = <<>> /\ DOMAIN players = {} /\ players \in Seq(Session)
  <2>1. <<>> \in Seq(Session) /\ DOMAIN <<>> = {}
    OBVIOUS
  <2> QED BY <2>1 DEF Init
<1>3. TypeOK
  BY <1>1, <1>2 DEF Init, TypeOK
<1>4. OneSlotEach /\ PingsAge /\ FreshIsYoung /\ SilenceBySlot
  BY <1>2 DEF OneSlotEach, PingsAge, FreshIsYoung, SilenceBySlot
<1>5. NowAges /\ IndexInWalk
  BY <1>1 DEF Init, NowAges, IndexInWalk
<1> QED BY <1>3, <1>4, <1>5 DEF IInv

\* Every registered session and the check thread's reading grow older by a tick.
LEMMA TickKeeps ==
    ASSUME IInv, Tick
    PROVE  IInv'
<1>0. /\ TypeOK /\ OneSlotEach /\ PingsAge /\ NowAges /\ FreshIsYoung
      /\ IndexInWalk /\ SilenceBySlot
  BY Parts
<1>1. /\ lag < MaxLag /\ clock' = Later(clock) /\ lag' = lag + 1
      /\ silence' = [g \in Guids |-> IF Registered(g) THEN silence[g] + 1 ELSE 0]
      /\ players' = players /\ check' = check /\ fresh' = fresh
  BY DEF Tick
<1>2. /\ clock \in 0 .. (W - 1) /\ lag \in 0 .. MaxLag /\ W \in Nat \ {0}
      /\ MaxLag \in Nat /\ MaxLag < W /\ check.now \in 0 .. (W - 1)
  BY <1>0, CheckTyped, Constants, WalksFacts
<1>3. clock' = IF clock + 1 = W THEN 0 ELSE clock + 1
  BY <1>1, <1>2, LaterFacts
<1>4. \A i \in DOMAIN players : silence'[players[i].guid] = silence[players[i].guid] + 1
  BY <1>0, <1>1, SlotsTyped DEF Registered, Slots
<1>5. TypeOK'
  <2>1. silence' \in [Guids -> Nat]
    BY <1>0, <1>1 DEF TypeOK
  <2>2. clock' \in 0 .. (W - 1) /\ lag' \in 0 .. MaxLag
    BY <1>1, <1>2, <1>3
  <2> QED BY <1>0, <1>1, <2>1, <2>2 DEF TypeOK
<1>6. OneSlotEach' /\ IndexInWalk'
  BY <1>0, <1>1 DEF OneSlotEach, IndexInWalk
<1>7. PingsAge'
  <2> SUFFICES ASSUME NEW i \in DOMAIN players
               PROVE  players[i].lastPing + (silence[players[i].guid] + 1) \in {clock', clock' + W}
    BY <1>1, <1>4 DEF PingsAge
  <2>1. silence[players[i].guid] \in Nat /\ silence[players[i].guid] < W
        /\ players[i].lastPing \in 0 .. (W - 1)
    BY <1>0, SlotsTyped, SilenceIsShort
  <2>2. players[i].lastPing + silence[players[i].guid] \in {clock, clock + W}
    BY <1>0 DEF PingsAge
  <2> QED BY <1>2, <1>3, <2>1, <2>2
<1>8. NowAges'
  <2>1. check.now + lag \in {clock, clock + W}
    BY <1>0 DEF NowAges
  <2>2. check.now + (lag + 1) \in {clock', clock' + W}
    BY <1>1, <1>2, <1>3, <2>1
  <2> QED BY <1>1, <2>2 DEF NowAges
<1>9. FreshIsYoung'
  <2> SUFFICES ASSUME NEW i \in DOMAIN players
               PROVE  IF players[i].guid \in fresh
                      THEN silence[players[i].guid] + 1 <= lag + 1
                      ELSE lag + 1 <= silence[players[i].guid] + 1
    BY <1>1, <1>4 DEF FreshIsYoung
  <2>1. silence[players[i].guid] \in Nat
    BY <1>0, SlotsTyped
  <2> QED BY <1>0, <1>2, <2>1 DEF FreshIsYoung
<1>10. SilenceBySlot'
  <2> SUFFICES ASSUME NEW i \in DOMAIN players
               PROVE  silence[players[i].guid] + 1 <= Timeout + Overdue(i) + (lag + 1)
    BY <1>1, <1>4 DEF SilenceBySlot, Overdue, Passed, Walks
  <2>1. silence[players[i].guid] \in Nat /\ i \in 0 .. Most
    BY <1>0, SlotsTyped, SlotsBounded, Constants
  <2>2. Overdue(i) \in Nat
    BY <2>1, WalksFacts, Constants DEF Overdue
  <2> QED BY <1>0, <1>2, <2>1, <2>2, Constants DEF SilenceBySlot
<1> QED BY <1>5, <1>6, <1>7, <1>8, <1>9, <1>10 DEF IInv

\* A session comes last, with no silence.
LEMMA AddPlayerKeeps ==
    ASSUME IInv, NEW g \in Guids, AddPlayer(g)
    PROVE  IInv'
<1>0. /\ TypeOK /\ OneSlotEach /\ PingsAge /\ NowAges /\ FreshIsYoung
      /\ IndexInWalk /\ SilenceBySlot
  BY Parts
<1> DEFINE new == [guid |-> g, lastPing |-> clock]
<1>1. /\ ~Registered(g) /\ players' = Append(players, new)
      /\ silence' = [silence EXCEPT ![g] = 0] /\ fresh' = fresh \cup {g}
      /\ clock' = clock /\ check' = check /\ lag' = lag /\ check.pc # "walk"
  BY DEF AddPlayer
<1>2. /\ clock \in 0 .. (W - 1) /\ lag \in 0 .. MaxLag /\ W \in Nat \ {0} /\ MaxLag \in Nat
  BY <1>0, CheckTyped, Constants
<1>3. new \in Session /\ new.guid = g /\ new.lastPing = clock
  BY <1>2 DEF Session
<1>4. PICK n :
      /\ n = Len(players) + 1
      /\ players' \in Seq(Session) /\ Len(players') = n
      /\ DOMAIN players' = DOMAIN players \cup {n}
      /\ n \notin DOMAIN players /\ n \in Nat
      /\ players'[n] = new
      /\ \A i \in DOMAIN players : players'[i] = players[i] /\ players[i].guid # g
  <2>1. players \in Seq(Session)
    BY <1>0 DEF TypeOK
  <2>2. \A i \in DOMAIN players : players[i].guid # g
    BY <1>1 DEF Registered, Slots
  <2> QED BY <1>1, <1>3, <2>1, <2>2
<1> HIDE DEF new
<1>5. silence'[g] = 0 /\ \A h \in Guids \ {g} : silence'[h] = silence[h]
  BY <1>0, <1>1 DEF TypeOK
<1>6. \A i \in DOMAIN players : silence'[players[i].guid] = silence[players[i].guid]
  BY <1>0, <1>4, <1>5, SlotsTyped
<1>7. TypeOK'
  <2>1. silence' \in [Guids -> Nat] /\ fresh' \in SUBSET Guids
    BY <1>0, <1>1 DEF TypeOK
  <2> QED BY <1>0, <1>1, <1>4, <2>1 DEF TypeOK
<1>8. OneSlotEach' /\ IndexInWalk' /\ NowAges'
  BY <1>0, <1>1, <1>3, <1>4 DEF OneSlotEach, IndexInWalk, NowAges
<1>9. PingsAge'
  BY <1>0, <1>1, <1>2, <1>3, <1>4, <1>5, <1>6 DEF PingsAge
<1>10. FreshIsYoung'
  BY <1>0, <1>1, <1>2, <1>3, <1>4, <1>5, <1>6 DEF FreshIsYoung
<1>11. SilenceBySlot'
  <2>1. n <= Most
    BY <1>4, <1>8, SlotsOf DEF OneSlotEach
  <2>2. n \in 0 .. Most
    BY <1>4, <2>1, Constants
  <2>3. Overdue(n)' \in Nat
    BY <2>2, WalksFacts, Constants DEF Overdue, Passed, Walks
  <2>4. silence'[players'[n].guid] <= Timeout + Overdue(n)' + lag'
    BY <1>1, <1>2, <1>3, <1>4, <1>5, <2>3, Constants
  <2>5. \A i \in DOMAIN players : silence'[players'[i].guid] <= Timeout + Overdue(i)' + lag'
    BY <1>0, <1>1, <1>4, <1>6 DEF SilenceBySlot, Overdue, Passed, Walks
  <2> QED BY <1>4, <2>4, <2>5 DEF SilenceBySlot
<1> QED BY <1>7, <1>8, <1>9, <1>10, <1>11 DEF IInv

\* A correct answer: the session of the guid is as young as can be.
LEMMA SetPlayerPingKeeps ==
    ASSUME IInv, NEW g \in Guids, SetPlayerPing(g)
    PROVE  IInv'
<1>0. /\ TypeOK /\ OneSlotEach /\ PingsAge /\ NowAges /\ FreshIsYoung
      /\ IndexInWalk /\ SilenceBySlot
  BY Parts
<1>1. PICK k \in DOMAIN players :
        players[k].guid = g /\ players' = [players EXCEPT ![k].lastPing = clock]
  BY DEF SetPlayerPing, Slots
<1>2. /\ silence' = [silence EXCEPT ![g] = 0] /\ fresh' = fresh \cup {g}
      /\ clock' = clock /\ check' = check /\ lag' = lag
  BY DEF SetPlayerPing
<1>3. /\ clock \in 0 .. (W - 1) /\ lag \in 0 .. MaxLag /\ W \in Nat \ {0} /\ MaxLag \in Nat
  BY <1>0, CheckTyped, Constants
<1> DEFINE e == [players[k] EXCEPT !.lastPing = clock]
<1>4. e \in Session /\ e.guid = g /\ e.lastPing = clock
  BY <1>0, <1>1, <1>3, SlotsTyped DEF Session
<1>5. players' = [players EXCEPT ![k] = e]
  BY <1>1
<1> HIDE DEF e
<1>6. /\ players' \in Seq(Session) /\ DOMAIN players' = DOMAIN players
      /\ players'[k] = e
      /\ \A i \in DOMAIN players \ {k} : players'[i] = players[i] /\ players[i].guid # g
  <2>1. players \in Seq(Session)
    BY <1>0 DEF TypeOK
  <2>2. \A i \in DOMAIN players \ {k} : players[i].guid # g
    BY <1>0, <1>1 DEF OneSlotEach
  <2> QED BY <1>4, <1>5, <2>1, <2>2
<1>7. silence'[g] = 0 /\ \A h \in Guids \ {g} : silence'[h] = silence[h]
  BY <1>0, <1>2 DEF TypeOK
<1>8. \A i \in DOMAIN players : players'[i].guid = players[i].guid
  BY <1>1, <1>4, <1>6
<1>9. \A i \in DOMAIN players \ {k} :
        silence'[players'[i].guid] = silence[players[i].guid]
  BY <1>0, <1>6, <1>7, <1>8, SlotsTyped
<1>10. TypeOK'
  <2>1. silence' \in [Guids -> Nat] /\ fresh' \in SUBSET Guids
    BY <1>0, <1>2 DEF TypeOK
  <2> QED BY <1>0, <1>2, <1>6, <2>1 DEF TypeOK
<1>11. OneSlotEach' /\ IndexInWalk' /\ NowAges'
  BY <1>0, <1>2, <1>6, <1>8 DEF OneSlotEach, IndexInWalk, NowAges
<1>12. PingsAge'
  BY <1>0, <1>2, <1>3, <1>4, <1>6, <1>7, <1>9 DEF PingsAge
<1>13. FreshIsYoung'
  BY <1>0, <1>2, <1>3, <1>4, <1>6, <1>7, <1>9 DEF FreshIsYoung
<1>14. SilenceBySlot'
  <2>1. k \in 0 .. Most
    BY <1>0, SlotsTyped, SlotsBounded, Constants
  <2>2. Overdue(k)' \in Nat
    BY <2>1, WalksFacts, Constants DEF Overdue, Passed, Walks
  <2>3. silence'[players'[k].guid] <= Timeout + Overdue(k)' + lag'
    BY <1>2, <1>3, <1>4, <1>6, <1>7, <2>2, Constants
  <2>4. \A i \in DOMAIN players \ {k} :
          silence'[players'[i].guid] <= Timeout + Overdue(i)' + lag'
    BY <1>0, <1>2, <1>9 DEF SilenceBySlot, Overdue, Passed, Walks
  <2> QED BY <1>6, <2>3, <2>4 DEF SilenceBySlot
<1> QED BY <1>10, <1>11, <1>12, <1>13, <1>14 DEF IInv

\* Erasing a slot moves the slots behind it one forward.
OldSlot(k, j) == IF j < k THEN j ELSE j + 1

LEMMA ErasedSlots ==
    ASSUME TypeOK, NEW k \in DOMAIN players, players' = RemoveAt(players, k)
    PROVE  /\ players' \in Seq(Session)
           /\ DOMAIN players' = 1 .. (Len(players) - 1)
           /\ \A j \in DOMAIN players' :
                /\ OldSlot(k, j) \in DOMAIN players \ {k}
                /\ players'[j] = players[OldSlot(k, j)]
           /\ \A i, j \in DOMAIN players' : OldSlot(k, i) = OldSlot(k, j) => i = j
           /\ \A i \in DOMAIN players \ {k} :
                \E j \in DOMAIN players' : OldSlot(k, j) = i
<1>1. DOMAIN players = 1 .. Len(players) /\ Len(players) \in Nat /\ players \in Seq(Session)
  BY SlotsTyped DEF TypeOK
<1>2. /\ players' \in Seq(Session)
      /\ DOMAIN players' = 1 .. (Len(players) - 1)
      /\ \A j \in DOMAIN players' :
            players'[j] = IF j < k THEN players[j] ELSE players[j + 1]
  BY <1>1, RemoveAtElements
<1>3. ASSUME NEW i \in DOMAIN players \ {k}
      PROVE  \E j \in DOMAIN players' : OldSlot(k, j) = i
  <2>1. CASE i < k
    BY <1>1, <1>2, <2>1 DEF OldSlot
  <2>2. CASE k < i
    <3>1. i - 1 \in DOMAIN players' /\ ~(i - 1 < k) /\ (i - 1) + 1 = i
      BY <1>1, <1>2, <2>2
    <3> QED BY <3>1 DEF OldSlot
  <2> QED BY <1>1, <2>1, <2>2
<1> QED BY <1>1, <1>2, <1>3 DEF OldSlot

\* What a session erased from the registry leaves as it was.
LEMMA ErasingKeeps ==
    ASSUME IInv, NEW k \in DOMAIN players, players' = RemoveAt(players, k),
           UNCHANGED <<clock, lag, silence, fresh>>
    PROVE  OneSlotEach' /\ PingsAge' /\ FreshIsYoung'
<1>0. TypeOK /\ OneSlotEach /\ PingsAge /\ FreshIsYoung
  BY Parts
<1>1. \A j \in DOMAIN players' :
        /\ OldSlot(k, j) \in DOMAIN players /\ players'[j] = players[OldSlot(k, j)]
  BY <1>0, ErasedSlots
<1>2. \A i, j \in DOMAIN players' : OldSlot(k, i) = OldSlot(k, j) => i = j
  BY <1>0, ErasedSlots
<1>3. OneSlotEach'
  <2> SUFFICES ASSUME NEW i \in DOMAIN players', NEW j \in DOMAIN players',
                      players'[i].guid = players'[j].guid
               PROVE  i = j
    BY DEF OneSlotEach
  <2>1. OldSlot(k, i) = OldSlot(k, j)
    BY <1>0, <1>1 DEF OneSlotEach
  <2> QED BY <1>2, <2>1
<1>4. PingsAge'
  BY <1>0, <1>1 DEF PingsAge
<1>5. FreshIsYoung'
  BY <1>0, <1>1 DEF FreshIsYoung
<1> QED BY <1>3, <1>4, <1>5

\* A slot further in front may be due for longer.
LEMMA OverdueFacts ==
    ASSUME NEW i \in 1 .. Most
    PROVE  /\ Walks(i) \in Nat /\ Walks(i) + MaxLag = Walks(i - 1)
           /\ i + 1 <= Most => Walks(i + 1) + MaxLag = Walks(i)
           /\ Walks(i) <= Overdue(i) /\ Overdue(i) <= Walks(i) + MaxLag
<1>1. Most \in Nat /\ MaxLag \in Nat
  BY Constants
<1>2. Walks(i) \in Nat /\ Walks(i) + MaxLag = Walks(i - 1)
  BY <1>1, WalksFacts
<1>3. i + 1 <= Most => Walks(i + 1) + MaxLag = Walks(i)
  <2> HAVE i + 1 <= Most
  <2>1. i + 1 \in 1 .. Most /\ (i + 1) - 1 = i
    BY <1>1
  <2> QED BY <2>1, WalksFacts
<1> QED BY <1>1, <1>2, <1>3 DEF Overdue

LEMMA DisconnectedKeeps ==
    ASSUME IInv, NEW g \in Guids, Disconnected(g)
    PROVE  IInv'
<1>0. TypeOK /\ OneSlotEach /\ NowAges /\ IndexInWalk /\ SilenceBySlot
  BY Parts
<1>1. PICK k \in DOMAIN players : players' = RemoveAt(players, k)
  BY DEF Disconnected, Slots
<1>2. /\ clock' = clock /\ check' = check /\ lag' = lag /\ silence' = silence
      /\ fresh' = fresh /\ check.pc # "walk"
  BY DEF Disconnected
<1>3. OneSlotEach' /\ PingsAge' /\ FreshIsYoung'
  BY <1>1, <1>2, ErasingKeeps
<1>4. TypeOK'
  <2>1. players' \in Seq(Session)
    BY <1>0, <1>1, ErasedSlots
  <2> QED BY <1>0, <1>2, <2>1 DEF TypeOK
<1>5. NowAges' /\ IndexInWalk'
  BY <1>0, <1>2 DEF NowAges, IndexInWalk
<1>6. SilenceBySlot'
  <2> SUFFICES ASSUME NEW j \in DOMAIN players'
               PROVE  silence[players'[j].guid] <= Timeout + Overdue(j)' + lag
    BY <1>2 DEF SilenceBySlot
  <2> DEFINE i == OldSlot(k, j)
  <2>1. /\ i \in DOMAIN players /\ players'[j] = players[i] /\ j \in Nat \ {0}
        /\ i \in {j, j + 1}
    <3>1. i \in DOMAIN players /\ players'[j] = players[i]
      BY <1>0, <1>1, ErasedSlots
    <3>2. j \in 1 .. (Len(players) - 1)
      BY <1>0, <1>1, ErasedSlots
    <3>3. j \in Nat \ {0} /\ i \in {j, j + 1}
      BY <1>0, <3>2, SlotsTyped DEF OldSlot
    <3> QED BY <3>1, <3>3
  <2>2. i \in 1 .. Most /\ j \in 1 .. Most
    BY <1>0, <2>1, SlotsTyped, SlotsBounded, Constants
  <2>3. silence[players[i].guid] <= Timeout + Overdue(i) + lag
        /\ silence[players[i].guid] \in Nat /\ lag \in Nat
    BY <1>0, <2>1, SlotsTyped, CheckTyped, Constants DEF SilenceBySlot
  <2>4. Walks(i) <= Walks(j) /\ Walks(i) \in Nat /\ Walks(j) \in Nat
    BY <2>1, <2>2, OverdueFacts, Constants
  <2>5. Overdue(j)' = (IF check.pc = "sleep" THEN Walks(j) ELSE Walks(j) + MaxLag)
        /\ Overdue(i) = (IF check.pc = "sleep" THEN Walks(i) ELSE Walks(i) + MaxLag)
    BY <1>2 DEF Overdue, Passed, Walks
  <2> QED BY <2>1, <2>3, <2>4, <2>5, Constants
<1> QED BY <1>3, <1>4, <1>5, <1>6 DEF IInv

\* The thread sleeps: the slots it passed are due for one walk more from now on.
LEMMA ReadClockKeeps ==
    ASSUME IInv, ReadClock
    PROVE  IInv'
<1>0. /\ TypeOK /\ OneSlotEach /\ PingsAge /\ NowAges /\ FreshIsYoung
      /\ IndexInWalk /\ SilenceBySlot
  BY Parts
<1>1. /\ check.pc = "sleep" /\ check' = [check EXCEPT !.pc = "wait", !.now = clock]
      /\ lag' = 0 /\ fresh' = {} /\ clock' = clock /\ players' = players
      /\ silence' = silence
  BY DEF ReadClock
<1>2. /\ check' \in [pc : {"sleep", "wait", "walk"}, now : 0 .. (W - 1), i : Nat]
      /\ check'.pc = "wait" /\ check'.now = clock /\ check'.i = check.i
  BY <1>0, <1>1 DEF TypeOK
<1>3. TypeOK'
  BY <1>0, <1>1, <1>2, Constants DEF TypeOK
<1>4. OneSlotEach' /\ PingsAge' /\ IndexInWalk' /\ FreshIsYoung'
  BY <1>0, <1>1, <1>2, SlotsTyped DEF OneSlotEach, PingsAge, IndexInWalk, FreshIsYoung
<1>5. NowAges'
  BY <1>0, <1>1, <1>2, CheckTyped, Constants DEF NowAges
<1>6. SilenceBySlot'
  <2> SUFFICES ASSUME NEW i \in DOMAIN players
               PROVE  silence[players[i].guid] <= Timeout + Overdue(i)' + 0
    BY <1>1 DEF SilenceBySlot
  <2>1. i \in 1 .. Most
    BY <1>0, SlotsTyped, SlotsBounded, Constants
  <2>2. silence[players[i].guid] <= Timeout + Overdue(i) + lag
        /\ silence[players[i].guid] \in Nat /\ lag \in 0 .. MaxLag
    BY <1>0, SlotsTyped, CheckTyped DEF SilenceBySlot
  <2>3. Overdue(i)' = Walks(i) + MaxLag /\ Overdue(i) = Walks(i) /\ Walks(i) \in Nat
    BY <1>1, <1>2, <2>1, OverdueFacts DEF Overdue, Passed, Walks
  <2> QED BY <2>2, <2>3, Constants
<1> QED BY <1>3, <1>4, <1>5, <1>6 DEF IInv

\* The walk begins at the first slot, and ends behind the last one.
LEMMA EnterLeaveKeep ==
    ASSUME IInv, Enter \/ Leave
    PROVE  IInv'
<1>0. /\ TypeOK /\ OneSlotEach /\ PingsAge /\ NowAges /\ FreshIsYoung
      /\ IndexInWalk /\ SilenceBySlot
  BY Parts
<1>1. /\ lag' = lag /\ fresh' = fresh /\ clock' = clock /\ players' = players
      /\ silence' = silence
  BY DEF Enter, Leave
<1>2. /\ check' \in [pc : {"sleep", "wait", "walk"}, now : 0 .. (W - 1), i : Nat]
      /\ check'.now = check.now /\ check'.i >= 1
      /\ \/ check.pc = "wait" /\ check'.pc = "walk" /\ check'.i = 1
         \/ check.pc = "walk" /\ check'.pc = "sleep" /\ check.i \notin DOMAIN players
  <2>1. check \in [pc : {"sleep", "wait", "walk"}, now : 0 .. (W - 1), i : Nat] /\ check.i >= 1
    BY <1>0 DEF TypeOK, IndexInWalk
  <2>2. CASE Enter
    <3>1. check.pc = "wait" /\ check' = [check EXCEPT !.pc = "walk", !.i = 1]
      BY <2>2 DEF Enter
    <3>2. check' = [pc |-> "walk", now |-> check.now, i |-> 1]
      BY <2>1, <3>1
    <3>3. check.now \in 0 .. (W - 1) /\ 1 \in Nat
      BY <2>1
    <3>4. check' \in [pc : {"sleep", "wait", "walk"}, now : 0 .. (W - 1), i : Nat]
      BY <3>2, <3>3
    <3> QED BY <3>1, <3>2, <3>4
  <2>3. CASE Leave
    <3>1. /\ check.pc = "walk" /\ check.i \notin DOMAIN players
          /\ check' = [check EXCEPT !.pc = "sleep"]
      BY <2>3 DEF Leave
    <3> QED BY <2>1, <3>1
  <2> QED BY <2>2, <2>3
<1>3. TypeOK'
  BY <1>0, <1>1, <1>2 DEF TypeOK
<1>4. OneSlotEach' /\ PingsAge' /\ IndexInWalk' /\ FreshIsYoung' /\ NowAges'
  BY <1>0, <1>1, <1>2 DEF OneSlotEach, PingsAge, IndexInWalk, FreshIsYoung, NowAges
<1>5. \A i \in DOMAIN players : Passed(i)' <=> Passed(i)
  BY <1>0, <1>1, <1>2, SlotsTyped, CheckTyped DEF Passed, IndexInWalk
<1>6. SilenceBySlot'
  BY <1>0, <1>1, <1>5 DEF SilenceBySlot, Overdue, Walks
<1> QED BY <1>3, <1>4, <1>6 DEF IInv

\* What the unsigned difference says of a session that was not refreshed since
\* "now": how long it had been silent then.
LEMMA SilentIsSilence ==
    ASSUME IInv, NEW i \in DOMAIN players, players[i].guid \notin fresh
    PROVE  Silent(players[i], check.now) <=> silence[players[i].guid] - lag > Timeout
<1> DEFINE s == players[i]  h == silence[s.guid]
<1>1. /\ s \in Session /\ s.lastPing \in 0 .. (W - 1) /\ check.now \in 0 .. (W - 1)
      /\ h \in Nat /\ lag \in 0 .. MaxLag /\ clock \in 0 .. (W - 1) /\ W \in Nat \ {0}
      /\ MaxLag \in Nat /\ Timeout \in Nat
  BY Parts, SlotsTyped, CheckTyped, Constants
<1>2. /\ s.lastPing + h \in {clock, clock + W} /\ check.now + lag \in {clock, clock + W}
      /\ lag <= h /\ h < W
  BY Parts, SilenceIsShort DEF PingsAge, NowAges, FreshIsYoung
<1>3. Silent(s, check.now) <=>
        (IF s.lastPing <= check.now THEN check.now - s.lastPing
                                    ELSE W + check.now - s.lastPing) > Timeout
  BY <1>1, SilentFacts
<1> HIDE DEF s, h
<1>4. (IF s.lastPing <= check.now THEN check.now - s.lastPing
                                  ELSE W + check.now - s.lastPing) = h - lag
  BY <1>1, <1>2
<1>5. Silent(s, check.now) <=> h - lag > Timeout
  BY <1>3, <1>4
<1> QED BY <1>5 DEF s, h

\* One turn of the loop.  A session that is let pass is young enough; one that
\* moves into a slot behind the index had one slot less to go.
LEMMA WalkKeeps ==
    ASSUME IInv, Walk
    PROVE  IInv'
<1>0. /\ TypeOK /\ OneSlotEach /\ PingsAge /\ NowAges /\ FreshIsYoung
      /\ IndexInWalk /\ SilenceBySlot
  BY Parts
<1>1. PICK c : c = check.i
  OBVIOUS
<1>2. /\ check.pc = "walk" /\ c \in DOMAIN players
      /\ check' = [check EXCEPT !.i = @ + 1]
      /\ lag' = lag /\ fresh' = fresh /\ clock' = clock /\ silence' = silence
  BY <1>1 DEF Walk
<1>3. /\ check' \in [pc : {"sleep", "wait", "walk"}, now : 0 .. (W - 1), i : Nat]
      /\ check'.now = check.now /\ check'.i = c + 1 /\ check'.pc = "walk"
      /\ c \in Nat /\ c >= 1
  BY <1>0, <1>1, <1>2, SlotsTyped DEF TypeOK
<1>4. NowAges' /\ IndexInWalk'
  BY <1>0, <1>2, <1>3 DEF NowAges, IndexInWalk
<1>5. /\ \A i \in Nat : Overdue(i) = IF i < c THEN Walks(i) ELSE Walks(i) + MaxLag
      /\ \A i \in Nat : Overdue(i)' = IF i < c + 1 THEN Walks(i) ELSE Walks(i) + MaxLag
  BY <1>1, <1>2, <1>3 DEF Overdue, Passed, Walks
<1>6. lag \in Nat /\ lag <= MaxLag /\ MaxLag \in Nat /\ Timeout \in Nat /\ Most \in Nat
  BY <1>0, CheckTyped, Constants
<1>7. CASE Silent(players[c], check.now)
  <2>1. players' = RemoveAt(players, c)
    BY <1>1, <1>7 DEF Walk
  <2>2. OneSlotEach' /\ PingsAge' /\ FreshIsYoung'
    BY <1>2, <2>1, ErasingKeeps
  <2>3. TypeOK'
    <3>1. players' \in Seq(Session)
      BY <1>0, <1>2, <2>1, ErasedSlots
    <3> QED BY <1>0, <1>2, <1>3, <3>1 DEF TypeOK
  <2>4. SilenceBySlot'
    <3> SUFFICES ASSUME NEW j \in DOMAIN players'
                 PROVE  silence[players'[j].guid] <= Timeout + Overdue(j)' + lag
      BY <1>2 DEF SilenceBySlot
    <3>1. PICK i : i = OldSlot(c, j)
      OBVIOUS
    <3>2. /\ i \in DOMAIN players /\ i # c /\ players'[j] = players[i] /\ j \in Nat \ {0}
          /\ i = IF j < c THEN j ELSE j + 1
      <4>1. OldSlot(c, j) \in DOMAIN players \ {c} /\ players'[j] = players[OldSlot(c, j)]
        BY <1>0, <1>2, <2>1, ErasedSlots
      <4>2. j \in 1 .. (Len(players) - 1)
        BY <1>0, <1>2, <2>1, ErasedSlots
      <4>3. j \in Nat \ {0}
        BY <1>0, <4>2, SlotsTyped
      <4> QED BY <3>1, <4>1, <4>3 DEF OldSlot
    <3>3. i \in 1 .. Most /\ j \in 1 .. Most
      BY <1>0, <3>2, SlotsTyped, SlotsBounded, Constants
    <3>4. silence[players[i].guid] <= Timeout + Overdue(i) + lag
          /\ silence[players[i].guid] \in Nat
      BY <1>0, <3>2, SlotsTyped DEF SilenceBySlot
    <3>5. Walks(i) \in Nat /\ Walks(j) \in Nat /\ (j + 1 <= Most => Walks(j + 1) + MaxLag = Walks(j))
      BY <3>3, OverdueFacts
    <3>6. Overdue(i) <= Overdue(j)'
      BY <1>3, <1>5, <1>6, <3>2, <3>3, <3>5
    <3>7. Overdue(i) \in Nat /\ Overdue(j)' \in Nat
      BY <1>5, <1>6, <3>2, <3>3, <3>5
    <3> QED BY <1>6, <3>2, <3>4, <3>6, <3>7
  <2> QED BY <1>4, <2>2, <2>3, <2>4 DEF IInv
<1>8. CASE ~Silent(players[c], check.now)
  <2>1. players' = players
    BY <1>1, <1>8 DEF Walk
  <2>2. OneSlotEach' /\ PingsAge' /\ FreshIsYoung'
    BY <1>0, <1>2, <2>1 DEF OneSlotEach, PingsAge, FreshIsYoung
  <2>3. TypeOK'
    BY <1>0, <1>2, <1>3, <2>1 DEF TypeOK
  <2>4. silence[players[c].guid] <= Timeout + lag
    <3>1. silence[players[c].guid] \in Nat
      BY <1>0, <1>2, SlotsTyped
    <3>2. CASE players[c].guid \in fresh
      BY <1>0, <1>2, <1>6, <3>1, <3>2 DEF FreshIsYoung
    <3>3. CASE players[c].guid \notin fresh
      BY <1>2, <1>6, <1>8, <3>1, <3>3, SilentIsSilence
    <3> QED BY <3>2, <3>3
  <2>5. SilenceBySlot'
    <3> SUFFICES ASSUME NEW j \in DOMAIN players
                 PROVE  silence[players[j].guid] <= Timeout + Overdue(j)' + lag
      BY <1>2, <2>1 DEF SilenceBySlot
    <3>1. j \in 1 .. Most /\ silence[players[j].guid] \in Nat
      BY <1>0, SlotsTyped, SlotsBounded, Constants
    <3>2. Walks(j) \in Nat
      BY <3>1, OverdueFacts
    <3>3. CASE j = c
      BY <1>5, <1>6, <2>4, <3>1, <3>2, <3>3
    <3>4. CASE j # c
      <4>1. Overdue(j)' = Overdue(j)
        BY <1>3, <1>5, <3>1, <3>4
      <4> QED BY <1>0, <4>1 DEF SilenceBySlot
    <3> QED BY <3>3, <3>4
  <2> QED BY <1>4, <2>2, <2>3, <2>5 DEF IInv
<1> QED BY <1>7, <1>8

LEMMA IInvStep == IInv /\ [Next]_vars => IInv'
<1> SUFFICES ASSUME IInv, [Next]_vars PROVE IInv'
  OBVIOUS
<1>1. CASE UNCHANGED vars
  BY <1>1 DEF vars, IInv, TypeOK, OneSlotEach, PingsAge, NowAges, FreshIsYoung, IndexInWalk,
              SilenceBySlot, Overdue, Passed, Walks
<1>2. CASE Tick
  BY <1>2, TickKeeps
<1>3. ASSUME NEW g \in Guids, AddPlayer(g) \/ SetPlayerPing(g) \/ Disconnected(g)
      PROVE  IInv'
  BY <1>3, AddPlayerKeeps, SetPlayerPingKeeps, DisconnectedKeeps
<1>4. CASE CheckStep
  BY <1>4, ReadClockKeeps, EnterLeaveKeep, WalkKeeps DEF CheckStep
<1> QED BY <1>1, <1>2, <1>3, <1>4 DEF Next

LEMMA Invariance == Spec => []IInv
BY InitIInv, IInvStep, PTL DEF Spec

\* The variables of the check thread stay in their ranges.
THEOREM TypeCorrect == Spec => []TypeOK
<1>1. IInv => TypeOK
  BY DEF IInv
<1> QED BY Invariance, <1>1, PTL

\* PlayerCheckWorkerThread (ServerCore.cpp) reaches every silent session, though
\* its loop passes over the one behind each that it erases: the silence of a
\* session is bounded, for any number of sessions.
THEOREM SilentAreErased == Spec => []SilenceBounded
<1>1. IInv => SilenceBounded
  <2> SUFFICES ASSUME IInv, NEW i \in DOMAIN players
               PROVE  silence[players[i].guid] <= Timeout + MaxLag * (Most + 1)
    BY DEF SilenceBounded, Most
  <2>1. silence[players[i].guid] <= Timeout + Walks(0) + MaxLag
    BY SilenceIsShort
  <2>2. Walks(0) + MaxLag = MaxLag * (Most + 1) /\ Walks(0) \in Nat
    <3>1. Most \in Nat /\ MaxLag \in Nat
      BY Constants
    <3> QED BY <3>1 DEF Walks
  <2> QED BY <2>1, <2>2, Constants
<1> QED BY Invariance, <1>1, PTL

LEMMA EvictionStep ==
    ASSUME IInv, [Next]_vars, NEW g \in Guids, Evicts(g)
    PROVE  silence[g] > Timeout \/ g \in fresh
<1>1. check.pc = "walk" /\ Registered(g) /\ ~Registered(g)'
  BY DEF Evicts
<1>2. players' # players
  BY <1>1 DEF Registered, Slots
<1>3. Walk
  BY <1>1, <1>2 DEF Next, CheckStep, Tick, AddPlayer, SetPlayerPing, Disconnected, ReadClock,
                    Enter, Leave, vars
<1> DEFINE c == check.i
<1>4. c \in DOMAIN players /\ Silent(players[c], check.now) /\ players' = RemoveAt(players, c)
  BY <1>2, <1>3 DEF Walk
<1>5. PICK i \in DOMAIN players : players[i].guid = g
  BY <1>1 DEF Registered, Slots
<1>6. i = c
  <2> SUFFICES ASSUME i # c PROVE FALSE
    OBVIOUS
  <2>1. PICK j \in DOMAIN players' : OldSlot(c, j) = i
    BY <1>4, <1>5, Parts, ErasedSlots
  <2>2. players'[j] = players[i]
    BY <1>4, <2>1, Parts, ErasedSlots
  <2>3. Registered(g)'
    BY <1>5, <2>1, <2>2 DEF Registered, Slots
  <2> QED BY <1>1, <2>3
<1>7. g \notin fresh => silence[g] - lag > Timeout
  BY <1>4, <1>5, <1>6, SilentIsSilence
<1>8. silence[g] \in Nat /\ lag \in Nat /\ Timeout \in Nat
  BY Parts, CheckTyped, Constants DEF TypeOK
<1> QED BY <1>7, <1>8

\* The thread erases nobody but for a silence above the timeout, or for a ping
\* that came between the reading of the clock and EnterCritical; that the clock
\* wraps around makes no difference.
THEOREM ErasureHasReason == Spec => EvictionHasReason
<1>1. IInv /\ [Next]_vars =>
        [\A g \in Guids : Evicts(g) => silence[g] > Timeout \/ g \in fresh]_vars
  BY EvictionStep
<1> QED BY Invariance, <1>1, PTL DEF Spec, EvictionHasReason
=============================================================================
