----------------------------- MODULE PlayerCheck -----------------------------
(***************************************************************************)
(* The check thread of GHPServer (PlayerCheckWorkerThread): once a second  *)
(* it reads the 32-bit millisecond clock, enters the critical section and  *)
(* erases every session whose last ping is too old, while it walks over    *)
(* the vector that it is erasing from.                                     *)
(*                                                                         *)
(* The server thread adds, refreshes and erases sessions under the same    *)
(* lock: it can do so between the moment the clock is read and the moment  *)
(* the lock is entered, and not during the walk.                           *)
(*                                                                         *)
(* "silence" and "fresh" are history variables: they observe how long a    *)
(* session has really been silent, which the code cannot know.             *)
(***************************************************************************)
EXTENDS Naturals, Sequences, SequencesExt, FiniteSets

CONSTANTS
    Guids,      \* sessions that can be registered at the same time
    W,          \* size of the clock: 2^32 ms in the code, a few ticks here
    Timeout,    \* 30000 ms in the code
    MaxLag      \* bound: ticks between two readings of the clock by the check
                \* thread (one second of sleep, the wait for the lock, the walk)

\* The longest any session stays silent in the registry (see SilenceBounded).
MaxSilence == Timeout + MaxLag * (Cardinality(Guids) + 1)

ASSUME CheckAssumption ==
    /\ IsFiniteSet(Guids)
    /\ W \in Nat /\ Timeout \in Nat /\ MaxLag \in Nat \ {0}
    /\ MaxSilence < W

VARIABLES
    clock,      \* timeGetTime()
    players,    \* the registry: guid and lastPing of each session
    check,      \* the check thread: where it is, its "now", its index "i"
    lag,        \* ticks since the check thread read the clock
    silence,    \* ticks since the last ping of each registered session
    fresh       \* sessions added or refreshed since the check thread's "now"

vars == <<clock, players, check, lag, silence, fresh>>

Session == [guid : Guids, lastPing : 0 .. (W - 1)]

TypeOK ==
    /\ clock \in 0 .. (W - 1)
    /\ players \in Seq(Session)
    /\ check \in [pc : {"sleep", "wait", "walk"}, now : 0 .. (W - 1), i : Nat]
    /\ lag \in 0 .. MaxLag
    /\ silence \in [Guids -> Nat]
    /\ fresh \in SUBSET Guids

Slots(g) == {i \in DOMAIN players : players[i].guid = g}
Registered(g) == Slots(g) # {}

Init ==
    /\ clock = 0
    /\ players = <<>>
    /\ check = [pc |-> "sleep", now |-> 0, i |-> 1]
    /\ lag = 0
    /\ silence = [g \in Guids |-> 0]
    /\ fresh = Guids

-----------------------------------------------------------------------------
\* The next reading of timeGetTime.
Later(t) == (t + 1) % W

(* Time passes; the bound says that the check thread is scheduled.         *)
Tick ==
    /\ lag < MaxLag
    /\ clock' = Later(clock)
    /\ lag' = lag + 1
    /\ silence' = [g \in Guids |-> IF Registered(g) THEN silence[g] + 1 ELSE 0]
    /\ UNCHANGED <<players, check, fresh>>

(* The server thread, whenever the check thread is not inside the lock.    *)

\* AddPlayer: the constructor of Player reads the clock under the lock.
AddPlayer(g) ==
    /\ check.pc # "walk" /\ ~Registered(g)
    /\ players' = Append(players, [guid |-> g, lastPing |-> clock])
    /\ silence' = [silence EXCEPT ![g] = 0]
    /\ fresh' = fresh \cup {g}
    /\ UNCHANGED <<clock, check, lag>>

\* Mutant: the answer is accepted and the time of the ping is not stored.
SetPlayerPingForgets(g) ==
    /\ check.pc # "walk" /\ Registered(g)
    /\ silence' = [silence EXCEPT ![g] = 0]
    /\ fresh' = fresh \cup {g}
    /\ UNCHANGED <<clock, players, check, lag>>

\* SetPlayerPingByGUID, after a correct answer to a challenge.
SetPlayerPing(g) ==
    /\ check.pc # "walk"
    /\ \E i \in Slots(g) : players' = [players EXCEPT ![i].lastPing = clock]
    /\ silence' = [silence EXCEPT ![g] = 0]
    /\ fresh' = fresh \cup {g}
    /\ UNCHANGED <<clock, check, lag>>

\* RemovePlayerByGUID, for a disconnection.
Disconnected(g) ==
    /\ check.pc # "walk"
    /\ \E i \in Slots(g) : players' = RemoveAt(players, i)
    /\ UNCHANGED <<clock, check, lag, silence, fresh>>

-----------------------------------------------------------------------------
(* The check thread. *)

\* now = timeGetTime(), before EnterCritical.
ReadClock ==
    /\ check.pc = "sleep"
    /\ check' = [check EXCEPT !.pc = "wait", !.now = clock]
    /\ lag' = 0
    /\ fresh' = {}
    /\ UNCHANGED <<clock, players, silence>>

Enter ==
    /\ check.pc = "wait"
    /\ check' = [check EXCEPT !.pc = "walk", !.i = 1]
    /\ UNCHANGED <<clock, players, lag, silence, fresh>>

\* Mutant: a difference that does not wrap.
SilentUnwrapped(s, now) == now > s.lastPing + Timeout

\* now - lastPing > 30000 in unsigned arithmetic: also true of a ping that is
\* younger than "now".
Silent(s, now) == (W + now - s.lastPing) % W > Timeout

\* One turn of the loop: erase(i) moves the next session to slot i, and the
\* index goes on to i + 1.
Walk ==
    /\ check.pc = "walk" /\ check.i \in DOMAIN players
    /\ check' = [check EXCEPT !.i = @ + 1]
    /\ IF Silent(players[check.i], check.now)
       THEN players' = RemoveAt(players, check.i)
       ELSE UNCHANGED players
    /\ UNCHANGED <<clock, lag, silence, fresh>>

Leave ==
    /\ check.pc = "walk" /\ check.i \notin DOMAIN players
    /\ check' = [check EXCEPT !.pc = "sleep"]
    /\ UNCHANGED <<clock, players, lag, silence, fresh>>

CheckStep == ReadClock \/ Enter \/ Walk \/ Leave

Next ==
    \/ Tick
    \/ \E g \in Guids : AddPlayer(g) \/ SetPlayerPing(g) \/ Disconnected(g)
    \/ CheckStep

Spec == Init /\ [][Next]_vars

-----------------------------------------------------------------------------
Evicts(g) == check.pc = "walk" /\ Registered(g) /\ ~Registered(g)'

\* The check thread erases a session only if it has really been silent for
\* longer than the timeout, or if its ping arrived between the reading of the
\* clock and the lock (in which case the unsigned difference is huge and a
\* live session goes).  In particular the clock's wrap-around evicts nobody.
EvictionHasReason ==
    [][\A g \in Guids : Evicts(g) => silence[g] > Timeout \/ g \in fresh]_vars

\* A session that stays silent is erased after all: every walk can pass over
\* it only because its neighbour was erased, so that it survives at most one
\* walk for each session before it.
SilenceBounded ==
    \A i \in DOMAIN players :
        silence[players[i].guid] <= Timeout + MaxLag * (Cardinality(Guids) + 1)
=============================================================================
