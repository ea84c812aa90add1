----------------------------- MODULE PingVerify -----------------------------
(***************************************************************************)
(* How a client proves that it is alive.  Every five seconds it sends      *)
(* PCK_PING; the server answers with a challenge (PCK_VERIFY), which it    *)
(* keeps in the session, and the client returns it decoded                 *)
(* (PCK_VERIFY_RET).  Only an answer that equals the challenge kept last   *)
(* refreshes the session (SetPlayerPingByGUID): a session keeps one        *)
(* challenge, and every ping replaces it.                                  *)
(*                                                                         *)
(* One unit of time is one second.  The challenge is drawn after           *)
(* srand(time(0)), so it is a function of the second it is drawn in, and   *)
(* the model names it by that second.  RakNet delivers in order            *)
(* (RELIABLE_ORDERED) and takes at most MaxDelay, in which the wait for    *)
(* the receiving thread is included.                                       *)
(***************************************************************************)
EXTENDS Naturals, Sequences

CONSTANTS
    Period,     \* seconds between two pings: 5 in the code
    MaxDelay,   \* bound: seconds a message takes
    W           \* bound: seconds are counted modulo W

\* The longest a live client stays unheard on a fast enough network.
Unheard == Period + 3 * MaxDelay

ASSUME PingAssumption ==
    /\ Period \in Nat \ {0} /\ MaxDelay \in Nat
    /\ W \in Nat /\ 2 * Unheard < W

VARIABLES
    now,        \* the second
    since,      \* seconds since the client's last ping
    up,         \* messages on their way to the server
    down,       \* messages on their way to the client
    challenge,  \* ping_data of the session: the second it was drawn in
    silent      \* seconds since the session was refreshed, up to Unheard + 1

pingVars == <<now, since, up, down, challenge, silent>>

Second == 0 .. (W - 1)
Message == [kind : {"ping", "verify", "verify_ret"}, data : Second, age : 0 .. MaxDelay]

PingTypeOK ==
    /\ now \in Second
    /\ since \in 0 .. Period
    /\ up \in Seq(Message) /\ down \in Seq(Message)
    /\ challenge \in Second
    /\ silent \in 0 .. (Unheard + 1)

\* The session is registered, and the client has just sent a ping.
PingInit ==
    /\ now = 0
    /\ since = 0
    /\ up = <<[kind |-> "ping", data |-> 0, age |-> 0]>>
    /\ down = <<>>
    /\ challenge = W - 1
    /\ silent = 0

-----------------------------------------------------------------------------
Older(ms) == [i \in DOMAIN ms |-> [ms[i] EXCEPT !.age = @ + 1]]

Due(ms) == \E i \in DOMAIN ms : ms[i].age = MaxDelay

Msg(kind, data) == [kind |-> kind, data |-> data, age |-> 0]

Later(t) == (t + 1) % W

\* A second passes, unless a message or a ping is due first.
Tick ==
    /\ since < Period /\ ~Due(up) /\ ~Due(down)
    /\ now' = Later(now)
    /\ since' = since + 1
    /\ up' = Older(up) /\ down' = Older(down)
    /\ silent' = IF silent > Unheard THEN silent ELSE silent + 1
    /\ UNCHANGED challenge

\* NETBoxThread: now - lastPing > 5000.
SendPing ==
    /\ since = Period
    /\ up' = Append(up, Msg("ping", 0))
    /\ since' = 0
    /\ UNCHANGED <<now, down, challenge, silent>>

\* PCK_H_PING at the server: a new challenge replaces the old one.
ServerPing ==
    /\ up # <<>> /\ Head(up).kind = "ping"
    /\ challenge' = now
    /\ down' = Append(down, Msg("verify", now))
    /\ up' = Tail(up)
    /\ UNCHANGED <<now, since, silent>>

\* Mutant: the answer is compared with the challenge of this second.
AnswerMatchesNow == Head(up).data = now

\* PCK_H_VERIFY_RET: is it the answer to the challenge of the session?  The
\* code compares with a copy made after LeaveCritical, but challenges are
\* written by this thread only; what an erasure of another session does to the
\* copy is the matter of PlayerLookup.
AnswerMatches == Head(up).data = challenge

ServerVerifyRet ==
    /\ up # <<>> /\ Head(up).kind = "verify_ret"
    /\ silent' = IF AnswerMatches THEN 0 ELSE silent
    /\ up' = Tail(up)
    /\ UNCHANGED <<now, since, down, challenge>>

\* PCK_H_VERIFY at the client.
ClientVerify ==
    /\ down # <<>>
    /\ up' = Append(up, Msg("verify_ret", Head(down).data))
    /\ down' = Tail(down)
    /\ UNCHANGED <<now, since, challenge, silent>>

PingNext == Tick \/ SendPing \/ ServerPing \/ ServerVerifyRet \/ ClientVerify

PingSpec == PingInit /\ [][PingNext]_pingVars

-----------------------------------------------------------------------------
\* As long as a ping and its challenge together take less than the period, the
\* next ping cannot replace a challenge before it is answered, so the session of
\* a live client is never silent for longer than one period and three trips; the
\* check thread allows 30 seconds.
LiveIsHeard == 2 * MaxDelay < Period => silent <= Unheard
=============================================================================
