------------------------------- MODULE NetBox -------------------------------
(***************************************************************************)
(* The client's connection to GHPServer (NETBoxThread in ghp_NETBOX.cpp).  *)
(* One thread polls: it sends a ping every five seconds (module            *)
(* PingVerify), hands the account name over when the game has changed it,  *)
(* and handles what the server sent.  The game's own thread sets the name  *)
(* (GHPSetParam) in a string that both threads use without a lock.         *)
(*                                                                         *)
(* "torn" stands for the time the game thread is writing the string: a     *)
(* copy made then may be anything, here any name.  "raced" is a history    *)
(* variable.                                                               *)
(***************************************************************************)
EXTENDS Naturals, Sequences, SequencesExt

CONSTANTS
    Hwids,      \* hardware ids of the machine
    MaxHwids,   \* bound: how many the machine has
    Users,      \* account names
    NoUser      \* the empty name

ASSUME NetBoxAssumption == NoUser \notin Users /\ MaxHwids \in Nat

Names == Users \cup {NoUser}

VARIABLES
    link,       \* "connecting", "accepted" (the server's guid is known),
                \* "ended" (an error was raised, which ends the process)
    phase,      \* where the thread is
    hwids,      \* the list of ids not sent yet
    turn,       \* the loop counter i of the sending loop
    machine,    \* all ids of the machine
    sent,       \* the ids sent to the server
    keyed,      \* SRV_KEY # 0
    login,      \* GameLogin
    torn,       \* the game thread is writing GameLogin
    lastLogin,  \* LastGameLogin
    told,       \* the last name sent to the server
    raced       \* the last hand-over met a write of GameLogin

boxVars == <<link, phase, hwids, turn, machine, sent, keyed, login, torn, lastLogin, told, raced>>

BoxTypeOK ==
    /\ link \in {"connecting", "accepted", "ended"}
    /\ phase \in {"poll", "tell", "store", "packets", "ids"}
    /\ hwids \in Seq(Hwids) /\ machine \in Seq(Hwids) /\ sent \in Seq(Hwids)
    /\ turn \in 0 .. (MaxHwids + 1) \div 2
    /\ keyed \in BOOLEAN /\ torn \in BOOLEAN /\ raced \in BOOLEAN
    /\ login \in Names /\ lastLogin \in Names /\ told \in Names

BoxInit ==
    /\ link = "connecting"
    /\ phase = "poll"
    /\ machine \in BoundedSeq(Hwids, MaxHwids) /\ IsInjective(machine)
    /\ hwids = machine
    /\ turn = 0
    /\ sent = <<>>
    /\ keyed = FALSE
    /\ login = NoUser /\ lastLogin = NoUser /\ told = NoUser
    /\ torn = FALSE /\ raced = FALSE

Running == link # "ended"

\* The name as a copy of GameLogin comes out.
Copied(u) == torn \/ u = login

-----------------------------------------------------------------------------
(* The game thread: GHPSetParam, id 0. *)

SetLogin(u) ==
    /\ Running /\ ~torn /\ u # login
    /\ login' = u
    /\ torn' = TRUE
    /\ raced' = (raced \/ phase \in {"tell", "store"})
    /\ UNCHANGED <<link, phase, hwids, turn, machine, sent, keyed, lastLogin, told>>

SetLoginDone ==
    /\ torn
    /\ torn' = FALSE
    /\ UNCHANGED <<link, phase, hwids, turn, machine, sent, keyed, login, lastLogin, told, raced>>

-----------------------------------------------------------------------------
(* The polling thread. *)

\* Mutant: the server need not be known.
CompareAnyway ==
    /\ Running /\ phase = "poll"
    /\ \E u \in Names :
        /\ Copied(u)
        /\ phase' = IF u = lastLogin THEN "packets" ELSE IF u = NoUser THEN "store" ELSE "tell"
    /\ raced' = IF phase' = "packets" THEN raced ELSE torn
    /\ UNCHANGED <<link, hwids, turn, machine, sent, keyed, login, torn, lastLogin, told>>

\* GameLogin != LastGameLogin, once the server is known; an empty name is
\* only remembered.
CompareLogin ==
    /\ Running /\ phase = "poll"
    /\ \E u \in Names :
        /\ Copied(u)
        /\ phase' = IF link # "accepted" \/ u = lastLogin THEN "packets"
                 ELSE IF u = NoUser THEN "store" ELSE "tell"
    /\ raced' = IF phase' = "packets" THEN raced ELSE torn
    /\ UNCHANGED <<link, hwids, turn, machine, sent, keyed, login, torn, lastLogin, told>>

\* PCK_USER_ID(GameLogin) is sent; to nobody while the server is unknown.
Tell ==
    /\ Running /\ phase = "tell"
    /\ \E u \in Names : Copied(u) /\ told' = IF link = "accepted" THEN u ELSE told
    /\ phase' = "store"
    /\ UNCHANGED <<link, hwids, turn, machine, sent, keyed, login, torn, lastLogin, raced>>

\* LastGameLogin = GameLogin: the name it has now.
Store ==
    /\ Running /\ phase = "store"
    /\ \E u \in Names : Copied(u) /\ lastLogin' = u
    /\ phase' = "packets"
    /\ UNCHANGED <<link, hwids, turn, machine, sent, keyed, login, torn, told, raced>>

\* No more packets in this turn.
NoPacket ==
    /\ Running /\ phase = "packets"
    /\ phase' = "poll"
    /\ UNCHANGED <<link, hwids, turn, machine, sent, keyed, login, torn, lastLogin, told, raced>>

\* ID_CONNECTION_REQUEST_ACCEPTED.
Accepted ==
    /\ link = "connecting" /\ phase = "packets"
    /\ link' = "accepted"
    /\ phase' = "ids"
    /\ turn' = 0
    /\ UNCHANGED <<hwids, machine, sent, keyed, login, torn, lastLogin, told, raced>>

\* for (i = 0; i < hwids.size(); i++): sends the front and removes it, so that
\* the bound moves towards the counter.
SendId ==
    /\ Running /\ phase = "ids"
    /\ IF turn < Len(hwids)
       THEN /\ sent' = Append(sent, Head(hwids))
            /\ hwids' = Tail(hwids)
            /\ turn' = turn + 1
            /\ UNCHANGED phase
       ELSE phase' = "packets" /\ UNCHANGED <<hwids, turn, sent>>
    /\ UNCHANGED <<link, machine, keyed, login, torn, lastLogin, told, raced>>

\* PCK_H_ENCRYPTION_KEY: a second key is an error.
ReceiveKey ==
    /\ link = "accepted" /\ phase = "packets"
    /\ keyed' = TRUE
    /\ link' = IF keyed THEN "ended" ELSE link
    /\ UNCHANGED <<phase, hwids, turn, machine, sent, login, torn, lastLogin, told, raced>>

\* A disconnection, a failed attempt or a corrupted packet: Error.
Fail ==
    /\ Running /\ phase = "packets"
    /\ link' = "ended"
    /\ UNCHANGED <<phase, hwids, turn, machine, sent, keyed, login, torn, lastLogin, told, raced>>

Loop == CompareLogin \/ Tell \/ Store \/ NoPacket \/ SendId

BoxNext ==
    \/ \E u \in Names : SetLogin(u)
    \/ SetLoginDone
    \/ Loop \/ Accepted \/ ReceiveKey \/ Fail

BoxSpec == BoxInit /\ [][BoxNext]_boxVars

\* The thread keeps polling, and the game thread finishes a write it began.
BoxFairness == WF_boxVars(Loop) /\ WF_boxVars(SetLoginDone)

BoxFairSpec == BoxSpec /\ BoxFairness

-----------------------------------------------------------------------------
\* Once the connection is accepted and the handler is through, the server has
\* all ids of the machine (ProcessPacket: "Envia os IDs para o servidor").
AllIdsSent == link = "accepted" /\ phase # "ids" => sent = machine

\* At rest, the name that the server was told last is the name of the game,
\* provided the game did not write it in the middle of the hand-over; also for
\* a name set before the connection was accepted.
ToldIsCurrent ==
    /\ link = "accepted" /\ phase = "packets" /\ ~torn /\ ~raced
    /\ login = lastLogin /\ login # NoUser
    => told = login

\* A name that the game has finished to set is told to the server, unless it
\* is replaced or the connection ends: no poll forgets it.
NameIsTold ==
    \A u \in Users :
        (link = "accepted" /\ phase = "poll" /\ ~torn /\ ~raced /\ login = u)
            ~> (told = u \/ login # u \/ torn \/ ~Running)
=============================================================================
