---------------------------- MODULE ClientShutdown ----------------------------
(***************************************************************************)
(* How the protected game ends.  Error (ghp_CORE.cpp) notes what happened  *)
(* in two global variables, starts a thread that shows it in the browser   *)
(* (ErrorBrowser; nobody looks whether CreateThread succeeds), waits a     *)
(* second and calls Stop.  Stop shuts the                                  *)
(* connection down (ShutdownNETBox), terminates the thread that polls it   *)
(* and ends the process.  Any thread can be in Error or Stop:              *)
(*   - "netbox", the polling thread, which Stop terminates, itself too;    *)
(*   - "core", the scanning thread (GHPCore), which reports what it found  *)
(*     over the connection before it raises an error;                      *)
(*   - "game", the game's own thread, which reports and raises errors in   *)
(*     the hooks and also stops without one (GHPSTOP, ghp_ExitProcess);    *)
(*   - the browser threads, at most one for each error raised.             *)
(* None of this takes a lock.                                              *)
(*                                                                         *)
(* A call through a peer that has been destroyed may crash or not; one     *)
(* through a null pointer does.  A crash ends the process too.             *)
(*                                                                         *)
(* "mixed" and "crowded" are history variables.                            *)
(***************************************************************************)
EXTENDS Naturals, FiniteSets

CONSTANT Raisers    \* the threads that raise errors: the bound of the runs

ASSUMPTION ShutdownAssumption == Raisers \subseteq {"netbox", "core", "game"}

Browser(t) == CASE t = "netbox" -> "netbox browser"
               [] t = "core"   -> "core browser"
               [] t = "game"   -> "game browser"
Browsers == {Browser(t) : t \in Raisers}
Threads == {"netbox", "core", "game"} \cup Browsers

VARIABLES
    process,    \* "alive", "ended" or "crashed"
    active,     \* ConnectionActive
    peer,       \* "null", "live", or "freed": DestroyInstance was called and
                \* the pointer not yet cleared
    pc,         \* where each thread is
    errorid,    \* the thread whose error the global errorid is of, or "none"
    errorcode,  \* the same for errorcode
    shown,      \* <<id, code>> of the page shown last
    mixed,      \* an error was noted while another was yet to be shown
    crowded     \* two threads have been shutting the connection down at once

vars == <<process, active, peer, pc, errorid, errorcode, shown, mixed, crowded>>

\* Not started, at work, in Error, in Stop, gone.
Waiting == {"none", "dead"}
Working == {"open", "connect", "poll", "use", "scan", "send", "play"}
InError == {"id", "code", "spawn", "nap"}
InStop == {"check", "clear", "shutdown", "destroy", "null", "kill", "exit"}

TypeOK ==
    /\ process \in {"alive", "ended", "crashed"}
    /\ active \in BOOLEAN
    /\ peer \in {"null", "live", "freed"}
    /\ pc \in [Threads -> Waiting \cup Working \cup InError \cup InStop \cup {"browse"}]
    /\ \A b \in Browsers : pc[b] \notin Working \cup InError \cup {"dead"}
    /\ pc["netbox"] # "exit"
    /\ errorid \in Raisers \cup {"none"}
    /\ errorcode \in Raisers \cup {"none"}
    /\ shown \in (Raisers \X Raisers) \cup {<<>>}
    /\ mixed \in BOOLEAN /\ crowded \in BOOLEAN

\* The end of Start: the threads have been created.
Init ==
    /\ process = "alive"
    /\ active = FALSE
    /\ peer = "null"
    /\ pc = [t \in Threads |-> CASE t = "netbox" -> "open"
                                 [] t = "core" /\ t \in Raisers -> "scan"
                                 [] t = "game" -> "play"
                                 [] OTHER -> "none"]
    /\ errorid = "none" /\ errorcode = "none"
    /\ shown = <<>>
    /\ mixed = FALSE /\ crowded = FALSE

Alive == process = "alive"

Goto(t, where) == pc' = [pc EXCEPT ![t] = where]

\* A call through the global peer: afterwards the process lives, or not.
Call(p) ==
    process' \in CASE p = "live"  -> {"alive"}
                   [] p = "freed" -> {"alive", "crashed"}
                   [] p = "null"  -> {"crashed"}

-----------------------------------------------------------------------------
(* NETBoxThread. *)

Open ==
    /\ Alive /\ pc["netbox"] = "open"
    /\ peer' = "live"
    /\ Goto("netbox", "connect")
    /\ UNCHANGED <<process, active, errorid, errorcode, shown, mixed, crowded>>

Connect ==
    /\ Alive /\ pc["netbox"] = "connect"
    /\ active' = TRUE
    /\ Goto("netbox", "poll")
    /\ UNCHANGED <<process, peer, errorid, errorcode, shown, mixed, crowded>>

\* while (ConnectionActive); afterwards it stops as well.
Poll ==
    /\ Alive /\ pc["netbox"] = "poll"
    /\ Goto("netbox", IF active THEN "use" ELSE "check")
    /\ UNCHANGED <<process, active, peer, errorid, errorcode, shown, mixed, crowded>>

\* Receive, DeallocatePacket and Send; the loop over the packets received does
\* not look at ConnectionActive.
Use ==
    /\ Alive /\ pc["netbox"] = "use"
    /\ Call(peer)
    /\ Goto("netbox", "use") \/ Goto("netbox", "poll")
    /\ UNCHANGED <<active, peer, errorid, errorcode, shown, mixed, crowded>>

(* GHPCore, and the loader hook in the game's thread: SendInfo, then Error. *)

Find(t) ==
    /\ Alive /\ pc[t] \in {"scan", "play"}
    /\ Goto(t, IF active THEN "send" ELSE "id")
    /\ UNCHANGED <<process, active, peer, errorid, errorcode, shown, mixed, crowded>>

Report(t) ==
    /\ Alive /\ pc[t] = "send"
    /\ Call(peer)
    /\ Goto(t, "id")
    /\ UNCHANGED <<active, peer, errorid, errorcode, shown, mixed, crowded>>

(* The game: GHPSTOP or ExitProcess. *)
Quit ==
    /\ Alive /\ pc["game"] = "play"
    /\ Goto("game", "check")
    /\ UNCHANGED <<process, active, peer, errorid, errorcode, shown, mixed, crowded>>

-----------------------------------------------------------------------------
(* Error. *)

\* An error is met: by the polling thread while it starts, or in a packet it
\* received; by the others at work.
Raise(t) ==
    /\ Alive /\ pc[t] \in {"connect", "use", "scan", "play"}
    /\ Goto(t, "id")
    /\ UNCHANGED <<process, active, peer, errorid, errorcode, shown, mixed, crowded>>

\* The global variables hold an error of t that has not been shown.
Noting(t) == pc[t] \in {"code", "spawn"} \/ pc[Browser(t)] = "browse"

NoteId(t) ==
    /\ Alive /\ pc[t] = "id"
    /\ errorid' = t
    /\ Goto(t, "code")
    /\ mixed' = (mixed \/ \E other \in Raisers \ {t} : Noting(other))
    /\ UNCHANGED <<process, active, peer, errorcode, shown, crowded>>

\* Mutant: the code of an earlier error is kept.
NoteCodeKeeps(t) ==
    /\ Alive /\ pc[t] = "code"
    /\ errorcode' = IF errorcode = "none" THEN t ELSE errorcode
    /\ Goto(t, "spawn")
    /\ UNCHANGED <<process, active, peer, errorid, shown, mixed, crowded>>

NoteCode(t) ==
    /\ Alive /\ pc[t] = "code"
    /\ errorcode' = t
    /\ Goto(t, "spawn")
    /\ UNCHANGED <<process, active, peer, errorid, shown, mixed, crowded>>

\* CreateThread(ErrorBrowser), which may fail; nobody looks.
Spawn(t) ==
    /\ Alive /\ pc[t] = "spawn"
    /\ \/ pc' = [pc EXCEPT ![t] = "nap", ![Browser(t)] = "browse"]
       \/ Goto(t, "nap")
    /\ UNCHANGED <<process, active, peer, errorid, errorcode, shown, mixed, crowded>>

\* Sleep(1000).
Nap(t) ==
    /\ Alive /\ pc[t] = "nap"
    /\ Goto(t, "check")
    /\ UNCHANGED <<process, active, peer, errorid, errorcode, shown, mixed, crowded>>

\* ErrorBrowser shows the page, unless the loader lock was held for a second.
Browse(b) ==
    /\ Alive /\ pc[b] = "browse"
    /\ \/ shown' = <<errorid, errorcode>>
       \/ UNCHANGED shown
    /\ Goto(b, "check")
    /\ UNCHANGED <<process, active, peer, errorid, errorcode, mixed, crowded>>

-----------------------------------------------------------------------------
(* Stop. *)

\* Between the look at ConnectionActive and the end of ShutdownNETBox.
ShuttingDown(t) == pc[t] \in {"clear", "shutdown", "destroy", "null"}

\* Mutant: whatever the state of the connection.
CheckNothing(t) ==
    /\ Alive /\ pc[t] = "check"
    /\ Goto(t, "clear")
    /\ crowded' = (crowded \/ \E other \in Threads \ {t} : ShuttingDown(other))
    /\ UNCHANGED <<process, active, peer, errorid, errorcode, shown, mixed>>

\* ShutdownNETBox: ConnectionActive && peer != 0.
Check(t) ==
    /\ Alive /\ pc[t] = "check"
    /\ Goto(t, IF active /\ peer # "null" THEN "clear" ELSE "kill")
    /\ crowded' = (crowded \/ (/\ active /\ peer # "null"
                               /\ \E other \in Threads \ {t} : ShuttingDown(other)))
    /\ UNCHANGED <<process, active, peer, errorid, errorcode, shown, mixed>>

\* Mutant: ConnectionActive stays true.
ClearNot(t) ==
    /\ Alive /\ pc[t] = "clear"
    /\ Goto(t, "shutdown")
    /\ UNCHANGED <<process, active, peer, errorid, errorcode, shown, mixed, crowded>>

Clear(t) ==
    /\ Alive /\ pc[t] = "clear"
    /\ active' = FALSE
    /\ Goto(t, "shutdown")
    /\ UNCHANGED <<process, peer, errorid, errorcode, shown, mixed, crowded>>

\* peer->Shutdown.
Shutdown(t) ==
    /\ Alive /\ pc[t] = "shutdown"
    /\ Call(peer)
    /\ Goto(t, "destroy")
    /\ UNCHANGED <<active, peer, errorid, errorcode, shown, mixed, crowded>>

\* DestroyInstance(peer): deleting a null pointer does nothing.
Destroy(t) ==
    /\ Alive /\ pc[t] = "destroy"
    /\ process' \in IF peer = "freed" THEN {"alive", "crashed"} ELSE {"alive"}
    /\ peer' = IF peer = "live" THEN "freed" ELSE peer
    /\ Goto(t, "null")
    /\ UNCHANGED <<active, errorid, errorcode, shown, mixed, crowded>>

Null(t) ==
    /\ Alive /\ pc[t] = "null"
    /\ peer' = "null"
    /\ Goto(t, "kill")
    /\ UNCHANGED <<process, active, errorid, errorcode, shown, mixed, crowded>>

\* Mutant: the calling thread is terminated in place of the polling one.
KillCaller(t) ==
    /\ Alive /\ pc[t] = "kill"
    /\ Goto(t, "dead")
    /\ UNCHANGED <<process, active, peer, errorid, errorcode, shown, mixed, crowded>>

\* TerminateThread(hNETBox): the polling thread itself gets no further.
Kill(t) ==
    /\ Alive /\ pc[t] = "kill"
    /\ pc' = IF t = "netbox" THEN [pc EXCEPT !["netbox"] = "dead"]
                             ELSE [pc EXCEPT ![t] = "exit", !["netbox"] = "dead"]
    /\ UNCHANGED <<process, active, peer, errorid, errorcode, shown, mixed, crowded>>

\* ori_ExitProcess.
Exit(t) ==
    /\ Alive /\ pc[t] = "exit"
    /\ process' = "ended"
    /\ UNCHANGED <<active, peer, pc, errorid, errorcode, shown, mixed, crowded>>

-----------------------------------------------------------------------------
StopStep(t) ==
    Check(t) \/ Clear(t) \/ Shutdown(t) \/ Destroy(t) \/ Null(t) \/ Kill(t) \/ Exit(t)

ErrorStep(t) == NoteId(t) \/ NoteCode(t) \/ Spawn(t) \/ Nap(t)

Next ==
    \/ Open \/ Connect \/ Poll \/ Use
    \/ Quit
    \/ \E t \in Raisers : Find(t) \/ Report(t) \/ Raise(t) \/ ErrorStep(t)
    \/ \E b \in Browsers : Browse(b)
    \/ \E t \in Threads : StopStep(t)

Spec == Init /\ [][Next]_vars

EndingStep ==
    \/ \E t \in Raisers : ErrorStep(t)
    \/ \E b \in Browsers : Browse(b)
    \/ \E t \in Threads : StopStep(t)

\* Windows schedules every thread that is ready, so one of those that are
\* ending the process always gets on.
Fairness == WF_vars(EndingStep)

FairSpec == Spec /\ Fairness

-----------------------------------------------------------------------------
\* The polling thread has terminated itself in Stop, no browser thread was
\* started for its error, and no other thread is ending the process.
Stranded ==
    /\ pc["netbox"] = "dead"
    /\ "netbox" \in Raisers /\ pc[Browser("netbox")] = "none"
    /\ \A t \in Threads : pc[t] \notin InError \cup InStop \cup {"browse"}

\* Whoever raises an error or stops, the process ends.  The polling thread
\* terminates itself in Stop and never reaches ExitProcess; the browser thread
\* that its error started does it, or another thread that is ending the process.
\* Only if that browser thread could not be started and there is no other, the
\* game goes on without its connection.  Any other thread that raises an error
\* ends the process, browser or not: it is in Error or Stop until then.
ErrorEndsProcess ==
    (\E t \in Threads : pc[t] \in InError \cup InStop) ~> ~Alive \/ Stranded

\* A Stop crashes only when another thread is inside ShutdownNETBox with it:
\* the tests of ConnectionActive and peer keep Stops that follow each other from
\* destroying the connection twice, wherever the threads are in them.
LoneStopIsSafe ==
    [][(\E t \in Threads : StopStep(t)) /\ process' = "crashed" => crowded]_vars

\* The page in the browser shows an error that was raised, not the id of one
\* and the code of another, unless an error was noted while another was yet to
\* be shown.
ShownWasRaised == ~mixed /\ shown # <<>> => shown[1] = shown[2]
=============================================================================
