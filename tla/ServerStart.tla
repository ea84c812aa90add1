---------------------------- MODULE ServerStart -----------------------------
(***************************************************************************)
(* How the process of GHPServer comes up.  wWinMain creates the threads    *)
(* one by one with a pause of 200 ms in between, in place of waiting for   *)
(* what each has to prepare: the thread of the settings copies the ini     *)
(* file, again every ten seconds; the server thread makes the critical     *)
(* section and opens its port; the check thread and the pages enter the    *)
(* critical section; the web thread binds its port once.                   *)
(*                                                                         *)
(* "strayed" and "late" are history variables; "late" is that a thread was *)
(* not ready within the pause that the code leaves for it.                 *)
(***************************************************************************)
EXTENDS Naturals, Sequences, SequencesExt

VARIABLES
    started,    \* the threads created so far, in order
    settings,   \* max_connections, BIND_GHPSERVER, BIND_WEBSERVER
    net,        \* the server thread: pc and the port of its socket
    bound,      \* the port of the pages
    over,       \* how the process ended, "no" while it runs
    strayed,    \* a thread entered the critical section before it existed
    late        \* a thread was not ready in time

startVars == <<started, settings, net, bound, over, strayed, late>>

\* For a mutant: the web thread comes first.
ThreadsSwapped ==
    <<"web", "config", "server", "check", "master", "lists", "cheats", "api">>

Threads == <<"config", "server", "check", "web", "master", "lists", "cheats", "api">>
Runs(thread) == over = "no" /\ Contains(started, thread)

StartInit ==
    /\ started = <<>>
    /\ settings = [maxConn |-> "unset", port |-> "unset", webPort |-> "unset"]
    /\ net = [pc |-> "start", port |-> "none"]
    /\ bound = "none" /\ over = "no"
    /\ strayed = FALSE /\ late = FALSE

-----------------------------------------------------------------------------
(* wWinMain.  Only two threads prepare something for the others.           *)
Ready(thread) ==
    CASE thread = "config" -> settings.port = "good" /\ settings.webPort = "set"
      [] thread = "server" -> net.pc # "start"
      [] OTHER -> TRUE

Create ==
    /\ over = "no" /\ Len(started) < Len(Threads)
    /\ started' = Append(started, Threads[Len(started) + 1])
    /\ late' = (late \/ (started # <<>> /\ ~Ready(Last(started))))
    /\ UNCHANGED <<settings, net, bound, over, strayed>>

(* The user stops the server from the menu of its icon. *)
StopFromMenu ==
    /\ over = "no" /\ Len(started) = Len(Threads)
    /\ over' = "menu"
    /\ UNCHANGED <<started, settings, net, bound, strayed, late>>

-----------------------------------------------------------------------------
(* ConfigWorkerThread, again and again: the number of connections early,   *)
(* the ports at the end, then a port out of range is put right.  If it     *)
(* comes to its second pass before the server thread has read the port,    *)
(* ten seconds were not enough.                                            *)
Set(field, value) ==
    /\ Runs("config")
    /\ settings' = [settings EXCEPT ![field] = value]
    /\ late' = (late \/ (Ready("config") /\ net.pc \in {"start", "keys"}))
    /\ UNCHANGED <<started, net, bound, over, strayed>>

ReadConnections == \E n \in {"zero", "some"} : Set("maxConn", n)
CopyPort == settings.maxConn # "unset" /\ \E p \in {"bad", "good"} : Set("port", p)
CopyWebPort == settings.port # "unset" /\ Set("webPort", "set")
CorrectPort == settings.port = "bad" /\ settings.webPort = "set" /\ Set("port", "good")

-----------------------------------------------------------------------------
(* ServerWorkerThread up to its loop.                                      *)
NetStep(from, to) ==
    /\ Runs("server") /\ net.pc = from
    /\ net' = to
    /\ UNCHANGED <<started, settings, bound, over, strayed, late>>

InitializeCritical == NetStep("start", [net EXCEPT !.pc = "keys"])
MakeSocket == NetStep("keys", [pc |-> "socket", port |-> settings.port])
Startup == settings.maxConn = "some" /\ NetStep("socket", [net EXCEPT !.pc = "loop"])

(* Without its keys or without a port the server thread ends the process.  *)
ServerFails ==
    /\ Runs("server")
    /\ \/ net.pc = "keys" /\ over' = "keys"
       \/ net.pc = "socket" /\ over' = IF settings.maxConn = "unset" THEN "unset" ELSE "port"
    /\ UNCHANGED <<started, settings, net, bound, strayed, late>>

(* PlayerCheckWorkerThread enters the critical section in every pass, the  *)
(* web thread for the pages that show a session.                           *)
EnterUnmade ==
    /\ net.pc = "start"
    /\ Runs("check") \/ (Runs("web") /\ bound = "set")
    /\ strayed' = TRUE
    /\ UNCHANGED <<started, settings, net, bound, over, late>>

(* WebServerWorkerThread names its port once and ignores the outcome.      *)
BindWeb ==
    /\ Runs("web") /\ bound = "none"
    /\ bound' = settings.webPort
    /\ UNCHANGED <<started, settings, net, over, strayed, late>>

StartNext ==
    \/ Create \/ StopFromMenu
    \/ ReadConnections \/ CopyPort \/ CopyWebPort \/ CorrectPort
    \/ InitializeCritical \/ MakeSocket \/ Startup \/ ServerFails
    \/ EnterUnmade \/ BindWeb

StartSpec == StartInit /\ [][StartNext]_startVars

-----------------------------------------------------------------------------
(* The pauses suffice, and the order of the threads is right: if every     *)
(* thread is ready in time, then nobody enters the critical section before *)
(* it exists, the process does not end for want of a setting that is only  *)
(* late, and the ports that the server and the pages are bound to are the  *)
(* ones of the ini file (wWinMain, lines 1267 to 1282).                    *)
StartIsOrdered ==
    ~late => /\ ~strayed
             /\ over # "unset"
             /\ net.port \in {"none", "good"}
             /\ bound \in {"none", "set"}
=============================================================================
