----------------------------- MODULE ThreadGuard ----------------------------
(***************************************************************************)
(* The loader hook of the client (ghp_HOOK.cpp): a thread may load a       *)
(* library if it is the main thread or if its id is in the vector          *)
(* "threads", where the hooked CreateThread puts the id of every thread    *)
(* that is created through it, after the thread has begun to run.  The     *)
(* hook does not look at its caller: a stranger in the process that calls  *)
(* CreateThread has its child put on the list like any other.  Nothing is  *)
(* ever taken out, and the system uses the id of a dead thread again.      *)
(* Only membership matters, so the vector is a set.                        *)
(*                                                                         *)
(* push_back is not atomic: two at once may lose an id ("collided"), and   *)
(* what a search finds in the middle of one is not defined.                *)
(*                                                                         *)
(* "verdict", "used" and "collided" are history variables.                 *)
(***************************************************************************)
EXTENDS Naturals

CONSTANTS
    Ids,        \* the thread ids of the system
    mainThread, \* the id of the thread that loaded the client
    None

ASSUME GuardAssumption == mainThread \in Ids /\ None \notin Ids

VARIABLES
    alive,      \* the threads: "own" (the main thread, or created through the
                \* hook by an own thread), "planted" (created through it by
                \* any other), "foreign" (not created through it)
    threads,    \* the known ids
    call,       \* the creation each thread is in: pc, id of the child
    verdict,    \* what the loader told each thread last
    used,       \* the ids that the hook was ever given
    collided    \* two ids were pushed at once

guardVars == <<alive, threads, call, verdict, used, collided>>

NoCall == [pc |-> "none", child |-> None]

\* Threads that are older than the hook are foreign to it.
GuardInit ==
    /\ alive \in [Ids -> {"none", "own", "foreign"}]
    /\ \A id \in Ids : alive[id] = "own" <=> id = mainThread
    /\ threads = {} /\ used = {} /\ collided = FALSE
    /\ call = [id \in Ids |-> NoCall]
    /\ verdict = [id \in Ids |-> "none"]

Pushing == {id \in Ids : call[id].pc = "push"}
BeingMade(id) == \E c \in Ids : call[c].pc # "none" /\ call[c].child = id

-----------------------------------------------------------------------------
(* ghp_CreateThread, called by any thread c of the process.  The new       *)
(* thread runs at once.  If the system creates none, an id that was never  *)
(* set is pushed.                                                          *)
OriCreateThread(c) ==
    /\ alive[c] # "none" /\ call[c] = NoCall
    /\ \E id \in Ids :
        /\ call' = [call EXCEPT ![c] = [pc |-> "created", child |-> id]]
        /\ used' = used \cup {id}
        /\ \/ /\ alive[id] = "none"
              /\ alive' = [alive EXCEPT ![id] = IF alive[c] = "own" THEN "own" ELSE "planted"]
           \/ UNCHANGED alive
    /\ UNCHANGED <<threads, verdict, collided>>

PushBegin(c) ==
    /\ call[c].pc = "created"
    /\ call' = [call EXCEPT ![c].pc = "push"]
    /\ collided' = (collided \/ Pushing # {})
    /\ UNCHANGED <<alive, threads, verdict, used>>

\* For a mutant: the id is pushed in one of the two branches only.
PushEndOneBranch(c) ==
    /\ call[c].pc = "push"
    /\ threads' \in {threads, threads \cup {call[c].child}}
    /\ call' = [call EXCEPT ![c] = NoCall]
    /\ UNCHANGED <<alive, verdict, used, collided>>

PushEnd(c) ==
    /\ call[c].pc = "push"
    /\ \/ threads' = threads \cup {call[c].child}
       \/ collided /\ UNCHANGED threads
    /\ call' = [call EXCEPT ![c] = NoCall]
    /\ UNCHANGED <<alive, verdict, used, collided>>

-----------------------------------------------------------------------------
(* ghp_LdrLoadDll up to the decision.  "early": the search met a push, or  *)
(* the creation of the thread has yet to return; the verdict may be either.*)
ThreadFound(id) == id \in threads \/ id = mainThread

LdrLoadDll(id) ==
    /\ alive[id] # "none"
    /\ verdict' = [verdict EXCEPT ![id] =
           CASE Pushing # {} \/ BeingMade(id) -> "early"
             [] OTHER -> IF ThreadFound(id) THEN "loaded" ELSE "refused"]
    /\ UNCHANGED <<alive, threads, call, used, collided>>

(* A thread that another process or the system starts in the game.         *)
BeginForeign(id) ==
    /\ alive[id] = "none"
    /\ alive' = [alive EXCEPT ![id] = "foreign"]
    /\ UNCHANGED <<threads, call, verdict, used, collided>>

ExitThread(id) ==
    /\ alive[id] # "none" /\ id # mainThread /\ call[id] = NoCall
    /\ alive' = [alive EXCEPT ![id] = "none"]
    /\ verdict' = [verdict EXCEPT ![id] = "none"]
    /\ UNCHANGED <<threads, call, used, collided>>

GuardNext ==
    \E id \in Ids :
        \/ OriCreateThread(id) \/ PushBegin(id) \/ PushEnd(id)
        \/ LdrLoadDll(id) \/ BeginForeign(id) \/ ExitThread(id)

GuardSpec == GuardInit /\ [][GuardNext]_guardVars

-----------------------------------------------------------------------------
(* Unless two ids were ever pushed at once, the loader refuses no thread   *)
(* that was created through the hook, once its creation has returned, who- *)
(* ever else creates threads and whatever ids come back: not a thread of   *)
(* the game, and not a thread that a stranger created from inside.  A      *)
(* thread that was not created through the hook loads a library only if    *)
(* it has an id that the hook was once given.                              *)
OwnThreadLoads ==
    ~collided => \A id \in Ids :
        /\ alive[id] \in {"own", "planted"} => verdict[id] # "refused"
        /\ alive[id] = "foreign" /\ verdict[id] = "loaded" => id \in used
=============================================================================
