------------------------ MODULE ClientThreads_proofs ------------------------
(***************************************************************************)
(* Proofs about the threads of the client: the loader hook (ThreadGuard),  *)
(* for any set of thread ids, the scanning pass (CorePass), for any        *)
(* processes, programs and pieces of memory, the hand-over of the account  *)
(* name and of the hardware ids (NetBox), for any names and ids, and the   *)
(* end of the process (ClientShutdown), whichever threads raise errors.    *)
(*   - GuardIInv: until two ids are pushed at once, a thread created       *)
(*     through the hook is known or its creation has not returned, and an  *)
(*     id that no thread has carries no verdict;                           *)
(*   - PassIInv: what was listed is still to do, at hand, or scanned; and  *)
(*     under a scanned id runs nothing that the pass had to stop, unless   *)
(*     it took over the id or was never opened;                            *)
(*   - HandoverIInv: a name on its way to the server is the game's name,   *)
(*     and what is remembered as told has been told;                       *)
(*   - IdsIInv: the ids sent and the ids still listed are the list of the  *)
(*     machine, and the counter of the loop is the number of those sent;   *)
(*   - EndIInv: both globals hold the error that is yet to be shown, and a *)
(*     thread that is alone in ShutdownNETBox has the peer to itself.      *)
(***************************************************************************)
EXTENDS ThreadGuard, CorePass, NetBox, ClientShutdown, SequenceFacts

(* The loader hook.                                                        *)

GuardTypeOK ==
    /\ alive \in [Ids -> {"none", "own", "planted", "foreign"}]
    /\ threads \in SUBSET Ids /\ used \in SUBSET Ids
    /\ call \in [Ids -> [pc : {"none", "created", "push"}, child : Ids \cup {None}]]
    /\ verdict \in [Ids -> {"none", "early", "loaded", "refused"}]
    /\ collided \in BOOLEAN

\* What the hook was given is in the vector or on its way into it.
GivenIsUsed ==
    /\ threads \subseteq used
    /\ \A c \in Ids : call[c].pc # "none" => call[c].child \in used

Hooked == {"own", "planted"}

\* A thread that was created through the hook is known, or will be when its
\* creation returns.
HookedIsKnown ==
    ~collided => \A id \in Ids : alive[id] \in Hooked => ThreadFound(id) \/ BeingMade(id)

DeadIsUnjudged == \A id \in Ids : alive[id] = "none" => verdict[id] = "none"

GuardIInv ==
    /\ GuardTypeOK /\ alive[mainThread] = "own"
    /\ GivenIsUsed /\ HookedIsKnown /\ DeadIsUnjudged /\ OwnThreadLoads

-----------------------------------------------------------------------------
(* The scanning pass.                                                      *)

AtHand == {"open", "compare", "mark"}
Through == {"hidden", "speed", "crc", "memory", "sleep"}

\* The states of the scanning thread.
PassStates ==
    [pc : {"enumerate", "next", "error"} \cup AtHand \cup Through,
     listed : SUBSET Pids, todo : SUBSET Pids, pid : Pids \cup {0},
     program : Programs \cup {NoProgram}, altered : SUBSET Apis]

PassTypeOK ==
    /\ running \in [Pids -> Programs \cup {NoProgram}]
    /\ scanned \in SUBSET Pids /\ hacks \in SUBSET SrvHacks
    /\ altered \in SUBSET Apis
    /\ pass \in PassStates
    /\ fate \in [Pids -> {"new", "inherited", "seen", "missed"}]
    /\ known \in [Pids -> SUBSET SrvHacks]
    /\ pass.pc \in AtHand => pass.pid \in Pids

\* A cheat runs under this id although the scan looked at the process.
Escaped(p) == running[p] \in DbHacks \cup known[p] /\ fate[p] \notin {"missed", "inherited"}

\* Unless the pass ended the game, every process of its list is still to do, at
\* hand or scanned.
ListedIsCovered ==
    /\ pass.pc # "error" =>
          pass.listed \subseteq pass.todo \cup scanned
                        \cup (IF pass.pc \in AtHand THEN {pass.pid} ELSE {})
    /\ pass.pc \in Through => pass.todo = {}

ScannedIsClean == \A p \in scanned : ~Escaped(p)

\* The process at hand: new to the scan; while it is compared its id cannot be
\* used again, and when it is let pass it is no cheat that was known.
HandIsHeld ==
    /\ pass.pc \in AtHand => pass.pid \notin scanned
    /\ pass.pc = "compare" => /\ running[pass.pid] \in {pass.program, NoProgram}
                              /\ known[pass.pid] \subseteq hacks
    /\ pass.pc = "mark" /\ fate[pass.pid] = "seen" => ~Escaped(pass.pid)

\* Only what is at hand was seen and is not marked as scanned yet.
SeenIsScanned ==
    pass.pc # "error" => \A p \in Pids : fate[p] = "seen" =>
        p \in scanned \/ (pass.pc \in {"compare", "mark"} /\ pass.pid = p)

\* CheckMemory looks at the first piece that differs.
AlteredBehind ==
    pass.pc = "sleep" => \A a \in pass.altered \ ApiWhitelist :
        \E w \in pass.altered \cap ApiWhitelist : w < a

PassIInv ==
    /\ PassTypeOK /\ ListedIsCovered /\ ScannedIsClean /\ HandIsHeld
    /\ SeenIsScanned /\ AlteredBehind

-----------------------------------------------------------------------------
(* The loader hook keeps GuardIInv.                                        *)

LEMMA GuardInitIInv == GuardInit => GuardIInv
<1> SUFFICES ASSUME GuardInit PROVE GuardIInv
  OBVIOUS
<1> USE GuardAssumption DEF GuardInit, NoCall
<1>1. GuardTypeOK
  BY DEF GuardTypeOK
<1>2. alive[mainThread] = "own" /\ GivenIsUsed /\ DeadIsUnjudged /\ OwnThreadLoads
  BY DEF GivenIsUsed, DeadIsUnjudged, OwnThreadLoads
<1>3. HookedIsKnown
  BY DEF HookedIsKnown, ThreadFound, Hooked
<1> QED BY <1>1, <1>2, <1>3 DEF GuardIInv

\* A thread asks for a child, which may run before the hook knows it.
LEMMA OriCreateThreadKeeps ==
    ASSUME GuardIInv, NEW c \in Ids, OriCreateThread(c)
    PROVE  GuardIInv'
<1>0. /\ GuardTypeOK /\ alive[mainThread] = "own"
      /\ GivenIsUsed /\ HookedIsKnown /\ DeadIsUnjudged /\ OwnThreadLoads
  BY DEF GuardIInv
<1>1. PICK id \in Ids :
        /\ call' = [call EXCEPT ![c] = [pc |-> "created", child |-> id]]
        /\ used' = used \cup {id}
        /\ \/ /\ alive[id] = "none"
              /\ alive' = [alive EXCEPT ![id] = IF alive[c] = "own" THEN "own" ELSE "planted"]
           \/ UNCHANGED alive
  BY DEF OriCreateThread
<1>2. call[c].pc = "none" /\ threads' = threads /\ verdict' = verdict /\ collided' = collided
  BY DEF OriCreateThread, NoCall
<1>3. [pc |-> "created", child |-> id] \in [pc : {"none", "created", "push"}, child : Ids \cup {None}]
  OBVIOUS
<1>4. GuardTypeOK' /\ alive'[mainThread] = "own"
  BY <1>0, <1>1, <1>2, <1>3, GuardAssumption DEF GuardTypeOK
<1>5. /\ call'[c].pc = "created" /\ call'[c].child = id
      /\ \A d \in Ids \ {c} : call'[d] = call[d]
  BY <1>0, <1>1 DEF GuardTypeOK
<1>6. GivenIsUsed'
  BY <1>0, <1>1, <1>2, <1>5 DEF GivenIsUsed
<1>7. \A k \in Ids : alive'[k] \in Hooked => k = id \/ alive[k] \in Hooked
  BY <1>0, <1>1 DEF GuardTypeOK, Hooked
<1>8. HookedIsKnown'
  BY <1>0, <1>1, <1>2, <1>5, <1>7 DEF HookedIsKnown, ThreadFound, BeingMade
<1>9. DeadIsUnjudged' /\ OwnThreadLoads'
  BY <1>0, <1>1, <1>2 DEF DeadIsUnjudged, OwnThreadLoads, GuardTypeOK
<1> QED BY <1>4, <1>6, <1>8, <1>9 DEF GuardIInv

LEMMA PushBeginKeeps ==
    ASSUME GuardIInv, NEW c \in Ids, PushBegin(c)
    PROVE  GuardIInv'
<1>0. /\ GuardTypeOK /\ alive[mainThread] = "own"
      /\ GivenIsUsed /\ HookedIsKnown /\ DeadIsUnjudged /\ OwnThreadLoads
  BY DEF GuardIInv
<1>1. /\ call' = [call EXCEPT ![c].pc = "push"] /\ call[c].pc = "created"
      /\ collided' = (collided \/ Pushing # {})
      /\ alive' = alive /\ threads' = threads /\ verdict' = verdict /\ used' = used
  BY DEF PushBegin
<1>2. call' \in [Ids -> [pc : {"none", "created", "push"}, child : Ids \cup {None}]]
  BY <1>0, <1>1 DEF GuardTypeOK
<1>3. collided' \in BOOLEAN /\ (~collided' => ~collided)
  BY <1>0, <1>1 DEF GuardTypeOK
<1>4. GuardTypeOK'
  BY <1>0, <1>1, <1>2, <1>3 DEF GuardTypeOK
<1>5. \A d \in Ids : call'[d].child = call[d].child
                     /\ (call'[d].pc = "none" <=> call[d].pc = "none")
  BY <1>0, <1>1 DEF GuardTypeOK
<1>6. GivenIsUsed' /\ DeadIsUnjudged'
  BY <1>0, <1>1, <1>5 DEF GivenIsUsed, DeadIsUnjudged
<1>7. HookedIsKnown' /\ OwnThreadLoads'
  BY <1>0, <1>1, <1>3, <1>5 DEF HookedIsKnown, OwnThreadLoads, ThreadFound, BeingMade
<1> QED BY <1>0, <1>1, <1>4, <1>6, <1>7 DEF GuardIInv

\* The id is in the vector before the creation returns; it is lost only if two
\* were pushed at once.
LEMMA PushEndKeeps ==
    ASSUME GuardIInv, NEW c \in Ids, PushEnd(c)
    PROVE  GuardIInv'
<1>0. /\ GuardTypeOK /\ alive[mainThread] = "own"
      /\ GivenIsUsed /\ HookedIsKnown /\ DeadIsUnjudged /\ OwnThreadLoads
  BY DEF GuardIInv
<1>1. /\ call[c].pc = "push" /\ call' = [call EXCEPT ![c] = NoCall]
      /\ \/ threads' = threads \cup {call[c].child}
         \/ collided /\ threads' = threads
      /\ alive' = alive /\ verdict' = verdict /\ used' = used /\ collided' = collided
  BY DEF PushEnd
<1>2. NoCall \in [pc : {"none", "created", "push"}, child : Ids \cup {None}]
      /\ NoCall.pc = "none"
  BY DEF NoCall
<1>3. call[c].child \in used
  BY <1>0, <1>1 DEF GivenIsUsed
<1>4. GuardTypeOK'
  BY <1>0, <1>1, <1>2, <1>3 DEF GuardTypeOK
<1>5. call'[c].pc = "none" /\ \A d \in Ids \ {c} : call'[d] = call[d]
  BY <1>0, <1>1, <1>2 DEF GuardTypeOK
<1>6. GivenIsUsed' /\ DeadIsUnjudged' /\ OwnThreadLoads'
  BY <1>0, <1>1, <1>3, <1>5 DEF GivenIsUsed, DeadIsUnjudged, OwnThreadLoads
<1>7. HookedIsKnown'
  BY <1>0, <1>1, <1>5 DEF HookedIsKnown, ThreadFound, BeingMade
<1> QED BY <1>0, <1>1, <1>4, <1>6, <1>7 DEF GuardIInv

\* The verdict is about the ids that are known now.
LEMMA LdrLoadDllKeeps ==
    ASSUME GuardIInv, NEW id \in Ids, LdrLoadDll(id)
    PROVE  GuardIInv'
<1>0. /\ GuardTypeOK /\ alive[mainThread] = "own"
      /\ GivenIsUsed /\ HookedIsKnown /\ DeadIsUnjudged /\ OwnThreadLoads
  BY DEF GuardIInv
<1> DEFINE answer == CASE Pushing # {} \/ BeingMade(id) -> "early"
                     [] OTHER -> IF ThreadFound(id) THEN "loaded" ELSE "refused"
<1>1. /\ alive[id] # "none" /\ verdict' = [verdict EXCEPT ![id] = answer]
      /\ alive' = alive /\ threads' = threads /\ call' = call /\ used' = used
      /\ collided' = collided
  BY DEF LdrLoadDll
<1>2. /\ answer \in {"early", "loaded", "refused"}
      /\ answer = "refused" => ~ThreadFound(id) /\ ~BeingMade(id)
      /\ answer = "loaded" => ThreadFound(id)
  OBVIOUS
<1> HIDE DEF answer
<1>3. GuardTypeOK'
  BY <1>0, <1>1, <1>2 DEF GuardTypeOK
<1>4. verdict'[id] = answer /\ \A k \in Ids \ {id} : verdict'[k] = verdict[k]
  BY <1>0, <1>1 DEF GuardTypeOK
<1>5. GivenIsUsed' /\ DeadIsUnjudged'
  BY <1>0, <1>1, <1>4 DEF GivenIsUsed, DeadIsUnjudged
<1>6. HookedIsKnown'
  BY <1>0, <1>1 DEF HookedIsKnown, ThreadFound, BeingMade
<1>7. ASSUME ~collided'
      PROVE  /\ alive[id] \in Hooked => answer # "refused"
             /\ alive[id] = "foreign" /\ answer = "loaded" => id \in used
  <2>1. alive[id] \in Hooked => answer # "refused"
    BY <1>0, <1>1, <1>2, <1>7 DEF HookedIsKnown
  <2>2. alive[id] = "foreign" /\ answer = "loaded" => id \in used
    BY <1>0, <1>2 DEF GivenIsUsed, ThreadFound
  <2> QED BY <2>1, <2>2
<1>8. OwnThreadLoads'
  BY <1>0, <1>1, <1>4, <1>7 DEF OwnThreadLoads, Hooked
<1> QED BY <1>0, <1>1, <1>3, <1>5, <1>6, <1>8 DEF GuardIInv

\* A foreign thread may carry an id that was known; it has no verdict yet.
LEMMA BeginForeignKeeps ==
    ASSUME GuardIInv, NEW id \in Ids, BeginForeign(id)
    PROVE  GuardIInv'
<1>0. /\ GuardTypeOK /\ alive[mainThread] = "own"
      /\ GivenIsUsed /\ HookedIsKnown /\ DeadIsUnjudged /\ OwnThreadLoads
  BY DEF GuardIInv
<1>1. /\ alive[id] = "none" /\ alive' = [alive EXCEPT ![id] = "foreign"]
      /\ verdict' = verdict /\ threads' = threads /\ call' = call /\ used' = used
      /\ collided' = collided
  BY DEF BeginForeign
<1>2. verdict[id] = "none"
  BY <1>0, <1>1 DEF DeadIsUnjudged
<1>3. GuardTypeOK' /\ alive'[mainThread] = "own"
  BY <1>0, <1>1, GuardAssumption DEF GuardTypeOK
<1>4. alive'[id] = "foreign" /\ \A k \in Ids \ {id} : alive'[k] = alive[k]
  BY <1>0, <1>1 DEF GuardTypeOK
<1>5. GivenIsUsed' /\ DeadIsUnjudged'
  BY <1>0, <1>1, <1>4 DEF GivenIsUsed, DeadIsUnjudged
<1>6. HookedIsKnown'
  BY <1>0, <1>1, <1>4 DEF HookedIsKnown, Hooked, ThreadFound, BeingMade
<1>7. OwnThreadLoads'
  BY <1>0, <1>1, <1>2, <1>4 DEF OwnThreadLoads
<1> QED BY <1>3, <1>5, <1>6, <1>7 DEF GuardIInv

LEMMA ExitKeeps ==
    ASSUME GuardIInv, NEW id \in Ids, ExitThread(id)
    PROVE  GuardIInv'
<1>0. /\ GuardTypeOK /\ alive[mainThread] = "own"
      /\ GivenIsUsed /\ HookedIsKnown /\ DeadIsUnjudged /\ OwnThreadLoads
  BY DEF GuardIInv
<1>1. /\ id # mainThread /\ alive' = [alive EXCEPT ![id] = "none"]
      /\ verdict' = [verdict EXCEPT ![id] = "none"]
      /\ threads' = threads /\ call' = call /\ used' = used /\ collided' = collided
  BY DEF ExitThread
<1>2. GuardTypeOK' /\ alive'[mainThread] = "own"
  BY <1>0, <1>1, GuardAssumption DEF GuardTypeOK
<1>3. /\ alive'[id] = "none" /\ verdict'[id] = "none"
      /\ \A k \in Ids \ {id} : alive'[k] = alive[k] /\ verdict'[k] = verdict[k]
  BY <1>0, <1>1 DEF GuardTypeOK
<1>4. GivenIsUsed' /\ DeadIsUnjudged'
  BY <1>0, <1>1, <1>3 DEF GivenIsUsed, DeadIsUnjudged
<1>5. HookedIsKnown'
  BY <1>0, <1>1, <1>3 DEF HookedIsKnown, Hooked, ThreadFound, BeingMade
<1>6. OwnThreadLoads'
  BY <1>0, <1>1, <1>3 DEF OwnThreadLoads
<1> QED BY <1>2, <1>4, <1>5, <1>6 DEF GuardIInv

LEMMA GuardNextIInv == GuardIInv /\ [GuardNext]_guardVars => GuardIInv'
<1> SUFFICES ASSUME GuardIInv, [GuardNext]_guardVars PROVE GuardIInv'
  OBVIOUS
<1>1. CASE UNCHANGED guardVars
  BY <1>1 DEF guardVars, GuardIInv, GuardTypeOK, GivenIsUsed, HookedIsKnown, DeadIsUnjudged,
              OwnThreadLoads, ThreadFound, BeingMade
<1>2. ASSUME NEW id \in Ids,
             \/ OriCreateThread(id) \/ PushBegin(id) \/ PushEnd(id)
             \/ LdrLoadDll(id) \/ BeginForeign(id) \/ ExitThread(id)
      PROVE  GuardIInv'
  BY <1>2, OriCreateThreadKeeps, PushBeginKeeps, PushEndKeeps, LdrLoadDllKeeps,
     BeginForeignKeeps, ExitKeeps
<1> QED BY <1>1, <1>2 DEF GuardNext

\* While no two threads were ever registered at the same time, the loader hook
\* (ghp_HOOK.cpp, ghp_CreateThread and ghp_LdrLoadDll) refuses no thread that was
\* created through it, whether by the game or by a stranger inside, and serves a
\* thread that was not only if it carries an id the hook was once given: for any
\* number of threads, over any reuse of ids.
THEOREM GameThreadsLoad == GuardSpec => []OwnThreadLoads
<1>1. GuardIInv => OwnThreadLoads
  BY DEF GuardIInv
<1> QED BY GuardInitIInv, GuardNextIInv, <1>1, PTL DEF GuardSpec

-----------------------------------------------------------------------------
(* The scanning pass keeps PassIInv.                                       *)

LEMMA MinIsLeast ==
    ASSUME NEW T \in SUBSET Nat, T # {}
    PROVE  Min(T) \in T /\ \A k \in T : Min(T) <= k
<1>1. \E m \in T : \A k \in T : m <= k
  BY LeastElement
<1> QED BY <1>1 DEF Min

\* A step that changes the counter of the scanning thread only.
LEMMA GotoFacts ==
    ASSUME PassTypeOK, NEW to \in {"next", "error"} \cup AtHand \cup Through, PassTo(to)
    PROVE  /\ pass' \in PassStates /\ pass'.pc = to
           /\ pass'.listed = pass.listed /\ pass'.todo = pass.todo
           /\ pass'.pid = pass.pid /\ pass'.program = pass.program
           /\ pass'.altered = pass.altered
<1>1. pass \in PassStates
  BY DEF PassTypeOK, PassStates
<1>2. pass' = [pass EXCEPT !.pc = to]
  BY DEF PassTo
<1> QED BY <1>1, <1>2 DEF PassStates

LEMMA NewPassFacts ==
    /\ NewPass \in PassStates
    /\ NewPass.pc = "enumerate" /\ NewPass.listed = {}
BY DEF NewPass, PassStates

LEMMA PassInitIInv == PassInit => PassIInv
<1> SUFFICES ASSUME PassInit PROVE PassIInv
  OBVIOUS
<1>1. pass = NewPass /\ scanned = {} /\ hacks = {} /\ altered = {}
      /\ running \in [Pids -> Programs \cup {NoProgram}]
      /\ fate = [p \in Pids |-> "new"] /\ known = [p \in Pids |-> {}]
  BY DEF PassInit
<1>2. PassTypeOK
  BY <1>1, NewPassFacts DEF PassTypeOK, PassStates, AtHand
<1>3. ListedIsCovered /\ ScannedIsClean
  BY <1>1, NewPassFacts DEF ListedIsCovered, ScannedIsClean, Through
<1>4. HandIsHeld /\ SeenIsScanned /\ AlteredBehind
  BY <1>1, NewPassFacts DEF HandIsHeld, SeenIsScanned, AlteredBehind, AtHand
<1> QED BY <1>2, <1>3, <1>4 DEF PassIInv

\* The conjuncts of the invariant, for the lemmas below.
LEMMA PassParts ==
    PassIInv => /\ PassTypeOK /\ ListedIsCovered /\ ScannedIsClean /\ HandIsHeld
                /\ SeenIsScanned /\ AlteredBehind
BY DEF PassIInv

\* A process may start under an id that is not held: it escapes under none that
\* was scanned without being told apart.
LEMMA StartProcessKeeps ==
    ASSUME PassIInv, NEW p \in Pids, NEW program \in Programs, StartProcess(p, program)
    PROVE  PassIInv'
<1>0. /\ PassTypeOK /\ ListedIsCovered /\ ScannedIsClean /\ HandIsHeld
      /\ SeenIsScanned /\ AlteredBehind
  BY PassParts
<1>1. /\ ~Held(p) /\ running' = [running EXCEPT ![p] = program]
      /\ fate' = [fate EXCEPT ![p] = IF p \in scanned THEN "inherited" ELSE "new"]
      /\ scanned' = scanned /\ hacks' = hacks /\ altered' = altered /\ pass' = pass
      /\ known' = known
  BY DEF StartProcess, netVars
<1>2. PassTypeOK'
  BY <1>0, <1>1 DEF PassTypeOK
<1>3. ListedIsCovered' /\ AlteredBehind'
  BY <1>0, <1>1 DEF ListedIsCovered, AlteredBehind
<1>4. /\ fate'[p] = (IF p \in scanned THEN "inherited" ELSE "new")
      /\ \A q \in Pids \ {p} : fate'[q] = fate[q] /\ running'[q] = running[q]
  BY <1>0, <1>1 DEF PassTypeOK
<1>5. ScannedIsClean'
  BY <1>0, <1>1, <1>4 DEF ScannedIsClean, Escaped, PassTypeOK
<1>6. pass.pc = "compare" => pass.pid # p
  BY <1>1 DEF Held
<1>7. HandIsHeld'
  BY <1>0, <1>1, <1>4, <1>6 DEF HandIsHeld, Escaped, AtHand, PassTypeOK
<1>8. SeenIsScanned'
  BY <1>0, <1>1, <1>4 DEF SeenIsScanned
<1> QED BY <1>2, <1>3, <1>5, <1>7, <1>8 DEF PassIInv

LEMMA EndProcessKeeps ==
    ASSUME PassIInv, NEW p \in Pids, EndProcess(p)
    PROVE  PassIInv'
<1>0. /\ PassTypeOK /\ ListedIsCovered /\ ScannedIsClean /\ HandIsHeld
      /\ SeenIsScanned /\ AlteredBehind
  BY PassParts
<1>1. /\ running' = [running EXCEPT ![p] = NoProgram] /\ fate' = fate
      /\ scanned' = scanned /\ hacks' = hacks /\ altered' = altered /\ pass' = pass
      /\ known' = known
  BY DEF EndProcess, netVars
<1>2. PassTypeOK'
  BY <1>0, <1>1 DEF PassTypeOK
<1>3. ListedIsCovered' /\ AlteredBehind' /\ SeenIsScanned'
  BY <1>0, <1>1 DEF ListedIsCovered, AlteredBehind, SeenIsScanned
<1>4. \A q \in Pids : Escaped(q)' => Escaped(q)
  BY <1>0, <1>1, PassAssumption DEF PassTypeOK, Escaped
<1>5. ScannedIsClean'
  BY <1>0, <1>1, <1>4 DEF ScannedIsClean, PassTypeOK
<1>6. HandIsHeld'
  BY <1>0, <1>1, <1>4 DEF HandIsHeld, AtHand, PassTypeOK
<1> QED BY <1>2, <1>3, <1>5, <1>6 DEF PassIInv

\* Others change memory, files and the lists of the server.
LEMMA AlterReceiveKeep ==
    ASSUME PassIInv, Alter \/ Receive
    PROVE  PassIInv'
<1>0. /\ PassTypeOK /\ ListedIsCovered /\ ScannedIsClean /\ HandIsHeld
      /\ SeenIsScanned /\ AlteredBehind
  BY PassParts
<1>1. /\ running' = running /\ fate' = fate /\ scanned' = scanned /\ pass' = pass
      /\ known' = known
  BY DEF Alter, Receive, worldVars, netVars
<1>2. /\ altered' \in SUBSET Apis
      /\ hacks' \in SUBSET SrvHacks /\ hacks \subseteq hacks'
  BY <1>0 DEF Alter, Receive, worldVars, netVars, PassTypeOK
<1>3. PassTypeOK'
  BY <1>0, <1>1, <1>2 DEF PassTypeOK
<1>4. ListedIsCovered' /\ AlteredBehind' /\ SeenIsScanned' /\ ScannedIsClean'
  BY <1>0, <1>1 DEF ListedIsCovered, AlteredBehind, SeenIsScanned, ScannedIsClean, Escaped
<1>5. HandIsHeld'
  BY <1>0, <1>1, <1>2 DEF HandIsHeld, Escaped
<1> QED BY <1>3, <1>4, <1>5 DEF PassIInv

\* The list of a pass, or the end of the game.
LEMMA EnumProcessesKeeps ==
    ASSUME PassIInv, EnumProcesses
    PROVE  PassIInv'
<1>0. /\ PassTypeOK /\ ListedIsCovered /\ ScannedIsClean /\ HandIsHeld
      /\ SeenIsScanned /\ AlteredBehind
  BY PassParts
<1>1. /\ pass.pc = "enumerate" /\ running' = running /\ altered' = altered
      /\ fate' = fate /\ scanned' = scanned /\ hacks' = hacks /\ known' = known
  BY DEF EnumProcesses, worldVars, netVars
<1>2. \/ /\ pass' \in PassStates /\ pass'.pc = "next" /\ pass'.listed = pass'.todo
      \/ /\ pass' \in PassStates /\ pass'.pc = "error"
  <2>1. CASE pass' = [pass EXCEPT !.pc = "next", !.listed = Live, !.todo = Live]
    <3>1. pass \in PassStates /\ Live \in SUBSET Pids
      BY <1>0 DEF PassTypeOK, PassStates, Live
    <3> QED BY <2>1, <3>1 DEF PassStates
  <2>2. CASE Error
    BY <1>0, <2>2, GotoFacts DEF Error
  <2> QED BY <2>1, <2>2 DEF EnumProcesses
<1>3. PassTypeOK'
  BY <1>0, <1>1, <1>2 DEF PassTypeOK, PassStates, AtHand
<1>4. ListedIsCovered' /\ AlteredBehind'
  BY <1>2 DEF ListedIsCovered, AlteredBehind, Through, AtHand
<1>5. ScannedIsClean' /\ HandIsHeld'
  BY <1>0, <1>1, <1>2 DEF ScannedIsClean, HandIsHeld, Escaped, AtHand
<1>6. SeenIsScanned'
  BY <1>0, <1>1 DEF SeenIsScanned
<1> QED BY <1>3, <1>4, <1>5, <1>6 DEF PassIInv

\* The least id of the list is next; if it was scanned the pass goes on.
LEMMA NextProcessKeeps ==
    ASSUME PassIInv, NextProcess
    PROVE  PassIInv'
<1>0. /\ PassTypeOK /\ ListedIsCovered /\ ScannedIsClean /\ HandIsHeld
      /\ SeenIsScanned /\ AlteredBehind
  BY PassParts
<1>1. /\ pass.pc = "next" /\ running' = running /\ altered' = altered
      /\ fate' = fate /\ scanned' = scanned /\ hacks' = hacks /\ known' = known
  BY DEF NextProcess, worldVars, netVars
<1>2. pass.listed \subseteq pass.todo \cup scanned /\ pass \in PassStates
  BY <1>0, <1>1 DEF ListedIsCovered, AtHand, PassTypeOK, PassStates
<1>3. CASE pass.todo = {}
  <2>1. PassTo("hidden")
    BY <1>3 DEF NextProcess
  <2>2. /\ pass' \in PassStates /\ pass'.pc = "hidden" /\ pass'.todo = {}
        /\ pass'.listed = pass.listed
    BY <1>0, <1>3, <2>1, GotoFacts DEF Through
  <2>3. PassTypeOK'
    BY <1>0, <1>1, <2>2 DEF PassTypeOK, PassStates, AtHand
  <2>4. ListedIsCovered' /\ AlteredBehind'
    BY <1>1, <1>2, <1>3, <2>2 DEF ListedIsCovered, AlteredBehind, AtHand
  <2>5. ScannedIsClean' /\ HandIsHeld' /\ SeenIsScanned'
    BY <1>0, <1>1, <2>2 DEF ScannedIsClean, HandIsHeld, SeenIsScanned, Escaped, AtHand
  <2> QED BY <2>3, <2>4, <2>5 DEF PassIInv
<1>4. CASE pass.todo # {}
  <2> DEFINE p == Min(pass.todo)
  <2>1. p \in pass.todo /\ p \in Pids
    BY <1>2, <1>4, MinIsLeast, PassAssumption DEF PassStates
  <2>2. pass' = [pass EXCEPT !.pc = IF p \in scanned THEN "next" ELSE "open",
                             !.pid = p, !.todo = @ \ {p}]
    BY <1>4 DEF NextProcess
  <2> HIDE DEF p
  <2>3. /\ pass' \in PassStates /\ pass'.pid = p /\ pass'.todo = pass.todo \ {p}
        /\ pass'.listed = pass.listed
        /\ pass'.pc = IF p \in scanned THEN "next" ELSE "open"
    BY <1>2, <2>1, <2>2 DEF PassStates, AtHand
  <2>4. PassTypeOK'
    BY <1>0, <1>1, <2>1, <2>3 DEF PassTypeOK, PassStates, AtHand
  <2>5. ListedIsCovered' /\ AlteredBehind'
    BY <1>1, <1>2, <2>3 DEF ListedIsCovered, AlteredBehind, AtHand, Through
  <2>6. ScannedIsClean' /\ HandIsHeld' /\ SeenIsScanned'
    BY <1>0, <1>1, <2>3 DEF ScannedIsClean, HandIsHeld, SeenIsScanned, Escaped, AtHand
  <2> QED BY <2>4, <2>5, <2>6 DEF PassIInv
<1> QED BY <1>3, <1>4

\* What is opened is compared with the cheats of this moment; what cannot be is
\* let pass.
LEMMA OpenProcessKeeps ==
    ASSUME PassIInv, OpenProcess
    PROVE  PassIInv'
<1>0. /\ PassTypeOK /\ ListedIsCovered /\ ScannedIsClean /\ HandIsHeld
      /\ SeenIsScanned /\ AlteredBehind
  BY PassParts
<1>1. /\ pass.pc = "open" /\ running' = running /\ altered' = altered
      /\ scanned' = scanned /\ hacks' = hacks
  BY DEF OpenProcess, worldVars, netVars
<1>2. /\ pass \in PassStates /\ pass.pid \in Pids /\ pass.pid \notin scanned
      /\ fate[pass.pid] # "seen"
      /\ pass.listed \subseteq pass.todo \cup scanned \cup {pass.pid}
  BY <1>0, <1>1 DEF PassTypeOK, PassStates, HandIsHeld, SeenIsScanned, ListedIsCovered, AtHand
<1>3. CASE /\ pass' = [pass EXCEPT !.pc = "compare", !.program = running[pass.pid]]
           /\ fate' = [fate EXCEPT ![pass.pid] = "seen"]
           /\ known' = [known EXCEPT ![pass.pid] = hacks]
  <2>1. running[pass.pid] \in Programs \cup {NoProgram}
    BY <1>0, <1>2 DEF PassTypeOK
  <2>2. /\ pass' \in PassStates /\ pass'.pc = "compare" /\ pass'.pid = pass.pid
        /\ pass'.program = running[pass.pid]
        /\ pass'.listed = pass.listed /\ pass'.todo = pass.todo
    BY <1>2, <1>3, <2>1 DEF PassStates, AtHand
  <2>3. /\ fate'[pass.pid] = "seen" /\ known'[pass.pid] = hacks
        /\ \A q \in Pids \ {pass.pid} : fate'[q] = fate[q] /\ known'[q] = known[q]
    BY <1>0, <1>2, <1>3 DEF PassTypeOK
  <2>4. PassTypeOK'
    BY <1>0, <1>1, <1>2, <1>3, <2>2 DEF PassTypeOK, PassStates
  <2>5. ListedIsCovered' /\ AlteredBehind'
    BY <1>1, <1>2, <2>2 DEF ListedIsCovered, AlteredBehind, AtHand, Through
  <2>6. ScannedIsClean' /\ HandIsHeld'
    BY <1>0, <1>1, <1>2, <2>2, <2>3 DEF ScannedIsClean, HandIsHeld, Escaped, AtHand, PassTypeOK
  <2>7. SeenIsScanned'
    BY <1>0, <1>1, <2>2, <2>3 DEF SeenIsScanned
  <2> QED BY <2>4, <2>5, <2>6, <2>7 DEF PassIInv
<1>4. CASE PassTo("mark") /\ fate' = fate /\ known' = known
  <2>1. /\ pass' \in PassStates /\ pass'.pc = "mark" /\ pass'.pid = pass.pid
        /\ pass'.listed = pass.listed /\ pass'.todo = pass.todo
    BY <1>0, <1>4, GotoFacts DEF AtHand
  <2>2. PassTypeOK'
    BY <1>0, <1>1, <1>2, <1>4, <2>1 DEF PassTypeOK, PassStates
  <2>3. ListedIsCovered' /\ AlteredBehind'
    BY <1>1, <1>2, <2>1 DEF ListedIsCovered, AlteredBehind, AtHand, Through
  <2>4. ScannedIsClean' /\ HandIsHeld' /\ SeenIsScanned'
    BY <1>0, <1>1, <1>2, <1>4, <2>1 DEF ScannedIsClean, HandIsHeld, SeenIsScanned, Escaped, AtHand
  <2> QED BY <2>2, <2>3, <2>4 DEF PassIInv
<1> QED BY <1>3, <1>4 DEF OpenProcess

\* A cheat ends the game; what is let pass was none, or is gone.
LEMMA ScanThisProcessKeeps ==
    ASSUME PassIInv, ScanThisProcess
    PROVE  PassIInv'
<1>0. /\ PassTypeOK /\ ListedIsCovered /\ ScannedIsClean /\ HandIsHeld
      /\ SeenIsScanned /\ AlteredBehind
  BY PassParts
<1>1. /\ pass.pc = "compare" /\ altered' = altered /\ fate' = fate
      /\ scanned' = scanned /\ hacks' = hacks /\ known' = known
  BY DEF ScanThisProcess, netVars
<1>2. /\ pass \in PassStates /\ pass.pid \in Pids /\ pass.pid \notin scanned
      /\ running[pass.pid] \in {pass.program, NoProgram}
      /\ known[pass.pid] \subseteq hacks
      /\ pass.listed \subseteq pass.todo \cup scanned \cup {pass.pid}
  BY <1>0, <1>1 DEF PassTypeOK, HandIsHeld, ListedIsCovered, AtHand
<1>3. CASE running' = [running EXCEPT ![pass.pid] = NoProgram] /\ Error
  <2>1. pass' \in PassStates /\ pass'.pc = "error"
    BY <1>0, <1>3, GotoFacts DEF Error
  <2>2. \A q \in Pids : Escaped(q)' => Escaped(q)
    BY <1>0, <1>1, <1>3, PassAssumption DEF PassTypeOK, Escaped
  <2>3. PassTypeOK'
    BY <1>0, <1>1, <1>2, <1>3, <2>1 DEF PassTypeOK, AtHand
  <2>4. ListedIsCovered' /\ AlteredBehind' /\ SeenIsScanned' /\ HandIsHeld'
    BY <2>1 DEF ListedIsCovered, AlteredBehind, SeenIsScanned, HandIsHeld, AtHand, Through
  <2>5. ScannedIsClean'
    BY <1>0, <1>1, <2>2 DEF ScannedIsClean, PassTypeOK
  <2> QED BY <2>3, <2>4, <2>5 DEF PassIInv
<1>4. CASE /\ IsCheat(pass.program) => running[pass.pid] = NoProgram
           /\ PassTo("mark") /\ running' = running
  <2>1. /\ pass' \in PassStates /\ pass'.pc = "mark" /\ pass'.pid = pass.pid
        /\ pass'.listed = pass.listed /\ pass'.todo = pass.todo
    BY <1>0, <1>4, GotoFacts DEF AtHand
  <2>2. running[pass.pid] \notin DbHacks \cup known[pass.pid]
    BY <1>0, <1>2, <1>4, PassAssumption DEF IsCheat, PassTypeOK
  <2>3. PassTypeOK'
    BY <1>0, <1>1, <1>2, <1>4, <2>1 DEF PassTypeOK
  <2>4. ListedIsCovered' /\ AlteredBehind'
    BY <1>1, <1>2, <2>1 DEF ListedIsCovered, AlteredBehind, AtHand, Through
  <2>5. ScannedIsClean' /\ HandIsHeld' /\ SeenIsScanned'
    BY <1>0, <1>1, <1>2, <1>4, <2>1, <2>2
       DEF ScannedIsClean, HandIsHeld, SeenIsScanned, Escaped, AtHand
  <2> QED BY <2>3, <2>4, <2>5 DEF PassIInv
<1> QED BY <1>3, <1>4 DEF ScanThisProcess

\* The id is remembered, and that it was not compared if it was not.
LEMMA MarkScannedKeeps ==
    ASSUME PassIInv, MarkScanned
    PROVE  PassIInv'
<1>0. /\ PassTypeOK /\ ListedIsCovered /\ ScannedIsClean /\ HandIsHeld
      /\ SeenIsScanned /\ AlteredBehind
  BY PassParts
<1> DEFINE p == pass.pid
<1>1. /\ pass.pc = "mark" /\ running' = running /\ altered' = altered
      /\ hacks' = hacks /\ known' = known /\ scanned' = scanned \cup {p}
      /\ fate' = [fate EXCEPT ![p] = IF @ = "seen" THEN @ ELSE "missed"]
  BY DEF MarkScanned, worldVars, netVars
<1>2. p \in Pids /\ pass.listed \subseteq pass.todo \cup scanned \cup {p}
      /\ (fate[p] = "seen" => ~Escaped(p))
  BY <1>0, <1>1 DEF PassTypeOK, ListedIsCovered, HandIsHeld, AtHand
<1>3. /\ pass' \in PassStates /\ pass'.pc = "next"
      /\ pass'.listed = pass.listed /\ pass'.todo = pass.todo
  BY <1>0, GotoFacts DEF MarkScanned
<1>4. /\ fate'[p] = (IF fate[p] = "seen" THEN "seen" ELSE "missed")
      /\ \A q \in Pids \ {p} : fate'[q] = fate[q]
  BY <1>0, <1>1, <1>2 DEF PassTypeOK
<1> HIDE DEF p
<1>5. PassTypeOK'
  BY <1>0, <1>1, <1>2, <1>3 DEF PassTypeOK, AtHand
<1>6. ListedIsCovered' /\ AlteredBehind' /\ HandIsHeld'
  BY <1>1, <1>2, <1>3 DEF ListedIsCovered, AlteredBehind, HandIsHeld, AtHand, Through
<1>7. ScannedIsClean'
  BY <1>0, <1>1, <1>2, <1>4 DEF ScannedIsClean, Escaped, PassTypeOK
<1>8. SeenIsScanned'
  <2>1. \A q \in Pids \ {p} : fate[q] = "seen" => q \in scanned
    BY <1>0, <1>1 DEF SeenIsScanned, p
  <2> QED BY <1>1, <1>4, <2>1 DEF SeenIsScanned
<1> QED BY <1>5, <1>6, <1>7, <1>8 DEF PassIInv

\* The scans behind the list of processes change no process but by ending it.
LEMMA ThroughKeeps ==
    ASSUME PassIInv, HiddenScan \/ SpeedScan \/ CheckCRC
    PROVE  PassIInv'
<1>0. /\ PassTypeOK /\ ListedIsCovered /\ ScannedIsClean /\ HandIsHeld
      /\ SeenIsScanned /\ AlteredBehind
  BY PassParts
<1>1. /\ pass.pc \in {"hidden", "speed", "crc"} /\ altered' = altered /\ fate' = fate
      /\ scanned' = scanned /\ hacks' = hacks /\ known' = known
  BY DEF HiddenScan, SpeedScan, CheckCRC, worldVars, netVars
<1>2. \/ PassTo("speed") \/ PassTo("crc") \/ PassTo("memory") \/ PassTo("error")
  BY DEF HiddenScan, SpeedScan, CheckCRC, Error
<1>3. /\ pass' \in PassStates /\ pass'.pc \in {"speed", "crc", "memory", "error"}
      /\ pass'.listed = pass.listed /\ pass'.todo = pass.todo
  BY <1>0, <1>2, GotoFacts DEF Through
<1>4. /\ running' \in [Pids -> Programs \cup {NoProgram}]
      /\ \A q \in Pids : running'[q] \in {running[q], NoProgram}
  <2>1. CASE HiddenScan
    <3>1. CASE running' = running
      BY <1>0, <3>1 DEF PassTypeOK
    <3>2. CASE \E gone \in SUBSET Live :
                  running' = [q \in Pids |-> IF q \in gone THEN NoProgram ELSE running[q]]
      BY <1>0, <3>2 DEF PassTypeOK
    <3> QED BY <2>1, <3>1, <3>2 DEF HiddenScan
  <2>2. CASE SpeedScan \/ CheckCRC
    BY <1>0, <2>2 DEF SpeedScan, CheckCRC, worldVars, PassTypeOK
  <2> QED BY <2>1, <2>2
<1>5. \A q \in Pids : Escaped(q)' => Escaped(q)
  BY <1>0, <1>1, <1>4, PassAssumption DEF Escaped, PassTypeOK
<1>6. PassTypeOK'
  BY <1>0, <1>1, <1>3, <1>4 DEF PassTypeOK, AtHand
<1>7. ListedIsCovered' /\ AlteredBehind' /\ HandIsHeld'
  BY <1>0, <1>1, <1>3 DEF ListedIsCovered, AlteredBehind, HandIsHeld, AtHand, Through
<1>8. ScannedIsClean'
  BY <1>0, <1>1, <1>5 DEF ScannedIsClean, PassTypeOK
<1>9. SeenIsScanned'
  BY <1>0, <1>1 DEF SeenIsScanned
<1> QED BY <1>6, <1>7, <1>8, <1>9 DEF PassIInv

\* Check returns the first piece that differs; behind it none is looked at.
LEMMA CheckMemoryKeeps ==
    ASSUME PassIInv, CheckMemory
    PROVE  PassIInv'
<1>0. /\ PassTypeOK /\ ListedIsCovered /\ ScannedIsClean /\ HandIsHeld
      /\ SeenIsScanned /\ AlteredBehind
  BY PassParts
<1>1. /\ pass.pc = "memory" /\ running' = running /\ altered' = altered /\ fate' = fate
      /\ scanned' = scanned /\ hacks' = hacks /\ known' = known
  BY DEF CheckMemory, worldVars, netVars
<1>2. altered \in SUBSET Apis /\ altered \in SUBSET Nat
  BY <1>0, PassAssumption DEF PassTypeOK
<1>3. /\ pass' \in PassStates /\ pass'.pc \in {"sleep", "error"}
      /\ pass'.listed = pass.listed /\ pass'.todo = pass.todo
      /\ pass'.pc = "sleep" => /\ pass'.altered = altered
                               /\ altered # {} => Min(altered) \in ApiWhitelist
  <2>1. CASE altered # {} /\ Min(altered) \notin ApiWhitelist
    <3>1. PassTo("error")
      BY <2>1 DEF CheckMemory, Error
    <3> QED BY <1>0, <3>1, GotoFacts
  <2>2. CASE ~(altered # {} /\ Min(altered) \notin ApiWhitelist)
    <3>1. pass' = [pass EXCEPT !.pc = "sleep", !.altered = altered]
      BY <2>2 DEF CheckMemory
    <3> QED BY <1>0, <1>2, <2>2, <3>1 DEF PassTypeOK, PassStates, Through
  <2> QED BY <2>1, <2>2
<1>4. PassTypeOK'
  BY <1>0, <1>1, <1>3 DEF PassTypeOK, AtHand
<1>5. ListedIsCovered' /\ HandIsHeld'
  BY <1>0, <1>1, <1>3 DEF ListedIsCovered, HandIsHeld, AtHand, Through
<1>6. ScannedIsClean' /\ SeenIsScanned'
  BY <1>0, <1>1 DEF ScannedIsClean, Escaped, SeenIsScanned
<1>7. AlteredBehind'
  <2> SUFFICES ASSUME pass'.pc = "sleep", NEW a \in altered \ ApiWhitelist
               PROVE  \E w \in altered \cap ApiWhitelist : w < a
    BY <1>3 DEF AlteredBehind
  <2>1. Min(altered) \in altered /\ \A k \in altered : Min(altered) <= k
    BY <1>2, MinIsLeast
  <2>2. Min(altered) \in ApiWhitelist
    BY <1>3
  <2>3. Min(altered) <= a /\ Min(altered) # a /\ Min(altered) \in Nat /\ a \in Nat
    BY <1>2, <2>1, <2>2
  <2> QED BY <2>1, <2>2, <2>3
<1> QED BY <1>4, <1>5, <1>6, <1>7 DEF PassIInv

LEMMA CreateSuccessorKeeps ==
    ASSUME PassIInv, CreateSuccessor
    PROVE  PassIInv'
<1>0. /\ PassTypeOK /\ ListedIsCovered /\ ScannedIsClean /\ HandIsHeld
      /\ SeenIsScanned /\ AlteredBehind
  BY PassParts
<1>1. /\ pass.pc = "sleep" /\ running' = running /\ altered' = altered /\ fate' = fate
      /\ scanned' = scanned /\ hacks' = hacks /\ known' = known
  BY DEF CreateSuccessor, worldVars, netVars
<1>2. /\ pass' \in PassStates
      /\ pass'.pc = "error" \/ (pass'.pc = "enumerate" /\ pass'.listed = {})
  BY <1>0, NewPassFacts, GotoFacts DEF CreateSuccessor, Error
<1>3. PassTypeOK'
  BY <1>0, <1>1, <1>2 DEF PassTypeOK, AtHand
<1>4. ListedIsCovered' /\ HandIsHeld' /\ AlteredBehind'
  BY <1>2 DEF ListedIsCovered, HandIsHeld, AlteredBehind, AtHand, Through
<1>5. ScannedIsClean' /\ SeenIsScanned'
  BY <1>0, <1>1 DEF ScannedIsClean, Escaped, SeenIsScanned
<1> QED BY <1>3, <1>4, <1>5 DEF PassIInv

LEMMA PassNextIInv == PassIInv /\ [PassNext]_passVars => PassIInv'
<1> SUFFICES ASSUME PassIInv, [PassNext]_passVars PROVE PassIInv'
  OBVIOUS
<1>1. CASE UNCHANGED passVars
  BY <1>1 DEF passVars, PassIInv, PassTypeOK, ListedIsCovered, ScannedIsClean, HandIsHeld,
              SeenIsScanned, AlteredBehind, Escaped
<1>2. CASE Others
  BY <1>2, StartProcessKeeps, EndProcessKeeps, AlterReceiveKeep DEF Others
<1>3. CASE EnumProcesses \/ NextProcess \/ OpenProcess \/ ScanThisProcess \/ MarkScanned
  BY <1>3, EnumProcessesKeeps, NextProcessKeeps, OpenProcessKeeps, ScanThisProcessKeeps,
     MarkScannedKeeps
<1>4. CASE HiddenScan \/ SpeedScan \/ CheckCRC \/ CheckMemory \/ CreateSuccessor
  BY <1>4, ThroughKeeps, CheckMemoryKeeps, CreateSuccessorKeeps
<1> QED BY <1>1, <1>2, <1>3, <1>4 DEF PassNext

\* A pass that ends without an error (ghp_CORE.cpp, GHPCore and ProcessScan)
\* leaves no cheat of its list running, but for a process that it could not
\* open, an id that was scanned before it was used again, and an entry that came
\* after the scan; and the protected memory that differs, and may not, lies
\* behind a piece that may: for any number of processes, programs and pieces.
THEOREM PassCovers == PassSpec => []ScanCovers
<1>1. PassIInv => ScanCovers
  <2> SUFFICES ASSUME PassIInv, pass.pc = "sleep"
               PROVE  /\ \A p \in pass.listed : ~Escaped(p)
                      /\ \A a \in pass.altered \ ApiWhitelist :
                            \E w \in pass.altered \cap ApiWhitelist : w < a
    BY DEF ScanCovers, Escaped
  <2>1. pass.listed \subseteq scanned
    BY PassParts DEF ListedIsCovered, Through, AtHand
  <2> QED BY <2>1, PassParts DEF ScannedIsClean, AlteredBehind
<1> QED BY PassInitIInv, PassNextIInv, <1>1, PTL DEF PassSpec

-----------------------------------------------------------------------------
(* The hand-over of the account name (NetBox).                             *)

\* From the comparison that finds a new name until LastGameLogin has it, the
\* game's name stays as it was, unless the hand-over counts as raced; and what
\* is about to be remembered has been told.
HandoverIInv ==
    /\ link \in {"connecting", "accepted", "ended"}
    /\ torn \in BOOLEAN /\ raced \in BOOLEAN
    /\ phase = "tell" => link = "accepted"
    /\ phase \in {"tell", "store"} /\ ~raced => ~torn
    /\ phase = "tell" /\ ~raced => login # NoUser
    /\ phase = "store" /\ ~raced /\ login # NoUser => told = login
    /\ phase \notin {"tell", "store"} /\ ~raced /\ lastLogin # NoUser => told = lastLogin

LEMMA HandoverInitially == BoxInit => HandoverIInv
BY DEF BoxInit, HandoverIInv

LEMMA HandoverInductive == HandoverIInv /\ [BoxNext]_boxVars => HandoverIInv'
<1> SUFFICES ASSUME HandoverIInv, [BoxNext]_boxVars
             PROVE  HandoverIInv'
  OBVIOUS
<1> USE DEF HandoverIInv
<1>1. ASSUME NEW u \in Names, SetLogin(u)
      PROVE  HandoverIInv'
  BY <1>1 DEF SetLogin
<1>2. CASE SetLoginDone
  BY <1>2 DEF SetLoginDone
<1>3. CASE CompareLogin
  <2>1. PICK u \in Names :
          /\ Copied(u)
          /\ phase' = IF link # "accepted" \/ u = lastLogin THEN "packets"
                      ELSE IF u = NoUser THEN "store" ELSE "tell"
    BY <1>3 DEF CompareLogin
  <2>2. /\ phase = "poll" /\ raced' = IF phase' = "packets" THEN raced ELSE torn
        /\ link' = link /\ login' = login /\ torn' = torn
        /\ lastLogin' = lastLogin /\ told' = told
    BY <1>3 DEF CompareLogin
  <2>3. CASE phase' = "packets"
    BY <2>2, <2>3
  <2>4. CASE phase' = "store"
    BY <2>1, <2>2, <2>4 DEF Copied
  <2>5. CASE phase' = "tell"
    BY <2>1, <2>2, <2>5 DEF Copied
  <2> QED
    BY <2>1, <2>3, <2>4, <2>5
<1>4. CASE Tell
  <2>1. PICK u \in Names : Copied(u) /\ told' = IF link = "accepted" THEN u ELSE told
    BY <1>4 DEF Tell
  <2> QED
    BY <1>4, <2>1 DEF Tell, Copied
<1>5. CASE Store
  <2>1. PICK u \in Names : Copied(u) /\ lastLogin' = u
    BY <1>5 DEF Store
  <2> QED
    BY <1>5, <2>1 DEF Store, Copied
<1>6. CASE NoPacket
  BY <1>6 DEF NoPacket
<1>7. CASE SendId
  BY <1>7 DEF SendId
<1>8. CASE Accepted
  BY <1>8 DEF Accepted
<1>9. CASE ReceiveKey \/ Fail
  BY <1>9 DEF ReceiveKey, Fail
<1>10. CASE UNCHANGED boxVars
  BY <1>10 DEF boxVars
<1> QED
  BY <1>1, <1>2, <1>3, <1>4, <1>5, <1>6, <1>7, <1>8, <1>9, <1>10 DEF BoxNext, Loop

\* At rest the server has been told the name that the game has, whatever the
\* names and however often the game changed them, also before the connection
\* was accepted, unless the game wrote it in the middle of the hand-over.
THEOREM NameIsHandedOver == BoxSpec => []ToldIsCurrent
<1>1. HandoverIInv => ToldIsCurrent
  BY DEF HandoverIInv, ToldIsCurrent
<1>2. BoxSpec => []HandoverIInv
  BY HandoverInitially, HandoverInductive, PTL DEF BoxSpec
<1> QED
  BY <1>1, <1>2, PTL

-----------------------------------------------------------------------------
(* The ids that the client sends (NetBox).                                 *)

\* The ids are sent in the order of the list, and the rest is still in it;
\* while the loop runs its counter is the number of ids sent.
IdsIInv ==
    /\ machine \in Seq(Hwids) /\ hwids \in Seq(Hwids) /\ sent \in Seq(Hwids)
    /\ Len(machine) <= MaxHwids
    /\ Len(sent) + Len(hwids) = Len(machine)
    /\ \A k \in 1 .. Len(sent) : sent[k] = machine[k]
    /\ \A k \in 1 .. Len(hwids) : hwids[k] = machine[Len(sent) + k]
    /\ turn = Len(sent) /\ turn <= (Len(machine) + 1) \div 2
    /\ phase = "ids" => link = "accepted"
    /\ link = "connecting" => turn = 0
    /\ link = "accepted" /\ phase # "ids" => turn = (Len(machine) + 1) \div 2

\* Once the connection is accepted and the handler is through, the server has
\* the first half of the list, rounded up, and no other id.
HalfOfIdsSent ==
    link = "accepted" /\ phase # "ids" =>
        /\ Len(sent) = (Len(machine) + 1) \div 2
        /\ \A k \in 1 .. Len(sent) : sent[k] = machine[k]

LEMMA IdsInitially == BoxInit => IdsIInv
<1> SUFFICES ASSUME BoxInit PROVE IdsIInv
  OBVIOUS
<1>1. machine \in Seq(Hwids) /\ Len(machine) \in 0 .. MaxHwids
  BY NetBoxAssumption DEF BoxInit, BoundedSeq, SeqOf
<1>2. /\ hwids = machine /\ sent = <<>> /\ turn = 0
      /\ link = "connecting" /\ phase = "poll"
  BY DEF BoxInit
<1>3. <<>> \in Seq(Hwids) /\ Len(<<>>) = 0
  BY EmptySeq
<1>4. Len(machine) \in Nat /\ 0 <= (Len(machine) + 1) \div 2
  BY <1>1
<1> QED BY <1>1, <1>2, <1>3, <1>4, NetBoxAssumption DEF IdsIInv

LEMMA IdIsSent ==
  ASSUME IdsIInv, SendId, turn < Len(hwids)
  PROVE  IdsIInv'
<1>1. /\ phase = "ids" /\ phase' = phase /\ link' = link /\ machine' = machine
      /\ sent' = Append(sent, Head(hwids)) /\ hwids' = Tail(hwids) /\ turn' = turn + 1
  BY DEF SendId
<1>2. /\ machine \in Seq(Hwids) /\ hwids \in Seq(Hwids) /\ sent \in Seq(Hwids)
      /\ Len(machine) \in Nat /\ Len(hwids) \in Nat /\ Len(sent) \in Nat
      /\ Len(sent) + Len(hwids) = Len(machine) /\ turn = Len(sent)
      /\ link = "accepted"
  BY <1>1 DEF IdsIInv
<1>3. hwids # <<>>
  BY <1>2
<1>4. /\ Head(hwids) \in Hwids /\ Tail(hwids) \in Seq(Hwids)
      /\ Len(Tail(hwids)) = Len(hwids) - 1 /\ Head(hwids) = hwids[1]
      /\ \A k \in 1 .. Len(Tail(hwids)) : Tail(hwids)[k] = hwids[k + 1]
  BY <1>2, <1>3, HeadTailElements
<1>5. /\ sent' \in Seq(Hwids) /\ Len(sent') = Len(sent) + 1
      /\ sent'[Len(sent) + 1] = Head(hwids)
      /\ \A k \in 1 .. Len(sent) : sent'[k] = sent[k]
  BY <1>1, <1>2, <1>4, AppendElements
<1>6. \A k \in 1 .. Len(sent') : sent'[k] = machine'[k]
  <2>1. Head(hwids) = machine[Len(sent) + 1]
    BY <1>2, <1>3, <1>4 DEF IdsIInv
  <2>2. \A k \in 1 .. Len(sent) : sent[k] = machine[k]
    BY DEF IdsIInv
  <2> QED BY <1>1, <1>2, <1>5, <2>1, <2>2
<1>7. \A k \in 1 .. Len(hwids') : hwids'[k] = machine'[Len(sent') + k]
  <2> SUFFICES ASSUME NEW k \in 1 .. Len(Tail(hwids))
               PROVE  Tail(hwids)[k] = machine[Len(sent) + 1 + k]
    BY <1>1, <1>5
  <2>1. k + 1 \in 1 .. Len(hwids) /\ Tail(hwids)[k] = hwids[k + 1]
    BY <1>2, <1>4
  <2>2. hwids[k + 1] = machine[Len(sent) + (k + 1)]
    BY <2>1 DEF IdsIInv
  <2>3. Len(sent) + (k + 1) = Len(sent) + 1 + k
    BY <1>2
  <2> QED BY <2>1, <2>2, <2>3
<1>8. turn' <= (Len(machine') + 1) \div 2
  BY <1>1, <1>2
<1> QED BY <1>1, <1>2, <1>4, <1>5, <1>6, <1>7, <1>8 DEF IdsIInv

\* The loop ends when the counter meets the bound that comes towards it.
LEMMA IdsEndHalfWay ==
  ASSUME IdsIInv, SendId, ~(turn < Len(hwids))
  PROVE  IdsIInv'
<1>1. /\ phase = "ids" /\ phase' = "packets" /\ link' = link /\ machine' = machine
      /\ sent' = sent /\ hwids' = hwids /\ turn' = turn
  BY DEF SendId
<1>2. turn = (Len(machine) + 1) \div 2
  BY DEF IdsIInv
<1>3. link = "accepted"
  BY <1>1 DEF IdsIInv
<1> QED BY <1>1, <1>2, <1>3 DEF IdsIInv

LEMMA IdsInductive == IdsIInv /\ [BoxNext]_boxVars => IdsIInv'
<1> SUFFICES ASSUME IdsIInv, [BoxNext]_boxVars PROVE IdsIInv'
  OBVIOUS
<1>1. CASE SendId
  BY <1>1, IdIsSent, IdsEndHalfWay
<1>2. CASE Accepted
  BY <1>2 DEF Accepted, IdsIInv
<1>3. ASSUME UNCHANGED <<hwids, turn, machine, sent>>,
             phase \notin {"ids"}, phase' # "ids", link' \in {link, "ended"}
      PROVE  IdsIInv'
  BY <1>3 DEF IdsIInv
<1>4. CASE (\E u \in Names : SetLogin(u)) \/ SetLoginDone \/ UNCHANGED boxVars
  BY <1>4 DEF SetLogin, SetLoginDone, boxVars, IdsIInv
<1>5. CASE CompareLogin
  <2>1. PICK u \in Names :
          phase' = IF link # "accepted" \/ u = lastLogin THEN "packets"
                   ELSE IF u = NoUser THEN "store" ELSE "tell"
    BY <1>5 DEF CompareLogin
  <2> QED BY <1>3, <1>5, <2>1 DEF CompareLogin
<1>6. CASE Tell \/ Store \/ NoPacket
  BY <1>3, <1>6 DEF Tell, Store, NoPacket
<1>7. CASE ReceiveKey \/ Fail
  BY <1>3, <1>7 DEF ReceiveKey, Fail
<1> QED BY <1>1, <1>2, <1>4, <1>5, <1>6, <1>7 DEF BoxNext, Loop

LEMMA IdsInvariant == BoxSpec => []IdsIInv
BY IdsInitially, IdsInductive, PTL DEF BoxSpec

\* However many ids the machine has, the loop that should send them all sends
\* the first half, in order, and stops for good.
THEOREM HalfOfIdsAreSent == BoxSpec => []HalfOfIdsSent
<1>1. IdsIInv => HalfOfIdsSent
  BY DEF IdsIInv, HalfOfIdsSent
<1> QED BY <1>1, IdsInvariant, PTL

\* All ids of a machine arrive only where it has one, or none.
THEOREM FewIdsAreSent == BoxSpec => [](Len(machine) <= 1 => AllIdsSent)
<1>1. ASSUME IdsIInv, Len(machine) <= 1 PROVE AllIdsSent
  <2> SUFFICES ASSUME link = "accepted", phase # "ids" PROVE sent = machine
    BY DEF AllIdsSent
  <2>1. Len(machine) \in Nat /\ Len(sent) = (Len(machine) + 1) \div 2
    BY <1>1 DEF IdsIInv
  <2>2. Len(sent) = Len(machine)
    BY <1>1, <2>1
  <2>3. /\ sent \in Seq(Hwids) /\ machine \in Seq(Hwids)
        /\ \A k \in 1 .. Len(sent) : sent[k] = machine[k]
    BY <1>1 DEF IdsIInv
  <2> QED BY <2>2, <2>3, SeqEqual
<1> QED BY <1>1, IdsInvariant, PTL

LEMMA BoxTypeInductive == IdsIInv /\ BoxTypeOK /\ [BoxNext]_boxVars => BoxTypeOK'
<1> SUFFICES ASSUME IdsIInv, BoxTypeOK, [BoxNext]_boxVars PROVE BoxTypeOK'
  OBVIOUS
<1>1. hwids' \in Seq(Hwids) /\ machine' \in Seq(Hwids) /\ sent' \in Seq(Hwids)
  BY IdsInductive DEF IdsIInv
<1>2. turn' \in 0 .. (MaxHwids + 1) \div 2
  BY IdsInductive, NetBoxAssumption DEF IdsIInv
<1>3. CASE SendId
  BY <1>1, <1>2, <1>3 DEF SendId, BoxTypeOK
<1>4. CASE (\E u \in Names : SetLogin(u)) \/ SetLoginDone \/ UNCHANGED boxVars
  BY <1>1, <1>2, <1>4 DEF SetLogin, SetLoginDone, boxVars, BoxTypeOK
<1>5. CASE CompareLogin
  BY <1>1, <1>2, <1>5 DEF CompareLogin, BoxTypeOK
<1>6. CASE Tell \/ Store \/ NoPacket
  BY <1>1, <1>2, <1>6 DEF Tell, Store, NoPacket, BoxTypeOK
<1>7. CASE Accepted \/ ReceiveKey \/ Fail
  BY <1>1, <1>2, <1>7 DEF Accepted, ReceiveKey, Fail, BoxTypeOK
<1> QED BY <1>3, <1>4, <1>5, <1>6, <1>7 DEF BoxNext, Loop

\* The counter of the loop stays within half the number of ids, and what is
\* sent, told and remembered are ids and names, for any ids and names.
THEOREM BoxTypeCorrect == BoxSpec => []BoxTypeOK
<1>1. BoxInit => BoxTypeOK
  <2> SUFFICES ASSUME BoxInit PROVE BoxTypeOK
    OBVIOUS
  <2>1. hwids \in Seq(Hwids) /\ machine \in Seq(Hwids) /\ sent \in Seq(Hwids) /\ turn = 0
    BY IdsInitially DEF IdsIInv, BoxInit
  <2>2. turn \in 0 .. (MaxHwids + 1) \div 2
    BY <2>1, NetBoxAssumption
  <2> QED BY <2>1, <2>2 DEF BoxInit, BoxTypeOK, Names
<1> QED BY <1>1, IdsInvariant, BoxTypeInductive, PTL DEF BoxSpec

-----------------------------------------------------------------------------
(* The end of the client (ClientShutdown).                                 *)

\* An error that is noted and not yet shown has set both globals.
NotedIsThere ==
    \A t \in Raisers :
        /\ Noting(t) => errorid # "none"
        /\ pc[t] = "spawn" \/ pc[Browser(t)] = "browse" => errorcode # "none"

\* An error that is noted and not yet shown stands in both globals, unless
\* another error came between; a thread raises one error and no more.
NotedIsWhole ==
    /\ \A t \in Raisers :
        pc[Browser(t)] # "none" => pc[t] \notin Working \cup {"id", "code", "spawn"}
    /\ NotedIsThere
    /\ ~mixed =>
        /\ \A t \in Raisers : pc[t] = "code" => errorid = t
        /\ \A t \in Raisers : pc[t] = "spawn" \/ pc[Browser(t)] = "browse"
                                => errorid = t /\ errorcode = t
    /\ ShownWasRaised

\* Before the polling thread has connected, nobody can shut the connection down.
BeforeConnection ==
    /\ pc["netbox"] \in {"open", "connect"} => ~active /\ \A t \in Threads : ~ShuttingDown(t)
    /\ pc["netbox"] = "connect" => peer = "live"

\* A thread that shuts the connection down alone has the peer to itself, and
\* has cleared ConnectionActive before it touches the peer.
OneShutsDown ==
    ~crowded =>
        /\ \A t, other \in Threads : ShuttingDown(t) /\ ShuttingDown(other) => t = other
        /\ \A t \in Threads : pc[t] \in {"clear", "shutdown", "destroy"} => peer = "live"
        /\ active => peer = "live" /\ \A t \in Threads : ShuttingDown(t) => pc[t] = "clear"

EndIInv == TypeOK /\ NotedIsWhole /\ BeforeConnection /\ OneShutsDown

\* Raisers and the threads that show their errors are different threads.
LEMMA BrowsersApart ==
    /\ "netbox" \in Threads /\ "core" \in Threads /\ "game" \in Threads
    /\ \A b \in Browsers : b \in Threads /\ b \notin {"netbox", "core", "game"}
    /\ \A t \in Raisers : t \in Threads /\ t \in {"netbox", "core", "game"}
                          /\ Browser(t) \in Browsers
    /\ \A t, other \in Raisers : Browser(t) = Browser(other) => t = other
<1>1. \A t \in Raisers : t \in {"netbox", "core", "game"}
  BY ShutdownAssumption
<1>2. /\ Browser("netbox") = "netbox browser" /\ Browser("core") = "core browser"
      /\ Browser("game") = "game browser"
  BY DEF Browser
<1>3. \A b \in Browsers : b \in {"netbox browser", "core browser", "game browser"}
  BY <1>1, <1>2 DEF Browsers
<1>4. \A t, other \in Raisers : Browser(t) = Browser(other) => t = other
  BY <1>1, <1>2
<1>5. \A t \in Raisers : Browser(t) \in Browsers
  BY DEF Browsers
<1> QED
  BY <1>1, <1>3, <1>4, <1>5 DEF Threads

PcTypeOK ==
    /\ pc \in [Threads -> Waiting \cup Working \cup InError \cup InStop \cup {"browse"}]
    /\ \A b \in Browsers : pc[b] \notin Working \cup InError \cup {"dead"}
    /\ pc["netbox"] # "exit"

\* One thread gets on, the others stay where they are.
LEMMA ThreadMoves ==
    ASSUME PcTypeOK, NEW t \in Threads,
           NEW to \in Waiting \cup Working \cup InError \cup InStop \cup {"browse"},
           t \in Browsers => to \notin Working \cup InError \cup {"dead"},
           t = "netbox" => to # "exit",
           Goto(t, to)
    PROVE  PcTypeOK' /\ pc'[t] = to /\ \A other \in Threads : other # t => pc'[other] = pc[other]
<1>1. pc' = [pc EXCEPT ![t] = to]
  BY DEF Goto
<1>2. pc'[t] = to /\ \A other \in Threads : other # t => pc'[other] = pc[other]
  BY <1>1 DEF PcTypeOK
<1>3. pc' \in [Threads -> Waiting \cup Working \cup InError \cup InStop \cup {"browse"}]
  BY <1>1 DEF PcTypeOK
<1>4. \A b \in Browsers : pc'[b] \notin Working \cup InError \cup {"dead"}
  BY <1>2, BrowsersApart DEF PcTypeOK
<1>5. pc'["netbox"] # "exit"
  BY <1>2, BrowsersApart DEF PcTypeOK
<1> QED
  BY <1>2, <1>3, <1>4, <1>5 DEF PcTypeOK

LEMMA EndInitially == Init => EndIInv
<1> SUFFICES ASSUME Init PROVE EndIInv
  OBVIOUS
<1>1. /\ pc["netbox"] = "open"
      /\ pc["core"] = IF "core" \in Raisers THEN "scan" ELSE "none"
      /\ pc["game"] = "play"
      /\ \A b \in Browsers : pc[b] = "none"
  BY BrowsersApart DEF Init
<1>2. \A t \in Threads : pc[t] \in {"open", "scan", "play", "none"}
  BY DEF Init
<1>3. pc \in [Threads -> Waiting \cup Working \cup InError \cup InStop \cup {"browse"}]
  <2>1. DOMAIN pc = Threads /\ pc = [t \in Threads |-> pc[t]]
    BY DEF Init
  <2> QED
    BY <1>2, <2>1 DEF Waiting, Working
<1>4. TypeOK
  BY <1>1, <1>3 DEF Init, TypeOK, Working, InError
<1>5. NotedIsWhole
  BY <1>1, <1>2, BrowsersApart DEF Init, NotedIsWhole, NotedIsThere, Noting, ShownWasRaised
<1>6. BeforeConnection /\ OneShutsDown
  BY <1>1, <1>2 DEF Init, BeforeConnection, OneShutsDown, ShuttingDown
<1> QED
  BY <1>4, <1>5, <1>6 DEF EndIInv

\* What has been noted stays whole when a thread gets on without an error.
LEMMA NotedStaysWhole ==
    ASSUME NotedIsWhole, PcTypeOK, NEW t \in Threads, NEW to,
           pc'[t] = to /\ \A other \in Threads : other # t => pc'[other] = pc[other],
           to \notin {"none", "code", "spawn", "browse"},
           t \in Raisers /\ pc[Browser(t)] # "none" => to \notin Working \cup {"id"},
           pc[t] # "none",
           UNCHANGED <<errorid, errorcode, shown, mixed>>
    PROVE  NotedIsWhole'
<1>1. \A r \in Raisers : pc'[Browser(r)] # "none" => pc'[r] \notin Working \cup {"id", "code", "spawn"}
  <2> SUFFICES ASSUME NEW r \in Raisers, pc'[Browser(r)] # "none"
               PROVE  pc'[r] \notin Working \cup {"id", "code", "spawn"}
    OBVIOUS
  <2>1. r \in Threads /\ Browser(r) \in Threads /\ r # Browser(r)
    BY BrowsersApart
  <2>2. pc[Browser(r)] # "none"
    BY <2>1
  <2>3. CASE r = t
    BY <2>2, <2>3
  <2>4. CASE r # t
    BY <2>1, <2>2, <2>4 DEF NotedIsWhole
  <2> QED
    BY <2>3, <2>4
<1>2. \A r \in Raisers : /\ pc'[r] \in {"code", "spawn"} => pc[r] = pc'[r]
                         /\ pc'[Browser(r)] = "browse" => pc[Browser(r)] = "browse"
  BY BrowsersApart
<1> QED
  BY <1>1, <1>2 DEF NotedIsWhole, NotedIsThere, Noting, ShownWasRaised

\* A step that does not shut the connection down.
LEMMA OutsideShutdown ==
    ASSUME BeforeConnection, OneShutsDown,
           \A t \in Threads : ShuttingDown(t)' => pc'[t] = pc[t],
           pc'["netbox"] \in {"open", "connect"} => pc'["netbox"] = pc["netbox"],
           UNCHANGED <<active, peer, crowded>>
    PROVE  BeforeConnection' /\ OneShutsDown'
<1>1. \A t \in Threads : ShuttingDown(t)' => ShuttingDown(t)
  BY DEF ShuttingDown
<1>2. BeforeConnection'
  BY <1>1 DEF BeforeConnection
<1>3. \A t \in Threads : pc'[t] \in {"clear", "shutdown", "destroy"} => pc'[t] = pc[t]
  BY DEF ShuttingDown
<1>4. OneShutsDown'
  BY <1>1, <1>3 DEF OneShutsDown
<1> QED
  BY <1>2, <1>4

LEMMA CallsEnd ==
    ASSUME peer \in {"null", "live", "freed"}, Call(peer)
    PROVE  process' \in {"alive", "crashed"} /\ (peer = "live" => process' = "alive")
BY DEF Call

\* The polling thread opens the connection.
LEMMA OpenStep == EndIInv /\ (Open \/ Connect) => EndIInv'
<1> SUFFICES ASSUME EndIInv, Open \/ Connect
             PROVE  EndIInv'
  OBVIOUS
<1> DEFINE to == IF pc["netbox"] = "open" THEN "connect" ELSE "poll"
<1>1. PcTypeOK /\ pc["netbox"] \in {"open", "connect"} /\ Goto("netbox", to)
  BY DEF EndIInv, TypeOK, PcTypeOK, Open, Connect
<1>2. /\ PcTypeOK' /\ pc'["netbox"] = to
      /\ \A other \in Threads : other # "netbox" => pc'[other] = pc[other]
  BY <1>1, ThreadMoves, BrowsersApart DEF Working
<1>3. TypeOK'
  BY <1>2 DEF EndIInv, TypeOK, PcTypeOK, Open, Connect
<1>4. NotedIsWhole'
  <2>1. "netbox" \in Raisers => pc[Browser("netbox")] = "none"
    BY <1>1 DEF EndIInv, NotedIsWhole, Working
  <2>2. UNCHANGED <<errorid, errorcode, shown, mixed>>
    BY DEF Open, Connect
  <2> QED
    BY <1>1, <1>2, <2>1, <2>2, NotedStaysWhole, BrowsersApart DEF EndIInv
<1>5. \A t \in Threads : ~ShuttingDown(t) /\ ~ShuttingDown(t)'
  BY <1>1, <1>2 DEF EndIInv, BeforeConnection, ShuttingDown
<1>6. BeforeConnection' /\ OneShutsDown'
  <2>1. CASE Open
    BY <1>2, <1>5, <2>1 DEF Open, EndIInv, BeforeConnection, OneShutsDown, ShuttingDown
  <2>2. CASE Connect
    BY <1>2, <1>5, <2>2 DEF Connect, EndIInv, BeforeConnection, OneShutsDown, ShuttingDown
  <2> QED
    BY <2>1, <2>2
<1> QED
  BY <1>3, <1>4, <1>6 DEF EndIInv

\* A thread at work gets on with it, meets an error or begins to stop.
LEMMA WorkStep ==
    ASSUME EndIInv,
           \/ Poll \/ Use \/ Quit
           \/ \E t \in Raisers : Find(t) \/ Report(t) \/ Raise(t)
    PROVE  EndIInv'
<1>1. PICK t \in {"netbox", "core", "game"}, to \in {"use", "poll", "send", "id", "check"} :
        /\ Goto(t, to) /\ pc[t] \in Working
        /\ UNCHANGED <<active, peer, errorid, errorcode, shown, mixed, crowded>>
  <2>1. CASE Poll
    BY <2>1 DEF Poll, Working
  <2>2. CASE Use
    BY <2>2 DEF Use, Working
  <2>3. CASE Quit
    BY <2>3 DEF Quit, Working
  <2>4. ASSUME NEW t \in Raisers, Find(t) \/ Report(t) \/ Raise(t)
        PROVE  /\ t \in {"netbox", "core", "game"} /\ pc[t] \in Working
               /\ Goto(t, "id") \/ Goto(t, "send")
               /\ UNCHANGED <<active, peer, errorid, errorcode, shown, mixed, crowded>>
    BY <2>4, BrowsersApart DEF Find, Report, Raise, Working
  <2> QED
    BY <2>1, <2>2, <2>3, <2>4
<1>2. PcTypeOK /\ t \in Threads /\ t \notin Browsers
  BY BrowsersApart DEF EndIInv, TypeOK, PcTypeOK
<1>3. /\ PcTypeOK' /\ pc'[t] = to
      /\ \A other \in Threads : other # t => pc'[other] = pc[other]
  BY <1>1, <1>2, ThreadMoves DEF Working, InError, InStop
<1>4. TypeOK'
  <2>1. process' \in {"alive", "ended", "crashed"}
    <3>1. CASE Use \/ \E r \in Raisers : Report(r)
      BY <3>1, CallsEnd DEF Use, Report, EndIInv, TypeOK
    <3>2. CASE Poll \/ Quit \/ \E r \in Raisers : Find(r) \/ Raise(r)
      BY <3>2 DEF Poll, Find, Quit, Raise, EndIInv, TypeOK
    <3> QED
      BY <3>1, <3>2
  <2> QED
    BY <1>1, <1>3, <2>1 DEF EndIInv, TypeOK, PcTypeOK
<1>5. NotedIsWhole'
  <2>1. t \in Raisers => pc[Browser(t)] = "none"
    BY <1>1 DEF EndIInv, NotedIsWhole
  <2>2. pc[t] # "none"
    BY <1>1 DEF Working
  <2> QED
    BY <1>1, <1>2, <1>3, <2>1, <2>2, NotedStaysWhole DEF EndIInv
<1>6. BeforeConnection' /\ OneShutsDown'
  <2>1. \A other \in Threads : ShuttingDown(other)' => pc'[other] = pc[other]
    BY <1>3 DEF ShuttingDown
  <2>2. pc'["netbox"] \in {"open", "connect"} => pc'["netbox"] = pc["netbox"]
    BY <1>3, BrowsersApart
  <2> QED
    BY <1>1, <2>1, <2>2, OutsideShutdown DEF EndIInv
<1> QED
  BY <1>4, <1>5, <1>6 DEF EndIInv

\* Error and ErrorBrowser leave the connection alone.
LEMMA ErrorMoves ==
    ASSUME EndIInv, NEW t \in Threads, NEW to \in {"code", "spawn", "nap", "check"},
           t \in Browsers => to = "check",
           Goto(t, to),
           UNCHANGED <<process, active, peer, crowded>>
    PROVE  /\ PcTypeOK' /\ BeforeConnection' /\ OneShutsDown'
           /\ pc'[t] = to /\ \A other \in Threads : other # t => pc'[other] = pc[other]
<1>1. PcTypeOK
  BY DEF EndIInv, TypeOK, PcTypeOK
<1>2. /\ PcTypeOK' /\ pc'[t] = to
      /\ \A other \in Threads : other # t => pc'[other] = pc[other]
  BY <1>1, ThreadMoves DEF InError, InStop, Working
<1>3. \A other \in Threads : ShuttingDown(other)' => pc'[other] = pc[other]
  BY <1>2 DEF ShuttingDown
<1>4. pc'["netbox"] \in {"open", "connect"} => pc'["netbox"] = pc["netbox"]
  BY <1>2, BrowsersApart
<1> QED
  BY <1>2, <1>3, <1>4, OutsideShutdown DEF EndIInv

LEMMA NoteIdStep == ASSUME EndIInv, NEW t \in Raisers, NoteId(t) PROVE EndIInv'
<1>1. t \in Threads /\ Browser(t) \in Threads /\ t \notin Browsers /\ t # Browser(t)
  BY BrowsersApart
<1>2. /\ PcTypeOK' /\ BeforeConnection' /\ OneShutsDown'
      /\ pc'[t] = "code" /\ \A other \in Threads : other # t => pc'[other] = pc[other]
  BY <1>1, ErrorMoves DEF NoteId
<1>3. TypeOK'
  BY <1>2 DEF EndIInv, TypeOK, PcTypeOK, NoteId
<1>4. pc[t] = "id" /\ pc[Browser(t)] = "none"
  BY DEF NoteId, EndIInv, NotedIsWhole
<1>5. NotedIsWhole'
  <2>1. \A r \in Raisers : pc'[Browser(r)] # "none" => pc'[r] \notin Working \cup {"id", "code", "spawn"}
    BY <1>1, <1>2, <1>4, BrowsersApart DEF EndIInv, NotedIsWhole
  <2>2. ASSUME ~mixed', NEW r \in Raisers \ {t}
        PROVE  pc'[r] \notin {"code", "spawn"} /\ pc'[Browser(r)] # "browse"
    <3>1. ~Noting(r)
      BY <2>2 DEF NoteId
    <3> QED
      BY <1>1, <1>2, <3>1, BrowsersApart DEF Noting
  <2>3. ~mixed' => ~mixed
    BY DEF NoteId, EndIInv, TypeOK
  <2>4. /\ errorid' = t /\ errorcode' = errorcode /\ shown' = shown
        /\ pc'[Browser(t)] = "none"
    BY <1>1, <1>2, <1>4 DEF NoteId
  <2>5. NotedIsThere'
    <3>1. t # "none"
      BY BrowsersApart
    <3>2. \A r \in Raisers \ {t} : pc'[r] = pc[r] /\ pc'[Browser(r)] = pc[Browser(r)]
      BY <1>1, <1>2, BrowsersApart
    <3> QED
      BY <1>2, <1>4, <2>4, <3>1, <3>2 DEF EndIInv, NotedIsWhole, NotedIsThere, Noting
  <2> QED
    BY <1>2, <2>1, <2>2, <2>3, <2>4, <2>5 DEF EndIInv, NotedIsWhole, ShownWasRaised
<1> QED
  BY <1>2, <1>3, <1>5 DEF EndIInv

LEMMA NoteCodeStep == ASSUME EndIInv, NEW t \in Raisers, NoteCode(t) PROVE EndIInv'
<1>1. t \in Threads /\ Browser(t) \in Threads /\ t \notin Browsers /\ t # Browser(t)
  BY BrowsersApart
<1>2. /\ PcTypeOK' /\ BeforeConnection' /\ OneShutsDown'
      /\ pc'[t] = "spawn" /\ \A other \in Threads : other # t => pc'[other] = pc[other]
  BY <1>1, ErrorMoves DEF NoteCode
<1>3. TypeOK'
  BY <1>2 DEF EndIInv, TypeOK, PcTypeOK, NoteCode
<1>4. pc[t] = "code" /\ pc[Browser(t)] = "none"
  BY DEF NoteCode, EndIInv, NotedIsWhole
<1>5. NotedIsWhole'
  <2>1. \A r \in Raisers : pc'[Browser(r)] # "none" => pc'[r] \notin Working \cup {"id", "code", "spawn"}
    BY <1>1, <1>2, <1>4, BrowsersApart DEF EndIInv, NotedIsWhole
  <2>2. /\ errorid' = errorid /\ errorcode' = t /\ shown' = shown /\ mixed' = mixed
        /\ pc'[Browser(t)] = "none"
    BY <1>1, <1>2, <1>4 DEF NoteCode
  <2>3. ASSUME ~mixed
        PROVE  errorid = t
    BY <1>4, <2>3 DEF EndIInv, NotedIsWhole
  <2>4. ASSUME ~mixed, NEW r \in Raisers \ {t}
        PROVE  pc'[r] \notin {"code", "spawn"} /\ pc'[Browser(r)] # "browse"
    <3>1. pc'[r] = pc[r] /\ pc'[Browser(r)] = pc[Browser(r)]
      BY <1>1, <1>2, BrowsersApart
    <3> QED
      BY <2>3, <2>4, <3>1 DEF EndIInv, NotedIsWhole
  <2>5. NotedIsThere'
    <3>1. t # "none"
      BY BrowsersApart
    <3>2. \A r \in Raisers \ {t} : pc'[r] = pc[r] /\ pc'[Browser(r)] = pc[Browser(r)]
      BY <1>1, <1>2, BrowsersApart
    <3> QED
      BY <1>2, <1>4, <2>2, <3>1, <3>2 DEF EndIInv, NotedIsWhole, NotedIsThere, Noting
  <2> QED
    BY <1>2, <2>1, <2>2, <2>3, <2>4, <2>5 DEF EndIInv, NotedIsWhole, ShownWasRaised
<1> QED
  BY <1>2, <1>3, <1>5 DEF EndIInv

\* The browser thread begins.
LEMMA BrowserBegins ==
    ASSUME EndIInv, NEW t \in Raisers, Spawn(t),
           pc' = [pc EXCEPT ![t] = "nap", ![Browser(t)] = "browse"]
    PROVE  EndIInv'
<1>1. t \in Threads /\ Browser(t) \in Browsers /\ t \notin Browsers /\ t # Browser(t)
      /\ Browser(t) \in Threads /\ Browser(t) # "netbox"
  BY BrowsersApart
<1>2. PcTypeOK /\ pc' = [pc EXCEPT ![t] = "nap", ![Browser(t)] = "browse"] /\ pc[t] = "spawn"
  BY DEF Spawn, EndIInv, TypeOK, PcTypeOK
<1>3. /\ pc'[t] = "nap" /\ pc'[Browser(t)] = "browse"
      /\ \A other \in Threads \ {t, Browser(t)} : pc'[other] = pc[other]
  BY <1>1, <1>2 DEF PcTypeOK
<1>4. PcTypeOK'
  <2>1. pc' \in [Threads -> Waiting \cup Working \cup InError \cup InStop \cup {"browse"}]
    BY <1>1, <1>2 DEF PcTypeOK, InError
  <2>2. \A b \in Browsers : pc'[b] \notin Working \cup InError \cup {"dead"}
    BY <1>1, <1>2, <1>3, BrowsersApart DEF PcTypeOK, Working, InError
  <2>3. pc'["netbox"] # "exit"
    BY <1>1, <1>2, <1>3, BrowsersApart DEF PcTypeOK
  <2> QED
    BY <2>1, <2>2, <2>3 DEF PcTypeOK
<1>5. TypeOK'
  BY <1>4 DEF EndIInv, TypeOK, PcTypeOK, Spawn
<1>6. NotedIsWhole'
  <2>1. UNCHANGED <<errorid, errorcode, shown, mixed>>
    BY DEF Spawn
  <2>2. \A r \in Raisers \ {t} : pc'[r] = pc[r] /\ pc'[Browser(r)] = pc[Browser(r)]
    BY <1>1, <1>3, BrowsersApart
  <2>3. ~mixed => errorid = t /\ errorcode = t
    BY <1>2 DEF EndIInv, NotedIsWhole
  <2>4. NotedIsThere'
    BY <1>2, <1>3, <2>1, <2>2 DEF EndIInv, NotedIsWhole, NotedIsThere, Noting
  <2>5. \A r \in Raisers : pc'[Browser(r)] # "none" => pc'[r] \notin Working \cup {"id", "code", "spawn"}
    BY <1>3, <2>2 DEF EndIInv, NotedIsWhole, Working
  <2> QED
    BY <1>3, <2>1, <2>2, <2>3, <2>4, <2>5 DEF EndIInv, NotedIsWhole, ShownWasRaised
<1>7. BeforeConnection' /\ OneShutsDown'
  <2>1. \A other \in Threads : ShuttingDown(other)' => pc'[other] = pc[other]
    BY <1>3 DEF ShuttingDown
  <2>2. pc'["netbox"] \in {"open", "connect"} => pc'["netbox"] = pc["netbox"]
    BY <1>1, <1>3, BrowsersApart
  <2>3. UNCHANGED <<active, peer, crowded>>
    BY DEF Spawn
  <2> QED
    BY <2>1, <2>2, <2>3, OutsideShutdown DEF EndIInv
<1> QED
  BY <1>5, <1>6, <1>7 DEF EndIInv

LEMMA SpawnStep == ASSUME EndIInv, NEW t \in Raisers, Spawn(t) PROVE EndIInv'
<1>1. t \in Threads /\ t \notin Browsers
  BY BrowsersApart
<1>2. CASE Goto(t, "nap")
  <2>1. /\ PcTypeOK' /\ BeforeConnection' /\ OneShutsDown'
        /\ pc'[t] = "nap" /\ \A other \in Threads : other # t => pc'[other] = pc[other]
    BY <1>1, <1>2, ErrorMoves DEF Spawn
  <2>2. TypeOK'
    BY <2>1 DEF EndIInv, TypeOK, PcTypeOK, Spawn
  <2>3. NotedIsWhole'
    BY <1>1, <2>1, NotedStaysWhole DEF EndIInv, TypeOK, PcTypeOK, Spawn, Working
  <2> QED
    BY <2>1, <2>2, <2>3 DEF EndIInv
<1> QED
  BY <1>2, BrowserBegins DEF Spawn

LEMMA NapStep == ASSUME EndIInv, NEW t \in Raisers, Nap(t) PROVE EndIInv'
<1>1. t \in Threads /\ t \notin Browsers
  BY BrowsersApart
<1>2. /\ PcTypeOK' /\ BeforeConnection' /\ OneShutsDown'
      /\ pc'[t] = "check" /\ \A other \in Threads : other # t => pc'[other] = pc[other]
  BY <1>1, ErrorMoves DEF Nap
<1>3. TypeOK'
  BY <1>2 DEF EndIInv, TypeOK, PcTypeOK, Nap
<1>4. NotedIsWhole'
  BY <1>1, <1>2, NotedStaysWhole DEF EndIInv, TypeOK, PcTypeOK, Nap, Working
<1> QED
  BY <1>2, <1>3, <1>4 DEF EndIInv

\* The page is shown.
LEMMA BrowseStep == ASSUME EndIInv, NEW b \in Browsers, Browse(b) PROVE EndIInv'
<1>1. PICK t \in Raisers : b = Browser(t)
  BY DEF Browsers
<1>2. t \in Threads /\ b \in Threads /\ t # b
  BY <1>1, BrowsersApart
<1>3. /\ PcTypeOK' /\ BeforeConnection' /\ OneShutsDown'
      /\ pc'[b] = "check" /\ \A other \in Threads : other # b => pc'[other] = pc[other]
  BY <1>2, ErrorMoves DEF Browse
<1>4. /\ pc[b] = "browse" /\ UNCHANGED <<errorid, errorcode, mixed>>
      /\ shown' = <<errorid, errorcode>> \/ shown' = shown
  BY DEF Browse
<1>5. ~mixed => errorid = t /\ errorcode = t
  BY <1>1, <1>4 DEF EndIInv, NotedIsWhole
<1>6. TypeOK'
  <2>1. errorid \in Raisers /\ errorcode \in Raisers
    BY <1>1, <1>4 DEF EndIInv, TypeOK, NotedIsWhole, NotedIsThere, Noting
  <2>2. shown' \in (Raisers \X Raisers) \cup {<<>>}
    BY <1>4, <2>1 DEF EndIInv, TypeOK
  <2>3. UNCHANGED <<process, active, peer, crowded>>
    BY DEF Browse
  <2> QED
    BY <1>3, <1>4, <2>2, <2>3 DEF EndIInv, TypeOK, PcTypeOK
<1>7. NotedIsWhole'
  <2>1. \A r \in Raisers : pc'[r] = pc[r]
    BY <1>1, <1>3, BrowsersApart
  <2>2. \A r \in Raisers : /\ pc'[Browser(r)] # "none" => pc[Browser(r)] # "none"
                           /\ pc'[Browser(r)] = "browse" => pc[Browser(r)] = "browse"
    BY <1>3, <1>4, BrowsersApart
  <2>3. ShownWasRaised'
    BY <1>4, <1>5 DEF EndIInv, NotedIsWhole, NotedIsThere, Noting, ShownWasRaised
  <2> QED
    BY <1>4, <2>1, <2>2, <2>3 DEF EndIInv, NotedIsWhole, NotedIsThere, Noting
<1> QED
  BY <1>3, <1>6, <1>7 DEF EndIInv

\* What the steps of Stop have in common: one thread gets on from one place in
\* it to the next, and nothing is noted or shown.
StopMove(t, from, to) ==
    /\ pc[t] = from /\ Goto(t, to)
    /\ UNCHANGED <<errorid, errorcode, shown, mixed>>

LEMMA StopMoves ==
    ASSUME EndIInv, NEW t \in Threads, NEW from \in InStop, NEW to \in InStop \ {"exit"},
           StopMove(t, from, to)
    PROVE  /\ PcTypeOK' /\ NotedIsWhole'
           /\ pc'[t] = to /\ \A other \in Threads : other # t => pc'[other] = pc[other]
<1>1. PcTypeOK
  BY DEF EndIInv, TypeOK, PcTypeOK
<1>2. /\ PcTypeOK' /\ pc'[t] = to
      /\ \A other \in Threads : other # t => pc'[other] = pc[other]
  BY <1>1, ThreadMoves DEF StopMove, InError, InStop, Working
<1>3. NotedIsWhole'
  BY <1>1, <1>2, NotedStaysWhole DEF EndIInv, StopMove, InStop, Working
<1> QED
  BY <1>2, <1>3

\* Before the connection is there, nobody is inside ShutdownNETBox.
LEMMA ShutdownIsLater ==
    ASSUME EndIInv, NEW t \in Threads, ShuttingDown(t)
    PROVE  pc["netbox"] \notin {"open", "connect"}
BY DEF EndIInv, BeforeConnection

LEMMA CheckStep == ASSUME EndIInv, NEW t \in Threads, Check(t) PROVE EndIInv'
<1> DEFINE to == IF active /\ peer # "null" THEN "clear" ELSE "kill"
<1>1. StopMove(t, "check", to) /\ UNCHANGED <<process, active, peer>>
  BY DEF Check, StopMove
<1>2. to \in {"clear", "kill"}
  OBVIOUS
<1>3. /\ PcTypeOK' /\ NotedIsWhole'
      /\ pc'[t] = to /\ \A other \in Threads : other # t => pc'[other] = pc[other]
  <2> HIDE DEF to
  <2> QED
    BY <1>1, <1>2, StopMoves DEF InStop
<1>4. crowded' = (crowded \/ (to = "clear" /\ \E other \in Threads \ {t} : ShuttingDown(other)))
  BY DEF Check
<1>5. TypeOK'
  <2>1. crowded' \in BOOLEAN
    BY <1>4
  <2> QED
    BY <1>1, <1>3, <2>1 DEF EndIInv, TypeOK, PcTypeOK, StopMove
<1>6. to = "clear" => active
  OBVIOUS
<1> HIDE DEF to
<1>7. BeforeConnection'
  BY <1>1, <1>2, <1>3, <1>6, BrowsersApart DEF EndIInv, BeforeConnection, ShuttingDown, StopMove
<1>8. CASE to = "kill"
  <2>1. \A other \in Threads : ShuttingDown(other)' => pc'[other] = pc[other] /\ ShuttingDown(other)
    BY <1>3, <1>8 DEF ShuttingDown
  <2>2. \A other \in Threads :
          pc'[other] \in {"clear", "shutdown", "destroy"} => pc'[other] = pc[other]
    BY <1>3, <1>8
  <2>3. crowded' = crowded
    BY <1>4, <1>8 DEF EndIInv, TypeOK
  <2>4. OneShutsDown'
    BY <1>1, <2>1, <2>2, <2>3 DEF EndIInv, OneShutsDown
  <2> QED
    BY <1>3, <1>5, <1>7, <2>4 DEF EndIInv
<1>9. CASE to = "clear"
  <2> SUFFICES ASSUME ~crowded'
               PROVE  OneShutsDown'
    BY <1>3, <1>5, <1>7 DEF EndIInv, OneShutsDown
  <2>1. ~crowded /\ \A other \in Threads \ {t} : ~ShuttingDown(other)
    BY <1>4, <1>9
  <2>2. \A other \in Threads \ {t} : ~ShuttingDown(other)'
    BY <1>3, <2>1 DEF ShuttingDown
  <2>3. peer = "live"
    BY <1>6, <1>9, <2>1 DEF EndIInv, OneShutsDown
  <2>4. \A other \in Threads \ {t} : pc'[other] \notin {"clear", "shutdown", "destroy"}
    BY <2>2 DEF ShuttingDown
  <2> QED
    BY <1>1, <1>3, <1>9, <2>2, <2>3, <2>4 DEF OneShutsDown
<1> QED
  BY <1>2, <1>8, <1>9

\* A step inside ShutdownNETBox.
LEMMA ShutdownStep ==
    ASSUME EndIInv, NEW t \in Threads,
           Clear(t) \/ Shutdown(t) \/ Destroy(t) \/ Null(t)
    PROVE  EndIInv'
<1>1. PICK from \in {"clear", "shutdown", "destroy", "null"},
           to \in {"shutdown", "destroy", "null", "kill"} :
        StopMove(t, from, to)
  BY DEF Clear, Shutdown, Destroy, Null, StopMove
<1>2. /\ PcTypeOK' /\ NotedIsWhole'
      /\ pc'[t] = to /\ \A other \in Threads : other # t => pc'[other] = pc[other]
  BY <1>1, StopMoves DEF InStop
<1>3. ShuttingDown(t)
  BY <1>1 DEF StopMove, ShuttingDown
<1>4. \A other \in Threads : ShuttingDown(other)' => ShuttingDown(other)
  BY <1>2, <1>3 DEF ShuttingDown
<1>5. TypeOK'
  <2>1. process' \in {"alive", "ended", "crashed"} /\ peer' \in {"null", "live", "freed"}
        /\ active' \in BOOLEAN /\ crowded' = crowded
    <3>1. CASE Clear(t)
      BY <3>1 DEF Clear, EndIInv, TypeOK
    <3>2. CASE Shutdown(t)
      BY <3>2, CallsEnd DEF Shutdown, EndIInv, TypeOK
    <3>3. CASE Destroy(t)
      BY <3>3 DEF Destroy, EndIInv, TypeOK
    <3>4. CASE Null(t)
      BY <3>4 DEF Null, EndIInv, TypeOK
    <3> QED
      BY <3>1, <3>2, <3>3, <3>4
  <2> QED
    BY <1>1, <1>2, <2>1 DEF EndIInv, TypeOK, PcTypeOK, StopMove
<1>6. BeforeConnection'
  <2>1. pc'["netbox"] \notin {"open", "connect"}
    BY <1>2, <1>3, ShutdownIsLater, BrowsersApart
  <2> QED
    BY <2>1 DEF BeforeConnection
<1>7. OneShutsDown'
  <2> SUFFICES ASSUME ~crowded'
               PROVE  OneShutsDown'
    BY DEF OneShutsDown
  <2>1. ~crowded
    BY DEF Clear, Shutdown, Destroy, Null
  <2>2. \A other \in Threads \ {t} : ~ShuttingDown(other) /\ ~ShuttingDown(other)'
    BY <1>3, <1>4, <2>1 DEF EndIInv, OneShutsDown
  <2>3. \A other \in Threads \ {t} : pc'[other] \notin {"clear", "shutdown", "destroy"}
    BY <2>2 DEF ShuttingDown
  <2>4. ~active'
    BY <1>3, <2>1 DEF Clear, Shutdown, Destroy, Null, EndIInv, OneShutsDown
  <2>5. to \in {"shutdown", "destroy"} => peer' = "live"
    <3>1. CASE Clear(t)
      BY <2>1, <3>1 DEF Clear, EndIInv, OneShutsDown
    <3>2. CASE Shutdown(t)
      BY <2>1, <3>2 DEF Shutdown, EndIInv, OneShutsDown
    <3>3. CASE Destroy(t)
      BY <1>2, <1>1, <3>3, ThreadMoves DEF Destroy, EndIInv, TypeOK, PcTypeOK, InStop, Working, InError
    <3>4. CASE Null(t)
      BY <1>2, <1>1, <3>4, ThreadMoves DEF Null, EndIInv, TypeOK, PcTypeOK, InStop, Working, InError
    <3> QED
      BY <3>1, <3>2, <3>3, <3>4
  <2> QED
    BY <1>1, <1>2, <2>2, <2>3, <2>4, <2>5 DEF OneShutsDown
<1> QED
  BY <1>2, <1>5, <1>6, <1>7 DEF EndIInv

\* The polling thread is terminated, by itself too.
LEMMA KillStep == ASSUME EndIInv, NEW t \in Threads, Kill(t) PROVE EndIInv'
<1>1. /\ PcTypeOK /\ pc[t] = "kill"
      /\ UNCHANGED <<process, active, peer, errorid, errorcode, shown, mixed, crowded>>
  BY DEF Kill, EndIInv, TypeOK, PcTypeOK
<1>2. /\ pc'["netbox"] = "dead" /\ (t # "netbox" => pc'[t] = "exit")
      /\ \A other \in Threads \ {t, "netbox"} : pc'[other] = pc[other]
  BY <1>1, BrowsersApart DEF Kill, PcTypeOK
<1>3. PcTypeOK'
  <2>1. pc' \in [Threads -> Waiting \cup Working \cup InError \cup InStop \cup {"browse"}]
    BY <1>1, BrowsersApart DEF Kill, PcTypeOK, Waiting, InStop
  <2>2. \A b \in Browsers : pc'[b] \notin Working \cup InError \cup {"dead"}
    BY <1>1, <1>2, BrowsersApart DEF PcTypeOK, Working, InError
  <2> QED
    BY <1>2, <2>1, <2>2 DEF PcTypeOK
<1>4. TypeOK'
  BY <1>1, <1>3 DEF EndIInv, TypeOK, PcTypeOK
<1>5. NotedIsWhole'
  <2>1. \A r \in Raisers : /\ pc'[r] = pc[r] \/ pc'[r] \in {"dead", "exit"}
                           /\ pc'[Browser(r)] # "none" => pc[Browser(r)] # "none"
                           /\ pc'[Browser(r)] = "browse" => pc[Browser(r)] = "browse"
    BY <1>1, <1>2, BrowsersApart
  <2>2. NotedIsThere'
    BY <1>1, <2>1 DEF EndIInv, NotedIsWhole, NotedIsThere, Noting
  <2> QED
    BY <1>1, <2>1, <2>2 DEF EndIInv, NotedIsWhole, ShownWasRaised, Working
<1>6. BeforeConnection' /\ OneShutsDown'
  <2>1. \A other \in Threads : ShuttingDown(other)' => pc'[other] = pc[other]
    BY <1>2 DEF ShuttingDown
  <2> QED
    BY <1>1, <1>2, <2>1, OutsideShutdown DEF EndIInv
<1> QED
  BY <1>4, <1>5, <1>6 DEF EndIInv

LEMMA EndInductive == EndIInv /\ [Next]_vars => EndIInv'
<1> SUFFICES ASSUME EndIInv, [Next]_vars
             PROVE  EndIInv'
  OBVIOUS
<1>1. ASSUME NEW t \in Raisers, ErrorStep(t)
      PROVE  EndIInv'
  BY <1>1, NoteIdStep, NoteCodeStep, SpawnStep, NapStep DEF ErrorStep
<1>2. ASSUME NEW t \in Threads, StopStep(t)
      PROVE  EndIInv'
  <2>1. CASE Exit(t)
    BY <2>1 DEF Exit, EndIInv, TypeOK, NotedIsWhole, NotedIsThere, Noting, ShownWasRaised,
                BeforeConnection, OneShutsDown, ShuttingDown
  <2> QED
    BY <1>2, <2>1, CheckStep, ShutdownStep, KillStep DEF StopStep
<1>3. CASE UNCHANGED vars
  BY <1>3 DEF vars, EndIInv, TypeOK, NotedIsWhole, NotedIsThere, Noting, ShownWasRaised,
              BeforeConnection, OneShutsDown, ShuttingDown
<1> QED
  BY <1>1, <1>2, <1>3, OpenStep, WorkStep, BrowseStep DEF Next

LEMMA EndInvariant == Spec => []EndIInv
BY EndInitially, EndInductive, PTL DEF Spec

\* The page that ErrorBrowser opens belongs to one error that was raised, unless
\* two errors met: whichever threads raise errors and stop.
THEOREM PageIsOfOneError == Spec => []ShownWasRaised
<1>1. EndIInv => ShownWasRaised
  BY DEF EndIInv, NotedIsWhole
<1> QED
  BY <1>1, EndInvariant, PTL

\* Stop touches a destroyed or missing peer only when another thread is inside
\* ShutdownNETBox with it: Stops that follow each other are safe.
THEOREM LoneStopLives == Spec => LoneStopIsSafe
<1> DEFINE Lone == (\E t \in Threads : StopStep(t)) /\ process' = "crashed" => crowded
<1>1. EndIInv /\ [Next]_vars => [Lone]_vars
  <2> SUFFICES ASSUME EndIInv, ~crowded, NEW t \in Threads, StopStep(t), process' = "crashed"
               PROVE  FALSE
    BY DEF EndIInv, TypeOK
  <2>1. Shutdown(t) \/ Destroy(t)
    BY DEF StopStep, Alive, Check, Clear, Null, Kill, Exit
  <2>2. peer = "live"
    BY <2>1 DEF EndIInv, OneShutsDown, Shutdown, Destroy
  <2> QED
    BY <2>1, <2>2, CallsEnd DEF Shutdown, Destroy
<1>2. Spec => [][Lone]_vars
  BY <1>1, EndInvariant, PTL DEF Spec
<1> QED
  BY <1>2 DEF LoneStopIsSafe
=============================================================================
