------------------------------ MODULE CorePass ------------------------------
(***************************************************************************)
(* One pass of the scanning thread of the client, again and again, each    *)
(* pass in a thread of its own (GHPCore): it lists the processes and       *)
(* compares the program of each one it has not met before with the known   *)
(* cheats (ProcessScan), opens the owner of every window (HiddenScan),     *)
(* compares two readings of the clock (SpeedScan), the CRCs of the game's  *)
(* files every 15 seconds, and the protected memory with its copy.  Other  *)
(* processes come and go, Windows uses their ids again, and the polling    *)
(* thread appends the CRCs and cheats that the server sends.  Whatever is  *)
(* found ends the game (Error, see ClientShutdown).                        *)
(*                                                                         *)
(* "fate", "known" and the field "altered" are history.                    *)
(***************************************************************************)
EXTENDS Naturals, FiniteSets, FiniteSetsExt

CONSTANTS
    Pids,           \* process ids
    Programs,       \* what processes run
    NoProgram,
    DbHacks,        \* programs with an active entry in the database that the
                    \* whitelist does not name
    SrvHacks,       \* programs that the server lists
    Files,          \* files whose CRC the server sends
    Apis,           \* the protected pieces of memory, in the order of AddAPI
    ApiWhitelist    \* the ones that may be altered

ASSUME PassAssumption ==
    /\ Pids \subseteq Nat
    /\ DbHacks \cup SrvHacks \subseteq Programs /\ NoProgram \notin Programs
    /\ Apis \subseteq Nat \ {0} /\ ApiWhitelist \subseteq Apis

VARIABLES
    running,    \* the program of each process, if there is one
    pinned,     \* ids that a leaked handle keeps from being used again
    scanned,    \* the vector Scanned, as a set
    hacks,      \* ghpsrv_hacks, as a set
    crc,        \* the files whose CRC has come, as a set
    modified,   \* the files that differ from their CRC
    altered,    \* the memory that differs from its copy
    pass,       \* the scanning thread
    fate,       \* how the scan dealt with each process
    known       \* the server's cheats known when each process was opened

passVars == <<running, pinned, scanned, hacks, crc, modified, altered, pass, fate, known>>
worldVars == <<running, modified, altered>>
netVars == <<hacks, crc>>

NewPass == [pc |-> "enumerate", listed |-> {}, todo |-> {}, pid |-> 0,
            program |-> NoProgram, altered |-> {}]
Live == {p \in Pids : running[p] # NoProgram}

PassInit ==
    /\ running \in [Pids -> Programs \cup {NoProgram}]
    /\ pinned = {} /\ scanned = {} /\ hacks = {} /\ crc = {}
    /\ modified = {} /\ altered = {}
    /\ pass = NewPass
    /\ fate = [p \in Pids |-> "new"]
    /\ known = [p \in Pids |-> {}]

-----------------------------------------------------------------------------
(* The other processes.  An id is used again once no handle is open.       *)
Held(p) == p \in pinned \/ (pass.pc = "compare" /\ pass.pid = p)

StartProcess(p, program) ==
    /\ running[p] = NoProgram /\ ~Held(p)
    /\ running' = [running EXCEPT ![p] = program]
    /\ fate' = [fate EXCEPT ![p] = IF p \in scanned THEN "inherited" ELSE "new"]
    /\ UNCHANGED <<pinned, scanned, netVars, modified, altered, pass, known>>

EndProcess(p) ==
    /\ running[p] # NoProgram
    /\ running' = [running EXCEPT ![p] = NoProgram]
    /\ UNCHANGED <<pinned, scanned, netVars, modified, altered, pass, fate, known>>

Alter ==
    /\ \/ \E a \in Apis \ altered : altered' = altered \cup {a} /\ UNCHANGED modified
       \/ \E f \in Files \ modified : modified' = modified \cup {f} /\ UNCHANGED altered
    /\ UNCHANGED <<running, pinned, scanned, netVars, pass, fate, known>>

(* NETBoxThread: PCK_H_ENTRY and PCK_H_CRC append to the vectors.          *)
Receive ==
    /\ \/ \E h \in SrvHacks \ hacks : hacks' = hacks \cup {h} /\ UNCHANGED crc
       \/ \E f \in Files \ crc : crc' = crc \cup {f} /\ UNCHANGED hacks
    /\ UNCHANGED <<worldVars, pinned, scanned, pass, fate, known>>

-----------------------------------------------------------------------------
PassTo(pc) == pass' = [pass EXCEPT !.pc = pc]
Error == PassTo("error")

(* ProcessScan: the list of processes, then one after the other.           *)
EnumProcesses ==
    /\ pass.pc = "enumerate"
    /\ \/ pass' = [pass EXCEPT !.pc = "next", !.listed = Live, !.todo = Live]
       \/ Error
    /\ UNCHANGED <<worldVars, netVars, pinned, scanned, fate, known>>

NextProcess ==
    /\ pass.pc = "next"
    /\ IF pass.todo = {} THEN PassTo("hidden")
       ELSE LET p == Min(pass.todo)
            IN  pass' = [pass EXCEPT !.pc = IF p \in scanned THEN "next" ELSE "open",
                                     !.pid = p, !.todo = @ \ {p}]
    /\ UNCHANGED <<worldVars, netVars, pinned, scanned, fate, known>>

(* A process may be gone, refuse to be opened or have no readable image.   *)
OpenProcess ==
    /\ pass.pc = "open"
    /\ \/ /\ running[pass.pid] # NoProgram
          /\ pass' = [pass EXCEPT !.pc = "compare", !.program = running[pass.pid]]
          /\ fate' = [fate EXCEPT ![pass.pid] = "seen"]
          /\ known' = [known EXCEPT ![pass.pid] = hacks]
       \/ PassTo("mark") /\ UNCHANGED <<fate, known>>
    /\ UNCHANGED <<worldVars, netVars, pinned, scanned>>

\* For a mutant: the server's cheats are left out.
IsCheatDbOnly(program) == program \in DbHacks

\* A program is what its file and its memory hold when it is compared, and
\* stays that: one that unpacks itself later is not followed.
IsCheat(program) == program \in DbHacks \cup hacks

(* A cheat is terminated and reported.  Of a process that ended meanwhile  *)
(* the file can still be hashed, the memory not be read.                   *)
ScanThisProcess ==
    /\ pass.pc = "compare"
    /\ \/ /\ IsCheat(pass.program)
          /\ running' = [running EXCEPT ![pass.pid] = NoProgram]
          /\ Error
       \/ /\ IsCheat(pass.program) => running[pass.pid] = NoProgram
          /\ PassTo("mark")
          /\ UNCHANGED running
    /\ UNCHANGED <<netVars, modified, altered, pinned, scanned, fate, known>>

(* The handle is closed and the id remembered, opened or not.  What runs   *)
(* under it by now and was not compared never will be.                     *)
MarkScanned ==
    /\ pass.pc = "mark"
    /\ scanned' = scanned \cup {pass.pid}
    /\ fate' = [fate EXCEPT ![pass.pid] = IF @ = "seen" THEN @ ELSE "missed"]
    /\ PassTo("next")
    /\ UNCHANGED <<worldVars, netVars, pinned, known>>

(* HiddenScan opens the owner of every window and leaves the handle open;  *)
(* a window whose owner it cannot open is told to go, and may.  It is an   *)
(* error if there is no window at all.                                     *)
HiddenScan ==
    /\ pass.pc = "hidden"
    /\ \/ /\ PassTo("speed")
          /\ \E opened \in SUBSET Live, gone \in {{}} \cup {{p} : p \in Live} :
              /\ opened \cap gone = {}
              /\ pinned' = pinned \cup opened
              /\ running' = [p \in Pids |-> IF p \in gone THEN NoProgram ELSE running[p]]
       \/ Error /\ UNCHANGED <<pinned, running>>
    /\ UNCHANGED <<netVars, modified, altered, scanned, fate, known>>

(* SpeedScan ends the game also if the thread stalls between the readings. *)
SpeedScan ==
    /\ pass.pc = "speed"
    /\ PassTo("crc") \/ Error
    /\ UNCHANGED <<worldVars, netVars, pinned, scanned, fate, known>>

(* The CRCs, unless they were compared less than 15 seconds ago.           *)
CheckCRC ==
    /\ pass.pc = "crc"
    /\ \/ PassTo("memory")
       \/ crc \cap modified # {} /\ Error
    /\ UNCHANGED <<worldVars, netVars, pinned, scanned, fate, known>>

(* MemoryProtection::Check returns the FIRST piece that differs; if the    *)
(* whitelist names it, the pass goes on.                                   *)
CheckMemory ==
    /\ pass.pc = "memory"
    /\ IF altered # {} /\ Min(altered) \notin ApiWhitelist
       THEN Error
       ELSE pass' = [pass EXCEPT !.pc = "sleep", !.altered = altered]
    /\ UNCHANGED <<worldVars, netVars, pinned, scanned, fate, known>>

(* Half a second, then the next pass in a new thread, if there is one.     *)
CreateSuccessor ==
    /\ pass.pc = "sleep"
    /\ pass' = NewPass \/ Error
    /\ UNCHANGED <<worldVars, netVars, pinned, scanned, fate, known>>

Others ==
    \/ \E p \in Pids : EndProcess(p) \/ \E program \in Programs : StartProcess(p, program)
    \/ Alter \/ Receive

PassNext ==
    \/ pass.pc # "error" /\ Others
    \/ EnumProcesses \/ NextProcess \/ OpenProcess \/ ScanThisProcess \/ MarkScanned
    \/ HiddenScan \/ SpeedScan \/ CheckCRC \/ CheckMemory \/ CreateSuccessor

PassSpec == PassInit /\ [][PassNext]_passVars

-----------------------------------------------------------------------------
(* When a pass is over without an error, a cheat in its list of processes  *)
(* runs on only if it could not be opened, has the id of a process scanned *)
(* before, or was scanned before the server's entry about it came; and     *)
(* memory that may not be altered was found altered only behind altered    *)
(* memory that may be.                                                     *)
ScanCovers ==
    pass.pc = "sleep" =>
        /\ \A p \in pass.listed :
               running[p] \in DbHacks \cup known[p] => fate[p] \in {"missed", "inherited"}
        /\ \A a \in pass.altered \ ApiWhitelist :
               \E w \in pass.altered \cap ApiWhitelist : w < a
=============================================================================
