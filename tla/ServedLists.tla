---------------------------- MODULE ServedLists -----------------------------
(***************************************************************************)
(* The lists that GHPServer gives to its clients: the CRCs of the game's   *)
(* files and the hashes of known cheats.  Every ten minutes a thread       *)
(* hashes the files of two directories (LoadCRC, LoadHacks) and assigns    *)
(* the results to two global vectors; the server thread sends both, entry  *)
(* by entry, to every connection that it lets in.  There is no lock.       *)
(*                                                                         *)
(* "loaded" and the fields "good" and "met" are history variables.         *)
(***************************************************************************)
EXTENDS Naturals, Sequences, SequencesExt, Functions

CONSTANTS
    Listings,   \* what GetAllFiles may return, sequences of file names
    Programs    \* the files among them that are programs or libraries

AllFiles == UNION {ToSet(files) : files \in Listings}

\* GetAllFiles names every file of a directory once, by its path.
ASSUME ListingsAssumption ==
    /\ Listings \subseteq Seq(AllFiles)
    /\ \A files \in Listings : IsInjective(files)

VARIABLES
    lists,      \* the vectors crc and hacks
    load,       \* the thread that fills them: which one, its files, temp
    loaded,     \* the files that the last finished load could hash
    admission   \* the server thread greeting a connection

servedVars == <<lists, load, loaded, admission>>

Lists == {"crc", "hacks"}
NoLoad == [list |-> "sleep", files |-> <<>>, temp |-> <<>>, good |-> {}]
NoAdmission == [list |-> "none", next |-> 1, sent |-> <<>>, met |-> FALSE]

ServedInit ==
    /\ lists = [l \in Lists |-> <<>>] /\ load = NoLoad
    /\ loaded = [l \in Lists |-> {}] /\ admission = NoAdmission

-----------------------------------------------------------------------------
(* A load lists its directory, hashes file by file into a vector of its    *)
(* own and assigns that one in the end.  A file that cannot be hashed is   *)
(* left out, and of the cheats every file that is neither a program (IsEXE)*)
(* nor a library (IsDLL).                                                  *)
Wanted(file) == load.list = "crc" \/ file \in Programs

GetAllFiles(list) ==
    \E files \in Listings : load' = [NoLoad EXCEPT !.list = list, !.files = files]

StartLoads ==
    /\ load.list = "sleep" /\ GetAllFiles("crc")
    /\ UNCHANGED <<lists, loaded, admission>>

\* For a mutant: the entry goes to the global vector at once.
CalculeFileSHA1Global ==
    /\ load.list # "sleep" /\ load.files # <<>>
    /\ LET file == Head(load.files)
           rest == [load EXCEPT !.files = Tail(load.files)]
           sofar == Append(load.temp, file)
       IN  \/ /\ Wanted(file)
              /\ load' = [rest EXCEPT !.temp = sofar, !.good = @ \cup {file}]
              /\ lists' = [lists EXCEPT ![load.list] = sofar]
           \/ load' = rest /\ UNCHANGED lists
    /\ UNCHANGED <<loaded, admission>>

CalculeFileSHA1 ==
    /\ load.list # "sleep" /\ load.files # <<>>
    /\ LET file == Head(load.files)
           rest == [load EXCEPT !.files = Tail(load.files)]
       IN  \/ /\ Wanted(file)
              /\ load' = [rest EXCEPT !.temp = Append(@, file), !.good = @ \cup {file}]
           \/ load' = rest
    /\ UNCHANGED <<lists, loaded, admission>>

AssignList ==
    /\ load.list # "sleep" /\ load.files = <<>>
    /\ lists' = [lists EXCEPT ![load.list] = load.temp]
    /\ loaded' = [loaded EXCEPT ![load.list] = load.good]
    /\ admission' = [admission EXCEPT !.met = @ \/ admission.list = load.list]
    /\ \/ load.list = "crc" /\ GetAllFiles("hacks")
       \/ load.list = "hacks" /\ load' = NoLoad

-----------------------------------------------------------------------------
(* ProcessPacket, a connection that is let in: the server thread sends it  *)
(* the CRCs, then the cheats, by index and up to the size at that moment.  *)
Admit ==
    /\ admission.list = "none"
    /\ admission' = [NoAdmission EXCEPT !.list = "crc"]
    /\ UNCHANGED <<lists, load, loaded>>

SendEntry ==
    /\ admission.list \in Lists
    /\ LET list == lists[admission.list] IN
       /\ admission.next <= Len(list)
       /\ admission' = [admission EXCEPT !.next = @ + 1,
                                         !.sent = Append(@, list[admission.next])]
    /\ UNCHANGED <<lists, load, loaded>>

ListSent ==
    /\ admission.list \in Lists
    /\ admission.next > Len(lists[admission.list])
    /\ admission' = IF admission.list = "hacks" THEN NoAdmission
                    ELSE [NoAdmission EXCEPT !.list = "hacks"]
    /\ UNCHANGED <<lists, load, loaded>>

ServedNext ==
    StartLoads \/ CalculeFileSHA1 \/ AssignList \/ Admit \/ SendEntry \/ ListSent

ServedSpec == ServedInit /\ [][ServedNext]_servedVars

-----------------------------------------------------------------------------
(* A new connection is sent, once each, exactly the entries of the last    *)
(* finished load of a list, also while the next load hashes its files,     *)
(* unless the list was assigned while the server thread went through it.   *)
ServedWhole ==
    [][LET l == admission.list IN
       l \in Lists /\ admission'.list # l /\ ~admission.met =>
           /\ ToSet(admission.sent) = loaded[l]
           /\ IsInjective(admission.sent)]_servedVars
=============================================================================
