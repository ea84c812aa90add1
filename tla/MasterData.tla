----------------------------- MODULE MasterData -----------------------------
(***************************************************************************)
(* The customer's data in GHPServer, C_DATA: five strings, "-" at first.   *)
(* A thread asks MasterServer for them every ten minutes, parses the       *)
(* answer, empties the vector and fills it entry by entry, while the web   *)
(* thread takes the first entry for the header of a page and the last for  *)
(* its footer.  The history field "met" says that a page met a replacement *)
(* of the data: what it shows then is undefined.                           *)
(***************************************************************************)
EXTENDS MasterServer, Sequences

CONSTANTS
    Ref,        \* the reference of this server, C_REF
    Whole,      \* the names that read as an element with all attributes
    Lacking     \* the names that read as an element that lacks one

ASSUME DataAssumption == Ref \in Refs /\ Whole \cup Lacking \subseteq Names

VARIABLES
    data,       \* C_DATA, its entries named by the answer they are from
    master,     \* the client of MasterServer: pc and the answer it got
    page        \* the page being written

dataVars == <<masterVars, data, master, page>>

Default == [k \in 1..5 |-> "-"]
NoPage == [pc |-> "none", head |-> "-", foot |-> "-", met |-> FALSE]

DataInit ==
    /\ MasterInit
    /\ data = Default /\ page = NoPage
    /\ master = [pc |-> "sleep", answer |-> NoData, try |-> 1]

Running == master.pc # "crashed"

-----------------------------------------------------------------------------
(* MasterServerWorkerThread.  It has three tries to reach the service and  *)
(* keeps the data if all fail or the answer does not parse.                *)
Readable(answer) == answer \in Whole \cup Lacking
MeetPage == page' = [page EXCEPT !.met = page.pc # "none"]

AskMaster ==
    /\ master.pc = "sleep"
    /\ master' = IF GetClientData(Ref) = NoData THEN master
                 ELSE [master EXCEPT !.pc = "parse", !.answer = GetClientData(Ref)]
    /\ UNCHANGED <<masterVars, data, page>>

MasterUnreached ==
    /\ master.pc = "sleep"
    /\ master' = [master EXCEPT !.try = IF @ = 3 THEN 1 ELSE @ + 1]
    /\ UNCHANGED <<masterVars, data, page>>

\* For a mutant: C_DATA is emptied before the answer is parsed.
ParseAnswerLate ==
    /\ master.pc = "parse"
    /\ master' = [master EXCEPT !.pc = IF Readable(master.answer) THEN "push" ELSE "sleep"]
    /\ data' = <<>> /\ MeetPage
    /\ UNCHANGED masterVars

ParseAnswer ==
    /\ master.pc = "parse"
    /\ \/ /\ Readable(master.answer)
          /\ master' = [master EXCEPT !.pc = "push"]
          /\ data' = <<>> /\ MeetPage
       \/ /\ ~Readable(master.answer)
          /\ master' = [master EXCEPT !.pc = "sleep"]
          /\ UNCHANGED <<data, page>>
    /\ UNCHANGED masterVars

(* An attribute that is not there is a null pointer for std::string, which *)
(* ends the process.                                                       *)
PushData ==
    /\ master.pc = "push"
    /\ \/ /\ master.answer \in Lacking => Len(data) < 4
          /\ data' = Append(data, master.answer)
          /\ master' = [master EXCEPT !.pc = IF Len(data') = 5 THEN "sleep" ELSE "push"]
       \/ /\ master.answer \in Lacking
          /\ master' = [master EXCEPT !.pc = "crashed"]
          /\ UNCHANGED data
    /\ MeetPage
    /\ UNCHANGED masterVars

-----------------------------------------------------------------------------
(* WEB_ServerPage: header, body, footer.                                   *)
Entry(k) == IF k \in DOMAIN data THEN data[k] ELSE "undefined"

PageHead ==
    /\ Running /\ page.pc = "none"
    /\ page' = [pc |-> "head", head |-> Entry(1), foot |-> "-", met |-> master.pc = "push"]
    /\ UNCHANGED <<masterVars, data, master>>

PageFoot ==
    /\ Running /\ page.pc = "head"
    /\ page' = [page EXCEPT !.pc = "done", !.foot = Entry(5)]
    /\ UNCHANGED <<masterVars, data, master>>

PageSent ==
    /\ Running /\ page.pc = "done"
    /\ page' = NoPage
    /\ UNCHANGED <<masterVars, data, master>>

DataNext ==
    \/ MasterNext /\ UNCHANGED <<data, master, page>>
    \/ AskMaster \/ MasterUnreached \/ ParseAnswer \/ PushData
    \/ PageHead \/ PageFoot \/ PageSent

DataSpec == DataInit /\ [][DataNext]_dataVars

-----------------------------------------------------------------------------
(* A page during which MasterServer's answer was not stored shows the data *)
(* of one customer throughout, whatever answers came before and however    *)
(* they failed: an answer that does not parse leaves the old data alone.   *)
PageIsWhole ==
    page.pc = "done" /\ ~page.met =>
        page.head = page.foot /\ page.head \in {"-"} \cup Whole
=============================================================================
