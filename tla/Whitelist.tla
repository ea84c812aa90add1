------------------------------ MODULE Whitelist ------------------------------
(***************************************************************************)
(* The file CheatWhitelist.bin of GHPServer.  Every ten minutes a thread   *)
(* makes it anew from CheatWhitelist.txt (LoadCheatWhitelist), in place:   *)
(* it writes the plain records, then their signature and the records       *)
(* (SignFile, three writes), then the initialisation vector and the        *)
(* encrypted bytes (EncFileAES, two writes).  Every write opens the file   *)
(* for itself and fails while somebody reads it; then the refresh removes  *)
(* the file, which fails for the same reason.                              *)
(* SaveToFile calls SignFile and EncFileAES of ghp_CRYPTO, whose text the  *)
(* repository has in a comment only; their writes are taken from there.    *)
(*                                                                         *)
(* The web thread serves the file to the clients, one request at a time    *)
(* (server_request): it opens the file to see whether there is one and     *)
(* opens it again to send it; an open fails while the file is written.     *)
(* A client takes the list out of what it got when it starts, and ends if  *)
(* it cannot (Error, ERROR_WHITELIST).                                     *)
(*                                                                         *)
(* APIWhitelist.bin is made and served by the same code with other names.  *)
(* "met" and "stirred" are history variables.                              *)
(***************************************************************************)
EXTENDS Naturals, Sequences

CONSTANTS
    Texts,      \* contents of the text file that name some entry
    NoText      \* no text file, or one that names none

ASSUME WhitelistAssumption == NoText \notin Texts

\* The writes of one refresh, named by what the file holds after each.
SignFileWrites == <<"size", "signature", "signed">>
EncFileWrites == <<"vector", "encrypted">>
Writes == <<"plain">> \o SignFileWrites \o EncFileWrites

VARIABLES
    text,       \* the text file
    bin,        \* the binary file
    refresh,    \* the refreshing thread: the text it read, its next write
    web,        \* the web thread and its last answer
    met,        \* a reader was in the way of the last refresh, or there was none
    stirred     \* the refreshing thread moved during the last request

listVars == <<text, bin, refresh, web, met, stirred>>

Content == [holds : {Writes[k] : k \in DOMAIN Writes}, of : Texts]
Bare(what) == [holds |-> what, of |-> NoText]
Absent == Bare("nothing")

ListTypeOK ==
    /\ text \in Texts \cup {NoText}
    /\ bin \in {Absent} \cup Content
    /\ refresh \in [pc : {"sleep", "open", "write", "remove"}, of : Texts \cup {NoText},
                    next : DOMAIN Writes]
    /\ web \in [pc : {"idle", "ask", "look", "found", "send"},
                answer : {Bare("none"), Bare("zero"), Bare("empty")} \cup Content]
    /\ met \in BOOLEAN /\ stirred \in BOOLEAN

\* The file may be left over, half-made or not, from an earlier process.
ListInit ==
    /\ text \in Texts \cup {NoText}
    /\ bin \in {Absent} \cup Content
    /\ refresh = [pc |-> "sleep", of |-> NoText, next |-> 1]
    /\ web = [pc |-> "idle", answer |-> Bare("none")]
    /\ met = TRUE /\ stirred = FALSE

BeingRead == web.pc \in {"look", "send"}

-----------------------------------------------------------------------------
(* The administrator edits the text file. *)
Edit(t) ==
    /\ text' = t
    /\ UNCHANGED <<bin, refresh, web, met, stirred>>

(* LoadCheatWhitelist. *)

\* Nothing to list: the file is removed.
StartRefresh ==
    /\ refresh.pc = "sleep"
    /\ refresh' = [pc |-> IF text = NoText THEN "remove" ELSE "open", of |-> text, next |-> 1]
    /\ met' = FALSE
    /\ stirred' = TRUE
    /\ UNCHANGED <<text, bin, web>>

\* WriteFileData opens the file, unless it is read: then the refresh gives up.
OpenWrite ==
    /\ refresh.pc = "open"
    /\ refresh' = [refresh EXCEPT !.pc = IF BeingRead THEN "remove" ELSE "write"]
    /\ met' = (met \/ BeingRead)
    /\ stirred' = TRUE
    /\ UNCHANGED <<text, bin, web>>

\* Mutant: the encryption is forgotten.
CloseWriteSigned ==
    /\ refresh.pc = "write"
    /\ bin' = [holds |-> Writes[refresh.next], of |-> refresh.of]
    /\ refresh' = IF refresh.next = 4
                  THEN [refresh EXCEPT !.pc = "sleep"]
                  ELSE [refresh EXCEPT !.pc = "open", !.next = @ + 1]
    /\ stirred' = TRUE
    /\ UNCHANGED <<text, web, met>>

\* It writes and closes.  After the last write the thread reads the file back
\* and finds it in order: nobody else writes it.
CloseWrite ==
    /\ refresh.pc = "write"
    /\ bin' = [holds |-> Writes[refresh.next], of |-> refresh.of]
    /\ refresh' = IF refresh.next = Len(Writes)
                  THEN [refresh EXCEPT !.pc = "sleep"]
                  ELSE [refresh EXCEPT !.pc = "open", !.next = @ + 1]
    /\ stirred' = TRUE
    /\ UNCHANGED <<text, web, met>>

\* remove: without effect while the file is read, and nobody looks.
RemoveList ==
    /\ refresh.pc = "remove"
    /\ bin' = IF BeingRead THEN bin ELSE Absent
    /\ met' = (met \/ BeingRead)
    /\ refresh' = [refresh EXCEPT !.pc = "sleep"]
    /\ stirred' = TRUE
    /\ UNCHANGED <<text, web>>

-----------------------------------------------------------------------------
(* The web thread: ?download=cwl. *)

Request ==
    /\ web.pc = "idle"
    /\ web' = [pc |-> "ask", answer |-> Bare("none")]
    /\ stirred' = FALSE
    /\ UNCHANGED <<text, bin, refresh, met>>

\* The answer is a, given now.
Answer(a) == web' = [pc |-> "idle", answer |-> a]

CanOpen == bin # Absent /\ refresh.pc # "write"

\* Mutant: the file is sent when it cannot be opened, "0" when it can.
LookForSwapped ==
    /\ web.pc = "ask"
    /\ IF CanOpen THEN Answer(Bare("zero"))
                  ELSE web' = [web EXCEPT !.pc = "found"]
    /\ UNCHANGED <<text, bin, refresh, met, stirred>>

\* LoadFileData, to see whether there is a file; else "0".
LookFor ==
    /\ web.pc = "ask"
    /\ IF CanOpen THEN web' = [web EXCEPT !.pc = "look"]
                  ELSE Answer(Bare("zero"))
    /\ UNCHANGED <<text, bin, refresh, met, stirred>>

LookForDone ==
    /\ web.pc = "look"
    /\ web' = [web EXCEPT !.pc = "found"]
    /\ UNCHANGED <<text, bin, refresh, met, stirred>>

\* WEB_SendFile loads the file again; if it cannot, it sends nothing.
Send ==
    /\ web.pc = "found"
    /\ IF CanOpen THEN web' = [web EXCEPT !.pc = "send"]
                  ELSE Answer(Bare("empty"))
    /\ UNCHANGED <<text, bin, refresh, met, stirred>>

SendDone ==
    /\ web.pc = "send"
    /\ Answer(bin)
    /\ UNCHANGED <<text, bin, refresh, met, stirred>>

\* What the client makes of the answer: an answer of one byte means that there
\* is no list; everything else has to be a file whose signature is right.
Unreadable == "unreadable"
Loaded(a) ==
    CASE a.holds = "zero"      -> NoText
      [] a.holds = "encrypted" -> a.of
      [] OTHER                 -> Unreadable

ListNext ==
    \/ \E t \in Texts \cup {NoText} : Edit(t)
    \/ StartRefresh \/ OpenWrite \/ CloseWrite \/ RemoveList
    \/ Request \/ LookFor \/ LookForDone \/ Send \/ SendDone

ListSpec == ListInit /\ [][ListNext]_listVars

-----------------------------------------------------------------------------
\* The file that belongs to a text.
Made(t) == IF t = NoText THEN Absent ELSE [holds |-> "encrypted", of |-> t]

\* A refresh that no reader met leaves the file that belongs to the text it
\* read, whatever an earlier one has left there.  One that met a reader leaves
\* the file half-made, for the removal fails as the write did.
RefreshWorks == refresh.pc = "sleep" /\ ~met => bin = Made(refresh.of)

\* A client whose request falls between two refreshes, of which the last met no
\* reader, starts with the list made then.  During a refresh it may take a list
\* for absent that is not; or get nothing, or a half-made file, and end.
QuietAnswer ==
    [][web.pc # "idle" /\ web'.pc = "idle" /\ ~stirred /\ refresh.pc = "sleep" /\ ~met
        => Loaded(web'.answer) = refresh.of]_listVars
=============================================================================
