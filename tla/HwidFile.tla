------------------------------ MODULE HwidFile ------------------------------
(***************************************************************************)
(* The file data\hwid\<account>.ini, which records every hardware id an    *)
(* account has played from: a key "count" and the keys "1", "2", ...       *)
(*                                                                         *)
(* SaveHWIDs writes it inside the critical section, one id after the       *)
(* other, and each id with two writes whose results nobody looks at.       *)
(* GetHWIDSFromFile reads it key by key without a lock, for the web page   *)
(* and for BlockAll.  The server may stop between any two writes.          *)
(***************************************************************************)
EXTENDS Naturals, Sequences, SequencesExt, Functions

CONSTANTS
    Hwids,
    NoHwid,     \* the empty string: a key that is not in the file
    MaxCount,   \* bound: the highest "count" written
    MaxFaults   \* bound: crashes and failed writes in one behaviour

ASSUME FileAssumption ==
    /\ NoHwid \notin Hwids
    /\ MaxCount \in Nat /\ MaxFaults \in Nat

VARIABLES
    count,      \* the key "count", 0 if absent
    entry,      \* the numbered keys
    save,       \* the SaveHWIDs in progress: where it is, its ids still to do,
                \* the count it read
    saving,     \* the ids of the last SaveHWIDs that was not cut short
    read,       \* a GetHWIDSFromFile in progress, or its result
    before,     \* the ids settled when that reading began
    faults

fileVars == <<count, entry, save, saving, read, before, faults>>

FileTypeOK ==
    /\ count \in 0 .. MaxCount
    /\ entry \in [1 .. MaxCount -> Hwids \cup {NoHwid}]
    /\ save \in [pc : {"idle", "look", "count", "entry"}, todo : Seq(Hwids), n : 0 .. MaxCount]
    /\ saving \in SUBSET Hwids
    /\ read \in [pc : {"idle", "keys"}, n : 0 .. MaxCount, list : Seq(Hwids)]
    /\ before \in SUBSET Hwids
    /\ faults \in 0 .. MaxFaults

\* The last key that a reader takes: the one with the number c, or the one
\* before the first that is missing.
LastKey(c, keys) ==
    CHOOSE n \in 0 .. c : /\ \A i \in 1 .. n : keys[i] # NoHwid
                          /\ n < c => keys[n + 1] = NoHwid

\* What GetHWIDSFromFile returns when nobody writes.
Readable == SubSeq(entry, 1, LastKey(count, entry))

Listed == Range(Readable)

\* How much of it no write in progress is about to change: after a count that
\* could not be written, the key to be written next may hold an old id.
SettledKeys ==
    LET last == LastKey(count, entry) IN
    IF save.pc = "entry" /\ save.n < last THEN save.n ELSE last

Settled == SubSeq(entry, 1, SettledKeys)

FileInit ==
    /\ count = 0
    /\ entry = [i \in 1 .. MaxCount |-> NoHwid]
    /\ save = [pc |-> "idle", todo |-> <<>>, n |-> 0]
    /\ saving = {}
    /\ read = [pc |-> "idle", n |-> 0, list |-> <<>>]
    /\ before = {}
    /\ faults = 0

-----------------------------------------------------------------------------
(* SaveHWIDs, by the server thread. *)

\* A logged-in session reports a new id, or a session with ids logs in.
SaveHWIDs(ids) ==
    /\ save.pc = "idle" /\ ids # <<>>
    /\ save' = [save EXCEPT !.pc = "look", !.todo = ids]
    /\ saving' = Range(ids)
    /\ UNCHANGED <<count, entry, read, before, faults>>

\* The loop goes on to the next id.
NextId == [save EXCEPT !.todo = Tail(@), !.pc = IF Len(save.todo) = 1 THEN "idle" ELSE "look"]

\* Mutant: only the newest key is compared with the id.
IsHWIDSavedLast(h) == count > 0 /\ entry[count] = h

IsHWIDSaved(h) == h \in Listed

Skip ==
    /\ save.pc = "look" /\ IsHWIDSaved(Head(save.todo))
    /\ save' = NextId
    /\ UNCHANGED <<count, entry, saving, read, before, faults>>

ReadCount ==
    /\ save.pc = "look" /\ ~IsHWIDSaved(Head(save.todo)) /\ count < MaxCount
    /\ save' = [save EXCEPT !.pc = "count", !.n = count]
    /\ UNCHANGED <<count, entry, saving, read, before, faults>>

\* One write to the file, which may fail unnoticed.
Written(ok) == /\ ~ok => faults < MaxFaults
               /\ faults' = IF ok THEN faults ELSE faults + 1

\* Mutant: the count is written back as it was read.
WriteSameCount(ok) ==
    /\ save.pc = "count" /\ Written(ok)
    /\ count' = save.n
    /\ save' = [save EXCEPT !.pc = "entry"]
    /\ UNCHANGED <<entry, saving, read, before>>

WriteCount(ok) ==
    /\ save.pc = "count" /\ Written(ok)
    /\ count' = IF ok THEN save.n + 1 ELSE count
    /\ save' = [save EXCEPT !.pc = "entry"]
    /\ UNCHANGED <<entry, saving, read, before>>

\* Mutant: the id is written under the number of the last one.
WriteEntryLow(ok) ==
    /\ save.pc = "entry" /\ Written(ok)
    /\ entry' = IF ok /\ save.n > 0 THEN [entry EXCEPT ![save.n] = Head(save.todo)] ELSE entry
    /\ save' = NextId
    /\ UNCHANGED <<count, saving, read, before>>

WriteEntry(ok) ==
    /\ save.pc = "entry" /\ Written(ok)
    /\ entry' = IF ok THEN [entry EXCEPT ![save.n + 1] = Head(save.todo)] ELSE entry
    /\ save' = NextId
    /\ UNCHANGED <<count, saving, read, before>>

\* The process ends; the file stays as it is.
FileCrash ==
    /\ faults < MaxFaults
    /\ faults' = faults + 1
    /\ save' = [pc |-> "idle", todo |-> <<>>, n |-> 0]
    /\ saving' = {}
    /\ read' = [pc |-> "idle", n |-> 0, list |-> <<>>]
    /\ before' = {}
    /\ UNCHANGED <<count, entry>>

-----------------------------------------------------------------------------
(* GetHWIDSFromFile, by a thread that bans the machines of the account.    *)

StartReading ==
    /\ read.pc = "idle"
    /\ read' = [pc |-> "keys", n |-> count, list |-> <<>>]
    /\ before' = Range(Settled)
    /\ UNCHANGED <<count, entry, save, saving, faults>>

\* The next key, until "count" or an empty one.
ReadKey ==
    LET i == Len(read.list) + 1 IN
    /\ read.pc = "keys"
    /\ read' = IF i <= read.n /\ entry[i] # NoHwid
               THEN [read EXCEPT !.list = Append(@, entry[i])]
               ELSE [read EXCEPT !.pc = "idle"]
    /\ UNCHANGED <<count, entry, save, saving, before, faults>>

FileNext ==
    \/ \E ids \in BoundedSeq(Hwids, 2) : SaveHWIDs(ids)
    \/ Skip \/ ReadCount
    \/ \E ok \in BOOLEAN : WriteCount(ok) \/ WriteEntry(ok)
    \/ FileCrash
    \/ StartReading \/ ReadKey

FileSpec == FileInit /\ [][FileNext]_fileVars

-----------------------------------------------------------------------------
\* When SaveHWIDs is done, every id it was given can be read back.  The first
\* write that fails, or stop of the process, ends that: after a count without
\* its entry, readers stop at the gap, and every later id counts as not saved.
SavedIsReadable == save.pc = "idle" /\ faults = 0 => saving \subseteq Listed

\* An id that can be read is listed once, also across crashes and failed
\* writes, although the count and the entries may have come apart.
ListedOnce ==
    \A i, j \in DOMAIN Readable : Readable[i] = Readable[j] => i = j

\* The list is never rewritten: what a login recorded stays readable, in its
\* place, whatever fails later.
OnlyGrows == [][IsPrefix(Settled, Settled')]_fileVars

\* A reader that holds no lock and meets a writer between its two writes
\* still collects everything the file held when the reading began.
ReaderMissesNothing == read.pc = "idle" => before \subseteq Range(read.list)
=============================================================================
