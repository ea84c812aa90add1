------------------------- MODULE ServerFiles_proofs --------------------------
(***************************************************************************)
(* Proofs, for any ids, bounds, settings and texts, of what the files that *)
(* the threads of GHPServer share can be trusted for.  Each kind of file   *)
(* has an inductive invariant of its own:                                  *)
(*   - FileIInv: the ids before the first gap of an account's file are     *)
(*     different ones, a write only goes to the key behind "count" or to   *)
(*     the one that "count" has just been raised to, and until the first   *)
(*     fault there is no gap at all;                                       *)
(*   - BanIInv: the status is the first key of a record to be written, so  *)
(*     that a thread that found it absent writes all the others;           *)
(*   - ListIInv: what a refresh may still do depends on the text it read,  *)
(*     and a request that the refresh left alone finds the file it saw.    *)
(***************************************************************************)
EXTENDS ServerFiles, SequenceFacts, FiniteSetTheorems

(* The hardware ids of an account.                                         *)

\* No key is missing up to n.
Full(n) == \A i \in 1 .. n : entry[i] # NoHwid

EntriesTo(n) == {entry[i] : i \in 1 .. n}

\* Where a SaveHWIDs is.
SaveInPlace ==
    /\ save.pc # "idle" => save.todo # <<>>
    /\ save.pc \in {"count", "entry"} => save.n < MaxCount
    /\ save.pc = "count" => count = save.n
    /\ save.pc = "entry" => count \in {save.n, save.n + 1}

\* Keys far behind "count" are empty: a failed write leaves one at most.
EmptyBehind ==
    \A i \in 1 .. MaxCount :
        i > (IF save.pc = "entry" THEN save.n ELSE count) + 1 => entry[i] = NoHwid

DistinctKeys ==
    \A i, j \in 1 .. MaxCount : i < j /\ Full(j) => entry[i] # entry[j]

\* The id that is being written is not among those that can be read.
NewIsNew ==
    save.pc \in {"count", "entry"} /\ Full(save.n) => Head(save.todo) \notin EntriesTo(save.n)

\* Before the first fault the keys are exactly 1 to n, and the ids given to
\* the last SaveHWIDs are there or still to do.
Flawless ==
    LET n == IF save.pc = "entry" THEN save.n ELSE count IN
    faults = 0 =>
        /\ Full(n)
        /\ \A i \in 1 .. MaxCount : i > n => entry[i] = NoHwid
        /\ save.pc = "entry" => count = save.n + 1
        /\ saving \subseteq EntriesTo(n) \cup (IF save.pc = "idle" THEN {} ELSE ToSet(save.todo))

\* A reader has all the settled ids it has come by; they have not moved since.
ReaderOnTrack ==
    \E m \in 0 .. count :
        /\ Full(m)
        /\ save.pc = "entry" => m <= save.n
        /\ IF read.pc = "keys"
           THEN /\ m <= read.n /\ before = EntriesTo(m)
                /\ \A i \in 1 .. m : i <= Len(read.list) => read.list[i] = entry[i]
           ELSE before \subseteq ToSet(read.list)

FileIInv ==
    /\ FileTypeOK /\ SaveInPlace /\ EmptyBehind /\ DistinctKeys /\ NewIsNew
    /\ Flawless /\ ReaderOnTrack

-----------------------------------------------------------------------------
(* The ban records.                                                        *)

\* Where a thread is in BanData.
BanInPlace ==
    \A t \in Threads :
        /\ pc[t] = "idle" <=> todo[t] = <<>>
        /\ pc[t] \in {"status"} \cup Fields => Current(t) \in Kinds
        /\ pc[t] \in Fields => Current(t) \in status
        /\ pc[t] \in {"ip", "userid"} => field[Current(t)]["reason"] # NoOne
        /\ pc[t] = "userid" => field[Current(t)]["ip"] # NoOne

\* The status is written first: a record without it has no key.
StatusFirst == \A k \in Kinds \ status : \A f \in Fields : field[k][f] = NoOne

\* Who writes a record writes it alone.
WrittenAlone ==
    \A k \in Kinds \ overlapped : \A t \in Threads : Writing(t, k) =>
        /\ \A f \in Fields : field[k][f] \in {t, NoOne}
        /\ \A other \in Threads \ {t} : ~Writing(other, k)

\* What BlockAll has not banned yet is still to do.
BlockInPlace ==
    /\ blocked => todo["server"] = <<>>
    /\ failures = 0 /\ (blocked \/ todo["server"] # <<>>)
           => Autoban \subseteq status \cup ToSet(todo["server"])

BanIInv ==
    BanTypeOK /\ BanInPlace /\ StatusFirst /\ WrittenAlone /\ OneAuthor /\ BlockInPlace

-----------------------------------------------------------------------------
(* The whitelist.                                                          *)

\* Where a refresh is: it writes for a text with entries, and only one that
\* met a reader removes the file of such a text.
RefreshInPlace ==
    /\ refresh.pc \in {"open", "write"} => refresh.of \in Texts
    /\ refresh.pc = "remove" /\ ~met => refresh.of = NoText

\* While the web thread reads, the file is there and nobody writes it; and it
\* stays there, while the refresh sleeps, for a web thread that has seen it.
SeenIsThere ==
    /\ BeingRead => bin # Absent /\ refresh.pc # "write"
    /\ web.pc = "found" /\ ~stirred => bin # Absent

ListIInv == ListTypeOK /\ RefreshInPlace /\ SeenIsThere /\ RefreshWorks

-----------------------------------------------------------------------------
(* Whitelist.                                                              *)

LEMMA WritesAre ==
    Len(Writes) = 6 /\ DOMAIN Writes = 1 .. 6 /\ Writes[6] = "encrypted"
<1> DEFINE Names == {"plain", "size", "signature", "signed", "vector", "encrypted"}
           signed == <<"plain">> \o SignFileWrites
<1>1. /\ <<"plain">> \in Seq(Names) /\ Len(<<"plain">>) = 1
      /\ SignFileWrites \in Seq(Names) /\ Len(SignFileWrites) = 3
      /\ EncFileWrites \in Seq(Names) /\ Len(EncFileWrites) = 2
      /\ EncFileWrites[2] = "encrypted"
  BY DEF SignFileWrites, EncFileWrites
<1> HIDE DEF Names
<1>2. signed \in Seq(Names) /\ Len(signed) = 4
  <2>1. \A p, q \in Seq(Names) : p \o q \in Seq(Names) /\ Len(p \o q) = Len(p) + Len(q)
    BY ConcatProperties
  <2>2. signed \in Seq(Names) /\ Len(signed) = Len(<<"plain">>) + Len(SignFileWrites)
    BY <1>1, <2>1
  <2> QED BY <1>1, <2>2
<1> HIDE DEF signed
<1>3. /\ signed \o EncFileWrites \in Seq(Names)
      /\ Len(signed \o EncFileWrites) = 6
      /\ (signed \o EncFileWrites)[6] = EncFileWrites[2]
  <2>1. /\ signed \o EncFileWrites \in Seq(Names)
        /\ Len(signed \o EncFileWrites) = Len(signed) + Len(EncFileWrites)
        /\ \A i \in 1 .. Len(signed) + Len(EncFileWrites) : (signed \o EncFileWrites)[i] =
                IF i <= Len(signed) THEN signed[i] ELSE EncFileWrites[i - Len(signed)]
    BY <1>1, <1>2, ConcatProperties
  <2> QED BY <1>1, <1>2, <2>1
<1>4. Writes = signed \o EncFileWrites
  BY DEF Writes, signed
<1> QED BY <1>1, <1>3, <1>4

\* What a write leaves is never taken for an absent file.
LEMMA ContentIsThere ==
    /\ Absent \notin Content
    /\ \A k \in DOMAIN Writes, t \in Texts : [holds |-> Writes[k], of |-> t] \in Content
    /\ \A t \in Texts : Made(t) = [holds |-> "encrypted", of |-> t]
    /\ \A t \in Texts : Made(t) # Absent
<1>1. \A c \in Content : c.of \in Texts
  BY DEF Content
<1> QED BY <1>1, WhitelistAssumption DEF Content, Absent, Bare, Made

LEMMA ListTypeStep ==
    ASSUME ListIInv, [ListNext]_listVars
    PROVE  ListTypeOK'
<1> USE DEF ListTypeOK
<1>1. ListTypeOK /\ RefreshInPlace /\ SeenIsThere
  BY DEF ListIInv
<1>2. 1 \in DOMAIN Writes /\ DOMAIN Writes = 1 .. 6 /\ Len(Writes) = 6
  BY WritesAre
<1>3. ASSUME NEW t \in Texts \cup {NoText}, Edit(t) PROVE ListTypeOK'
  BY <1>1, <1>3 DEF Edit
<1> DEFINE Refreshing == [pc : {"sleep", "open", "write", "remove"},
                          of : Texts \cup {NoText}, next : DOMAIN Writes]
           Asking == [pc : {"idle", "ask", "look", "found", "send"},
                      answer : {Bare("none"), Bare("zero"), Bare("empty")} \cup Content]
<1>4. CASE StartRefresh \/ OpenWrite \/ RemoveList
  <2>1. refresh' \in Refreshing
    BY <1>1, <1>2, <1>4 DEF StartRefresh, OpenWrite, RemoveList
  <2>2. bin' \in {Absent} \cup Content /\ met' \in BOOLEAN /\ stirred' \in BOOLEAN
    BY <1>1, <1>4 DEF StartRefresh, OpenWrite, RemoveList
  <2>3. UNCHANGED <<text, web>>
    BY <1>4 DEF StartRefresh, OpenWrite, RemoveList
  <2> QED BY <1>1, <2>1, <2>2, <2>3
<1>5. CASE CloseWrite
  <2>1. refresh.next \in 1 .. 6 /\ refresh.of \in Texts
    BY <1>1, <1>2, <1>5 DEF CloseWrite, RefreshInPlace
  <2>2. bin' \in Content
    BY <1>2, <1>5, <2>1, ContentIsThere DEF CloseWrite
  <2>3. refresh.next # 6 => refresh.next + 1 \in 1 .. 6
    BY <2>1
  <2>4. refresh' \in Refreshing
    BY <1>1, <1>2, <1>5, <2>3 DEF CloseWrite
  <2> QED BY <1>1, <1>5, <2>2, <2>4 DEF CloseWrite
<1>6. CASE Request \/ LookFor \/ LookForDone \/ Send
  <2>1. web' \in Asking
    BY <1>1, <1>6 DEF Request, LookFor, LookForDone, Send, Answer
  <2>2. UNCHANGED <<text, bin, refresh, met>> /\ stirred' \in BOOLEAN
    BY <1>1, <1>6 DEF Request, LookFor, LookForDone, Send
  <2> QED BY <1>1, <2>1, <2>2
<1>7. CASE SendDone
  <2>1. bin \in Content
    BY <1>1, <1>7 DEF SendDone, SeenIsThere, BeingRead
  <2> QED BY <1>1, <1>7, <2>1 DEF SendDone, Answer
<1>8. CASE UNCHANGED listVars
  BY <1>1, <1>8 DEF listVars
<1> QED BY <1>3, <1>4, <1>5, <1>6, <1>7, <1>8 DEF ListNext

LEMMA ListStep ==
    ASSUME ListIInv, [ListNext]_listVars
    PROVE  RefreshInPlace' /\ SeenIsThere' /\ RefreshWorks'
<1> USE DEF RefreshInPlace, SeenIsThere, RefreshWorks, BeingRead
<1>1. ListTypeOK /\ RefreshInPlace /\ SeenIsThere /\ RefreshWorks
  BY DEF ListIInv
<1> USE DEF ListTypeOK
<1>2. CASE StartRefresh
  BY <1>1, <1>2 DEF StartRefresh
<1>3. CASE OpenWrite
  BY <1>1, <1>3 DEF OpenWrite
<1>4. CASE CloseWrite
  <2>1. refresh.next \in 1 .. 6 /\ refresh.of \in Texts /\ ~BeingRead
    BY <1>1, <1>4, WritesAre DEF CloseWrite
  <2>2. refresh.next = 6 => bin' = Made(refresh.of)
    BY <1>4, <2>1, WritesAre, ContentIsThere DEF CloseWrite
  <2>3. /\ refresh'.of = refresh.of /\ stirred' = TRUE /\ web' = web
        /\ IF refresh.next = 6 THEN refresh'.pc = "sleep" ELSE refresh'.pc = "open"
    BY <1>1, <1>4, WritesAre DEF CloseWrite
  <2> QED BY <2>1, <2>2, <2>3
<1>5. CASE RemoveList
  BY <1>1, <1>5 DEF RemoveList, Made
<1>6. CASE Request \/ LookFor \/ LookForDone \/ Send \/ SendDone
  BY <1>1, <1>6 DEF Request, LookFor, LookForDone, Send, SendDone, Answer, CanOpen
<1>7. CASE (\E t \in Texts \cup {NoText} : Edit(t)) \/ UNCHANGED listVars
  <2>1. UNCHANGED <<bin, refresh, web, met, stirred>>
    BY <1>7 DEF Edit, listVars
  <2> QED BY <1>1, <2>1
<1> QED BY <1>2, <1>3, <1>4, <1>5, <1>6, <1>7 DEF ListNext

LEMMA ListInvariance == ListSpec => []ListIInv
<1>1. ListInit => ListIInv
  <2> SUFFICES ASSUME ListInit PROVE ListIInv
    OBVIOUS
  <2>1. 1 \in DOMAIN Writes
    BY WritesAre
  <2>2. ListTypeOK
    BY <2>1 DEF ListInit, ListTypeOK
  <2>3. RefreshInPlace /\ SeenIsThere /\ RefreshWorks
    BY DEF ListInit, RefreshInPlace, SeenIsThere, RefreshWorks, BeingRead
  <2> QED BY <2>2, <2>3 DEF ListIInv
<1>2. ListIInv /\ [ListNext]_listVars => ListIInv'
  BY ListTypeStep, ListStep DEF ListIInv
<1> QED BY <1>1, <1>2, PTL DEF ListSpec

\* What a request gets that falls between two refreshes.
LEMMA QuietStep ==
    ASSUME ListIInv, ListNext, web.pc # "idle", web'.pc = "idle", ~stirred,
           refresh.pc = "sleep", ~met
    PROVE  Loaded(web'.answer) = refresh.of
<1>1. ListTypeOK /\ SeenIsThere /\ bin = Made(refresh.of)
  BY DEF ListIInv, RefreshWorks
<1>2. refresh.of \in Texts \/ (refresh.of = NoText /\ bin = Absent)
  BY <1>1 DEF ListTypeOK, Made
<1>3. CASE LookFor
  <2>1. bin = Absent /\ web'.answer = Bare("zero")
    BY <1>1, <1>3 DEF LookFor, Answer, CanOpen, ListTypeOK
  <2>2. refresh.of = NoText
    BY <1>1, <1>2, <2>1, ContentIsThere
  <2> QED BY <2>1, <2>2 DEF Loaded, Bare
<1>4. CASE SendDone
  <2>1. bin # Absent /\ web'.answer = bin
    BY <1>1, <1>4 DEF SendDone, Answer, SeenIsThere, BeingRead
  <2>2. bin = [holds |-> "encrypted", of |-> refresh.of]
    BY <1>1, <1>2, <2>1, ContentIsThere
  <2> QED BY <2>1, <2>2 DEF Loaded
<1>5. CASE Send
  BY <1>1, <1>5 DEF Send, CanOpen, SeenIsThere, ListTypeOK
<1>6. CASE StartRefresh \/ OpenWrite \/ CloseWrite \/ RemoveList
           \/ \E t \in Texts \cup {NoText} : Edit(t)
  BY <1>6 DEF StartRefresh, OpenWrite, CloseWrite, RemoveList, Edit
<1>7. CASE Request \/ LookForDone
  BY <1>1, <1>7 DEF Request, LookForDone, ListTypeOK
<1> QED BY <1>3, <1>4, <1>5, <1>6, <1>7 DEF ListNext

-----------------------------------------------------------------------------
(* BanStore.                                                               *)

\* The ids of a session, in the order in which they are gone through.
LEMMA SetToSeqElements ==
    ASSUME NEW S, IsFiniteSet(S)
    PROVE  /\ SetToSeq(S) \in Seq(S)
           /\ ToSet(SetToSeq(S)) = S
<1> DEFINE n == Cardinality(S)
           s == SetToSeq(S)
<1>1. n \in Nat /\ ExistsBijection(1 .. n, S)
  BY FS_CardinalityType
<1>2. \E f \in [1 .. n -> S] : IsInjective(f)
  BY <1>1 DEF ExistsBijection, Bijection, Injection
<1>3. s \in [1 .. n -> S] /\ IsInjective(s)
  BY <1>2 DEF SetToSeq
<1>4. s \in Injection(1 .. n, S)
  BY <1>3 DEF Injection
<1>5. IsFiniteSet(1 .. n) /\ Cardinality(1 .. n) = n
  <2>1. IsFiniteSet(1 .. n)
    BY <1>4, FS_Injection
  <2>2. ExistsBijection(1 .. n, S)
    BY <1>1
  <2> QED BY <2>1, <2>2, FS_Bijection
<1>6. s \in Surjection(1 .. n, S)
  BY <1>4, <1>5, FS_Injection
<1>7. \A e \in S : \E k \in 1 .. n : s[k] = e
  BY <1>6 DEF Surjection
<1> HIDE DEF n, s
<1>8. s \in Seq(S) /\ DOMAIN s = 1 .. n
  BY <1>1, <1>3
<1> QED BY <1>3, <1>7, <1>8 DEF ToSet, s

LEMMA ConcatElements ==
    ASSUME NEW S, NEW p \in Seq(S), NEW q \in Seq(S)
    PROVE  p \o q \in Seq(S) /\ ToSet(p) \cup ToSet(q) \subseteq ToSet(p \o q)
<1>1. /\ p \o q \in Seq(S) /\ Len(p \o q) = Len(p) + Len(q)
      /\ \A i \in 1 .. Len(p) + Len(q) :
            (p \o q)[i] = IF i <= Len(p) THEN p[i] ELSE q[i - Len(p)]
  BY ConcatProperties
<1>2. /\ Len(p) \in Nat /\ Len(q) \in Nat /\ DOMAIN p = 1 .. Len(p) /\ DOMAIN q = 1 .. Len(q)
      /\ DOMAIN (p \o q) = 1 .. (Len(p) + Len(q))
  BY <1>1
<1>3. ASSUME NEW i \in DOMAIN p PROVE i \in DOMAIN (p \o q) /\ (p \o q)[i] = p[i]
  BY <1>1, <1>2
<1>4. ASSUME NEW i \in DOMAIN q
      PROVE  Len(p) + i \in DOMAIN (p \o q) /\ (p \o q)[Len(p) + i] = q[i]
  <2>1. Len(p) + i \in 1 .. (Len(p) + Len(q)) /\ ~(Len(p) + i <= Len(p))
        /\ (Len(p) + i) - Len(p) = i
    BY <1>2
  <2> QED BY <1>1, <1>2, <2>1
<1>5. ASSUME NEW e \in ToSet(p) \cup ToSet(q) PROVE e \in ToSet(p \o q)
  <2>1. CASE e \in ToSet(p)
    <3>1. PICK i \in DOMAIN p : p[i] = e
      BY <2>1 DEF ToSet
    <3> QED BY <1>3, <3>1 DEF ToSet
  <2>2. CASE e \in ToSet(q)
    <3>1. PICK i \in DOMAIN q : q[i] = e
      BY <2>2 DEF ToSet
    <3> QED BY <1>4, <3>1 DEF ToSet
  <2> QED BY <2>1, <2>2
<1> QED BY <1>1, <1>5

\* BlockAll goes through everything that the settings ask for.
LEMMA BlockListElements ==
    BlockList \in Seq(Kinds \cup {"none"}) /\ Autoban \subseteq ToSet(BlockList)
<1> DEFINE All == Kinds \cup {"none"}
           only(ks) == SetToSeq(ks \cap Autoban)
           call == IF ForceApi THEN <<"none">> ELSE <<>>
           two == only({"userid"}) \o only(HwidKinds)
           three == two \o only({"ip"})
<1>1. ASSUME NEW ks \in SUBSET Kinds, IsFiniteSet(ks)
      PROVE  only(ks) \in Seq(All) /\ ToSet(only(ks)) = ks \cap Autoban
  <2>1. IsFiniteSet(ks \cap Autoban)
    BY <1>1, FS_Subset
  <2>2. only(ks) \in Seq(ks \cap Autoban) /\ ToSet(only(ks)) = ks \cap Autoban
    BY <2>1, SetToSeqElements
  <2> QED BY <2>2, SeqMonotonic
<1>2. IsFiniteSet({"userid"}) /\ IsFiniteSet({"ip"}) /\ IsFiniteSet(HwidKinds)
  BY FS_Singleton, BanAssumption
<1>3. {"userid"} \subseteq Kinds /\ {"ip"} \subseteq Kinds /\ HwidKinds \subseteq Kinds
  BY DEF Kinds
<1>4. call \in Seq(All)
  <2>1. <<"none">> \in Seq(All) /\ <<>> \in Seq(All)
    OBVIOUS
  <2> QED BY <2>1
<1>5. /\ only({"userid"}) \in Seq(All) /\ ToSet(only({"userid"})) = {"userid"} \cap Autoban
      /\ only(HwidKinds) \in Seq(All) /\ ToSet(only(HwidKinds)) = HwidKinds \cap Autoban
      /\ only({"ip"}) \in Seq(All) /\ ToSet(only({"ip"})) = {"ip"} \cap Autoban
  BY <1>1, <1>2, <1>3
<1> HIDE DEF only, call, All
<1>6. /\ two \in Seq(All)
      /\ ToSet(only({"userid"})) \cup ToSet(only(HwidKinds)) \subseteq ToSet(two)
  BY <1>5, ConcatElements
<1> HIDE DEF two
<1>7. three \in Seq(All) /\ ToSet(two) \cup ToSet(only({"ip"})) \subseteq ToSet(three)
  BY <1>5, <1>6, ConcatElements
<1> HIDE DEF three
<1>8. three \o call \in Seq(All) /\ ToSet(three) \subseteq ToSet(three \o call)
  BY <1>4, <1>7, ConcatElements
<1>9. BlockList = three \o call
  BY DEF BlockList, three, two, only, call
<1>10. Autoban \subseteq {"userid", "ip"} \cup HwidKinds
  BY BanAssumption DEF Kinds
<1> QED BY <1>5, <1>6, <1>7, <1>8, <1>9, <1>10 DEF All

\* What an administrator bans on a page.
LEMMA WebListElements ==
    ASSUME NEW ks \in {{"userid"}, {"ip"}, HwidKinds}
    PROVE  SetToSeq(ks) \in Seq(Kinds \cup {"none"}) /\ (ks # {} => SetToSeq(ks) # <<>>)
<1>1. IsFiniteSet(ks) /\ ks \subseteq Kinds
  <2>1. IsFiniteSet({"userid"}) /\ IsFiniteSet({"ip"}) /\ IsFiniteSet(HwidKinds)
    BY FS_Singleton, BanAssumption
  <2> QED BY <2>1 DEF Kinds
<1>2. SetToSeq(ks) \in Seq(ks) /\ ToSet(SetToSeq(ks)) = ks
  BY <1>1, SetToSeqElements
<1>3. ToSet(<<>>) = {}
  BY DEF ToSet
<1> QED BY <1>1, <1>2, <1>3, SeqMonotonic

\* What BanData leaves when it returns.
LEMMA ReturnEffect ==
    ASSUME BanTypeOK, NEW t \in Threads, todo[t] # <<>>,
           NEW r \in {"ok", "error", "already"}, Return(t, r)
    PROVE  /\ todo' \in [Threads -> Seq(Kinds \cup {"none"})]
           /\ pc' \in [Threads -> {"idle", "call", "look", "status"} \cup Fields]
           /\ answer' \in [Threads -> {"none", "ok", "error", "already"}]
           /\ blocked' \in BOOLEAN
           /\ answer'[t] = r /\ todo'[t] = Tail(todo[t])
           /\ pc'[t] \in {"idle", "call"} /\ (pc'[t] = "idle" <=> todo'[t] = <<>>)
           /\ \A o \in Threads \ {t} :
                  todo'[o] = todo[o] /\ pc'[o] = pc[o] /\ answer'[o] = answer[o]
           /\ blocked' = (blocked \/ (t = "server" /\ todo'[t] = <<>>))
<1>1. /\ todo[t] \in Seq(Kinds \cup {"none"}) /\ Tail(todo[t]) \in Seq(Kinds \cup {"none"})
      /\ Len(todo[t]) \in Nat \ {0} /\ Len(Tail(todo[t])) = Len(todo[t]) - 1
  BY HeadTailElements DEF BanTypeOK
<1>2. Len(todo[t]) = 1 <=> Tail(todo[t]) = <<>>
  <2>1. \A s \in Seq(Kinds \cup {"none"}) : Len(s) = 0 <=> s = <<>>
    OBVIOUS
  <2>2. Len(Tail(todo[t])) = 0 <=> Tail(todo[t]) = <<>>
    BY <1>1, <2>1
  <2> QED BY <1>1, <2>2
<1>3. /\ answer' = [answer EXCEPT ![t] = r]
      /\ todo' = [todo EXCEPT ![t] = Tail(todo[t])]
      /\ pc' = [pc EXCEPT ![t] = IF Tail(todo[t]) = <<>> THEN "idle" ELSE "call"]
      /\ blocked' = (blocked \/ (t = "server" /\ Tail(todo[t]) = <<>>))
  BY <1>2 DEF Return
<1> QED BY <1>1, <1>3 DEF BanTypeOK

\* One key is written, by one thread.
LEMMA WriteFieldEffect ==
    ASSUME BanTypeOK, BanInPlace, NEW t \in Threads, NEW f \in Fields, WriteField(t, f)
    PROVE  LET k == Current(t) IN
           /\ k \in Kinds /\ k \in status /\ Writing(t, k) /\ todo[t] # <<>>
           /\ field' \in [Kinds -> [Fields -> Threads \cup {NoOne}]]
           /\ field'[k][f] = t
           /\ \A k2 \in Kinds, f2 \in Fields :
                  k2 # k \/ f2 # f => field'[k2][f2] = field[k2][f2]
           /\ UNCHANGED <<status, overlapped, failures>>
<1> DEFINE k == Current(t)
<1>1. pc[t] = f /\ k \in Kinds /\ k \in status /\ todo[t] # <<>>
  BY DEF WriteField, BanInPlace, Fields
<1>2. field' = [field EXCEPT ![k] = [field[k] EXCEPT ![f] = t]]
  BY DEF WriteField
<1>3. field[k] \in [Fields -> Threads \cup {NoOne}]
  BY <1>1 DEF BanTypeOK
<1>4. [field[k] EXCEPT ![f] = t] \in [Fields -> Threads \cup {NoOne}]
  BY <1>3
<1>5. Writing(t, k)
  BY <1>1 DEF Writing
<1> HIDE DEF k
<1> QED BY <1>1, <1>2, <1>3, <1>4, <1>5 DEF BanTypeOK, WriteField, k

LEMMA RecordsGrow ==
    ASSUME BanTypeOK, BanInPlace, [BanNext]_banVars
    PROVE  /\ status \subseteq status'
           /\ \A k \in Kinds, f \in Fields : field[k][f] # NoOne => field'[k][f] # NoOne
<1>1. ASSUME NEW t \in Threads, NEW f \in Fields, WriteField(t, f)
      PROVE  /\ status \subseteq status'
             /\ \A k \in Kinds, f2 \in Fields : field[k][f2] # NoOne => field'[k][f2] # NoOne
  BY <1>1, WriteFieldEffect DEF Threads, NoOne
<1>2. ASSUME NEW t \in Threads, WriteStatus(t)
      PROVE  status \subseteq status' /\ UNCHANGED field
  BY <1>2 DEF WriteStatus
<1>3. ASSUME NEW t \in Threads, Call(t) \/ Look(t) \/ FailWrite(t)
      PROVE  UNCHANGED <<status, field>>
  BY <1>3 DEF Call, Look, FailWrite
<1>4. ASSUME \/ BlockAll \/ BanCrash \/ UNCHANGED banVars
             \/ \E ks \in {{"userid"}, {"ip"}, HwidKinds} : WebBan(ks)
      PROVE  UNCHANGED <<status, field>>
  BY <1>4 DEF BlockAll, BanCrash, WebBan, banVars
<1> QED BY <1>1, <1>2, <1>3, <1>4 DEF BanNext

LEMMA BanTypeStep ==
    ASSUME BanTypeOK, BanInPlace, [BanNext]_banVars
    PROVE  BanTypeOK'
<1> USE DEF BanTypeOK
<1>1. CASE BlockAll
  BY <1>1, BlockListElements DEF BlockAll, Threads
<1>2. ASSUME NEW ks \in {{"userid"}, {"ip"}, HwidKinds}, WebBan(ks) PROVE BanTypeOK'
  BY <1>2, WebListElements DEF WebBan, Threads
<1>3. ASSUME NEW t \in Threads, Call(t) PROVE BanTypeOK'
  BY <1>3 DEF Call
<1>4. ASSUME NEW t \in Threads, Look(t) PROVE BanTypeOK'
  <2>1. todo[t] # <<>> /\ pc[t] = "look"
    BY <1>4 DEF Look, BanInPlace
  <2>2. Current(t) \in Kinds \cup {"none"}
    BY <2>1, HeadTailElements DEF Current
  <2>3. CASE Current(t) = "none" \/ Current(t) \in status
    <3>1. PICK r \in {"ok", "error", "already"} : Return(t, r)
      BY <1>4, <2>3 DEF Look
    <3>2. UNCHANGED <<status, field, overlapped, failures>>
      BY <1>4, <2>3 DEF Look
    <3> QED BY <2>1, <3>1, <3>2, ReturnEffect
  <2>4. CASE ~(Current(t) = "none" \/ Current(t) \in status)
    <3>1. /\ pc' = [pc EXCEPT ![t] = "status"]
          /\ overlapped' \subseteq overlapped \cup {Current(t)}
          /\ UNCHANGED <<status, field, answer, todo, blocked, failures>>
      BY <1>4, <2>4 DEF Look
    <3> QED BY <2>2, <2>4, <3>1
  <2> QED BY <2>3, <2>4
<1>5. ASSUME NEW t \in Threads, FailWrite(t) PROVE BanTypeOK'
  <2>1. todo[t] # <<>> /\ Return(t, "error") /\ failures' = failures + 1
        /\ failures < MaxFailures
    BY <1>5 DEF FailWrite, BanInPlace, Fields
  <2>2. failures' \in 0 .. MaxFailures
    BY <2>1, BanAssumption
  <2> QED BY <1>5, <2>1, <2>2, ReturnEffect DEF FailWrite
<1>6. ASSUME NEW t \in Threads, WriteStatus(t) PROVE BanTypeOK'
  <2>1. Current(t) \in Kinds
    BY <1>6 DEF WriteStatus, BanInPlace
  <2>2. pc' \in [Threads -> {"idle", "call", "look", "status"} \cup Fields]
    BY <1>6 DEF WriteStatus, Fields
  <2> QED BY <1>6, <2>1, <2>2 DEF WriteStatus
<1>7. ASSUME NEW t \in Threads, NEW f \in Fields, WriteField(t, f) PROVE BanTypeOK'
  <2>1. /\ field' \in [Kinds -> [Fields -> Threads \cup {NoOne}]] /\ todo[t] # <<>>
        /\ UNCHANGED <<status, overlapped, failures>>
    BY <1>7, WriteFieldEffect
  <2>2. CASE f = "userid"
    <3>1. Return(t, "ok")
      BY <1>7, <2>2 DEF WriteField
    <3> QED BY <2>1, <3>1, ReturnEffect
  <2>3. CASE f # "userid"
    <3>1. PICK next \in Fields : pc' = [pc EXCEPT ![t] = next]
      BY <1>7, <2>3 DEF WriteField, Fields
    <3>2. UNCHANGED <<answer, todo, blocked>>
      BY <1>7, <2>3 DEF WriteField
    <3> QED BY <2>1, <3>1, <3>2
  <2> QED BY <2>2, <2>3
<1>8. CASE BanCrash
  <2>1. failures' \in 0 .. MaxFailures
    BY <1>8, BanAssumption DEF BanCrash
  <2>2. <<>> \in Seq(Kinds \cup {"none"})
    OBVIOUS
  <2> QED BY <1>8, <2>1, <2>2 DEF BanCrash
<1>9. CASE UNCHANGED banVars
  BY <1>9 DEF banVars
<1> QED BY <1>1, <1>2, <1>3, <1>4, <1>5, <1>6, <1>7, <1>8, <1>9 DEF BanNext

LEMMA BanInPlaceStep ==
    ASSUME BanTypeOK, BanInPlace, [BanNext]_banVars
    PROVE  BanInPlace'
<1> DEFINE Place(u) ==
        /\ pc[u] = "idle" <=> todo[u] = <<>>
        /\ pc[u] \in {"status"} \cup Fields => Current(u) \in Kinds
        /\ pc[u] \in Fields => Current(u) \in status
        /\ pc[u] \in {"ip", "userid"} => field[Current(u)]["reason"] # NoOne
        /\ pc[u] = "userid" => field[Current(u)]["ip"] # NoOne
<1> SUFFICES ASSUME NEW u \in Threads PROVE Place(u)'
  BY DEF BanInPlace
<1>1. Place(u) /\ todo[u] \in Seq(Kinds \cup {"none"})
  BY DEF BanInPlace, BanTypeOK
<1>2. /\ status \subseteq status'
      /\ \A k \in Kinds, f \in Fields : field[k][f] # NoOne => field'[k][f] # NoOne
  BY RecordsGrow
<1>3. ASSUME todo'[u] = todo[u], pc'[u] = pc[u] PROVE Place(u)'
  BY <1>1, <1>2, <1>3 DEF Current, Fields
<1>4. ASSUME pc'[u] \in {"idle", "call", "look"}, pc'[u] = "idle" <=> todo'[u] = <<>>
      PROVE  Place(u)'
  BY <1>4 DEF Fields
<1>5. CASE BlockAll
  <2>1. u = "server" => pc'[u] = "call" /\ todo'[u] # <<>>
    BY <1>5 DEF BlockAll, BanTypeOK, Threads
  <2>2. u # "server" => pc'[u] = pc[u] /\ todo'[u] = todo[u]
    BY <1>5 DEF BlockAll, BanTypeOK, Threads
  <2> QED BY <1>3, <1>4, <2>1, <2>2
<1>6. ASSUME NEW ks \in {{"userid"}, {"ip"}, HwidKinds}, WebBan(ks) PROVE Place(u)'
  <2>1. u = "web" => pc'[u] = "call" /\ todo'[u] # <<>>
    BY <1>6, WebListElements DEF WebBan, BanTypeOK, Threads
  <2>2. u # "web" => pc'[u] = pc[u] /\ todo'[u] = todo[u]
    BY <1>6 DEF WebBan, BanTypeOK, Threads
  <2> QED BY <1>3, <1>4, <2>1, <2>2
<1>7. ASSUME NEW t \in Threads, NEW r \in {"ok", "error", "already"}, Return(t, r), todo[t] # <<>>
      PROVE  Place(u)'
  <2>1. u = t => pc'[u] \in {"idle", "call"} /\ (pc'[u] = "idle" <=> todo'[u] = <<>>)
    BY <1>7, ReturnEffect
  <2>2. u # t => todo'[u] = todo[u] /\ pc'[u] = pc[u]
    BY <1>7, ReturnEffect
  <2> QED BY <1>3, <1>4, <2>1, <2>2
<1>8. ASSUME NEW t \in Threads, Call(t) PROVE Place(u)'
  <2>1. u = t => pc'[u] = "look" /\ todo'[u] = todo[u] /\ pc[u] = "call"
    BY <1>8 DEF Call, BanTypeOK
  <2>2. u # t => todo'[u] = todo[u] /\ pc'[u] = pc[u]
    BY <1>8 DEF Call, BanTypeOK
  <2> QED BY <1>1, <1>3, <1>4, <2>1, <2>2
<1>9. ASSUME NEW t \in Threads, Look(t) PROVE Place(u)'
  <2>1. todo[t] # <<>> /\ todo[t] \in Seq(Kinds \cup {"none"})
    BY <1>9 DEF Look, BanInPlace, BanTypeOK
  <2>2. CASE Current(t) = "none" \/ Current(t) \in status
    BY <1>7, <1>9, <2>1, <2>2 DEF Look
  <2>3. CASE ~(Current(t) = "none" \/ Current(t) \in status)
    <3>1. Current(t) \in Kinds
      BY <2>1, <2>3, HeadTailElements DEF Current
    <3>2. pc' = [pc EXCEPT ![t] = "status"] /\ todo' = todo
      BY <1>9, <2>3 DEF Look
    <3>3. CASE u = t
      <4>1. pc'[u] = "status" /\ todo'[u] = todo[u] /\ Current(u)' = Current(u)
        BY <3>2, <3>3 DEF BanTypeOK, Current
      <4> QED BY <2>1, <3>1, <3>3, <4>1 DEF Fields
    <3>4. CASE u # t
      BY <1>3, <3>2, <3>4 DEF BanTypeOK
    <3> QED BY <3>3, <3>4
  <2> QED BY <2>2, <2>3
<1>10. ASSUME NEW t \in Threads, FailWrite(t) PROVE Place(u)'
  BY <1>7, <1>10 DEF FailWrite, BanInPlace, Fields
<1>11. ASSUME NEW t \in Threads, WriteStatus(t) PROVE Place(u)'
  <2>1. /\ pc[t] = "status" /\ Current(t) \in Kinds /\ todo[t] # <<>> /\ todo' = todo
        /\ status' = status \cup {Current(t)} /\ pc' = [pc EXCEPT ![t] = "reason"]
    BY <1>11 DEF WriteStatus, BanInPlace
  <2>2. CASE u = t
    <3>1. pc'[u] = "reason" /\ todo'[u] = todo[u] /\ Current(u)' = Current(u)
      BY <2>1, <2>2 DEF BanTypeOK, Current
    <3> QED BY <2>1, <2>2, <3>1 DEF Fields
  <2>3. CASE u # t
    BY <1>3, <2>1, <2>3 DEF BanTypeOK
  <2> QED BY <2>2, <2>3
<1>12. ASSUME NEW t \in Threads, NEW f \in Fields, WriteField(t, f) PROVE Place(u)'
  <2>1. CASE f = "userid"
    BY <1>7, <1>12, <2>1, WriteFieldEffect DEF WriteField
  <2>2. CASE f # "userid"
    <3>1. /\ pc' = [pc EXCEPT ![t] = IF f = "reason" THEN "ip" ELSE "userid"]
          /\ todo' = todo /\ pc[t] = f
      BY <1>12, <2>2 DEF WriteField
    <3>2. CASE u # t
      BY <1>3, <3>1, <3>2 DEF BanTypeOK
    <3>3. CASE u = t
      <4>1. /\ pc'[u] = IF f = "reason" THEN "ip" ELSE "userid"
            /\ todo'[u] = todo[u] /\ Current(u)' = Current(u)
        BY <3>1, <3>3 DEF BanTypeOK, Current
      <4>2. /\ Current(u) \in Kinds /\ Current(u) \in status /\ todo[u] # <<>>
            /\ field'[Current(u)][f] # NoOne
        BY <1>12, <3>3, WriteFieldEffect DEF Threads, NoOne
      <4>3. f = "reason" \/ (f = "ip" /\ field'[Current(u)]["reason"] # NoOne)
        BY <1>1, <1>2, <2>2, <3>1, <3>3, <4>2 DEF Fields
      <4> QED BY <1>2, <4>1, <4>2, <4>3 DEF Fields
    <3> QED BY <3>2, <3>3
  <2> QED BY <2>1, <2>2
<1>13. CASE BanCrash
  BY <1>4, <1>13 DEF BanCrash
<1>14. CASE UNCHANGED banVars
  BY <1>3, <1>14 DEF banVars
<1> QED BY <1>5, <1>6, <1>8, <1>9, <1>10, <1>11, <1>12, <1>13, <1>14 DEF BanNext

LEMMA StatusFirstStep ==
    ASSUME BanTypeOK, BanInPlace, StatusFirst, [BanNext]_banVars
    PROVE  StatusFirst'
<1> USE DEF StatusFirst
<1>1. ASSUME NEW t \in Threads, NEW f \in Fields, WriteField(t, f) PROVE StatusFirst'
  BY <1>1, WriteFieldEffect
<1>2. ASSUME NEW t \in Threads, WriteStatus(t) \/ Call(t) \/ Look(t) \/ FailWrite(t)
      PROVE  StatusFirst'
  BY <1>2 DEF WriteStatus, Call, Look, FailWrite
<1>3. ASSUME \/ BlockAll \/ BanCrash \/ UNCHANGED banVars
             \/ \E ks \in {{"userid"}, {"ip"}, HwidKinds} : WebBan(ks)
      PROVE  StatusFirst'
  BY <1>3 DEF BlockAll, BanCrash, WebBan, banVars
<1> QED BY <1>1, <1>2, <1>3 DEF BanNext

\* A thread that writes a record has written it before, or has just found that
\* it has no status; then the other thread stands where it stood.
LEMMA WritingOrigin ==
    ASSUME BanTypeOK, BanInPlace, [BanNext]_banVars,
           NEW u \in Threads, NEW k \in Kinds, Writing(u, k)'
    PROVE  \/ Writing(u, k)
           \/ /\ k \notin status /\ UNCHANGED field
              /\ \A o \in Threads \ {u} : Writing(o, k)' => k \in overlapped'
<1> USE DEF Writing, Current
<1>1. ASSUME todo'[u] = todo[u], pc'[u] = pc[u] PROVE Writing(u, k)
  BY <1>1
<1>2. pc'[u] \notin {"idle", "call", "look"}
  BY DEF Fields
<1>3. CASE BlockAll
  <2>1. u # "server"
    BY <1>2, <1>3 DEF BlockAll, BanTypeOK
  <2> QED BY <1>1, <1>3, <2>1 DEF BlockAll, BanTypeOK
<1>4. ASSUME NEW ks, WebBan(ks) PROVE Writing(u, k)
  <2>1. u # "web"
    BY <1>2, <1>4 DEF WebBan, BanTypeOK
  <2> QED BY <1>1, <1>4, <2>1 DEF WebBan, BanTypeOK
<1>5. ASSUME NEW t \in Threads, NEW r \in {"ok", "error", "already"}, Return(t, r), todo[t] # <<>>
      PROVE  Writing(u, k)
  <2>1. u # t
    BY <1>2, <1>5, ReturnEffect
  <2> QED BY <1>1, <1>5, <2>1, ReturnEffect
<1>6. ASSUME NEW t \in Threads, Call(t) PROVE Writing(u, k)
  <2>1. u # t
    BY <1>2, <1>6 DEF Call, BanTypeOK
  <2> QED BY <1>1, <1>6, <2>1 DEF Call, BanTypeOK
<1>7. ASSUME NEW t \in Threads, WriteStatus(t) PROVE Writing(u, k)
  BY <1>7 DEF WriteStatus, BanTypeOK, BanInPlace, Fields
<1>8. ASSUME NEW t \in Threads, FailWrite(t) PROVE Writing(u, k)
  BY <1>5, <1>8 DEF FailWrite, BanInPlace, Fields
<1>9. ASSUME NEW t \in Threads, NEW f \in Fields, WriteField(t, f) PROVE Writing(u, k)
  <2>1. todo[t] # <<>> /\ pc[t] = f
    BY <1>9, WriteFieldEffect DEF WriteField
  <2>2. CASE f = "userid"
    BY <1>5, <1>9, <2>1, <2>2 DEF WriteField
  <2>3. CASE f # "userid"
    <3>1. /\ pc' = [pc EXCEPT ![t] = IF f = "reason" THEN "ip" ELSE "userid"]
          /\ todo' = todo
      BY <1>9, <2>3 DEF WriteField
    <3> QED BY <2>1, <3>1 DEF BanTypeOK
  <2> QED BY <2>2, <2>3
<1>10. ASSUME NEW t \in Threads, Look(t)
       PROVE  \/ Writing(u, k)
              \/ /\ k \notin status /\ UNCHANGED field
                 /\ \A o \in Threads \ {u} : Writing(o, k)' => k \in overlapped'
  <2>1. todo[t] # <<>> /\ pc[t] = "look" /\ UNCHANGED field
    BY <1>10 DEF Look, BanInPlace
  <2>2. CASE Current(t) = "none" \/ Current(t) \in status
    BY <1>5, <1>10, <2>1, <2>2 DEF Look
  <2>3. CASE ~(Current(t) = "none" \/ Current(t) \in status)
    <3>1. /\ pc' = [pc EXCEPT ![t] = "status"] /\ todo' = todo
          /\ overlapped' = overlapped \cup
                 (IF \E other \in Threads \ {t} : Writing(other, Current(t))
                  THEN {Current(t)} ELSE {})
      BY <1>10, <2>3 DEF Look
    <3>2. CASE u # t
      BY <1>1, <3>1, <3>2 DEF BanTypeOK
    <3>3. CASE u = t
      <4>1. Current(t) = k
        BY <3>1, <3>3
      <4>2. ASSUME NEW o \in Threads \ {u}, Writing(o, k)' PROVE k \in overlapped'
        <5>1. Writing(o, k)
          BY <3>1, <3>3, <4>2 DEF BanTypeOK
        <5> QED BY <3>1, <3>3, <4>1, <5>1
      <4> QED BY <2>1, <2>3, <4>1, <4>2
    <3> QED BY <3>2, <3>3
  <2> QED BY <2>2, <2>3
<1>11. CASE BanCrash
  BY <1>2, <1>11 DEF BanCrash
<1>12. CASE UNCHANGED banVars
  BY <1>1, <1>12 DEF banVars
<1> QED BY <1>3, <1>4, <1>6, <1>7, <1>8, <1>9, <1>10, <1>11, <1>12 DEF BanNext

\* What a step does to the keys of a record that two threads did not write at
\* the same time: nothing, or its only writer adds one.
LEMMA KeyWritten ==
    ASSUME BanTypeOK, BanInPlace, [BanNext]_banVars
    PROVE  \/ UNCHANGED field
           \/ \E t \in Threads, f \in Fields :
                  /\ Current(t) \in Kinds /\ Writing(t, Current(t))
                  /\ field'[Current(t)][f] = t
                  /\ \A k \in Kinds, g \in Fields :
                         k # Current(t) \/ g # f => field'[k][g] = field[k][g]
<1>1. ASSUME NEW t \in Threads, NEW f \in Fields, WriteField(t, f)
      PROVE  /\ Current(t) \in Kinds /\ Writing(t, Current(t))
             /\ field'[Current(t)][f] = t
             /\ \A k \in Kinds, g \in Fields :
                    k # Current(t) \/ g # f => field'[k][g] = field[k][g]
  BY <1>1, WriteFieldEffect
<1>2. ASSUME NEW t \in Threads, WriteStatus(t) \/ Call(t) \/ Look(t) \/ FailWrite(t)
      PROVE  UNCHANGED field
  BY <1>2 DEF WriteStatus, Call, Look, FailWrite
<1>3. ASSUME \/ BlockAll \/ BanCrash \/ UNCHANGED banVars
             \/ \E ks \in {{"userid"}, {"ip"}, HwidKinds} : WebBan(ks)
      PROVE  UNCHANGED field
  BY <1>3 DEF BlockAll, BanCrash, WebBan, banVars
<1> QED BY <1>1, <1>2, <1>3 DEF BanNext

LEMMA OverlappedGrows ==
    ASSUME [BanNext]_banVars
    PROVE  overlapped \subseteq overlapped'
<1>1. ASSUME NEW t \in Threads, \/ Call(t) \/ Look(t) \/ FailWrite(t) \/ WriteStatus(t)
                                \/ \E f \in Fields : WriteField(t, f)
      PROVE  overlapped \subseteq overlapped'
  BY <1>1 DEF Call, Look, FailWrite, WriteStatus, WriteField
<1> QED BY <1>1 DEF BanNext, BlockAll, WebBan, BanCrash, banVars

LEMMA AuthorStep ==
    ASSUME BanTypeOK, BanInPlace, StatusFirst, WrittenAlone, OneAuthor, [BanNext]_banVars
    PROVE  WrittenAlone' /\ OneAuthor'
<1>1. overlapped \subseteq overlapped'
  BY OverlappedGrows
<1>2. ASSUME NEW k \in Kinds \ overlapped', NEW u \in Threads, Writing(u, k)'
      PROVE  /\ \A f \in Fields : field'[k][f] \in {u, NoOne}
             /\ \A o \in Threads \ {u} : ~Writing(o, k)'
  <2>1. CASE Writing(u, k)
    <3>1. /\ \A f \in Fields : field[k][f] \in {u, NoOne}
          /\ \A o \in Threads \ {u} : ~Writing(o, k)
      BY <1>1, <2>1 DEF WrittenAlone
    <3>2. \A f \in Fields : field'[k][f] \in {u, NoOne}
      BY <3>1, KeyWritten
    <3>3. ASSUME NEW o \in Threads \ {u}, Writing(o, k)' PROVE FALSE
      <4>1. k \in overlapped'
        BY <1>2, <3>1, <3>3, WritingOrigin
      <4> QED BY <4>1
    <3> QED BY <3>2, <3>3
  <2>2. CASE ~Writing(u, k)
    <3>1. /\ k \notin status /\ UNCHANGED field
          /\ \A o \in Threads \ {u} : Writing(o, k)' => k \in overlapped'
      BY <1>2, <2>2, WritingOrigin
    <3> QED BY <3>1 DEF StatusFirst
  <2> QED BY <2>1, <2>2
<1>3. ASSUME NEW k \in Kinds \ overlapped', NEW f \in Fields, NEW g \in Fields
      PROVE  field'[k][f] = field'[k][g] \/ NoOne \in {field'[k][f], field'[k][g]}
  <2>1. field[k][f] = field[k][g] \/ NoOne \in {field[k][f], field[k][g]}
    BY <1>1 DEF OneAuthor
  <2>2. \A t \in Threads : Writing(t, k) => \A h \in Fields : field[k][h] \in {t, NoOne}
    BY <1>1 DEF WrittenAlone
  <2> QED BY <2>1, <2>2, KeyWritten
<1>4. WrittenAlone'
  BY <1>2 DEF WrittenAlone
<1>5. OneAuthor'
  BY <1>3 DEF OneAuthor
<1> QED BY <1>4, <1>5

\* Any step but one of the thread itself leaves its list alone, or drops it.
LEMMA BlockInPlaceStep ==
    ASSUME BanTypeOK, BanInPlace, BlockInPlace, [BanNext]_banVars
    PROVE  BlockInPlace'
<1> USE DEF BlockInPlace
<1>1. Autoban \subseteq Kinds /\ "none" \notin Kinds /\ status \subseteq status'
  BY RecordsGrow, BanAssumption DEF Kinds
<1>2. "server" \in Threads
  BY DEF Threads
<1>3. ASSUME todo'["server"] = todo["server"], blocked' = blocked,
             failures' = 0 => failures = 0
      PROVE  BlockInPlace'
  BY <1>1, <1>3
<1>4. ASSUME NEW t \in Threads, NEW r \in {"ok", "error", "already"}, Return(t, r),
             todo[t] # <<>>, failures' = 0 => failures = 0 /\ Current(t) \in status \cup {"none"}
      PROVE  BlockInPlace'
  <2>1. CASE t # "server"
    <3>1. todo'["server"] = todo["server"] /\ blocked' = blocked
      BY <1>2, <1>4, <2>1, ReturnEffect DEF BanTypeOK
    <3> QED BY <1>3, <1>4, <3>1
  <2>2. CASE t = "server"
    <3>1. /\ ~blocked /\ todo'[t] = Tail(todo[t])
          /\ blocked' = (todo'[t] = <<>>)
      BY <1>4, <2>2, ReturnEffect DEF BanTypeOK
    <3>2. ToSet(todo[t]) = {Current(t)} \cup ToSet(todo'[t])
      BY <1>4, <3>1, HeadTailElements DEF Current, BanTypeOK
    <3>3. failures' = 0 => Autoban \subseteq status' \cup ToSet(todo'[t])
      <4> SUFFICES ASSUME failures' = 0 PROVE Autoban \subseteq status' \cup ToSet(todo'[t])
        OBVIOUS
      <4>1. Autoban \subseteq status \cup ToSet(todo[t])
        BY <1>4, <2>2
      <4> QED BY <1>1, <1>4, <3>2, <4>1
    <3> QED BY <2>2, <3>1, <3>3
  <2> QED BY <2>1, <2>2
<1>5. CASE BlockAll
  <2>1. todo'["server"] = BlockList /\ blocked' = FALSE
    BY <1>2, <1>5 DEF BlockAll, BanTypeOK
  <2> QED BY <2>1, BlockListElements
<1>6. ASSUME NEW ks, WebBan(ks) PROVE BlockInPlace'
  BY <1>2, <1>3, <1>6 DEF WebBan, BanTypeOK
<1>7. ASSUME NEW t \in Threads, Call(t) \/ WriteStatus(t) PROVE BlockInPlace'
  BY <1>3, <1>7 DEF Call, WriteStatus
<1>8. ASSUME NEW t \in Threads, Look(t) PROVE BlockInPlace'
  <2>1. todo[t] # <<>> /\ failures' = failures
    BY <1>8 DEF Look, BanInPlace
  <2>2. CASE Current(t) = "none" \/ Current(t) \in status
    BY <1>4, <1>8, <2>1, <2>2 DEF Look
  <2>3. CASE ~(Current(t) = "none" \/ Current(t) \in status)
    BY <1>3, <1>8, <2>1, <2>3 DEF Look
  <2> QED BY <2>2, <2>3
<1>9. ASSUME NEW t \in Threads, FailWrite(t) PROVE BlockInPlace'
  <2>1. failures' # 0 /\ todo[t] # <<>> /\ Return(t, "error")
    BY <1>9 DEF FailWrite, BanInPlace, Fields, BanTypeOK
  <2> QED BY <1>4, <2>1
<1>10. ASSUME NEW t \in Threads, NEW f \in Fields, WriteField(t, f) PROVE BlockInPlace'
  <2>1. todo[t] # <<>> /\ failures' = failures /\ Current(t) \in status
    BY <1>10, WriteFieldEffect
  <2>2. CASE f = "userid"
    BY <1>4, <1>10, <2>1, <2>2 DEF WriteField
  <2>3. CASE f # "userid"
    BY <1>3, <1>10, <2>1, <2>3 DEF WriteField
  <2> QED BY <2>2, <2>3
<1>11. CASE BanCrash
  BY <1>2, <1>11 DEF BanCrash
<1>12. CASE UNCHANGED banVars
  BY <1>3, <1>12 DEF banVars
<1> QED BY <1>5, <1>6, <1>7, <1>8, <1>9, <1>10, <1>11, <1>12 DEF BanNext

LEMMA BanInvariance == BanSpec => []BanIInv
<1>1. BanInit => BanIInv
  <2> SUFFICES ASSUME BanInit PROVE BanIInv
    OBVIOUS
  <2> USE DEF BanInit
  <2>1. BanTypeOK
    <3>1. <<>> \in Seq(Kinds \cup {"none"}) /\ 0 \in 0 .. MaxFailures
      BY BanAssumption
    <3> QED BY <3>1 DEF BanTypeOK
  <2>2. BanInPlace
    BY DEF BanInPlace, Fields
  <2>3. StatusFirst /\ OneAuthor
    BY DEF StatusFirst, OneAuthor
  <2>4. WrittenAlone
    BY DEF WrittenAlone, Writing
  <2>5. BlockInPlace
    BY DEF BlockInPlace, Threads
  <2> QED BY <2>1, <2>2, <2>3, <2>4, <2>5 DEF BanIInv
<1>2. BanIInv /\ [BanNext]_banVars => BanIInv'
  BY BanTypeStep, BanInPlaceStep, StatusFirstStep, AuthorStep, BlockInPlaceStep DEF BanIInv
<1> QED BY <1>1, <1>2, PTL DEF BanSpec

\* BANR_OK is the answer of the write of the last key.
LEMMA OkStep ==
    ASSUME BanIInv, BanNext, NEW t \in Threads, NEW k \in Kinds,
           pc[t] \in Fields, Current(t) = k, todo'[t] = Tail(todo[t]), answer'[t] = "ok"
    PROVE  Complete(k)'
<1>1. BanTypeOK /\ BanInPlace
  BY DEF BanIInv
<1>2. todo[t] # <<>> /\ todo'[t] # todo[t]
  <2>1. todo[t] # <<>> /\ todo[t] \in Seq(Kinds \cup {"none"})
    BY <1>1 DEF BanInPlace, BanTypeOK, Fields
  <2>2. Len(Tail(todo[t])) = Len(todo[t]) - 1 /\ Len(todo[t]) \in Nat \ {0}
    BY <2>1, HeadTailElements
  <2>3. Len(Tail(todo[t])) # Len(todo[t])
    BY <2>2
  <2>4. Tail(todo[t]) # todo[t]
    BY <2>3
  <2> QED BY <2>1, <2>4
<1>3. ASSUME NEW f \in Fields, WriteField(t, f) PROVE Complete(k)'
  <2>1. f = "userid" /\ pc[t] = f
    BY <1>2, <1>3 DEF WriteField
  <2>2. k \in status /\ field[k]["reason"] # NoOne /\ field[k]["ip"] # NoOne
    BY <1>1, <2>1 DEF BanInPlace
  <2>3. field'[k]["userid"] # NoOne
    BY <1>1, <1>3, <2>1, WriteFieldEffect DEF Threads, NoOne
  <2> QED BY <1>1, <2>2, <2>3, RecordsGrow DEF Complete, Fields
<1>4. ASSUME NEW u \in Threads, NEW f \in Fields, u # t, WriteField(u, f) PROVE FALSE
  <2>1. CASE f = "userid"
    <3>1. Return(u, "ok") /\ todo[u] # <<>>
      BY <1>1, <1>4, <2>1, WriteFieldEffect DEF WriteField
    <3> QED BY <1>1, <1>2, <1>4, <3>1, ReturnEffect
  <2>2. CASE f # "userid"
    BY <1>2, <1>4, <2>2 DEF WriteField
  <2> QED BY <2>1, <2>2
<1>5. ASSUME NEW u \in Threads, Call(u) \/ WriteStatus(u) PROVE FALSE
  BY <1>2, <1>5 DEF Call, WriteStatus
<1>6. ASSUME NEW u \in Threads, Look(u) PROVE FALSE
  <2>1. u # t /\ todo[u] # <<>>
    BY <1>1, <1>6 DEF Look, BanInPlace, Fields
  <2>2. CASE Current(u) = "none" \/ Current(u) \in status
    <3>1. PICK r \in {"ok", "error", "already"} : Return(u, r)
      BY <1>6, <2>2 DEF Look
    <3> QED BY <1>1, <1>2, <2>1, <3>1, ReturnEffect
  <2>3. CASE ~(Current(u) = "none" \/ Current(u) \in status)
    BY <1>2, <1>6, <2>3 DEF Look
  <2> QED BY <2>2, <2>3
<1>7. ASSUME NEW u \in Threads, FailWrite(u) PROVE FALSE
  <2>1. Return(u, "error") /\ todo[u] # <<>>
    BY <1>1, <1>7 DEF FailWrite, BanInPlace, Fields
  <2> QED BY <1>1, <1>2, <2>1, ReturnEffect
<1>8. CASE BlockAll
  BY <1>1, <1>2, <1>8 DEF BlockAll, BanTypeOK
<1>9. ASSUME NEW ks, WebBan(ks) PROVE FALSE
  BY <1>1, <1>2, <1>9 DEF WebBan, BanTypeOK
<1>10. CASE BanCrash
  BY <1>10 DEF BanCrash
<1> QED BY <1>3, <1>4, <1>5, <1>6, <1>7, <1>8, <1>9, <1>10 DEF BanNext

-----------------------------------------------------------------------------
(* HwidFile.                                                               *)

\* A reader stops at the first key that is missing, or behind the count.
LEMMA LastKeyIs ==
    ASSUME NEW c \in Nat, NEW keys
    PROVE  /\ LastKey(c, keys) \in 0 .. c
           /\ \A i \in 1 .. LastKey(c, keys) : keys[i] # NoHwid
           /\ \A m \in 0 .. c : (\A i \in 1 .. m : keys[i] # NoHwid) => m <= LastKey(c, keys)
<1> DEFINE Ends(n) == /\ \A i \in 1 .. n : keys[i] # NoHwid
                      /\ n < c => keys[n + 1] = NoHwid
           gaps == {i \in 1 .. c : keys[i] = NoHwid}
<1>1. \E n \in 0 .. c : Ends(n)
  <2>1. CASE gaps = {}
    <3>1. c \in 0 .. c /\ Ends(c)
      BY <2>1
    <3> QED BY <3>1
  <2>2. CASE gaps # {}
    <3>1. gaps \in SUBSET Nat
      OBVIOUS
    <3>2. PICK m \in gaps : \A k \in gaps : m <= k
      BY <2>2, <3>1, LeastElement
    <3>3. m \in 1 .. c /\ keys[m] = NoHwid
      OBVIOUS
    <3>4. m - 1 \in 0 .. c /\ (m - 1) + 1 = m
      BY <3>3
    <3>5. \A i \in 1 .. (m - 1) : keys[i] # NoHwid
      <4> SUFFICES ASSUME NEW i \in 1 .. (m - 1), keys[i] = NoHwid PROVE FALSE
        OBVIOUS
      <4>1. i \in gaps /\ ~(m <= i)
        BY <3>3
      <4> QED BY <3>2, <4>1
    <3> QED BY <3>3, <3>4, <3>5
  <2> QED BY <2>1, <2>2
<1>2. LastKey(c, keys) \in 0 .. c /\ Ends(LastKey(c, keys))
  BY <1>1 DEF LastKey
<1> DEFINE n == LastKey(c, keys)
<1> HIDE DEF n
<1>3. n \in 0 .. c /\ Ends(n)
  BY <1>2 DEF n
<1>4. ASSUME NEW m \in 0 .. c, \A i \in 1 .. m : keys[i] # NoHwid PROVE m <= n
  <2> SUFFICES ASSUME ~(m <= n) PROVE FALSE
    OBVIOUS
  <2>1. n < c /\ n + 1 \in 1 .. m
    BY <1>3
  <2> QED BY <1>3, <1>4, <2>1
<1> QED BY <1>3, <1>4 DEF n

\* The beginning of a numbered list of keys.
LEMMA KeysUpTo ==
    ASSUME NEW S, NEW M \in Nat, NEW keys \in [1 .. M -> S], NEW k \in 0 .. M
    PROVE  /\ SubSeq(keys, 1, k) \in Seq(S) /\ Len(SubSeq(keys, 1, k)) = k
           /\ DOMAIN SubSeq(keys, 1, k) = 1 .. k
           /\ \A i \in 1 .. k : SubSeq(keys, 1, k)[i] = keys[i]
<1>1. \A i \in 1 .. k : keys[i] \in S
  OBVIOUS
<1>2. /\ SubSeq(keys, 1, k) \in Seq(S)
      /\ Len(SubSeq(keys, 1, k)) = IF 1 <= k THEN k - 1 + 1 ELSE 0
      /\ \A i \in 1 .. k - 1 + 1 : SubSeq(keys, 1, k)[i] = keys[1 + i - 1]
  BY <1>1, SubSeqProperties
<1>3. Len(SubSeq(keys, 1, k)) = k
  BY <1>2
<1>4. ASSUME NEW i \in 1 .. k PROVE SubSeq(keys, 1, k)[i] = keys[i]
  <2>1. i \in 1 .. k - 1 + 1 /\ 1 + i - 1 = i
    OBVIOUS
  <2> QED BY <1>2, <2>1
<1> QED BY <1>2, <1>3, <1>4

LEMMA PrefixOfKeys ==
    ASSUME NEW S, NEW M \in Nat, NEW keys \in [1 .. M -> S], NEW keys2 \in [1 .. M -> S],
           NEW k \in 0 .. M, NEW k2 \in 0 .. M, k <= k2, \A i \in 1 .. k : keys[i] = keys2[i]
    PROVE  IsPrefix(SubSeq(keys, 1, k), SubSeq(keys2, 1, k2))
<1> DEFINE s == SubSeq(keys, 1, k)
           s2 == SubSeq(keys2, 1, k2)
<1>1. s \in Seq(S) /\ Len(s) = k /\ \A i \in 1 .. k : s[i] = keys[i]
  BY KeysUpTo
<1>2. s2 \in Seq(S) /\ Len(s2) = k2 /\ \A i \in 1 .. k2 : s2[i] = keys2[i]
  BY KeysUpTo
<1> HIDE DEF s, s2
<1>3. s \in [1 .. k -> S] /\ s2 \in [1 .. k2 -> S] /\ k \in 0 .. k2 /\ k2 \in Nat
  BY <1>1, <1>2
<1>4. /\ SubSeq(s, 1, k) \in Seq(S) /\ Len(SubSeq(s, 1, k)) = k
      /\ \A i \in 1 .. k : SubSeq(s, 1, k)[i] = s[i]
  BY <1>3, KeysUpTo
<1>5. /\ SubSeq(s2, 1, k) \in Seq(S) /\ Len(SubSeq(s2, 1, k)) = k
      /\ \A i \in 1 .. k : SubSeq(s2, 1, k)[i] = s2[i]
  BY <1>3, KeysUpTo
<1>6. \A i \in 1 .. k : SubSeq(s, 1, k)[i] = SubSeq(s2, 1, k)[i]
  BY <1>1, <1>2, <1>4, <1>5
<1>7. SubSeq(s, 1, k) = SubSeq(s2, 1, k)
  BY <1>4, <1>5, <1>6, SeqEqual
<1> QED BY <1>1, <1>2, <1>7 DEF IsPrefix, s, s2

\* What can be read of a file of the right type.
LEMMA ReadableIs ==
    ASSUME FileTypeOK
    PROVE  LET last == LastKey(count, entry) IN
           /\ last \in 0 .. count /\ Full(last)
           /\ \A m \in 0 .. count : Full(m) => m <= last
           /\ DOMAIN Readable = 1 .. last
           /\ \A i \in 1 .. last : Readable[i] = entry[i]
           /\ Listed = EntriesTo(last)
<1> DEFINE last == LastKey(count, entry)
<1>1. count \in Nat /\ count <= MaxCount /\ MaxCount \in Nat
  BY FileAssumption DEF FileTypeOK
<1>2. last \in 0 .. count /\ Full(last) /\ \A m \in 0 .. count : Full(m) => m <= last
  BY <1>1, LastKeyIs DEF Full
<1> HIDE DEF last
<1>3. last \in 0 .. MaxCount
  BY <1>1, <1>2
<1>4. DOMAIN SubSeq(entry, 1, last) = 1 .. last
      /\ \A i \in 1 .. last : SubSeq(entry, 1, last)[i] = entry[i]
  BY <1>1, <1>3, KeysUpTo DEF FileTypeOK
<1>5. Readable = SubSeq(entry, 1, last)
  BY DEF Readable, last
<1>6. Listed = EntriesTo(last)
  BY <1>4, <1>5 DEF Listed, Range, EntriesTo
<1> QED BY <1>2, <1>4, <1>5, <1>6 DEF last

LEMMA SettledIs ==
    ASSUME FileTypeOK, SaveInPlace
    PROVE  /\ SettledKeys \in 0 .. count /\ SettledKeys \in 0 .. MaxCount
           /\ Full(SettledKeys)
           /\ save.pc = "entry" => SettledKeys <= save.n
           /\ SettledKeys <= LastKey(count, entry)
           /\ save.pc # "entry" => SettledKeys = LastKey(count, entry)
           /\ Range(Settled) = EntriesTo(SettledKeys)
<1> DEFINE last == LastKey(count, entry)
<1>1. count \in 0 .. MaxCount /\ MaxCount \in Nat /\ save.n \in 0 .. MaxCount
  BY FileAssumption DEF FileTypeOK
<1>2. last \in 0 .. count /\ Full(last)
  BY ReadableIs
<1> HIDE DEF last
<1>3. SettledKeys = IF save.pc = "entry" /\ save.n < last THEN save.n ELSE last
  BY DEF SettledKeys, last
<1>4. SettledKeys \in 0 .. last /\ SettledKeys \in 0 .. count /\ SettledKeys \in 0 .. MaxCount
      /\ (save.pc = "entry" => SettledKeys <= save.n)
  BY <1>1, <1>2, <1>3
<1>5. Full(SettledKeys)
  BY <1>1, <1>2, <1>4 DEF Full
<1>6. /\ DOMAIN SubSeq(entry, 1, SettledKeys) = 1 .. SettledKeys
      /\ \A i \in 1 .. SettledKeys : SubSeq(entry, 1, SettledKeys)[i] = entry[i]
  BY <1>1, <1>4, KeysUpTo DEF FileTypeOK
<1>7. Range(Settled) = EntriesTo(SettledKeys)
  BY <1>6 DEF Settled, Range, EntriesTo
<1>8. SettledKeys <= last /\ (save.pc # "entry" => SettledKeys = last)
  BY <1>2, <1>3, <1>4
<1> QED BY <1>4, <1>5, <1>7, <1>8 DEF last

\* The loop of SaveHWIDs goes on.
LEMMA NextIdIs ==
    ASSUME FileTypeOK, save.todo # <<>>
    PROVE  /\ NextId \in [pc : {"idle", "look", "count", "entry"}, todo : Seq(Hwids),
                          n : 0 .. MaxCount]
           /\ NextId.n = save.n /\ NextId.todo = Tail(save.todo)
           /\ NextId.pc = IF Tail(save.todo) = <<>> THEN "idle" ELSE "look"
           /\ Head(save.todo) \in Hwids
           /\ ToSet(save.todo) = {Head(save.todo)} \cup ToSet(Tail(save.todo))
<1>1. /\ save.todo \in Seq(Hwids) /\ Tail(save.todo) \in Seq(Hwids)
      /\ Len(save.todo) \in Nat \ {0} /\ Len(Tail(save.todo)) = Len(save.todo) - 1
      /\ Head(save.todo) \in Hwids
      /\ ToSet(save.todo) = {Head(save.todo)} \cup ToSet(Tail(save.todo))
  BY HeadTailElements DEF FileTypeOK
<1>2. Len(save.todo) = 1 <=> Tail(save.todo) = <<>>
  <2>1. \A s \in Seq(Hwids) : Len(s) = 0 <=> s = <<>>
    OBVIOUS
  <2>2. Len(Tail(save.todo)) = 0 <=> Tail(save.todo) = <<>>
    BY <1>1, <2>1
  <2> QED BY <1>1, <2>2
<1>3. NextId = [save EXCEPT !.todo = Tail(save.todo),
                            !.pc = IF Tail(save.todo) = <<>> THEN "idle" ELSE "look"]
  BY <1>2 DEF NextId
<1> QED BY <1>1, <1>3 DEF FileTypeOK

\* One write, and the faults so far.
LEMMA WrittenIs ==
    ASSUME FileTypeOK, NEW ok \in BOOLEAN, Written(ok)
    PROVE  faults' \in 0 .. MaxFaults /\ (faults' = 0 => faults = 0 /\ ok)
BY FileAssumption DEF FileTypeOK, Written

LEMMA FileTypeStep ==
    ASSUME FileTypeOK, SaveInPlace, [FileNext]_fileVars
    PROVE  FileTypeOK'
<1> USE DEF FileTypeOK
<1> DEFINE Saves == [pc : {"idle", "look", "count", "entry"}, todo : Seq(Hwids),
                     n : 0 .. MaxCount]
           Reads == [pc : {"idle", "keys"}, n : 0 .. MaxCount, list : Seq(Hwids)]
<1>1. MaxCount \in Nat /\ MaxFaults \in Nat /\ NoHwid \notin Hwids
  BY FileAssumption
<1>2. <<>> \in Seq(Hwids)
  OBVIOUS
<1>3. ASSUME NEW ids \in BoundedSeq(Hwids, 2), SaveHWIDs(ids) PROVE FileTypeOK'
  <2>1. ids \in Seq(Hwids)
    <3>1. PICK m \in 0 .. 2 : ids \in [1 .. m -> Hwids]
      BY DEF BoundedSeq, SeqOf
    <3>2. m \in Nat
      OBVIOUS
    <3> QED BY <3>1, <3>2
  <2>2. saving' \in SUBSET Hwids
    BY <1>3, <2>1 DEF SaveHWIDs, Range
  <2>3. save' \in Saves
    BY <1>3, <2>1 DEF SaveHWIDs
  <2> QED BY <1>3, <2>2, <2>3 DEF SaveHWIDs
<1>4. CASE Skip
  BY <1>4, NextIdIs DEF Skip, SaveInPlace
<1>5. CASE ReadCount
  <2>1. save' \in Saves
    BY <1>5 DEF ReadCount
  <2> QED BY <1>5, <2>1 DEF ReadCount
<1>6. ASSUME NEW ok \in BOOLEAN, WriteCount(ok) PROVE FileTypeOK'
  <2>1. save.n + 1 \in 0 .. MaxCount
    BY <1>1, <1>6 DEF WriteCount, SaveInPlace
  <2>2. save' \in Saves /\ count' \in 0 .. MaxCount /\ faults' \in 0 .. MaxFaults
    BY <1>6, <2>1, WrittenIs DEF WriteCount
  <2> QED BY <1>6, <2>2 DEF WriteCount
<1>7. ASSUME NEW ok \in BOOLEAN, WriteEntry(ok) PROVE FileTypeOK'
  <2>1. save.todo # <<>>
    BY <1>7 DEF WriteEntry, SaveInPlace
  <2>2. save' \in Saves /\ Head(save.todo) \in Hwids
    BY <1>7, <2>1, NextIdIs DEF WriteEntry
  <2>3. entry' \in [1 .. MaxCount -> Hwids \cup {NoHwid}]
    BY <1>7, <2>2 DEF WriteEntry
  <2>4. faults' \in 0 .. MaxFaults
    BY <1>7, WrittenIs DEF WriteEntry
  <2> QED BY <1>7, <2>2, <2>3, <2>4 DEF WriteEntry
<1>8. CASE FileCrash
  <2>1. faults' \in 0 .. MaxFaults /\ 0 \in 0 .. MaxCount
    BY <1>1, <1>8 DEF FileCrash
  <2>2. save' \in Saves /\ read' \in Reads
    BY <1>2, <1>8, <2>1 DEF FileCrash
  <2> QED BY <1>8, <2>1, <2>2 DEF FileCrash
<1>9. CASE StartReading
  <2>1. Range(Settled) = EntriesTo(SettledKeys) /\ Full(SettledKeys)
        /\ SettledKeys \in 0 .. MaxCount
    BY SettledIs
  <2>2. before' \in SUBSET Hwids
    BY <1>1, <1>9, <2>1 DEF StartReading, EntriesTo, Full
  <2>3. read' \in Reads
    BY <1>2, <1>9 DEF StartReading
  <2> QED BY <1>9, <2>2, <2>3 DEF StartReading
<1>10. CASE ReadKey
  <2> DEFINE i == Len(read.list) + 1
  <2>1. i \in Nat \ {0}
    OBVIOUS
  <2>2. CASE i <= read.n /\ entry[i] # NoHwid
    <3>1. entry[i] \in Hwids
      BY <1>1, <2>1, <2>2
    <3>2. Append(read.list, entry[i]) \in Seq(Hwids)
      BY <3>1
    <3>3. read' = [read EXCEPT !.list = Append(read.list, entry[i])]
      BY <1>10, <2>2 DEF ReadKey
    <3>4. read' \in Reads
      BY <3>2, <3>3
    <3> QED BY <1>10, <3>4 DEF ReadKey
  <2>3. CASE ~(i <= read.n /\ entry[i] # NoHwid)
    <3>1. read' = [read EXCEPT !.pc = "idle"]
      BY <1>10, <2>3 DEF ReadKey
    <3> QED BY <1>10, <3>1 DEF ReadKey
  <2> QED BY <2>2, <2>3
<1>11. CASE UNCHANGED fileVars
  BY <1>11 DEF fileVars
<1> QED BY <1>3, <1>4, <1>5, <1>6, <1>7, <1>8, <1>9, <1>10, <1>11 DEF FileNext

\* The reader moves nothing that the writer needs.
LEMMA SaveInPlaceStep ==
    ASSUME FileTypeOK, SaveInPlace, [FileNext]_fileVars
    PROVE  SaveInPlace'
<1> USE DEF SaveInPlace
<1>1. ASSUME NEW ids \in BoundedSeq(Hwids, 2), SaveHWIDs(ids) PROVE SaveInPlace'
  BY <1>1 DEF SaveHWIDs, FileTypeOK
<1>2. CASE Skip
  BY <1>2, NextIdIs DEF Skip
<1>3. CASE ReadCount
  <2>1. save'.pc = "count" /\ save'.n = count /\ save'.todo = save.todo /\ save.todo # <<>>
        /\ count' = count /\ count < MaxCount
    BY <1>3 DEF ReadCount, FileTypeOK
  <2> QED BY <2>1
<1>4. ASSUME NEW ok \in BOOLEAN, WriteCount(ok) PROVE SaveInPlace'
  <2>1. save'.pc = "entry" /\ save'.n = save.n /\ save'.todo = save.todo /\ save.todo # <<>>
        /\ save.n < MaxCount /\ count' \in {save.n, save.n + 1}
    BY <1>4 DEF WriteCount, FileTypeOK
  <2> QED BY <2>1
<1>5. ASSUME NEW ok \in BOOLEAN, WriteEntry(ok) PROVE SaveInPlace'
  BY <1>5, NextIdIs DEF WriteEntry
<1>6. CASE FileCrash
  BY <1>6 DEF FileCrash
<1>7. CASE StartReading \/ ReadKey \/ UNCHANGED fileVars
  BY <1>7 DEF StartReading, ReadKey, fileVars
<1> QED BY <1>1, <1>2, <1>3, <1>4, <1>5, <1>6, <1>7 DEF FileNext

\* The entry is written behind those that were there when the count was read.
LEMMA WriteEntryEffect ==
    ASSUME FileTypeOK, SaveInPlace, WriteEntry(TRUE)
    PROVE  /\ save.n + 1 \in 1 .. MaxCount
           /\ entry'[save.n + 1] = Head(save.todo) /\ Head(save.todo) # NoHwid
           /\ \A i \in 1 .. MaxCount : i # save.n + 1 => entry'[i] = entry[i]
<1>1. save.todo # <<>> /\ save.n < MaxCount /\ save.n \in Nat
  BY DEF WriteEntry, SaveInPlace, FileTypeOK
<1>2. save.n + 1 \in 1 .. MaxCount
  BY <1>1, FileAssumption
<1>3. Head(save.todo) # NoHwid
  BY <1>1, NextIdIs, FileAssumption
<1>4. entry' = [entry EXCEPT ![save.n + 1] = Head(save.todo)]
  BY DEF WriteEntry
<1> QED BY <1>2, <1>3, <1>4 DEF FileTypeOK

LEMMA KeysStep ==
    ASSUME FileTypeOK, SaveInPlace, EmptyBehind, DistinctKeys, NewIsNew, [FileNext]_fileVars
    PROVE  EmptyBehind' /\ DistinctKeys' /\ NewIsNew'
<1>1. /\ count \in 0 .. MaxCount /\ MaxCount \in Nat /\ save.n \in 0 .. MaxCount
      /\ entry \in [1 .. MaxCount -> Hwids \cup {NoHwid}]
  BY FileAssumption DEF FileTypeOK
<1>2. ASSUME UNCHANGED <<count, entry>>, save.pc # "entry" \/ count \in {save.n, save.n + 1},
             save'.pc \notin {"count", "entry"}
      PROVE  EmptyBehind' /\ DistinctKeys' /\ NewIsNew'
  BY <1>1, <1>2 DEF EmptyBehind, DistinctKeys, NewIsNew, Full
<1>3. ASSUME NEW ids \in BoundedSeq(Hwids, 2), SaveHWIDs(ids)
      PROVE  EmptyBehind' /\ DistinctKeys' /\ NewIsNew'
  BY <1>2, <1>3 DEF SaveHWIDs, FileTypeOK
<1>4. CASE Skip
  <2>1. save'.pc \in {"idle", "look"}
    BY <1>4, NextIdIs DEF Skip, SaveInPlace
  <2> QED BY <1>2, <1>4, <2>1 DEF Skip
<1>5. CASE ReadCount
  <2>1. /\ save.pc = "look" /\ save'.pc = "count" /\ save'.n = count /\ save'.todo = save.todo
        /\ Head(save.todo) \notin Listed /\ UNCHANGED <<count, entry>>
    BY <1>5 DEF ReadCount, IsHWIDSaved, FileTypeOK
  <2>2. Full(count) => Head(save.todo) \notin EntriesTo(count)
    <3>1. LET last == LastKey(count, entry) IN
          last \in 0 .. count /\ (Full(count) => count <= last) /\ Listed = EntriesTo(last)
      BY <1>1, ReadableIs
    <3>2. Full(count) => LastKey(count, entry) = count
      BY <1>1, <3>1
    <3> QED BY <2>1, <3>1, <3>2
  <2>3. EmptyBehind' /\ DistinctKeys'
    BY <2>1 DEF EmptyBehind, DistinctKeys, Full
  <2>4. NewIsNew'
    BY <2>1, <2>2 DEF NewIsNew, Full, EntriesTo
  <2> QED BY <2>3, <2>4
<1>6. ASSUME NEW ok \in BOOLEAN, WriteCount(ok)
      PROVE  EmptyBehind' /\ DistinctKeys' /\ NewIsNew'
  <2>1. /\ save.pc = "count" /\ count = save.n /\ save'.pc = "entry" /\ save'.n = save.n
        /\ save'.todo = save.todo /\ UNCHANGED entry
    BY <1>6 DEF WriteCount, SaveInPlace, FileTypeOK
  <2> QED BY <2>1 DEF EmptyBehind, DistinctKeys, NewIsNew, Full, EntriesTo
<1>7. ASSUME NEW ok \in BOOLEAN, WriteEntry(ok)
      PROVE  EmptyBehind' /\ DistinctKeys' /\ NewIsNew'
  <2>1. /\ save.pc = "entry" /\ count \in {save.n, save.n + 1} /\ save.todo # <<>>
        /\ count' = count /\ save'.pc \in {"idle", "look"}
    BY <1>7, NextIdIs DEF WriteEntry, SaveInPlace
  <2>2. CASE ~ok
    BY <1>2, <1>7, <2>1, <2>2 DEF WriteEntry
  <2>3. CASE ok
    <3> DEFINE n == save.n
               h == Head(save.todo)
    <3>1. /\ n + 1 \in 1 .. MaxCount /\ entry'[n + 1] = h
          /\ \A i \in 1 .. MaxCount : i # n + 1 => entry'[i] = entry[i]
      BY <1>7, <2>3, WriteEntryEffect
    <3>2. \A i \in 1 .. MaxCount : i > n + 1 => entry[i] = NoHwid
      BY <2>1 DEF EmptyBehind
    <3>3. Full(n) => h \notin EntriesTo(n)
      BY <2>1 DEF NewIsNew
    <3> HIDE DEF n, h
    <3>4. n \in 0 .. MaxCount /\ MaxCount \in Nat /\ count' \in {n, n + 1}
      BY <1>1, <2>1 DEF n
    <3>5. EmptyBehind'
      <4> SUFFICES ASSUME NEW i \in 1 .. MaxCount, i > count' + 1 PROVE entry'[i] = NoHwid
        BY <2>1 DEF EmptyBehind
      <4>1. i > n + 1
        <5>1. n \in Nat /\ i \in Nat /\ (count' = n \/ count' = n + 1)
          BY <3>4
        <5>2. CASE count' = n
          BY <5>1, <5>2
        <5>3. CASE count' = n + 1
          BY <5>1, <5>3
        <5> QED BY <5>1, <5>2, <5>3
      <4> QED BY <3>1, <3>2, <4>1
    <3>6. DistinctKeys'
      <4> SUFFICES ASSUME NEW i \in 1 .. MaxCount, NEW j \in 1 .. MaxCount, i < j, Full(j)'
                   PROVE  entry'[i] # entry'[j]
        BY DEF DistinctKeys
      <4>1. \A k \in 1 .. j : entry'[k] # NoHwid
        BY DEF Full
      <4>2. CASE j > n + 1
        <5>1. entry'[j] = NoHwid /\ j \in 1 .. j
          BY <3>1, <3>2, <3>4, <4>2
        <5> QED BY <4>1, <5>1
      <4>3. CASE j = n + 1
        <5>1. \A k \in 1 .. n : k \in 1 .. j /\ k \in 1 .. MaxCount /\ k # n + 1
          BY <3>1, <3>4, <4>3
        <5>2. Full(n)
          BY <3>1, <4>1, <5>1 DEF Full
        <5>3. i \in 1 .. n
          BY <3>4, <4>3
        <5>4. entry'[i] = entry[i] /\ entry[i] \in EntriesTo(n)
          BY <3>1, <5>1, <5>3 DEF EntriesTo
        <5> QED BY <3>1, <3>3, <4>3, <5>2, <5>4
      <4>4. CASE j < n + 1
        <5>1. \A k \in 1 .. j : k \in 1 .. MaxCount /\ k # n + 1
          BY <3>4, <4>4
        <5>2. Full(j)
          BY <3>1, <4>1, <5>1 DEF Full
        <5>3. i \in 1 .. j /\ j \in 1 .. j
          OBVIOUS
        <5> QED BY <3>1, <5>1, <5>2, <5>3 DEF DistinctKeys
      <4>5. j > n + 1 \/ j = n + 1 \/ j < n + 1
        BY <3>4
      <4> QED BY <4>2, <4>3, <4>4, <4>5
    <3> QED BY <2>1, <3>5, <3>6 DEF NewIsNew
  <2> QED BY <2>2, <2>3
<1>8. CASE FileCrash
  BY <1>2, <1>8 DEF FileCrash, SaveInPlace
<1>9. CASE StartReading \/ ReadKey \/ UNCHANGED fileVars
  <2>1. UNCHANGED <<count, entry, save>>
    BY <1>9 DEF StartReading, ReadKey, fileVars
  <2> QED BY <2>1 DEF EmptyBehind, DistinctKeys, NewIsNew, Full, EntriesTo
<1> QED BY <1>3, <1>4, <1>5, <1>6, <1>7, <1>8, <1>9 DEF FileNext

LEMMA FlawlessStep ==
    ASSUME FileTypeOK, SaveInPlace, EmptyBehind, Flawless, [FileNext]_fileVars
    PROVE  Flawless'
<1>1. /\ count \in 0 .. MaxCount /\ MaxCount \in Nat /\ save.n \in 0 .. MaxCount
      /\ entry \in [1 .. MaxCount -> Hwids \cup {NoHwid}]
  BY FileAssumption DEF FileTypeOK
<1>2. ASSUME NEW ids \in BoundedSeq(Hwids, 2), SaveHWIDs(ids) PROVE Flawless'
  <2>1. /\ save.pc = "idle" /\ save'.pc = "look" /\ save'.todo = ids /\ saving' = ToSet(ids)
        /\ UNCHANGED <<count, entry, faults>>
    BY <1>2 DEF SaveHWIDs, FileTypeOK, Range, ToSet
  <2> QED BY <2>1 DEF Flawless, Full, EntriesTo
<1>3. CASE Skip
  <2>1. /\ save.pc = "look" /\ Head(save.todo) \in Listed /\ save.todo # <<>>
        /\ save' = NextId /\ UNCHANGED <<count, entry, saving, faults>>
    BY <1>3 DEF Skip, IsHWIDSaved, SaveInPlace
  <2>2. Listed \subseteq EntriesTo(count)
    <3>1. LET last == LastKey(count, entry) IN last \in 0 .. count /\ Listed = EntriesTo(last)
      BY ReadableIs
    <3> QED BY <1>1, <3>1 DEF EntriesTo
  <2>3. /\ save'.pc = IF Tail(save.todo) = <<>> THEN "idle" ELSE "look"
        /\ save'.todo = Tail(save.todo)
        /\ ToSet(save.todo) = {Head(save.todo)} \cup ToSet(Tail(save.todo))
    BY <2>1, NextIdIs
  <2>4. ToSet(<<>>) = {}
    BY DEF ToSet
  <2>5. ToSet(save.todo) \subseteq
            EntriesTo(count) \cup (IF save'.pc = "idle" THEN {} ELSE ToSet(save'.todo))
    BY <2>1, <2>2, <2>3, <2>4
  <2> QED BY <2>1, <2>3, <2>5 DEF Flawless, Full, EntriesTo
<1>4. CASE ReadCount
  <2>1. /\ save.pc = "look" /\ save'.pc = "count" /\ save'.todo = save.todo
        /\ UNCHANGED <<count, entry, saving, faults>>
    BY <1>4 DEF ReadCount, FileTypeOK
  <2> QED BY <2>1 DEF Flawless, Full, EntriesTo
<1>5. ASSUME NEW ok \in BOOLEAN, WriteCount(ok) PROVE Flawless'
  <2>1. /\ save.pc = "count" /\ count = save.n /\ save'.pc = "entry" /\ save'.n = save.n
        /\ save'.todo = save.todo /\ (ok => count' = save.n + 1) /\ UNCHANGED <<entry, saving>>
    BY <1>5 DEF WriteCount, SaveInPlace, FileTypeOK
  <2>2. faults' = 0 => faults = 0 /\ ok
    BY <1>5, WrittenIs DEF WriteCount
  <2> QED BY <2>1, <2>2 DEF Flawless, Full, EntriesTo
<1>6. ASSUME NEW ok \in BOOLEAN, WriteEntry(ok) PROVE Flawless'
  <2>1. faults' = 0 => faults = 0 /\ ok
    BY <1>6, WrittenIs DEF WriteEntry
  <2>2. PICK n \in 0 .. MaxCount : n = save.n
    BY <1>1
  <2> DEFINE h == Head(save.todo)
             rest == IF save'.pc = "idle" THEN {} ELSE ToSet(save'.todo)
  <2> SUFFICES ASSUME faults = 0, ok, faults' = 0 PROVE Flawless'
    BY <2>1 DEF Flawless
  <2>3. /\ save.pc = "entry" /\ save.todo # <<>> /\ save' = NextId
        /\ UNCHANGED <<count, saving>>
    BY <1>6 DEF WriteEntry, SaveInPlace
  <2>4. /\ n + 1 \in 1 .. MaxCount /\ entry'[n + 1] = h /\ h # NoHwid
        /\ \A i \in 1 .. MaxCount : i # n + 1 => entry'[i] = entry[i]
    BY <1>6, <2>2, WriteEntryEffect
  <2>5. /\ save'.pc = IF Tail(save.todo) = <<>> THEN "idle" ELSE "look"
        /\ save'.todo = Tail(save.todo)
        /\ ToSet(save.todo) = {h} \cup ToSet(Tail(save.todo))
    BY <2>3, NextIdIs
  <2>6. ToSet(<<>>) = {}
    BY DEF ToSet
  <2>7. ToSet(save.todo) = {h} \cup rest
    BY <2>5, <2>6
  <2>8. /\ Full(n) /\ count = n + 1 /\ saving \subseteq EntriesTo(n) \cup ToSet(save.todo)
        /\ \A i \in 1 .. MaxCount : i > n => entry[i] = NoHwid
    BY <2>3, <2>2 DEF Flawless
  <2> HIDE DEF h, rest
  <2>9. \A i \in 1 .. (n + 1) : i \in 1 .. MaxCount /\ (i = n + 1 \/ (i \in 1 .. n /\ i # n + 1))
    BY <1>1, <2>4
  <2>10. Full(n + 1)'
    BY <2>8, <2>4, <2>9 DEF Full
  <2>11. EntriesTo(n) \cup {h} \subseteq EntriesTo(n + 1)'
    <3>1. \A i \in 1 .. n : i \in 1 .. (n + 1) /\ entry'[i] = entry[i]
      BY <1>1, <2>4
    <3>2. n + 1 \in 1 .. (n + 1)
      OBVIOUS
    <3> QED BY <2>4, <3>1, <3>2 DEF EntriesTo
  <2>12. \A i \in 1 .. MaxCount : i > n + 1 => entry'[i] = NoHwid
    BY <2>8, <2>4
  <2>13. saving' \subseteq EntriesTo(n + 1)' \cup rest
    BY <2>3, <2>7, <2>8, <2>11
  <2>14. save'.pc # "entry" /\ count' = n + 1
    BY <2>3, <2>5, <2>8
  <2> QED BY <2>10, <2>12, <2>13, <2>14 DEF Flawless, rest
<1>7. CASE FileCrash
  <2>1. faults' # 0
    BY <1>7, FileAssumption DEF FileCrash, FileTypeOK
  <2> QED BY <2>1 DEF Flawless
<1>8. CASE StartReading \/ ReadKey \/ UNCHANGED fileVars
  <2>1. UNCHANGED <<count, entry, save, saving, faults>>
    BY <1>8 DEF StartReading, ReadKey, fileVars
  <2> QED BY <2>1 DEF Flawless, Full, EntriesTo
<1> QED BY <1>2, <1>3, <1>4, <1>5, <1>6, <1>7, <1>8 DEF FileNext

\* The keys that a write in progress is not about to change stay as they are.
LEMMA KeysStay ==
    ASSUME FileTypeOK, SaveInPlace, [FileNext]_fileVars,
           NEW m \in 0 .. count, save.pc = "entry" => m <= save.n
    PROVE  /\ m \in 0 .. count'
           /\ save'.pc = "entry" => m <= save'.n
           /\ \A i \in 1 .. m : entry'[i] = entry[i]
<1>1. /\ count \in 0 .. MaxCount /\ MaxCount \in Nat /\ save.n \in 0 .. MaxCount
      /\ m \in 0 .. MaxCount
  BY FileAssumption DEF FileTypeOK
<1>2. ASSUME NEW ids \in BoundedSeq(Hwids, 2), SaveHWIDs(ids)
      PROVE  UNCHANGED <<count, entry>> /\ save'.pc # "entry"
  BY <1>2 DEF SaveHWIDs, FileTypeOK
<1>3. CASE Skip
  BY <1>3, NextIdIs DEF Skip, SaveInPlace
<1>4. CASE ReadCount \/ FileCrash
  <2>1. UNCHANGED <<count, entry>>
    BY <1>4 DEF ReadCount, FileCrash
  <2>2. ReadCount => save'.pc = "count"
    BY DEF ReadCount, FileTypeOK
  <2>3. FileCrash => save'.pc = "idle"
    BY DEF FileCrash
  <2> QED BY <1>4, <2>1, <2>2, <2>3
<1>5. ASSUME NEW ok \in BOOLEAN, WriteCount(ok)
      PROVE  m \in 0 .. count' /\ m <= save'.n /\ UNCHANGED entry
  <2>1. /\ count = save.n /\ save'.n = save.n /\ UNCHANGED entry
        /\ count' = (IF ok THEN save.n + 1 ELSE count)
    BY <1>5 DEF WriteCount, SaveInPlace, FileTypeOK
  <2>2. m <= save'.n
    BY <1>1, <2>1
  <2>3. m \in 0 .. count'
    BY <1>1, <2>1
  <2> QED BY <2>1, <2>2, <2>3
<1>6. ASSUME NEW ok \in BOOLEAN, WriteEntry(ok)
      PROVE  /\ count' = count /\ save'.pc # "entry"
             /\ \A i \in 1 .. m : entry'[i] = entry[i]
  <2>1. count' = count /\ save'.pc # "entry" /\ save.pc = "entry"
    BY <1>6, NextIdIs DEF WriteEntry, SaveInPlace
  <2>2. \A i \in 1 .. m : i \in 1 .. MaxCount /\ i # save.n + 1
    BY <1>1, <2>1
  <2>3. ok => \A i \in 1 .. MaxCount : i # save.n + 1 => entry'[i] = entry[i]
    BY <1>6, WriteEntryEffect
  <2>4. ~ok => entry' = entry
    BY <1>6 DEF WriteEntry
  <2> QED BY <2>1, <2>2, <2>3, <2>4
<1>7. CASE StartReading \/ ReadKey \/ UNCHANGED fileVars
  <2>1. UNCHANGED <<count, entry, save>>
    BY <1>7 DEF StartReading, ReadKey, fileVars
  <2> QED BY <2>1
<1> QED BY <1>2, <1>3, <1>4, <1>5, <1>6, <1>7 DEF FileNext

LEMMA ReaderStep ==
    ASSUME FileTypeOK, SaveInPlace, ReaderOnTrack, [FileNext]_fileVars
    PROVE  ReaderOnTrack'
<1>1. PICK m \in 0 .. count :
          /\ Full(m)
          /\ save.pc = "entry" => m <= save.n
          /\ IF read.pc = "keys"
             THEN /\ m <= read.n /\ before = EntriesTo(m)
                  /\ \A i \in 1 .. m : i <= Len(read.list) => read.list[i] = entry[i]
             ELSE before \subseteq ToSet(read.list)
  BY DEF ReaderOnTrack
<1>2. /\ m \in 0 .. count' /\ (save'.pc = "entry" => m <= save'.n)
      /\ \A i \in 1 .. m : entry'[i] = entry[i]
  BY <1>1, KeysStay
<1>3. Full(m)' /\ EntriesTo(m)' = EntriesTo(m)
  BY <1>1, <1>2 DEF Full, EntriesTo
<1>4. ASSUME UNCHANGED <<read, before>> PROVE ReaderOnTrack'
  BY <1>1, <1>2, <1>3, <1>4 DEF ReaderOnTrack
<1>5. CASE \/ \E ids \in BoundedSeq(Hwids, 2) : SaveHWIDs(ids)
           \/ Skip \/ ReadCount \/ UNCHANGED fileVars
           \/ \E ok \in BOOLEAN : WriteCount(ok) \/ WriteEntry(ok)
  BY <1>4, <1>5 DEF SaveHWIDs, Skip, ReadCount, WriteCount, WriteEntry, fileVars
<1>6. CASE FileCrash
  <2>1. read'.pc = "idle" /\ before' = {}
    BY <1>6 DEF FileCrash
  <2> QED BY <1>2, <1>3, <2>1 DEF ReaderOnTrack
<1>7. CASE StartReading
  <2>1. PICK k \in 0 .. count : k = SettledKeys
    BY SettledIs
  <2>2. /\ Full(k) /\ (save.pc = "entry" => k <= save.n)
        /\ Range(Settled) = EntriesTo(k)
    BY <2>1, SettledIs
  <2>3. /\ UNCHANGED <<count, entry, save>> /\ before' = EntriesTo(k)
        /\ read'.pc = "keys" /\ read'.n = count /\ read'.list = <<>>
    BY <1>7, <2>2 DEF StartReading
  <2>4. k <= read'.n /\ \A i \in 1 .. k : ~(i <= Len(read'.list))
    <3>1. Len(<<>>) = 0 /\ k <= count
      BY DEF FileTypeOK
    <3> QED BY <2>3, <3>1
  <2>5. Full(k)' /\ EntriesTo(k)' = EntriesTo(k)
    BY <2>2, <2>3 DEF Full, EntriesTo
  <2>6. k \in 0 .. count' /\ (save'.pc = "entry" => k <= save'.n)
    BY <2>2, <2>3
  <2> QED BY <2>3, <2>4, <2>5, <2>6 DEF ReaderOnTrack
<1>8. CASE ReadKey
  <2> DEFINE i == Len(read.list) + 1
  <2>1. /\ read.pc = "keys" /\ UNCHANGED <<count, entry, save, before>>
        /\ read.list \in Seq(Hwids) /\ Len(read.list) \in Nat /\ m \in Nat
        /\ read.n \in Nat
    BY <1>8 DEF ReadKey, FileTypeOK
  <2>2. CASE i <= read.n /\ entry[i] # NoHwid
    <3>1. /\ read'.pc = "keys" /\ read'.n = read.n
          /\ read'.list = Append(read.list, entry[i])
      BY <1>8, <2>1, <2>2 DEF ReadKey, FileTypeOK
    <3>2. entry[i] \in Hwids
      <4>1. i \in 1 .. MaxCount
        BY <2>1, <2>2, FileAssumption DEF FileTypeOK
      <4> QED BY <2>2, <4>1 DEF FileTypeOK
    <3>3. /\ Len(read'.list) = i /\ read'.list[i] = entry[i]
          /\ \A k \in DOMAIN read.list : read'.list[k] = read.list[k]
      BY <2>1, <3>1, <3>2, AppendElements
    <3>4. ASSUME NEW k \in 1 .. m, k <= Len(read'.list) PROVE read'.list[k] = entry[k]
      <4>1. k = i \/ (k \in DOMAIN read.list /\ k <= Len(read.list))
        BY <2>1, <3>3, <3>4
      <4> QED BY <1>1, <2>1, <3>3, <4>1
    <3> QED BY <1>1, <1>2, <1>3, <2>1, <3>1, <3>4 DEF ReaderOnTrack
  <2>3. CASE ~(i <= read.n /\ entry[i] # NoHwid)
    <3>1. read'.pc = "idle" /\ read'.list = read.list
      BY <1>8, <2>1, <2>3 DEF ReadKey, FileTypeOK
    <3>2. ~(i <= m)
      BY <1>1, <2>1, <2>3 DEF Full
    <3>3. \A k \in 1 .. m : k \in DOMAIN read.list /\ read.list[k] = entry[k]
      BY <1>1, <2>1, <3>2
    <3>4. EntriesTo(m) \subseteq ToSet(read.list)
      BY <3>3 DEF EntriesTo, ToSet
    <3> QED BY <1>1, <1>2, <1>3, <2>1, <3>1, <3>4 DEF ReaderOnTrack
  <2> QED BY <2>2, <2>3
<1> QED BY <1>5, <1>6, <1>7, <1>8 DEF FileNext

\* What is settled stays, in its place.
LEMMA SettledStep ==
    ASSUME FileTypeOK, FileTypeOK', SaveInPlace, [FileNext]_fileVars
    PROVE  IsPrefix(Settled, Settled')
<1>1. PICK s \in 0 .. count : s = SettledKeys
  BY SettledIs
<1>2. Full(s) /\ (save.pc = "entry" => s <= save.n) /\ s \in 0 .. MaxCount
  BY <1>1, SettledIs
<1>3. /\ s \in 0 .. count' /\ (save'.pc = "entry" => s <= save'.n)
      /\ \A i \in 1 .. s : entry'[i] = entry[i]
  BY <1>2, KeysStay
<1>4. /\ count' \in Nat /\ count' <= MaxCount /\ MaxCount \in Nat
      /\ save'.n \in 0 .. MaxCount
      /\ entry \in [1 .. MaxCount -> Hwids \cup {NoHwid}]
      /\ entry' \in [1 .. MaxCount -> Hwids \cup {NoHwid}]
  BY FileAssumption DEF FileTypeOK
<1>5. PICK last \in 0 .. count' : last = LastKey(count', entry')
  BY <1>4, LastKeyIs
<1>6. s <= last
  <2>1. \A i \in 1 .. s : entry'[i] # NoHwid
    BY <1>2, <1>3 DEF Full
  <2> QED BY <1>3, <1>4, <1>5, <2>1, LastKeyIs
<1>7. PICK t : t = SettledKeys'
  OBVIOUS
<1>8. t = IF save'.pc = "entry" /\ save'.n < last THEN save'.n ELSE last
  BY <1>5, <1>7 DEF SettledKeys
<1>9. t \in 0 .. MaxCount /\ s <= t
  BY <1>3, <1>4, <1>6, <1>8
<1>10. IsPrefix(SubSeq(entry, 1, s), SubSeq(entry', 1, t))
  <2>1. \A i \in 1 .. s : entry[i] = entry'[i]
    BY <1>3
  <2> QED BY <1>2, <1>4, <1>9, <2>1, PrefixOfKeys
<1> QED BY <1>1, <1>7, <1>10 DEF Settled

LEMMA FileInvariance == FileSpec => []FileIInv
<1>1. FileInit => FileIInv
  <2> SUFFICES ASSUME FileInit PROVE FileIInv
    OBVIOUS
  <2> USE DEF FileInit
  <2>1. <<>> \in Seq(Hwids) /\ 0 \in 0 .. MaxCount /\ 0 \in 0 .. MaxFaults
    BY FileAssumption
  <2>2. FileTypeOK
    BY <2>1 DEF FileTypeOK
  <2>3. SaveInPlace /\ EmptyBehind /\ NewIsNew
    BY DEF SaveInPlace, EmptyBehind, NewIsNew
  <2>4. DistinctKeys
    BY DEF DistinctKeys, Full
  <2>5. Flawless
    BY DEF Flawless, Full
  <2>6. ReaderOnTrack
    <3>1. 0 \in 0 .. count /\ Full(0)
      BY DEF Full
    <3> QED BY <3>1 DEF ReaderOnTrack
  <2> QED BY <2>2, <2>3, <2>4, <2>5, <2>6 DEF FileIInv
<1>2. FileIInv /\ [FileNext]_fileVars => FileIInv'
  BY FileTypeStep, SaveInPlaceStep, KeysStep, FlawlessStep, ReaderStep DEF FileIInv
<1> QED BY <1>1, <1>2, PTL DEF FileSpec

-----------------------------------------------------------------------------
(* A behaviour of the server follows one file and leaves the others alone. *)

LEMMA FollowsFiles == Spec => FileSpec /\ BanSpec /\ ListSpec
<1>1. Init => FileInit /\ BanInit /\ ListInit
  BY DEF Init
<1>2. [Next]_filesVars => [FileNext]_fileVars /\ [BanNext]_banVars /\ [ListNext]_listVars
  BY DEF Next, filesVars
<1> QED BY <1>1, <1>2, PTL DEF Spec, FileSpec, BanSpec, ListSpec

\* SaveHWIDs (src/GHPServer/ServerCore.cpp:336-353): once it is done, every id it
\* was given can be read back, for as long as no write failed and the process did
\* not stop; for any number of ids, any bound of the count.
THEOREM SavedCanBeRead == Spec => []SavedIsReadable
<1>1. FileIInv => SavedIsReadable
  <2> SUFFICES ASSUME FileIInv, save.pc = "idle", faults = 0 PROVE saving \subseteq Listed
    BY DEF SavedIsReadable
  <2>1. Full(count) /\ saving \subseteq EntriesTo(count) /\ FileTypeOK
    BY DEF FileIInv, Flawless
  <2>2. /\ LastKey(count, entry) \in 0 .. count
        /\ count \in 0 .. count => count <= LastKey(count, entry)
        /\ Listed = EntriesTo(LastKey(count, entry))
    BY <2>1, ReadableIs
  <2>3. LastKey(count, entry) = count
    <3>1. count \in Nat
      BY <2>1 DEF FileTypeOK
    <3> QED BY <2>2, <3>1
  <2> QED BY <2>1, <2>2, <2>3
<1> QED BY <1>1, FollowsFiles, FileInvariance, PTL

\* An id that GetHWIDSFromFile returns is returned once, whatever writes failed and
\* wherever the process stopped (IsHWIDSaved and SaveHWID, lines 304-334).
THEOREM IdsAreListedOnce == Spec => []ListedOnce
<1>1. FileIInv => ListedOnce
  <2> SUFFICES ASSUME FileIInv, NEW i \in DOMAIN Readable, NEW j \in DOMAIN Readable,
                      Readable[i] = Readable[j], i < j
               PROVE  FALSE
    <3>1. FileIInv => DOMAIN Readable \subseteq Nat
      BY ReadableIs DEF FileIInv
    <3> QED BY <3>1 DEF ListedOnce
  <2>1. PICK last \in 0 .. count : last = LastKey(count, entry)
    BY ReadableIs DEF FileIInv
  <2>2. /\ i \in 1 .. last /\ j \in 1 .. last /\ Full(last)
        /\ entry[i] = entry[j]
    BY <2>1, ReadableIs DEF FileIInv
  <2>3. i \in 1 .. MaxCount /\ j \in 1 .. MaxCount
    BY <2>2, FileAssumption DEF FileIInv, FileTypeOK
  <2>4. Full(j)
    BY <2>2 DEF Full
  <2> QED BY <2>2, <2>3, <2>4 DEF FileIInv, DistinctKeys
<1> QED BY <1>1, FollowsFiles, FileInvariance, PTL

\* What a login recorded stays readable in its place, across failed writes and
\* stops of the process, except for one key that a write in progress may replace.
THEOREM ListOnlyGrows == Spec => OnlyGrows
<1>1. FileIInv /\ FileIInv' /\ [FileNext]_fileVars => [IsPrefix(Settled, Settled')]_fileVars
  BY SettledStep DEF FileIInv
<1>2. Spec => [][IsPrefix(Settled, Settled')]_fileVars
  BY <1>1, FollowsFiles, FileInvariance, PTL DEF FileSpec
<1> QED BY <1>2 DEF OnlyGrows

\* GetHWIDSFromFile reads without a lock while SaveHWIDs writes: it returns at least
\* what the file held when it began (lines 267-301).
THEOREM ReadersMissNothing == Spec => []ReaderMissesNothing
<1>1. FileIInv => ReaderMissesNothing
  BY DEF FileIInv, FileTypeOK, ReaderOnTrack, ReaderMissesNothing, Range, ToSet
<1> QED BY <1>1, FollowsFiles, FileInvariance, PTL

\* BlockAll (lines 698-722) goes on after a record that exists: without a failed
\* write everything the settings name is banned in the end, whoever bans meanwhile.
THEOREM BlockAllIsThorough == Spec => []BlockAllBansAll
<1>1. BanIInv => BlockAllBansAll
  <2> SUFFICES ASSUME BanIInv, blocked, failures = 0 PROVE Autoban \subseteq status
    BY DEF BlockAllBansAll
  <2>1. todo["server"] = <<>> /\ Autoban \subseteq status \cup ToSet(todo["server"])
    BY DEF BanIInv, BlockInPlace
  <2>2. ToSet(<<>>) = {}
    BY DEF ToSet
  <2> QED BY <2>1, <2>2
<1> QED BY <1>1, FollowsFiles, BanInvariance, PTL

\* The keys of a record that two threads did not write at the same time are the
\* work of one of them, also when a write failed or the process stopped (BanData).
THEOREM RecordsHaveOneAuthor == Spec => []OneAuthor
<1>1. BanIInv => OneAuthor
  BY DEF BanIInv
<1> QED BY <1>1, FollowsFiles, BanInvariance, PTL

\* BanData answers BANR_OK for a record only when all its keys are on disk, whatever
\* the other thread does with the same record.
THEOREM OkMeansComplete == Spec => OkIsComplete
<1> DEFINE Ok == \A t \in Threads, k \in Kinds :
                    /\ pc[t] \in Fields /\ Current(t) = k
                    /\ todo'[t] = Tail(todo[t]) /\ answer'[t] = "ok"
                    => Complete(k)'
<1>1. BanIInv /\ [BanNext]_banVars => [Ok]_banVars
  BY OkStep
<1>2. Spec => [][Ok]_banVars
  BY <1>1, FollowsFiles, BanInvariance, PTL DEF BanSpec
<1> QED BY <1>2 DEF OkIsComplete

\* A refresh that no reader got in the way of leaves the file that belongs to the
\* text it read, whatever was there before (LoadCheatWhitelist).
THEOREM RefreshRepairs == Spec => []RefreshWorks
<1>1. ListIInv => RefreshWorks
  BY DEF ListIInv
<1> QED BY <1>1, FollowsFiles, ListInvariance, PTL

\* A client whose download falls between two refreshes starts with the list that
\* the last one made, unless that one met a reader (server_request, WEB_SendFile).
THEOREM QuietDownloadWorks == Spec => QuietAnswer
<1> DEFINE Quiet == web.pc # "idle" /\ web'.pc = "idle" /\ ~stirred
                        /\ refresh.pc = "sleep" /\ ~met => Loaded(web'.answer) = refresh.of
<1>1. ListIInv /\ [ListNext]_listVars => [Quiet]_listVars
  BY QuietStep
<1>2. Spec => [][Quiet]_listVars
  BY <1>1, FollowsFiles, ListInvariance, PTL DEF ListSpec
<1> QED BY <1>2 DEF QuietAnswer
=============================================================================
