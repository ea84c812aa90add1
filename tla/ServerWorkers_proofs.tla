------------------------ MODULE ServerWorkers_proofs -------------------------
(***************************************************************************)
(* Proofs, for any names, listings and references, of what the threads of  *)
(* GHPServer may rely on without a lock.  Each part of ServerWorkers has   *)
(* an inductive invariant of its own:                                      *)
(*   - StartIInv relates the threads created so far to what the former     *)
(*     ones have prepared, as long as nobody was late;                     *)
(*   - DataIInv says what C_DATA holds at each point of the replacement,   *)
(*     and how much of it a page has taken;                                *)
(*   - ServedIInv says that a load works on a vector without repetitions,  *)
(*     and that what was sent is the beginning of the vector.              *)
(***************************************************************************)
EXTENDS ServerWorkers, SequenceFacts

(* The start of the process.                                               *)

ThreadNames == {"config", "server", "check", "web", "master", "lists", "cheats", "api"}

StartTypeOK ==
    /\ started \in Seq(ThreadNames)
    /\ settings \in [maxConn : {"unset", "zero", "some"}, port : {"unset", "bad", "good"},
                     webPort : {"unset", "set"}]
    /\ net \in [pc : {"start", "keys", "socket", "loop"},
                port : {"none", "unset", "bad", "good"}]
    /\ late \in BOOLEAN

\* The threads come in the order of wWinMain.
CreatedInOrder ==
    /\ Len(started) <= Len(Threads)
    /\ \A i \in DOMAIN started : started[i] = Threads[i]

\* ConfigWorkerThread copies the settings in the order of the ini file.
CopiedInOrder ==
    /\ settings.port # "unset" => settings.maxConn # "unset"
    /\ settings.webPort # "unset" => settings.port # "unset"

\* What each thread finds prepared by the former ones if they are in time.
Prepared ==
    /\ Len(started) >= 2 => settings.webPort = "set"
    /\ Len(started) >= 2 /\ net.pc \in {"start", "keys"} => settings.port = "good"
    /\ Len(started) >= 3 => net.pc # "start"

StartIInv ==
    /\ StartTypeOK
    /\ CreatedInOrder
    /\ CopiedInOrder
    /\ ~late => Prepared
    /\ StartIsOrdered

-----------------------------------------------------------------------------
(* The customer's data.                                                    *)

Shown == Names \cup {"-", "undefined"}

\* A server belongs to a customer that is in the database.
MasterTypeOK ==
    /\ clients \in [DOMAIN clients -> Names]
    /\ servers \in [DOMAIN servers -> DOMAIN clients]

DataTypeOK ==
    /\ MasterTypeOK
    /\ data \in Seq(Names \cup {"-"})
    /\ master \in [pc : {"sleep", "parse", "push", "crashed"},
                   answer : Names \cup {NoData}, try : 1 .. 3]
    /\ page \in [pc : {"none", "head", "done"}, head : Shown, foot : Shown, met : BOOLEAN]

\* Five entries of one answer, or of none.
Uniform ==
    /\ Len(data) = 5
    /\ \E v \in {"-"} \cup Whole : \A k \in DOMAIN data : data[k] = v

\* Between two replacements the data is whole; during one it holds entries of
\* the new answer only, and not all five.
DataAsStored ==
    /\ master.pc \in {"sleep", "parse"} => Uniform
    /\ master.pc = "push" => /\ Readable(master.answer)
                             /\ Len(data) < 5
                             /\ \A k \in DOMAIN data : data[k] = master.answer

\* A page that has its header and met no replacement will find its footer.
HeaderStands ==
    page.pc = "head" /\ ~page.met =>
        /\ master.pc \in {"sleep", "parse"}
        /\ page.head = data[1]

DataIInv == DataTypeOK /\ DataAsStored /\ HeaderStands /\ PageIsWhole

-----------------------------------------------------------------------------
(* The lists for the clients.                                              *)

ServedTypeOK ==
    /\ lists \in [Lists -> Seq(AllFiles)]
    /\ load \in [list : Lists \cup {"sleep"}, files : Seq(AllFiles), temp : Seq(AllFiles),
                 good : SUBSET AllFiles]
    /\ loaded \in [Lists -> SUBSET AllFiles]
    /\ admission \in [list : Lists \cup {"none"}, next : Nat \ {0}, sent : Seq(AllFiles),
                      met : BOOLEAN]

\* A load lists no file twice, and hashes no file again.
LoadIsPlain ==
    /\ IsInjective(load.files) /\ IsInjective(load.temp)
    /\ ToSet(load.files) \cap ToSet(load.temp) = {}
    /\ load.good = ToSet(load.temp)

\* A vector holds the files of its last load.
ListsAreLoads ==
    \A l \in Lists : IsInjective(lists[l]) /\ loaded[l] = ToSet(lists[l])

\* What was sent so far is the beginning of a vector that was not assigned.
SentIsPrefix ==
    admission.list \in Lists /\ ~admission.met =>
        /\ Len(admission.sent) = admission.next - 1
        /\ Len(admission.sent) <= Len(lists[admission.list])
        /\ \A k \in DOMAIN admission.sent : admission.sent[k] = lists[admission.list][k]

ServedIInv == ServedTypeOK /\ LoadIsPlain /\ ListsAreLoads /\ SentIsPrefix

-----------------------------------------------------------------------------
(* ServerStart.                                                            *)

LEMMA ThreadsDomain ==
    /\ Threads \in Seq(ThreadNames)
    /\ Len(Threads) = 8 /\ DOMAIN Threads = 1 .. 8
    /\ Threads[1] = "config" /\ Threads[2] = "server"
    /\ \A i \in 1 .. 8 : /\ Threads[i] \in ThreadNames
                         /\ Threads[i] = "server" => i = 2
                         /\ Threads[i] = "check" => i = 3
                         /\ Threads[i] = "web" => i = 4
<1>1. Threads \in Seq(ThreadNames) /\ Len(Threads) = 8
  BY DEF Threads, ThreadNames
<1>2. /\ Threads[1] = "config" /\ Threads[2] = "server" /\ Threads[3] = "check"
      /\ Threads[4] = "web" /\ Threads[5] = "master" /\ Threads[6] = "lists"
      /\ Threads[7] = "cheats" /\ Threads[8] = "api"
  BY DEF Threads
<1>3. DOMAIN Threads = 1 .. 8
  BY <1>1
<1>4. \A i \in 1 .. 8 : i = 1 \/ i = 2 \/ i = 3 \/ i = 4 \/ i = 5 \/ i = 6 \/ i = 7 \/ i = 8
  OBVIOUS
<1>5. \A i \in 1 .. 8 : Threads[i] \in ThreadNames
  BY <1>2, <1>4 DEF ThreadNames
<1>6. \A i \in 1 .. 8 : /\ Threads[i] = "server" => i = 2
                        /\ Threads[i] = "check" => i = 3
                        /\ Threads[i] = "web" => i = 4
  BY <1>2, <1>4
<1> QED BY <1>1, <1>2, <1>3, <1>5, <1>6

LEMMA StartedLength ==
    ASSUME StartTypeOK, CreatedInOrder
    PROVE  /\ started \in Seq(ThreadNames)
           /\ Len(started) \in Nat /\ Len(started) <= 8
           /\ DOMAIN started = 1 .. Len(started)
<1>1. started \in Seq(ThreadNames)
  BY DEF StartTypeOK
<1>2. Len(started) <= 8
  BY ThreadsDomain DEF CreatedInOrder
<1> QED BY <1>1, <1>2

\* A thread that runs has been created, and the ones before it too.
LEMMA CreatedSoFar ==
    ASSUME StartTypeOK, CreatedInOrder
    PROVE  /\ Runs("server") => Len(started) >= 2
           /\ Runs("check") => Len(started) >= 3
           /\ Runs("web") => Len(started) >= 4
<1>1. DOMAIN started = 1 .. Len(started) /\ Len(started) \in Nat /\ Len(started) <= 8
  BY StartedLength
<1>2. ASSUME NEW thread, Runs(thread)
      PROVE  \E i \in 1 .. Len(started) : i \in 1 .. 8 /\ Threads[i] = thread
  BY <1>1, <1>2 DEF Runs, Contains, CreatedInOrder
<1> QED BY <1>1, <1>2, ThreadsDomain

LEMMA StartTypeStep ==
    ASSUME StartTypeOK, CreatedInOrder, CopiedInOrder, [StartNext]_startVars
    PROVE  StartTypeOK' /\ CreatedInOrder' /\ CopiedInOrder'
<1> USE DEF StartTypeOK, CreatedInOrder, CopiedInOrder
<1>1. CASE Create
  <2>1. Len(started) + 1 \in 1 .. 8 /\ Len(started) \in Nat
    BY <1>1, ThreadsDomain DEF Create
  <2>2. Threads[Len(started) + 1] \in ThreadNames
    BY <2>1, ThreadsDomain
  <2>3. /\ started' \in Seq(ThreadNames) /\ Len(started') = Len(started) + 1
        /\ DOMAIN started' = DOMAIN started \cup {Len(started) + 1}
        /\ started'[Len(started) + 1] = Threads[Len(started) + 1]
        /\ \A i \in DOMAIN started : started'[i] = started[i]
    BY <1>1, <2>2, AppendElements DEF Create
  <2>4. Len(started') <= Len(Threads) /\ \A i \in DOMAIN started' : started'[i] = Threads[i]
    BY <2>1, <2>3, ThreadsDomain
  <2>5. UNCHANGED <<settings, net>> /\ late' \in BOOLEAN
    BY <1>1 DEF Create, Ready
  <2> QED BY <2>3, <2>4, <2>5
<1>2. CASE StopFromMenu \/ ServerFails \/ EnterUnmade \/ BindWeb \/ UNCHANGED startVars
  BY <1>2 DEF StopFromMenu, ServerFails, EnterUnmade, BindWeb, startVars
<1>3. CASE ReadConnections \/ CopyPort \/ CopyWebPort \/ CorrectPort
  BY <1>3 DEF ReadConnections, CopyPort, CopyWebPort, CorrectPort, Set, Ready
<1>4. CASE InitializeCritical \/ MakeSocket \/ Startup
  BY <1>4 DEF InitializeCritical, MakeSocket, Startup, NetStep
<1> QED BY <1>1, <1>2, <1>3, <1>4 DEF StartNext

\* wWinMain has waited long enough when it creates a thread: what the thread
\* before it prepares is there.
LEMMA PreparedStep ==
    ASSUME StartTypeOK, CreatedInOrder, CopiedInOrder, ~late => Prepared,
           [StartNext]_startVars
    PROVE  (~late => Prepared)'
<1> SUFFICES ASSUME ~late' PROVE Prepared'
  OBVIOUS
<1>1. Len(started) \in Nat /\ Len(started) <= 8 /\ started \in Seq(ThreadNames)
  BY StartedLength
<1>2. CASE Create
  <2>1. /\ ~late /\ UNCHANGED <<settings, net>>
        /\ started = <<>> \/ Ready(Last(started))
        /\ Len(started') = Len(started) + 1
    <3>1. late' = (late \/ (started # <<>> /\ ~Ready(Last(started))))
      BY <1>2 DEF Create
    <3>2. Threads[Len(started) + 1] \in ThreadNames
      BY <1>1, <1>2, ThreadsDomain DEF Create
    <3>3. Len(started') = Len(started) + 1
      BY <1>1, <1>2, <3>2, AppendElements DEF Create
    <3> QED BY <1>2, <3>1, <3>3 DEF Create
  <2>2. CASE Len(started) = 0
    BY <2>1, <2>2 DEF Prepared
  <2>3. CASE Len(started) = 1
    <3>1. Last(started) = "config" /\ started # <<>>
      <4>1. 1 \in DOMAIN started
        BY <1>1, <2>3
      <4> QED BY <2>3, <4>1, ThreadsDomain DEF Last, CreatedInOrder
    <3>2. settings.port = "good" /\ settings.webPort = "set"
      BY <2>1, <3>1 DEF Ready
    <3> QED BY <2>1, <2>3, <3>2 DEF Prepared
  <2>4. CASE Len(started) = 2
    <3>1. Last(started) = "server" /\ started # <<>>
      <4>1. 2 \in DOMAIN started
        BY <1>1, <2>4
      <4>2. started[2] = "server" /\ started # <<>>
        BY <4>1, ThreadsDomain DEF CreatedInOrder
      <4> QED BY <2>4, <4>2 DEF Last
    <3>2. net.pc # "start"
      BY <2>1, <3>1 DEF Ready
    <3> QED BY <2>1, <2>4, <3>2 DEF Prepared
  <2>5. CASE Len(started) >= 3
    <3>1. Len(started) >= 2 /\ Len(started) >= 3
      BY <1>1, <2>5
    <3> QED BY <2>1, <3>1 DEF Prepared
  <2>6. \A n \in Nat : n = 0 \/ n = 1 \/ n = 2 \/ n >= 3
    OBVIOUS
  <2> QED BY <1>1, <2>2, <2>3, <2>4, <2>5, <2>6
<1>3. CASE StopFromMenu \/ ServerFails \/ EnterUnmade \/ BindWeb \/ UNCHANGED startVars
  BY <1>3 DEF StopFromMenu, ServerFails, EnterUnmade, BindWeb, startVars, Prepared
<1>4. CASE ReadConnections \/ CopyPort \/ CopyWebPort \/ CorrectPort
  <2>1. /\ UNCHANGED <<started, net>> /\ Prepared
        /\ ~(Ready("config") /\ net.pc \in {"start", "keys"})
        /\ settings.webPort = "set" => settings'.webPort = "set"
    BY <1>4 DEF ReadConnections, CopyPort, CopyWebPort, CorrectPort, Set, StartTypeOK
  <2> QED BY <2>1 DEF Prepared, Ready
<1>5. CASE InitializeCritical \/ MakeSocket \/ Startup
  BY <1>5 DEF InitializeCritical, MakeSocket, Startup, NetStep, Prepared, StartTypeOK
<1> QED BY <1>2, <1>3, <1>4, <1>5 DEF StartNext

LEMMA StartIsOrderedStep ==
    ASSUME StartIInv, [StartNext]_startVars
    PROVE  StartIsOrdered'
<1> SUFFICES ASSUME ~late'
             PROVE  /\ ~strayed' /\ over' # "unset"
                    /\ net'.port \in {"none", "good"} /\ bound' \in {"none", "set"}
  BY DEF StartIsOrdered
<1>1. ~late
  BY DEF StartNext, Create, StopFromMenu, ReadConnections, CopyPort, CopyWebPort,
         CorrectPort, Set, InitializeCritical, MakeSocket, Startup, NetStep,
         ServerFails, EnterUnmade, BindWeb, startVars
<1>2. /\ StartTypeOK /\ CreatedInOrder /\ CopiedInOrder /\ Prepared
      /\ ~strayed /\ over # "unset"
      /\ net.port \in {"none", "good"} /\ bound \in {"none", "set"}
  BY <1>1 DEF StartIInv, StartIsOrdered
<1>3. Len(started) \in Nat
  BY <1>2 DEF StartTypeOK
<1>4. CASE Create \/ ReadConnections \/ CopyPort \/ CopyWebPort \/ CorrectPort
           \/ InitializeCritical \/ Startup \/ UNCHANGED startVars
  BY <1>2, <1>4 DEF Create, ReadConnections, CopyPort, CopyWebPort, CorrectPort, Set,
                    InitializeCritical, Startup, NetStep, startVars, StartTypeOK
<1>5. CASE StopFromMenu
  BY <1>2, <1>5 DEF StopFromMenu
<1>6. CASE MakeSocket
  BY <1>2, <1>3, <1>6, CreatedSoFar DEF MakeSocket, NetStep, Prepared
<1>7. CASE ServerFails
  BY <1>2, <1>3, <1>7, CreatedSoFar DEF ServerFails, Prepared, CopiedInOrder
<1>8. CASE EnterUnmade
  BY <1>2, <1>3, <1>8, CreatedSoFar DEF EnterUnmade, Prepared
<1>9. CASE BindWeb
  BY <1>2, <1>3, <1>9, CreatedSoFar DEF BindWeb, Prepared
<1> QED BY <1>4, <1>5, <1>6, <1>7, <1>8, <1>9 DEF StartNext

LEMMA StartInvariance == StartSpec => []StartIInv
<1>1. StartInit => StartIInv
  <2> SUFFICES ASSUME StartInit PROVE StartIInv
    OBVIOUS
  <2>1. started = <<>> /\ Len(started) = 0 /\ DOMAIN started = {}
    BY DEF StartInit
  <2>2. StartTypeOK /\ CopiedInOrder
    <3>1. started \in Seq(ThreadNames)
      BY <2>1
    <3>2. settings \in [maxConn : {"unset", "zero", "some"}, port : {"unset", "bad", "good"},
                        webPort : {"unset", "set"}]
      BY DEF StartInit
    <3> QED BY <3>1, <3>2 DEF StartInit, StartTypeOK, CopiedInOrder
  <2>3. CreatedInOrder
    BY <2>1, ThreadsDomain DEF CreatedInOrder
  <2>4. Prepared /\ StartIsOrdered
    BY <2>1 DEF StartInit, Prepared, StartIsOrdered
  <2> QED BY <2>2, <2>3, <2>4 DEF StartIInv
<1>2. StartIInv /\ [StartNext]_startVars => StartIInv'
  BY StartTypeStep, PreparedStep, StartIsOrderedStep DEF StartIInv
<1> QED BY <1>1, <1>2, PTL DEF StartSpec

-----------------------------------------------------------------------------
(* MasterData.                                                             *)

\* MasterServer keeps every server with a customer it knows.
LEMMA MasterTypeStep ==
    ASSUME MasterTypeOK, [MasterNext]_masterVars
    PROVE  MasterTypeOK'
<1> USE DEF MasterTypeOK
<1>1. ASSUME NEW email \in Emails, NEW customer \in Names, AddC(email, customer)
      PROVE  MasterTypeOK'
  BY <1>1 DEF AddC, IsClientAtDB, With
<1>2. ASSUME NEW email \in Emails, NEW ref \in Refs, AddS(email, ref)
      PROVE  MasterTypeOK'
  BY <1>2 DEF AddS, IsClientAtDB, C_REFAtDB, With
<1>3. CASE UNCHANGED masterVars
  BY <1>3 DEF masterVars
<1> QED BY <1>1, <1>2, <1>3 DEF MasterNext

\* A game server is told the name of a customer, or nothing.
LEMMA AnswerTyped ==
    ASSUME MasterTypeOK, NEW ref
    PROVE  GetClientData(ref) \in Names \cup {NoData}
BY DEF MasterTypeOK, GetClientData, C_REFAtDB

LEMMA DataTypeStep ==
    ASSUME DataTypeOK, DataAsStored, [DataNext]_dataVars
    PROVE  DataTypeOK'
<1> USE DEF DataTypeOK
<1>1. CASE MasterNext /\ UNCHANGED <<data, master, page>>
  BY <1>1, MasterTypeStep
<1>2. CASE AskMaster
  BY <1>2, AnswerTyped DEF AskMaster, masterVars, MasterTypeOK
<1>3. CASE MasterUnreached
  BY <1>3 DEF MasterUnreached, masterVars, MasterTypeOK
<1>4. CASE ParseAnswer
  <2>1. page' \in [pc : {"none", "head", "done"}, head : Shown, foot : Shown, met : BOOLEAN]
    BY <1>4 DEF ParseAnswer, MeetPage
  <2>2. master' \in [pc : {"sleep", "parse", "push", "crashed"},
                    answer : Names \cup {NoData}, try : 1 .. 3]
    BY <1>4 DEF ParseAnswer
  <2>3. data' \in Seq(Names \cup {"-"})
    <3>1. <<>> \in Seq(Names \cup {"-"})
      OBVIOUS
    <3>2. data' = <<>> \/ data' = data
      BY <1>4 DEF ParseAnswer
    <3> QED BY <3>1, <3>2
  <2>4. MasterTypeOK'
    BY <1>4 DEF ParseAnswer, masterVars, MasterTypeOK
  <2> QED BY <2>1, <2>2, <2>3, <2>4
<1>5. CASE PushData
  <2>1. page' \in [pc : {"none", "head", "done"}, head : Shown, foot : Shown, met : BOOLEAN]
    BY <1>5 DEF PushData, MeetPage
  <2>2. master.answer \in Names \cup {"-"}
    BY <1>5, DataAssumption DEF PushData, DataAsStored, Readable
  <2>3. data' \in Seq(Names \cup {"-"})
    BY <1>5, <2>2 DEF PushData
  <2> QED BY <1>5, <2>1, <2>3 DEF PushData, masterVars, MasterTypeOK
<1>6. CASE PageHead \/ PageFoot \/ PageSent
  <2>1. \A k : Entry(k) \in Shown
    BY DEF Entry, Shown
  <2>2. page' \in [pc : {"none", "head", "done"}, head : Shown, foot : Shown, met : BOOLEAN]
    <3>1. "-" \in Shown
      BY DEF Shown
    <3>2. CASE PageHead
      <4>1. (master.pc = "push") \in BOOLEAN
        OBVIOUS
      <4> QED BY <2>1, <3>1, <3>2, <4>1 DEF PageHead
    <3>3. CASE PageFoot
      BY <2>1, <3>3 DEF PageFoot
    <3>4. CASE PageSent
      BY <3>1, <3>4 DEF PageSent, NoPage
    <3> QED BY <1>6, <3>2, <3>3, <3>4
  <2> QED
    BY <1>6, <2>2 DEF PageHead, PageFoot, PageSent, masterVars, MasterTypeOK
<1>7. CASE UNCHANGED dataVars
  BY <1>7 DEF dataVars, masterVars, MasterTypeOK
<1> QED BY <1>1, <1>2, <1>3, <1>4, <1>5, <1>6, <1>7 DEF DataNext

LEMMA DataAsStoredStep ==
    ASSUME DataTypeOK, DataAsStored, [DataNext]_dataVars
    PROVE  DataAsStored'
<1> USE DEF DataAsStored, Uniform
<1>1. CASE MasterNext /\ UNCHANGED <<data, master, page>>
  BY <1>1 DEF Readable
<1>2. CASE AskMaster \/ MasterUnreached
  <2>1. master.pc = "sleep" /\ master'.pc \in {"sleep", "parse"} /\ UNCHANGED data
    BY <1>2 DEF AskMaster, MasterUnreached, DataTypeOK
  <2> QED BY <2>1
<1>3. CASE ParseAnswer
  <2>1. CASE Readable(master.answer)
    <3>1. data' = <<>> /\ master'.pc = "push" /\ master'.answer = master.answer
      BY <1>3, <2>1 DEF ParseAnswer, DataTypeOK
    <3>2. Len(<<>>) = 0 /\ DOMAIN <<>> = {}
      OBVIOUS
    <3> QED BY <2>1, <3>1, <3>2 DEF Readable
  <2>2. CASE ~Readable(master.answer)
    BY <1>3, <2>2 DEF ParseAnswer, DataTypeOK
  <2> QED BY <2>1, <2>2
<1>4. CASE PushData
  <2>1. /\ master.pc = "push" /\ Readable(master.answer) /\ Len(data) < 5
        /\ \A k \in DOMAIN data : data[k] = master.answer
    BY <1>4 DEF PushData
  <2>2. CASE master'.pc = "crashed"
    BY <2>2
  <2>3. CASE data' = Append(data, master.answer)
    <3>1. master.answer \in Names \cup {"-"} /\ data \in Seq(Names \cup {"-"})
      BY <2>1, DataAssumption DEF Readable, DataTypeOK
    <3>2. /\ Len(data') = Len(data) + 1 /\ Len(data) \in Nat
          /\ \A k \in DOMAIN data' : data'[k] = master.answer
      BY <2>1, <2>3, <3>1, AppendElements
    <3>3. CASE Len(data') = 5
      <4>1. master.answer \in Whole
        BY <1>4, <2>1, <2>3, <3>2, <3>3 DEF PushData, Readable, DataTypeOK
      <4> QED BY <1>4, <3>2, <3>3, <4>1 DEF PushData, DataTypeOK
    <3>4. CASE Len(data') # 5
      <4>1. Len(data') < 5
        BY <2>1, <3>2, <3>4
      <4>2. master'.pc \in {"push", "crashed"} /\ master'.answer = master.answer
        BY <1>4, <3>4 DEF PushData, DataTypeOK
      <4> QED BY <2>1, <3>2, <4>1, <4>2 DEF Readable
    <3> QED BY <3>3, <3>4
  <2> QED BY <1>4, <2>2, <2>3 DEF PushData, DataTypeOK
<1>5. CASE PageHead \/ PageFoot \/ PageSent \/ UNCHANGED dataVars
  BY <1>5 DEF PageHead, PageFoot, PageSent, dataVars, Readable
<1> QED BY <1>1, <1>2, <1>3, <1>4, <1>5 DEF DataNext

\* A replacement that begins or goes on while a page is written is noticed
\* by the page; every other step leaves data and page together.
LEMMA PageStep ==
    ASSUME DataTypeOK, DataAsStored, HeaderStands, PageIsWhole, [DataNext]_dataVars
    PROVE  HeaderStands' /\ PageIsWhole'
<1> USE DEF HeaderStands, PageIsWhole
<1>1. ASSUME MeetPage PROVE HeaderStands' /\ PageIsWhole'
  <2>1. /\ page'.pc = page.pc /\ page'.met = (page.pc # "none")
        /\ page'.head = page.head /\ page'.foot = page.foot
    BY <1>1 DEF MeetPage, DataTypeOK
  <2> QED BY <2>1
<1>2. CASE \/ MasterNext /\ UNCHANGED <<data, master, page>>
           \/ AskMaster \/ MasterUnreached
           \/ ParseAnswer /\ ~Readable(master.answer)
           \/ UNCHANGED dataVars
  <2>1. /\ UNCHANGED <<data, page>>
        /\ master.pc \in {"sleep", "parse"} => master'.pc \in {"sleep", "parse"}
    BY <1>2 DEF AskMaster, MasterUnreached, ParseAnswer, dataVars, DataTypeOK
  <2> QED BY <2>1
<1>3. CASE ParseAnswer /\ Readable(master.answer)
  BY <1>1, <1>3 DEF ParseAnswer
<1>4. CASE PushData
  BY <1>1, <1>4 DEF PushData
<1>5. CASE PageHead
  <2>1. /\ page'.pc = "head" /\ page'.head = Entry(1) /\ UNCHANGED <<data, master>>
        /\ page'.met = (master.pc = "push") /\ master.pc # "crashed"
    BY <1>5 DEF PageHead, Running
  <2>2. CASE ~page'.met
    <3>1. master.pc \in {"sleep", "parse"}
      BY <2>1, <2>2 DEF DataTypeOK
    <3>2. 1 \in DOMAIN data
      BY <3>1 DEF DataAsStored, Uniform, DataTypeOK
    <3> QED BY <2>1, <3>1, <3>2 DEF Entry
  <2> QED BY <2>1, <2>2
<1>6. CASE PageFoot
  <2>1. /\ page'.pc = "done" /\ page'.foot = Entry(5)
        /\ page'.head = page.head /\ page'.met = page.met /\ page.pc = "head"
    BY <1>6 DEF PageFoot, DataTypeOK
  <2>2. CASE ~page'.met
    <3>1. Uniform /\ page.head = data[1]
      BY <2>1, <2>2 DEF DataAsStored
    <3>2. 1 \in DOMAIN data /\ 5 \in DOMAIN data
      BY <3>1 DEF Uniform, DataTypeOK
    <3> QED BY <2>1, <3>1, <3>2 DEF Entry, Uniform
  <2> QED BY <2>1, <2>2
<1>7. CASE PageSent
  BY <1>7 DEF PageSent, NoPage
<1> QED BY <1>2, <1>3, <1>4, <1>5, <1>6, <1>7 DEF DataNext

LEMMA DataInvariance == DataSpec => []DataIInv
<1>1. DataInit => DataIInv
  <2> SUFFICES ASSUME DataInit PROVE DataIInv
    OBVIOUS
  <2>1. /\ data \in Seq(Names \cup {"-"}) /\ Len(data) = 5
        /\ \A k \in DOMAIN data : data[k] = "-"
    BY DEF DataInit, Default
  <2>2. MasterTypeOK
    BY DEF DataInit, MasterInit, MasterTypeOK
  <2>3. DataTypeOK
    BY <2>1, <2>2 DEF DataInit, DataTypeOK, NoPage, Shown
  <2>4. DataAsStored /\ HeaderStands /\ PageIsWhole
    BY <2>1 DEF DataInit, DataAsStored, Uniform, HeaderStands, PageIsWhole, NoPage
  <2> QED BY <2>3, <2>4 DEF DataIInv
<1>2. DataIInv /\ [DataNext]_dataVars => DataIInv'
  BY DataTypeStep, DataAsStoredStep, PageStep DEF DataIInv
<1> QED BY <1>1, <1>2, PTL DEF DataSpec

-----------------------------------------------------------------------------
(* ServedLists.                                                            *)

\* What a new load works on: the files of one listing, each of them once.
LEMMA NewLoad ==
    ASSUME NEW l \in Lists, GetAllFiles(l)
    PROVE  /\ load'.list = l /\ load'.temp = <<>> /\ load'.good = {}
           /\ load'.files \in Seq(AllFiles) /\ IsInjective(load'.files)
           /\ load' \in [list : Lists \cup {"sleep"}, files : Seq(AllFiles),
                         temp : Seq(AllFiles), good : SUBSET AllFiles]
<1>1. PICK files \in Listings : load' = [NoLoad EXCEPT !.list = l, !.files = files]
  BY DEF GetAllFiles
<1>2. load' = [list |-> l, files |-> files, temp |-> <<>>, good |-> {}]
  BY <1>1 DEF NoLoad
<1>3. files \in Seq(AllFiles) /\ IsInjective(files)
  BY ListingsAssumption
<1>4. <<>> \in Seq(AllFiles)
  OBVIOUS
<1> QED BY <1>2, <1>3, <1>4

\* The greeting of a connection begins a list with nothing sent.
LEMMA NewAdmission ==
    ASSUME NEW l \in Lists \cup {"none"}
    PROVE  [NoAdmission EXCEPT !.list = l] \in
                [list : Lists \cup {"none"}, next : Nat \ {0}, sent : Seq(AllFiles),
                 met : BOOLEAN]
<1>1. <<>> \in Seq(AllFiles)
  OBVIOUS
<1>2. NoAdmission \in [list : Lists \cup {"none"}, next : Nat \ {0}, sent : Seq(AllFiles),
                       met : BOOLEAN]
  BY <1>1 DEF NoAdmission
<1> QED BY <1>2

\* No file is in the empty vector.
LEMMA EmptyVector == ToSet(<<>>) = {} /\ IsInjective(<<>>)
BY DEF ToSet, IsInjective

LEMMA ServedTypeStep ==
    ASSUME ServedTypeOK, [ServedNext]_servedVars
    PROVE  ServedTypeOK'
<1> USE DEF ServedTypeOK
<1> DEFINE Load == [list : Lists \cup {"sleep"}, files : Seq(AllFiles),
                    temp : Seq(AllFiles), good : SUBSET AllFiles]
           Admission == [list : Lists \cup {"none"}, next : Nat \ {0},
                         sent : Seq(AllFiles), met : BOOLEAN]
<1>1. CASE StartLoads
  BY <1>1, NewLoad DEF StartLoads, Lists
<1>2. CASE CalculeFileSHA1
  <2> DEFINE file == Head(load.files)
             rest == [load EXCEPT !.files = Tail(load.files)]
  <2>1. file \in AllFiles /\ Tail(load.files) \in Seq(AllFiles)
    BY <1>2, HeadTailElements DEF CalculeFileSHA1
  <2>2. rest \in Load
    BY <2>1
  <2>3. Append(load.temp, file) \in Seq(AllFiles)
    BY <2>1
  <2>4. [rest EXCEPT !.temp = Append(@, file), !.good = @ \cup {file}] \in Load
    BY <2>1, <2>2, <2>3
  <2> QED BY <1>2, <2>2, <2>4 DEF CalculeFileSHA1
<1>3. CASE AssignList
  <2>1. load.list \in Lists
    BY <1>3 DEF AssignList
  <2>2. lists' \in [Lists -> Seq(AllFiles)] /\ loaded' \in [Lists -> SUBSET AllFiles]
    BY <1>3, <2>1 DEF AssignList
  <2>3. admission' \in Admission
    BY <1>3 DEF AssignList
  <2>4. load' \in Load
    BY <1>3, NewLoad DEF AssignList, NoLoad, Lists
  <2> QED BY <2>2, <2>3, <2>4
<1>4. CASE Admit
  <2>1. "crc" \in Lists
    BY DEF Lists
  <2> QED BY <1>4, <2>1, NewAdmission DEF Admit
<1>5. CASE SendEntry
  <2> DEFINE list == lists[admission.list]
  <2>1. list \in Seq(AllFiles) /\ admission.next \in Nat \ {0} /\ admission.next <= Len(list)
    BY <1>5 DEF SendEntry
  <2>2. list[admission.next] \in AllFiles
    BY <2>1
  <2>3. Append(admission.sent, list[admission.next]) \in Seq(AllFiles)
    BY <2>2
  <2>4. PICK n \in Nat \ {0}, s \in Seq(AllFiles) :
            admission' = [admission EXCEPT !.next = n, !.sent = s]
    <3>1. admission.next + 1 \in Nat \ {0}
      BY <2>1
    <3> QED BY <1>5, <2>3, <3>1 DEF SendEntry
  <2>5. admission' \in Admission
    BY <2>4
  <2> QED BY <1>5, <2>5 DEF SendEntry
<1>6. CASE ListSent
  <2>1. "hacks" \in Lists /\ "none" \in Lists \cup {"none"}
    BY DEF Lists
  <2>2. NoAdmission = [NoAdmission EXCEPT !.list = "none"]
    BY DEF NoAdmission
  <2> QED BY <1>6, <2>1, <2>2, NewAdmission DEF ListSent
<1>7. CASE UNCHANGED servedVars
  BY <1>7 DEF servedVars
<1> QED BY <1>1, <1>2, <1>3, <1>4, <1>5, <1>6, <1>7 DEF ServedNext

LEMMA LoadIsPlainStep ==
    ASSUME ServedTypeOK, LoadIsPlain, [ServedNext]_servedVars
    PROVE  LoadIsPlain'
<1> USE DEF LoadIsPlain
<1>1. ASSUME NEW l \in Lists, GetAllFiles(l) PROVE LoadIsPlain'
  BY <1>1, NewLoad, EmptyVector
<1>2. CASE StartLoads
  BY <1>1, <1>2 DEF StartLoads, Lists
<1>3. CASE CalculeFileSHA1
  <2> DEFINE file == Head(load.files)
  <2>1. /\ file \in AllFiles /\ Tail(load.files) \in Seq(AllFiles)
        /\ ToSet(load.files) = {file} \cup ToSet(Tail(load.files))
        /\ IsInjective(Tail(load.files)) /\ file \notin ToSet(Tail(load.files))
    BY <1>3, HeadTailElements DEF CalculeFileSHA1, ServedTypeOK
  <2>2. load.temp \in Seq(AllFiles)
    BY DEF ServedTypeOK
  <2>3. /\ ToSet(Append(load.temp, file)) = ToSet(load.temp) \cup {file}
        /\ IsInjective(Append(load.temp, file))
    BY <2>1, <2>2, AppendNew
  <2>4. /\ load'.files = Tail(load.files)
        /\ \/ load'.temp = Append(load.temp, file) /\ load'.good = load.good \cup {file}
           \/ load'.temp = load.temp /\ load'.good = load.good
    BY <1>3 DEF CalculeFileSHA1, ServedTypeOK
  <2> QED BY <2>1, <2>3, <2>4
<1>4. CASE AssignList
  <2>1. CASE load' = NoLoad
    BY <2>1, EmptyVector DEF NoLoad
  <2>2. CASE GetAllFiles("hacks")
    BY <1>1, <2>2 DEF Lists
  <2> QED BY <1>4, <2>1, <2>2 DEF AssignList
<1>5. CASE Admit \/ SendEntry \/ ListSent \/ UNCHANGED servedVars
  BY <1>5 DEF Admit, SendEntry, ListSent, servedVars
<1> QED BY <1>2, <1>3, <1>4, <1>5 DEF ServedNext

LEMMA ListsAreLoadsStep ==
    ASSUME ServedTypeOK, LoadIsPlain, ListsAreLoads, [ServedNext]_servedVars
    PROVE  ListsAreLoads'
<1> USE DEF ListsAreLoads
<1>1. CASE AssignList
  <2>1. load.list \in Lists
    BY <1>1 DEF AssignList, ServedTypeOK
  <2>2. \A l \in Lists :
            /\ lists'[l] = IF l = load.list THEN load.temp ELSE lists[l]
            /\ loaded'[l] = IF l = load.list THEN load.good ELSE loaded[l]
    BY <1>1, <2>1 DEF AssignList, ServedTypeOK
  <2> QED BY <2>2 DEF LoadIsPlain
<1>2. CASE StartLoads \/ CalculeFileSHA1 \/ Admit \/ SendEntry \/ ListSent
           \/ UNCHANGED servedVars
  BY <1>2 DEF StartLoads, CalculeFileSHA1, Admit, SendEntry, ListSent, servedVars
<1> QED BY <1>1, <1>2 DEF ServedNext

\* The server thread sends a vector by index: as long as it is not assigned,
\* what was sent stays its beginning.
LEMMA SentIsPrefixStep ==
    ASSUME ServedTypeOK, SentIsPrefix, [ServedNext]_servedVars
    PROVE  SentIsPrefix'
<1> USE DEF SentIsPrefix
<1>1. CASE StartLoads \/ CalculeFileSHA1 \/ UNCHANGED servedVars
  BY <1>1 DEF StartLoads, CalculeFileSHA1, servedVars
<1>2. CASE AssignList
  <2>1. /\ admission'.list = admission.list /\ admission'.next = admission.next
        /\ admission'.sent = admission.sent
        /\ admission'.met = (admission.met \/ admission.list = load.list)
    BY <1>2 DEF AssignList, ServedTypeOK
  <2>2. \A l \in Lists \ {load.list} : lists'[l] = lists[l]
    BY <1>2 DEF AssignList, ServedTypeOK
  <2> QED BY <2>1, <2>2
<1>3. ASSUME NEW l \in Lists, admission' = [NoAdmission EXCEPT !.list = l],
             UNCHANGED lists
      PROVE  SentIsPrefix'
  <2>1. admission'.next = 1 /\ admission'.sent = <<>> /\ admission'.list = l
    BY <1>3 DEF NoAdmission
  <2>2. Len(<<>>) = 0 /\ DOMAIN <<>> = {} /\ Len(lists[l]) \in Nat
    BY DEF ServedTypeOK
  <2>3. Len(admission'.sent) = admission'.next - 1
    BY <2>1, <2>2
  <2>4. Len(admission'.sent) <= Len(lists'[l]) /\ DOMAIN admission'.sent = {}
    BY <1>3, <2>1, <2>2
  <2> QED BY <2>1, <2>3, <2>4
<1>4. CASE Admit
  BY <1>3, <1>4 DEF Admit, Lists
<1>5. CASE SendEntry
  <2> DEFINE list == lists[admission.list]
             next == admission.next
  <2>1. /\ admission.list \in Lists /\ next <= Len(list)
        /\ admission'.list = admission.list /\ admission'.met = admission.met
        /\ admission'.next = next + 1
        /\ admission'.sent = Append(admission.sent, list[next])
        /\ UNCHANGED lists
    BY <1>5 DEF SendEntry, ServedTypeOK
  <2>2. /\ list \in Seq(AllFiles) /\ next \in Nat \ {0} /\ Len(list) \in Nat
        /\ admission.sent \in Seq(AllFiles) /\ list[next] \in AllFiles
    BY <2>1 DEF ServedTypeOK
  <2> HIDE DEF list, next
  <2>3. /\ Len(admission'.sent) = Len(admission.sent) + 1
        /\ DOMAIN admission'.sent = DOMAIN admission.sent \cup {Len(admission.sent) + 1}
        /\ admission'.sent[Len(admission.sent) + 1] = list[next]
        /\ \A k \in DOMAIN admission.sent : admission'.sent[k] = admission.sent[k]
    BY <2>1, <2>2, AppendElements
  <2>4. CASE ~admission.met
    <3>1. /\ Len(admission.sent) = next - 1
          /\ \A k \in DOMAIN admission.sent : admission.sent[k] = list[k]
      BY <2>1, <2>4 DEF list, next
    <3>2. Len(admission'.sent) = next /\ Len(admission.sent) + 1 = next
      BY <2>2, <2>3, <3>1
    <3>3. \A k \in DOMAIN admission'.sent : admission'.sent[k] = list[k]
      BY <2>3, <3>1, <3>2
    <3>4. next = (next + 1) - 1
      BY <2>2
    <3> QED BY <2>1, <3>2, <3>3, <3>4 DEF list
  <2> QED BY <2>1, <2>4
<1>6. CASE ListSent
  <2>1. CASE admission.list = "hacks"
    BY <1>6, <2>1 DEF ListSent, NoAdmission, Lists
  <2>2. CASE admission.list # "hacks"
    BY <1>3, <1>6, <2>2 DEF ListSent, Lists
  <2> QED BY <2>1, <2>2
<1> QED BY <1>1, <1>2, <1>4, <1>5, <1>6 DEF ServedNext

LEMMA ServedInvariance == ServedSpec => []ServedIInv
<1>1. ServedInit => ServedIInv
  <2> SUFFICES ASSUME ServedInit PROVE ServedIInv
    OBVIOUS
  <2>1. <<>> \in Seq(AllFiles)
    OBVIOUS
  <2>2. ServedTypeOK
    BY <2>1 DEF ServedInit, ServedTypeOK, NoLoad, NoAdmission
  <2>3. LoadIsPlain /\ ListsAreLoads
    BY EmptyVector DEF ServedInit, LoadIsPlain, ListsAreLoads, NoLoad
  <2>4. SentIsPrefix
    BY DEF ServedInit, SentIsPrefix, NoAdmission, Lists
  <2> QED BY <2>2, <2>3, <2>4 DEF ServedIInv
<1>2. ServedIInv /\ [ServedNext]_servedVars => ServedIInv'
  BY ServedTypeStep, LoadIsPlainStep, ListsAreLoadsStep, SentIsPrefixStep DEF ServedIInv
<1> QED BY <1>1, <1>2, PTL DEF ServedSpec

\* A vector that was sent to its end is all that was sent.
LEMMA SentInFull ==
    ASSUME ServedIInv, ListSent, ~admission.met
    PROVE  /\ ToSet(admission.sent) = loaded[admission.list]
           /\ IsInjective(admission.sent)
<1> DEFINE list == lists[admission.list]
<1>1. /\ admission.list \in Lists /\ list \in Seq(AllFiles)
      /\ admission.sent \in Seq(AllFiles) /\ admission.next > Len(list)
      /\ admission.next \in Nat
  BY DEF ListSent, ServedIInv, ServedTypeOK
<1>2. /\ Len(admission.sent) = admission.next - 1
      /\ Len(admission.sent) <= Len(list)
      /\ \A k \in DOMAIN admission.sent : admission.sent[k] = list[k]
  BY <1>1 DEF ServedIInv, SentIsPrefix
<1>3. IsInjective(list) /\ loaded[admission.list] = ToSet(list)
  BY <1>1 DEF ServedIInv, ListsAreLoads
<1> HIDE DEF list
<1>4. Len(list) \in Nat /\ Len(admission.sent) \in Nat
  BY <1>1
<1>5. Len(admission.sent) = Len(list)
  BY <1>1, <1>2, <1>4
<1>6. DOMAIN admission.sent = DOMAIN list
  BY <1>1, <1>5
<1> QED BY <1>2, <1>3, <1>6 DEF ToSet, IsInjective

-----------------------------------------------------------------------------
(* A behaviour of the server follows one part and leaves the others alone. *)

LEMMA FollowsParts == Spec => StartSpec /\ DataSpec /\ ServedSpec
<1>1. Init => StartInit /\ DataInit /\ ServedInit
  BY DEF Init
<1>2. [Next]_workersVars =>
          [StartNext]_startVars /\ [DataNext]_dataVars /\ [ServedNext]_servedVars
  BY DEF Next, workersVars
<1> QED BY <1>1, <1>2, PTL DEF Spec, StartSpec, DataSpec, ServedSpec

\* The pauses of wWinMain (src/GHPServer/GHPServer.cpp:1267-1282) suffice: whatever
\* the threads do while the process comes up, if no thread is late, then nobody
\* enters the critical section before it exists and nobody uses a setting that the
\* ini file does not have.
THEOREM ServerStartsInOrder == Spec => []StartIsOrdered
<1>1. StartIInv => StartIsOrdered
  BY DEF StartIInv
<1> QED BY <1>1, FollowsParts, StartInvariance, PTL

\* A page that the web thread builds while MasterServer's answer is stored by
\* another thread shows one customer's data, unless the storing met it
\* (MSClientThread): for every set of names and whatever answers arrive.
THEOREM PagesAreWhole == Spec => []PageIsWhole
<1>1. DataIInv => PageIsWhole
  BY DEF DataIInv
<1> QED BY <1>1, FollowsParts, DataInvariance, PTL

\* A connection that is let in is sent every entry of the last finished load of a
\* list, each once, unless the list was assigned meanwhile (ProcessPacket and
\* LoadCRC, LoadHacks): for every set of listings and of programs.
THEOREM ListsAreServedWhole == Spec => ServedWhole
<1> DEFINE Sent == LET l == admission.list IN
                   l \in Lists /\ admission'.list # l /\ ~admission.met =>
                       /\ ToSet(admission.sent) = loaded[l]
                       /\ IsInjective(admission.sent)
<1>1. ServedIInv /\ [ServedNext]_servedVars => [Sent]_servedVars
  <2> SUFFICES ASSUME ServedIInv, [ServedNext]_servedVars, ~UNCHANGED servedVars,
                      admission.list \in Lists, admission'.list # admission.list,
                      ~admission.met
               PROVE  /\ ToSet(admission.sent) = loaded[admission.list]
                      /\ IsInjective(admission.sent)
    OBVIOUS
  <2>1. CASE ListSent
    BY <2>1, SentInFull
  <2>2. CASE StartLoads \/ CalculeFileSHA1 \/ AssignList \/ SendEntry
    <3>1. admission'.list = admission.list
      BY <2>2 DEF StartLoads, CalculeFileSHA1, AssignList, SendEntry, ServedIInv, ServedTypeOK
    <3> QED BY <3>1
  <2>3. CASE Admit
    BY <2>3 DEF Admit, Lists
  <2> QED BY <2>1, <2>2, <2>3 DEF ServedNext
<1>2. Spec => [][Sent]_servedVars
  BY <1>1, FollowsParts, ServedInvariance, PTL DEF ServedSpec
<1> QED BY <1>2 DEF ServedWhole
=============================================================================
