# GHP in TLA+

TLA+ modules, TLC runs and TLAPS proofs for GHP ("Game Hack Protector"): a DLL
that watches a game on the player's machine, and a server that registers who is
playing, bans, and collects screenshots. The modules follow the source at the
lines named in `PROJECT.json` under `map`.

## 1. The system

| Part | Source | State it keeps | Operations |
|---|---|---|---|
| Session registry | `GHPServer/ServerCore.cpp` | `players`: guid, account name, hardware ids, last ping, challenge, mutex of each session | add, assign hardware id, assign name, refresh, look up, remove |
| Server thread | `ServerWorkerThread`, `ProcessPacket` | RakNet connections | one packet at a time: connection, ids, names, pings, reports, screenshots |
| Check thread | `PlayerCheckWorkerThread` | - | once a second: evict silent sessions |
| Ban records | `BanData`, `IsDataBanned`, `BlockAll` | `data\block\...\*.ini` | ban an account, a machine, an address; look |
| Hardware-id files | `SaveHWID(s)`, `GetHWIDSFromFile` | `data\hwid\<account>.ini` | record an id, read all |
| Login effects | `AssignUserIDToPlayer`, `RemovePlayerByGUID`, `CallAPI` | named mutexes, the site's idea of who is online | create/close, notify |
| Web thread | `GHPServer/main.cpp`, `server_request`, `WEB_ServerPage` | - | pages, bans, disconnection, screenshot requests, downloads |
| Configuration thread | `ConfigWorkerThread` | settings | reread every ten seconds |
| List workers | `LoadCRC`, `LoadHacks`, `LoadCheatWhitelist`, `LoadAPIWhitelist` | lists in memory, whitelist files | reload every ten minutes |
| Start of the server | `wWinMain` | - | create the eight threads, 200 ms apart |
| Client of the master server | `MasterServerWorkerThread` | `C_DATA` | fetch the customer's data every ten minutes |
| Master server | `MasterServer/main.cpp` | database of customers and their servers | add a customer, add a server, answer a reference |
| Client connection | `GHP/ghp_NETBOX.cpp` | `ServerGUID`, `SRV_KEY`, ids to send, last name told | connect, poll, ping, hand over the name, handle packets |
| Client core | `GHP/ghp_CORE.cpp` | error variables, whitelists | start, periodic checks, error, stop |
| Scanner | `GHP/ghp_SCAN.cpp` | processes scanned, cheats from the server | one pass every half second |
| Hooks | `GHP/ghp_HOOK.cpp` | threads of the game | admit libraries, note threads, rewrite the login packet |
| Packet codec | `ghp_UTILS/ghp_ENCDEC.cpp`, `ghp_MU.cpp` | keys | encrypt, decrypt, put the serial in |
| Utilities | `ghp_UTILS`, `ghp_CRYPTO`, `ghp_NET` | buffers, files, licences | load, save, sign, encrypt, download |
| Tools | `LicGen`, `DBGen`, `GHPUpdater`, `Hackblocker` | files | run by hand |

Everything under `3rd`, `GHP/Detours`, `ghp_NET/mongoose.*`, `hiberlite`,
`jpeg-compressor` and `tinyxml2` is vendored.

**How the parts interact.** The threads of the server share `players` (under
one critical section, with the exceptions below), the settings, the lists and
the files (without any). The server thread and the check thread change the
registry; the web thread reads sessions, closes connections and writes ban
records. Client and server exchange packets over RakNet, reliable and ordered.
Inside the client the polling thread, the scanning thread and the game's own
thread share `GameLogin`, the `peer`, `ConnectionActive` and the error
variables without locks.

**What is hard.** Two steps of the server thread with a ban, an eviction or a
setting in between; a session copied after the lock is left; a clock read
before the lock is taken; a walk over the vector it erases from; files written
key by key by one thread and read by another, or cut short by a stop; calls to
the site that overtake each other or are lost; challenges replaced before they are
answered; threads that end the process together. `PROJECT.json` lists each one
at its line, with the properties that watch it.

**What makes each part correct**

- registry: one session per connection, per account and per machine unless the
  settings allow more; every open connection is supervised; a ban holds; a dead
  session goes away;
- check thread: it evicts for a reason, and it does evict;
- files: what was recorded stays readable, a reader misses nothing, an OK is a
  complete record;
- login effects: mutexes and the site follow the registry;
- ping: a live client on a fast enough network is not taken for silent;
- client: the server learns the ids and the current name; an error ends the
  process, with the right page;
- screenshots: requests keep their distance and are not forgotten;
- shared data of the server: it is whole when somebody takes it, and it is
  there when somebody needs it;
- guards of the client: threads created through the hook are admitted and
  others are not, a pass leaves no cheat and no altered memory undetected but in named ways, and
  the game's server reads the login packet that the game wrote.

## 2. Modules

| Module | Models | Actions |
|---|---|---|
| `ExclusiveClaims` | what the registry promises about a kind of resource | Claim, Switch, Release, Reconfigure |
| `SessionRegistry` | registry, connections, ban records, id files as sets | the handlers of `ProcessPacket`, eviction, web actions, settings |
| `SessionRegistry_proofs` | theorems about `SessionRegistry` | - |
| `PlayerCheck` | check thread against the server thread, with a wrapping clock | Tick, AddPlayer, SetPlayerPing, Disconnected, ReadClock, Enter, Walk, Leave |
| `PlayerLookup` | `GetPlayerByGUID` and its users | Find, ReadGuid, ReadName, Ban, Drop against AddPlayer, AssignUserID, Disconnected, Evict |
| `HwidFile` | one account's file, key by key | SaveHWIDs .. WriteEntry, FileCrash, StartReading, ReadKey |
| `BanStore` | one player's ban records, key by key | BlockAll, WebBan, Call, Look, WriteStatus, WriteField, FailWrite, BanCrash |
| `Whitelist` | refresh and download of `CheatWhitelist.bin` | Edit, StartRefresh .. RemoveList, Request .. SendDone |
| `ServerFiles` | the three above | theirs |
| `LoginEffects` | mutex handles and status calls | AddPlayer, RefuseUserID, AssignUserID, RemovePlayer, Deliver, Lose, Reconfigure |
| `PingVerify` | ping, challenge, answer | Tick, SendPing, ServerPing, ClientVerify, ServerVerifyRet |
| `Screenshot`, extends `PingVerify` | requests of the server thread and of a page | Pass, Exchange, Refresh, AskOrNot, OpenPage .. SendPage, Configure |
| `MasterServer` | the vendor's database | AddC, AddS |
| `MasterData`, extends `MasterServer` | `C_DATA`, its thread and a page | AskMaster .. PushData, PageHead .. PageSent |
| `ServerStart` | how the server's threads come up | Create, StopFromMenu, ReadConnections .. CorrectPort, InitializeCritical .. ServerFails, EnterUnmade, BindWeb |
| `ServedLists` | lists loaded and sent | StartLoads, CalculeFileSHA1, AssignList, Admit, SendEntry, ListSent |
| `ServerWorkers` | `MasterData`, `ServerStart`, `ServedLists` | theirs |
| `NetBox` | the client's polling thread and the game's writes of the name | SetLogin, CompareLogin, Tell, Store, Accepted, SendId, ReceiveKey, Fail |
| `ThreadGuard` | list of known threads, loader hook | OriCreateThread, PushBegin, PushEnd, LdrLoadDll, BeginForeign, ExitThread |
| `CorePass` | one pass of the scanning thread after the other | EnumProcesses .. MarkScanned, HiddenScan, SpeedScan, CheckCRC, CheckMemory, CreateSuccessor; processes, memory, packets |
| `PacketCodec` | encryption of the game's packets, as functions on bytes | - |
| `SerialPacket`, extends `PacketCodec` | the login packet in the hook of `send` | ReceiveSerial, GameSends, ghp_send, ServerReads |
| `ClientWorkers` | `ThreadGuard`, `CorePass`, `SerialPacket` | theirs |
| `ClientShutdown` | `Error`, `ErrorBrowser`, `Stop` in several threads | Open .. Use, Find, Report, Quit, Raise .. Nap, Browse, Check .. Exit |
| `PlayerCheck_proofs` | theorems about `PlayerCheck` | - |
| `Login_proofs` | theorems about `LoginEffects`, `PacketCodec`, `SerialPacket` | - |
| `ServerFiles_proofs` | theorems about `HwidFile`, `BanStore`, `Whitelist` | - |
| `ServerWorkers_proofs` | theorems about `ServerStart`, `MasterData`, `ServedLists` | - |
| `SessionCopies_proofs` | theorems about `PlayerLookup`, `PingVerify`, `Screenshot` | - |
| `ClientThreads_proofs` | theorems about `ThreadGuard`, `CorePass`, `NetBox`, `ClientShutdown` | - |
| `SequenceFacts` | lemmas about sequences that the others cite | - |

`SessionRegistry` instantiates `ExclusiveClaims` twice, for accounts and for
machines. The other modules refine single aspects that `SessionRegistry` takes
as one step: when a session is silent (`PlayerCheck`, `PingVerify`), what the
reporter's copy contains (`PlayerLookup`), how a file is written (`HwidFile`,
`BanStore`), what else a login does (`LoginEffects`), when a client is asked
for a picture (`Screenshot`).

`ServerFiles`, `ServerWorkers` and `ClientWorkers` put modules side by side that
share no variable: a behaviour follows one of them, chosen in the initial
state, so a run of theirs explores the sum of the state spaces and not the
product, and answers what three runs would. An interleaving of two of them
would add nothing, since neither reads what the other writes.

### Correspondence

*SessionRegistry.* `players` is the vector, in its order; `conn` is the
connection as RakNet sees it (`closing`: `CloseConnection` was called here and
no notice will come); `srv` says what the server thread has looked up and is
about to do in the critical section. Everything between `EnterCritical` and
`LeaveCritical` is one action, because every other access of the module takes
the same section. A guid connects once: RakNet draws it anew for each run of a
client. A packet of the wrong size closes the connection and is handled all
the same, as the code does: as any hardware id, or as the empty name. A
well-formed packet with the empty name leaves the connection open.

*PlayerCheck.* The clock counts modulo `W`; the subtraction is the unsigned one
of the code. `silence` and `fresh` observe what the code cannot know. The
server thread is shut out during the walk only.

*PlayerLookup.* `found` is the moment after `LeaveCritical`; the copy is two
reads, guid and name. A write in between gives any value (`torn`); beyond the
end of the vector the copy may be anything.

*HwidFile, BanStore.* Each `WritePrivateProfileString` and each read of a key is
a step. A stop of the process is a step, and the files stay.

*LoginEffects.* A handle is the name of the mutex it is open on, and a session
whose mutex could not be created has none. `players` is the vector, because the
refusal of a login takes the first session with the name (`Found`): when several
sessions of an account were allowed and no longer are, the first of them can
still log in again. `telling` is the test in front of each call, of settings
that the configuration thread changes. A call under way is counted, and any of
them may get through next (`Deliver`) or fail (`Lose`); `CreateThread` may have
failed to start it (the second branch of `Notify`). `muddled` is what the site
may be wrong about, and a lone call that is true takes the account out again.

*PingVerify.* Time is in seconds, as in `srand(time(0))`: the challenge is named
by the second it was drawn in. One session is followed: the challenge that the
answer is compared with comes from a copy made after `LeaveCritical`, but the
comparing thread is the only one that writes challenges, and what the erasure of
another session does to a copy is in `PlayerLookup`.

*Screenshot.* `lastSS` of the code is only subtracted from the clock, so the
variable holds the difference, modulo `ClockWrap`; that of the page's copy ages
too. The setting is read twice inside the critical section, once in `Refresh`
and once in `IsDue`, with `Configure` in between. The page has a step for each
of copy, test, store and send. `asked`, `steady` and `crossed` observe.

*MasterServer, MasterData.* Names of customers are of three kinds: those that
parse as an element with all attributes, those that lack one, which is a null
pointer for `std::string`, and the others. An entry of `C_DATA` is named by the
answer it came from. What a page takes from a vector while it is filled is
undefined, and marked `met`.

*ServerStart.* `Threads` is the order of `wWinMain`. The program relies on
pauses: a thread that was not ready when the next one was created makes `late`
true, and so does a settings thread that begins its second round, ten seconds
on, before the server thread has taken the port. The port may be out of range
in the ini file, and is corrected after it was stored.

*ServedLists.* A file is a name; whether it can be hashed is decided anew each
time. `good` is the set of what could be, from which `loaded` says what the
list must be.

*ThreadGuard.* The vector is a set, for only membership is asked. A search
during a push, or before the creation has returned, may find anything; its
verdict is `early`. `ghp_CreateThread` does not ask who calls it, so a thread
that did not come through the hook may create one through it: that one is
`planted`, and known to the loader like the game's own.

*CorePass.* A program is what the comparison finds in its file and its memory,
and stays so: one that changes after it was scanned is not followed. `scanned` keeps ids, `pinned` those that handles of `HiddenScan`
hold. `fate` says how a process was dealt with: `seen`, `missed` (it could not
be opened and its id is remembered all the same), `inherited` (it got the id of
a scanned one). `Error` ends the pass; what happens then is `ClientShutdown`.

*PacketCodec.* Bytes are 0 .. 255, the key tables are those of the code. TLC's
integers have 31 bits and the code's words 32, so `TimesMod` takes products in
halves, modulo `2^32` as the code does. `^` is taken half by half down to the
bit (`Xor32` .. `Xor1`), and `EncXor32`, whose byte depends on the one before
it as already encoded, is a recursive function on the length. A block is its 88
bits, which makes `HashBuffer` a subsequence. Only the two tables that the client's own direction
uses occur; nothing in the program calls the functions of the other one.

*SerialPacket.* One call of `send`, of a packet of either login length or of
another one. The game and its server are external and use the same codec. A
serial may be replaced or taken back (`NoSerial`) between two calls; one that
changes while the hook reads it is not modelled, for GHPServer sends one per
connection.

*NetBox.* A read of `GameLogin` during a write gives any name.

*Whitelist.* A file opened for writing is shared with nobody and one opened for
reading with readers only, as in `ghp_FILE.cpp`; `CheatWhitelist.bin` is named
by what it holds after each of the six writes.

*ClientShutdown.* Each statement of `ShutdownNETBox` is a step. The
`CreateThread` that starts the browser thread may fail, which nobody notices
(`Spawn`). A call through
the freed peer may crash or not, one through a null pointer crashes.

## 3. Runs

| Run | Question | Bounds |
|---|---|---|
| `registry_strict` | sessions, files and bans under strict settings | 2 clients, 2 accounts, 2 machines, 2 ids each, 1 address |
| `registry_switching` | refinement of `ExclusiveClaims` while settings switch; closed sessions are reclaimed | 2 clients, 2 accounts, 1 machine |
| `check_walk` | eviction | 3 sessions, W = 12, timeout 2, lag 2 |
| `lookup_hit` | which copies of a session may go wrong | 2 clients, 2 accounts, 2 readers |
| `server_files` | ids, bans and whitelist in files, with faults | 3 ids, 5 keys, 2 faults; 1 machine, 3 records, 1 fault; 2 texts |
| `effects_site` | mutex handles and the site | 2 clients, 2 accounts, 3 handles, 1 equal call under way |
| `ping_screenshot` | a live client is heard; distance of screenshots | period 3, delay 1, W = 13; spacing 4, minute 6, intervals 0, 1, 5, page 1, clock 28 |
| `netbox_handover` | names reach the server | 3 ids, 2 accounts |
| `netbox_ids` | *violated*: all ids are sent | 5 ids |
| `server_workers` | start, customer's data, served lists | all 8 threads; 2 customers, 2 references, 3 names; 3 directories of up to 3 files |
| `client_guards` | loader, scan, login packet | 3 thread ids; 2 process ids, 3 programs, 2 pieces of memory, 1 file; 2 lengths and another, 3 names, 2 counters, 2 fillings |
| `shutdown_race` | several threads stop at once | polling and scanning thread raise, the game quits |

Why the bounds are enough for what they are to show:

- a claim conflict needs two sessions and one resource; a second account shows
  re-logins, and a second id per machine the search in lists;
- in `check_walk` `MaxSilence` is below `W` with three sessions, so the
  clock wraps while sessions are silent, and the bound of `SilenceBounded`
  (`Timeout + MaxLag * (n + 1)`) is reached: with one less it fails. Four
  sessions (W = 14, 6.9 million states) give the same answer in two minutes;
- `HwidFile` needs two keys for a gap and a third to lie behind it;
- two texts show that an old list is not taken for the new one;
- `ping_screenshot` has the largest whole delay with `2 * MaxDelay < Period`;
  with the next one `LiveIsHeard` says nothing, because an answer can be
  overtaken by the next ping. The numbers are scaled down (15 s to 4, a minute
  to 6) with their order kept: a page is shorter than the spacing, the spacing
  than an interval. Interval 1 fits below the clock's wrap, interval 5 has a
  product that wraps (30 modulo 28), and 0 is off;
- in `server_workers` a directory without a library and one with a file that is
  neither program nor library show a list that shrinks, grows and is filtered;
  two references show a server that is not in the database;
- in `client_guards` two ids are enough for a thread or a process that gets the
  id of another one while a third party acts; of two pieces of memory the first
  may be altered and the second may not, which is where the order matters; the
  names are empty, short and of full length, and the counters and fillings set
  and clear the high bits of the words that are multiplied;
- three handles on a mutex let one of two sessions of an account log in again;
- `MaxCalls = 1` still lets "1" and "0" of an account be under way together;
- in `shutdown_race` two threads raise and a third stops without an error,
  which makes five threads in `Stop`.

Symmetry is used in the runs without liveness, over sets of model values that
the modules treat alike (`Interchangeable`). Every run checks deadlock, but
those of `NetBox`, `ClientShutdown`, `ServerWorkers` and `ClientWorkers`, whose
programs end. Every property has a mutant of the code, in `PROJECT.json`, under
which its run fails.

A run checks the type invariant of `SessionRegistry`. In the other modules
`TypeOK` (`FileTypeOK`, `BanTypeOK`, ...) documents the variables and no run
spends time on it; it is part of the inductive invariants of section 5, with
which it is proved.

### What the code does otherwise than it says

`netbox_ids`: half of the hardware ids are sent. The loop at
`ghp_NETBOX.cpp:60` compares its counter with the list it shortens; the comment
before it says that the ids are sent.

The limits that the passing properties name are worth knowing too:

- a looked-up session may be another one (`WrongOnlyIfHit`): `GetPlayerByGUID`
  returns `players[i]` after `LeaveCritical` (`ServerCore.cpp:460`). An erasure
  at or before the slot found, or a write during the copy, gives the caller a
  player it did not ask for, whom it bans or disconnects;
- a lost write hides all later ids of an account (`SavedIsReadable`):
  `SaveHWID` writes the count first (`ServerCore.cpp:332`), and readers stop at
  an empty key;
- a live session is evicted when its ping is stored between the reading of the
  clock and the lock (`EvictionHasReason`, `fresh`; `ServerCore.cpp:674`);
- a second login of a session leaks a handle, which keeps the mutex of an
  account in existence (`HandlesAreAccounted`, `leaked`);
- a login refused or a session renamed, calls at once, and calls lost or
  switched off leave the site wrong about an account until the next lone call
  about it that is true and gets through (`SiteKnows`, `muddled`; nothing
  repeats a call, `ServerCore.cpp:33`);
- if the polling thread raises an error and the thread that shows the page
  cannot be created, the polling thread terminates itself and the game goes on
  without its connection (`ErrorEndsProcess`, `Stranded`; `ghp_CORE.cpp:482`);
- a record counts as a ban from its first key on (`OkIsComplete`);
- during a refresh of the whitelist a client may be told "0", which means that
  there is none, and a refresh that meets a download leaves a half-made file,
  because `remove` fails for the reason the write failed (`QuietAnswer`,
  `RefreshWorks`; `main.cpp:581`, `main.cpp:1086`);
- the page's fifteen seconds do not count an automatic request that crosses it
  (`PageWaits`, `crossed`; `main.cpp:307`), and an interval of 71583 minutes or
  more wraps to another one (`AutoWaits`, `Fits`; `ServerCore.cpp:601`);
- an answer of the master server that lacks an attribute ends the server
  (`PushData`; `main.cpp:916`);
- a connection that is admitted while a list is assigned may get anything
  (`ServedWhole`, `met`; `main.cpp:976`, `main.cpp:1041`), and one admitted
  earlier never gets the later list;
- a cheat is not found if its process could not be opened once, got the id of a
  scanned process, or was scanned before the server's entry came
  (`ScanCovers`; `ghp_SCAN.cpp:204`); altered memory is not found behind
  altered memory that the whitelist admits (`ghp_MEMORY_PROTECTION.cpp:105`);
- a thread of foreign origin may load libraries if it has the id of a dead
  thread that was created through the hook, and so may any thread that it
  creates itself from inside the process, because the hook registers whatever is
  created through it; and two creations at once may lose an id, for good
  (`OwnThreadLoads`, `used`, `planted`, `collided`; `ghp_HOOK.cpp:189`).

## 4. Fairness

- `registry_switching` (`ClosedIsReclaimed`): weak fairness of `RemoveSilent`
  for a connection that is not open. The check thread loops forever with a
  sleep of a second, and a session whose connection is closed gets no more
  answers to challenges, so it is overdue from some time on; `PlayerCheck`
  (`SilenceBounded`) shows that an overdue session is erased after a bounded
  time.
- `netbox_handover` (`NameIsTold`): weak fairness of the polling loop and of
  the end of a write that the game thread has begun. Both threads take no lock.
- `shutdown_race` (`ErrorEndsProcess`): weak fairness of the steps of the
  threads in `Error`, `ErrorBrowser` or `Stop`, taken together: Windows
  schedules threads that are ready, and none of these waits for another.
  Fairness does not help where the browser thread was never created: the
  property then ends in `Stranded`, which the run reaches.

No other property assumes fairness. `LiveIsHeard`, `SilenceBounded` and
`AutoAsks` say that something happens in time without it: the clock may not
pass the bound (`MaxDelay`, `MaxLag`) of a step that is due.

## 5. Proofs

TLAPS proves 37 of the 40 properties that the passing runs check, and with them
the type invariants, for every value of the constants that the named
assumptions admit. A theorem `T` is of the form `Spec => []P` for an invariant
`P` and `Spec => P` for an action property or a refinement.

| Module | Theorem | Property |
|---|---|---|
| `SessionRegistry_proofs` | `TypeCorrect` | `TypeOK` |
| | `RegistryUnique` | `UniqueGuid` |
| | `OneSessionPerAccount` | `SingleSession` |
| | `OneSessionPerMachine` | `SingleMachine` |
| | `NoUnsupervisedConnection` | `OpenIsSupervised` |
| | `FilesCoverSessions` | `SavedCoversSession` |
| | `BannedStaysOut` | `BanKeepsOut` |
| | `ImplementsAccountClaims`, `ImplementsMachineClaims` | `KeepsAccountClaims`, `KeepsMachineClaims` |
| `PlayerCheck_proofs` | `TypeCorrect` | - |
| | `SilentAreErased` | `SilenceBounded` |
| | `ErasureHasReason` | `EvictionHasReason` |
| `Login_proofs` | `TypeCorrect` (of `LoginEffects`) | - |
| | `MutexesAreAccounted` | `HandlesAreAccounted` |
| | `SiteIsTold` | `SiteKnows` |
| | `EncodedTurns` | - |
| | `LoginIsDelivered` | `LoginArrives` |
| `ServerFiles_proofs` | `SavedCanBeRead`, `IdsAreListedOnce` | `SavedIsReadable`, `ListedOnce` |
| | `ListOnlyGrows`, `ReadersMissNothing` | `OnlyGrows`, `ReaderMissesNothing` |
| | `BlockAllIsThorough`, `RecordsHaveOneAuthor`, `OkMeansComplete` | `BlockAllBansAll`, `OneAuthor`, `OkIsComplete` |
| | `RefreshRepairs`, `QuietDownloadWorks` | `RefreshWorks`, `QuietAnswer` |
| `ServerWorkers_proofs` | `ServerStartsInOrder` | `StartIsOrdered` |
| | `PagesAreWhole` | `PageIsWhole` |
| | `ListsAreServedWhole` | `ServedWhole` |
| `SessionCopies_proofs` | `LookupIsRight`, `BansReachTheAsked` | `WrongOnlyIfHit`, `BanIsForAsked` |
| | `LiveClientsAreHeard` | `LiveIsHeard` |
| | `PagesAreSpaced`, `AutomaticAreSpaced`, `AutomaticArrive` | `PageWaits`, `AutoWaits`, `AutoAsks` |
| `ClientThreads_proofs` | `GameThreadsLoad` | `OwnThreadLoads` |
| | `PassCovers` | `ScanCovers` |
| | `NameIsHandedOver` | `ToldIsCurrent` |
| | `HalfOfIdsAreSent`, `FewIdsAreSent` | - |
| | `BoxTypeCorrect` | - |
| | `PageIsOfOneError`, `LoneStopLives` | `ShownWasRaised`, `LoneStopIsSafe` |

`ServerFiles_proofs` and `ServerWorkers_proofs` state their theorems for the
composed specifications that the runs check, `ClientThreads_proofs` for
`GuardSpec`, `PassSpec`, `BoxSpec` and the `Spec` of `ClientShutdown`,
`Login_proofs` for `PacketSpec` and the `Spec` of `LoginEffects`,
`SessionCopies_proofs` for the `Spec` of `PlayerLookup` and for `SSSpec`. Each
proof has a lemma for the initial states, one for each action or each shape of
change, and one that puts them together by the disjuncts of the next-state
relation.

### The inductive invariants

None of the properties is inductive as it stands. What each needs besides:

*Registry.* `IInv` is the conjunction of the six state properties
and `Fresh`: a guid whose connection is new, or being admitted, has no session.
`UniqueGuid` is not inductive without it, for `AddPlayer` appends without
looking; `OpenIsSupervised` is not inductive without `UniqueGuid`, for a second
slot would survive an erasure. `SingleSession` rests on the test that
`AssignUserID` repeats inside the critical section. It looks at the *first*
session with the name only (`UserIDTaken`); by the invariant there is no more
than one, so the first is the only one that could be in the way. Without that
invariant (several sessions allowed) the refinement needs
`FreeNameHasNoHolder`: if the asking session has not the name already and the
first session with it is not another, then there is none (`LeastElement`). The proof has one
step per action and a lemma for each shape of change (append, update in place,
removal, for which `SequenceFacts` says where the elements of `RemoveAt` come
from).

The two refinements map `claims` to the pairs of guid and account, or guid and
machine, and `exclusive` to the setting that forbids several sessions. Each
step is a Claim, Switch or Release, a Reconfigure, or leaves both unchanged. A
session claims at most one machine more in a step, for `AssignHwid` adds one id
to one session, and `RemoveSilent` releases all that a session has.

*Check thread.* The argument of `SilenceBounded` is `SilenceBySlot`: a session
in slot `i` can have been passed over by `Cardinality(Guids) - i` walks since it
was due, because the walk skips a slot only after it erased one below, which
moves every later session a slot forward. That needs to know where in the
vector the walk is (`Overdue`). The wrap of the clock is dealt with by
`PingsAge` and `NowAges`: a stored time and its age add up to the clock or to
one turn more, and `MaxSilence < W` tells which; the unsigned difference of the
code is then the real one, or nearly `W` for a ping younger than the reading of
the clock (`FreshIsYoung`), which is the exception of `EvictionHasReason`.

*Login effects.* A session with a handle has the name of its mutex
(`MutexFollowsName`), and then the handles of a mutex are counted by changing
one session at a time. The bound on leaked handles follows from the count of the
open ones, so the type invariant is proved together with `HandlesAreAccounted`.
Neither depends on who is refused. `SiteKnows` needs what a call under way is
going to tell the site (`TruthIsTold`): every notification keeps it, whichever
handler makes it (`NotifyTellsTruth`), because an account that comes online or
goes offline in a step is muddled unless a lone call says so.

*Files.* `FileIInv`: a write goes to the key behind `count` or to the one that
`count` was just raised to (`SaveInPlace`, `EmptyBehind`), so no key before the
first gap is ever written again; what is to be written is not yet among them
(`NewIsNew`); a reader has all it needs up to some key that has not moved since
(`ReaderOnTrack`). `BanIInv`: the status is the first key of a record
(`StatusFirst`), so that a thread that found it absent writes all the others,
alone or overlapping (`WrittenAlone`). `ListIInv`: a refresh writes only for a
text with entries, and while the web thread reads, the file stays
(`SeenIsThere`).

*Threads of the server.* `StartIInv` says what each thread finds prepared by
the former ones if none was late (`Prepared`). `DataIInv` says what `C_DATA`
holds at each point of its replacement, and that a page that met none finds its
footer where its header was (`HeaderStands`). `ServedIInv`: a load hashes a file
once, and what was sent is the beginning of the vector (`SentIsPrefix`).

*Copies of a session.* `LookIInv`: the slot of a reader that was not hit holds
the session asked for, and the name copied is one that this session has had
(`names`); only the server thread assigns names, so its own copies are fresh.
`PingIInv` lists the five places at which the exchange of a ping can stand
while a ping and its challenge together take less than a period: at most the
answer to the ping before is still in front of it. The ages of the messages
bound the silence in each of them, and make a challenge differ from the one it
replaces although seconds wrap (`2 * Unheard < W`). `RequestIInv`: the difference kept
in `lastSS` is the time since the last request, give or take a page, unless it
has wrapped.

*Login packet.* `EncodedTurns` says that what the client's end of the codec
makes of bytes in whole blocks, whatever they are, the server's end turns back.
The argument goes down and up again:

- `^` is associative and its own inverse, for bits by cases and for 2 to 32 bits
  half by half (`Xor1Laws` .. `Xor32Laws`);
- `TimesMod` is the remainder of the product, in spite of the halves
  (`TimesModIsProduct`); the two key tables are computed (`ClientKeyValues`,
  `ServerKeyValues`): their masks are the same, their factors for a block's four
  words are inverse to each other modulo the key, and no value of the chain is
  cut by its field of 18 bits (`KeysMatch`);
- a field is found where it was packed (`BlockHolds`), and the masks are taken
  off from the last word to the first (`BlockTurns`), the reverse order of the
  chain;
- the checksum agrees, so `DecryptC3` never stops (`PacketTurns`);
- `DecXor32` needs, at every byte, the encoded byte before it. That `EncXor32`
  encodes byte by byte is an induction over the length, done with the least
  length at which it would fail (`ChainExists`, `XorTurns`), since the induction
  theorems of the library cannot be used.

`PacketIInv` then says what is on the wire: before the hook what the game wrote
and behind it what the server expects, each encoded; `LoginKept` says that the
serial lies behind the name, in packets of either length.

*Ids of the machine.* `IdsIInv`: the ids sent and those still listed make up the
list of the machine, and the counter of the loop is the number of those sent.
The loop therefore ends as soon as no more ids are left than it has sent
(`HalfOfIdsSent`); by `FewIdsAreSent` a machine with at most one id is served as
the comment says.

*Client.* `GuardIInv`: a thread created through the hook is known, or its
creation has not returned, until two ids were pushed at once. `PassIInv`: every process listed
is still to do, at hand or scanned; the one being compared is held open, so its
id is not used again; and under a scanned id runs nothing that the pass had to
stop, but for the exceptions of `ScanCovers`. `HandoverIInv`: from the
comparison that finds a new name until it is remembered, the game's name stays
or the hand-over counts as raced. `EndIInv`: both error variables hold the error
that is yet to be shown (`NotedIsWhole`), and a thread alone in
`ShutdownNETBox` has cleared `ConnectionActive` before it touches the peer
(`OneShutsDown`).

TLC checked each of these on the instance of its run (`EndIInv` with two of the
three raisers) before it was proved.

### Assumptions

Each module states its own, and TLC evaluates them in the runs. Beyond the
types of constants and values that must differ (`NoUser`, `NoHwid`, ...):

- `Guids` is finite (`CheckAssumption`, `EffectsAssumption`), as is `HwidKinds`
  (`BanAssumption`): sessions and the ids of a player are counted;
- `MaxSilence < W` (`CheckAssumption`): no session is silent for a whole turn of
  `timeGetTime`, 49 days, if the timeout is 30 seconds;
- `2 * Unheard < W` (`PingAssumption`) for the second that a challenge is named
  by, and `Spacing < ClockWrap` (`ScreenshotAssumption`): 15 seconds against 49
  days;
- a listing of a directory names no file twice (`ListingsAssumption`), which
  `FindNextFileW` and the full path see to;
- names and serials are sequences of 10 and 16 bytes, and counters and fillings
  are bytes (`PacketAssumption`);
- process ids are numbers (`PassAssumption`), because `0` marks none;
- raisers are the polling thread, the scanning thread and the game's
  (`ShutdownAssumption`), the threads that call `Error`.

No theorem assumes anything else about behaviours than what the specification
says. Bounds of time are part of it, not hypotheses: the clock of
`PlayerCheck`, `PingVerify` and `Screenshot` does not pass the bound of a step
that is due. Where a property has a proviso (`2 * MaxDelay < Period`, `Fits`,
`~late`, `~met`, ...) the theorem has the same one, and the run reaches states
that satisfy it.

### Only model-checked

- `ClosedIsReclaimed`, `NameIsTold`, `ErrorEndsProcess`: liveness under
  fairness, for which the provers have no rule. The safety that their arguments
  rest on is proved: `SilenceBounded` for the first, `ToldIsCurrent` for the
  second.
- `AllIdsSent` is false, as `netbox_ids` shows; `HalfOfIdsAreSent` says what is
  true instead.

No module declares a recursive operator, and none uses `Bitwise`.

## 6. Not modelled

- Pages, logs, wording and language strings; authentication of pages.
- The picture of a screenshot, from `GetScreenshot` to its file: no later
  decision of the program reads it.
- The comparison of a library with known cheats in `ghp_LdrLoadDll`, which is
  that of `ScanThisProcess` over another list, and the installation of the
  hooks by Detours.
- The checks of `Start` before the threads run: a sequence, each of which ends
  in `Error`.
- Buffers (`DataChunk`), structured files, licences, PolarSSL, cURL: calls of
  libraries and manual memory, without state that two steps share. The writes
  that others see are in `Whitelist`.
- `Enc2`, `Dec2` and the functions that use them: nothing in the program calls
  them.
- `LicGen`, `DBGen`, `GHPUpdater`, `Hackblocker`, run by hand.

By lines most of the repository is vendored or data: SQLite, mongoose, the
DirectX headers, the codec of the pictures, the tables of `DBGen`. None of it is
modelled, but by how the program uses it.

## 7. Plan

Every safety and action property that the passing runs check is proved. What
could be stated besides: that the walk of `PlayerCheck` implements the step that
`SessionRegistry` takes as `RemoveSilent`. As `RemoveSilent` may take any session
at any time, such a refinement would say less than `EvictionHasReason` does.

What is left to model: licence blocks and `DataChunk` as pure definitions
against a reference definition, if a property of theirs turns out to be worth
it.
