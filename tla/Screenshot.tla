----------------------------- MODULE Screenshot -----------------------------
(***************************************************************************)
(* When the server asks a client for a screenshot.  Two threads ask:       *)
(*   - the server thread, when an answer to a challenge refreshes the      *)
(*     session (SetPlayerPingByGUID) and the last request is older than    *)
(*     the setting auto_ss_interval, in minutes;                           *)
(*   - the web thread, when the administrator asks for one, and the last   *)
(*     request is older than fifteen seconds in the copy of the session    *)
(*     that the page began with.                                           *)
(*                                                                         *)
(* The configuration thread changes the setting at any moment, also        *)
(* between the two reads of it inside the critical section.  The ticks of  *)
(* timeGetTime wrap, and so does the product of the setting and a minute.  *)
(* lastSS is only ever subtracted from the clock: the difference stands    *)
(* for it, in the session and in the copy.                                 *)
(*                                                                         *)
(* "asked", "steady" and "crossed" are history variables.                  *)
(***************************************************************************)
EXTENDS PingVerify

CONSTANTS
    Spacing,    \* seconds between two requests of the page: 15 in the code
    Minute,     \* seconds in the unit of the setting: 60 in the code
    Intervals,  \* values of auto_ss_interval; 0 switches it off
    MaxPage,    \* bound: seconds from the copy of the session to the request
    ClockWrap   \* bound: timeGetTime counts modulo ClockWrap seconds

ASSUME ScreenshotAssumption ==
    /\ Spacing \in Nat /\ Minute \in Nat \ {0} /\ MaxPage \in Nat
    /\ ClockWrap \in Nat /\ Spacing < ClockWrap
    /\ Intervals \subseteq Nat

VARIABLES
    interval,   \* auto_ss_interval
    lastSS,     \* timeGetTime() - lastSS of the session
    section,    \* the server thread is about to read the setting again
    page,       \* the page: lastSS in its copy, the seconds it has run
    asked,      \* seconds since the last request or the start of the session
    steady,     \* the setting has not changed since lastSS was written
    crossed     \* an automatic request was sent since the page's copy

ssVars == <<interval, lastSS, section, page, asked, steady, crossed>>
allVars == <<pingVars, ssVars>>

SSTypeOK ==
    /\ PingTypeOK
    /\ interval \in Intervals
    /\ lastSS \in 0 .. (ClockWrap - 1)
    /\ section \in BOOLEAN
    /\ page \in [pc : {"idle", "copied", "store", "send"},
                 lastSS : 0 .. (ClockWrap - 1), ran : 0 .. MaxPage]
    /\ asked \in 0 .. ClockWrap
    /\ steady \in BOOLEAN /\ crossed \in BOOLEAN

NoPage == [pc |-> "idle", lastSS |-> 0, ran |-> 0]

\* AddPlayer: lastSS = lastPing.
SSInit ==
    /\ PingInit
    /\ interval \in Intervals
    /\ lastSS = 0 /\ asked = 0
    /\ section = FALSE
    /\ page = NoPage
    /\ steady = TRUE /\ crossed = FALSE

-----------------------------------------------------------------------------
Older32(age) == (age + 1) % ClockWrap

\* A second passes; not inside the critical section, and a page is fast.
Pass ==
    /\ Tick
    /\ ~section
    /\ page.pc = "idle" \/ page.ran < MaxPage
    /\ lastSS' = Older32(lastSS)
    /\ page' = IF page.pc = "idle" THEN page
               ELSE [page EXCEPT !.lastSS = Older32(@), !.ran = @ + 1]
    /\ asked' = IF asked = ClockWrap THEN asked ELSE asked + 1
    /\ UNCHANGED <<interval, section, steady, crossed>>

\* The steps of the exchange that do not touch lastSS.
Exchange ==
    /\ SendPing \/ ClientVerify \/ (~section /\ ServerPing)
    /\ UNCHANGED ssVars

-----------------------------------------------------------------------------
(* The server thread: SetPlayerPingByGUID. *)

\* The session is refreshed.  Is the setting positive?
Refresh ==
    /\ ~section
    /\ ServerVerifyRet
    /\ section' = (AnswerMatches /\ interval > 0)
    /\ UNCHANGED <<interval, lastSS, page, asked, steady, crossed>>

\* Mutant: minutes are taken for seconds.
IsDueSoon == lastSS > interval

\* lastPing - lastSS > auto_ss_interval * 60000, both in a DWORD.
IsDue == lastSS > (interval * Minute) % ClockWrap

\* Mutant: lastSS is written at every answer.
AskOrNotMoves ==
    /\ section
    /\ section' = FALSE
    /\ lastSS' = 0
    /\ IF IsDue
       THEN asked' = 0 /\ steady' = TRUE /\ crossed' = (page.pc # "idle")
       ELSE UNCHANGED <<asked, steady, crossed>>
    /\ UNCHANGED <<pingVars, interval, page>>

\* The setting is read again; a request that is due is sent at once.
AskOrNot ==
    /\ section
    /\ section' = FALSE
    /\ IF IsDue
       THEN /\ lastSS' = 0 /\ asked' = 0 /\ steady' = TRUE
            /\ crossed' = (page.pc # "idle")
       ELSE UNCHANGED <<lastSS, asked, steady, crossed>>
    /\ UNCHANGED <<pingVars, interval, page>>

-----------------------------------------------------------------------------
(* The web thread, which serves one page at a time, and the settings. *)

\* The page begins with a copy of the session (GetPlayerByGUID).
OpenPage ==
    /\ page.pc = "idle"
    /\ page' = [pc |-> "copied", lastSS |-> lastSS, ran |-> 0]
    /\ UNCHANGED <<pingVars, interval, lastSS, section, asked, steady, crossed>>

\* Mutant: the comparison is turned round.
CheckPageTurned ==
    /\ page.pc = "copied"
    /\ page' = IF page.lastSS < Spacing THEN [page EXCEPT !.pc = "store"] ELSE NoPage
    /\ crossed' = (crossed /\ page'.pc # "idle")
    /\ UNCHANGED <<pingVars, interval, lastSS, section, asked, steady>>

\* A_REQSS: "Wait 15 seconds before requesting another SS!"
CheckPage ==
    /\ page.pc = "copied"
    /\ page' = IF page.lastSS > Spacing THEN [page EXCEPT !.pc = "store"] ELSE NoPage
    /\ crossed' = (crossed /\ page'.pc # "idle")
    /\ UNCHANGED <<pingVars, interval, lastSS, section, asked, steady>>

\* SetPlayerLastSSByGUID, which takes the critical section.
StorePage ==
    /\ page.pc = "store"
    /\ ~section
    /\ lastSS' = 0 /\ steady' = TRUE
    /\ page' = [page EXCEPT !.pc = "send"]
    /\ UNCHANGED <<pingVars, interval, section, asked, crossed>>

\* The request is sent outside of it.
SendPage ==
    /\ page.pc = "send"
    /\ page' = NoPage
    /\ asked' = 0 /\ crossed' = FALSE
    /\ UNCHANGED <<pingVars, interval, lastSS, section, steady>>

\* ConfigWorkerThread, every ten seconds.
Configure(i) ==
    /\ i # interval
    /\ interval' = i
    /\ steady' = FALSE
    /\ UNCHANGED <<pingVars, lastSS, section, page, asked, crossed>>

SSNext ==
    \/ Pass \/ Exchange
    \/ Refresh \/ AskOrNot
    \/ OpenPage \/ CheckPage \/ StorePage \/ SendPage
    \/ \E i \in Intervals : Configure(i)

SSSpec == SSInit /\ [][SSNext]_allVars

-----------------------------------------------------------------------------
\* The interval in seconds, if its product and the time that may pass until it
\* is noticed stay below the wrap of the clock.
Fits(i) == i > 0 /\ i * Minute + Unheard + MaxPage < ClockWrap

\* The page asks at most once in fifteen seconds, less the time that a page
\* takes, unless an automatic request crosses it: the page compares the clock
\* with a copy that does not know of it.
PageWaits ==
    [][page.pc = "send" /\ page'.pc = "idle" /\ ~crossed => asked + MaxPage > Spacing]_allVars

\* Two requests, of which the later is automatic, are an interval apart, less
\* the time that a page takes from writing lastSS to sending.  Not so if the
\* setting is so large that its product wraps, and not if it is switched off
\* between its two reads, when any request is due.
AutoWaits ==
    [][section /\ ~section' /\ lastSS' # lastSS /\ Fits(interval)
        => asked + MaxPage > interval * Minute]_allVars

\* With a steady setting a live client on a fast enough network is asked again
\* an interval later, as soon as its next answer arrives; a page that has
\* written lastSS and is about to send takes the place of that request.
AutoAsks ==
    2 * MaxDelay < Period /\ steady /\ Fits(interval) /\ page.pc # "send"
        => asked <= interval * Minute + Unheard + MaxPage
=============================================================================
