----------------------------- MODULE Watchdogs -----------------------------
(***************************************************************************)
(* The monitoring of a game server: a goroutine that runs three watchdogs  *)
(* one after the other whenever its ticker ticks, while the server starts, *)
(* is played on, crashes and is started again beside it.                   *)
(*                                                                         *)
(* A check that waits for RCON takes any time; the ticker keeps one tick   *)
(* for it and drops the others, so that watchID falls behind the clock.    *)
(***************************************************************************)
EXTENDS Naturals

CONSTANTS
    OnlineEvery,    \* ticks between dials of a server that is online (10 in the code)
    OfflineEvery,   \* and of one that is not (3)
    Minute,         \* ticks between looks at the players (60)
    TimeoutMinutes, \* inactivity that stops the server, 0 for none
    InitCommands,   \* ops and entries of the whitelist
    MaxNow,         \* bound on the clock
    MaxWatchFaults  \* bound on crashes of the server and on commands that fail

ASSUME WatchAssumption ==
    /\ {TimeoutMinutes, InitCommands, MaxNow, MaxWatchFaults} \subseteq Nat
    /\ {OnlineEvery, OfflineEvery, Minute} \subseteq Nat \ {0}

VARIABLES
    now,          \* seconds since the goroutine began
    tick,         \* the ticker's channel holds a tick
    check,        \* what the goroutine does: "wait", a watchdog, "report" or "over"
    watchID,
    online,       \* status.Online
    shown,        \* prevOnline of the goroutine: what the page was told last
    liveOnline,   \* prevOnline of LivenessWatchdog
    initLeft,     \* commands OneTimeInitWatchdog has yet to run, or NotBegun
    lastActive,   \* lastActive of ActivenessWatchdog, or NotYet
    server,       \* "down", "up"
    players,      \* somebody plays
    lastPlay,     \* when a look at the players last saw one, or the server came online first
    stopped,      \* the watchdog stopped the server
    watchFaults

watchVars == <<now, tick, check, watchID, online, shown, liveOnline, initLeft, lastActive,
               server, players, lastPlay, stopped, watchFaults>>
gameVars == <<server, players>>

NotBegun == InitCommands + 1
NotYet == MaxNow + 1
Checks == {"wait", "liveness", "oneTimeInit", "commands", "activeness", "stop", "report", "over"}

WatchTypeOK ==
    /\ now \in 0..MaxNow /\ watchID \in 0..MaxNow
    /\ tick \in BOOLEAN /\ online \in BOOLEAN /\ shown \in BOOLEAN /\ liveOnline \in BOOLEAN
    /\ check \in Checks
    /\ initLeft \in 0..NotBegun
    /\ lastActive \in 0..NotYet /\ lastPlay \in 0..NotYet
    /\ server \in {"down", "up"} /\ players \in BOOLEAN
    /\ stopped \in BOOLEAN
    /\ watchFaults \in 0..MaxWatchFaults

WatchInit ==
    /\ now = 0 /\ tick = FALSE /\ check = "wait" /\ watchID = 0
    /\ online = FALSE /\ shown = FALSE /\ liveOnline = FALSE
    /\ initLeft = NotBegun /\ lastActive = NotYet
    /\ server = "down" /\ players = FALSE
    /\ lastPlay = NotYet /\ stopped = FALSE
    /\ watchFaults = 0

WatchFault == watchFaults < MaxWatchFaults /\ watchFaults' = watchFaults + 1

-----------------------------------------------------------------------------
(***************************************************************************)
(* The goroutine                                                           *)
(***************************************************************************)

\* A second passes; the channel of a ticker holds one tick.
SecondPasses ==
    /\ check # "over" /\ now < MaxNow
    /\ now' = now + 1 /\ tick' = TRUE
    /\ UNCHANGED <<check, watchID, online, shown, liveOnline, initLeft, lastActive, gameVars,
                   lastPlay, stopped, watchFaults>>

TickerFires ==
    /\ check = "wait" /\ tick
    /\ tick' = FALSE /\ online' = FALSE /\ check' = "liveness"
    /\ UNCHANGED <<now, watchID, shown, liveOnline, initLeft, lastActive, gameVars, lastPlay,
                   stopped, watchFaults>>

\* An event is sent when the status has changed; the next round is counted.
Report ==
    /\ check = "report"
    /\ shown' = online
    /\ watchID' = watchID + 1 /\ check' = "wait"
    /\ UNCHANGED <<now, tick, online, liveOnline, initLeft, lastActive, gameVars, lastPlay, stopped,
                   watchFaults>>

\* next(c) has returned and the context is cancelled.
LauncherReturns ==
    /\ check = "wait" /\ server = "down" /\ shown
    /\ check' = "over"
    /\ UNCHANGED <<now, tick, watchID, online, shown, liveOnline, initLeft, lastActive, gameVars,
                   lastPlay, stopped, watchFaults>>

-----------------------------------------------------------------------------
(***************************************************************************)
(* The watchdogs                                                           *)
(***************************************************************************)

LivenessCheck ==
    /\ check = "liveness"
    /\ liveOnline' = IF watchID % (IF liveOnline THEN OnlineEvery ELSE OfflineEvery) # 0
                     THEN liveOnline ELSE server = "up"
    /\ online' = liveOnline'
    /\ check' = "oneTimeInit"
    /\ UNCHANGED <<now, tick, watchID, shown, initLeft, lastActive, gameVars, lastPlay, stopped,
                   watchFaults>>

\* It is marked as done before the first command.
OneTimeInitCheck ==
    /\ check = "oneTimeInit"
    /\ IF online /\ initLeft = NotBegun
       THEN initLeft' = InitCommands /\ check' = "commands"
       ELSE check' = "activeness" /\ UNCHANGED initLeft
    /\ UNCHANGED <<now, tick, watchID, online, shown, liveOnline, lastActive, gameVars, lastPlay,
                   stopped, watchFaults>>

\* RconExecutor.Exec: a command waits for the server to accept the connection;
Answered == server = "up" /\ UNCHANGED watchFaults
\* it fails when the retries have taken 20 minutes, or by itself.
GivenUp == (server = "down" /\ UNCHANGED watchFaults) \/ WatchFault

\* AddToOp and AddToWhiteList; after an error the others are left out.  At the end the
\* seed is asked for, with or without success, and EventStarted is sent.
RunInitCommand ==
    /\ check = "commands"
    /\ \/ /\ initLeft > 0 /\ Answered
          /\ initLeft' = initLeft - 1 /\ UNCHANGED check
       \/ /\ initLeft > 0 /\ GivenUp
          /\ check' = "activeness" /\ UNCHANGED initLeft
       \/ /\ initLeft = 0
          /\ check' = "activeness" /\ UNCHANGED <<initLeft, watchFaults>>
    /\ UNCHANGED <<now, tick, watchID, online, shown, liveOnline, lastActive, gameVars, lastPlay,
                   stopped>>

\* Mutation of Inactive: whole minutes since the beginning, not since lastActive.
InactiveSinceStart(since) == watchID \div Minute > TimeoutMinutes

\* minutesSinceLastActive > timeoutMinutes.
Inactive(since) == (watchID - since) \div Minute > TimeoutMinutes

\* rcon.List: the names after the last colon of the answer.
List(anybody) == Answered /\ players = anybody

ActivenessCheck ==
    /\ check = "activeness"
    /\ IF TimeoutMinutes = 0 \/ ~online
       THEN check' = "report" /\ UNCHANGED <<lastActive, lastPlay, watchFaults>>
       ELSE LET since == IF lastActive = NotYet THEN watchID ELSE lastActive
                first == IF lastPlay = NotYet THEN now ELSE lastPlay
                looks == watchID % Minute = 0
            IN \/ /\ looks /\ List(TRUE)
                  /\ lastActive' = watchID /\ lastPlay' = now
                  /\ check' = "report"
               \/ /\ looks /\ List(FALSE)
                  /\ lastActive' = since /\ lastPlay' = first
                  /\ check' = IF Inactive(since) THEN "stop" ELSE "report"
               \/ /\ (~looks /\ UNCHANGED watchFaults) \/ (looks /\ GivenUp)
                  /\ lastActive' = since /\ lastPlay' = first
                  /\ check' = "report"
    /\ UNCHANGED <<now, tick, watchID, online, shown, liveOnline, initLeft, gameVars, stopped>>

\* rcon.Stop, a command of its own: players may have come since the list, and a server
\* that crashed since is stopped once it is back.
StopServer ==
    /\ check = "stop"
    /\ check' = "report"
    /\ \/ Answered /\ stopped' = TRUE /\ server' = "down" /\ players' = FALSE
       \/ GivenUp /\ UNCHANGED <<gameVars, stopped>>
    /\ UNCHANGED <<now, tick, watchID, online, shown, liveOnline, initLeft, lastActive, lastPlay>>

-----------------------------------------------------------------------------
(***************************************************************************)
(* The server and its players                                              *)
(***************************************************************************)

ServerComesUp ==
    /\ server = "down" /\ ~stopped /\ check # "over"
    /\ server' = "up" /\ UNCHANGED <<players, watchFaults>>
ServerCrashes ==
    /\ server = "up" /\ WatchFault
    /\ server' = "down" /\ players' = FALSE
PlayersComeAndGo ==
    /\ server = "up"
    /\ players' = ~players /\ UNCHANGED <<server, watchFaults>>
ServerStep ==
    /\ ServerComesUp \/ ServerCrashes \/ PlayersComeAndGo
    /\ UNCHANGED <<now, tick, check, watchID, online, shown, liveOnline, initLeft, lastActive,
                   lastPlay, stopped>>

WatchNext ==
    \/ SecondPasses \/ TickerFires \/ LivenessCheck \/ OneTimeInitCheck \/ RunInitCommand
    \/ ActivenessCheck \/ StopServer \/ Report \/ LauncherReturns \/ ServerStep

WatchSpec == WatchInit /\ [][WatchNext]_watchVars

-----------------------------------------------------------------------------

\* The server is stopped for inactivity no sooner than the configured minutes of the
\* clock after a look at the players saw one, or after the server came online: whatever
\* ticks the ticker dropped and kept while commands waited for the server.
StopsOnlyInactive ==
    [][~stopped /\ stopped' => now - lastPlay >= TimeoutMinutes * Minute]_watchVars
=============================================================================
