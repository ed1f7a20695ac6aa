------------------------- MODULE RunnerParts_proofs -------------------------
(***************************************************************************)
(* Theorems about the watchdogs, for every timing and any number of        *)
(* faults, about the extraction of a world, for every archive, and about   *)
(* the reader of the handshake, for every client and every division of     *)
(* its bytes into pieces.                                                  *)
(***************************************************************************)
EXTENDS Watchdogs, Extraction, Handshake, SequenceTheorems, WellFoundedInduction, TLAPS

\* The tick the ticker keeps, and the round that is under way, each one second that
\* watchID has yet to count.
Kept == IF tick THEN 1 ELSE 0
InRound == IF check \in {"wait", "over"} THEN 0 ELSE 1

\* watchID never runs ahead of the clock.
Behind == watchID + Kept + InRound <= now
\* lastActive is watchID of the time lastPlay of the clock: watchID gains on it by the
\* second that a kept tick repeats, and no more.
PlayKnown ==
    /\ (lastActive = NotYet) <=> (lastPlay = NotYet)
    /\ lastActive # NotYet =>
           /\ lastActive <= watchID /\ lastPlay <= now
           /\ watchID - lastActive + Kept <= now - lastPlay + 2 - InRound
\* The decision to stop is right when it is taken, and stays right.
StopEarned ==
    check = "stop" => lastPlay # NotYet /\ now - lastPlay >= TimeoutMinutes * Minute

WatchInv == WatchTypeOK /\ Behind /\ PlayKnown /\ StopEarned

-----------------------------------------------------------------------------

\* Whole minutes are at least so many seconds.
LEMMA WholeMinutes ==
    ASSUME NEW a \in Nat, NEW m \in Nat \ {0}, NEW t \in Nat, a \div m > t
    PROVE  a >= t * m + m
<1>1. PICK q \in Nat : q = a \div m
    OBVIOUS
<1>2. a \div m = q /\ q >= t + 1
    BY <1>1
<1>3. m * q <= a
    BY <1>1
<1>4. m * (t + 1) <= m * q
    BY <1>2
<1>5. m * (t + 1) = t * m + m
    OBVIOUS
<1>6. m * (t + 1) \in Nat /\ m * q \in Nat /\ t * m + m \in Nat
    OBVIOUS
<1> QED
    BY <1>3, <1>4, <1>5, <1>6

\* A check that is one second off.
LEMMA OneSecondOff ==
    ASSUME NEW w \in Nat, NEW a \in Nat, NEW t \in Nat, NEW p \in Nat, NEW n \in Nat,
           NEW m \in Nat, NEW k \in {0, 1},
           w - a >= n + m, m >= 1, w - a + k <= t - p + 2 - 1
    PROVE  t - p >= n
OBVIOUS

\* The ticker keeps a tick for the second that passes, unless it drops it.
LEMMA SecondStep == WatchInv /\ SecondPasses => WatchInv'
<1> SUFFICES ASSUME WatchInv, SecondPasses PROVE WatchInv'
    OBVIOUS
<1> USE WatchAssumption DEF NotYet, NotBegun, Checks
<1>1. WatchTypeOK'
    BY DEF WatchInv, WatchTypeOK, SecondPasses, gameVars
<1>2. Kept \in {0, 1} /\ Kept' = 1 /\ InRound' = InRound /\ InRound \in {0, 1}
    BY DEF Kept, InRound, SecondPasses
<1>3. Behind'
    BY <1>2 DEF WatchInv, WatchTypeOK, Behind, SecondPasses
<1>4. PlayKnown'
    BY <1>2 DEF WatchInv, WatchTypeOK, PlayKnown, SecondPasses
<1>5. StopEarned'
  <2>1. PICK n \in Nat : n = TimeoutMinutes * Minute
      OBVIOUS
  <2> QED
      BY <2>1 DEF WatchInv, WatchTypeOK, StopEarned, SecondPasses
<1> QED
    BY <1>1, <1>3, <1>4, <1>5 DEF WatchInv

\* The kept tick becomes the round under way.
LEMMA TickerStep == WatchInv /\ TickerFires => WatchInv'
<1> SUFFICES ASSUME WatchInv, TickerFires PROVE WatchInv'
    OBVIOUS
<1> USE WatchAssumption DEF NotYet, NotBegun, Checks
<1>1. WatchTypeOK'
    BY DEF WatchInv, WatchTypeOK, TickerFires, gameVars
<1>2. Kept = 1 /\ Kept' = 0 /\ InRound = 0 /\ InRound' = 1
    BY DEF Kept, InRound, TickerFires
<1>3. Behind'
    BY <1>2 DEF WatchInv, WatchTypeOK, Behind, TickerFires
<1>4. PlayKnown'
    BY <1>2 DEF WatchInv, WatchTypeOK, PlayKnown, TickerFires
<1>5. StopEarned'
    BY DEF StopEarned, TickerFires
<1> QED
    BY <1>1, <1>3, <1>4, <1>5 DEF WatchInv

\* The round is counted.
LEMMA ReportStep == WatchInv /\ Report => WatchInv'
<1> SUFFICES ASSUME WatchInv, Report PROVE WatchInv'
    OBVIOUS
<1> USE WatchAssumption DEF NotYet, NotBegun, Checks
<1>2. Kept \in {0, 1} /\ Kept' = Kept /\ InRound = 1 /\ InRound' = 0
    BY DEF Kept, InRound, Report
<1>3. watchID + 1 <= now /\ Behind'
    BY <1>2 DEF WatchInv, WatchTypeOK, Behind, Report
<1>1. WatchTypeOK'
    BY <1>3 DEF WatchInv, WatchTypeOK, Report, gameVars
<1>4. PlayKnown'
    BY <1>2 DEF WatchInv, WatchTypeOK, PlayKnown, Report
<1>5. StopEarned'
    BY DEF StopEarned, Report
<1> QED
    BY <1>1, <1>3, <1>4, <1>5 DEF WatchInv

\* Steps that leave the clock, the ticker and what is known of the players alone, and
\* do not decide to stop the server.
LEMMA OtherStep ==
    ASSUME WatchInv, WatchTypeOK',
           UNCHANGED <<now, tick, watchID, lastActive, lastPlay>>,
           InRound' = InRound,
           check' = "stop" => check = "stop"
    PROVE  WatchInv'
<1> USE WatchAssumption DEF NotYet
<1>1. Kept' = Kept /\ InRound' = InRound /\ Kept \in {0, 1} /\ InRound \in {0, 1}
    BY DEF Kept, InRound
<1>3. Behind'
    BY <1>1 DEF WatchInv, WatchTypeOK, Behind
<1>4. PlayKnown'
    BY <1>1 DEF WatchInv, WatchTypeOK, PlayKnown
<1>5. StopEarned'
    BY DEF WatchInv, StopEarned
<1> QED
    BY <1>3, <1>4, <1>5 DEF WatchInv

\* ActivenessWatchdog: what it learns of the players, and the decision to stop.
LEMMA ActivenessStep == WatchInv /\ ActivenessCheck => WatchInv'
<1> SUFFICES ASSUME WatchInv, ActivenessCheck PROVE WatchInv'
    OBVIOUS
<1> USE WatchAssumption DEF NotYet, NotBegun, Checks
<1> DEFINE since == IF lastActive = NotYet THEN watchID ELSE lastActive
           first == IF lastPlay = NotYet THEN now ELSE lastPlay
<1>0. /\ check = "activeness" /\ check' \in {"report", "stop"}
      /\ watchFaults' \in 0..MaxWatchFaults
      /\ UNCHANGED <<now, tick, watchID, online, shown, liveOnline, initLeft, server, players,
                     stopped>>
    BY DEF WatchInv, WatchTypeOK, ActivenessCheck, List, Answered, GivenUp, WatchFault, gameVars
<1>1. \/ UNCHANGED <<lastActive, lastPlay>> /\ check' = "report"
      \/ lastActive' = watchID /\ lastPlay' = now /\ check' = "report"
      \/ /\ lastActive' = since /\ lastPlay' = first
         /\ check' = "report" \/ (check' = "stop" /\ Inactive(since))
    BY DEF ActivenessCheck
<1>2. Kept' = Kept /\ Kept \in {0, 1} /\ InRound = 1 /\ InRound' = 1
    BY <1>0 DEF Kept, InRound
<1>3. Behind'
    BY <1>0, <1>2 DEF WatchInv, Behind
<1>4. PlayKnown' /\ lastActive' \in 0..NotYet /\ lastPlay' \in 0..NotYet
  <2>1. CASE UNCHANGED <<lastActive, lastPlay>>
      BY <1>0, <1>2, <2>1 DEF WatchInv, WatchTypeOK, PlayKnown
  <2>2. CASE lastActive' = watchID /\ lastPlay' = now
      BY <1>0, <1>2, <2>2 DEF WatchInv, WatchTypeOK, PlayKnown
  <2>3. CASE lastActive' = since /\ lastPlay' = first
    <3>1. CASE lastActive = NotYet
        BY <1>0, <1>2, <2>3, <3>1 DEF WatchInv, WatchTypeOK, PlayKnown
    <3>2. CASE lastActive # NotYet
        BY <1>0, <1>2, <2>3, <3>2 DEF WatchInv, WatchTypeOK, PlayKnown
    <3> QED
        BY <3>1, <3>2
  <2> QED
      BY <1>1, <2>1, <2>2, <2>3
<1>5. WatchTypeOK'
    BY <1>0, <1>4 DEF WatchInv, WatchTypeOK
<1>6. ASSUME check' = "stop" PROVE lastPlay' # NotYet /\ now' - lastPlay' >= TimeoutMinutes * Minute
  <2>1. lastActive' = since /\ lastPlay' = first /\ Inactive(since)
      BY <1>1, <1>6
  <2>2. PICK n \in Nat : n = TimeoutMinutes * Minute
      OBVIOUS
  <2>3. since \in Nat /\ since <= watchID /\ watchID - since \in Nat
      BY DEF WatchInv, WatchTypeOK, PlayKnown
  <2>4. watchID - since >= n + Minute
      BY <2>1, <2>2, <2>3, WholeMinutes DEF Inactive
  <2>5. lastActive' # NotYet /\ lastActive' \in Nat /\ watchID - lastActive' >= n + Minute
      BY <2>1, <2>3, <2>4 DEF WatchInv, WatchTypeOK
  <2>6. /\ watchID' = watchID /\ watchID \in Nat /\ now' \in Nat /\ lastPlay' \in Nat
        /\ MaxNow + 1 \in Nat
      BY <1>0, <1>5 DEF WatchTypeOK
  <2>7. lastPlay' # NotYet /\ watchID' - lastActive' + Kept' <= now' - lastPlay' + 2 - InRound'
      BY <1>4, <2>5 DEF PlayKnown
  <2>8. PICK k \in {0, 1} : watchID - lastActive' + k <= now' - lastPlay' + 2 - 1
      BY <1>2, <2>6, <2>7
  <2>9. Minute \in Nat /\ Minute >= 1
      OBVIOUS
  <2>10. now' - lastPlay' >= n
      BY <2>5, <2>6, <2>8, <2>9, OneSecondOff
  <2> QED
      BY <2>2, <2>7, <2>10
<1>7. StopEarned'
    BY <1>6 DEF StopEarned
<1> QED
    BY <1>3, <1>4, <1>5, <1>7 DEF WatchInv

\* Every step of the goroutine, the server and its players preserves the invariant.
LEMMA WatchStep == WatchInv /\ [WatchNext]_watchVars => WatchInv'
<1> SUFFICES ASSUME WatchInv, [WatchNext]_watchVars PROVE WatchInv'
    OBVIOUS
<1>0. WatchTypeOK
    BY DEF WatchInv
<1> USE WatchAssumption DEF NotBegun, Checks
<1>1. CASE SecondPasses \/ TickerFires \/ Report \/ ActivenessCheck
    BY <1>1, SecondStep, TickerStep, ReportStep, ActivenessStep
<1>2. CASE UNCHANGED watchVars
  <2>1. WatchTypeOK'
      BY <1>0, <1>2 DEF WatchTypeOK, watchVars
  <2> QED
      BY <1>2, <2>1, OtherStep DEF InRound, watchVars
<1>3. CASE LauncherReturns
  <2>1. WatchTypeOK'
      BY <1>0, <1>3 DEF WatchTypeOK, LauncherReturns, gameVars
  <2> QED
      BY <1>3, <2>1, OtherStep DEF InRound, LauncherReturns
<1>4. CASE LivenessCheck
  <2>1. liveOnline' \in BOOLEAN
      BY <1>0, <1>4, Zenon DEF WatchTypeOK, LivenessCheck
  <2>2. WatchTypeOK'
      BY <1>0, <1>4, <2>1 DEF WatchTypeOK, LivenessCheck, gameVars
  <2> QED
      BY <1>4, <2>2, OtherStep DEF InRound, LivenessCheck
<1>5. CASE OneTimeInitCheck
  <2>1. WatchTypeOK'
      BY <1>0, <1>5 DEF WatchTypeOK, OneTimeInitCheck, gameVars
  <2> QED
      BY <1>5, <2>1, OtherStep DEF InRound, OneTimeInitCheck
<1>6. CASE RunInitCommand
  <2>1. WatchTypeOK'
      BY <1>0, <1>6 DEF WatchTypeOK, RunInitCommand, Answered, GivenUp, WatchFault, gameVars
  <2> QED
      BY <1>6, <2>1, OtherStep DEF InRound, RunInitCommand
<1>7. CASE StopServer
  <2>1. stopped' \in BOOLEAN /\ players' \in BOOLEAN /\ server' \in {"down", "up"}
      BY <1>0, <1>7, Zenon DEF WatchTypeOK, StopServer, gameVars
  <2>2. watchFaults' \in 0..MaxWatchFaults
      BY <1>0, <1>7 DEF WatchTypeOK, StopServer, Answered, GivenUp, WatchFault
  <2>3. WatchTypeOK'
      BY <1>0, <1>7, <2>1, <2>2 DEF WatchTypeOK, StopServer
  <2> QED
      BY <1>7, <2>3, OtherStep DEF InRound, StopServer
<1>8. CASE ServerStep
  <2>1. players' \in BOOLEAN
      BY <1>0, <1>8, Zenon DEF WatchTypeOK, ServerStep, ServerComesUp, ServerCrashes,
                               PlayersComeAndGo
  <2>2. server' \in {"down", "up"} /\ watchFaults' \in 0..MaxWatchFaults
      BY <1>0, <1>8 DEF WatchTypeOK, ServerStep, ServerComesUp, ServerCrashes,
                        PlayersComeAndGo, WatchFault
  <2>3. WatchTypeOK'
      BY <1>0, <1>8, <2>1, <2>2 DEF WatchTypeOK, ServerStep
  <2> QED
      BY <1>8, <2>3, OtherStep DEF InRound, ServerStep
<1> QED
    BY <1>1, <1>2, <1>3, <1>4, <1>5, <1>6, <1>7, <1>8 DEF WatchNext

\* The goroutine's state keeps its types and watchID stays close to the clock, whatever
\* the ticker drops.
THEOREM WatchInvariant == WatchSpec => []WatchInv
<1>1. WatchInit => WatchInv
  <2> SUFFICES ASSUME WatchInit PROVE WatchInv
      OBVIOUS
  <2>5. /\ tick \in BOOLEAN /\ online \in BOOLEAN /\ shown \in BOOLEAN /\ liveOnline \in BOOLEAN
        /\ players \in BOOLEAN /\ stopped \in BOOLEAN
      BY Zenon DEF WatchInit
  <2>6. /\ now \in 0..MaxNow /\ watchID \in 0..MaxNow /\ watchFaults \in 0..MaxWatchFaults
        /\ initLeft \in 0..NotBegun /\ lastActive \in 0..NotYet /\ lastPlay \in 0..NotYet
      BY WatchAssumption DEF WatchInit, NotYet, NotBegun
  <2>7. check \in Checks /\ server \in {"down", "up"}
      BY DEF WatchInit, Checks
  <2>1. WatchTypeOK
      BY <2>5, <2>6, <2>7 DEF WatchTypeOK
  <2>2. Kept = 0 /\ InRound = 0
      BY DEF WatchInit, Kept, InRound
  <2>4. Behind
      BY <2>2 DEF WatchInit, Behind
  <2>3. PlayKnown /\ StopEarned
      BY DEF WatchInit, PlayKnown, StopEarned
  <2> QED
      BY <2>1, <2>3, <2>4 DEF WatchInv
<1> QED
    BY <1>1, WatchStep, PTL DEF WatchSpec

\* The clock, the ticker and the watchdogs keep their types.
THEOREM WatchTypes == WatchSpec => []WatchTypeOK
<1>1. WatchInv => WatchTypeOK
    BY DEF WatchInv
<1> QED
    BY <1>1, WatchInvariant, PTL

\* ActivenessWatchdog stops the server no sooner than the configured minutes of the clock
\* after it last saw a player or the server came online.
THEOREM StopsInactive == WatchSpec => StopsOnlyInactive
<1>1. WatchInv /\ [WatchNext]_watchVars =>
          [~stopped /\ stopped' => now - lastPlay >= TimeoutMinutes * Minute]_watchVars
  <2> SUFFICES ASSUME WatchInv, WatchNext, ~stopped, stopped'
               PROVE  now - lastPlay >= TimeoutMinutes * Minute
      OBVIOUS
  <2>1. check = "stop"
      BY DEF WatchNext, SecondPasses, TickerFires, LivenessCheck, OneTimeInitCheck, RunInitCommand,
             ActivenessCheck, StopServer, Report, LauncherReturns, ServerStep
  <2> QED
      BY <2>1 DEF WatchInv, StopEarned
<1> QED
    BY <1>1, WatchInvariant, PTL DEF WatchSpec, StopsOnlyInactive

-----------------------------------------------------------------------------

\* The files of some entries that are under root, as paths in gamedata/world.
FilesUnder(root, entries) ==
    {TrimRoot(root, e.path) : e \in {f \in entries : f.type # "dir" /\ UnderRoot(root, f.path)}}

ReadSoFar == {archive[i] : i \in 1..(next - 1)}

\* Until a level.dat comes, everything is in the temporary directory.
NotFoundYet ==
    ~worldFound =>
        /\ \A i \in 1..(next - 1) : ~IsLevelDat(archive[i])
        /\ tmp = ReadSoFar /\ out = {}

\* worldRoot is a root that the first level.dat gives.
RootFound ==
    worldFound =>
        \E k \in 1..(next - 1) :
            /\ IsLevelDat(archive[k]) /\ worldRoot \in RootsOf(archive[k])
            /\ \A j \in 1..(k - 1) : ~IsLevelDat(archive[j])

\* Every file of the world that was read is in gamedata/world or still in tmpDir.
NothingDropped ==
    worldFound => out \cup FilesUnder(worldRoot, tmp) = FilesUnder(worldRoot, ReadSoFar)

\* Finalize comes after the last entry, and leaves no file of the world in tmpDir.
Phase ==
    /\ extraction \in {"finalize", "moving", "ok"} => next = Len(archive) + 1
    /\ extraction \in {"moving", "ok"} => worldFound
    /\ extraction = "ok" => FilesUnder(worldRoot, tmp) = {}

\* The archive is a sequence, of whatever entries in whatever order.
IsArchive == DOMAIN archive = 1..Len(archive) /\ Len(archive) \in Nat

ExtractInv ==
    /\ IsArchive /\ ExtractTypeOK
    /\ NotFoundYet /\ RootFound /\ NothingDropped /\ Phase

\* The extraction of any archive, one of ExtractInit or not.
ArchiveInit == IsArchive /\ format \in {"tar", "zip"} /\ PipelineInit
ArchiveSpec == ArchiveInit /\ [][ExtractNext]_extractVars

-----------------------------------------------------------------------------

\* What one more entry adds to the files of the world.
LEMMA FilesUnderAdd ==
    ASSUME NEW root, NEW E, NEW e
    PROVE  FilesUnder(root, E \cup {e}) =
               IF e.type # "dir" /\ UnderRoot(root, e.path)
               THEN FilesUnder(root, E) \cup {TrimRoot(root, e.path)} ELSE FilesUnder(root, E)
BY DEF FilesUnder

\* What is left of them when one is moved.
LEMMA FilesUnderMove ==
    ASSUME NEW root, NEW E, NEW e \in E, e.type # "dir" /\ UnderRoot(root, e.path)
    PROVE  FilesUnder(root, E) = FilesUnder(root, E \ {e}) \cup {TrimRoot(root, e.path)}
BY DEF FilesUnder

\* Directories are no files.
LEMMA NoFilesUnder ==
    ASSUME NEW root, NEW E, \A e \in E : UnderRoot(root, e.path) => e.type = "dir"
    PROVE  FilesUnder(root, E) = {}
BY DEF FilesUnder

\* The entry that is read is the next one of the archive.
LEMMA EntryRead ==
    ASSUME ExtractInv, next <= Len(archive), next' = next + 1, UNCHANGED archive
    PROVE  /\ archive[next] \in ToSet(archive)
           /\ ReadSoFar' = ReadSoFar \cup {archive[next]}
           /\ next' \in 1..(Len(archive) + 1) /\ next \in 1..(next' - 1)
           /\ \A i \in 1..(next' - 1) : i \in 1..(next - 1) \/ i = next
<1>1. IsArchive /\ next \in 1..(Len(archive) + 1)
    BY DEF ExtractInv, ExtractTypeOK
<1>2. /\ next' \in 1..(Len(archive) + 1) /\ next \in 1..(next' - 1) /\ next \in 1..Len(archive)
      /\ \A i : i \in 1..(next' - 1) <=> (i \in 1..(next - 1) \/ i = next)
    BY <1>1 DEF IsArchive
<1>3. archive[next] \in ToSet(archive)
    BY <1>1, <1>2 DEF IsArchive, ToSet
<1>4. ReadSoFar' = ReadSoFar \cup {archive[next]}
    BY <1>2 DEF ReadSoFar
<1> QED
    BY <1>2, <1>3, <1>4

\* FileCreator.CreateFile, before, at and after the first level.dat.
LEMMA EntryStep ==
    ASSUME ExtractInv, extraction = "entries", next <= Len(archive), next' = next + 1,
           CreateFile(archive[next]), UNCHANGED <<archive, format, extraction, diskFaults>>
    PROVE  ExtractInv'
<1> DEFINE e == archive[next]
<1>0. /\ e \in ToSet(archive)
      /\ ReadSoFar' = ReadSoFar \cup {e}
      /\ next' \in 1..(Len(archive) + 1) /\ next \in 1..(next' - 1)
      /\ \A i \in 1..(next' - 1) : i \in 1..(next - 1) \/ i = next
    BY EntryRead
<1> HIDE DEF e
<1>1. worldFound \in BOOLEAN /\ worldFound' \in BOOLEAN
    BY Zenon DEF ExtractInv, ExtractTypeOK, CreateFile
<1>2. tmp' \subseteq ToSet(archive)
    BY <1>0 DEF ExtractInv, ExtractTypeOK, CreateFile, e
<1>3. ExtractTypeOK' /\ IsArchive'
    BY <1>0, <1>1, <1>2 DEF ExtractInv, ExtractTypeOK, IsArchive, ToSet
<1>4. NotFoundYet'
  <2>1. CASE worldFound'
      BY <2>1 DEF NotFoundYet
  <2>2. CASE ~worldFound'
    <3>1. ~worldFound /\ ~IsLevelDat(e) /\ tmp' = tmp \cup {e} /\ out' = out
        BY <2>2, <1>1 DEF CreateFile, e
    <3>2. /\ \A i \in 1..(next - 1) : ~IsLevelDat(archive[i])
          /\ tmp = ReadSoFar /\ out = {}
        BY <3>1 DEF ExtractInv, NotFoundYet
    <3>3. \A i \in 1..(next' - 1) : ~IsLevelDat(archive'[i])
        BY <1>0, <3>1, <3>2 DEF e
    <3> QED
        BY <1>0, <3>1, <3>2, <3>3 DEF NotFoundYet
  <2> QED
      BY <2>1, <2>2
<1>5. RootFound' /\ NothingDropped'
  <2>1. CASE ~worldFound'
      BY <2>1 DEF RootFound, NothingDropped
  <2>2. CASE worldFound' /\ ~worldFound
    <3>1. /\ IsLevelDat(e) /\ worldRoot' \in RootsOf(e) /\ tmp' = tmp
          /\ out' = IF e.type # "dir" /\ UnderRoot(worldRoot', e.path)
                    THEN out \cup {TrimRoot(worldRoot', e.path)} ELSE out
        BY <2>2, <1>1 DEF CreateFile, e
    <3>2. /\ \A i \in 1..(next - 1) : ~IsLevelDat(archive[i])
          /\ tmp = ReadSoFar /\ out = {}
        BY <2>2 DEF ExtractInv, NotFoundYet
    <3>3. RootFound'
        BY <1>0, <3>1, <3>2 DEF RootFound, RootsOf, e
    <3>6. PICK r : r = worldRoot'
        OBVIOUS
    <3>7. out' = IF e.type # "dir" /\ UnderRoot(r, e.path) THEN {TrimRoot(r, e.path)} ELSE {}
        BY <3>1, <3>2, <3>6
    <3>8. FilesUnder(r, ReadSoFar \cup {e}) =
              IF e.type # "dir" /\ UnderRoot(r, e.path)
              THEN FilesUnder(r, ReadSoFar) \cup {TrimRoot(r, e.path)} ELSE FilesUnder(r, ReadSoFar)
        BY FilesUnderAdd
    <3>9. out' \cup FilesUnder(r, ReadSoFar) = FilesUnder(r, ReadSoFar \cup {e})
        BY <3>7, <3>8
    <3>4. out' \cup FilesUnder(worldRoot', tmp) = FilesUnder(worldRoot', ReadSoFar \cup {e})
        BY <3>2, <3>6, <3>9
    <3>5. out' \cup FilesUnder(worldRoot', tmp') = FilesUnder(worldRoot', ReadSoFar')
        BY <1>0, <3>1, <3>4
    <3> QED
        BY <3>3, <3>5 DEF NothingDropped, FilesUnder
  <2>3. CASE worldFound
    <3>1. /\ worldFound' /\ worldRoot' = worldRoot /\ tmp' = tmp
          /\ out' = IF e.type # "dir" /\ UnderRoot(worldRoot, e.path)
                    THEN out \cup {TrimRoot(worldRoot, e.path)} ELSE out
        BY <2>3, <1>1 DEF CreateFile, e
    <3>2. PICK k \in 1..(next - 1) :
            /\ IsLevelDat(archive[k]) /\ worldRoot \in RootsOf(archive[k])
            /\ \A j \in 1..(k - 1) : ~IsLevelDat(archive[j])
        BY <2>3 DEF ExtractInv, RootFound
    <3>3. k \in 1..(next' - 1)
        BY DEF ExtractInv, ExtractTypeOK, IsArchive
    <3>4. RootFound'
        BY <3>1, <3>2, <3>3 DEF RootFound, RootsOf
    <3>5. out \cup FilesUnder(worldRoot, tmp) = FilesUnder(worldRoot, ReadSoFar)
        BY <2>3 DEF ExtractInv, NothingDropped
    <3>6. out' \cup FilesUnder(worldRoot, tmp) = FilesUnder(worldRoot, ReadSoFar \cup {e})
        BY <3>1, <3>5, FilesUnderAdd
    <3>7. out' \cup FilesUnder(worldRoot', tmp') = FilesUnder(worldRoot', ReadSoFar')
        BY <1>0, <3>1, <3>6
    <3> QED
        BY <3>4, <3>7 DEF NothingDropped, FilesUnder
  <2> QED
      BY <1>1, <2>1, <2>2, <2>3
<1>6. Phase'
    BY DEF Phase
<1> QED
    BY <1>3, <1>4, <1>5, <1>6 DEF ExtractInv

\* Steps that read and move nothing.
LEMMA KeepStep ==
    ASSUME ExtractInv, UNCHANGED <<archive, format, next, worldFound, worldRoot, tmp, out>>,
           ExtractTypeOK', Phase'
    PROVE  ExtractInv'
<1>1. IsArchive'
    BY DEF ExtractInv, IsArchive
<1>2. NotFoundYet' /\ RootFound'
    BY DEF ExtractInv, NotFoundYet, RootFound, RootsOf, ReadSoFar
<1>3. NothingDropped'
    BY DEF ExtractInv, NothingDropped, ReadSoFar, FilesUnder
<1> QED
    BY <1>1, <1>2, <1>3 DEF ExtractInv

\* FileCreator.MoveAll: a file that leaves tmpDir is in gamedata/world.
LEMMA MoveStep == ExtractInv /\ MoveAll => ExtractInv'
<1> SUFFICES ASSUME ExtractInv, MoveAll PROVE ExtractInv'
    OBVIOUS
<1>0. /\ extraction = "moving" /\ worldFound /\ next = Len(archive) + 1
      /\ UNCHANGED <<archive, format, next, worldFound, worldRoot>>
      /\ extraction' \in {"moving", "ok", "error"} /\ tmp' \subseteq tmp
      /\ diskFaults' \in 0..MaxDiskFaults
    BY ExtractionAssumption DEF MoveAll, ExtractInv, ExtractTypeOK, Phase, archiveVars, DiskFault
<1>1. ExtractTypeOK' /\ IsArchive'
    BY <1>0 DEF ExtractInv, ExtractTypeOK, IsArchive, ToSet
<1>2. NotFoundYet' /\ RootFound'
    BY <1>0 DEF ExtractInv, NotFoundYet, RootFound, RootsOf
<1>3. ReadSoFar' = ReadSoFar
    BY <1>0 DEF ReadSoFar
<1>4. out \cup FilesUnder(worldRoot, tmp) = FilesUnder(worldRoot, ReadSoFar)
    BY <1>0 DEF ExtractInv, NothingDropped
<1> DEFINE Balanced == out' \cup FilesUnder(worldRoot', tmp') = FilesUnder(worldRoot', ReadSoFar')
<1>5. Balanced /\ (extraction' = "ok" => FilesUnder(worldRoot', tmp') = {})
  <2>1. ASSUME NEW e \in InTmpRoot, e.type # "dir", out' = out \cup {TrimRoot(worldRoot, e.path)},
               tmp' = tmp \ {e}, UNCHANGED extraction
        PROVE  Balanced
    <3>1. e \in tmp /\ UnderRoot(worldRoot, e.path)
        BY <2>1 DEF InTmpRoot
    <3>2. FilesUnder(worldRoot, tmp) =
              FilesUnder(worldRoot, tmp \ {e}) \cup {TrimRoot(worldRoot, e.path)}
        BY <2>1, <3>1, FilesUnderMove
    <3> QED
        BY <1>0, <1>3, <1>4, <2>1, <3>2
  <2>2. ASSUME \A e \in InTmpRoot : e.type = "dir", tmp' = tmp \ InTmpRoot, UNCHANGED out
        PROVE  Balanced /\ FilesUnder(worldRoot', tmp') = {}
    <3>1. FilesUnder(worldRoot, tmp) = {}
        BY <2>2, NoFilesUnder DEF InTmpRoot
    <3>2. FilesUnder(worldRoot, tmp \ InTmpRoot) = {}
        BY NoFilesUnder DEF InTmpRoot
    <3> QED
        BY <1>0, <1>3, <1>4, <2>2, <3>1, <3>2
  <2>3. ASSUME extraction' = "error", UNCHANGED <<tmp, out>>
        PROVE  Balanced
      BY <1>0, <1>3, <1>4, <2>3
  <2> QED
      BY <1>0, <2>1, <2>2, <2>3 DEF MoveAll
<1>6. NothingDropped' /\ Phase'
    BY <1>0, <1>5 DEF NothingDropped, Phase, FilesUnder
<1> QED
    BY <1>1, <1>2, <1>6 DEF ExtractInv

\* Every step of ExtractionPipeline.Run preserves the invariant.
LEMMA ExtractStep == ExtractInv /\ [ExtractNext]_extractVars => ExtractInv'
<1> SUFFICES ASSUME ExtractInv, [ExtractNext]_extractVars PROVE ExtractInv'
    OBVIOUS
<1>1. CASE UnarchiveEntry
  <2>1. CASE CreateFile(archive[next]) /\ next' = next + 1 /\ UNCHANGED <<extraction, diskFaults>>
      BY <1>1, <2>1, EntryStep DEF UnarchiveEntry, archiveVars
  <2>2. CASE /\ extraction' = "error" /\ diskFaults' \in {diskFaults, diskFaults + 1}
             /\ (diskFaults' # diskFaults => diskFaults < MaxDiskFaults)
             /\ UNCHANGED <<next, worldFound, worldRoot, tmp, out>>
    <3>1. ExtractTypeOK'
        BY <1>1, <2>2, ExtractionAssumption
        DEF UnarchiveEntry, archiveVars, ExtractInv, ExtractTypeOK, ToSet
    <3> QED
        BY <1>1, <2>2, <3>1, KeepStep DEF UnarchiveEntry, archiveVars, Phase
  <2> QED
      BY <1>1, <2>1, <2>2, ExtractionAssumption
      DEF UnarchiveEntry, DiskFault, ExtractInv, ExtractTypeOK
<1>2. CASE EndOfArchive
  <2>1. ExtractTypeOK'
      BY <1>2 DEF EndOfArchive, archiveVars, ExtractInv, ExtractTypeOK, ToSet
  <2>2. next = Len(archive) + 1
      BY <1>2 DEF EndOfArchive, ExtractInv, ExtractTypeOK, IsArchive
  <2> QED
      BY <1>2, <2>1, <2>2, KeepStep DEF EndOfArchive, archiveVars, Phase
<1>3. CASE Finalize
  <2>1. extraction' \in {"error", "moving", "ok"}
      BY <1>3 DEF Finalize
  <2>2. ExtractTypeOK'
      BY <1>3, <2>1 DEF Finalize, archiveVars, ExtractInv, ExtractTypeOK, ToSet
  <2>3. next = Len(archive) + 1
      BY <1>3 DEF Finalize, ExtractInv, Phase
  <2>4. extraction' \in {"moving", "ok"} => worldFound
      BY <1>3 DEF Finalize
  <2>5. extraction' = "ok" => InTmpRoot = {}
      BY <1>3 DEF Finalize
  <2>6. InTmpRoot = {} => FilesUnder(worldRoot, tmp) = {}
      BY NoFilesUnder DEF InTmpRoot
  <2>7. Phase'
      BY <1>3, <2>3, <2>4, <2>5, <2>6 DEF Finalize, archiveVars, Phase, FilesUnder
  <2> QED
      BY <1>3, <2>2, <2>7, KeepStep DEF Finalize, archiveVars
<1>4. CASE MoveAll
    BY <1>4, MoveStep
<1>5. CASE UNCHANGED extractVars
  <2>1. ExtractTypeOK' /\ Phase'
      BY <1>5 DEF extractVars, ExtractInv, ExtractTypeOK, ToSet, Phase, FilesUnder
  <2> QED
      BY <1>5, <2>1, KeepStep DEF extractVars
<1> QED
    BY <1>1, <1>2, <1>3, <1>4, <1>5 DEF ExtractNext

\* No file of the world is dropped on the way, and the types hold, for every archive.
THEOREM ExtractInvariant == ArchiveSpec => []ExtractInv
<1>1. ArchiveInit => ExtractInv
  <2> SUFFICES ASSUME IsArchive, format \in {"tar", "zip"}, PipelineInit PROVE ExtractInv
      BY DEF ArchiveInit
  <2>1. worldFound \in BOOLEAN
      BY Zenon DEF PipelineInit
  <2>2. ExtractTypeOK
      BY <2>1, ExtractionAssumption DEF PipelineInit, ExtractTypeOK, IsArchive
  <2>3. NotFoundYet /\ RootFound /\ NothingDropped /\ Phase
      BY DEF PipelineInit, NotFoundYet, RootFound, NothingDropped, Phase, ReadSoFar
  <2> QED
      BY <2>2, <2>3 DEF ExtractInv
<1> QED
    BY <1>1, ExtractStep, PTL DEF ArchiveSpec

\* An extraction that ends without an error has put every file under the root that the
\* first level.dat gives, be it a file or a directory, and nothing else into
\* gamedata/world: the first half of ExtractedWhole, for every archive.
THEOREM WorldWhole == ArchiveSpec => [](extraction = "ok" => WorldOfArchive)
<1>1. ExtractInv => (extraction = "ok" => WorldOfArchive)
  <2> SUFFICES ASSUME ExtractInv, extraction = "ok" PROVE WorldOfArchive
      OBVIOUS
  <2>1. worldFound /\ next - 1 = Len(archive) /\ FilesUnder(worldRoot, tmp) = {}
      BY DEF ExtractInv, Phase, IsArchive
  <2>2. PICK k \in 1..Len(archive) :
            /\ IsLevelDat(archive[k]) /\ worldRoot \in RootsOf(archive[k])
            /\ \A j \in 1..(k - 1) : ~IsLevelDat(archive[j])
      BY <2>1 DEF ExtractInv, RootFound
  <2>3. ReadSoFar = ToSet(archive)
      BY <2>1 DEF ExtractInv, IsArchive, ReadSoFar, ToSet
  <2>4. out = FilesUnder(worldRoot, ToSet(archive))
      BY <2>1, <2>3 DEF ExtractInv, NothingDropped
  <2>5. FilesUnder(worldRoot, ToSet(archive)) =
            {TrimRoot(worldRoot, p) : p \in {q \in Files(ToSet(archive)) : UnderRoot(worldRoot, q)}}
      BY DEF FilesUnder, Files
  <2> QED
      BY <2>2, <2>4, <2>5 DEF WorldOfArchive
<1> QED
    BY <1>1, ExtractInvariant, PTL

-----------------------------------------------------------------------------
(***************************************************************************)
(* Select keeps what it should: its recursion is solved by induction over  *)
(* the length of the sequence.                                             *)
(***************************************************************************)

\* One element more, in the recursion of Select.
SelectStep(s, S, f, n) ==
    IF n = 0 THEN << >> ELSE IF s[n] \in S THEN Append(f[n - 1], s[n]) ELSE f[n - 1]

\* A set of natural numbers has a least one.
LEMMA NatMin ==
  ASSUME NEW T, T \subseteq Nat, T # {}
  PROVE \E x \in T : \A y \in T : x <= y
<1>1. IsWellFoundedOn(OpToRel(<, Nat), Nat)
  BY NatLessThanWellFounded
<1>2. PICK R : R = OpToRel(<, Nat)
  OBVIOUS
<1>3. PICK x \in T : \A y \in T : ~ (<<y, x>> \in R)
  BY <1>1, <1>2, WFMin
<1>4. \A a, b \in Nat : a < b => <<a, b>> \in R
  BY <1>2 DEF OpToRel
<1>5. \A y \in T : ~(y < x)
  BY <1>3, <1>4
<1> QED BY <1>5
\* Induction, with the set of the numbers that have the property in place of the property.
LEMMA NatInduct ==
  ASSUME NEW S, 0 \in S, \A n \in Nat : n \in S => n + 1 \in S
  PROVE Nat \subseteq S
<1> DEFINE T == {n \in Nat : n \notin S}
<1> SUFFICES ASSUME T # {} PROVE FALSE
  OBVIOUS
<1>1. PICK x \in T : \A y \in T : x <= y
  <2>1. T \subseteq Nat
    OBVIOUS
  <2> HIDE DEF T
  <2> QED BY <2>1, NatMin
<1>2. x \in Nat /\ x # 0 /\ x - 1 \in Nat /\ ~(x <= x - 1)
  BY <1>1
<1>3. x - 1 \in S
  BY <1>1, <1>2
<1>4. (x - 1) + 1 = x
  BY <1>2
<1> QED BY <1>1, <1>2, <1>3, <1>4

\* The recursion that defines Select has a solution, up to every m.
LEMMA SelectExists ==
    ASSUME NEW s, NEW S, NEW m \in Nat
    PROVE  \E f : f = [n \in 0..m |-> SelectStep(s, S, f, n)]
<1> DEFINE P == {k \in Nat : \E f : f = [n \in 0..k |-> SelectStep(s, S, f, n)]}
<1>1. 0 \in P
  <2> DEFINE f == [n \in 0..0 |-> << >>]
  <2>1. f = [n \in 0..0 |-> SelectStep(s, S, f, n)]
      BY DEF SelectStep
  <2> QED
      BY <2>1
<1>2. ASSUME NEW k \in Nat, k \in P PROVE k + 1 \in P
  <2>1. PICK f : f = [n \in 0..k |-> SelectStep(s, S, f, n)]
      BY <1>2
  <2> DEFINE g == [n \in 0..(k + 1) |-> IF n = k + 1 THEN SelectStep(s, S, f, n) ELSE f[n]]
  <2>2. \A n \in 0..k : g[n] = f[n]
      OBVIOUS
  <2>3. \A n \in 0..(k + 1) : n # 0 => n - 1 \in 0..k
      OBVIOUS
  <2>4. \A n \in 0..(k + 1) : n # k + 1 => n \in 0..k
      OBVIOUS
  <2>5. \A n \in 0..(k + 1) : g[n] = SelectStep(s, S, f, n)
      BY <2>1, <2>4
  <2>9. DOMAIN g = 0..(k + 1) /\ g = [n \in 0..(k + 1) |-> g[n]]
      OBVIOUS
  <2> HIDE DEF g
  <2>6. \A n \in 0..(k + 1) : SelectStep(s, S, f, n) = SelectStep(s, S, g, n)
      BY <2>2, <2>3 DEF SelectStep
  <2>7. g = [n \in 0..(k + 1) |-> SelectStep(s, S, g, n)]
      BY <2>5, <2>6, <2>9
  <2> QED
      BY <2>7
<1> HIDE DEF P
<1>3. Nat \subseteq P
    BY <1>1, <1>2, NatInduct
<1> QED
    BY <1>3 DEF P

\* The recursion that defines Select holds.
LEMMA SelectRecursion ==
    ASSUME NEW s, NEW S, Len(s) \in Nat
    PROVE  SelectUpTo(s, S) = [n \in 0..Len(s) |-> SelectStep(s, S, SelectUpTo(s, S), n)]
<1>1. PICK m \in Nat : m = Len(s)
    OBVIOUS
<1>2. \E f : f = [n \in 0..m |-> SelectStep(s, S, f, n)]
    BY SelectExists
<1>3. SelectUpTo(s, S) = CHOOSE f : f = [n \in 0..m |-> SelectStep(s, S, f, n)]
    BY <1>1 DEF SelectUpTo, SelectStep
<1> QED
    BY <1>1, <1>2, <1>3

\* Select keeps the elements of s that are in S.
LEMMA SelectKeeps ==
    ASSUME NEW T, NEW s \in Seq(T), NEW S
    PROVE  /\ Select(s, S) \in Seq(T)
           /\ ToSet(Select(s, S)) = ToSet(s) \cap S
<1>0. PICK m \in Nat : m = Len(s)
    OBVIOUS
<1>1. PICK f : f = SelectUpTo(s, S)
    OBVIOUS
<1>2. f = [n \in 0..m |-> SelectStep(s, S, f, n)]
    BY <1>0, <1>1, SelectRecursion
<1>3. /\ f[0] = << >>
      /\ \A n \in 0..m : n + 1 \in 0..m =>
             f[n + 1] = IF s[n + 1] \in S THEN Append(f[n], s[n + 1]) ELSE f[n]
  <2>1. \A n \in 0..m : f[n] = SelectStep(s, S, f, n)
      BY <1>2
  <2>2. 0 \in 0..m /\ \A n \in 0..m : (n + 1) - 1 = n /\ n + 1 # 0
      OBVIOUS
  <2>3. f[0] = << >>
      BY <2>1, <2>2 DEF SelectStep
  <2>4. ASSUME NEW n \in 0..m, n + 1 \in 0..m
        PROVE  f[n + 1] = IF s[n + 1] \in S THEN Append(f[n], s[n + 1]) ELSE f[n]
    <3>1. f[n + 1] = SelectStep(s, S, f, n + 1)
        BY <2>1, <2>4
    <3> QED
        BY <2>2, <3>1 DEF SelectStep
  <2> QED
      BY <2>3, <2>4
<1> DEFINE Taken(n) == {s[i] : i \in 1..n}
           P == {n \in Nat : n <= m => f[n] \in Seq(T) /\ ToSet(f[n]) = Taken(n) \cap S}
<1>4. 0 \in P
  <2>1. Taken(0) = {} /\ ToSet(<< >>) = {}
      BY DEF ToSet
  <2>2. << >> \in Seq(T)
      OBVIOUS
  <2> QED
      BY <1>3, <2>1, <2>2
<1>5. ASSUME NEW n \in Nat, n \in P PROVE n + 1 \in P
  <2> SUFFICES ASSUME n + 1 <= m
               PROVE  f[n + 1] \in Seq(T) /\ ToSet(f[n + 1]) = Taken(n + 1) \cap S
      OBVIOUS
  <2>1. n \in 0..m /\ n + 1 \in 0..m /\ n + 1 \in 1..Len(s)
      BY <1>0
  <2>2. f[n] \in Seq(T) /\ ToSet(f[n]) = Taken(n) \cap S
      BY <1>5, <2>1
  <2>3. Taken(n + 1) = Taken(n) \cup {s[n + 1]} /\ s[n + 1] \in T
      BY <2>1
  <2>4. ASSUME NEW q \in Seq(T), NEW e \in T PROVE ToSet(Append(q, e)) = ToSet(q) \cup {e}
    <3>1. /\ Len(Append(q, e)) = Len(q) + 1 /\ DOMAIN q = 1..Len(q)
          /\ DOMAIN Append(q, e) = 1..(Len(q) + 1)
          /\ \A i \in 1..Len(q) : Append(q, e)[i] = q[i]
          /\ Append(q, e)[Len(q) + 1] = e
        BY <2>4
    <3>2. \A i : i \in 1..(Len(q) + 1) <=> (i \in 1..Len(q) \/ i = Len(q) + 1)
        BY <2>4
    <3> QED
        BY <3>1, <3>2 DEF ToSet
  <2> HIDE DEF Taken
  <2>5. CASE s[n + 1] \in S
    <3>1. f[n + 1] = Append(f[n], s[n + 1])
        BY <1>3, <2>1, <2>5
    <3>2. f[n + 1] \in Seq(T)
        BY <2>2, <2>3, <3>1
    <3>3. ToSet(f[n + 1]) = ToSet(f[n]) \cup {s[n + 1]}
        BY <2>2, <2>3, <2>4, <3>1
    <3> QED
        BY <2>2, <2>3, <2>5, <3>2, <3>3
  <2>6. CASE s[n + 1] \notin S
      BY <1>3, <2>1, <2>2, <2>3, <2>6
  <2> QED
      BY <2>5, <2>6
<1>6. Nat \subseteq P
  <2> HIDE DEF P
  <2> QED
      BY <1>4, <1>5, NatInduct
<1>7. f[m] \in Seq(T) /\ ToSet(f[m]) = Taken(m) \cap S
    BY <1>6, m <= m
<1>8. Taken(m) = ToSet(s)
    BY <1>0 DEF ToSet
<1> QED
    BY <1>0, <1>1, <1>7, <1>8 DEF Select
\* The names of a path.
Names == STRING \cup {"world", "level.dat"}

\* What the walk of a world meets.
Entries == [path : Seq(Names), type : {"file", "dir"}]
\* The elements of a sequence.
LEMMA SetOfSeq ==
    ASSUME NEW T, NEW s \in Seq(T)
    PROVE  /\ Len(s) \in Nat /\ DOMAIN s = 1..Len(s) /\ ToSet(s) = {s[i] : i \in 1..Len(s)}
           /\ ToSet(s) \subseteq T
BY DEF ToSet

\* A sequence of one element.
LEMMA OneElement ==
    ASSUME NEW T, NEW x \in T
    PROVE  <<x>> \in Seq(T) /\ Len(<<x>>) = 1 /\ <<x>>[1] = x
OBVIOUS

\* An element in front of a sequence.
LEMMA Prepended ==
    ASSUME NEW T, NEW x \in T, NEW s \in Seq(T)
    PROVE  /\ <<x>> \o s \in Seq(T) /\ Len(<<x>> \o s) = Len(s) + 1
           /\ (<<x>> \o s)[1] = x
           /\ \A i \in 1..Len(s) : (<<x>> \o s)[i + 1] = s[i]
           /\ ToSet(<<x>> \o s) = {x} \cup ToSet(s)
<1>1. PICK y \in Seq(T) : y = <<x>> /\ Len(y) = 1 /\ y[1] = x
    BY OneElement
<1>2. PICK z : z = y \o s
    OBVIOUS
<1>3. /\ z \in Seq(T) /\ Len(z) = 1 + Len(s)
      /\ \A i \in 1..(1 + Len(s)) : z[i] = IF i <= 1 THEN y[i] ELSE s[i - 1]
    BY <1>1, <1>2, ConcatProperties
<1>4. PICK n \in Nat : n = Len(s)
    OBVIOUS
<1>5. /\ 1 \in 1..(1 + n) /\ 1 <= 1
      /\ \A i \in 1..n : i + 1 \in 1..(1 + n) /\ ~(i + 1 <= 1) /\ (i + 1) - 1 = i
      /\ \A i \in 1..(1 + n) : i = 1 \/ (i - 1 \in 1..n /\ (i - 1) + 1 = i)
    OBVIOUS
<1>6. z[1] = x /\ \A i \in 1..n : z[i + 1] = s[i]
    BY <1>1, <1>3, <1>4, <1>5
<1>7. ToSet(z) = {x} \cup ToSet(s)
  <2>1. ToSet(z) = {z[i] : i \in 1..(1 + n)} /\ ToSet(s) = {s[i] : i \in 1..n}
      BY <1>3, <1>4, SetOfSeq
  <2>2. ASSUME NEW i \in 1..(1 + n) PROVE z[i] \in {x} \cup ToSet(s)
    <3>1. CASE i = 1
        BY <1>6, <3>1
    <3>2. CASE i - 1 \in 1..n /\ (i - 1) + 1 = i
      <4>1. z[(i - 1) + 1] = s[i - 1]
          BY <1>6, <3>2
      <4> QED
          BY <2>1, <3>2, <4>1
    <3> QED
        BY <1>5, <3>1, <3>2
  <2>3. x \in ToSet(z) /\ \A i \in 1..n : s[i] \in ToSet(z)
      BY <1>5, <1>6, <2>1
  <2> QED
      BY <2>1, <2>2, <2>3
<1> QED
    BY <1>1, <1>2, <1>3, <1>4, <1>6, <1>7

\* What is under a directory, without the directory.
LEMMA Trimmed ==
    ASSUME NEW T, NEW r \in Seq(T), NEW p \in Seq(T), p # << >>
    PROVE  UnderRoot(r, r \o p) /\ TrimRoot(r, r \o p) = p
<1>1. PICK q : q = r \o p
    OBVIOUS
<1>2. q \in Seq(T) /\ Len(q) = Len(r) + Len(p)
    BY <1>1, ConcatProperties
<1>3. /\ \A i \in 1..Len(r) : q[i] = r[i]
      /\ \A i \in 1..Len(p) : q[i + Len(r)] = p[i]
    BY <1>1, ConcatProperties
<1>4. Len(p) \in Nat \ {0} /\ Len(r) \in Nat
    BY EmptySeq
<1>5. SubSeq(q, Len(r) + 1, Len(q)) = p
  <2>1. PICK a \in Nat, b \in Nat \ {0} : a = Len(r) /\ b = Len(p)
      BY <1>4
  <2>2. /\ a + 1 \in (a + 1)..(a + b) /\ a + b \in (a + 1)..(a + b)
        /\ (a + 1) - a = 1 /\ (a + b) - a = b
      OBVIOUS
  <2>3. SubSeq(q, a + 1, a + b) = SubSeq(p, 1, b)
      BY <1>1, <2>1, <2>2, SubSeqOfConcat2
  <2> QED
      BY <1>2, <2>1, <2>3, SubSeqFull
<1>6. SubSeq(r, 1, Len(r)) = SubSeq(q, 1, Len(r))
  <2>1. CASE r = << >>
    <3>1. Len(r) = 0
        BY <2>1
    <3> QED
        BY <3>1, SubSeqEmpty
  <2>2. CASE r # << >>
    <3>1. 1 \in 1..Len(r) /\ Len(r) \in 1..Len(r)
        BY <2>2, EmptySeq
    <3> QED
        BY <1>1, <3>1, SubSeqOfConcat1
  <2> QED
      BY <2>1, <2>2
<1>7. r # q /\ Len(r) <= Len(q)
    BY <1>2, <1>4
<1> QED
    BY <1>1, <1>2, <1>5, <1>6, <1>7 DEF UnderRoot, TrimRoot, IsStrictPrefix, IsPrefix

\* The directory of a file.
LEMMA DirOfFile ==
    ASSUME NEW T, NEW x \in T, NEW y \in T
    PROVE  Last(<<x>> \o <<y>>) = y /\ Front(<<x>> \o <<y>>) = <<x>>
<1>1. PICK a \in Seq(T), b \in Seq(T) : a = <<x>> /\ b = <<y>>
    BY OneElement
<1>2. Len(a) = 1 /\ Len(b) = 1 /\ b[1] = y
    BY <1>1, OneElement
<1>3. PICK c : c = a \o b
    OBVIOUS
<1>4. Len(c) = 2 /\ c[2] = y
  <2>1. Len(c) = Len(a) + Len(b)
      BY <1>3, ConcatProperties
  <2>2. 2 \in 1..(Len(a) + Len(b)) /\ ~(2 <= Len(a)) /\ 2 - Len(a) = 1 /\ Len(a) + Len(b) = 2
      BY <1>2
  <2>3. c[2] = b[2 - Len(a)]
      BY <1>3, <2>2, ConcatProperties
  <2> QED
      BY <1>2, <2>1, <2>2, <2>3
<1>5. SubSeq(c, 1, 1) = SubSeq(a, 1, 1)
  <2>1. 1 \in 1..Len(a)
      BY <1>2
  <2> QED
      BY <1>3, <2>1, SubSeqOfConcat1
<1>6. SubSeq(a, 1, 1) = a
    BY <1>2, SubSeqFull
<1>7. Len(c) - 1 = 1
    BY <1>4
<1> QED
    BY <1>1, <1>3, <1>4, <1>5, <1>6, <1>7 DEF Last, Front

\* A sequence of elements of a set is one of elements of a larger set.
LEMMA WiderSeq ==
    ASSUME NEW A, NEW B, A \subseteq B, NEW s \in Seq(A)
    PROVE  s \in Seq(B)
OBVIOUS

\* The walk of a world meets files and directories.
LEMMA WalkOrderEntries ==
    /\ WalkOrder \in Seq(Entries)
    /\ \A e \in ToSet(WalkOrder) : e \in Entries /\ e.path # << >>
<1> DEFINE E == [path : Seq(STRING), type : {"file", "dir"}]
<1>1. WalkOrder \in Seq(E) /\ \A i \in 1..Len(WalkOrder) : WalkOrder[i].path # << >>
    BY ExtractionAssumption
<1>2. Seq(STRING) \subseteq Seq(Names)
    BY WiderSeq DEF Names
<1>3. E \subseteq Entries
    BY <1>2 DEF Entries
<1>4. WalkOrder \in Seq(Entries)
  <2> HIDE DEF E
  <2> QED
      BY <1>1, <1>3, WiderSeq
<1>5. /\ ToSet(WalkOrder) \subseteq Entries
      /\ ToSet(WalkOrder) = {WalkOrder[i] : i \in 1..Len(WalkOrder)}
    BY <1>4, SetOfSeq
<1> QED
    BY <1>1, <1>4, <1>5

\* A directory of the world in the archive.
LEMMA NamesOfWorld ==
    /\ World \in Seq(Names) /\ LevelDat \in Seq(Names)
    /\ Last(World \o LevelDat) = "level.dat" /\ Front(World \o LevelDat) = World
<1>1. PICK a \in Names, b \in Names : a = "world" /\ b = "level.dat"
    BY DEF Names
<1>2. <<a>> \in Seq(Names) /\ <<b>> \in Seq(Names)
    BY OneElement
<1>3. Last(<<a>> \o <<b>>) = b /\ Front(<<a>> \o <<b>>) = <<a>>
    BY DirOfFile
<1> QED
    BY <1>1, <1>2, <1>3 DEF World, LevelDat

\* What writeTar writes after the directory of the world: the walk without its level.dat.
Rest(tree) == Select(Walk(tree), {e \in ToSet(Walk(tree)) : e.path # LevelDat})

\* The walk without its level.dat loses no other file, and adds none.
LEMMA RestHolds ==
    ASSUME NEW tree \in Trees
    PROVE  Rest(tree) \in Seq(Entries) /\ Files(ToSet(Rest(tree))) = tree \ {LevelDat}
<1> DEFINE S == {e \in ToSet(WalkOrder) : \/ e.path \in tree
                                          \/ e.type = "dir" /\ \E f \in tree : IsPrefix(e.path, f)}
           R == {e \in ToSet(Walk(tree)) : e.path # LevelDat}
<1>1. Walk(tree) \in Seq(Entries) /\ ToSet(Walk(tree)) = S
  <2>1. Walk(tree) = Select(WalkOrder, S)
      BY DEF Walk
  <2>2. S \subseteq ToSet(WalkOrder)
      OBVIOUS
  <2>3. PICK U : U = S
      OBVIOUS
  <2>4. /\ Select(WalkOrder, U) \in Seq(Entries)
        /\ ToSet(Select(WalkOrder, U)) = ToSet(WalkOrder) \cap U
      BY WalkOrderEntries, SelectKeeps
  <2> HIDE DEF S
  <2> QED
      BY <2>1, <2>2, <2>3, <2>4
<1>2. Rest(tree) \in Seq(Entries) /\ ToSet(Rest(tree)) = R
  <2>1. R \subseteq ToSet(Walk(tree)) /\ Rest(tree) = Select(Walk(tree), R)
      BY DEF Rest
  <2> HIDE DEF R
  <2>2. Rest(tree) \in Seq(Entries) /\ ToSet(Rest(tree)) = ToSet(Walk(tree)) \cap R
      BY <1>1, <2>1, SelectKeeps
  <2> QED
      BY <2>1, <2>2
<1>3. Files(S) = tree
    BY DEF Files, Trees
<1> HIDE DEF S
<1>4. Files(ToSet(Rest(tree))) = Files(S) \ {LevelDat}
    BY <1>1, <1>2 DEF Files
<1> QED
    BY <1>2, <1>3, <1>4

\* An entry of the walk as it is in the archive, and the archive of such entries.
InWorld(e) == [e EXCEPT !.path = World \o @]
Archived(all) == <<Entry(World, "dir")>> \o [i \in 1..Len(all) |-> InWorld(all[i])]

\* An entry of the archive is that of the walk, below the directory of the world.
LEMMA InWorldEntry ==
    /\ \A e \in Entries : /\ InWorld(e) \in Entries
                          /\ InWorld(e).path = World \o e.path /\ InWorld(e).type = e.type
    /\ InWorld(Entry(LevelDat, "file")) = Entry(World \o LevelDat, "file")
<1>1. ASSUME NEW e \in Entries
      PROVE  /\ InWorld(e) \in Entries
             /\ InWorld(e).path = World \o e.path /\ InWorld(e).type = e.type
  <2>1. PICK p \in Seq(Names) : p = World \o e.path
      BY NamesOfWorld, ConcatProperties DEF Entries
  <2> QED
      BY <2>1 DEF Entries, InWorld
<1>2. InWorld(Entry(LevelDat, "file")) = Entry(World \o LevelDat, "file")
  <2>1. PICK q : q = World \o LevelDat
      OBVIOUS
  <2>2. InWorld(Entry(LevelDat, "file")) = [Entry(LevelDat, "file") EXCEPT !.path = q]
      BY <2>1 DEF Entry, InWorld
  <2>3. \A p : [Entry(p, "file") EXCEPT !.path = q] = Entry(q, "file")
      BY DEF Entry
  <2> QED
      BY <2>1, <2>2, <2>3
<1> QED
    BY <1>1, <1>2

\* The archive begins with the directory of the world and has the files below it.
LEMMA ArchivedHolds ==
    ASSUME NEW all \in Seq(Entries)
    PROVE  /\ Archived(all) \in Seq(Entries) /\ Len(Archived(all)) = Len(all) + 1
           /\ Archived(all)[1] = Entry(World, "dir")
           /\ \A i \in 1..Len(all) : Archived(all)[i + 1] = InWorld(all[i])
           /\ Files(ToSet(Archived(all))) = {World \o p : p \in Files(ToSet(all))}
<1> DEFINE inWorld == [i \in 1..Len(all) |-> InWorld(all[i])]
<1>1. /\ Len(all) \in Nat /\ ToSet(all) = {all[i] : i \in 1..Len(all)}
      /\ ToSet(all) \subseteq Entries
      /\ \A i \in 1..Len(all) : all[i] \in Entries
    BY SetOfSeq, ElementOfSeq
<1>2. /\ inWorld \in Seq(Entries) /\ Len(inWorld) = Len(all)
      /\ \A i \in 1..Len(all) : inWorld[i] = InWorld(all[i])
  <2>1. \A i \in 1..Len(all) : InWorld(all[i]) \in Entries
      BY <1>1, InWorldEntry
  <2> QED
      BY <1>1, <2>1
<1>3. Archived(all) = <<Entry(World, "dir")>> \o inWorld
    BY DEF Archived
<1> HIDE DEF inWorld
<1>4. ToSet(inWorld) = {InWorld(e) : e \in ToSet(all)}
  <2>1. ToSet(inWorld) = {inWorld[i] : i \in 1..Len(all)}
      BY <1>2, SetOfSeq
  <2> QED
      BY <1>1, <1>2, <2>1
<1>5. Entry(World, "dir") \in Entries
    BY NamesOfWorld DEF Entry, Entries
<1>6. /\ Archived(all) \in Seq(Entries) /\ Len(Archived(all)) = Len(inWorld) + 1
      /\ Archived(all)[1] = Entry(World, "dir")
      /\ \A i \in 1..Len(inWorld) : Archived(all)[i + 1] = inWorld[i]
      /\ ToSet(Archived(all)) = {Entry(World, "dir")} \cup ToSet(inWorld)
    BY <1>2, <1>3, <1>5, Prepended
<1>7. Files(ToSet(Archived(all))) = {World \o p : p \in Files(ToSet(all))}
  <2> DEFINE F == {f \in ToSet(all) : f.type # "dir"}
  <2>1. Files(ToSet(Archived(all))) = Files(ToSet(inWorld))
      BY <1>6 DEF Files, Entry
  <2>2. Files(ToSet(inWorld)) =
            {InWorld(e).path : e \in {f \in ToSet(all) : InWorld(f).type # "dir"}}
      BY <1>4 DEF Files
  <2>3. \A e \in ToSet(all) : InWorld(e).path = World \o e.path /\ InWorld(e).type = e.type
      BY <1>1, InWorldEntry
  <2>4. {f \in ToSet(all) : InWorld(f).type # "dir"} = F
      BY <2>3
  <2>5. {InWorld(e).path : e \in F} = {World \o e.path : e \in F}
      BY <2>3
  <2>6. {World \o e.path : e \in F} = {World \o p : p \in {e.path : e \in F}}
      OBVIOUS
  <2> QED
      BY <2>1, <2>2, <2>4, <2>5, <2>6 DEF Files
<1> QED
    BY <1>2, <1>6, <1>7

\* What is in the archive that writeTar makes of a world: with a level.dat, that comes
\* before every other file.
LEMMA WriteTarHolds ==
    ASSUME NEW tree \in Trees
    PROVE  /\ WriteTar(tree) \in Seq(Entries)
           /\ LevelDat \in tree =>
                  /\ Len(WriteTar(tree)) >= 2
                  /\ WriteTar(tree)[1] = Entry(World, "dir")
                  /\ WriteTar(tree)[2] = Entry(World \o LevelDat, "file")
                  /\ Files(ToSet(WriteTar(tree))) = {World \o p : p \in tree}
<1>1. Rest(tree) \in Seq(Entries) /\ Files(ToSet(Rest(tree))) = tree \ {LevelDat}
    BY RestHolds
<1>2. CASE LevelDat \notin tree
  <2>1. WriteTar(tree) = Archived(<< >> \o Rest(tree))
      BY <1>2 DEF WriteTar, Archived, Rest, InWorld
  <2>2. << >> \o Rest(tree) \in Seq(Entries)
      BY <1>1, ConcatEmptySeq
  <2> QED
      BY <1>2, <2>1, <2>2, ArchivedHolds
<1>3. CASE LevelDat \in tree
  <2> DEFINE all == <<Entry(LevelDat, "file")>> \o Rest(tree)
  <2>1. WriteTar(tree) = Archived(all)
      BY <1>3 DEF WriteTar, Archived, Rest, InWorld
  <2>2. Entry(LevelDat, "file") \in Entries
      BY NamesOfWorld DEF Entry, Entries
  <2>3. /\ all \in Seq(Entries) /\ Len(all) = Len(Rest(tree)) + 1
        /\ all[1] = Entry(LevelDat, "file")
        /\ ToSet(all) = {Entry(LevelDat, "file")} \cup ToSet(Rest(tree))
      BY <1>1, <2>2, Prepended
  <2> HIDE DEF all
  <2>4. Len(all) \in Nat /\ Len(all) >= 1 /\ 1 \in 1..Len(all) /\ 1 + 1 = 2
      BY <1>1, <2>3
  <2>5. Files(ToSet(all)) = {LevelDat} \cup Files(ToSet(Rest(tree)))
      BY <2>3 DEF Files, Entry
  <2>6. Files(ToSet(all)) = tree
      BY <1>1, <1>3, <2>5
  <2>7. /\ WriteTar(tree) \in Seq(Entries) /\ Len(WriteTar(tree)) = Len(all) + 1
        /\ WriteTar(tree)[1] = Entry(World, "dir")
        /\ WriteTar(tree)[1 + 1] = InWorld(all[1])
        /\ Files(ToSet(WriteTar(tree))) = {World \o p : p \in Files(ToSet(all))}
      BY <2>1, <2>3, <2>4, ArchivedHolds
  <2>8. WriteTar(tree)[2] = Entry(World \o LevelDat, "file")
      BY <2>3, <2>4, <2>7, InWorldEntry
  <2>9. Len(WriteTar(tree)) >= 2
      BY <2>4, <2>7
  <2> QED
      BY <2>6, <2>7, <2>8, <2>9
<1> QED
    BY <1>2, <1>3

\* A world archived by writeTar comes back file for file.
LEMMA ComesBack ==
    ASSUME NEW tree \in Trees, LevelDat \in tree, archive = WriteTar(tree), WorldOfArchive
    PROVE  out = tree
<1>1. PICK i \in 1..Len(archive) :
        /\ IsLevelDat(archive[i])
        /\ \A j \in 1..(i - 1) : ~IsLevelDat(archive[j])
        /\ \E root \in RootsOf(archive[i]) :
              out = {TrimRoot(root, p) : p \in {q \in Files(ToSet(archive)) : UnderRoot(root, q)}}
    BY DEF WorldOfArchive
<1>2. /\ Len(archive) \in Nat /\ Len(archive) >= 2 /\ archive[1] = Entry(World, "dir")
      /\ archive[2] = Entry(World \o LevelDat, "file")
      /\ Files(ToSet(archive)) = {World \o p : p \in tree}
  <2>1. WriteTar(tree) \in Seq(Entries)
      BY WriteTarHolds
  <2>2. Len(WriteTar(tree)) \in Nat
      BY <2>1, SetOfSeq
  <2> QED
      BY <2>2, WriteTarHolds
<1>3. ~IsLevelDat(archive[1])
  <2>1. archive[1].path = <<"world">>
      BY <1>2 DEF Entry, World
  <2>2. Last(archive[1].path) = "world"
      BY <2>1 DEF Last
  <2> QED
      BY <2>2 DEF IsLevelDat
<1>4. IsLevelDat(archive[2])
    BY <1>2, NamesOfWorld DEF IsLevelDat, Entry
<1>5. i = 2
    BY <1>1, <1>2, <1>3, <1>4
<1>6. RootsOf(archive[i]) = {World}
  <2>1. archive[2].path = World \o LevelDat /\ archive[2].type = "file"
      BY <1>2 DEF Entry
  <2>2. Front(archive[2].path) = World
      BY <2>1, NamesOfWorld
  <2> QED
      BY <1>5, <2>1, <2>2 DEF RootsOf
<1>7. \A p \in tree : p \in Seq(Names) /\ p # << >>
    BY WalkOrderEntries DEF Trees, Files, Entries
<1>8. \A p \in tree : UnderRoot(World, World \o p) /\ TrimRoot(World, World \o p) = p
    BY <1>7, NamesOfWorld, Trimmed
<1>9. out = {TrimRoot(World, p) : p \in {q \in Files(ToSet(archive)) : UnderRoot(World, q)}}
    BY <1>1, <1>6
<1>10. {q \in Files(ToSet(archive)) : UnderRoot(World, q)} = {World \o p : p \in tree}
    BY <1>2, <1>8
<1>11. out = {TrimRoot(World, World \o p) : p \in tree}
    BY <1>9, <1>10
<1> QED
    BY <1>8, <1>11

-----------------------------------------------------------------------------

ExtractSpec == ExtractInit /\ [][ExtractNext]_extractVars

\* The archive of a world with a level.dat is the one writeTar made of it.
ArchiveKnown == LevelDat \in saved => saved \in Trees /\ archive = WriteTar(saved)

\* An archive to extract is a sequence: one that writeTar made, or an upload.
LEMMA ExtractInitArchive == ExtractInit => ArchiveInit /\ ArchiveKnown
<1> SUFFICES ASSUME ExtractInit PROVE IsArchive /\ ArchiveKnown /\ format \in {"tar", "zip"}
    BY DEF ExtractInit, ArchiveInit
<1>1. CASE \E tree \in Trees : saved = tree /\ archive = WriteTar(tree) /\ format = "tar"
  <2>1. saved \in Trees /\ archive = WriteTar(saved) /\ format = "tar"
      BY <1>1
  <2>2. archive \in Seq(Entries)
      BY <2>1, WriteTarHolds
  <2>3. IsArchive
      BY <2>2, LenProperties DEF IsArchive
  <2> QED
      BY <2>1, <2>3 DEF ArchiveKnown
<1>2. CASE saved = {} /\ archive \in Uploads /\ format \in {"tar", "zip"}
  <2>1. PICK m \in 0..MaxEntries : archive \in [1..m -> UploadEntries]
      BY <1>2 DEF Uploads, SeqOf
  <2>2. m \in Nat /\ archive \in Seq(UploadEntries)
      BY <2>1, ExtractionAssumption
  <2>3. IsArchive
      BY <2>2, LenProperties DEF IsArchive
  <2> QED
      BY <1>2, <2>3 DEF ArchiveKnown
<1> QED
    BY <1>1, <1>2 DEF ExtractInit

\* The world that is archived and its archive stay as they are.
LEMMA ArchiveKept == ArchiveKnown /\ [ExtractNext]_extractVars => ArchiveKnown'
<1> SUFFICES ASSUME ArchiveKnown, [ExtractNext]_extractVars PROVE ArchiveKnown'
    OBVIOUS
<1>1. UNCHANGED <<saved, archive>>
    BY DEF ExtractNext, UnarchiveEntry, EndOfArchive, Finalize, MoveAll, archiveVars, extractVars
<1> QED
    BY <1>1 DEF ArchiveKnown

\* The state of an extraction keeps its types, for every archive there can be.
THEOREM ExtractionTypes == ExtractSpec => []ExtractTypeOK
<1>1. ExtractSpec => ArchiveSpec
    BY ExtractInitArchive DEF ExtractSpec, ArchiveSpec
<1>2. ExtractInv => ExtractTypeOK
    BY DEF ExtractInv
<1> QED
    BY <1>1, <1>2, ExtractInvariant, PTL

\* What is extracted without an error is every file under the root that the first
\* level.dat gives, for every upload; and a world archived by writeTar comes back file
\* for file.
THEOREM ExtractionWhole == ExtractSpec => []ExtractedWhole
<1>1. ExtractSpec => ArchiveSpec
    BY ExtractInitArchive DEF ExtractSpec, ArchiveSpec
<1>2. ExtractSpec => []ArchiveKnown
    BY ExtractInitArchive, ArchiveKept, PTL DEF ExtractSpec
<1>3. ArchiveKnown /\ (extraction = "ok" => WorldOfArchive) => ExtractedWhole
  <2> SUFFICES ASSUME ArchiveKnown, extraction = "ok" => WorldOfArchive, extraction = "ok",
                      LevelDat \in saved
               PROVE  out = saved
      BY DEF ExtractedWhole
  <2> QED
      BY ComesBack DEF ArchiveKnown
<1> QED
    BY <1>1, <1>2, <1>3, WorldWhole, PTL

-----------------------------------------------------------------------------
(***************************************************************************)
(* The reader of the handshake                                             *)
(***************************************************************************)

\* What is left of the stream of a client, from a field on.
FromPayload(g) == g.payload
FromPingId(g) == WriteVarInt(g.ping) \o FromPayload(g)
FromPingLength(g) == WriteVarInt(Len(FromPingId(g))) \o FromPingId(g)
FromStatusId(g) == WriteVarInt(0) \o FromPingLength(g)
FromStatusLength(g) == WriteVarInt(Len(WriteVarInt(0))) \o FromStatusId(g)
FromHandled(g) == IF g.next = 1 THEN FromStatusLength(g) ELSE Packet(<<0, 7>>)
FromNext(g) == WriteVarInt(g.next) \o FromHandled(g)
FromPort(g) == <<g.port \div 256, g.port % 256>> \o FromNext(g)
FromAddr(g) == g.addr \o FromPort(g)
AddrLen(g) == IF g.tooLong THEN [i \in 1..5 |-> 128] ELSE WriteVarInt(Len(g.addr))
FromAddrLen(g) == AddrLen(g) \o FromAddr(g)
FromVersion(g) == WriteVarInt(g.version) \o FromAddrLen(g)
FromId(g) == WriteVarInt(0) \o FromVersion(g)
\* The packet of the handshake, without its length.
HandshakeBody(g) ==
    WriteVarInt(0) \o WriteVarInt(g.version) \o AddrLen(g)
    \o g.addr \o <<g.port \div 256, g.port % 256>> \o WriteVarInt(g.next)
FromLength(g) == WriteVarInt(Len(HandshakeBody(g))) \o FromId(g)

\* The weight of a group of seven bits.
Weight(g) == 128^g

\* The weights.
LEMMA Weights ==
    /\ Weight(0) = 1 /\ Weight(1) = 128 /\ Weight(2) = 16384 /\ Weight(3) = 2097152
    /\ Weight(4) = 268435456 /\ Weight(5) = 34359738368
BY SMT DEF Weight

\* Each weight is 128 times the one before.
LEMMA WeightStep ==
    ASSUME NEW g \in 0..4
    PROVE  /\ Weight(g) \in {1, 128, 16384, 2097152, 268435456}
           /\ Weight(g + 1) = Weight(g) * 128
<1>1. CASE g = 0
    BY SMT, <1>1, Weights
<1>2. CASE g = 1
    BY SMT, <1>2, Weights
<1>3. CASE g = 2
    BY SMT, <1>3, Weights
<1>4. CASE g = 3
    BY SMT, <1>4, Weights
<1>5. CASE g = 4
    BY SMT, <1>5, Weights
<1>6. g = 0 \/ g = 1 \/ g = 2 \/ g = 3 \/ g = 4
    BY SMT
<1> QED
    BY SMT, <1>1, <1>2, <1>3, <1>4, <1>5, <1>6

\* The numbers of a VarInt are those below Weight(5).
LEMMA FiveGroups ==
    /\ \A n : n \in VarIntRange <=> n \in Nat /\ n < Weight(5)
    /\ \A n \in AddrLengths : n \in Nat /\ n + 100 \in VarIntRange
    /\ \A n \in VarIntRange : \A m \in Nat : m <= n => m \in VarIntRange
<1>1. VarIntRange = {n \in Nat : n \div Weight(4) < 128} /\ AddrLengths = 0..(Weight(4) - 1)
    BY Zenon DEF VarIntRange, AddrLengths, Weight
<1>2. PICK u, w \in Nat : u = Weight(4) /\ w = Weight(5)
    BY SMT, Weights
<1>3. u = 268435456 /\ w = 34359738368
    BY SMT, <1>2, Weights
<1>4. VarIntRange = {n \in Nat : n \div u < 128} /\ AddrLengths = 0..(u - 1)
    BY Zenon, <1>1, <1>2
<1>5. \A n : n \in VarIntRange <=> n \in Nat /\ n < w
  <2>1. \A n \in Nat : n \div u < 128 <=> n < w
      BY SMT, <1>3
  <2> QED
      BY SMT, <1>4, <2>1
<1>6. \A n \in AddrLengths : n \in Nat /\ n + 100 \in VarIntRange
  <2> SUFFICES ASSUME NEW n \in AddrLengths PROVE n \in Nat /\ n + 100 \in VarIntRange
      OBVIOUS
  <2>1. n \in Nat /\ n < u
      BY SMT, <1>4
  <2>2. n + 100 \in Nat /\ n + 100 < w
      BY SMT, <1>3, <2>1
  <2> QED
      BY Zenon, <1>5, <2>1, <2>2
<1>7. \A n \in VarIntRange : \A m \in Nat : m <= n => m \in VarIntRange
    BY SMT, <1>5
<1> QED
    BY Zenon, <1>2, <1>5, <1>6, <1>7

\* A number of a VarInt has one to five groups of seven bits.
LEMMA GroupsExist ==
    ASSUME NEW v \in VarIntRange
    PROVE  \E n \in 1..5 : (n = 5 \/ v < Weight(n)) /\ \A m \in 1..(n - 1) : v >= Weight(m)
<1>1. v \in Nat
    BY FiveGroups
<1> DEFINE Is(n) == /\ n \in 1..5 /\ (n = 5 \/ v < Weight(n))
                    /\ \A m \in 1..(n - 1) : v >= Weight(m)
<1>2. CASE v < 128
  <2>1. Is(1)
      BY SMT, <1>1, <1>2, Weights
  <2> QED
      BY SMT, <2>1
<1>3. CASE v >= 128 /\ v < 16384
  <2>1. Is(2)
      BY SMT, <1>1, <1>3, Weights
  <2> QED
      BY SMT, <2>1
<1>4. CASE v >= 16384 /\ v < 2097152
  <2>1. \A m \in 1..(3 - 1) : m = 1 \/ m = 2
      BY SMT
  <2>2. Is(3)
      BY SMT, <1>1, <1>4, <2>1, Weights
  <2> QED
      BY SMT, <2>2
<1>5. CASE v >= 2097152 /\ v < 268435456
  <2>1. \A m \in 1..(4 - 1) : m = 1 \/ m = 2 \/ m = 3
      BY SMT
  <2>2. Is(4)
      BY SMT, <1>1, <1>5, <2>1, Weights
  <2> QED
      BY SMT, <2>2
<1>6. CASE v >= 268435456
  <2>1. \A m \in 1..(5 - 1) : m = 1 \/ m = 2 \/ m = 3 \/ m = 4
      BY SMT
  <2>2. Is(5)
      BY SMT, <1>1, <1>6, <2>1, Weights
  <2> QED
      BY SMT, <2>2
<1> QED
    BY SMT, <1>1, <1>2, <1>3, <1>4, <1>5, <1>6

\* The bytes of WriteVarInt.
LEMMA VarIntBytes ==
    ASSUME NEW v \in VarIntRange
    PROVE  /\ WriteVarInt(v) \in Seq(Nat)
           /\ Len(WriteVarInt(v)) \in 1..5
           /\ v < Weight(Len(WriteVarInt(v)))
           /\ \A i \in 1..Len(WriteVarInt(v)) :
                 WriteVarInt(v)[i] = ((v \div Weight(i - 1)) % 128)
                                     + (IF i < Len(WriteVarInt(v)) THEN 128 ELSE 0)
<1> DEFINE Is(n) == (n = 5 \/ v < Weight(n)) /\ \A m \in 1..(n - 1) : v >= Weight(m)
<1>1. PICK k : k = CHOOSE n \in 1..5 : Is(n)
    BY SMT
<1>2. \E n \in 1..5 : Is(n)
    BY SMT, GroupsExist
<1> HIDE DEF Is
<1>3. k \in 1..5 /\ Is(k)
    BY SMT, <1>1, <1>2
<1> DEFINE W == [i \in 1..k |-> ((v \div Weight(i - 1)) % 128) + (IF i < k THEN 128 ELSE 0)]
<1>4. WriteVarInt(v) = W
    BY <1>1 DEF WriteVarInt, Is, Weight
<1>5. \A i \in 1..k : ((v \div Weight(i - 1)) % 128) + (IF i < k THEN 128 ELSE 0) \in Nat
  <2> SUFFICES ASSUME NEW i \in 1..k
               PROVE  ((v \div Weight(i - 1)) % 128) + (IF i < k THEN 128 ELSE 0) \in Nat
      BY SMT
  <2>1. i - 1 \in 0..4
      BY SMT, <1>3
  <2>2. Weight(i - 1) \in {1, 128, 16384, 2097152, 268435456}
      BY SMT, <2>1, WeightStep
  <2>3. PICK p \in Nat \ {0} : p = Weight(i - 1)
      BY SMT, <2>2
  <2>4. (v \div p) % 128 \in Nat
    <3>1. v \in Nat
        BY FiveGroups
    <3> QED
        BY SMT, <3>1
  <2> QED
      BY SMT, <2>3, <2>4
<1>6. W \in Seq(Nat) /\ Len(W) = k
    BY SMT, <1>3, <1>5
<1>7. v < Weight(k)
  <2>1. k = 5 \/ v < Weight(k)
      BY <1>3 DEF Is
  <2> QED
      BY <2>1, FiveGroups
<1> QED
    BY SMT, <1>3, <1>4, <1>6, <1>7

\* Where readVarInt is after g bytes of it: result has the g lowest groups of v, and the
\* next byte adds another, or ends it.
LEMMA VarIntByte ==
    ASSUME NEW v \in VarIntRange, NEW g \in Nat, g < Len(WriteVarInt(v)),
           NEW b, b = WriteVarInt(v)[g + 1]
    PROVE  /\ g <= 4 /\ b \in Nat
           /\ g + 1 < Len(WriteVarInt(v)) =>
                  b >= 128 /\ (v % Weight(g)) + (b % 128) * Weight(g) = v % Weight(g + 1)
           /\ g + 1 = Len(WriteVarInt(v)) =>
                  b < 128 /\ (v % Weight(g)) + (b % 128) * Weight(g) = v
<1>1. PICK k \in 1..5 : k = Len(WriteVarInt(v)) /\ v < Weight(k)
  <2>1. Len(WriteVarInt(v)) \in 1..5 /\ v < Weight(Len(WriteVarInt(v)))
      BY VarIntBytes
  <2> QED
      BY <2>1
<1>2. g \in 0..4 /\ g < k /\ g + 1 \in 1..k /\ (g + 1) - 1 = g
    BY SMT, <1>1
<1>3. b = ((v \div Weight(g)) % 128) + (IF g + 1 < k THEN 128 ELSE 0)
    BY SMT, <1>1, <1>2, VarIntBytes
<1>4. v \in Nat
    BY FiveGroups
<1>5. PICK p \in Nat : p = Weight(g)
    BY SMT, <1>2, WeightStep
<1>6. Weight(g + 1) = p * 128
    BY SMT, <1>2, <1>5, WeightStep
<1>7. PICK d \in 0..127 : d = (v \div p) % 128
    BY SMT, <1>4
<1>8. b \in Nat /\ b % 128 = d /\ (b >= 128 <=> g + 1 < k)
  <2>1. b = d + (IF g + 1 < k THEN 128 ELSE 0)
      BY <1>3, <1>5, <1>7
  <2>2. CASE g + 1 < k
    <3>1. b = d + 128
        BY <2>1, <2>2
    <3>2. (d + 128) % 128 = d /\ d + 128 >= 128 /\ d + 128 \in Nat
        BY SMT
    <3> QED
        BY <2>2, <3>1, <3>2
  <2>3. CASE ~(g + 1 < k)
    <3>1. b = d
        BY SMT, <2>1, <2>3
    <3>2. d % 128 = d /\ ~(d >= 128) /\ d \in Nat
        BY SMT
    <3> QED
        BY <2>3, <3>1, <3>2
  <2> QED
      BY <2>2, <2>3
<1>9. (v % p) + d * p = v % (p * 128)
  <2>1. CASE p = 1
      BY SMT, <1>4, <1>7, <2>1
  <2>2. CASE p = 128
      BY SMT, <1>4, <1>7, <2>2
  <2>3. CASE p = 16384
      BY SMT, <1>4, <1>7, <2>3
  <2>4. CASE p = 2097152
      BY SMT, <1>4, <1>7, <2>4
  <2>5. CASE p = 268435456
      BY SMT, <1>4, <1>7, <2>5
  <2>6. p \in {1, 128, 16384, 2097152, 268435456}
      BY SMT, <1>2, <1>5, WeightStep
  <2> QED
      BY SMT, <2>1, <2>2, <2>3, <2>4, <2>5, <2>6
<1>10. g + 1 = k => v % (p * 128) = v
    BY SMT, <1>1, <1>4, <1>6
<1> QED
    BY SMT, <1>1, <1>2, <1>5, <1>6, <1>8, <1>9, <1>10

\* The parts of what a client sends.
LEMMA Parts ==
    ASSUME NEW g \in Greetings
    PROVE  /\ g.version \in VarIntRange /\ g.next \in VarIntRange /\ g.ping \in VarIntRange
           /\ 0 \in VarIntRange /\ Len(g.addr) \in VarIntRange
           /\ Len(g.addr) \in Nat /\ Len(g.addr) + 100 \in VarIntRange
           /\ g.port \in PortRange
           /\ g.addr \in Seq(Nat)
           /\ g.payload \in Seq(Nat) /\ Len(g.payload) = 8
           /\ <<g.port \div 256, g.port % 256>> \in Seq(Nat)
           /\ AddrLen(g) \in Seq(Nat) /\ Len(AddrLen(g)) \in 1..5
<1>1. /\ {g.version, g.next, g.ping} \subseteq VarIntRange /\ g.port \in PortRange
      /\ g.addr \in Seq(Byte) /\ Len(g.addr) \in AddrLengths
      /\ g.payload \in Seq(Byte) /\ Len(g.payload) = 8
      /\ g.tooLong \in BOOLEAN
    BY ShakeAssumption
<1>2. Len(g.addr) \in Nat /\ Len(g.addr) + 100 \in VarIntRange
    BY <1>1, FiveGroups
<1>3. Len(g.addr) \in VarIntRange /\ 0 \in VarIntRange
  <2>1. Len(g.addr) <= Len(g.addr) + 100 /\ 0 \in Nat /\ 0 <= Len(g.addr) + 100
      BY <1>2
  <2> QED
      BY <1>2, <2>1, FiveGroups
<1>4. g.addr \in Seq(Nat) /\ g.payload \in Seq(Nat)
  <2>1. Byte \subseteq Nat
      BY SMT DEF Byte
  <2>2. \A s \in Seq(Byte) : s \in Seq(Nat)
      BY <2>1, WiderSeq
  <2> QED
      BY <1>1, <2>2
<1>5. <<g.port \div 256, g.port % 256>> \in Seq(Nat)
  <2>1. \A p \in PortRange : p \div 256 \in Nat /\ p % 256 \in Nat
      BY SMT DEF PortRange
  <2>2. g.port \div 256 \in Nat /\ g.port % 256 \in Nat
      BY <1>1, <2>1
  <2>3. \A x, y \in Nat : <<x, y>> \in Seq(Nat)
      BY SMT
  <2> QED
      BY <2>2, <2>3
<1>6. AddrLen(g) \in Seq(Nat) /\ Len(AddrLen(g)) \in 1..5
  <2>1. CASE g.tooLong
    <3>1. [i \in 1..5 |-> 128] \in Seq(Nat) /\ Len([i \in 1..5 |-> 128]) = 5
        BY SMT
    <3>2. AddrLen(g) = [i \in 1..5 |-> 128]
        BY <2>1 DEF AddrLen
    <3> QED
        BY SMT, <3>1, <3>2
  <2>2. CASE ~g.tooLong
    <3>1. AddrLen(g) = WriteVarInt(Len(g.addr))
        BY <2>2 DEF AddrLen
    <3>2. WriteVarInt(Len(g.addr)) \in Seq(Nat) /\ Len(WriteVarInt(Len(g.addr))) \in 1..5
        BY <1>3, VarIntBytes
    <3> QED
        BY SMT, <3>1, <3>2
  <2> QED
      BY <2>1, <2>2
<1> QED
    BY <1>1, <1>2, <1>3, <1>4, <1>5, <1>6

\* A concatenation of two sequences of bytes.
LEMMA Concat ==
    ASSUME NEW a \in Seq(Nat), NEW b \in Seq(Nat)
    PROVE  a \o b \in Seq(Nat) /\ Len(a \o b) = Len(a) + Len(b)
BY ConcatProperties

\* Concatenation of sequences of bytes is associative.
LEMMA Assoc ==
    ASSUME NEW a \in Seq(Nat), NEW b \in Seq(Nat), NEW c \in Seq(Nat)
    PROVE  (a \o b) \o c = a \o (b \o c)
BY ConcatAssociative

\* The lengths of the packets fit in five groups.
LEMMA PacketLengths ==
    ASSUME NEW g \in Greetings
    PROVE  /\ HandshakeBody(g) \in Seq(Nat) /\ Len(HandshakeBody(g)) \in VarIntRange
           /\ FromPingId(g) \in Seq(Nat) /\ Len(FromPingId(g)) \in VarIntRange
           /\ Len(WriteVarInt(0)) \in VarIntRange
<1> DEFINE a == WriteVarInt(0)
           b == WriteVarInt(g.version)
           c == AddrLen(g)
           d == g.addr
           e == <<g.port \div 256, g.port % 256>>
           f == WriteVarInt(g.next)
           p == WriteVarInt(g.ping)
<1>2. /\ a \in Seq(Nat) /\ Len(a) \in 1..5 /\ b \in Seq(Nat) /\ Len(b) \in 1..5
      /\ f \in Seq(Nat) /\ Len(f) \in 1..5 /\ p \in Seq(Nat) /\ Len(p) \in 1..5
    BY Parts, VarIntBytes
<1>3. /\ c \in Seq(Nat) /\ Len(c) \in 1..5 /\ d \in Seq(Nat) /\ Len(d) + 100 \in VarIntRange
      /\ e \in Seq(Nat) /\ g.payload \in Seq(Nat) /\ Len(g.payload) = 8
    BY Parts
<1>4. Len(e) = 2 /\ Len(d) \in Nat
    BY Parts
<1>5. HandshakeBody(g) = ((((a \o b) \o c) \o d) \o e) \o f /\ FromPingId(g) = p \o g.payload
    BY DEF HandshakeBody, FromPingId, FromPayload
<1> HIDE DEF a, b, c, d, e, f, p
<1>6. a \o b \in Seq(Nat) /\ Len(a \o b) = Len(a) + Len(b)
    BY <1>2, Concat
<1>7. (a \o b) \o c \in Seq(Nat) /\ Len((a \o b) \o c) = Len(a) + Len(b) + Len(c)
    BY <1>3, <1>6, Concat
<1>8. /\ ((a \o b) \o c) \o d \in Seq(Nat)
      /\ Len(((a \o b) \o c) \o d) = Len(a) + Len(b) + Len(c) + Len(d)
    BY <1>3, <1>7, Concat
<1>9. /\ (((a \o b) \o c) \o d) \o e \in Seq(Nat)
      /\ Len((((a \o b) \o c) \o d) \o e) = Len(a) + Len(b) + Len(c) + Len(d) + Len(e)
    BY <1>3, <1>8, Concat
<1>10. /\ HandshakeBody(g) \in Seq(Nat)
       /\ Len(HandshakeBody(g)) = Len(a) + Len(b) + Len(c) + Len(d) + Len(e) + Len(f)
    BY <1>2, <1>5, <1>9, Concat
<1>11. FromPingId(g) \in Seq(Nat) /\ Len(FromPingId(g)) = Len(p) + 8
    BY <1>2, <1>3, <1>5, Concat
<1>12. /\ Len(HandshakeBody(g)) \in Nat /\ Len(HandshakeBody(g)) <= Len(d) + 100
       /\ Len(FromPingId(g)) \in Nat /\ Len(FromPingId(g)) <= Len(d) + 100
       /\ Len(a) \in Nat /\ Len(a) <= Len(d) + 100
  <2>1. PICK k \in 1..5, l \in 1..5, m \in 1..5, n \in Nat, o \in 1..5, q \in 1..5 :
            k = Len(a) /\ l = Len(b) /\ m = Len(c) /\ n = Len(d) /\ o = Len(f) /\ q = Len(p)
      BY <1>2, <1>3, <1>4
  <2>2. /\ k + l + m + n + 2 + o \in Nat /\ k + l + m + n + 2 + o <= n + 100
        /\ q + 8 \in Nat /\ q + 8 <= n + 100 /\ k \in Nat /\ k <= n + 100
      BY SMT
  <2> QED
      BY <1>4, <1>10, <1>11, <2>1, <2>2
<1> QED
    BY <1>3, <1>10, <1>11, <1>12, FiveGroups DEF a

\* A field that readVarInt reads: its number and its bytes.
Number(g, f) ==
    CASE f = "length" -> Len(HandshakeBody(g))
      [] f = "version" -> g.version
      [] f = "addrLen" -> Len(g.addr)
      [] f = "next" -> g.next
      [] f = "statusLength" -> Len(WriteVarInt(0))
      [] f = "pingLength" -> Len(FromPingId(g))
      [] f = "pingId" -> g.ping
      [] f \in {"id", "statusId"} -> 0
Encoding(g, f) == IF f = "addrLen" THEN AddrLen(g) ELSE WriteVarInt(Number(g, f))

\* What is left of the stream when a field is read next.
From(g, f) ==
    CASE f = "length" -> FromLength(g) [] f = "id" -> FromId(g)
      [] f = "version" -> FromVersion(g) [] f = "addrLen" -> FromAddrLen(g)
      [] f = "addr" -> FromAddr(g) [] f = "port" -> FromPort(g)
      [] f = "next" -> FromNext(g) [] f = "handled" -> FromHandled(g)
      [] f = "statusLength" -> FromStatusLength(g) [] f = "statusId" -> FromStatusId(g)
      [] f \in {"status", "pingLength"} -> FromPingLength(g)
      [] f = "pingId" -> FromPingId(g) [] f = "payload" -> FromPayload(g)

\* The numbers of a client fit in five groups.
LEMMA Numbers ==
    ASSUME NEW g \in Greetings, NEW f \in VarInts
    PROVE  /\ Number(g, f) \in VarIntRange
           /\ Encoding(g, f) \in Seq(Nat) /\ Len(Encoding(g, f)) \in 1..5
<1>1. Number(g, f) \in VarIntRange
    BY Parts, PacketLengths DEF Number, VarInts
<1>2. CASE f = "addrLen"
  <2>1. Encoding(g, f) = AddrLen(g)
      BY <1>2 DEF Encoding
  <2> QED
      BY <1>1, <2>1, Parts
<1>3. CASE f # "addrLen"
  <2>1. WriteVarInt(Number(g, f)) \in Seq(Nat) /\ Len(WriteVarInt(Number(g, f))) \in 1..5
      BY <1>1, VarIntBytes
  <2> QED
      BY <1>1, <1>3, <2>1 DEF Encoding
<1> QED
    BY <1>1, <1>2, <1>3

\* Every part of the stream is a sequence of bytes.
LEMMA FromBytes ==
    ASSUME NEW g \in Greetings
    PROVE  \A f \in Reading \cup {"handled", "status"} : From(g, f) \in Seq(Nat)
<1> DEFINE B == Seq(Nat)
<1>1. ASSUME NEW n \in VarIntRange PROVE WriteVarInt(n) \in B
    BY VarIntBytes
<1>2. /\ WriteVarInt(g.ping) \in B /\ WriteVarInt(g.version) \in B /\ WriteVarInt(g.next) \in B
      /\ WriteVarInt(0) \in B /\ WriteVarInt(Len(WriteVarInt(0))) \in B
      /\ WriteVarInt(Len(FromPingId(g))) \in B /\ WriteVarInt(Len(HandshakeBody(g))) \in B
    BY <1>1, Parts, PacketLengths
<1>3. FromPayload(g) \in B /\ FromPingId(g) \in B
    BY Parts, PacketLengths DEF FromPayload
<1>4. FromPingLength(g) \in B
    BY <1>2, <1>3, Concat DEF FromPingLength
<1>5. FromStatusId(g) \in B
    BY <1>2, <1>4, Concat DEF FromStatusId
<1>6. FromStatusLength(g) \in B
    BY <1>2, <1>5, Concat DEF FromStatusLength
<1>7. FromHandled(g) \in B
  <2>1. <<0, 7>> \in B /\ Len(<<0, 7>>) = 2
      BY SMT
  <2>2. 2 \in VarIntRange
      BY SMT, Weights, FiveGroups
  <2>3. WriteVarInt(2) \in B
      BY <1>1, <2>2
  <2>4. Packet(<<0, 7>>) \in B
      BY <2>1, <2>3, Concat DEF Packet
  <2> QED
      BY <1>6, <2>4 DEF FromHandled
<1>8. FromNext(g) \in B
    BY <1>2, <1>7, Concat DEF FromNext
<1>9. FromPort(g) \in B
    BY <1>8, Parts, Concat DEF FromPort
<1>10. FromAddr(g) \in B
    BY <1>9, Parts, Concat DEF FromAddr
<1>11. FromAddrLen(g) \in B
    BY <1>10, Parts, Concat DEF FromAddrLen
<1>12. FromVersion(g) \in B
    BY <1>2, <1>11, Concat DEF FromVersion
<1>13. FromId(g) \in B
    BY <1>2, <1>12, Concat DEF FromId
<1>14. FromLength(g) \in B
  <2>1. WriteVarInt(Len(HandshakeBody(g))) \in Seq(Nat) /\ FromId(g) \in Seq(Nat)
      BY <1>2, <1>13
  <2>2. WriteVarInt(Len(HandshakeBody(g))) \o FromId(g) \in Seq(Nat)
      BY <2>1, Concat, ZenonT(40)
  <2> QED
      BY <2>2 DEF FromLength
<1> HIDE DEF B
<1> QED
    BY <1>3, <1>4, <1>5, <1>6, <1>7, <1>8, <1>9, <1>10, <1>11, <1>12, <1>13, <1>14
    DEF From, Reading, VarInts, B

\* A number is followed by the next field.
LEMMA NextField ==
    ASSUME NEW g \in Greetings, NEW f \in VarInts
    PROVE  /\ From(g, f) = Encoding(g, f) \o From(g, After(f))
           /\ After(f) \in Reading \cup {"handled", "status"}
BY ZenonT(40) DEF From, Encoding, Number, After, VarInts, Reading, FromLength, FromId, FromVersion,
       FromAddrLen, FromNext, FromStatusLength, FromStatusId, FromPingLength, FromPingId

\* The stream of a client is its first field and what follows.
LEMMA StreamIs ==
    ASSUME NEW g \in Greetings
    PROVE  Stream(g) = From(g, "length") /\ Stream(g) \in Seq(Nat)
<1> DEFINE l == WriteVarInt(Len(HandshakeBody(g)))
           a == WriteVarInt(0)
           b == WriteVarInt(g.version)
           c == AddrLen(g)
           d == g.addr
           e == <<g.port \div 256, g.port % 256>>
           f == WriteVarInt(g.next)
           h == FromHandled(g)
<1>1. HandshakeBody(g) = ((((a \o b) \o c) \o d) \o e) \o f
    BY DEF HandshakeBody
<1>2. Stream(g) = (l \o HandshakeBody(g)) \o h
  <2>1. CASE g.next = 1
    <3>1. h = WriteVarInt(Len(a)) \o (a \o FromPingLength(g))
        BY <2>1 DEF FromHandled, FromStatusLength, FromStatusId
    <3>2. /\ WriteVarInt(Len(a)) \in Seq(Nat) /\ a \in Seq(Nat)
        BY Parts, PacketLengths, VarIntBytes
    <3>3. FromPingLength(g) \in Seq(Nat)
      <4>1. From(g, "pingLength") \in Seq(Nat)
          BY FromBytes DEF Reading, VarInts
      <4> QED
          BY <4>1 DEF From
    <3>4. h = (WriteVarInt(Len(a)) \o a) \o FromPingLength(g)
        BY <3>1, <3>2, <3>3, Assoc
    <3>5. h = Packet(WriteVarInt(0)) \o Packet(WriteVarInt(g.ping) \o g.payload)
        BY <3>4 DEF Packet, FromPingLength, FromPingId, FromPayload
    <3>6. Stream(g) = Packet(HandshakeBody(g))
                          \o (Packet(WriteVarInt(0)) \o Packet(WriteVarInt(g.ping) \o g.payload))
        BY <2>1, Zenon DEF Stream, HandshakeBody, AddrLen
    <3> QED
        BY <3>5, <3>6, Zenon DEF Packet
  <2>2. CASE g.next # 1
    <3>1. h = Packet(<<0, 7>>)
        BY <2>2 DEF FromHandled
    <3>2. Stream(g) = Packet(HandshakeBody(g)) \o Packet(<<0, 7>>)
        BY <2>2, Zenon DEF Stream, HandshakeBody, AddrLen
    <3> QED
        BY <3>1, <3>2, Zenon DEF Packet
  <2> QED
      BY <2>1, <2>2
<1>3. /\ l \in Seq(Nat) /\ a \in Seq(Nat) /\ b \in Seq(Nat) /\ c \in Seq(Nat) /\ d \in Seq(Nat)
      /\ e \in Seq(Nat) /\ f \in Seq(Nat)
    BY Parts, PacketLengths, VarIntBytes
<1>4. h \in Seq(Nat)
  <2>1. From(g, "handled") \in Seq(Nat)
      BY FromBytes
  <2> QED
      BY <2>1 DEF From
<1>5. From(g, "length") = l \o (a \o (b \o (c \o (d \o (e \o (f \o h))))))
    BY ZenonT(40)
    DEF From, FromLength, FromId, FromVersion, FromAddrLen, FromAddr, FromPort, FromNext
<1> HIDE DEF a, b, c, d, e, f, h, l
<1>6. HandshakeBody(g) \o h = a \o (b \o (c \o (d \o (e \o (f \o h)))))
  <2>1. a \o b \in Seq(Nat)
      BY <1>3, Concat
  <2>2. (a \o b) \o c \in Seq(Nat)
      BY <1>3, <2>1, Concat
  <2>3. ((a \o b) \o c) \o d \in Seq(Nat)
      BY <1>3, <2>2, Concat
  <2>4. (((a \o b) \o c) \o d) \o e \in Seq(Nat)
      BY <1>3, <2>3, Concat
  <2>5. f \o h \in Seq(Nat)
      BY <1>3, <1>4, Concat
  <2>6. e \o (f \o h) \in Seq(Nat)
      BY <1>3, <2>5, Concat
  <2>7. d \o (e \o (f \o h)) \in Seq(Nat)
      BY <1>3, <2>6, Concat
  <2>8. c \o (d \o (e \o (f \o h))) \in Seq(Nat)
      BY <1>3, <2>7, Concat
  <2>9. (((((a \o b) \o c) \o d) \o e) \o f) \o h
            = ((((a \o b) \o c) \o d) \o e) \o (f \o h)
    <3>1. PICK x \in Seq(Nat) : x = (((a \o b) \o c) \o d) \o e
        BY <2>4
    <3>2. f \in Seq(Nat) /\ h \in Seq(Nat)
        BY <1>3, <1>4
    <3>3. (x \o f) \o h = x \o (f \o h)
        BY <3>2, Assoc
    <3> QED
        BY <3>1, <3>3, Zenon
  <2>10. ((((a \o b) \o c) \o d) \o e) \o (f \o h)
            = (((a \o b) \o c) \o d) \o (e \o (f \o h))
    <3>1. PICK x \in Seq(Nat) : x = ((a \o b) \o c) \o d
        BY <2>3
    <3>2. PICK y \in Seq(Nat) : y = f \o h
        BY <2>5
    <3>3. e \in Seq(Nat)
        BY <1>3
    <3>4. (x \o e) \o y = x \o (e \o y)
        BY <3>3, Assoc
    <3> QED
        BY <3>1, <3>2, <3>4, Zenon
  <2>11. (((a \o b) \o c) \o d) \o (e \o (f \o h))
            = ((a \o b) \o c) \o (d \o (e \o (f \o h)))
    <3>1. PICK x \in Seq(Nat) : x = (a \o b) \o c
        BY <2>2
    <3>2. PICK y \in Seq(Nat) : y = e \o (f \o h)
        BY <2>6
    <3>3. d \in Seq(Nat)
        BY <1>3
    <3>4. (x \o d) \o y = x \o (d \o y)
        BY <3>3, Assoc
    <3> QED
        BY <3>1, <3>2, <3>4, Zenon
  <2>12. ((a \o b) \o c) \o (d \o (e \o (f \o h)))
            = (a \o b) \o (c \o (d \o (e \o (f \o h))))
    <3>1. PICK x \in Seq(Nat) : x = a \o b
        BY <2>1
    <3>2. PICK y \in Seq(Nat) : y = d \o (e \o (f \o h))
        BY <2>7
    <3>3. c \in Seq(Nat)
        BY <1>3
    <3>4. (x \o c) \o y = x \o (c \o y)
        BY <3>3, Assoc
    <3> QED
        BY <3>1, <3>2, <3>4, Zenon
  <2>13. (a \o b) \o (c \o (d \o (e \o (f \o h))))
            = a \o (b \o (c \o (d \o (e \o (f \o h)))))
    <3>1. PICK y \in Seq(Nat) : y = c \o (d \o (e \o (f \o h)))
        BY <2>8
    <3>2. b \in Seq(Nat) /\ a \in Seq(Nat)
        BY <1>3
    <3>3. (a \o b) \o y = a \o (b \o y)
        BY <3>2, Assoc
    <3> QED
        BY <3>1, <3>3, Zenon
  <2> QED
      BY <1>1, <2>9, <2>10, <2>11, <2>12, <2>13, Zenon
<1>7. (l \o HandshakeBody(g)) \o h = l \o (HandshakeBody(g) \o h)
  <2>1. l \in Seq(Nat) /\ HandshakeBody(g) \in Seq(Nat) /\ h \in Seq(Nat)
      BY <1>3, <1>4, PacketLengths
  <2> QED
      BY <2>1, Assoc
<1>8. Stream(g) = From(g, "length")
    BY <1>2, <1>5, <1>6, <1>7
<1> QED
    BY <1>8, FromBytes DEF Reading, VarInts

-----------------------------------------------------------------------------

\* The stream of g, from position p on.
StreamAt(g, p, rest) ==
    /\ Len(Stream(g)) = p + Len(rest)
    /\ \A i \in 1..Len(rest) : Stream(g)[p + i] = rest[i]

\* Bytes of the stream, from position p on.
BytesAt(g, p, a) == \A i \in 1..Len(a) : Stream(g)[p + i] = a[i]

\* The order of the fields; a status request follows the handshake.
Place(f) ==
    CASE f = "length" -> 1 [] f = "id" -> 2 [] f = "version" -> 3 [] f = "addrLen" -> 4
      [] f = "addr" -> 5 [] f = "port" -> 6 [] f = "next" -> 7
      [] f \in {"handled", "statusLength"} -> 8 [] f = "statusId" -> 9
      [] f \in {"status", "pingLength"} -> 10 [] f = "pingId" -> 11 [] f = "payload" -> 12
Before(f) == {e \in Reading : Place(e) < Place(f)}
GotFields == {got[i].field : i \in 1..Len(got)}

\* What the client means by a field.
Meant(g, f) ==
    CASE f = "addr" -> g.addr [] f = "port" -> g.port [] f = "payload" -> g.payload
      [] f \in VarInts -> Number(g, f)

IsSeq(s) == \E T : s \in Seq(T)
Over == {"done", "error"}

\* The reader has every byte that it took from the connection.
BytesKept ==
    /\ client \in Greetings
    /\ buf \in Seq(Nat) /\ wire \in Seq(Nat) /\ buf \o wire = Stream(client)
\* readVarInt gives up before the sixth byte.
GroupsBounded ==
    /\ field \in VarInts => varInt.groups <= 4
    /\ field \notin VarInts \cup {"error"} => varInt = [result |-> 0, groups |-> 0]
\* As long as no field is torn, the reader is where the client's field is, and has read
\* the lowest groups of its number.
InPlace ==
    ~torn /\ field \notin Over =>
        /\ pos <= Len(buf) /\ varInt.groups <= pos
        /\ StreamAt(client, pos - varInt.groups, From(client, field))
        /\ field \in VarInts =>
              /\ varInt.groups < Len(Encoding(client, field))
              /\ \/ field = "addrLen" /\ client.tooLong
                 \/ varInt.result = Number(client, field) % Weight(varInt.groups)
\* The fields are read in their order, and only the address and what follows is torn.
FieldsInOrder ==
    /\ field \notin Over => GotFields = Before(field)
    /\ torn => field \notin {"length", "id", "version", "addrLen", "addr"}
    /\ ~torn /\ field # "error" =>
          \A i \in 1..Len(got) : got[i].value = Meant(client, got[i].field)
\* What was sent at the end: the bytes read, to the server, or the payload of the ping.
SentAtEnd ==
    field = "done" =>
        \/ GotFields = Before("handled") /\ sent = <<buf>>
        \/ GotFields = Reading /\ (~torn => Last(sent) = <<9, 1>> \o client.payload)

ShakeInv ==
    /\ ShakeTypeOK /\ BytesKept /\ GroupsBounded /\ InPlace
    /\ IsSeq(got) /\ FieldsInOrder
    /\ IsSeq(sent) /\ SentAtEnd

ShakeSpec == ShakeInit /\ [][ShakeNext]_shakeVars

-----------------------------------------------------------------------------

\* After the first bytes of what is left of the stream.
LEMMA Advance ==
    ASSUME NEW g \in Greetings, NEW p \in Nat, NEW a \in Seq(Nat), NEW r \in Seq(Nat),
           StreamAt(g, p, a \o r)
    PROVE  StreamAt(g, p + Len(a), r) /\ BytesAt(g, p, a)
<1>1. PICK s : s = Stream(g)
    OBVIOUS
<1>2. /\ Len(a \o r) = Len(a) + Len(r)
      /\ \A i \in 1..(Len(a) + Len(r)) :
             (a \o r)[i] = IF i <= Len(a) THEN a[i] ELSE r[i - Len(a)]
    BY ConcatProperties
<1>3. PICK m \in Nat, n \in Nat : m = Len(a) /\ n = Len(r)
    OBVIOUS
<1>4. Len(s) = p + (m + n) /\ \A i \in 1..(m + n) : s[p + i] = (a \o r)[i]
    BY <1>1, <1>2, <1>3 DEF StreamAt
<1>5. ASSUME NEW i \in 1..m PROVE s[p + i] = a[i]
  <2>1. i \in 1..(m + n) /\ i <= m
      OBVIOUS
  <2> QED
      BY <1>2, <1>3, <1>4, <2>1
<1>6. ASSUME NEW i \in 1..n PROVE s[(p + m) + i] = r[i]
  <2>1. m + i \in 1..(m + n) /\ ~(m + i <= m) /\ (m + i) - m = i /\ p + (m + i) = (p + m) + i
      OBVIOUS
  <2>2. s[p + (m + i)] = r[(m + i) - m]
      BY <1>2, <1>3, <1>4, <2>1
  <2> QED
      BY <2>1, <2>2
<1>7. Len(s) = (p + m) + n
    BY <1>4
<1> QED
    BY <1>1, <1>3, <1>5, <1>6, <1>7 DEF StreamAt, BytesAt

\* One element more.
LEMMA Appended ==
    ASSUME NEW s, IsSeq(s), NEW x
    PROVE  /\ IsSeq(Append(s, x)) /\ Len(s) \in Nat /\ Len(Append(s, x)) = Len(s) + 1
           /\ Append(s, x)[Len(s) + 1] = x /\ Last(Append(s, x)) = x
           /\ \A i \in 1..Len(s) : Append(s, x)[i] = s[i]
           /\ \A i : i \in 1..(Len(s) + 1) <=> (i \in 1..Len(s) \/ i = Len(s) + 1)
<1>1. PICK T : s \in Seq(T)
    BY DEF IsSeq
<1>2. s \in Seq(T \cup {x}) /\ x \in T \cup {x}
    BY <1>1, WiderSeq
<1>3. PICK U : s \in Seq(U) /\ x \in U
    BY <1>2
<1>4. Append(s, x) \in Seq(U)
    BY <1>3
<1>5. /\ Len(s) \in Nat /\ Len(Append(s, x)) = Len(s) + 1
      /\ Append(s, x)[Len(s) + 1] = x
      /\ \A i \in 1..Len(s) : Append(s, x)[i] = s[i]
    BY <1>3
<1>6. \A i : i \in 1..(Len(s) + 1) <=> (i \in 1..Len(s) \/ i = Len(s) + 1)
    BY <1>5
<1> QED
    BY <1>4, <1>5, <1>6 DEF IsSeq, Last

\* A field that is read once more is the next one.
LEMMA NextPlace ==
    /\ \A f \in VarInts \cup {"addr", "port"} :
          /\ f \notin Before(f) /\ Before(After(f)) = Before(f) \cup {f}
          /\ After(f) \in (Reading \cup {"handled", "status"}) /\ After(f) \notin Over
          /\ After(f) \notin {"length", "done", "error"}
    /\ Before("length") = {} /\ Before("statusLength") = Before("handled")
    /\ Before("pingLength") = Before("status")
    /\ Reading = Before("payload") \cup {"payload"}
<1>1. \A e \in Reading : Place(e) \in 1..12
    BY DEF Place, Reading, VarInts
<1>2. ASSUME NEW f \in VarInts \cup {"addr", "port"}
      PROVE  Place(f) \in Nat /\ Place(After(f)) = Place(f) + 1
  <2>1. /\ After("length") = "id" /\ After("id") = "version" /\ After("version") = "addrLen"
        /\ After("addrLen") = "addr" /\ After("addr") = "port" /\ After("port") = "next"
        /\ After("next") = "handled" /\ After("statusLength") = "statusId"
        /\ After("statusId") = "status" /\ After("pingLength") = "pingId"
        /\ After("pingId") = "payload"
      BY DEF After
  <2>2. /\ f = "length" \/ f = "id" \/ f = "version" \/ f = "addrLen" \/ f = "addr" \/ f = "port"
           \/ f = "next" \/ f = "statusLength" \/ f = "statusId" \/ f = "pingLength"
           \/ f = "pingId"
      BY DEF VarInts
  <2> QED
      BY <2>1, <2>2 DEF Place
<1>3. ASSUME NEW f \in VarInts \cup {"addr", "port"}, NEW e \in Reading
      PROVE  Place(e) = Place(f) <=> e = f
    BY DEF Place, Reading, VarInts
<1>4. ASSUME NEW f \in VarInts \cup {"addr", "port"}
      PROVE  /\ f \notin Before(f) /\ Before(After(f)) = Before(f) \cup {f}
             /\ After(f) \in (Reading \cup {"handled", "status"}) /\ After(f) \notin Over
             /\ After(f) \notin {"length", "done", "error"}
  <2>1. f \in Reading
      BY DEF Reading
  <2>2. PICK p \in Nat : p = Place(f) /\ Place(After(f)) = p + 1
      BY <1>2
  <2>3. \A e \in Reading : Place(e) < p + 1 <=> (Place(e) < p \/ e = f)
      BY <1>1, <1>3, <2>2
  <2>4. f \notin Before(f) /\ Before(After(f)) = Before(f) \cup {f}
      BY <2>1, <2>2, <2>3 DEF Before
  <2>5. /\ After(f) \in (Reading \cup {"handled", "status"}) /\ After(f) \notin Over
        /\ After(f) \notin {"length", "done", "error"}
      BY DEF After, VarInts, Reading, Over
  <2> QED
      BY <2>4, <2>5
<1>5. /\ Before("statusLength") = Before("handled") /\ Before("pingLength") = Before("status")
  <2>1. Place("statusLength") = Place("handled") /\ Place("pingLength") = Place("status")
      BY DEF Place
  <2> QED
      BY <2>1 DEF Before
<1>6. Before("length") = {}
  <2>1. Place("length") = 1
      BY DEF Place
  <2> QED
      BY <1>1, <2>1 DEF Before
<1>7. Reading = Before("payload") \cup {"payload"}
  <2>1. Place("payload") = 12 /\ "payload" \in Reading
      BY DEF Place, Reading
  <2>2. \A e \in Reading : Place(e) = 12 <=> e = "payload"
      BY DEF Place, Reading, VarInts
  <2> QED
      BY <1>1, <2>1, <2>2 DEF Before
<1> QED
    BY <1>4, <1>5, <1>6, <1>7

\* Read moves bytes from the connection to the buffer, and fetches some when it has none.
LEMMA ReadKeeps ==
    ASSUME BytesKept, pos \in Nat, NEW k \in Nat, NEW n \in 0..Len(wire), Read(k, n),
           client' = client
    PROVE  /\ BytesKept' /\ pos' = pos + k
           /\ Len(buf) \in Nat /\ Len(buf') \in Nat /\ Len(buf) <= Len(buf')
           /\ k = 1 /\ pos <= Len(buf) => pos + 1 <= Len(buf')
           /\ \A i \in 1..Len(buf') : buf'[i] = Stream(client)[i]
<1>1. /\ client \in Greetings /\ buf \in Seq(Nat) /\ wire \in Seq(Nat)
      /\ buf \o wire = Stream(client)
    BY DEF BytesKept
<1>2. PICK w \in Seq(Nat), b \in Seq(Nat) : w = wire /\ b = buf
    BY <1>1
<1>3. PICK x : x = SubSeq(w, 1, n)
    OBVIOUS
<1>4. PICK y : y = SubSeq(w, n + 1, Len(w))
    OBVIOUS
<1>5. n \in 0..Len(w) /\ n \in Nat /\ Len(w) \in Nat /\ Len(b) \in Nat
    BY <1>2
<1>6. x \in Seq(Nat) /\ Len(x) = n
  <2>1. \A i \in 1..n : w[i] \in Nat
      BY <1>5
  <2>2. x \in Seq(Nat) /\ Len(x) = IF 1 <= n THEN n - 1 + 1 ELSE 0
      BY <1>3, <1>5, <2>1, SubSeqProperties
  <2> QED
      BY <1>5, <2>2
<1>7. y \in Seq(Nat)
  <2>1. \A i \in (n + 1)..Len(w) : w[i] \in Nat
      BY <1>5
  <2> QED
      BY <1>4, <1>5, <2>1, SubSeqProperties
<1>8. x \o y = w
  <2>1. 1 \in 1..(Len(w) + 1) /\ n \in (1 - 1)..Len(w) /\ Len(w) \in n..Len(w)
      BY <1>5
  <2>2. x \o y = SubSeq(w, 1, Len(w))
      BY <1>3, <1>4, <2>1, ConcatAdjacentSubSeq
  <2> QED
      BY <2>2, SubSeqFull
<1>9. PICK c : c = b \o x
    OBVIOUS
<1>10. c \in Seq(Nat) /\ Len(c) = Len(b) + n
    BY <1>6, <1>9, Concat
<1>11. c \o y = Stream(client)
  <2>1. (b \o x) \o y = b \o (x \o y)
      BY <1>6, <1>7, Assoc, ZenonT(40)
  <2> QED
      BY <1>1, <1>2, <1>8, <1>9, <2>1
<1>12. buf' = c /\ wire' = y /\ pos' = pos + k
    BY <1>2, <1>3, <1>4, <1>9 DEF Read
<1>13. BytesKept'
    BY <1>1, <1>7, <1>10, <1>11, <1>12 DEF BytesKept
<1>14. \A i \in 1..Len(c) : c[i] = Stream(client)[i]
  <2>1. /\ Len(c) \in Nat /\ Len(y) \in Nat
        /\ \A i \in 1..(Len(c) + Len(y)) : (c \o y)[i] = IF i <= Len(c) THEN c[i] ELSE y[i - Len(c)]
      BY <1>7, <1>10, ConcatProperties, SMTT(30)
  <2>2. \A i \in 1..Len(c) : i \in 1..(Len(c) + Len(y)) /\ i <= Len(c)
      BY <2>1
  <2> QED
      BY <1>11, <2>1, <2>2
<1>15. k = 1 /\ pos <= Len(b) => pos + 1 <= Len(c)
  <2>1. n \in IF Len(b) - pos < k THEN 1..Len(w) ELSE {0}
      BY <1>2 DEF Read
  <2>2. Len(b) - pos < k => n >= 1
      BY <1>5, <2>1
  <2> QED
      BY <1>5, <1>10, <2>2
<1> QED
    BY <1>2, <1>5, <1>10, <1>12, <1>13, <1>14, <1>15

\* What Read copies of the buffer, all of it unless the buffer ends before.
LEMMA CopiedIs ==
    ASSUME NEW s \in Seq(Nat), NEW p \in Nat, p <= Len(s), NEW k \in Nat,
           NEW c, c = SubSeq(s, p + 1, IF p + k <= Len(s) THEN p + k ELSE Len(s))
    PROVE  /\ c \in Seq(Nat) /\ Len(c) \in Nat
           /\ Len(c) >= k <=> p + k <= Len(s)
           /\ Len(c) >= k => Len(c) = k /\ \A i \in 1..k : c[i] = s[p + i]
<1>1. PICK m \in Nat : m = IF p + k <= Len(s) THEN p + k ELSE Len(s)
    OBVIOUS
<1>2. m <= Len(s) /\ p <= m /\ Len(s) \in Nat
    BY <1>1
<1>3. \A i \in (p + 1)..m : s[i] \in Nat
    BY <1>2
<1>4. /\ c \in Seq(Nat) /\ Len(c) = (IF p + 1 <= m THEN m - (p + 1) + 1 ELSE 0)
      /\ \A i \in 1..(m - (p + 1) + 1) : c[i] = s[(p + 1) + i - 1]
    BY <1>1, <1>2, <1>3, SubSeqProperties
<1>5. Len(c) = m - p /\ m - p \in Nat
    BY <1>2, <1>4
<1>6. Len(c) >= k <=> p + k <= Len(s)
    BY <1>1, <1>2, <1>5
<1>7. ASSUME Len(c) >= k PROVE Len(c) = k /\ \A i \in 1..k : c[i] = s[p + i]
  <2>1. m = p + k
      BY <1>1, <1>6, <1>7
  <2>2. Len(c) = k /\ m - (p + 1) + 1 = k
      BY <1>5, <2>1
  <2>3. \A i \in 1..k : (p + 1) + i - 1 = p + i
      OBVIOUS
  <2> QED
      BY <1>4, <2>2, <2>3
<1> QED
    BY <1>4, <1>5, <1>6, <1>7

\* The value of a field that was read.
LEMMA ValueIs ==
    ASSUME NEW f \in GotFields
    PROVE  \E i \in 1..Len(got) : got[i].field = f /\ Value(f) = got[i].value
BY DEF GotFields, Value

\* One field more is read.
LEMMA GotStep ==
    ASSUME IsSeq(got), NEW f, NEW v, Got(f, v)
    PROVE  /\ IsSeq(got') /\ GotFields' = GotFields \cup {f}
           /\ Last(got').value = v
           /\ \A g : v = Meant(g, f)
                        /\ (\A i \in 1..Len(got) : got[i].value = Meant(g, got[i].field))
                 => \A i \in 1..Len(got') : got'[i].value = Meant(g, got'[i].field)
<1> DEFINE e == [field |-> f, value |-> v]
<1>1. e.field = f /\ e.value = v
    OBVIOUS
<1>2. got' = Append(got, e)
    BY DEF Got
<1> HIDE DEF e
<1>3. /\ IsSeq(got') /\ Len(got) \in Nat /\ Len(got') = Len(got) + 1
      /\ got'[Len(got) + 1] = e /\ Last(got') = e
      /\ \A i \in 1..Len(got) : got'[i] = got[i]
      /\ \A i : i \in 1..(Len(got) + 1) <=> (i \in 1..Len(got) \/ i = Len(got) + 1)
    BY <1>2, Appended
<1>4. GotFields' = GotFields \cup {f}
    BY <1>1, <1>3 DEF GotFields
<1> QED
    BY <1>1, <1>3, <1>4

-----------------------------------------------------------------------------

\* A reader that is at the beginning of a field.
AtField(f, p, b) ==
    /\ f \notin Over
    /\ p \in Nat /\ p <= Len(b)
    /\ StreamAt(client, p, From(client, f))

\* At the beginning of a number nothing of it is read.
LEMMA Entered ==
    ASSUME client \in Greetings, client' = client, AtField(field', pos', buf'),
           field' \in Reading \cup {"handled", "status"},
           varInt' = [result |-> 0, groups |-> 0]
    PROVE  InPlace'
<1>0. varInt'.groups = 0 /\ varInt'.result = 0
    OBVIOUS
<1>1. varInt'.groups = 0 /\ varInt'.result = 0 /\ pos' \in Nat /\ pos' - 0 = pos'
  <2>1. pos' \in Nat
      BY DEF AtField
  <2>2. \A n \in Nat : n - 0 = n
      OBVIOUS
  <2> QED
      BY <1>0, <2>1, <2>2
<1>2. ASSUME field' \in VarInts
      PROVE  /\ 0 < Len(Encoding(client, field'))
             /\ 0 = Number(client, field') % Weight(0)
  <2>1. /\ Number(client, field') \in VarIntRange
        /\ Len(Encoding(client, field')) \in 1..5
      BY <1>2, Numbers
  <2>2. \A n \in VarIntRange : n % 1 = 0
      BY SMT, FiveGroups
  <2>3. Weight(0) = 1
      BY SMT, Weights
  <2> QED
      BY <2>1, <2>2, <2>3
<1>3. StreamAt(client, pos' - varInt'.groups, From(client, field'))
    BY <1>1 DEF AtField
<1>4. pos' <= Len(buf') /\ varInt'.groups <= pos'
    BY <1>1 DEF AtField
<1>5. field' \in VarInts =>
          /\ varInt'.groups < Len(Encoding(client, field'))
          /\ varInt'.result = Number(client, field') % Weight(varInt'.groups)
    BY <1>1, <1>2
<1> QED
    BY <1>3, <1>4, <1>5 DEF InPlace

\* A number at its place in the stream, and the field behind it.
LEMMA NumberAt ==
    ASSUME NEW g \in Greetings, NEW f \in VarInts, NEW q \in Nat, StreamAt(g, q, From(g, f))
    PROVE  /\ BytesAt(g, q, Encoding(g, f))
           /\ StreamAt(g, q + Len(Encoding(g, f)), From(g, After(f)))
<1>1. PICK e \in Seq(Nat) : e = Encoding(g, f)
    BY Numbers
<1>2. PICK r \in Seq(Nat) : r = From(g, After(f))
    BY NextField, FromBytes
<1>3. StreamAt(g, q, e \o r)
  <2>1. From(g, f) = e \o r
      BY <1>1, <1>2, NextField
  <2> QED
      BY <2>1
<1>4. StreamAt(g, q + Len(e), r) /\ BytesAt(g, q, e)
    BY <1>3, Advance
<1> QED
    BY <1>1, <1>2, <1>4, Zenon

\* readVarInt reads the next byte of the number of the client.
LEMMA NumberByte ==
    ASSUME ShakeInv, field \in VarInts, ~torn,
           NEW n \in 0..Len(wire), Read(Size(field), n), client' = client
    PROVE  LET b == Padded(Copied(1), 1)[1] IN
           /\ BytesKept' /\ pos' = pos + 1 /\ pos' <= Len(buf')
           /\ b = Encoding(client, field)[varInt.groups + 1]
<1>1. /\ client \in Greetings /\ pos \in Nat /\ varInt.groups \in Nat
      /\ pos <= Len(buf) /\ varInt.groups <= pos
      /\ StreamAt(client, pos - varInt.groups, From(client, field))
      /\ varInt.groups < Len(Encoding(client, field))
  <2>1. field \notin Over
      BY DEF VarInts, Over
  <2> QED
      BY <2>1, SMT DEF ShakeInv, BytesKept, InPlace, ShakeTypeOK
<1>2. Size(field) = 1
    BY DEF Size, VarInts
<1>3. /\ BytesKept' /\ pos' = pos + 1
      /\ Len(buf) \in Nat /\ Len(buf') \in Nat /\ Len(buf) <= Len(buf')
      /\ pos + 1 <= Len(buf')
      /\ \A i \in 1..Len(buf') : buf'[i] = Stream(client)[i]
    BY <1>1, <1>2, ReadKeeps DEF ShakeInv
<1>4. PICK s \in Seq(Nat) : s = buf'
    BY <1>3 DEF BytesKept
<1>5. PICK c : c = Copied(1)
    OBVIOUS
<1>6. Len(c) = 1 /\ c[1] = s[pos + 1]
  <2>1. c = SubSeq(s, pos + 1, IF pos + 1 <= Len(s) THEN pos + 1 ELSE Len(s))
      BY <1>4, <1>5 DEF Copied
  <2>2. pos <= Len(s) /\ pos + 1 <= Len(s) /\ 1 \in Nat /\ 1 \in 1..1
      BY <1>1, <1>3, <1>4
  <2> QED
      BY <1>1, <2>1, <2>2, CopiedIs
<1>7. Padded(c, 1)[1] = c[1]
    BY <1>6 DEF Padded
<1>8. s[pos + 1] = Stream(client)[pos + 1]
    BY <1>1, <1>3, <1>4
<1>9. Stream(client)[pos + 1] = Encoding(client, field)[varInt.groups + 1]
  <2>1. PICK g \in Nat : g = varInt.groups
      BY <1>1
  <2>2. PICK e \in Seq(Nat) : e = Encoding(client, field)
      BY <1>1, Numbers
  <2>3. PICK q \in Nat : q = pos - g /\ StreamAt(client, q, From(client, field))
      BY <1>1, <2>1
  <2>4. \A i \in 1..Len(e) : Stream(client)[q + i] = e[i]
    <3>1. BytesAt(client, q, e)
        BY <1>1, <2>2, <2>3, NumberAt
    <3> QED
        BY <3>1 DEF BytesAt
  <2>5. g < Len(e)
      BY <1>1, <2>1, <2>2, Zenon
  <2>6. PICK p \in Nat : p = pos /\ q = p - g
      BY <1>1, <2>3, Zenon
  <2>7. g + 1 \in 1..Len(e) /\ q + (g + 1) = p + 1
      BY <2>5, <2>6, SMT
  <2>8. Stream(client)[q + (g + 1)] = e[g + 1]
      BY <2>4, <2>7, Zenon
  <2> QED
      BY <2>1, <2>2, <2>6, <2>7, <2>8, Zenon
<1> QED
    BY <1>3, <1>5, <1>7, <1>6, <1>8, <1>9

\* readVarInt, one byte: the number goes on, or it ends and is the client's.
LEMMA VarIntStep == ShakeInv /\ ReadVarIntByte => ShakeInv'
<1> SUFFICES ASSUME ShakeInv, ReadVarIntByte PROVE ShakeInv'
    OBVIOUS
<1> DEFINE b == Padded(Copied(1), 1)[1]
           result == varInt.result + (b % 128) * 128^varInt.groups
           Goes == /\ b >= 128
                   /\ varInt' = [result |-> result, groups |-> varInt.groups + 1]
                   /\ field' = IF varInt'.groups * 7 >= 32 THEN "error" ELSE field
                   /\ UNCHANGED got
           Ends == /\ b < 128
                   /\ varInt' = [result |-> 0, groups |-> 0]
                   /\ field' = IF field = "addrLen" /\ result > 255 THEN "error" ELSE After(field)
                   /\ Got(field, result)
<1>1. /\ field \in VarInts /\ UNCHANGED <<client, torn, sent>>
      /\ Size(field) = 1
  <2>1. field \in VarInts /\ UNCHANGED <<client, torn, sent>>
      BY DEF ReadVarIntByte
  <2> QED
      BY <2>1 DEF Size, VarInts
<1>2. PICK n \in 0..Len(wire) : Read(Size(field), n) /\ (Goes \/ Ends)
  <2>1. PICK n \in 0..Len(wire) :
          /\ Read(Size(field), n) /\ InRange
          /\ LET c == Padded(Copied(1), 1)[1]
                 r == varInt.result + (c % 128) * 128^varInt.groups
             IN \/ /\ c >= 128
                   /\ varInt' = [result |-> r, groups |-> varInt.groups + 1]
                   /\ field' = IF varInt'.groups * 7 >= 32 THEN "error" ELSE field
                   /\ UNCHANGED got
                \/ /\ c < 128
                   /\ varInt' = [result |-> 0, groups |-> 0]
                   /\ field' = IF field = "addrLen" /\ r > 255 THEN "error" ELSE After(field)
                   /\ Got(field, r)
      BY Zenon DEF ReadVarIntByte
  <2> QED
      BY Zenon, <2>1
<1>3. /\ client \in Greetings /\ pos \in Nat /\ varInt.groups \in 0..4 /\ torn \in BOOLEAN
      /\ field \notin Over /\ IsSeq(got) /\ IsSeq(sent) /\ BytesKept
      /\ GotFields = Before(field)
      /\ torn => field \notin {"length", "id", "version", "addrLen", "addr"}
      /\ ~torn => \A i \in 1..Len(got) : got[i].value = Meant(client, got[i].field)
  <2>1. varInt.groups \in 0..4
      BY <1>1 DEF ShakeInv, ShakeTypeOK, GroupsBounded
  <2>2. field \notin Over
      BY <1>1 DEF VarInts, Over
  <2>3. /\ client \in Greetings /\ pos \in Nat /\ torn \in BOOLEAN
        /\ IsSeq(got) /\ IsSeq(sent) /\ BytesKept
      BY Zenon DEF ShakeInv, ShakeTypeOK, BytesKept
  <2>4. /\ GotFields = Before(field)
        /\ torn => field \notin {"length", "id", "version", "addrLen", "addr"}
        /\ ~torn => \A i \in 1..Len(got) : got[i].value = Meant(client, got[i].field)
      BY <2>2, Zenon DEF ShakeInv, FieldsInOrder, Over
  <2> QED
      BY <2>1, <2>2, <2>3, <2>4
<1>4. BytesKept' /\ pos' = pos + 1 /\ pos' \in Nat
  <2>1. 1 \in Nat /\ client' = client /\ Read(1, n)
      BY <1>1, <1>2
  <2>2. BytesKept' /\ pos' = pos + 1
      BY <1>3, <2>1, ReadKeeps
  <2> QED
      BY <1>3, <2>2
<1>5. /\ After(field) \in Reading \cup {"handled", "status"} /\ After(field) \notin Over
      /\ Before(After(field)) = Before(field) \cup {field}
      /\ field \in Reading
    BY <1>1, NextPlace DEF Reading
<1>6. ASSUME ~torn
      PROVE  /\ pos <= Len(buf) /\ varInt.groups <= pos
             /\ StreamAt(client, pos - varInt.groups, From(client, field))
             /\ varInt.groups < Len(Encoding(client, field))
             /\ \/ field = "addrLen" /\ client.tooLong
                \/ varInt.result = Number(client, field) % Weight(varInt.groups)
             /\ pos' <= Len(buf')
             /\ b = Encoding(client, field)[varInt.groups + 1]
  <2>1. /\ pos <= Len(buf) /\ varInt.groups <= pos
        /\ StreamAt(client, pos - varInt.groups, From(client, field))
        /\ varInt.groups < Len(Encoding(client, field))
        /\ \/ field = "addrLen" /\ client.tooLong
           \/ varInt.result = Number(client, field) % Weight(varInt.groups)
      BY <1>1, <1>3, <1>6, Zenon DEF ShakeInv, InPlace
  <2>2. pos' <= Len(buf') /\ b = Encoding(client, field)[varInt.groups + 1]
      BY <1>1, <1>2, <1>6, NumberByte
  <2> QED
      BY <2>1, <2>2
<1>7. result = varInt.result + (b % 128) * Weight(varInt.groups)
    BY Zenon DEF Weight
<1> HIDE DEF b, result
<1>8. ASSUME ~torn, field = "addrLen", client.tooLong
      PROVE  b = 128 /\ Len(Encoding(client, field)) = 5
  <2>1. Encoding(client, field) = [i \in 1..5 |-> 128]
      BY <1>8 DEF Encoding, AddrLen
  <2>2. varInt.groups + 1 \in 1..5
      BY <1>3
  <2>3. PICK j \in 1..5 : j = varInt.groups + 1
      BY <2>2
  <2>4. [i \in 1..5 |-> 128][j] = 128 /\ Len([i \in 1..5 |-> 128]) = 5
      BY SMT
  <2> QED
      BY <1>6, <1>8, <2>1, <2>3, <2>4
<1>9. ASSUME ~torn, ~(field = "addrLen" /\ client.tooLong)
      PROVE  /\ varInt.groups <= 4
             /\ varInt.groups + 1 < Len(Encoding(client, field)) =>
                    b >= 128 /\ result = Number(client, field) % Weight(varInt.groups + 1)
             /\ varInt.groups + 1 = Len(Encoding(client, field)) =>
                    b < 128 /\ result = Number(client, field)
             /\ b \in Nat /\ Len(Encoding(client, field)) \in 1..5
  <2>1. Encoding(client, field) = WriteVarInt(Number(client, field))
      BY <1>9 DEF Encoding, AddrLen, Number
  <2>2. Number(client, field) \in VarIntRange
      BY <1>1, <1>3, Numbers
  <2>3. PICK v \in VarIntRange : v = Number(client, field)
      BY <2>2
  <2>4. PICK g \in Nat : g = varInt.groups
      BY <1>3
  <2>5. g < Len(WriteVarInt(v)) /\ b = WriteVarInt(v)[g + 1]
      BY <1>6, <1>9, <2>1, <2>3, <2>4
  <2>6. varInt.result = v % Weight(g)
      BY <1>6, <1>9, <2>3, <2>4
  <2>7. result = (v % Weight(g)) + (b % 128) * Weight(g)
      BY <1>7, <2>4, <2>6
  <2>8. /\ g <= 4 /\ b \in Nat
        /\ g + 1 < Len(WriteVarInt(v)) =>
               b >= 128 /\ (v % Weight(g)) + (b % 128) * Weight(g) = v % Weight(g + 1)
        /\ g + 1 = Len(WriteVarInt(v)) =>
               b < 128 /\ (v % Weight(g)) + (b % 128) * Weight(g) = v
      BY <2>5, VarIntByte
  <2>9. Len(WriteVarInt(v)) \in 1..5
      BY VarIntBytes
  <2> QED
      BY <2>1, <2>3, <2>4, <2>7, <2>8, <2>9
<1>10. CASE Goes
  <2>1. /\ varInt'.groups = varInt.groups + 1 /\ varInt'.result = result
        /\ field' = IF varInt'.groups * 7 >= 32 THEN "error" ELSE field
        /\ got' = got /\ b >= 128
      BY <1>10
  <2>2. varInt'.groups \in 0..5 /\ (field' = "error" \/ (field' = field /\ varInt'.groups <= 4))
    <3>1. PICK g \in 0..4 : g = varInt.groups
        BY <1>3
    <3>2. g + 1 \in 0..5 /\ (~((g + 1) * 7 >= 32) => g + 1 <= 4)
        BY SMT
    <3> QED
        BY <2>1, <3>1, <3>2
  <2>3. ShakeTypeOK'
    <3>1. field' \in Reading \cup {"handled", "status", "done", "error"} /\ torn' \in BOOLEAN
        BY <1>1, <1>3, <1>5, <2>2, Zenon
    <3> QED
        BY <1>4, <2>2, <3>1 DEF ShakeTypeOK
  <2>4. GroupsBounded'
    <3>1. field' \in VarInts => field' # "error"
        BY DEF VarInts
    <3>2. CASE field' = "error"
        BY <3>1, <3>2, Zenon DEF GroupsBounded
    <3>3. CASE field' = field /\ varInt'.groups <= 4
        BY <1>1, <3>3, Zenon DEF GroupsBounded
    <3> QED
        BY <2>2, <3>2, <3>3
  <2>5. InPlace'
    <3> SUFFICES ASSUME ~torn, field' = field, varInt'.groups <= 4
                 PROVE  InPlace'
        BY <1>1, <2>2, Zenon DEF InPlace, Over
    <3>1. /\ pos' <= Len(buf') /\ varInt'.groups <= pos'
          /\ pos' - varInt'.groups = pos - varInt.groups
      <4>1. PICK g \in Nat, p \in Nat : g = varInt.groups /\ p = pos
          BY <1>3
      <4>2. varInt'.groups = g + 1 /\ pos' = p + 1 /\ pos' <= Len(buf') /\ g <= p
          BY <1>4, <1>6, <2>1, <4>1, Zenon
      <4>3. g + 1 <= p + 1 /\ (p + 1) - (g + 1) = p - g
          BY <4>2, SMT
      <4> QED
          BY <4>1, <4>2, <4>3, Zenon
    <3>2. StreamAt(client, pos' - varInt'.groups, From(client, field))
        BY <1>6, <3>1
    <3>3. CASE field = "addrLen" /\ client.tooLong
      <4>0. Len(Encoding(client, field)) = 5 /\ varInt'.groups = varInt.groups + 1
          BY <1>8, <2>1, <3>3
      <4>1. varInt'.groups < Len(Encoding(client, field))
          BY <1>3, <4>0, SMT
      <4> QED
          BY <1>1, <3>1, <3>2, <3>3, <4>1, Zenon DEF InPlace
    <3>4. CASE ~(field = "addrLen" /\ client.tooLong)
      <4>1. /\ varInt.groups + 1 < Len(Encoding(client, field))
               => result = Number(client, field) % Weight(varInt.groups + 1)
            /\ varInt.groups + 1 = Len(Encoding(client, field)) => b < 128
            /\ b \in Nat /\ Len(Encoding(client, field)) \in 1..5
          BY <1>9, <3>4
      <4>2. varInt.groups + 1 < Len(Encoding(client, field))
        <5>1. PICK read \in Nat : read = varInt.groups
            BY <1>3
        <5>2. PICK l \in 1..5 : l = Len(Encoding(client, field))
            BY <4>1, Zenon
        <5>3. read < l
            BY <1>6, <5>1, <5>2, Zenon
        <5>4. read + 1 # l
            BY <2>1, <4>1, <5>1, <5>2
        <5>5. read + 1 < l
            BY <5>3, <5>4, SMT
        <5> QED
            BY <5>1, <5>2, <5>5, Zenon
      <4>3. varInt'.groups < Len(Encoding(client, field))
          BY <2>1, <4>2
      <4>4. varInt'.result = Number(client, field) % Weight(varInt'.groups)
          BY <2>1, <4>1, <4>2
      <4> QED
          BY <1>1, <3>1, <3>2, <4>3, <4>4, Zenon DEF InPlace
    <3> QED
        BY <3>3, <3>4
  <2>6. GotFields' = GotFields
      BY <2>1 DEF GotFields
  <2>7. FieldsInOrder'
      BY <1>1, <1>3, <2>1, <2>2, <2>6, Zenon DEF FieldsInOrder, Over
  <2>8. SentAtEnd' /\ IsSeq(got') /\ IsSeq(sent')
      BY <1>1, <1>3, <2>1, <2>2, Zenon DEF SentAtEnd, Over
  <2> QED
      BY <1>4, <2>3, <2>4, <2>5, <2>7, <2>8 DEF ShakeInv
<1>11. CASE Ends
  <2>1. /\ varInt' = [result |-> 0, groups |-> 0]
        /\ field' = IF field = "addrLen" /\ result > 255 THEN "error" ELSE After(field)
        /\ Got(field, result) /\ b < 128
      BY <1>11
  <2>2. /\ varInt'.groups = 0 /\ (field' = "error" \/ field' = After(field))
        /\ field' # "done" /\ (field' # "error" => field' = After(field))
      BY <1>5, <2>1 DEF Over
  <2>3. ShakeTypeOK'
    <3>1. field' \in Reading \cup {"handled", "status", "done", "error"} /\ torn' \in BOOLEAN
        BY <1>1, <1>3, <1>5, <2>2, Zenon
    <3>2. varInt'.groups \in 0..5
        BY <2>2
    <3> QED
        BY <1>4, <3>1, <3>2 DEF ShakeTypeOK
  <2>4. GroupsBounded'
      BY <2>1, <2>2 DEF GroupsBounded
  <2>5. ~torn => ~(field = "addrLen" /\ client.tooLong)
      BY <1>8, <2>1
  <2>6. ~torn => /\ varInt.groups + 1 = Len(Encoding(client, field))
                 /\ result = Number(client, field)
    <3> SUFFICES ASSUME ~torn PROVE /\ varInt.groups + 1 = Len(Encoding(client, field))
                                    /\ result = Number(client, field)
        OBVIOUS
    <3>1. /\ varInt.groups + 1 < Len(Encoding(client, field)) => b >= 128
          /\ varInt.groups + 1 = Len(Encoding(client, field)) => result = Number(client, field)
          /\ b \in Nat /\ Len(Encoding(client, field)) \in 1..5
        BY <1>9, <2>5
    <3>2. ~(varInt.groups + 1 < Len(Encoding(client, field)))
        BY <2>1, <3>1
    <3> QED
        BY <1>3, <1>6, <3>1, <3>2
  <2>7. InPlace'
    <3> SUFFICES ASSUME ~torn, field' = After(field)
                 PROVE  InPlace'
        BY <1>1, <2>2, Zenon DEF InPlace, Over
    <3>1. StreamAt(client, pos', From(client, After(field)))
      <4>1. PICK g \in Nat : g = varInt.groups
          BY <1>3
      <4>2. PICK q \in Nat : q = pos - g /\ StreamAt(client, q, From(client, field))
          BY <1>3, <1>6, <4>1
      <4>3. StreamAt(client, q + Len(Encoding(client, field)), From(client, After(field)))
          BY <1>1, <1>3, <4>2, NumberAt
      <4>4. PICK p \in Nat : p = pos
          BY <1>3
      <4>5. /\ q = p - g /\ g + 1 = Len(Encoding(client, field)) /\ pos' = p + 1 /\ g <= p
          BY <1>4, <1>6, <2>6, <4>1, <4>2, <4>4, Zenon
      <4>6. (p - g) + (g + 1) = p + 1
          BY SMT
      <4> QED
          BY <4>3, <4>5, <4>6, Zenon
    <3>2. AtField(field', pos', buf')
        BY <1>4, <1>5, <1>6, <3>1 DEF AtField
    <3> QED
        BY <1>1, <1>3, <1>5, <2>1, <3>2, Entered
  <2>8. /\ IsSeq(got') /\ GotFields' = GotFields \cup {field}
        /\ result = Meant(client, field)
              /\ (\A i \in 1..Len(got) : got[i].value = Meant(client, got[i].field))
           => \A i \in 1..Len(got') : got'[i].value = Meant(client, got'[i].field)
      BY <1>3, <2>1, GotStep
  <2>9. Meant(client, field) = Number(client, field)
      BY <1>1 DEF Meant, VarInts
  <2>10. FieldsInOrder'
    <3>1. field' \notin Over => GotFields' = Before(field')
        BY <1>3, <1>5, <2>2, <2>8, Zenon DEF Over
    <3>2. torn' => field' \notin {"length", "id", "version", "addrLen", "addr"}
      <4>1. torn => After(field) \notin {"length", "id", "version", "addrLen", "addr"}
          BY <1>1, <1>3 DEF VarInts, After
      <4> QED
          BY <1>1, <2>2, <4>1
    <3>3. ~torn' /\ field' # "error" =>
              \A i \in 1..Len(got') : got'[i].value = Meant(client', got'[i].field)
        BY <1>1, <1>3, <2>6, <2>8, <2>9
    <3> QED
        BY <3>1, <3>2, <3>3, Zenon DEF FieldsInOrder
  <2>11. SentAtEnd' /\ IsSeq(sent')
      BY <1>1, <1>3, <2>2, Zenon DEF SentAtEnd, Over
  <2> QED
      BY <1>4, <2>3, <2>4, <2>7, <2>8, <2>10, <2>11 DEF ShakeInv
<1> QED
    BY <1>2, <1>10, <1>11

\* The bytes of a field that is read into a buffer of its size.
Bytes(g, f) ==
    CASE f = "addr" -> g.addr
      [] f = "port" -> <<g.port \div 256, g.port % 256>>
      [] f = "payload" -> g.payload
ByteFields == {"addr", "port", "payload"}

\* What such a field holds, and what follows it.
LEMMA BytesField ==
    ASSUME NEW g \in Greetings
    PROVE  /\ \A f \in ByteFields : Bytes(g, f) \in Seq(Nat) /\ Len(Bytes(g, f)) \in Nat
           /\ Len(Bytes(g, "addr")) = Len(g.addr) /\ Len(Bytes(g, "port")) = 2
           /\ Len(Bytes(g, "payload")) = 8
           /\ Uint16(Bytes(g, "port")) = g.port
           /\ \A f \in ByteFields : f # "payload" =>
                  /\ From(g, f) = Bytes(g, f) \o From(g, After(f))
                  /\ After(f) \in Reading
           /\ From(g, "payload") = Bytes(g, "payload") \o << >>
<1>1. /\ Bytes(g, "addr") = g.addr /\ Bytes(g, "payload") = g.payload
      /\ Bytes(g, "port") = <<g.port \div 256, g.port % 256>>
    BY DEF Bytes
<1>2. /\ g.addr \in Seq(Nat) /\ g.payload \in Seq(Nat) /\ Len(g.payload) = 8
      /\ <<g.port \div 256, g.port % 256>> \in Seq(Nat) /\ g.port \in PortRange
    BY Parts
<1>3. \A p \in PortRange : (p \div 256) * 256 + (p % 256) = p
    BY SMT DEF PortRange
<1>4. \A x, y : Len(<<x, y>>) = 2 /\ Uint16(<<x, y>>) = x * 256 + y
    BY SMT DEF Uint16
<1>5. Uint16(Bytes(g, "port")) = g.port /\ Len(Bytes(g, "port")) = 2
    BY <1>1, <1>2, <1>3, <1>4
<1>6. \A f \in ByteFields : Bytes(g, f) \in Seq(Nat)
    BY <1>1, <1>2 DEF ByteFields
<1>7. \A f \in ByteFields : Len(Bytes(g, f)) \in Nat
    BY <1>6
<1>8. /\ From(g, "addr") = Bytes(g, "addr") \o From(g, After("addr")) /\ After("addr") \in Reading
      /\ From(g, "port") = Bytes(g, "port") \o From(g, After("port")) /\ After("port") \in Reading
    BY ZenonT(40) DEF From, Bytes, After, FromAddr, FromPort, Reading, VarInts
<1>9. From(g, "payload") = Bytes(g, "payload") \o << >>
  <2>1. From(g, "payload") = Bytes(g, "payload")
      BY DEF From, FromPayload, Bytes
  <2>2. \A s \in Seq(Nat) : s \o << >> = s
      BY ConcatEmptySeq
  <2> QED
      BY <1>6, <2>1, <2>2 DEF ByteFields
<1> QED
    BY <1>1, <1>5, <1>6, <1>7, <1>8, <1>9, <1>2 DEF ByteFields

\* A buffer that was filled is the bytes that were copied.
LEMMA PaddedIs ==
    ASSUME NEW s \in Seq(Nat), NEW c \in Seq(Nat), Len(c) = Len(s),
           \A i \in 1..Len(s) : c[i] = s[i]
    PROVE  Padded(c, Len(s)) = s
<1>1. PICK n \in Nat : n = Len(s)
    OBVIOUS
<1>2. s = [i \in 1..n |-> s[i]]
    BY <1>1
<1>3. \A i \in 1..n : i <= Len(c) /\ c[i] = s[i]
    BY <1>1
<1>4. Padded(c, n) = [i \in 1..n |-> s[i]]
    BY <1>3 DEF Padded
<1> QED
    BY <1>1, <1>2, <1>4

\* The size of a field that is read next: only a whole address is waited for.
LEMMA SizeIs ==
    ASSUME ShakeInv, field \in Reading
    PROVE  /\ Size(field) \in Nat
           /\ ~torn /\ field \in ByteFields => Size(field) = Len(Bytes(client, field))
<1>1. client \in Greetings
    BY DEF ShakeInv, BytesKept
<1>2. CASE field \in VarInts
    BY <1>2 DEF Size, VarInts, ByteFields
<1>3. CASE field = "addr"
  <2>1. ~torn /\ GotFields = Before("addr")
    <3>1. field \notin Over /\ field # "error"
        BY <1>3 DEF Over
    <3> QED
        BY <1>3, <3>1, Zenon DEF ShakeInv, FieldsInOrder
  <2>2. \A i \in 1..Len(got) : got[i].value = Meant(client, got[i].field)
    <3>1. field # "error"
        BY <1>3
    <3> QED
        BY <2>1, <3>1, Zenon DEF ShakeInv, FieldsInOrder
  <2>3. "addrLen" \in Before("addr")
      BY DEF Before, Place, Reading, VarInts
  <2>4. PICK i \in 1..Len(got) : got[i].field = "addrLen" /\ Value("addrLen") = got[i].value
      BY <2>1, <2>3, ValueIs
  <2>5. Value("addrLen") = Meant(client, "addrLen")
      BY <2>2, <2>4
  <2>6. Meant(client, "addrLen") = Len(client.addr)
      BY DEF Meant, VarInts, Number
  <2>7. Size(field) = Value("addrLen")
      BY <1>3 DEF Size, VarInts
  <2>8. Len(client.addr) = Len(Bytes(client, "addr")) /\ Len(client.addr) \in Nat
      BY <1>1, BytesField, Parts
  <2> QED
      BY <1>3, <2>5, <2>6, <2>7, <2>8
<1>4. CASE field = "port"
  <2>1. Size(field) = 2
      BY <1>4 DEF Size, VarInts
  <2>2. Len(Bytes(client, "port")) = 2
      BY <1>1, BytesField
  <2>3. Size(field) \in Nat
      BY <2>1
  <2>4. Size(field) = Len(Bytes(client, field))
      BY <1>4, <2>1, <2>2, Zenon
  <2> QED
      BY <2>3, <2>4, Zenon
<1>5. CASE field = "payload"
  <2>1. Size(field) = 8
      BY <1>5 DEF Size, VarInts
  <2>2. Len(Bytes(client, "payload")) = 8
      BY <1>1, BytesField
  <2>3. Size(field) \in Nat
      BY <2>1
  <2>4. Size(field) = Len(Bytes(client, field))
      BY <1>5, <2>1, <2>2, Zenon
  <2> QED
      BY <2>3, <2>4, Zenon
<1> QED
    BY <1>2, <1>3, <1>4, <1>5 DEF Reading

\* What holds before a field is read.
LEMMA AtReading ==
    ASSUME ShakeInv, field \in Reading
    PROVE  /\ client \in Greetings /\ pos \in Nat /\ torn \in BOOLEAN
           /\ IsSeq(got) /\ IsSeq(sent) /\ BytesKept
           /\ GotFields = Before(field)
           /\ ~torn => \A i \in 1..Len(got) : got[i].value = Meant(client, got[i].field)
           /\ field \in ByteFields => varInt = [result |-> 0, groups |-> 0]
           /\ ~torn /\ field \in ByteFields =>
                  pos <= Len(buf) /\ StreamAt(client, pos, From(client, field))
<1>1. field \notin Over /\ field # "error"
    BY DEF Reading, VarInts, Over
<1>2. /\ client \in Greetings /\ pos \in Nat /\ torn \in BOOLEAN
      /\ IsSeq(got) /\ IsSeq(sent) /\ BytesKept
    BY Zenon DEF ShakeInv, ShakeTypeOK, BytesKept
<1>3. /\ GotFields = Before(field)
      /\ ~torn => \A i \in 1..Len(got) : got[i].value = Meant(client, got[i].field)
    BY <1>1, Zenon DEF ShakeInv, FieldsInOrder
<1>4. field \in ByteFields => varInt = [result |-> 0, groups |-> 0]
  <2>1. field \in ByteFields => field \notin VarInts \cup {"error"}
      BY DEF ByteFields, VarInts
  <2> QED
      BY <2>1, Zenon DEF ShakeInv, GroupsBounded
<1>5. ~torn /\ field \in ByteFields =>
          pos <= Len(buf) /\ StreamAt(client, pos, From(client, field))
  <2> SUFFICES ASSUME ~torn, field \in ByteFields
               PROVE  pos <= Len(buf) /\ StreamAt(client, pos, From(client, field))
      OBVIOUS
  <2>1. varInt.groups = 0
      BY <1>4
  <2>2. pos - 0 = pos
      BY <1>2
  <2>3. pos <= Len(buf) /\ StreamAt(client, pos - varInt.groups, From(client, field))
      BY <1>1, Zenon DEF ShakeInv, InPlace
  <2> QED
      BY <2>1, <2>2, <2>3
<1> QED
    BY <1>2, <1>3, <1>4, <1>5

\* A buffer is read: it is torn, or it is the client's field.
LEMMA BytesStep ==
    ASSUME ShakeInv, field \in ByteFields, ReadBytes
    PROVE  /\ BytesKept' /\ pos' \in Nat /\ torn' \in BOOLEAN
           /\ client' = client /\ varInt' = [result |-> 0, groups |-> 0]
           /\ IsSeq(got') /\ GotFields' = GotFields \cup {field}
           /\ ~torn' =>
                 /\ ~torn /\ pos' <= Len(buf') /\ pos' = pos + Len(Bytes(client, field))
                 /\ Last(got').value = Meant(client, field)
                 /\ \A i \in 1..Len(got') : got'[i].value = Meant(client, got'[i].field)
<1> DEFINE k == Size(field)
           c == Copied(k)
           v == IF field = "port" THEN Uint16(Padded(c, k)) ELSE Padded(c, k)
<1>0. field \in Reading
    BY DEF ByteFields, Reading
<1>1. PICK n \in 0..Len(wire) :
          /\ Read(k, n) /\ torn' = (torn \/ Len(c) < k) /\ Got(field, v)
    BY Zenon DEF ReadBytes
<1>2. client' = client /\ varInt' = varInt /\ InRange
    BY Zenon DEF ReadBytes
<1>3. k \in Nat /\ (~torn => k = Len(Bytes(client, field)))
    BY <1>0, SizeIs
<1>4. /\ client \in Greetings /\ pos \in Nat /\ torn \in BOOLEAN
      /\ IsSeq(got) /\ BytesKept
      /\ ~torn => \A i \in 1..Len(got) : got[i].value = Meant(client, got[i].field)
      /\ varInt = [result |-> 0, groups |-> 0]
      /\ ~torn => pos <= Len(buf) /\ StreamAt(client, pos, From(client, field))
    BY <1>0, AtReading
<1>5. c = SubSeq(buf', pos + 1, IF pos + k <= Len(buf') THEN pos + k ELSE Len(buf'))
    BY DEF Copied
<1> HIDE DEF c
<1>6. PICK m \in Nat : m = k
    BY <1>3
<1> HIDE DEF k
<1>7. /\ BytesKept' /\ pos' = pos + m
      /\ \A i \in 1..Len(buf') : buf'[i] = Stream(client)[i]
    BY <1>1, <1>2, <1>4, <1>6, ReadKeeps
<1>8. PICK s \in Seq(Nat) : s = buf'
    BY <1>7 DEF BytesKept
<1>9. /\ IsSeq(got') /\ GotFields' = GotFields \cup {field}
      /\ Last(got').value = v
      /\ \A g : v = Meant(g, field)
                   /\ (\A i \in 1..Len(got) : got[i].value = Meant(g, got[i].field))
             => \A i \in 1..Len(got') : got'[i].value = Meant(g, got'[i].field)
    BY <1>1, <1>4, GotStep
<1>10. torn' \in BOOLEAN
    BY <1>1, Zenon
<1>11. ASSUME ~torn'
       PROVE  /\ ~torn /\ pos' <= Len(buf') /\ pos' = pos + Len(Bytes(client, field))
              /\ v = Meant(client, field)
  <2>1. ~torn /\ ~(Len(c) < m)
      BY <1>1, <1>6, <1>11
  <2>2. PICK b \in Seq(Nat) : b = Bytes(client, field)
      BY <1>4, BytesField
  <2>3. m = Len(b)
      BY <1>3, <1>6, <2>1, <2>2
  <2>4. PICK r \in Seq(Nat) : StreamAt(client, pos, b \o r)
    <3>1. CASE field = "payload"
      <4>1. From(client, field) = b \o << >> /\ << >> \in Seq(Nat)
          BY <1>4, <2>2, <3>1, BytesField
      <4> QED
          BY <1>4, <2>1, <4>1
    <3>2. CASE field # "payload"
      <4>1. From(client, field) = b \o From(client, After(field)) /\ After(field) \in Reading
          BY <1>4, <2>2, <3>2, BytesField
      <4>2. From(client, After(field)) \in Seq(Nat)
          BY <1>4, <4>1, FromBytes
      <4> QED
          BY <1>4, <2>1, <4>1, <4>2
    <3> QED
        BY <3>1, <3>2
  <2>5. \A i \in 1..Len(b) : Stream(client)[pos + i] = b[i]
    <3>1. BytesAt(client, pos, b)
        BY <1>4, <2>4, Advance
    <3> QED
        BY <3>1 DEF BytesAt
  <2>6. pos <= Len(s)
      BY <1>2, <1>8 DEF InRange
  <2>7. /\ c \in Seq(Nat) /\ Len(c) \in Nat
        /\ Len(c) >= m <=> pos + m <= Len(s)
        /\ Len(c) >= m => Len(c) = m /\ \A i \in 1..m : c[i] = s[pos + i]
    <3>1. c = SubSeq(s, pos + 1, IF pos + m <= Len(s) THEN pos + m ELSE Len(s))
        BY <1>5, <1>6, <1>8
    <3>2. pos \in Nat
        BY <1>4
    <3> QED
        BY <2>6, <3>1, <3>2, CopiedIs, SMTT(30)
  <2>8. Len(c) >= m
      BY <2>1, <2>7
  <2>9. pos + m <= Len(s) /\ Len(c) = m /\ \A i \in 1..m : c[i] = s[pos + i]
      BY <2>7, <2>8
  <2>10. \A i \in 1..m : c[i] = b[i]
    <3> SUFFICES ASSUME NEW i \in 1..m PROVE c[i] = b[i]
        OBVIOUS
    <3>1. c[i] = s[pos + i]
        BY <2>9
    <3>2. pos + i \in 1..Len(s)
        BY <1>4, <2>9
    <3>3. s[pos + i] = Stream(client)[pos + i]
        BY <1>7, <1>8, <3>2
    <3>4. Stream(client)[pos + i] = b[i]
        BY <2>3, <2>5
    <3> QED
        BY <3>1, <3>3, <3>4
  <2>11. Padded(c, m) = b
      BY <2>3, <2>7, <2>9, <2>10, PaddedIs
  <2>12. v = Meant(client, field)
    <3>1. CASE field = "port"
      <4>1. Meant(client, field) = client.port
          BY <3>1 DEF Meant, VarInts
      <4>2. v = Uint16(Padded(c, k))
          BY <3>1
      <4> QED
          BY <1>4, <1>6, <2>2, <2>11, <3>1, <4>1, <4>2, BytesField
    <3>2. CASE field # "port"
      <4>1. Meant(client, field) = Bytes(client, field)
          BY <3>2 DEF Meant, Bytes, ByteFields, VarInts
      <4>2. v = Padded(c, k)
          BY <3>2
      <4> QED
          BY <1>6, <2>2, <2>11, <4>1, <4>2
    <3> QED
        BY <3>1, <3>2
  <2>13. pos' <= Len(buf')
      BY <1>7, <1>8, <2>9
  <2> QED
      BY <1>7, <2>1, <2>2, <2>3, <2>12, <2>13
<1>12. pos' \in Nat
    BY <1>4, <1>7
<1> HIDE DEF v
<1> QED
    BY <1>2, <1>4, <1>7, <1>9, <1>10, <1>11, <1>12

\* The address or the port: the next field begins behind it.
LEMMA FieldStep == ShakeInv /\ (ReadAddr \/ ReadShort) => ShakeInv'
<1> SUFFICES ASSUME ShakeInv, ReadAddr \/ ReadShort PROVE ShakeInv'
    OBVIOUS
<1>1. /\ field \in {"addr", "port"} /\ ReadBytes
      /\ field' = After(field) /\ UNCHANGED sent
    BY Zenon DEF ReadAddr, ReadShort
<1>2. field \in ByteFields /\ field \in Reading /\ field # "payload"
    BY <1>1 DEF ByteFields, Reading
<1>3. /\ BytesKept' /\ pos' \in Nat /\ torn' \in BOOLEAN
      /\ client' = client /\ varInt' = [result |-> 0, groups |-> 0]
      /\ IsSeq(got') /\ GotFields' = GotFields \cup {field}
      /\ ~torn' =>
            /\ ~torn /\ pos' <= Len(buf') /\ pos' = pos + Len(Bytes(client, field))
            /\ \A i \in 1..Len(got') : got'[i].value = Meant(client, got'[i].field)
    BY <1>1, <1>2, BytesStep
<1>4. /\ client \in Greetings /\ pos \in Nat /\ IsSeq(sent) /\ GotFields = Before(field)
      /\ ~torn => StreamAt(client, pos, From(client, field))
    BY <1>2, AtReading
<1>5. /\ After(field) \in Reading \cup {"handled", "status"} /\ After(field) \notin Over
      /\ Before(After(field)) = Before(field) \cup {field}
    BY <1>1, NextPlace
<1>6. field' # "done" /\ field' # "error"
    BY <1>1, <1>5 DEF Over
<1>7. varInt'.groups = 0
    BY <1>3
<1>8. ShakeTypeOK'
  <2>1. field' \in Reading \cup {"handled", "status", "done", "error"}
      BY <1>1, <1>5, Zenon
  <2>2. varInt'.groups \in 0..5
      BY <1>7
  <2> QED
      BY <1>3, <2>1, <2>2 DEF ShakeTypeOK
<1>9. GroupsBounded'
    BY <1>3, <1>7 DEF GroupsBounded
<1>10. InPlace'
  <2>1. CASE torn'
      BY <2>1, Zenon DEF InPlace
  <2>2. CASE ~torn'
    <3>1. PICK r \in Seq(Nat) : r = From(client, After(field))
        BY <1>4, <1>5, FromBytes
    <3>2. PICK b \in Seq(Nat) : b = Bytes(client, field)
        BY <1>2, <1>4, BytesField
    <3>3. From(client, field) = b \o r
        BY <1>2, <1>4, <3>1, <3>2, BytesField
    <3>4. StreamAt(client, pos + Len(b), r)
        BY <1>3, <1>4, <2>2, <3>3, Advance
    <3>5. StreamAt(client, pos', From(client, After(field))) /\ pos' <= Len(buf')
        BY <1>3, <2>2, <3>1, <3>2, <3>4
    <3>6. AtField(field', pos', buf')
        BY <1>1, <1>3, <1>5, <3>5, Zenon DEF AtField
    <3> QED
        BY <1>1, <1>3, <1>4, <1>5, <3>6, Entered
  <2> QED
      BY <2>1, <2>2
<1>11. FieldsInOrder'
  <2>1. GotFields' = Before(field')
      BY <1>1, <1>3, <1>4, <1>5, Zenon
  <2>2. field' \notin {"length", "id", "version", "addrLen", "addr"}
      BY <1>1 DEF After
  <2> QED
      BY <1>3, <2>1, <2>2, Zenon DEF FieldsInOrder
<1>12. SentAtEnd' /\ IsSeq(sent')
    BY <1>1, <1>4, <1>6, Zenon DEF SentAtEnd
<1> QED
    BY <1>3, <1>8, <1>9, <1>10, <1>11, <1>12 DEF ShakeInv

\* The payload of a ping is written back.
LEMMA PingStep == ShakeInv /\ HandlePingPong => ShakeInv'
<1> SUFFICES ASSUME ShakeInv, HandlePingPong PROVE ShakeInv'
    OBVIOUS
<1>1. /\ field = "payload" /\ ReadBytes
      /\ \/ field' = "done" /\ sent' = Append(sent, <<9, 1>> \o Last(got').value)
         \/ field' = "error" /\ UNCHANGED sent
    BY Zenon DEF HandlePingPong
<1>2. field \in ByteFields /\ field \in Reading
    BY <1>1 DEF ByteFields, Reading
<1>3. /\ BytesKept' /\ pos' \in Nat /\ torn' \in BOOLEAN
      /\ client' = client /\ varInt' = [result |-> 0, groups |-> 0]
      /\ IsSeq(got') /\ GotFields' = GotFields \cup {field}
      /\ ~torn' =>
            /\ Last(got').value = Meant(client, field)
            /\ \A i \in 1..Len(got') : got'[i].value = Meant(client, got'[i].field)
    BY <1>1, <1>2, BytesStep
<1>4. IsSeq(sent) /\ GotFields = Before(field)
    BY <1>2, AtReading
<1>5. GotFields' = Reading
    BY <1>1, <1>3, <1>4, NextPlace
<1>6. field' \in Over
    BY <1>1 DEF Over
<1>7. ShakeTypeOK'
  <2>1. varInt'.groups \in 0..5
      BY <1>3
  <2>2. field' \in Reading \cup {"handled", "status", "done", "error"}
      BY <1>1
  <2> QED
      BY <1>3, <2>1, <2>2 DEF ShakeTypeOK
<1>8. GroupsBounded'
  <2>1. field' \notin VarInts
      BY <1>6 DEF Over, VarInts
  <2> QED
      BY <1>3, <2>1, Zenon DEF GroupsBounded
<1>9. InPlace'
    BY <1>6, Zenon DEF InPlace
<1>10. FieldsInOrder'
  <2>1. field' \notin {"length", "id", "version", "addrLen", "addr"}
      BY <1>1
  <2> QED
      BY <1>3, <1>6, <2>1, Zenon DEF FieldsInOrder
<1>11. SentAtEnd' /\ IsSeq(sent')
  <2>1. CASE field' = "done" /\ sent' = Append(sent, <<9, 1>> \o Last(got').value)
    <3>1. PICK x : x = <<9, 1>> \o Last(got').value
        OBVIOUS
    <3>2. IsSeq(sent') /\ Last(sent') = x
        BY <1>4, <2>1, <3>1, Appended
    <3>3. ~torn' => x = <<9, 1>> \o client'.payload
      <4>1. Meant(client, "payload") = client.payload
          BY DEF Meant, VarInts
      <4> QED
          BY <1>1, <1>3, <3>1, <4>1
    <3> QED
        BY <1>5, <3>2, <3>3, Zenon DEF SentAtEnd
  <2>2. CASE field' = "error" /\ UNCHANGED sent
    <3>1. field' # "done"
        BY <2>2
    <3> QED
        BY <1>4, <2>2, <3>1, Zenon DEF SentAtEnd
  <2> QED
      BY <1>1, <2>1, <2>2
<1> QED
    BY <1>3, <1>7, <1>8, <1>9, <1>10, <1>11 DEF ShakeInv

\* The steps that read nothing: where the reader is stays where it is.
LEMMA AtRest ==
    ASSUME ShakeInv, field \in {"status", "handled"}
    PROVE  /\ client \in Greetings /\ torn \in BOOLEAN /\ pos \in Nat /\ BytesKept
           /\ IsSeq(got) /\ IsSeq(sent)
           /\ varInt = [result |-> 0, groups |-> 0]
           /\ GotFields = Before(field)
           /\ ~torn => \A i \in 1..Len(got) : got[i].value = Meant(client, got[i].field)
           /\ ~torn => pos <= Len(buf) /\ StreamAt(client, pos, From(client, field))
<1>1. field \notin Over /\ field # "error" /\ field \notin VarInts \cup {"error"}
    BY DEF Over, VarInts
<1>2. /\ client \in Greetings /\ torn \in BOOLEAN /\ pos \in Nat /\ BytesKept
      /\ IsSeq(got) /\ IsSeq(sent)
    BY Zenon DEF ShakeInv, ShakeTypeOK, BytesKept
<1>3. varInt = [result |-> 0, groups |-> 0]
    BY <1>1, Zenon DEF ShakeInv, GroupsBounded
<1>4. /\ GotFields = Before(field)
      /\ ~torn => \A i \in 1..Len(got) : got[i].value = Meant(client, got[i].field)
    BY <1>1, Zenon DEF ShakeInv, FieldsInOrder
<1>5. ASSUME ~torn
      PROVE  pos <= Len(buf) /\ StreamAt(client, pos, From(client, field))
  <2>1. varInt.groups = 0 /\ pos - 0 = pos
      BY <1>2, <1>3
  <2>2. pos <= Len(buf) /\ StreamAt(client, pos - varInt.groups, From(client, field))
      BY <1>1, <1>5, Zenon DEF ShakeInv, InPlace
  <2> QED
      BY <2>1, <2>2
<1> QED
    BY <1>2, <1>3, <1>4, <1>5

\* Nothing is read before the next field.
LEMMA Onward ==
    ASSUME ShakeInv, field \in {"status", "handled"},
           field' \in {"statusLength", "pingLength"},
           ~torn => From(client, field') = From(client, field),
           Before(field') = Before(field), IsSeq(sent'),
           UNCHANGED <<client, wire, buf, pos, varInt, got, torn>>
    PROVE  ShakeInv'
<1>1. /\ client \in Greetings /\ torn \in BOOLEAN /\ pos \in Nat /\ BytesKept
      /\ IsSeq(got) /\ varInt = [result |-> 0, groups |-> 0]
      /\ GotFields = Before(field)
      /\ ~torn => \A i \in 1..Len(got) : got[i].value = Meant(client, got[i].field)
      /\ ~torn => pos <= Len(buf) /\ StreamAt(client, pos, From(client, field))
    BY AtRest
<1>2. /\ client' = client /\ wire' = wire /\ buf' = buf /\ pos' = pos /\ varInt' = varInt
      /\ got' = got /\ torn' = torn
    OBVIOUS
<1>3. /\ field' \in VarInts /\ field' \notin Over /\ field' # "done" /\ field' # "error"
      /\ field' \notin {"length", "id", "version", "addrLen", "addr"} /\ field' \in Reading
    BY DEF VarInts, Over, Reading
<1>4. varInt.groups = 0
    BY <1>1
<1>5. BytesKept'
    BY <1>1, <1>2 DEF BytesKept
<1>6. ShakeTypeOK'
  <2>1. varInt'.groups \in 0..5
      BY <1>2, <1>4
  <2>2. field' \in Reading \cup {"handled", "status", "done", "error"}
      BY <1>3, Zenon
  <2> QED
      BY <1>1, <1>2, <2>1, <2>2 DEF ShakeTypeOK
<1>7. GroupsBounded'
    BY <1>1, <1>2, <1>4 DEF GroupsBounded
<1>8. InPlace'
  <2>1. CASE torn'
      BY <2>1, Zenon DEF InPlace
  <2>2. CASE ~torn'
    <3>1. AtField(field', pos', buf')
      <4>1. pos <= Len(buf) /\ StreamAt(client, pos, From(client, field'))
          BY <1>1, <1>2, <2>2
      <4> QED
          BY <1>1, <1>2, <1>3, <4>1, Zenon DEF AtField
    <3>2. varInt' = [result |-> 0, groups |-> 0]
        BY <1>1, <1>2
    <3> QED
        BY <1>1, <1>2, <1>3, <3>1, <3>2, Entered
  <2> QED
      BY <2>1, <2>2
<1>9. FieldsInOrder'
  <2>1. GotFields' = GotFields
      BY <1>2 DEF GotFields
  <2>2. GotFields' = Before(field')
      BY <1>1, <2>1
  <2>3. ~torn' =>
            \A i \in 1..Len(got') : got'[i].value = Meant(client', got'[i].field)
      BY <1>1, <1>2
  <2> QED
      BY <1>3, <2>2, <2>3, Zenon DEF FieldsInOrder
<1>10. SentAtEnd' /\ IsSeq(got')
    BY <1>1, <1>2, <1>3, Zenon DEF SentAtEnd
<1> QED
    BY <1>5, <1>6, <1>7, <1>8, <1>9, <1>10 DEF ShakeInv

\* The connection ends: what was read stays.
LEMMA Ended ==
    ASSUME ShakeTypeOK, BytesKept', pos' \in Nat, field' \in Over,
           UNCHANGED <<client, varInt, got, torn>>, IsSeq(got), IsSeq(sent'), SentAtEnd',
           field' = "done" => varInt = [result |-> 0, groups |-> 0],
           field' = "done" /\ ~torn =>
               \A i \in 1..Len(got) : got[i].value = Meant(client, got[i].field)
    PROVE  ShakeInv'
<1>1. client' = client /\ varInt' = varInt /\ got' = got /\ torn' = torn
    OBVIOUS
<1>2. field' \notin VarInts /\ (field' = "done" \/ field' = "error")
      /\ field' \notin {"length", "id", "version", "addrLen", "addr"}
    BY DEF Over, VarInts
<1>3. ShakeTypeOK'
    BY <1>1, <1>2 DEF ShakeTypeOK
<1>4. GroupsBounded'
  <2>1. CASE field' = "done"
      BY <1>1, <1>2, <2>1, Zenon DEF GroupsBounded
  <2>2. CASE field' = "error"
    <3>1. field' \in VarInts \cup {"error"}
        BY <2>2
    <3> QED
        BY <1>2, <3>1, Zenon DEF GroupsBounded
  <2> QED
      BY <1>2, <2>1, <2>2
<1>5. InPlace'
    BY Zenon DEF InPlace
<1>6. FieldsInOrder'
  <2>1. field' # "error" => field' = "done"
      BY <1>2
  <2>2. ~torn' /\ field' # "error" =>
            \A i \in 1..Len(got') : got'[i].value = Meant(client', got'[i].field)
      BY <1>1, <2>1
  <2> QED
      BY <1>2, <2>2, Zenon DEF FieldsInOrder
<1> QED
    BY <1>1, <1>3, <1>4, <1>5, <1>6 DEF ShakeInv

\* The status is written.
LEMMA StatusStep == ShakeInv /\ WriteStatus => ShakeInv'
<1> SUFFICES ASSUME ShakeInv, WriteStatus PROVE ShakeInv'
    OBVIOUS
<1>1. PICK x : sent' = Append(sent, x)
    BY Zenon DEF WriteStatus
<1>2. /\ field = "status" /\ field' = "pingLength"
      /\ UNCHANGED <<client, wire, buf, pos, varInt, got, torn>>
    BY Zenon DEF WriteStatus
<1>3. IsSeq(sent)
    BY Zenon DEF ShakeInv
<1>4. IsSeq(sent')
    BY <1>1, <1>3, Appended
<1>5. From(client, "pingLength") = From(client, "status")
    BY DEF From
<1>6. Before("pingLength") = Before("status")
    BY NextPlace
<1> QED
    BY <1>2, <1>4, <1>5, <1>6, Onward

\* The bytes go to the server, or the proxy goes on by itself.
LEMMA HandledStep == ShakeInv /\ HandleConn => ShakeInv'
<1> SUFFICES ASSUME ShakeInv, HandleConn PROVE ShakeInv'
    OBVIOUS
<1>1. /\ field = "handled"
      /\ UNCHANGED <<client, wire, buf, pos, varInt, got, torn>>
      /\ \/ field' = "done" /\ sent' = <<buf>>
         \/ Value("next") = 1 /\ field' = "statusLength" /\ UNCHANGED sent
         \/ field' = "error" /\ UNCHANGED sent
    BY Zenon DEF HandleConn
<1>2. /\ client \in Greetings /\ torn \in BOOLEAN /\ pos \in Nat /\ BytesKept
      /\ IsSeq(got) /\ IsSeq(sent)
      /\ varInt = [result |-> 0, groups |-> 0]
      /\ GotFields = Before("handled")
      /\ ~torn => \A i \in 1..Len(got) : got[i].value = Meant(client, got[i].field)
    BY <1>1, AtRest
<1>3. ShakeTypeOK
    BY Zenon DEF ShakeInv
<1>4. BytesKept' /\ pos' \in Nat
    BY <1>1, <1>2 DEF BytesKept
<1>5. CASE field' = "done" /\ sent' = <<buf>>
  <2>1. IsSeq(sent')
    <3>1. \A T : \A x \in T : <<x>> \in Seq(T)
        OBVIOUS
    <3>2. <<buf>> \in Seq({buf})
        BY <3>1
    <3> QED
        BY <1>5, <3>2 DEF IsSeq
  <2>2. GotFields' = Before("handled") /\ sent' = <<buf'>>
    <3>1. got' = got /\ buf' = buf
        BY <1>1
    <3> QED
        BY <1>2, <1>5, <3>1, Zenon DEF GotFields
  <2>3. SentAtEnd'
      BY <2>2, Zenon DEF SentAtEnd
  <2>4. field' \in Over
      BY <1>5 DEF Over
  <2> QED
      BY <1>1, <1>2, <1>3, <1>4, <2>1, <2>3, <2>4, Ended
<1>6. CASE field' = "error" /\ UNCHANGED sent
  <2>1. IsSeq(sent') /\ field' # "done" /\ field' \in Over
      BY <1>2, <1>6 DEF Over
  <2>2. SentAtEnd'
      BY <2>1, Zenon DEF SentAtEnd
  <2> QED
      BY <1>1, <1>2, <1>3, <1>4, <2>1, <2>2, Ended
<1>7. CASE Value("next") = 1 /\ field' = "statusLength" /\ UNCHANGED sent
  <2>1. ~torn => From(client, "statusLength") = From(client, "handled")
    <3> SUFFICES ASSUME ~torn PROVE From(client, "statusLength") = From(client, "handled")
        OBVIOUS
    <3>1. "next" \in Before("handled")
        BY DEF Before, Place, Reading, VarInts
    <3>2. PICK i \in 1..Len(got) : got[i].field = "next" /\ Value("next") = got[i].value
        BY <1>2, <3>1, ValueIs
    <3>3. Meant(client, "next") = client.next
        BY DEF Meant, VarInts, Number
    <3>4. client.next = 1
        BY <1>2, <1>7, <3>2, <3>3
    <3> QED
        BY <3>4 DEF From, FromHandled
  <2>2. Before("statusLength") = Before("handled")
      BY NextPlace
  <2>3. IsSeq(sent')
      BY <1>2, <1>7
  <2> QED
      BY <1>1, <1>7, <2>1, <2>2, <2>3, Onward
<1> QED
    BY <1>1, <1>5, <1>6, <1>7

\* The connection breaks, or a read is out of range.
LEMMA FailStep == ShakeInv /\ ReadFails => ShakeInv'
<1> SUFFICES ASSUME ShakeInv, ReadFails PROVE ShakeInv'
    OBVIOUS
<1>1. /\ field \in Reading /\ field' = "error"
      /\ \/ UNCHANGED <<wire, buf, pos>>
         \/ \E n \in 0..Len(wire) : Read(Size(field), n)
      /\ UNCHANGED <<client, varInt, got, torn, sent>>
    BY Zenon DEF ReadFails
<1>2. /\ client \in Greetings /\ pos \in Nat /\ BytesKept /\ IsSeq(got) /\ IsSeq(sent)
      /\ Size(field) \in Nat
    BY <1>1, AtReading, SizeIs
<1>3. BytesKept' /\ pos' \in Nat
  <2>1. CASE UNCHANGED <<wire, buf, pos>>
      BY <1>1, <1>2, <2>1 DEF BytesKept
  <2>2. ASSUME NEW n \in 0..Len(wire), Read(Size(field), n) PROVE BytesKept' /\ pos' \in Nat
    <3>1. PICK k \in Nat : k = Size(field)
        BY <1>2
    <3>2. Read(k, n) /\ client' = client
        BY <1>1, <2>2, <3>1
    <3>3. BytesKept' /\ pos' = pos + k
        BY <1>2, <3>2, ReadKeeps
    <3> QED
        BY <1>2, <3>3
  <2> QED
      BY <1>1, <2>1, <2>2
<1>4. ShakeTypeOK
    BY Zenon DEF ShakeInv
<1>5. field' \in Over /\ field' # "done" /\ sent' = sent
    BY <1>1 DEF Over
<1>6. SentAtEnd' /\ IsSeq(sent')
    BY <1>2, <1>5, Zenon DEF SentAtEnd
<1> QED
    BY <1>1, <1>2, <1>3, <1>4, <1>5, <1>6, Ended

\* At the beginning the reader is at the first byte.
LEMMA ShakeStarts == ShakeInit => ShakeInv
<1> SUFFICES ASSUME ShakeInit PROVE ShakeInv
    OBVIOUS
<1>1. /\ client \in Greetings /\ wire = Stream(client) /\ buf = << >> /\ pos = 0
      /\ field = "length" /\ varInt = [result |-> 0, groups |-> 0]
      /\ got = << >> /\ torn = FALSE /\ sent = << >>
    BY Zenon DEF ShakeInit
<1>2. field \in VarInts /\ field \in Reading /\ field \notin Over /\ field # "done"
    BY <1>1 DEF VarInts, Reading, Over
<1>3. varInt.groups = 0 /\ varInt.result = 0
    BY <1>1
<1>4. ShakeTypeOK
  <2>1. varInt.groups \in 0..5 /\ pos \in Nat
      BY <1>1, <1>3
  <2>2. torn \in BOOLEAN /\ field \in Reading \cup {"handled", "status", "done", "error"}
      BY <1>1, <1>2, Zenon
  <2> QED
      BY <2>1, <2>2 DEF ShakeTypeOK
<1>5. Stream(client) = From(client, "length") /\ Stream(client) \in Seq(Nat)
    BY <1>1, StreamIs
<1>6. BytesKept
  <2>1. \A s \in Seq(Nat) : << >> \o s = s /\ << >> \in Seq(Nat)
      BY ConcatEmptySeq
  <2> QED
      BY <1>1, <1>5, <2>1 DEF BytesKept
<1>7. GroupsBounded
  <2>1. varInt.groups <= 4
      BY <1>3
  <2> QED
      BY <1>2, <2>1, Zenon DEF GroupsBounded
<1>8. InPlace
  <2>1. PICK s \in Seq(Nat) : s = Stream(client)
      BY <1>5
  <2>2. Len(s) = 0 + Len(s) /\ \A i \in 1..Len(s) : s[0 + i] = s[i]
      BY <2>1
  <2>3. StreamAt(client, 0, s)
      BY <2>1, <2>2 DEF StreamAt
  <2>4. pos - varInt.groups = 0 /\ pos <= Len(buf) /\ varInt.groups <= pos
      BY <1>1, <1>3
  <2>5. StreamAt(client, pos - varInt.groups, From(client, field))
      BY <1>1, <1>5, <2>1, <2>3, <2>4
  <2>6. /\ varInt.groups < Len(Encoding(client, field))
        /\ varInt.result = Number(client, field) % Weight(varInt.groups)
    <3>1. /\ Number(client, field) \in VarIntRange
          /\ Len(Encoding(client, field)) \in 1..5
        BY <1>1, <1>2, Numbers
    <3>2. \A n \in VarIntRange : n % 1 = 0
        BY SMT, FiveGroups
    <3>3. Weight(0) = 1
        BY SMT, Weights
    <3>4. Number(client, field) % Weight(0) = 0
        BY <3>1, <3>2, <3>3, Zenon
    <3>5. PICK l \in 1..5 : l = Len(Encoding(client, field))
        BY <3>1, Zenon
    <3>6. 0 < l
        OBVIOUS
    <3>7. 0 < Len(Encoding(client, field))
        BY <3>5, <3>6, Zenon
    <3> QED
        BY <1>3, <3>4, <3>7, Zenon
  <2> QED
      BY <2>4, <2>5, <2>6, Zenon DEF InPlace
<1>9. FieldsInOrder
  <2>1. GotFields = {} /\ \A i \in 1..Len(got) : FALSE
      BY <1>1 DEF GotFields
  <2>2. Before(field) = {}
      BY <1>1, NextPlace
  <2> QED
      BY <1>1, <2>1, <2>2, Zenon DEF FieldsInOrder
<1>10. IsSeq(got) /\ IsSeq(sent)
  <2>1. << >> \in Seq({})
      OBVIOUS
  <2> QED
      BY <1>1, <2>1 DEF IsSeq
<1>11. SentAtEnd
    BY <1>2, Zenon DEF SentAtEnd
<1> QED
    BY <1>4, <1>6, <1>7, <1>8, <1>9, <1>10, <1>11 DEF ShakeInv

\* What the invariant says of the end of the handshake.
LEMMA ReadRight == ShakeInv => HandshakeRead
<1> SUFFICES ASSUME ShakeInv PROVE HandshakeRead
    OBVIOUS
<1>1. \A f : WasRead(f) <=> f \in GotFields
    BY DEF WasRead, GotFields
<1>2. buf \o wire = Stream(client)
    BY Zenon DEF ShakeInv, BytesKept
<1>3. /\ Before("handled") \subseteq Reading /\ "pingId" \in Reading
      /\ "payload" \notin Before("handled")
      /\ {"version", "addr", "port", "next"} \subseteq Before("handled")
    BY DEF Before, Place, Reading, VarInts
<1>4. ASSUME field = "done", ~WasRead("pingId") PROVE sent[1] \o wire = Stream(client)
  <2>1. GotFields # Reading
      BY <1>1, <1>3, <1>4
  <2>2. sent = <<buf>>
      BY <1>4, <2>1, Zenon DEF ShakeInv, SentAtEnd
  <2>3. sent[1] = buf
      BY <2>2
  <2> QED
      BY <1>2, <2>3
<1>5. ASSUME ~torn, field \in {"handled", "done"}
      PROVE  /\ Value("version") = client.version /\ Value("addr") = client.addr
             /\ Value("port") = client.port /\ Value("next") = client.next
             /\ WasRead("payload") => Last(sent) = <<9, 1>> \o client.payload
  <2>1. \/ GotFields = Before("handled")
        \/ GotFields = Reading /\ Last(sent) = <<9, 1>> \o client.payload
    <3>1. CASE field = "handled"
      <4>1. field \notin Over
          BY <3>1 DEF Over
      <4> QED
          BY <3>1, <4>1, Zenon DEF ShakeInv, FieldsInOrder
    <3>2. CASE field = "done"
        BY <1>5, <3>2, Zenon DEF ShakeInv, SentAtEnd
    <3> QED
        BY <1>5, <3>1, <3>2
  <2>2. \A i \in 1..Len(got) : got[i].value = Meant(client, got[i].field)
    <3>1. field # "error"
        BY <1>5
    <3> QED
        BY <1>5, <3>1, Zenon DEF ShakeInv, FieldsInOrder
  <2>3. ASSUME NEW f \in {"version", "addr", "port", "next"} PROVE Value(f) = Meant(client, f)
    <3>1. f \in GotFields
        BY <1>3, <2>1
    <3>2. PICK i \in 1..Len(got) : got[i].field = f /\ Value(f) = got[i].value
        BY <3>1, ValueIs
    <3> QED
        BY <2>2, <3>2
  <2>4. /\ Meant(client, "version") = client.version /\ Meant(client, "addr") = client.addr
        /\ Meant(client, "port") = client.port /\ Meant(client, "next") = client.next
      BY DEF Meant, VarInts, Number
  <2>5. WasRead("payload") => Last(sent) = <<9, 1>> \o client.payload
      BY <1>1, <1>3, <2>1
  <2> QED
      BY <2>3, <2>4, <2>5
<1> QED
    BY <1>2, <1>4, <1>5, Zenon DEF HandshakeRead

\* Every step of the reader keeps the invariant.
LEMMA ShakeStep == ShakeInv /\ [ShakeNext]_shakeVars => ShakeInv'
<1> SUFFICES ASSUME ShakeInv, [ShakeNext]_shakeVars PROVE ShakeInv'
    OBVIOUS
<1>1. CASE ReadVarIntByte
    BY <1>1, VarIntStep
<1>2. CASE ReadAddr \/ ReadShort
    BY <1>2, FieldStep
<1>3. CASE HandlePingPong
    BY <1>3, PingStep
<1>4. CASE WriteStatus
    BY <1>4, StatusStep
<1>5. CASE HandleConn
    BY <1>5, HandledStep
<1>6. CASE ReadFails
    BY <1>6, FailStep
<1>7. CASE UNCHANGED shakeVars
  <2>1. /\ client' = client /\ wire' = wire /\ buf' = buf /\ pos' = pos /\ field' = field
        /\ varInt' = varInt /\ got' = got /\ torn' = torn /\ sent' = sent
      BY <1>7 DEF shakeVars
  <2> QED
      BY <2>1 DEF ShakeInv, ShakeTypeOK, BytesKept, GroupsBounded, InPlace, FieldsInOrder,
         SentAtEnd, GotFields
<1> QED
    BY <1>1, <1>2, <1>3, <1>4, <1>5, <1>6, <1>7, Zenon DEF ShakeNext

\* The types of the reader of the handshake.
THEOREM HandshakeTypes == ShakeSpec => []ShakeTypeOK
<1>1. ShakeInv => ShakeTypeOK
    BY Zenon DEF ShakeInv
<1> QED
    BY <1>1, ShakeStarts, ShakeStep, PTL DEF ShakeSpec

\* The handshake that the proxy reads is the client's, and its bytes are all forwarded.
THEOREM HandshakeWhole == ShakeSpec => []HandshakeRead
BY ShakeStarts, ShakeStep, ReadRight, PTL DEF ShakeSpec
=============================================================================
