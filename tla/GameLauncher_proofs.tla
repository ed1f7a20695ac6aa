------------------------ MODULE GameLauncher_proofs ------------------------
(***************************************************************************)
(* For any number of sessions, of failures and of edits: no server is      *)
(* given half a download, the key in the states names the local world      *)
(* unless RemoveState failed, the data directory is of the right version,  *)
(* and progress is lost only after an upload that failed or was cut short. *)
(***************************************************************************)
EXTENDS GameLauncher, TLAPS

Usable == {"whole", "torn"}

\* Revisions are worlds that a server ran on, or their archives cut short; what the
\* session asks for exists.
RemoteInv ==
    /\ Len(remote) >= 1
    /\ \A r \in DOMAIN remote : remote[r].dir \in Usable \cup {"cut"}
    /\ pc \in {"forget", "prepare"} /\ ~config.new => rev \in DOMAIN remote
    /\ pc \in {"save", "exited"} =>
          rev \in DOMAIN remote /\ remote[rev] \in {world, Archive("cut")}

\* Snapshots are of worlds that a server ran on.  Once the world is prepared it is
\* usable, or not there for the server to make it.
DiskInv ==
    /\ \A s \in Slots : snaps[s].dir \in Usable \cup {"absent"}
    /\ pc \in {"jar", "datadir", "record", "launch", "start"} =>
          world.dir \in Usable \cup {"absent"}
    /\ pc \in Serving \cup {"upload", "save"} => world.dir \in Usable
    /\ snapReq # 0 => pc \in Serving \cup {"upload", "save", "failed", "exited"}
    /\ restore # 0 /\ pc \in {"launch"} => snaps[restore].dir \in Usable \cup {"absent"}

\* Whatever is read from the states is empty, or encoded once more than what it is
\* compared with.
Encoded(text) == text = EmptyString \/ text.quotes = 1

\* Unless it has been left there, the key is in the states only while no process is
\* at work on the world.
KeyInv ==
    /\ ~states.ok => states = Broken
    /\ Encoded(states.world) /\ Encoded(oldKey)
    /\ states.world # EmptyString /\ ~keyLeft =>
          /\ pc \in {"down", "forget", "failed", "exited"}
          /\ states.world.of \in DOMAIN remote
          /\ remote[states.world.of] \in {world, Archive("cut")}

\* The recorded version never compares equal, so that each start cleans the data
\* directory; from there to the exit of the server it has one version.
VersionInv ==
    /\ Encoded(states.version)
    /\ pc \in {"record", "launch", "start"} \cup Serving => extras \in {0, version}

\* A world that is not being played has been uploaded, and so have the snapshots.
Saved(edits) == \A e \in edits : \E r \in DOMAIN remote : e \in remote[r].edits

ProgressInv == ~uploadFailed =>
    /\ pc \notin Serving \cup {"upload"} => Saved(world.edits)
    /\ pc \notin Serving \cup {"upload"} => \A s \in Slots : Saved(snaps[s].edits)
    /\ pc \in Serving \cup {"upload"} =>
          \A s \in Slots : Saved(snaps[s].edits \ world.edits)

Inv == TypeOK /\ RemoteInv /\ DiskInv /\ KeyInv /\ VersionInv /\ ProgressInv

-----------------------------------------------------------------------------

\* At first there is one uploaded revision, and nothing on the disk.
LEMMA InvInit == ASSUME Init PROVE Inv
<1> USE GameAssumption DEF GameAssumption, Init
<1>1. TypeOK
  <2>1. config.version \in Versions
    BY DEF Config
  <2>2. [dir |-> "whole", edits |-> {}, by |-> config.version] \in Content
    BY <2>1 DEF Content
  <2>3. remote \in Seq(Content) /\ Len(remote) = 1
    BY <2>2
  <2>4. EmptyString \in Text /\ Nothing("absent") \in Content
    BY DEF EmptyString, Plain, Text, Nothing, Content
  <2>5. states \in [ok : BOOLEAN, world : Text, version : Text]
    BY <2>4
  <2>6. world \in Content /\ snaps \in [Slots -> Content]
    BY <2>4
  <2>7. jar \in [Versions -> {"none", "partial", "whole"}] /\ version \in Versions
    BY <2>1
  <2>8. /\ pc = "down" /\ config \in Configs /\ rev = 0 /\ oldKey \in Text
        /\ restore = 0 /\ stop = "none" /\ snapReq = 0 /\ extras = 0
    BY <2>4
  <2>9. made \in 0..MaxEdits /\ sessions \in 0..MaxSessions /\ failures \in 0..MaxFailures
    OBVIOUS
  <2>10. uploadFailed \in BOOLEAN /\ keyLeft \in BOOLEAN
    OBVIOUS
  <2> HIDE DEF Init
  <2> QED BY <2>3, <2>5, <2>6, <2>7, <2>8, <2>9, <2>10 DEF TypeOK
<1>2. RemoteInv /\ DiskInv /\ KeyInv /\ VersionInv
  BY DEF RemoteInv, DiskInv, KeyInv, VersionInv, Encoded, Usable, Broken, Nothing,
        EmptyString, Plain, Serving
<1>3. ProgressInv
  BY DEF ProgressInv, Saved, Nothing, Serving
<1> QED BY <1>1, <1>2, <1>3 DEF Inv

\* Save writes the new states, or breaks the file, or leaves it as it is.
LEMMA SaveStates ==
    ASSUME NEW new \in [ok : BOOLEAN, world : Text, version : Text], Save(new), TypeOK,
           new.ok = states.ok
    PROVE  /\ states' \in [ok : BOOLEAN, world : Text, version : Text]
           /\ failures' \in 0..MaxFailures
           /\ \/ states.ok /\ states' = new
              \/ states' = Broken
              \/ states' = states
<1>1. Broken \in [ok : BOOLEAN, world : Text, version : Text]
  <2>1. EmptyString \in Text
    BY DEF Text, EmptyString, Plain
  <2> QED BY <2>1 DEF Broken
<1>2. failures' \in 0..MaxFailures
  BY GameAssumption DEF Save, Succeed, Fail, TypeOK, GameAssumption
<1> QED BY <1>1, <1>2 DEF Save, TypeOK

\* GetState returns what it reads, or nothing.
LEMMA GotText ==
    ASSUME TypeOK, NEW value \in Text, NEW result, Got(result, value)
    PROVE  result \in {value, EmptyString} /\ result \in Text /\ failures' \in 0..MaxFailures
<1>1. EmptyString \in Text
  BY DEF EmptyString, Plain, Text
<1> QED BY <1>1, GameAssumption DEF Got, Succeed, Fail, TypeOK, GameAssumption

\* The revision that is wanted exists.
LEMMA ResolveStep == ASSUME Inv, Resolve PROVE Inv'
<1> USE GameAssumption DEF GameAssumption, Inv, diskVars, historyVars
<1>1. config.pinned \in 0..1 /\ config \in Configs /\ states.world \in Text
  BY DEF TypeOK, Config
<1>2. /\ oldKey' \in Text /\ failures' \in 0..MaxFailures
      /\ oldKey' \in {states.world, EmptyString}
  <2>1. CASE config.new
    BY <2>1 DEF Resolve, Text, EmptyString, Plain, Succeed, TypeOK
  <2>2. CASE ~config.new
    BY <1>1, <2>2, GotText DEF Resolve
  <2> QED BY <2>1, <2>2
<1>3. TypeOK'
  <2>1. rev' \in 0..Len(remote)
    BY <1>1 DEF Resolve, TypeOK, RemoteInv
  <2> QED BY <1>2, <2>1 DEF Resolve, TypeOK, Alive
<1>4. RemoteInv'
  BY <1>1 DEF Resolve, RemoteInv, TypeOK
<1>5. DiskInv'
  BY DEF Resolve, DiskInv, TypeOK, Serving
<1>6. KeyInv'
  BY <1>2 DEF Resolve, KeyInv, Encoded, Archive
<1>7. VersionInv'
  BY DEF Resolve, VersionInv, Serving
<1>8. ProgressInv'
  BY DEF Resolve, ProgressInv, Saved, Serving
<1> QED BY <1>3, <1>4, <1>5, <1>6, <1>7, <1>8

\* The key is out of the states, or it is noted that it has been left there.
LEMMA ForgetStep == ASSUME Inv, Forget PROVE Inv'
<1> USE GameAssumption DEF GameAssumption, Inv
<1> DEFINE new == [states EXCEPT !.world = EmptyString]
<1>1. /\ new \in [ok : BOOLEAN, world : Text, version : Text]
      /\ new.ok = states.ok /\ new.world = EmptyString /\ new.version = states.version
  BY DEF TypeOK, Text, EmptyString, Plain
<1> HIDE DEF new
<1>2. Save(new)
  BY DEF Forget, new
<1>3. /\ states' \in [ok : BOOLEAN, world : Text, version : Text]
      /\ failures' \in 0..MaxFailures
      /\ \/ states.ok /\ states' = new
         \/ states' = Broken
         \/ states' = states
  BY <1>1, <1>2, SaveStates
<1>4. /\ states'.world \in {EmptyString, states.world}
      /\ states'.version \in {EmptyString, states.version}
  BY <1>1, <1>3 DEF Broken
<1>5. TypeOK'
  BY <1>3 DEF Forget, TypeOK, Alive, processVars
<1>6. RemoteInv' /\ DiskInv'
  BY DEF Forget, RemoteInv, DiskInv, Serving, processVars, Archive
<1>7. KeyInv'
  <2>1. ~states'.ok => states' = Broken
    BY <1>1, <1>3 DEF KeyInv, TypeOK
  <2> QED BY <1>4, <2>1 DEF Forget, KeyInv, Encoded, processVars
<1>8. VersionInv'
  BY <1>4 DEF Forget, VersionInv, Encoded, Serving, processVars
<1>9. ProgressInv'
  BY DEF Forget, ProgressInv, Saved, Serving, processVars
<1> QED BY <1>5, <1>6, <1>7, <1>8, <1>9

\* The world on the disk is never taken for the wanted one.
LEMMA NeverOnDisk == ASSUME Inv, pc = "prepare" PROVE ~WorldIsOnDisk
<1>1. SUFFICES ASSUME WorldIsOnDisk PROVE FALSE
  OBVIOUS
<1>2. rev \in DOMAIN remote /\ Plain(rev) = oldKey /\ remote \in Seq(Content)
  BY <1>1 DEF Inv, RemoteInv, WorldIsOnDisk, TypeOK
<1>3. rev # 0
  BY <1>2
<1>4. oldKey # EmptyString /\ oldKey.quotes = 0
  BY <1>2, <1>3 DEF Plain, EmptyString
<1> QED BY <1>4 DEF Inv, KeyInv, Encoded

\* Whatever becomes of the download, only a world in full goes on to the server.jar.
LEMMA PrepareStep == ASSUME Inv, Prepare \/ PrepareFails PROVE Inv'
<1> USE GameAssumption DEF GameAssumption, Inv, diskVars, historyVars, processVars
<1>1. world' \in Content /\ (pc' = "jar" => world'.dir \in Usable \cup {"absent"})
  <2>1. CASE Prepare
    <3>1. CASE config.new
      BY <2>1, <3>1, NeverOnDisk DEF Prepare, Nothing, Content
    <3>2. CASE ~config.new
      <4>1. remote[rev] \in Content /\ remote[rev].dir \in Usable
        BY <2>1, <3>2, NeverOnDisk DEF Prepare, TypeOK, RemoteInv, WantedIsCut
      <4> QED BY <2>1, <3>2, <4>1, NeverOnDisk DEF Prepare
    <3> QED BY <3>1, <3>2
  <2>2. CASE PrepareFails
    BY <2>2 DEF PrepareFails, Nothing, Content
  <2> QED BY <2>1, <2>2
<1>2. TypeOK'
  <2>1. /\ pc' \in {"jar", "failed"}
        /\ failures' \in 0..MaxFailures
        /\ UNCHANGED <<config, processVars, extras, jar, snaps, states, remote, historyVars>>
    BY DEF Prepare, PrepareFails, TypeOK, Fail, Succeed
  <2> QED BY <1>1, <2>1 DEF TypeOK, Alive
<1>3. RemoteInv'
  BY DEF Prepare, PrepareFails, RemoteInv
<1>4. DiskInv'
  BY <1>1 DEF Prepare, PrepareFails, DiskInv, Serving
<1>5. KeyInv' /\ VersionInv'
  BY DEF Prepare, PrepareFails, KeyInv, VersionInv, Serving
<1>6. ProgressInv'
  <2>1. ~uploadFailed => Saved(world'.edits)
    <3>1. world'.edits = {} \/ (rev \in DOMAIN remote /\ world' = remote[rev])
      BY NeverOnDisk DEF Prepare, PrepareFails, Nothing, RemoteInv
    <3> QED BY <3>1 DEF Prepare, PrepareFails, ProgressInv, Saved, Serving
  <2> QED BY <2>1 DEF Prepare, PrepareFails, ProgressInv, Saved, Serving
<1> QED BY <1>2, <1>3, <1>4, <1>5, <1>6

\* The steps that fail or start again leave the world and the states alone.
LEMMA FetchStep ==
    ASSUME Inv, ResolveFails \/ FetchJar \/ FetchJarFails \/ EnterDataDirFails
                \/ StartServerFails \/ Killed \/ Restart
    PROVE  Inv'
<1> USE GameAssumption DEF GameAssumption, Inv, diskVars, historyVars, processVars
<1>1. DetectedVersion \in Versions
  BY DEF DetectedVersion, TypeOK, Content, Config
<1>2. TypeOK'
  <2>1. CASE ResolveFails     BY <2>1 DEF ResolveFails, TypeOK, Alive, Fail
  <2>2. CASE FetchJar         BY <1>1, <2>2 DEF FetchJar, TypeOK, Alive
  <2>3. CASE FetchJarFails    BY <1>1, <2>3 DEF FetchJarFails, TypeOK, Alive, Fail
  <2>4. CASE StartServerFails BY <2>4 DEF StartServerFails, TypeOK, Alive, Fail
  <2>5. CASE Killed           BY <2>5 DEF Killed, TypeOK, Alive, Fail
  <2>6. CASE Restart          BY <2>6 DEF Restart, TypeOK, Alive
  <2>7. CASE EnterDataDirFails
    BY <2>7 DEF EnterDataDirFails, TypeOK, Alive, Fail
  <2> QED BY <2>1, <2>2, <2>3, <2>4, <2>5, <2>6, <2>7
<1>3. RemoteInv'
  BY DEF ResolveFails, FetchJar, FetchJarFails, EnterDataDirFails,
     StartServerFails, Killed, Restart, RemoteInv, Archive
<1>4. DiskInv'
  BY DEF ResolveFails, FetchJar, FetchJarFails, EnterDataDirFails,
     StartServerFails, Killed, Restart, DiskInv,
     TypeOK, Serving
<1>5. KeyInv'
  BY DEF ResolveFails, FetchJar, FetchJarFails, EnterDataDirFails,
     StartServerFails, Killed, Restart, KeyInv, Archive
<1>6. VersionInv'
  BY DEF ResolveFails, FetchJar, FetchJarFails, EnterDataDirFails,
     StartServerFails, Killed, Restart, VersionInv,
     Serving
<1>7. ProgressInv'
  BY DEF ResolveFails, FetchJar, FetchJarFails, EnterDataDirFails,
     StartServerFails, Killed, Restart, ProgressInv,
     Saved, Serving
<1> QED BY <1>2, <1>3, <1>4, <1>5, <1>6, <1>7

\* The data directory is clean: what the states have is never the plain version.
LEMMA EnterStep == ASSUME Inv, EnterDataDir PROVE Inv'
<1> USE GameAssumption DEF GameAssumption, Inv, historyVars, processVars
<1>1. version \in Versions /\ version \in Nat \ {0} /\ states.version \in Text
  BY DEF TypeOK
<1>2. failures' \in 0..MaxFailures /\ extras' = 0
  <2>1. PICK recorded \in {states.version, EmptyString} :
            /\ Got(recorded, states.version)
            /\ extras' = IF recorded = Plain(version) THEN extras ELSE 0
    BY DEF EnterDataDir
  <2>2. recorded # Plain(version)
    BY <1>1, <2>1 DEF VersionInv, Encoded, Plain, EmptyString
  <2>3. failures' \in 0..MaxFailures
    BY <1>1, <2>1, GotText
  <2> QED BY <2>1, <2>2, <2>3
<1>3. TypeOK'
  BY <1>1, <1>2 DEF EnterDataDir, TypeOK, Alive
<1>4. RemoteInv' /\ DiskInv'
  BY DEF EnterDataDir, RemoteInv, DiskInv, Serving, Archive
<1>5. KeyInv' /\ VersionInv'
  BY <1>2 DEF EnterDataDir, KeyInv, VersionInv, Serving
<1>6. ProgressInv'
  BY DEF EnterDataDir, ProgressInv, Saved, Serving
<1> QED BY <1>3, <1>4, <1>5, <1>6

\* The version is recorded, encoded; or the record fails.
LEMMA RecordStep == ASSUME Inv, RecordVersion PROVE Inv'
<1> USE GameAssumption DEF GameAssumption, Inv, historyVars, processVars
<1> DEFINE new == [states EXCEPT !.version = Json(Plain(version))]
<1>1. version \in Nat
  BY DEF TypeOK
<1>2. Json(Plain(version)) \in Text /\ Json(Plain(version)).quotes = 1
  BY <1>1 DEF Json, Plain, Text
<1>3. /\ new \in [ok : BOOLEAN, world : Text, version : Text]
      /\ new.ok = states.ok /\ new.world = states.world /\ new.version.quotes = 1
  BY <1>2 DEF TypeOK
<1> HIDE DEF new
<1>4. Save(new)
  BY DEF RecordVersion, new
<1>5. /\ states' \in [ok : BOOLEAN, world : Text, version : Text]
      /\ failures' \in 0..MaxFailures
      /\ \/ states.ok /\ states' = new
         \/ states' = Broken
         \/ states' = states
  BY <1>3, <1>4, SaveStates
<1>6. states'.world \in {EmptyString, states.world} /\ Encoded(states'.version)
  BY <1>3, <1>5 DEF VersionInv, Encoded, Broken
<1>7. TypeOK'
  BY <1>5 DEF RecordVersion, TypeOK, Alive
<1>8. RemoteInv' /\ DiskInv'
  <2>1. restore # 0 => snaps[restore].dir \in Usable \cup {"absent"}
    BY DEF DiskInv, TypeOK
  <2> QED BY <2>1 DEF RecordVersion, RemoteInv, DiskInv, Serving
<1>9. KeyInv'
  <2>1. ~states'.ok => states' = Broken
    BY <1>3, <1>5 DEF KeyInv, TypeOK
  <2> QED BY <1>6, <2>1 DEF RecordVersion, KeyInv, Encoded
<1>10. VersionInv'
  BY <1>6 DEF RecordVersion, VersionInv
<1>11. ProgressInv'
  BY DEF RecordVersion, ProgressInv, Saved, Serving
<1> QED BY <1>7, <1>8, <1>9, <1>10, <1>11

\* A snapshot takes the place of a world that is uploaded; a server makes the
\* world it does not find.
LEMMA LaunchStep == ASSUME Inv, BeforeLaunch \/ StartServer PROVE Inv'
<1> USE GameAssumption DEF GameAssumption, Inv, historyVars, processVars
<1>1. CASE BeforeLaunch
  <2>1. /\ world' \in Content /\ world'.dir \in Usable \cup {"absent"}
        /\ ~uploadFailed => Saved(world'.edits)
    <3>1. CASE world' = world /\ restore = 0
      BY <1>1, <3>1 DEF BeforeLaunch, TypeOK, DiskInv, ProgressInv, Serving
    <3>2. CASE restore # 0 /\ world' = snaps[restore]
      <4>1. restore \in Slots /\ snaps[restore] \in Content
        BY <3>2 DEF TypeOK
      <4> QED BY <1>1, <3>2, <4>1 DEF BeforeLaunch, DiskInv, ProgressInv, Serving
    <3>3. CASE world' = Nothing("torn")
      BY <3>3 DEF Nothing, Content, Saved, Usable
    <3> QED BY <1>1, <3>1, <3>2, <3>3 DEF BeforeLaunch
  <2>2. TypeOK'
    <3>1. failures' \in 0..MaxFailures
      BY <1>1 DEF BeforeLaunch, Succeed, Fail, TypeOK
    <3> QED BY <1>1, <2>1, <3>1 DEF BeforeLaunch, TypeOK, Alive
  <2>3. RemoteInv' /\ DiskInv' /\ KeyInv' /\ VersionInv'
    BY <1>1, <2>1 DEF BeforeLaunch, RemoteInv, DiskInv, KeyInv, VersionInv, Serving
  <2>4. ProgressInv'
    BY <1>1, <2>1 DEF BeforeLaunch, ProgressInv, Saved, Serving
  <2> QED BY <2>2, <2>3, <2>4
<1>2. CASE StartServer
  <2>1. /\ world' \in Content /\ world'.dir \in Usable
        /\ world'.edits = world.edits
    BY <1>2 DEF StartServer, TypeOK, Content, DiskInv, Usable
  <2>2. TypeOK'
    BY <1>2, <2>1 DEF StartServer, TypeOK, Alive, Serving
  <2>3. RemoteInv' /\ DiskInv' /\ KeyInv'
    BY <1>2, <2>1 DEF StartServer, RemoteInv, DiskInv, KeyInv, Serving
  <2>4. VersionInv'
    BY <1>2 DEF StartServer, VersionInv, TypeOK, Serving
  <2>5. ProgressInv'
    BY <1>2, <2>1 DEF StartServer, ProgressInv, Saved, Serving
  <2> QED BY <2>2, <2>3, <2>4, <2>5
<1> QED BY <1>1, <1>2

\* The steps that only move the process, or note a request.
LEMMA QuietStep ==
    ASSUME Inv, ServerExits \/ ServerReady \/ RequestStop \/ HandleGameStop \/ StopGivenUp
                \/ (\E s \in Slots : SaveAll(s) \/ Undo(s)) \/ UNCHANGED vars
    PROVE  Inv'
<1> USE GameAssumption
        DEF GameAssumption, Inv, vars, diskVars, historyVars, processVars, ServerExits,
            ServerReady, RequestStop, HandleGameStop, StopGivenUp, SaveAll, Undo, Fail
<1>1. TypeOK'
  BY DEF TypeOK, Alive, Serving
<1>2. RemoteInv'
  BY DEF RemoteInv, Serving, Archive
<1>3. DiskInv'
  BY DEF DiskInv, Serving
<1>4. KeyInv' /\ VersionInv'
  BY DEF KeyInv, VersionInv, Encoded, Serving, Archive
<1>5. ProgressInv'
  BY DEF ProgressInv, Saved, Serving
<1> QED BY <1>1, <1>2, <1>3, <1>4, <1>5

\* Players change the world of a server that is ready.
LEMMA PlayStep == ASSUME Inv, Play PROVE Inv'
<1> USE GameAssumption DEF GameAssumption, Inv, Play, processVars
<1>1. /\ made' \in 0..MaxEdits /\ made' \in 1..MaxEdits
      /\ world' \in Content /\ world'.dir = world.dir
      /\ world'.edits = world.edits \cup {made'}
  <2>1. made' \in 0..MaxEdits /\ made' \in 1..MaxEdits
    BY DEF TypeOK
  <2>2. world'.edits = world.edits \cup {made'} /\ world'.dir = world.dir
    BY DEF TypeOK, Content
  <2>3. world.edits \cup {made'} \in SUBSET (1..MaxEdits)
    BY <2>1 DEF TypeOK, Content
  <2>4. world' \in Content
    BY <2>3 DEF TypeOK, Content
  <2> QED BY <2>1, <2>2, <2>4
<1>2. TypeOK'
  BY <1>1 DEF TypeOK
<1>3. RemoteInv' /\ DiskInv' /\ KeyInv' /\ VersionInv'
  BY <1>1 DEF RemoteInv, DiskInv, KeyInv, VersionInv, Serving
<1>4. ProgressInv'
  BY <1>1 DEF ProgressInv, Saved, Serving
<1> QED BY <1>2, <1>3, <1>4

\* A revision that is added leaves the older ones as they were.
LEMMA UploadStep == ASSUME Inv, Upload \/ UploadFails PROVE Inv'
<1> USE GameAssumption DEF GameAssumption, Inv, historyVars, diskVars, processVars
<1>1. /\ remote \in Seq(Content) /\ world \in Content /\ pc = "upload"
      /\ world.dir \in Usable
  BY DEF Upload, UploadFails, TypeOK, DiskInv
<1>2. \A dir \in Usable \cup {"cut"} :
          /\ Archive(dir) \in Content /\ Archive(dir).dir = dir
          /\ Archive(dir).edits = world.edits
  BY <1>1 DEF Archive, Content, Usable
<1>3. remote' = remote \/ \E made2 \in Content :
          /\ made2 \in {world, Archive("cut")} /\ made2.edits = world.edits
          /\ made2.dir \in Usable \cup {"cut"}
          /\ remote' = Append(remote, made2)
  <2>1. Archive(world.dir) = world
    BY <1>1 DEF Archive, Content
  <2> QED BY <1>1, <1>2, <2>1 DEF Upload, UploadFails
<1>4. /\ remote' \in Seq(Content) /\ Len(remote') \in {Len(remote), Len(remote) + 1}
      /\ DOMAIN remote \subseteq DOMAIN remote'
      /\ \A r \in DOMAIN remote : remote'[r] = remote[r]
      /\ \A r \in DOMAIN remote' : remote'[r].dir \in Usable \cup {"cut"}
  BY <1>1, <1>3 DEF RemoteInv
<1>5. Upload => /\ rev' = Len(remote) + 1 /\ rev' \in DOMAIN remote'
                /\ remote'[rev'] \in {world, Archive("cut")}
                /\ remote'[rev'].edits = world.edits
                /\ Len(remote') = Len(remote) + 1
  BY <1>1, <1>2 DEF Upload
<1>6. failures' \in 0..MaxFailures
  BY DEF Upload, UploadFails, Succeed, Fail, TypeOK
<1>7. TypeOK'
  <2>1. CASE Upload
    <3>1. rev' \in 0..Len(remote')
      BY <2>1, <1>4, <1>5
    <3> QED BY <2>1, <1>4, <1>6, <3>1 DEF Upload, TypeOK, Alive
  <2>2. CASE UploadFails
    <3>1. rev' \in 0..Len(remote')
      BY <2>2, <1>4 DEF UploadFails, TypeOK
    <3> QED BY <2>2, <1>4, <1>6, <3>1 DEF UploadFails, TypeOK, Alive
  <2> QED BY <2>1, <2>2
<1>8. RemoteInv'
  <2>1. Archive("cut")' = Archive("cut")
    BY DEF Upload, UploadFails, Archive
  <2> QED BY <1>1, <1>4, <1>5, <2>1 DEF Upload, UploadFails, RemoteInv
<1>9. DiskInv'
  BY DEF Upload, UploadFails, DiskInv, Serving
<1>10. KeyInv' /\ VersionInv'
  BY <1>4 DEF Upload, UploadFails, KeyInv, VersionInv, Serving
<1>11. ProgressInv'
  <2>1. CASE Upload
    <3>1. \A e \in world.edits : e \in remote'[rev'].edits
      BY <2>1, <1>5
    <3>2. ~uploadFailed => \A s \in Slots : \A e \in snaps[s].edits :
              e \in world.edits \/ \E r \in DOMAIN remote : e \in remote[r].edits
      BY <1>1 DEF ProgressInv, Saved
    <3>3. ~uploadFailed => \A s \in Slots : \A e \in snaps[s].edits :
              \E r \in DOMAIN remote' : e \in remote'[r].edits
      BY <1>4, <1>5, <3>1, <3>2, <2>1
    <3> QED BY <2>1, <1>5, <3>1, <3>3 DEF Upload, ProgressInv, Saved, Serving
  <2>2. CASE UploadFails
    BY <2>2 DEF UploadFails, ProgressInv
  <2> QED BY <2>1, <2>2
<1> QED BY <1>7, <1>8, <1>9, <1>10, <1>11

\* The key that is saved is that of the local world, just uploaded.
LEMMA SaveKeyStep == ASSUME Inv, SaveKey PROVE Inv'
<1> USE GameAssumption DEF GameAssumption, Inv, processVars
<1> DEFINE new == [states EXCEPT !.world = Json(Plain(rev))]
<1>1. /\ rev \in DOMAIN remote /\ remote[rev] \in {world, Archive("cut")}
      /\ rev \in Nat
  BY DEF SaveKey, RemoteInv, TypeOK
<1>2. /\ Json(Plain(rev)) \in Text /\ Json(Plain(rev)).of = rev
      /\ Json(Plain(rev)).quotes = 1
  BY <1>1 DEF Json, Plain, Text
<1>3. /\ new \in [ok : BOOLEAN, world : Text, version : Text] /\ new.ok = states.ok
      /\ new.world.of = rev /\ new.world.quotes = 1 /\ new.version = states.version
  BY <1>2 DEF TypeOK
<1> HIDE DEF new
<1>4. Save(new)
  BY DEF SaveKey, new
<1>5. /\ states' \in [ok : BOOLEAN, world : Text, version : Text]
      /\ failures' \in 0..MaxFailures
      /\ \/ states.ok /\ states' = new
         \/ states' = Broken
         \/ states' = states
  BY <1>3, <1>4, SaveStates
<1>6. /\ states'.version \in {EmptyString, states.version}
      /\ Encoded(states'.world)
      /\ ~states'.ok => states' = Broken
  BY <1>3, <1>5 DEF KeyInv, Encoded, Broken, TypeOK
<1>7. states'.world # EmptyString /\ ~keyLeft' => states'.world.of = rev
  BY <1>3, <1>5 DEF SaveKey, KeyInv, Broken
<1>8. TypeOK'
  BY <1>5 DEF SaveKey, TypeOK, Alive
<1>9. RemoteInv' /\ DiskInv'
  BY <1>1 DEF SaveKey, RemoteInv, DiskInv, Serving, Archive
<1>10. KeyInv'
  BY <1>1, <1>6, <1>7 DEF SaveKey, KeyInv, Encoded, Archive
<1>11. VersionInv'
  BY <1>6 DEF SaveKey, VersionInv, Encoded, Serving
<1>12. ProgressInv'
  BY DEF SaveKey, ProgressInv, Saved, Serving
<1> QED BY <1>8, <1>9, <1>10, <1>11, <1>12

\* A snapshot is of a world that a server runs on, or that one has left.
LEMMA SnapshotStep == ASSUME Inv, TakeSnapshot PROVE Inv'
<1> USE GameAssumption DEF GameAssumption, Inv, historyVars
<1>1. snapReq \in Slots /\ world \in Content /\ pc \in Serving \cup {"upload", "save"}
  BY DEF TakeSnapshot, TypeOK, DiskInv, Alive
<1>2. Nothing("absent") \in Content /\ failures' \in 0..MaxFailures
  BY DEF TakeSnapshot, Succeed, Fail, TypeOK, Nothing, Content
<1>3. /\ snaps' \in [Slots -> Content]
      /\ \A s \in Slots : snaps'[s] \in {snaps[s], world, Nothing("absent")}
  BY <1>1, <1>2 DEF TakeSnapshot, TypeOK
<1>4. TypeOK'
  BY <1>2, <1>3 DEF TakeSnapshot, TypeOK
<1>5. RemoteInv' /\ KeyInv' /\ VersionInv'
  BY DEF TakeSnapshot, RemoteInv, KeyInv, VersionInv, Archive
<1>6. DiskInv'
  BY <1>1, <1>3 DEF TakeSnapshot, DiskInv, Nothing, Serving
<1>7. ProgressInv'
  <2>1. \A s \in Slots : snaps'[s].edits \in {snaps[s].edits, world.edits, {}}
    BY <1>3 DEF Nothing
  <2> QED BY <1>1, <2>1 DEF TakeSnapshot, ProgressInv, Saved, Serving
<1> QED BY <1>4, <1>5, <1>6, <1>7

\* A session that has ended leaves the world as it was uploaded.
LEMMA SessionStep == ASSUME Inv, NextSession PROVE Inv'
<1> USE GameAssumption DEF GameAssumption, Inv
<1>1. Saved(world.edits)
  BY DEF NextSession, RemoteInv, Saved, Archive, TypeOK, Content
<1>2. Nothing("absent") \in Content /\ failures' \in 0..MaxFailures
  BY DEF NextSession, Succeed, Fail, TypeOK, Nothing, Content
<1>3. TypeOK'
  <2>1. sessions' \in 0..MaxSessions
    BY DEF NextSession, TypeOK
  <2>2. snaps' \in [Slots -> Content] /\ uploadFailed' \in BOOLEAN
    BY <1>2 DEF NextSession, TypeOK
  <2> QED BY <1>2, <2>1, <2>2 DEF NextSession, TypeOK
<1>4. RemoteInv' /\ KeyInv' /\ VersionInv'
  BY DEF NextSession, RemoteInv, KeyInv, VersionInv, Serving, Archive
<1>5. DiskInv'
  BY DEF NextSession, DiskInv, Nothing, Serving
<1>6. ProgressInv'
  BY <1>1 DEF NextSession, ProgressInv, Saved, Nothing, Serving
<1> QED BY <1>3, <1>4, <1>5, <1>6

-----------------------------------------------------------------------------

\* The inductive invariant: what the uploaded revisions, the disk, the key, the
\* version and the progress are at each point of the launcher.
THEOREM InvHolds == Spec => []Inv
<1>1. Init => Inv
  BY InvInit
<1>2. Inv /\ [Next]_vars => Inv'
  <2> SUFFICES ASSUME Inv, [Next]_vars PROVE Inv'
    OBVIOUS
  <2>1. CASE Resolve
    BY <2>1, ResolveStep
  <2>2. CASE Prepare \/ PrepareFails
    BY <2>2, PrepareStep
  <2>3. CASE ResolveFails \/ FetchJar \/ FetchJarFails \/ EnterDataDirFails
             \/ StartServerFails \/ Killed \/ Restart
    BY <2>3, FetchStep
  <2>4. CASE EnterDataDir
    BY <2>4, EnterStep
  <2>12. CASE Forget
    BY <2>12, ForgetStep
  <2>13. CASE RecordVersion
    BY <2>13, RecordStep
  <2>5. CASE BeforeLaunch \/ StartServer
    BY <2>5, LaunchStep
  <2>6. CASE Upload \/ UploadFails
    BY <2>6, UploadStep
  <2>7. CASE SaveKey
    BY <2>7, SaveKeyStep
  <2>8. CASE ServerExits \/ ServerReady \/ HandleGameStop \/ StopGivenUp \/ Request
             \/ UNCHANGED vars
    BY <2>8, QuietStep DEF Request
  <2>9. CASE Play
    BY <2>9, PlayStep
  <2>10. CASE TakeSnapshot
    BY <2>10, SnapshotStep
  <2>11. CASE NextSession
    BY <2>11, SessionStep
  <2> QED BY <2>1, <2>2, <2>3, <2>4, <2>5, <2>6, <2>7, <2>8, <2>9, <2>10, <2>11,
             <2>12, <2>13 DEF Next, Step
<1> QED BY <1>1, <1>2, PTL DEF Spec

\* Every variable keeps its type.
THEOREM TypeCorrect == Spec => []TypeOK
<1>1. Inv => TypeOK
  BY DEF Inv
<1> QED BY <1>1, InvHolds, PTL

\* No server runs on a download that broke off, and none is uploaded, whatever fails
\* and wherever the process is killed.
THEOREM NoHalfDownload == Spec => []NoHalfDownloadServed
<1>1. Inv => NoHalfDownloadServed
  BY DEF Inv, DiskInv, RemoteInv, NoHalfDownloadServed, Usable
<1> QED BY <1>1, InvHolds, PTL

\* The key in the states names the revision that was made of the local world, unless
\* RemoveState has failed and left an older one there.
THEOREM KeyNames == Spec => []KeyNamesLocalWorld
<1>1. Inv => KeyNamesLocalWorld
  BY DEF Inv, KeyInv, KeyNamesLocalWorld
<1> QED BY <1>1, InvHolds, PTL

\* No server starts on the files of another version, though the process may be killed
\* between the cleaning and the record, the cleaning may stop half way, and reading
\* and writing the record may fail.
THEOREM DataDir == Spec => []DataDirMatchesVersion
<1>1. Inv => DataDirMatchesVersion
  BY DEF Inv, VersionInv, DataDirMatchesVersion
<1> QED BY <1>1, InvHolds, PTL

\* What players have made leaves the local world only once it is uploaded, in full or
\* cut short, by an undo, or after an upload that failed in this session.
THEOREM Progress == Spec => ProgressKept
<1>1. Inv /\ [Next]_vars =>
          [ \/ world.edits \ world'.edits \subseteq Uploaded \cup CutShort
            \/ pc = "launch" \/ uploadFailed ]_vars
  <2> SUFFICES ASSUME Inv, Next, pc # "launch", ~uploadFailed
               PROVE  world.edits \ world'.edits \subseteq Uploaded \cup CutShort
    BY DEF vars
  <2>1. CASE Prepare \/ PrepareFails
    <3>1. Saved(world.edits)
      BY <2>1 DEF Inv, ProgressInv, Prepare, PrepareFails, Serving
    <3> QED BY <3>1 DEF Saved, Uploaded, CutShort
  <2>2. CASE StartServer \/ Play
    <3>1. world.edits \subseteq world'.edits
      <4>1. CASE StartServer
        BY <4>1 DEF Inv, TypeOK, Content, StartServer
      <4>2. CASE Play
        BY <4>2 DEF Inv, TypeOK, Content, Play
      <4> QED BY <2>2, <4>1, <4>2
    <3> QED BY <3>1
  <2>3. CASE world' = world
    BY <2>3
  <2> QED
    BY <2>1, <2>2, <2>3
    DEF Next, Step, Request, Resolve, ResolveFails, Forget, FetchJar, FetchJarFails, EnterDataDir,
        EnterDataDirFails, RecordVersion, StopGivenUp, BeforeLaunch, StartServerFails, Upload, UploadFails, SaveKey, Restart, RequestStop,
        SaveAll, Undo, Killed, ServerExits, ServerReady, HandleGameStop, TakeSnapshot,
        NextSession, diskVars
<1> QED BY <1>1, InvHolds, PTL DEF Spec, ProgressKept
=============================================================================
