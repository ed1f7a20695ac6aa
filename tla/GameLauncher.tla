---------------------------- MODULE GameLauncher ----------------------------
(***************************************************************************)
(* The launcher process (runner/commands/mclauncher): its middlewares      *)
(* fetch the world, the server.jar and a clean data directory, run the     *)
(* Minecraft server and upload the world when it has exited.  exteriord    *)
(* starts the process again whenever it exits with an error, and keeps its *)
(* states (states.json) over restarts and over sessions; the disk with the *)
(* world, the jars and the data directory is kept as well.                 *)
(*                                                                         *)
(* The content of a world is the set of edits players have made in it.     *)
(***************************************************************************)
EXTENDS Naturals, Sequences

CONSTANTS
    Versions,     \* versions of the Minecraft server, numbers from 1 on
    Configs,      \* the game configurations a session may have
    Slots,        \* slots of quick snapshots, numbers from 1 on
    MaxEdits,     \* bound on the edits players make
    MaxSessions,  \* bound on the sessions that share the disk
    MaxFailures   \* bound on the operations that fail and the crashes

\* A configuration asks for a new world, or for revision `pinned` of the uploaded
\* ones (0: "@/latest"); `auto` lets level.dat decide on the version.
Config == [new : BOOLEAN, pinned : 0..1, version : Versions, auto : BOOLEAN]

ASSUME GameAssumption ==
    /\ Versions \subseteq Nat \ {0} /\ Slots \subseteq Nat \ {0}
    /\ Configs \subseteq Config
    /\ MaxEdits \in Nat /\ MaxSessions \in Nat \ {0} /\ MaxFailures \in Nat

VARIABLES
    pc,           \* where the launcher process is
    config,       \* the configuration of this session
    rev,          \* worldResourceID: a revision, 0 for a new world
    oldKey,       \* oldResourceID
    version,      \* GetMinecraftVersion
    restore,      \* restorePath: a slot, or 0
    stop,         \* game/stop: "none", or "pending" until RCON answers
    snapReq,      \* slot of the snapshot being taken after save-all, or 0
    world,        \* gamedata/world
    extras,       \* version whose other files are in gamedata, or 0
    jar,          \* servers.d
    snaps,        \* gamedata/ss@quick*
    states,       \* states.json
    remote,       \* the uploaded revisions, the oldest first
    made,         \* edits made so far
    sessions,     \* sessions so far
    failures,     \* failures so far
    uploadFailed, \* history: while there are these snapshots, an upload failed
    keyLeft       \* history: RemoveState failed and has left the key in the states

processVars == <<rev, oldKey, version, restore, stop, snapReq>>
diskVars == <<world, extras, jar, snaps, states>>
historyVars == <<made, sessions, uploadFailed, keyLeft>>
vars == <<pc, config, processVars, diskVars, remote, historyVars, failures>>

\* A string, with the number of times it was encoded as JSON.
Plain(n) == [quotes |-> 0, of |-> n]
Json(v) == [v EXCEPT !.quotes = @ + 1]
EmptyString == Plain(0)

Content ==
    [dir : {"absent", "partial", "torn", "cut", "whole"}, edits : SUBSET (1..MaxEdits),
     by : Versions \cup {0}]   \* the version in level.dat, 0 if there is none
Nothing(dir) == [dir |-> dir, edits |-> {}, by |-> 0]
Text == [quotes : Nat, of : Nat]
Broken == [ok |-> FALSE, world |-> EmptyString, version |-> EmptyString]

Serving == {"loading", "ready", "stopping"}
Alive == {"forget", "prepare", "jar", "datadir", "record", "launch", "start", "upload", "save"}
         \cup Serving

TypeOK ==
    /\ pc \in {"down", "failed", "exited"} \cup Alive
    /\ config \in Configs
    /\ rev \in 0..Len(remote)
    /\ oldKey \in Text
    /\ version \in Versions
    /\ restore \in Slots \cup {0}
    /\ stop \in {"none", "pending"}
    /\ snapReq \in Slots \cup {0}
    /\ world \in Content
    /\ extras \in Versions \cup {0}
    /\ jar \in [Versions -> {"none", "partial", "whole"}]
    /\ snaps \in [Slots -> Content]
    /\ states \in [ok : BOOLEAN, world : Text, version : Text]
    /\ remote \in Seq(Content)
    /\ made \in 0..MaxEdits
    /\ sessions \in 0..MaxSessions
    /\ failures \in 0..MaxFailures
    /\ uploadFailed \in BOOLEAN
    /\ keyLeft \in BOOLEAN

\* One revision was uploaded by hand; the disk is new.
Init ==
    /\ pc = "down"
    /\ config \in Configs
    /\ rev = 0
    /\ oldKey = EmptyString
    /\ version = config.version
    /\ restore = 0
    /\ stop = "none"
    /\ snapReq = 0
    /\ world = Nothing("absent")
    /\ extras = 0
    /\ jar = [v \in Versions |-> "none"]
    /\ snaps = [s \in Slots |-> Nothing("absent")]
    /\ states = [ok |-> TRUE, world |-> EmptyString, version |-> EmptyString]
    /\ remote = <<[dir |-> "whole", edits |-> {}, by |-> config.version]>>
    /\ made = 0
    /\ sessions = 1
    /\ failures = 0
    /\ uploadFailed = FALSE
    /\ keyLeft = FALSE

-----------------------------------------------------------------------------

Succeed == UNCHANGED failures
Fail == failures < MaxFailures /\ failures' = failures + 1

\* StateStore.Set and Remove rewrite the whole file.  A write that fails after
\* os.Create leaves no JSON behind, and from then on every operation fails.  A call
\* that fails before that (no connection, a file that cannot be opened) leaves the
\* states as they were.  The launcher ignores both errors.
Save(new) ==
    \/ states.ok /\ states' = new /\ Succeed
    \/ states.ok /\ states' = Broken /\ Fail
    \/ states.ok /\ UNCHANGED states /\ Fail
    \/ ~states.ok /\ UNCHANGED states /\ Succeed

\* GetState, which returns "" with its error.
Got(result, value) ==
    \/ result = (IF states.ok THEN value ELSE EmptyString) /\ Succeed
    \/ states.ok /\ result = EmptyString /\ Fail

-----------------------------------------------------------------------------
(***************************************************************************)
(* The middlewares, from the outermost in                                  *)
(***************************************************************************)

\* The world middleware: which revision is wanted, and which one is on the disk.
Resolve ==
    /\ pc = "down"
    /\ rev' = IF config.new THEN 0 ELSE IF config.pinned = 0 THEN Len(remote) ELSE config.pinned
    /\ \/ config.new /\ oldKey' = EmptyString /\ Succeed
       \/ ~config.new /\ Got(oldKey', states.world)
    /\ pc' = "forget"
    /\ UNCHANGED <<config, version, restore, stop, snapReq, diskVars, remote, historyVars>>

\* getRealResourceID returns an error.
ResolveFails ==
    /\ pc = "down" /\ ~config.new /\ config.pinned = 0
    /\ Fail
    /\ pc' = "failed"
    /\ UNCHANGED <<config, processVars, diskVars, remote, historyVars>>

\* Mutation of Forget: the key of the last upload is left in the states.
ForgetNothing ==
    /\ pc = "forget"
    /\ pc' = "prepare"
    /\ UNCHANGED <<config, processVars, diskVars, remote, historyVars, failures>>

\* RemoveState, since from here on the world may change; its error is ignored.
Forget ==
    /\ pc = "forget"
    /\ Save([states EXCEPT !.world = EmptyString])
    /\ keyLeft' = (states'.world # EmptyString)
    /\ pc' = "prepare"
    /\ UNCHANGED <<config, processVars, world, extras, jar, snaps, remote, made, sessions,
                   uploadFailed>>

WorldIsOnDisk == ~config.new /\ Plain(rev) = oldKey

\* The archive of the wanted revision was cut short; it ends before its data do, and
\* so no download of it succeeds.
WantedIsCut == ~config.new /\ remote[rev].dir = "cut"

\* Mutation of PrepareFails: a download that fails does not end the launcher.
PrepareFailsOpen ==
    /\ pc = "prepare" /\ ~WorldIsOnDisk
    /\ Fail
    /\ world' \in {Nothing("absent"), Nothing("partial")}
    /\ pc' = "jar"
    /\ UNCHANGED <<config, processVars, extras, jar, snaps, states, remote, historyVars>>

\* cleanupOldWorldFiles and DownloadWorld, unless the wanted revision is there.
Prepare ==
    /\ pc = "prepare"
    /\ \/ WorldIsOnDisk /\ UNCHANGED world
       \/ ~WorldIsOnDisk /\ config.new /\ world' = Nothing("absent")
       \/ ~WorldIsOnDisk /\ ~config.new /\ ~WantedIsCut /\ world' = remote[rev]
    /\ pc' = "jar"
    /\ UNCHANGED <<config, processVars, extras, jar, snaps, states, remote, historyVars,
                   failures>>

\* One of them fails, or the process is killed meanwhile.
PrepareFails ==
    /\ pc = "prepare" /\ ~WorldIsOnDisk
    /\ Fail \/ (WantedIsCut /\ Succeed)
    /\ world' \in {Nothing("absent"), Nothing("partial")}
    /\ pc' = "failed"
    /\ UNCHANGED <<config, processVars, extras, jar, snaps, states, remote, historyVars>>

\* The autoversion middleware, then downloadIfNotExists of serverjar: any file that
\* is not empty will do.
DetectedVersion ==
    IF config.auto /\ world.by # 0 THEN world.by ELSE config.version

FetchJar ==
    /\ pc = "jar"
    /\ version' = DetectedVersion
    /\ jar' = [jar EXCEPT ![version'] = IF @ = "none" THEN "whole" ELSE @]
    /\ pc' = "datadir"
    /\ UNCHANGED <<config, rev, oldKey, restore, stop, snapReq, world, extras, snaps, states,
                   remote, historyVars, failures>>

\* After an error the incomplete file is removed; a process that is killed leaves it.
FetchJarFails ==
    /\ pc = "jar" /\ jar[DetectedVersion] = "none"
    /\ Fail
    /\ version' = DetectedVersion
    /\ \E left \in {"none", "partial"} : jar' = [jar EXCEPT ![version'] = left]
    /\ pc' = "failed"
    /\ UNCHANGED <<config, rev, oldKey, restore, stop, snapReq, world, extras, snaps, states,
                   remote, historyVars>>

\* Mutation of EnterDataDir: the data directory is never cleaned.
EnterDataDirAsItIs ==
    /\ pc = "datadir"
    /\ pc' = "record"
    /\ UNCHANGED <<config, processVars, diskVars, remote, historyVars, failures>>

\* The rest of serverjar: everything but the world, the snapshots and
\* server.properties is removed when the version has changed.
EnterDataDir ==
    /\ pc = "datadir"
    /\ \E recorded \in {states.version, EmptyString} :
          /\ Got(recorded, states.version)
          /\ extras' = IF recorded = Plain(version) THEN extras ELSE 0
    /\ pc' = "record"
    /\ UNCHANGED <<config, processVars, world, jar, snaps, states, remote, historyVars>>

\* cleanupDataDir cannot remove everything.
EnterDataDirFails ==
    /\ pc = "datadir" /\ states.version # Plain(version)
    /\ Fail
    /\ pc' = "failed"
    /\ UNCHANGED <<config, processVars, diskVars, remote, historyVars>>

\* SetState, whose error is ignored.  Then eula.txt and server.properties are written.
RecordVersion ==
    /\ pc = "record"
    /\ Save([states EXCEPT !.version = Json(Plain(version))])
    /\ pc' = "launch"
    /\ UNCHANGED <<config, processVars, world, extras, jar, snaps, remote, historyVars>>

\* executeWithBackOff: the listener first.  BeforeLaunch replaces the world with the
\* snapshot; its error is logged.
BeforeLaunch ==
    /\ pc = "launch"
    /\ restore' = 0
    /\ \/ /\ world' = IF restore = 0 THEN world ELSE snaps[restore]
          /\ Succeed
       \/ restore # 0 /\ Fail /\ world' = Nothing("torn")
    /\ pc' = "start"
    /\ UNCHANGED <<config, rev, oldKey, version, stop, snapReq, extras, jar, snaps, states,
                   remote, historyVars>>

\* CommandExecutor.Start.  A server that finds no level.dat makes a world.
StartServer ==
    /\ pc = "start"
    /\ pc' = "loading"
    /\ world' = [world EXCEPT !.dir = IF @ = "absent" THEN "whole" ELSE @, !.by = version]
    /\ extras' = IF extras = 0 THEN version ELSE extras
    /\ UNCHANGED <<config, processVars, jar, snaps, states, remote, historyVars, failures>>

\* It fails, and is tried again after a while, listeners and all.
StartServerFails ==
    /\ pc = "start"
    /\ Fail
    /\ pc' = "launch"
    /\ UNCHANGED <<config, processVars, diskVars, remote, historyVars>>

\* handle.Wait returns without an error whatever the exit status was.
ServerExits ==
    /\ pc \in Serving
    /\ pc' = "upload"
    /\ UNCHANGED <<config, processVars, diskVars, remote, historyVars, failures>>

\* The world as an archive has it: in full, or cut short by a write that failed when
\* tw, zstWriter or outFile was closed.
Archive(dir) == [world EXCEPT !.dir = dir]

\* Mutation of Upload: the status of the response is not looked at.
UploadUnchecked ==
    /\ pc = "upload"
    /\ remote' \in {remote, Append(remote, world)}
    /\ rev' = Len(remote) + 1
    /\ pc' = "save"
    /\ UNCHANGED <<config, oldKey, version, restore, stop, snapReq, diskVars, historyVars,
                   failures>>

\* UploadWorld; rev is now worldKey.  The errors of the deferred Close calls of the
\* archive are ignored.
Upload ==
    /\ pc = "upload"
    /\ \/ remote' = Append(remote, world) /\ Succeed
       \/ remote' = Append(remote, Archive("cut")) /\ Fail
    /\ rev' = Len(remote')
    /\ pc' = "save"
    /\ UNCHANGED <<config, oldKey, version, restore, stop, snapReq, diskVars, historyVars>>

\* It fails, perhaps after the object was stored.
UploadFails ==
    /\ pc = "upload"
    /\ Fail
    /\ \/ UNCHANGED remote
       \/ \E dir \in {world.dir, "cut"} : remote' = Append(remote, Archive(dir))
    /\ pc' = "failed"
    /\ uploadFailed' = TRUE
    /\ UNCHANGED <<config, processVars, diskVars, made, sessions, keyLeft>>

\* SetState, whose error is ignored; the process exits with status 0.
SaveKey ==
    /\ pc = "save"
    /\ Save([states EXCEPT !.world = Json(Plain(rev))])
    /\ keyLeft' = (keyLeft /\ states'.world = states.world)
    /\ pc' = "exited"
    /\ UNCHANGED <<config, processVars, world, extras, jar, snaps, remote, made, sessions,
                   uploadFailed>>

\* The process is killed, or ends with the error of a middleware, where that leaves
\* nothing half done; a process that is killed while the server runs is left out.
Killed ==
    /\ pc \in {"forget", "prepare", "jar", "datadir", "record", "launch", "start", "save"}
    /\ Fail
    /\ pc' = "failed"
    /\ UNCHANGED <<config, processVars, diskVars, remote, historyVars>>

\* proc.Start of exteriord, which loads the configuration anew.
Restart ==
    /\ pc = "failed"
    /\ pc' = "down"
    /\ restore' = 0 /\ stop' = "none" /\ snapReq' = 0
    /\ UNCHANGED <<config, rev, oldKey, version, diskVars, remote, historyVars, failures>>

\* Clean Up removes the snapshots, or logs that it could not.  The next session has
\* the same disk.
NextSession ==
    /\ pc = "exited" /\ sessions < MaxSessions
    /\ sessions' = sessions + 1
    /\ config' \in Configs
    /\ pc' = "down"
    /\ restore' = 0 /\ stop' = "none" /\ snapReq' = 0
    /\ \/ /\ snaps' = [s \in Slots |-> Nothing("absent")]
          /\ uploadFailed' = FALSE
          /\ Succeed
       \/ Fail /\ UNCHANGED <<snaps, uploadFailed>>
    /\ UNCHANGED <<rev, oldKey, version, world, extras, jar, states, remote, made, keyLeft>>

-----------------------------------------------------------------------------
(***************************************************************************)
(* The server, and what the control plane asks for                         *)
(***************************************************************************)

ServerReady ==
    /\ pc = "loading"
    /\ pc' = "ready"
    /\ UNCHANGED <<config, processVars, diskVars, remote, historyVars, failures>>

Play ==
    /\ pc = "ready" /\ made < MaxEdits
    /\ made' = made + 1
    /\ world' = [world EXCEPT !.edits = @ \cup {made'}]
    /\ UNCHANGED <<pc, config, processVars, extras, jar, snaps, states, remote, sessions,
                   failures, uploadFailed, keyLeft>>

\* game/stop arrives; rconClient.Stop tries to connect again and again.
RequestStop ==
    /\ pc \in Alive /\ stop = "none"
    /\ stop' = "pending"
    /\ UNCHANGED <<pc, config, rev, oldKey, version, restore, snapReq, diskVars, remote,
                   historyVars, failures>>

\* Mutation of HandleGameStop: it connects once.
HandleGameStopOnce ==
    /\ pc \in Serving /\ stop = "pending"
    /\ stop' = "none"
    /\ pc' = IF pc = "ready" THEN "stopping" ELSE pc
    /\ UNCHANGED <<config, rev, oldKey, version, restore, snapReq, diskVars, remote,
                   historyVars, failures>>

HandleGameStop ==
    /\ pc = "ready" /\ stop = "pending"
    /\ stop' = "none"
    /\ pc' = "stopping"
    /\ UNCHANGED <<config, rev, oldKey, version, restore, snapReq, diskVars, remote,
                   historyVars, failures>>

\* After twenty minutes of trying, or when the command itself fails, the request is
\* dropped and the error logged.
StopGivenUp ==
    /\ pc \in Alive /\ stop = "pending"
    /\ Fail
    /\ stop' = "none"
    /\ UNCHANGED <<pc, config, rev, oldKey, version, restore, snapReq, diskVars, remote,
                   historyVars>>

\* snapshot/create: save-all needs the server, the btrfs snapshot does not.
SaveAll(s) ==
    /\ pc = "ready" /\ snapReq = 0
    /\ snapReq' = s
    /\ UNCHANGED <<pc, config, rev, oldKey, version, restore, stop, diskVars, remote,
                   historyVars, failures>>

\* takeFsSnapshot removes the previous one first, if it can.
TakeSnapshot ==
    /\ pc \in Alive /\ snapReq # 0
    /\ \/ snaps' = [snaps EXCEPT ![snapReq] = world] /\ Succeed
       \/ snaps' \in {snaps, [snaps EXCEPT ![snapReq] = Nothing("absent")]} /\ Fail
    /\ snapReq' = 0
    /\ UNCHANGED <<pc, config, rev, oldKey, version, restore, stop, world, extras, jar,
                   states, remote, historyVars>>

\* snapshot/undo: RestartWithSnapshot.  Start has left executor.pid 0, so Kill
\* returns without having killed anything.
Undo(s) ==
    /\ pc \in Alive /\ snaps[s].dir # "absent"
    /\ restore' = s
    /\ UNCHANGED <<pc, config, rev, oldKey, version, stop, snapReq, diskVars, remote,
                   historyVars, failures>>

-----------------------------------------------------------------------------

Step ==
    \/ Resolve \/ ResolveFails \/ Forget \/ Prepare \/ PrepareFails
    \/ FetchJar \/ FetchJarFails \/ EnterDataDir \/ EnterDataDirFails \/ RecordVersion
    \/ BeforeLaunch \/ StartServer \/ StartServerFails
    \/ Upload \/ UploadFails \/ SaveKey \/ Restart
Request == RequestStop \/ \E s \in Slots : SaveAll(s) \/ Undo(s)

Next ==
    \/ Step \/ Request \/ Killed \/ ServerExits \/ ServerReady \/ Play
    \/ HandleGameStop \/ StopGivenUp \/ TakeSnapshot \/ NextSession

Spec == Init /\ [][Next]_vars

\* The launcher goes on and is started again, a server comes up in the end, and one
\* that was told to stop exits.  Nothing else makes it exit.
FairSpec ==
    /\ Spec
    /\ WF_vars(Step) /\ WF_vars(ServerReady) /\ WF_vars(HandleGameStop)
    /\ WF_vars(pc = "stopping" /\ ServerExits)

-----------------------------------------------------------------------------

\* What the revisions hold that can be downloaded, and what those hold that cannot.
Uploaded == UNION {remote[r].edits : r \in {q \in DOMAIN remote : remote[q].dir # "cut"}}
CutShort == UNION {remote[r].edits : r \in {q \in DOMAIN remote : remote[q].dir = "cut"}}

\* A server runs on the world it was given in full, or on the rest of a snapshot
\* that could not be copied; the upload takes nothing else.  A download that breaks
\* off is never served, whatever fails or is killed on the way to the next one, and
\* nor is an archive that was cut short.
NoHalfDownloadServed ==
    /\ pc \in Serving => world.dir \in {"whole", "torn"}
    /\ \A r \in DOMAIN remote : remote[r].dir \in {"whole", "torn", "cut"}

\* The key in the states names the revision that was made of the local world, so that
\* a session that wants this one could do without the download; unless RemoveState
\* has failed, whose error is ignored, and the world has gone on under an old key.
KeyNamesLocalWorld ==
    states.world # EmptyString /\ ~keyLeft =>
        /\ states.world.of \in DOMAIN remote
        /\ remote[states.world.of] \in {world, Archive("cut")}

\* No server starts on the files of another version, though the process may be killed
\* between the cleaning and the record, clean a part only, or fail to record.
DataDirMatchesVersion == pc \in {"start"} \cup Serving => extras \in {0, version}

\* What players have made leaves the local world only once it is uploaded (in an
\* archive that may have been cut short without anyone noticing), by an undo, or after
\* an upload that failed in this session.
ProgressKept ==
    [][ \/ world.edits \ world'.edits \subseteq Uploaded \cup CutShort
        \/ pc = "launch" \/ uploadFailed ]_vars

\* A stop request that comes at any time ends the session, unless something fails
\* (RCON answers within its twenty minutes, too) or the world cannot be downloaded.
StopEndsSession ==
    pc \in Alive /\ stop = "pending" /\ failures = MaxFailures /\ ~WantedIsCut
        ~> pc = "exited"

-----------------------------------------------------------------------------

\* world.go:64: "we don't need data of previously launched world".
OldWorldNotNeeded ==
    [][pc = "prepare" => world.edits \ world'.edits \subseteq Uploaded]_vars

\* world_test.go:109: "should not download world if world is not changed".
UnchangedWorldNotDownloaded ==
    pc = "prepare" /\ ~config.new /\ oldKey.of = rev => WorldIsOnDisk

\* README.md:16: "Instantly take snapshot of running world and restore it."
UndoRestores == pc = "ready" /\ restore # 0 ~> pc = "launch"
=============================================================================
