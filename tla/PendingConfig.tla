--------------------------- MODULE PendingConfig ---------------------------
(***************************************************************************)
(* The configuration of the next launch, which the users of the web API    *)
(* edit together: one key in Redis that GET /config and PUT /config read,  *)
(* normalise and write back, and POST /launch converts; and the list of    *)
(* versions that both the page and the conversion read through a cache.    *)
(*                                                                         *)
(* A field is "nil", "empty", "bad" (refused by a check) or "ok"; a world  *)
(* source has two good values.  Versions are "ok", or "new": in the later  *)
(* manifest only.  Fields that nothing checks are left out.                *)
(***************************************************************************)
EXTENDS Naturals

CONSTANTS
    Editors,          \* users with a request under way
    Updates,          \* bodies of PUT /config: functions from some fields to values
    MaxRequests,      \* bound on requests
    MaxConfigFaults   \* bound on calls of Redis and of the manifest that fail

VARIABLES
    pending,      \* pending-config, or NoConfig
    told,         \* whether the answer to the request that wrote it said that it is valid
    request,      \* each user's request
    launchResult, \* what the last launch made of the configuration
    manifest,     \* the manifest at Mojang
    cached,       \* the manifest under mcversions:versions, or "none"
    requests, configFaults

configVars == <<pending, told, request, launchResult, manifest, cached, requests, configFaults>>

Fields == {"machineType", "serverVersion", "guessVersion", "worldSource", "worldName",
           "backupGen", "levelType", "seed"}
NoConfig == [f \in {} |-> "nil"]
Values == {"nil", "empty", "bad", "ok", "new", "backups", "new-world"}
Config == [Fields -> Values]
Unset == {"nil", "empty"}

ASSUME ConfigAssumption ==
    /\ MaxRequests \in Nat /\ MaxConfigFaults \in Nat
    /\ \A new \in Updates : \A f \in DOMAIN new \cap Fields : new[f] \in Values

Idle == [at |-> "idle"]
Nil == [f \in Fields |-> "nil"]

\* What handleApiGetConfig starts from when it cannot read the key.
DefaultConfig == [Nil EXCEPT !.machineType = "ok", !.guessVersion = "ok"]

-----------------------------------------------------------------------------
(***************************************************************************)
(* validateAndNormalizeConfig: the checks in order; the first that fails   *)
(* resets its field and leaves the later ones as they are.                 *)
(***************************************************************************)

\* Mutation of FailsAt: the generation of a backup is not asked for.
FailsAtAnyGeneration(c) ==
    CASE c.machineType # "ok" -> "machineType"
      [] c.serverVersion \in Unset -> "serverVersion"
      [] c.worldSource \notin {"backups", "new-world"} -> "worldSource"
      [] c.worldName \in Unset -> "worldName"
      [] c.worldSource = "new-world" /\ c.levelType \notin {"nil", "ok"} -> "levelType"
      [] OTHER -> "none"

\* The field that stops the validation, or "none".
FailsAt(c) ==
    CASE c.machineType # "ok" -> "machineType"
      [] c.serverVersion \in Unset -> "serverVersion"
      [] c.worldSource \notin {"backups", "new-world"} -> "worldSource"
      [] c.worldName \in Unset -> "worldName"
      [] c.backupGen \in Unset /\ c.worldSource # "new-world" -> "backupGen"
      [] c.worldSource = "new-world" /\ c.levelType \notin {"nil", "ok"} -> "levelType"
      [] OTHER -> "none"

IsValid(c) == FailsAt(c) = "none"

Normalize(c) ==
    LET field == FailsAt(c)
        guessed == IF field \in {"machineType", "serverVersion"} THEN c
                   ELSE [c EXCEPT !.guessVersion = IF @ = "nil" THEN "ok" ELSE @]
        generation == IF c.backupGen = "empty" /\ c.worldSource = "new-world"
                            /\ field \in {"levelType", "none"}
                      THEN [guessed EXCEPT !.backupGen = "nil"] ELSE guessed
    IN CASE field = "backupGen" -> generation
         [] field \notin {"backupGen", "none"} -> [generation EXCEPT ![field] = "nil"]
         [] field = "none" /\ c.worldSource = "backups" ->
                [generation EXCEPT !.levelType = "nil", !.seed = "nil"]
         [] OTHER -> [generation EXCEPT !.seed = IF @ = "empty" THEN "nil" ELSE @]

\* Mutation of Merge: the body is taken for the whole configuration.
MergeReplacing(c, new) == new

\* mergo.Merge with WithOverride and WithoutDereference.
Merge(c, new) == [f \in Fields |-> IF f \in DOMAIN new THEN new[f] ELSE c[f]]

-----------------------------------------------------------------------------
(***************************************************************************)
(* convertToLaunchConfig                                                   *)
(***************************************************************************)

\* gameconfig's SetWorld.
SetWorld(c) == IF c.worldName \in Unset \/ c.backupGen \in Unset THEN "refused" ELSE "backups"

\* GenerateWorld and SetLevelType.
GenerateWorld(c) ==
    IF c.worldName \in Unset \/ c.levelType \notin {"nil", "ok"} THEN "refused" ELSE "new-world"

\* GetServerInfo finds the version in a manifest.
HasVersion(m, version) == version = "ok" \/ m = "new"

\* The source of the world to launch, "refused", or "panic" if a nil pointer is
\* dereferenced.
ConvertToLaunchConfig(c, m) ==
    IF c.serverVersion \in Unset \/ c.machineType = "nil" \/ ~HasVersion(m, c.serverVersion)
    THEN "refused"
    ELSE IF c.guessVersion = "nil" THEN "panic"
    ELSE IF c.worldSource = "backups" THEN SetWorld(c) ELSE GenerateWorld(c)

-----------------------------------------------------------------------------
(***************************************************************************)
(* Handlers                                                                *)
(***************************************************************************)

ConfigTypeOK ==
    /\ pending \in Config \cup {NoConfig}
    /\ told \in BOOLEAN
    /\ request \in [Editors -> {Idle} \cup [at : {"write"}, config : Config]]
    /\ launchResult \in {"none", "refused", "panic", "backups", "new-world"}
    /\ manifest \in {"old", "new"} /\ cached \in {"none", "old", "new"}
    /\ requests \in 0..MaxRequests /\ configFaults \in 0..MaxConfigFaults

ConfigInit ==
    /\ pending = NoConfig /\ told = FALSE
    /\ request = [e \in Editors |-> Idle]
    /\ launchResult = "none"
    /\ manifest = "old" /\ cached = "none"
    /\ requests = 0 /\ configFaults = 0

ConfigFault == configFaults < MaxConfigFaults /\ configFaults' = configFaults + 1
NewRequest(e) == request[e] = Idle /\ requests < MaxRequests /\ requests' = requests + 1
GoWrite(e, c) == request' = [request EXCEPT ![e] = [at |-> "write", config |-> c]]

\* GET /config reads the key; every error, of Redis too, gives the default.
GetConfig(e) ==
    /\ NewRequest(e)
    /\ \/ pending # NoConfig /\ GoWrite(e, pending) /\ UNCHANGED configFaults
       \/ pending = NoConfig /\ GoWrite(e, DefaultConfig) /\ UNCHANGED configFaults
       \/ ConfigFault /\ GoWrite(e, DefaultConfig)
    /\ UNCHANGED <<pending, told, launchResult, manifest, cached>>

\* PUT /config reads the key and merges the body; without a key it is refused.
UpdateConfig(e) ==
    /\ NewRequest(e)
    /\ \/ /\ pending # NoConfig
          /\ \E new \in Updates : GoWrite(e, Merge(pending, new))
          /\ UNCHANGED configFaults
       \/ pending = NoConfig /\ UNCHANGED <<request, configFaults>>
       \/ ConfigFault /\ UNCHANGED request
    /\ UNCHANGED <<pending, told, launchResult, manifest, cached>>

\* Both normalise what they have and write the whole of it.
WriteConfig(e) ==
    /\ request[e].at = "write"
    /\ request' = [request EXCEPT ![e] = Idle]
    /\ \/ /\ pending' = Normalize(request[e].config)
          /\ told' = IsValid(request[e].config)
          /\ UNCHANGED configFaults
       \/ ConfigFault /\ UNCHANGED <<pending, told>>
    /\ UNCHANGED <<launchResult, manifest, cached, requests>>

\* The key lives for 30 days.
ExpireConfig ==
    /\ pending # NoConfig /\ pending' = NoConfig
    /\ told' = FALSE
    /\ UNCHANGED <<request, launchResult, manifest, cached, requests, configFaults>>

\* GetVersions: what it answers with; an error of the cache is a miss.
GetVersions(answer) ==
    \/ cached # "none" /\ answer = cached /\ UNCHANGED <<cached, configFaults>>
    \/ cached = "none" /\ answer = manifest /\ cached' = manifest /\ UNCHANGED configFaults
    \/ ConfigFault /\ answer \in {manifest, "none"}
          /\ cached' \in {cached, IF answer = "none" THEN cached ELSE answer}

\* GET /mcversions.
ListVersions(e) ==
    /\ NewRequest(e)
    /\ \E answer \in {"none", "old", "new"} : GetVersions(answer)
    /\ UNCHANGED <<pending, told, request, launchResult, manifest>>

\* The cache lives for a day; Mojang publishes a version.
ExpireVersions ==
    /\ cached # "none" /\ cached' = "none"
    /\ UNCHANGED <<pending, told, request, launchResult, manifest, requests, configFaults>>
PublishVersion ==
    /\ manifest = "old" /\ manifest' = "new"
    /\ UNCHANGED <<pending, told, request, launchResult, cached, requests, configFaults>>

\* POST /launch, up to the call of Launch; GetVersionMetaData may fail.
LaunchPending(e) ==
    /\ NewRequest(e)
    /\ \/ /\ pending # NoConfig
          /\ \E answer \in {"none", "old", "new"} :
                /\ GetVersions(answer)
                /\ launchResult' = IF answer = "none" THEN "refused"
                                   ELSE ConvertToLaunchConfig(pending, answer)
       \/ pending = NoConfig /\ launchResult' = "refused" /\ UNCHANGED <<cached, configFaults>>
       \/ ConfigFault /\ launchResult' = "refused" /\ UNCHANGED cached
    /\ UNCHANGED <<pending, told, request, manifest>>

ConfigNext ==
    \/ ExpireConfig \/ ExpireVersions \/ PublishVersion
    \/ \E e \in Editors :
          GetConfig(e) \/ UpdateConfig(e) \/ WriteConfig(e) \/ ListVersions(e) \/ LaunchPending(e)

-----------------------------------------------------------------------------

\* Whatever the users write over each other, what is stored never makes a launch
\* dereference a nil pointer; and if the page was told that it is valid a launch takes
\* it with the world it names, as long as its version is found.  validateAndNormalizeConfig and
\* convertToLaunchConfig check the fields apart from each other, and in another order.
ValidConfigLaunches ==
    pending # NoConfig =>
        LET result == ConvertToLaunchConfig(pending, "new") IN
        result # "panic" /\ (told => result = pending.worldSource)
=============================================================================
