----------------------------- MODULE WorldStore -----------------------------
(***************************************************************************)
(* The bucket of worlds: runners upload and download generations through   *)
(* presigned URLs, users list, upload and delete them, and a job prunes    *)
(* the old ones of every world each night.                                 *)
(*                                                                         *)
(* A key is a world with a name: the time of a runner's upload, or the     *)
(* name all uploads of users have.  Timestamps count seconds, and two      *)
(* uploads may share one.                                                  *)
(***************************************************************************)
EXTENDS Naturals, FiniteSets

CONSTANTS
    Worlds,        \* names of worlds
    Preserve,      \* generations that runPruneWorldsJob keeps (3 in the code)
    MaxSeconds,    \* bound on the clock
    MaxStoreFaults \* bound on calls that fail

ASSUME WorldAssumption ==
    {Preserve, MaxSeconds, MaxStoreFaults} \subseteq Nat /\ MaxSeconds > 0

VARIABLES
    clock,
    bucket,     \* the timestamp of each key, 0 if there is none
    playing,    \* the runner: what it does, the world and the key it has
    listing,    \* the cached answer of GET /worlds, or NoListing
    page,       \* keys of the list a user looks at
    prune,      \* Prune: keys it will delete, and what it does
    disturbed,  \* worlds whose keys users put or deleted since Prune listed them
    storeFaults

worldVars == <<clock, bucket, playing, listing, page, prune, disturbed, storeFaults>>

Keys == [world : Worlds, name : 1..MaxSeconds \cup {0}]
\* handleApiCreateWorldUploadLink, with one archive type.
UserKey(w) == [world |-> w, name |-> 0]

\* ListObjects, with the prefix of a world.
ListObjects(w) == {k \in Keys : k.world = w /\ bucket[k] # 0}
Listed == {k \in Keys : bucket[k] # 0}

NoKey == [world |-> "none", name |-> 0]
NoListing == {NoKey}
PlayStates == {"idle", "found", "playing", "upload"}

WorldTypeOK ==
    /\ clock \in 1..MaxSeconds
    /\ bucket \in [Keys -> 0..MaxSeconds]
    /\ playing \in [at : PlayStates, world : Worlds, key : Keys \cup {NoKey}]
    /\ listing \subseteq Keys \/ listing = NoListing
    /\ page \subseteq Keys
    /\ prune \in [at : {"idle", "listed", "one by one"}, keys : SUBSET Keys]
    /\ disturbed \subseteq Worlds
    /\ storeFaults \in 0..MaxStoreFaults

WorldInit ==
    /\ clock = 1
    /\ bucket = [k \in Keys |-> 0]
    /\ playing \in {[at |-> "idle", world |-> w, key |-> NoKey] : w \in Worlds}
    /\ listing = NoListing /\ page = {}
    /\ prune = [at |-> "idle", keys |-> {}]
    /\ disturbed = {}
    /\ storeFaults = 0

StoreFault == storeFaults < MaxStoreFaults /\ storeFaults' = storeFaults + 1

Second ==
    /\ clock < MaxSeconds /\ clock' = clock + 1
    /\ UNCHANGED <<bucket, playing, listing, page, prune, disturbed, storeFaults>>

-----------------------------------------------------------------------------
(***************************************************************************)
(* The runner                                                              *)
(***************************************************************************)

Plays(at, w, k) == playing' = [at |-> at, world |-> w, key |-> k]

\* handleGetLatestWorldID: GetLatestWorldKey sorts by time, newest first.
FindLatest ==
    /\ playing.at = "idle"
    /\ \E w \in Worlds : \E k \in ListObjects(w) :
          /\ \A other \in ListObjects(w) : bucket[other] <= bucket[k]
          /\ Plays("found", w, k)
    /\ UNCHANGED <<clock, bucket, listing, page, prune, disturbed, storeFaults>>

\* The configuration names a generation of the list.
ChooseGeneration ==
    /\ playing.at = "idle"
    /\ \E k \in page : Plays("found", k.world, k)
    /\ UNCHANGED <<clock, bucket, listing, page, prune, disturbed, storeFaults>>

\* Or it makes a new world.
GenerateNewWorld ==
    /\ playing.at = "idle"
    /\ \E w \in Worlds : Plays("playing", w, NoKey)
    /\ UNCHANGED <<clock, bucket, listing, page, prune, disturbed, storeFaults>>

\* handleCreateWorldDownloadURL signs any key; the download finds the object, or not.
DownloadWorld ==
    /\ playing.at = "found"
    /\ IF bucket[playing.key] # 0 THEN Plays("playing", playing.world, playing.key)
       ELSE Plays("idle", playing.world, NoKey)
    /\ UNCHANGED <<clock, bucket, listing, page, prune, disturbed, storeFaults>>

\* The game ends, more than a second later: handleCreateWorldUploadURL names the key
\* by the time.
CreateUploadURL ==
    /\ playing.at = "playing" /\ clock < MaxSeconds
    /\ clock' = clock + 1
    /\ Plays("upload", playing.world, [world |-> playing.world, name |-> clock'])
    /\ UNCHANGED <<bucket, listing, page, prune, disturbed, storeFaults>>

UploadWorld ==
    /\ playing.at = "upload"
    /\ \/ bucket' = [bucket EXCEPT ![playing.key] = clock] /\ UNCHANGED storeFaults
       \/ StoreFault /\ UNCHANGED bucket
    /\ Plays("idle", playing.world, NoKey)
    /\ UNCHANGED <<clock, listing, page, prune, disturbed>>

-----------------------------------------------------------------------------
(***************************************************************************)
(* Users                                                                   *)
(***************************************************************************)

\* handleApiListWorlds: the cache, or GetWorlds, which is then cached.
ListWorlds ==
    /\ page' = IF listing = NoListing THEN Listed ELSE listing
    /\ \/ listing' = page' /\ UNCHANGED storeFaults
       \/ StoreFault /\ UNCHANGED listing
    /\ UNCHANGED <<clock, bucket, playing, prune, disturbed>>

\* It lives for five seconds.
ExpireListing ==
    /\ listing # NoListing /\ listing' = NoListing
    /\ UNCHANGED <<clock, bucket, playing, page, prune, disturbed, storeFaults>>

\* handleApiDeleteWorld.
DeleteWorld ==
    /\ \E k \in page :
          /\ bucket' = [bucket EXCEPT ![k] = 0]
          /\ disturbed' = disturbed \cup {k.world}
    /\ UNCHANGED <<clock, playing, listing, page, prune, storeFaults>>

\* handleApiCreateWorldUploadLink, and the browser's upload to its URL.
UploadByUser(w) ==
    /\ bucket' = [bucket EXCEPT ![UserKey(w)] = clock]
    /\ disturbed' = disturbed \cup {w}
    /\ UNCHANGED <<clock, playing, listing, page, prune, storeFaults>>

-----------------------------------------------------------------------------
(***************************************************************************)
(* Prune                                                                   *)
(***************************************************************************)

\* Mutation of PruneSlice: the newest come last.
PruneSliceOldest(w) ==
    {keys \in SUBSET ListObjects(w) :
        /\ Cardinality(ListObjects(w)) = Cardinality(keys) + Preserve
        /\ \A k \in keys, kept \in ListObjects(w) \ keys : bucket[k] >= bucket[kept]}

\* The keys pruneSlice may take of a world: all but the first Preserve, newest first.
PruneSlice(w) ==
    {keys \in SUBSET ListObjects(w) :
        /\ Cardinality(ListObjects(w)) = Cardinality(keys) + Preserve
        /\ \A k \in keys, kept \in ListObjects(w) \ keys : bucket[k] <= bucket[kept]}

\* ListObjects and groupByPrefix; one call deletes the keys of a world.
PruneList ==
    /\ prune.at = "idle"
    /\ \E w \in Worlds : \E keys \in PruneSlice(w) :
          prune' = [at |-> "listed", keys |-> keys]
    /\ disturbed' = {}
    /\ UNCHANGED <<clock, bucket, playing, listing, page, storeFaults>>

PruneEnds == prune' = [at |-> "idle", keys |-> {}]

\* DeleteObjects in bulk; a service that has no bulk operation says so.
PruneBulk ==
    /\ prune.at = "listed"
    /\ \/ /\ bucket' = [k \in Keys |-> IF k \in prune.keys THEN 0 ELSE bucket[k]]
          /\ PruneEnds
          /\ UNCHANGED storeFaults
       \/ /\ prune' = [prune EXCEPT !.at = "one by one"]
          /\ UNCHANGED <<bucket, storeFaults>>
       \/ StoreFault /\ PruneEnds /\ UNCHANGED bucket
    /\ UNCHANGED <<clock, playing, listing, page, disturbed>>

\* The fallback, which goes on after an error.
PruneOne ==
    /\ prune.at = "one by one"
    /\ IF prune.keys = {} THEN PruneEnds /\ UNCHANGED <<bucket, storeFaults>>
       ELSE \E k \in prune.keys :
          /\ prune' = [prune EXCEPT !.keys = @ \ {k}]
          /\ \/ bucket' = [bucket EXCEPT ![k] = 0] /\ UNCHANGED storeFaults
             \/ StoreFault /\ UNCHANGED bucket
    /\ UNCHANGED <<clock, playing, listing, page, disturbed>>

WorldNext ==
    \/ Second
    \/ FindLatest \/ ChooseGeneration \/ GenerateNewWorld \/ DownloadWorld
    \/ CreateUploadURL \/ UploadWorld
    \/ ListWorlds \/ ExpireListing \/ DeleteWorld \/ \E w \in Worlds : UploadByUser(w)
    \/ PruneList \/ PruneBulk \/ PruneOne

-----------------------------------------------------------------------------

\* What Prune deletes, however late it does so, is not among the Preserve newest
\* generations of its world, runners' uploads of the meantime included, unless users
\* put or deleted generations of that world since it was listed.
PruneSparesNewest ==
    [][prune.at # "idle" =>
          \A k \in prune.keys :
              (bucket[k] # 0 /\ bucket'[k] = 0 /\ k.world \notin disturbed') =>
                  Cardinality({other \in ListObjects(k.world) \ {k} : bucket[other] >= bucket[k]})
                      >= Preserve]_worldVars
=============================================================================
