---------------------------- MODULE BootStorage ----------------------------
(***************************************************************************)
(* The storage the servers boot from: one job saves the volume as an image *)
(* every week, another makes a volume from the image when there is none,   *)
(* every hour.  Both call ConoHa through one client, which they share with *)
(* its token, and which has no lock.                                       *)
(*                                                                         *)
(* Only volumes and images with the configured name are in the model.  A   *)
(* job is over before its next turn.                                       *)
(***************************************************************************)
EXTENDS Naturals, FiniteSets

CONSTANTS
    Images,           \* ids of images
    Volumes,          \* ids of volumes
    Margin,           \* what a token must have left, a minute: in ticks of the clock
    TokenLife,        \* what a new token has
    MaxTicks,         \* bound on the clock
    MaxStorageFaults  \* bound on calls that fail and on restarts

\* The clock ticks at least twice in a minute, and a token lives longer than that.
ASSUME StorageAssumption ==
    /\ {Margin, TokenLife, MaxTicks, MaxStorageFaults} \subseteq Nat
    /\ Margin >= 2 /\ TokenLife > Margin + 1
    /\ MaxTicks > 0 /\ Volumes # {}

VARIABLES
    image,       \* each image's status: "none", "saving", "active", "deleted"
    volumes,     \* volumes that exist
    usedVolumes, \* volumes that ever existed
    job,         \* what each job does: the call it is at, and how far the client is with it
    token,       \* c.token: when it expires
    expiresAt,   \* c.expiresAt
    ticks,
    storageFaults

storageVars == <<image, volumes, usedVolumes, job, token, expiresAt, ticks, storageFaults>>

Jobs == {"save", "create"}
Calls == {"ListImages", "DeleteImage", "ListVolumes", "SaveVolumeImage", "CreateBootVolume"}
NoImage == "none"
Found == Images \cup {NoImage}
Over == [call |-> "none"]

\* client: "check", "refresh", "token", "expiry" (updateToken), "send"; age: ticks since
\* the client went on; held: the token it got, or has in its request.
InCall == [call : Calls, client : {"check", "refresh", "token", "expiry", "send"},
           found : Found, held : Nat, age : 0..1]

StorageTypeOK ==
    /\ image \in [Images -> {"none", "saving", "active", "deleted"}]
    /\ volumes \subseteq usedVolumes /\ usedVolumes \subseteq Volumes
    /\ job \in [Jobs -> InCall \cup {Over}]
    /\ token \in Nat /\ expiresAt \in Nat
    /\ ticks \in 0..MaxTicks
    /\ storageFaults \in 0..MaxStorageFaults

StorageInit ==
    /\ \E i \in Found : image = [j \in Images |-> IF j = i THEN "active" ELSE "none"]
    /\ volumes \in {{}, {CHOOSE v \in Volumes : TRUE}} /\ usedVolumes = volumes
    /\ job = [j \in Jobs |-> Over]
    /\ token = 0 /\ expiresAt = 0 /\ ticks = 1
    /\ storageFaults = 0

StorageFault == storageFaults < MaxStorageFaults /\ storageFaults' = storageFaults + 1

-----------------------------------------------------------------------------
(***************************************************************************)
(* The client                                                              *)
(***************************************************************************)

ClientAt(j, client, held) ==
    job' = [job EXCEPT ![j].client = client, ![j].held = held, ![j].age = 0]
Call(j, call, found) ==
    job' = [job EXCEPT ![j] =
        [call |-> call, client |-> "check", found |-> found, held |-> 0, age |-> 0]]
End(j) == job' = [job EXCEPT ![j] = Over]

\* Mutation of CheckToken: a token is used up to its last moment.
CheckTokenLate(j) ==
    /\ job[j].call # "none" /\ job[j].client = "check"
    /\ IF expiresAt > ticks THEN ClientAt(j, "send", token) ELSE ClientAt(j, "refresh", 0)
    /\ UNCHANGED <<image, volumes, usedVolumes, token, expiresAt, ticks, storageFaults>>

\* updateToken; with a token that has time left the request is made with it.
CheckToken(j) ==
    /\ job[j].call # "none" /\ job[j].client = "check"
    /\ IF expiresAt > ticks + Margin THEN ClientAt(j, "send", token)
       ELSE ClientAt(j, "refresh", 0)
    /\ UNCHANGED <<image, volumes, usedVolumes, token, expiresAt, ticks, storageFaults>>

\* CreateToken of the identity service.
CreateCloudToken(j) ==
    /\ job[j].call # "none" /\ job[j].client = "refresh"
    /\ \/ ClientAt(j, "token", ticks + TokenLife) /\ UNCHANGED storageFaults
       \/ StorageFault /\ End(j)
    /\ UNCHANGED <<image, volumes, usedVolumes, token, expiresAt, ticks>>

\* c.token and c.expiresAt are written one after the other; other jobs run in between.
WriteToken(j) ==
    /\ job[j].call # "none" /\ job[j].client = "token"
    /\ token' = job[j].held
    /\ job' = [job EXCEPT ![j].client = "expiry"]
    /\ UNCHANGED <<image, volumes, usedVolumes, expiresAt, ticks, storageFaults>>
WriteExpiry(j) ==
    /\ job[j].call # "none" /\ job[j].client = "expiry"
    /\ expiresAt' = job[j].held
    /\ ClientAt(j, "send", token)
    /\ UNCHANGED <<image, volumes, usedVolumes, token, ticks, storageFaults>>

\* Less than half the margin passes between two steps of the client.
ClockTick ==
    /\ ticks < MaxTicks
    /\ \A j \in Jobs : job[j].call # "none" => job[j].age = 0
    /\ ticks' = ticks + 1
    /\ job' = [j \in Jobs |->
          IF job[j].call # "none" /\ job[j].client \in {"token", "expiry", "send"}
          THEN [job[j] EXCEPT !.age = 1] ELSE job[j]]
    /\ UNCHANGED <<image, volumes, usedVolumes, token, expiresAt, storageFaults>>

\* The request is sent; it fails with or without its effect, and so does the job.
Sending(j, call) == job[j].call = call /\ job[j].client = "send"
Fails(j) == StorageFault /\ End(j)

-----------------------------------------------------------------------------
(***************************************************************************)
(* The jobs                                                                *)
(***************************************************************************)

Start(j) ==
    /\ job[j] = Over
    /\ Call(j, IF j = "save" THEN "ListImages" ELSE "ListVolumes", NoImage)
    /\ UNCHANGED <<image, volumes, usedVolumes, token, expiresAt, ticks, storageFaults>>

\* The call that follows the answer to one: the first image with the name, if there
\* is any, is deleted, and a volume, if there is any, is saved.
SaveStorageJob(answered, i) ==
    CASE answered = "ListImages" -> IF i = NoImage THEN "ListVolumes" ELSE "DeleteImage"
      [] answered = "DeleteImage" -> "ListVolumes"
      [] answered = "ListVolumes" -> IF volumes = {} THEN "none" ELSE "SaveVolumeImage"
      [] OTHER -> "none"

\* Mutation of CreateStorageJob: the job does not look for a volume in the answer.
CreateStorageJobAnyway(answered, i) ==
    CASE answered = "ListVolumes" -> "ListImages"
      [] answered = "ListImages" /\ i # NoImage -> "CreateBootVolume"
      [] OTHER -> "none"

\* If there is no volume one is made of the first image, which must be active.
CreateStorageJob(answered, i) ==
    CASE answered = "ListVolumes" -> IF volumes = {} THEN "ListImages" ELSE "none"
      [] answered = "ListImages" ->
            IF i # NoImage /\ image[i] = "active" THEN "CreateBootVolume" ELSE "none"
      [] OTHER -> "none"

GoesOn(j, answered, i) ==
    LET next == IF j = "save" THEN SaveStorageJob(answered, i) ELSE CreateStorageJob(answered, i)
    IN IF next = "none" THEN End(j) ELSE Call(j, next, i)

-----------------------------------------------------------------------------
(***************************************************************************)
(* Requests                                                                *)
(***************************************************************************)

Existing == {i \in Images : image[i] \in {"saving", "active"}}

ListImages(j) ==
    /\ Sending(j, "ListImages")
    /\ \/ /\ \E i \in IF Existing = {} THEN {NoImage} ELSE Existing : GoesOn(j, "ListImages", i)
          /\ UNCHANGED storageFaults
       \/ Fails(j)
    /\ UNCHANGED <<image, volumes, usedVolumes, token, expiresAt, ticks>>

DeleteImage(j) ==
    /\ Sending(j, "DeleteImage")
    /\ \/ /\ image' = [image EXCEPT ![job[j].found] = "deleted"]
          /\ GoesOn(j, "DeleteImage", NoImage) /\ UNCHANGED storageFaults
       \/ Fails(j) /\ image' \in {image, [image EXCEPT ![job[j].found] = "deleted"]}
    /\ UNCHANGED <<volumes, usedVolumes, token, expiresAt, ticks>>

ListVolumes(j) ==
    /\ Sending(j, "ListVolumes")
    /\ \/ GoesOn(j, "ListVolumes", NoImage) /\ UNCHANGED storageFaults
       \/ Fails(j)
    /\ UNCHANGED <<image, volumes, usedVolumes, token, expiresAt, ticks>>

NewImage == {i \in Images : image[i] = "none"}

SaveVolumeImage(j) ==
    /\ Sending(j, "SaveVolumeImage") /\ NewImage # {}
    /\ \/ /\ volumes # {}
          /\ \E i \in NewImage : image' = [image EXCEPT ![i] = "saving"]
          /\ (End(j) /\ UNCHANGED storageFaults) \/ Fails(j)
       \/ volumes = {} /\ End(j) /\ UNCHANGED <<image, storageFaults>>
       \/ Fails(j) /\ UNCHANGED image
    /\ UNCHANGED <<volumes, usedVolumes, token, expiresAt, ticks>>

CreateBootVolume(j) ==
    /\ Sending(j, "CreateBootVolume") /\ usedVolumes # Volumes
    /\ \/ /\ image[job[j].found] = "active"
          /\ \E v \in Volumes \ usedVolumes :
                volumes' = volumes \cup {v} /\ usedVolumes' = usedVolumes \cup {v}
          /\ (End(j) /\ UNCHANGED storageFaults) \/ Fails(j)
       \/ /\ image[job[j].found] # "active"
          /\ End(j) /\ UNCHANGED <<volumes, usedVolumes, storageFaults>>
       \/ Fails(j) /\ UNCHANGED <<volumes, usedVolumes>>
    /\ UNCHANGED <<image, token, expiresAt, ticks>>

\* ConoHa completes an image; someone deletes the volume to have it made anew.
ImageSaved ==
    /\ \E i \in Images : image[i] = "saving" /\ image' = [image EXCEPT ![i] = "active"]
    /\ UNCHANGED <<volumes, usedVolumes, job, token, expiresAt, ticks, storageFaults>>
VolumeDeleted ==
    /\ volumes # {} /\ volumes' = {}
    /\ UNCHANGED <<image, usedVolumes, job, token, expiresAt, ticks, storageFaults>>

\* The control plane is restarted: jobs and token are gone.
Restart ==
    /\ StorageFault
    /\ job' = [j \in Jobs |-> Over] /\ token' = 0 /\ expiresAt' = 0
    /\ UNCHANGED <<image, volumes, usedVolumes, ticks>>

StorageNext ==
    \/ ClockTick \/ ImageSaved \/ VolumeDeleted \/ Restart
    \/ \E j \in Jobs :
          \/ Start(j) \/ CheckToken(j) \/ CreateCloudToken(j) \/ WriteToken(j) \/ WriteExpiry(j)
          \/ ListImages(j) \/ DeleteImage(j) \/ ListVolumes(j) \/ SaveVolumeImage(j)
          \/ CreateBootVolume(j)

-----------------------------------------------------------------------------

\* There is one boot volume at most, though a call that made one may have failed and
\* the job runs again: servers boot from the first one that is listed.
AtMostOneVolume == Cardinality(volumes) <= 1

\* No request is sent with an expired token, although the two jobs may refresh it at
\* the same time and leave the token of one with the time of the other.
CallsCarryLiveToken ==
    \A j \in Jobs : job[j].call # "none" /\ job[j].client = "send" => job[j].held > ticks
=============================================================================
