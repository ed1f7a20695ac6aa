------------------------------ MODULE Launcher ------------------------------
(***************************************************************************)
(* The life of the one game server the control plane runs at a time:       *)
(* launcher.go takes the Redis key "running", creates a VM and records its *)
(* id; the runner on the VM reports over HTTP; its Shutdown event starts   *)
(* the goroutine Clean, which stops and deletes the VM, forgets the        *)
(* session's keys and releases "running".                                  *)
(*                                                                         *)
(* A session is one accepted or refused call of Launch; it stands for its  *)
(* auth key and for the VM that Launch creates.  A host is a machine that  *)
(* runs the session's startup script: its VM, or a machine the user set up *)
(* by hand with the setup code that launchServer offers when Start fails.  *)
(* Every call of Redis and of the cloud is a step of its own, and each may *)
(* fail; at most MaxFaults of them do (waits that time out are not         *)
(* counted: any of them may).                                              *)
(***************************************************************************)
EXTENDS Naturals, FiniteSets

CONSTANTS
    Sessions,   \* the calls of Launch, each with its own auth key
    Unset,      \* the value of a Redis key that is not set
    SetUpByHand, \* the sessions whose user runs the startup script on a machine
    MaxFaults   \* bound on the Redis and cloud calls that fail

ASSUME LauncherAssumption ==
    /\ Unset \notin Sessions \X {"vm", "manual"}
    /\ SetUpByHand \subseteq Sessions
    /\ MaxFaults \in Nat

VARIABLES
    cloudConfigured,  \* IsAvailable(): cloud credentials are set
    lock,             \* Redis "running" is set
    authKeys,         \* sessions s whose key "runner:<auth key of s>" is set
    runnerId,         \* Redis "runner-id:default": the host whose VM it names
    page,             \* page code of Redis "current-state"; Loading and Running are "busy"
    missed,           \* history: the last Set of "current-state" reported an error
    launch,           \* program counter of Launch and its goroutine launchServer
    clean,            \* program counter of the Clean a host's Shutdown started
    cookie,           \* serverCookie of that Clean
    vm,               \* cloud: status of the host's VM, "none" for a machine elsewhere
    runner,           \* the runner process on each host
    faults            \* calls that have failed so far

keys == <<authKeys, runnerId>>
shown == <<page, missed>>
vars == <<cloudConfigured, lock, keys, shown, launch, clean, cookie, vm, runner, faults>>

Kinds == {"vm", "manual"}
Hosts == Sessions \X Kinds
SessionOf(h) == h[1]
VMOf(s) == <<s, "vm">>

LaunchPC == {"idle", "refused", "lockError", "register", "abort", "aborted",
             "abortStuck", "announce", "create", "building", "record", "progress",
             "started", "lost", "offer", "script", "manual", "noScript"}
CleanPC == {"idle", "begin", "lookup", "stopping", "stop", "await", "deleting",
            "delete", "unset", "publish", "succeed", "giveUp", "cleaned", "gaveUp",
            "stuck"}
VMStatus == {"none", "BUILD", "ACTIVE", "ERROR", "STOPPING", "SHUTOFF", "deleted"}

Pages == {"launch", "busy", "manualSetup"}

MaybeHost == Hosts \cup {Unset}

TypeOK ==
    /\ cloudConfigured \in BOOLEAN
    /\ lock \in BOOLEAN
    /\ authKeys \subseteq Sessions
    /\ runnerId \in MaybeHost
    /\ page \in Pages
    /\ missed \in BOOLEAN
    /\ launch \in [Sessions -> LaunchPC]
    /\ clean \in [Hosts -> CleanPC]
    /\ cookie \in [Hosts -> MaybeHost]
    /\ vm \in [Hosts -> VMStatus]
    /\ runner \in [Hosts -> {"off", "booted", "attaching", "up", "down"}]
    /\ faults \in 0..MaxFaults

Init ==
    /\ cloudConfigured \in BOOLEAN
    /\ lock = FALSE
    /\ authKeys = {}
    /\ runnerId = Unset
    /\ page = "launch"
    /\ missed = FALSE
    /\ launch = [s \in Sessions |-> "idle"]
    /\ clean = [h \in Hosts |-> "idle"]
    /\ cookie = [h \in Hosts |-> Unset]
    /\ vm = [h \in Hosts |-> "none"]
    /\ runner = [h \in Hosts |-> "off"]
    /\ faults = 0

\* A call fails: one more fault, within the bound.
Fault == faults < MaxFaults /\ faults' = faults + 1
NoFault == UNCHANGED faults

\* A Redis write that reports an error may have reached Redis or not.
MaybeWritten(var, new, old) == var = new \/ var = old

\* PublishEvent: Set("current-state") is a call of its own; an error is logged, and
\* the caller goes on.
Publish(code) ==
    \/ page' = code /\ missed' = FALSE /\ NoFault
    \/ MaybeWritten(page', code, page) /\ missed' = TRUE /\ Fault

VMExists(h) == vm[h] \notin {"none", "deleted"}

-----------------------------------------------------------------------------
(***************************************************************************)
(* Launch and its goroutine launchServer                                   *)
(***************************************************************************)

LaunchGoTo(s, pc) == launch' = [launch EXCEPT ![s] = pc]

\* Mutation of Launch: the previous value of "running" is not looked at.
LaunchUnchecked(s) ==
    /\ launch[s] = "idle"
    /\ lock' = TRUE
    /\ LaunchGoTo(s, "register")
    /\ UNCHANGED <<cloudConfigured, keys, shown, clean, cookie, vm, runner, faults>>

\* lockInstance: GetSet("running", true).  An error other than redis.Nil is
\* returned without a release, whether or not the key was written.
Launch(s) ==
    /\ launch[s] = "idle"
    /\ \/ /\ ~lock
          /\ lock' = TRUE
          /\ LaunchGoTo(s, "register")
          /\ NoFault
       \/ /\ lock
          /\ LaunchGoTo(s, "refused")
          /\ UNCHANGED lock
          /\ NoFault
       \/ /\ Fault
          /\ MaybeWritten(lock', TRUE, lock)
          /\ LaunchGoTo(s, "lockError")
    /\ UNCHANGED <<cloudConfigured, keys, shown, clean, cookie, vm, runner>>

\* Set("runner:<auth key>", "default").
RegisterKey(s) ==
    /\ launch[s] = "register"
    /\ \/ /\ authKeys' = authKeys \cup {s}
          /\ LaunchGoTo(s, "announce")
          /\ NoFault
       \/ /\ Fault
          /\ MaybeWritten(authKeys', authKeys \cup {s}, authKeys)
          /\ LaunchGoTo(s, "abort")
    /\ UNCHANGED <<cloudConfigured, lock, runnerId, shown, clean, cookie, vm, runner>>

\* Publish EventCreateRunner.
Announce(s) ==
    /\ launch[s] = "announce"
    /\ Publish("busy")
    /\ LaunchGoTo(s, IF cloudConfigured THEN "create" ELSE "offer")
    /\ UNCHANGED <<cloudConfigured, lock, keys, clean, cookie, vm, runner>>

\* Mutation of AbortLaunch: the early return forgets to release "running".
AbortLaunchKeepingLock(s) ==
    /\ launch[s] = "abort"
    /\ LaunchGoTo(s, "aborted")
    /\ UNCHANGED <<cloudConfigured, lock, keys, shown, clean, cookie, vm, runner, faults>>

\* releaseInstance after the auth key could not be saved; its error is dropped.
AbortLaunch(s) ==
    /\ launch[s] = "abort"
    /\ \/ /\ lock' = FALSE
          /\ LaunchGoTo(s, "aborted")
          /\ NoFault
       \/ /\ Fault
          /\ MaybeWritten(lock', FALSE, lock)
          /\ LaunchGoTo(s, "abortStuck")
    /\ UNCHANGED <<cloudConfigured, keys, shown, clean, cookie, vm, runner>>

\* Start up to CreateServer: an API error, or the cloud's refusal while the
\* volume is attached to another VM, goes to the label failure.  The reply of
\* a request that was carried out can be lost.
CreateServer(s) ==
    /\ launch[s] = "create"
    /\ \/ /\ vm' = [vm EXCEPT ![VMOf(s)] = "BUILD"]
          /\ LaunchGoTo(s, "building")
          /\ NoFault
       \/ /\ Fault
          /\ MaybeWritten(vm', [vm EXCEPT ![VMOf(s)] = "BUILD"], vm)
          /\ LaunchGoTo(s, "offer")
       \/ /\ \E h \in Hosts : VMExists(h)
          /\ LaunchGoTo(s, "offer")
          /\ UNCHANGED vm
          /\ NoFault
    /\ UNCHANGED <<cloudConfigured, lock, keys, shown, clean, cookie, runner>>

\* Start's wait: any status but BUILD ends it, ERROR too; after 30 minutes of
\* BUILD or of failing requests it is an error.
AwaitBuilt(s) ==
    /\ launch[s] = "building"
    /\ \/ /\ VMExists(VMOf(s)) /\ vm[VMOf(s)] # "BUILD"
          /\ LaunchGoTo(s, "record")
       \/ LaunchGoTo(s, "offer")
    /\ UNCHANGED <<cloudConfigured, lock, keys, shown, clean, cookie, vm, runner, faults>>

\* Mutation of RecordRunnerId: the auth key is saved in place of the VM's id.
RecordAuthKey(s) ==
    /\ launch[s] = "record"
    /\ runnerId' = s
    /\ LaunchGoTo(s, "progress")
    /\ UNCHANGED <<cloudConfigured, lock, authKeys, shown, clean, cookie, vm, runner, faults>>

\* Set("runner-id:default", cookie).  On an error the goroutine returns and keeps
\* "running".
RecordRunnerId(s) ==
    /\ launch[s] = "record"
    /\ \/ /\ runnerId' = VMOf(s)
          /\ LaunchGoTo(s, "progress")
          /\ NoFault
       \/ /\ Fault
          /\ MaybeWritten(runnerId', VMOf(s), runnerId)
          /\ LaunchGoTo(s, "lost")
    /\ UNCHANGED <<cloudConfigured, lock, authKeys, shown, clean, cookie, vm, runner>>

\* Publish EventCreateRunner again, with the progress.
AnnounceProgress(s) ==
    /\ launch[s] = "progress"
    /\ Publish("busy")
    /\ LaunchGoTo(s, "started")
    /\ UNCHANGED <<cloudConfigured, lock, keys, clean, cookie, vm, runner>>

\* Label failure: publish EventManualSetup with a setup code.
OfferManualSetup(s) ==
    /\ launch[s] = "offer"
    /\ Publish("manualSetup")
    /\ LaunchGoTo(s, "script")
    /\ UNCHANGED <<cloudConfigured, lock, keys, clean, cookie, vm, runner>>

\* Save the startup script under the code.  It has a time to live of an hour: no
\* host has to boot from it.
SaveScript(s) ==
    /\ launch[s] = "script"
    /\ \/ LaunchGoTo(s, "manual") /\ NoFault
       \/ LaunchGoTo(s, "manual") /\ Fault
       \/ LaunchGoTo(s, "noScript") /\ Fault
    /\ UNCHANGED <<cloudConfigured, lock, keys, shown, clean, cookie, vm, runner>>

-----------------------------------------------------------------------------
(***************************************************************************)
(* The cloud and the hosts                                                 *)
(***************************************************************************)

\* A VM leaves BUILD, or is off after a stop request.
CloudStep(h) ==
    /\ \/ /\ vm[h] = "BUILD"
          /\ \E status \in {"ACTIVE", "ERROR"} : vm' = [vm EXCEPT ![h] = status]
       \/ /\ vm[h] = "STOPPING"
          /\ vm' = [vm EXCEPT ![h] = "SHUTOFF"]
    /\ UNCHANGED <<cloudConfigured, lock, keys, shown, launch, clean, cookie, runner, faults>>

\* The host's machine is on, so its runner can act.
Powered(h) == vm[h] \in {"ACTIVE", "STOPPING"} \/ (h[2] = "manual" /\ vm[h] = "none")

\* The VM runs the startup script it was created with.  A machine set up by hand
\* fetches it with the setup code; it may be a VM of the same cloud account.
Boot(h) ==
    /\ runner[h] = "off"
    /\ \/ /\ h[2] = "vm" /\ vm[h] = "ACTIVE"
          /\ UNCHANGED vm
       \/ /\ h[2] = "manual" /\ SessionOf(h) \in SetUpByHand
          /\ launch[SessionOf(h)] = "manual"
          /\ \E status \in {"none", "ACTIVE"} : vm' = [vm EXCEPT ![h] = status]
    /\ runner' = [runner EXCEPT ![h] = "booted"]
    /\ UNCHANGED <<cloudConfigured, lock, keys, shown, launch, clean, cookie, faults>>

\* authKeyMiddleware: the request is handled when its auth key is registered.
Authorized(h) == SessionOf(h) \in authKeys

\* Hello: AttachRunner looks whether a runner id is recorded, and takes a failing
\* look for none.  A POST that is refused, is lost, or fails earlier has no effect.
PostHello(h) ==
    /\ runner[h] = "booted" /\ Powered(h)
    /\ LET mayAttach == Authorized(h) /\ cloudConfigured
           After(attaches) == [runner EXCEPT ![h] = IF attaches THEN "attaching" ELSE "up"]
       IN \/ /\ runner' = After(mayAttach /\ runnerId = Unset)
             /\ NoFault
          \/ /\ Fault
             /\ MaybeWritten(runner', After(mayAttach), After(FALSE))
    /\ UNCHANGED <<cloudConfigured, lock, keys, shown, launch, clean, cookie, vm>>

\* AttachRunner goes on: the server of the account with the host's address, if
\* there is one, is recorded as the runner without another look at the key.
\* Errors are logged.
AttachRunner(h) ==
    /\ runner[h] = "attaching"
    /\ runner' = [runner EXCEPT ![h] = "up"]
    /\ \/ /\ runnerId' = IF VMExists(h) THEN h ELSE runnerId
          /\ NoFault
       \/ /\ Fault
          /\ MaybeWritten(runnerId', IF VMExists(h) THEN h ELSE runnerId, runnerId)
    /\ UNCHANGED <<cloudConfigured, lock, authKeys, shown, launch, clean, cookie, vm>>

\* A Status event: the page becomes Running or Loading.
PostStatus(h) ==
    /\ runner[h] = "up" /\ Powered(h) /\ Authorized(h)
    /\ Publish("busy")
    /\ UNCHANGED <<cloudConfigured, lock, keys, launch, clean, cookie, vm, runner>>

\* Mutation of PostShutdown: "running" is released before Clean starts.
PostShutdownReleasing(h) ==
    /\ runner[h] = "up" /\ Powered(h) /\ Authorized(h)
    /\ runner' = [runner EXCEPT ![h] = "down"]
    /\ clean' = [clean EXCEPT ![h] = "begin"]
    /\ lock' = FALSE
    /\ UNCHANGED <<cloudConfigured, keys, shown, launch, cookie, vm, faults>>

\* Shutdown is the last event of a runner: handlePostStatus starts Clean in a
\* goroutine and answers at once.  A POST that is refused or lost starts none.
PostShutdown(h) ==
    /\ runner[h] = "up" /\ Powered(h)
    /\ runner' = [runner EXCEPT ![h] = "down"]
    /\ \/ /\ Authorized(h)
          /\ clean' = [clean EXCEPT ![h] = "begin"]
          /\ NoFault
       \/ /\ ~Authorized(h)
          /\ UNCHANGED clean
          /\ NoFault
       \/ /\ Fault
          /\ UNCHANGED clean
    /\ UNCHANGED <<cloudConfigured, lock, keys, shown, launch, cookie, vm>>

-----------------------------------------------------------------------------
(***************************************************************************)
(* Clean, in the goroutine that the Shutdown event of host h started       *)
(***************************************************************************)

CleanGoTo(h, pc) == clean' = [clean EXCEPT ![h] = pc]

\* Publish EventStopRunner: at once, with progress 10 before the VM is stopped,
\* and with progress 60 before it is deleted.
CleanProgress(h) ==
    /\ \/ clean[h] = "begin" /\ CleanGoTo(h, "lookup")
       \/ clean[h] = "stopping" /\ CleanGoTo(h, "stop")
       \/ clean[h] = "deleting" /\ CleanGoTo(h, "delete")
    /\ Publish("busy")
    /\ UNCHANGED <<cloudConfigured, lock, keys, launch, cookie, vm, runner>>

\* Get("runner-id:default").
CleanLookup(h) ==
    /\ clean[h] = "lookup"
    /\ \/ /\ cookie' = [cookie EXCEPT ![h] = runnerId]
          /\ CleanGoTo(h, CASE runnerId = Unset -> "unset"
                            [] runnerId # Unset /\ cloudConfigured -> "stopping"
                            [] OTHER -> "giveUp")
          /\ NoFault
       \/ /\ Fault
          /\ CleanGoTo(h, "giveUp")
          /\ UNCHANGED cookie
    /\ UNCHANGED <<cloudConfigured, lock, keys, shown, launch, vm, runner>>

\* What the cloud does when it is asked to stop or delete the VM of the cookie.
Stopped(h) == [vm EXCEPT ![cookie[h]] = IF @ = "SHUTOFF" THEN @ ELSE "STOPPING"]
Deleted(h) == [vm EXCEPT ![cookie[h]] = "deleted"]

\* A request that is refused, for a VM that is gone, or that fails: it may have
\* been carried out all the same.  Clean gives up.
CloudCallFails(h, done) ==
    /\ CleanGoTo(h, "giveUp")
    /\ \/ ~VMExists(cookie[h]) /\ UNCHANGED vm /\ NoFault
       \/ ~VMExists(cookie[h]) /\ UNCHANGED vm /\ Fault
       \/ VMExists(cookie[h]) /\ MaybeWritten(vm', done, vm) /\ Fault

\* Mutation of CleanStop: a failing stop is reported as EventStopped.
CleanStopIgnoringError(h) ==
    /\ clean[h] = "stop"
    /\ \/ /\ VMExists(cookie[h])
          /\ vm' = Stopped(h)
          /\ CleanGoTo(h, "await")
          /\ NoFault
       \/ /\ Fault
          /\ CleanGoTo(h, "publish")
          /\ UNCHANGED vm
    /\ UNCHANGED <<cloudConfigured, lock, keys, shown, launch, cookie, runner>>

\* StopServer.
CleanStop(h) ==
    /\ clean[h] = "stop"
    /\ \/ /\ VMExists(cookie[h])
          /\ vm' = Stopped(h)
          /\ CleanGoTo(h, "await")
          /\ NoFault
       \/ CloudCallFails(h, Stopped(h))
    /\ UNCHANGED <<cloudConfigured, lock, keys, shown, launch, cookie, runner>>

\* The wait for SHUTOFF gives up after 30 minutes.
CleanAwaitOff(h) ==
    /\ clean[h] = "await"
    /\ \/ /\ vm[cookie[h]] = "SHUTOFF"
          /\ CleanGoTo(h, "deleting")
       \/ CleanGoTo(h, "giveUp")
    /\ UNCHANGED <<cloudConfigured, lock, keys, shown, launch, cookie, vm, runner, faults>>

\* DeleteServer.
CleanDelete(h) ==
    /\ clean[h] = "delete"
    /\ \/ /\ VMExists(cookie[h])
          /\ vm' = Deleted(h)
          /\ CleanGoTo(h, "unset")
          /\ NoFault
       \/ CloudCallFails(h, Deleted(h))
    /\ UNCHANGED <<cloudConfigured, lock, keys, shown, launch, cookie, runner>>

\* Label out: one Del of the session's four keys.
ForgetKeys(h) ==
    /\ runnerId' = Unset
    /\ authKeys' = authKeys \ {SessionOf(h)}

CleanUnset(h) ==
    /\ clean[h] = "unset"
    /\ \/ ForgetKeys(h) /\ CleanGoTo(h, "publish") /\ NoFault
       \/ ForgetKeys(h) /\ CleanGoTo(h, "giveUp") /\ Fault
       \/ UNCHANGED keys /\ CleanGoTo(h, "giveUp") /\ Fault
    /\ UNCHANGED <<cloudConfigured, lock, shown, launch, cookie, vm, runner>>

\* Publish EventStopped; "running" is still held.
CleanPublish(h) ==
    /\ clean[h] = "publish"
    /\ Publish("launch")
    /\ CleanGoTo(h, "succeed")
    /\ UNCHANGED <<cloudConfigured, lock, keys, launch, cookie, vm, runner>>

\* Mutation of CleanRelease: "running" is released on the successful way out only.
CleanReleaseOnSuccess(h) ==
    /\ clean[h] \in {"succeed", "giveUp"}
    /\ lock' = IF clean[h] = "succeed" THEN FALSE ELSE lock
    /\ CleanGoTo(h, IF clean[h] = "succeed" THEN "cleaned" ELSE "gaveUp")
    /\ UNCHANGED <<cloudConfigured, keys, shown, launch, cookie, vm, runner, faults>>

\* The deferred releaseInstance, on every way out of Clean; its error is dropped.
CleanRelease(h) ==
    /\ clean[h] \in {"succeed", "giveUp"}
    /\ \/ /\ lock' = FALSE
          /\ CleanGoTo(h, IF clean[h] = "succeed" THEN "cleaned" ELSE "gaveUp")
          /\ NoFault
       \/ /\ Fault
          /\ MaybeWritten(lock', FALSE, lock)
          /\ CleanGoTo(h, "stuck")
    /\ UNCHANGED <<cloudConfigured, keys, shown, launch, cookie, vm, runner>>

-----------------------------------------------------------------------------

LaunchStep(s) ==
    \/ Launch(s) \/ RegisterKey(s) \/ AbortLaunch(s) \/ Announce(s) \/ CreateServer(s)
    \/ AwaitBuilt(s) \/ RecordRunnerId(s) \/ AnnounceProgress(s) \/ OfferManualSetup(s)
    \/ SaveScript(s)

HostStep(h) ==
    Boot(h) \/ PostHello(h) \/ AttachRunner(h) \/ PostStatus(h) \/ PostShutdown(h)

CleanStep(h) ==
    \/ CleanProgress(h) \/ CleanLookup(h) \/ CleanStop(h) \/ CleanAwaitOff(h)
    \/ CleanDelete(h) \/ CleanUnset(h) \/ CleanPublish(h) \/ CleanRelease(h)

Next ==
    \/ \E s \in Sessions : LaunchStep(s)
    \/ \E h \in Hosts : CloudStep(h) \/ HostStep(h) \/ CleanStep(h)

Spec == Init /\ [][Next]_vars

\* A goroutine of the control plane keeps running: every call in Clean returns,
\* its waits time out.
FairSpec == Spec /\ \A h \in Hosts : WF_vars(CleanStep(h))

-----------------------------------------------------------------------------
(***************************************************************************)
(* What the lock is for                                                    *)
(***************************************************************************)

Acquired == LaunchPC \ {"idle", "refused", "lockError", "aborted", "abortStuck"}
Ended == {"cleaned", "gaveUp", "stuck"}

\* Session s took "running" and neither its launch nor a Clean of it has ended.
Open(s) == launch[s] \in Acquired /\ \A k \in Kinds : clean[<<s, k>>] \notin Ended

\* Both the VM and a machine set up by hand shut session s down: possible after
\* Start gave up on a VM that came up all the same.
ShutDownTwice(s) == \A k \in Kinds : clean[<<s, k>>] # "idle"

\* "running" is held for as long as a session is open, and one session is open
\* at a time: launchServer, the runner and Clean of one session never run
\* against those of another.  The deferred release of a second Clean of one
\* session is the one way around it.
LockProtectsSession ==
    \/ \E s \in Sessions : ShutDownTwice(s)
    \/ \A s \in Sessions : Open(s) => lock /\ \A t \in Sessions : Open(t) => s = t

\* Clean takes the VM to stop and delete from the shared key "runner-id:default",
\* which may name the VM of an earlier session whose Clean gave up, or that a
\* launchServer recorded after its session was cleaned: it is never the VM of
\* another session that is still open.
CleanSparesOpenSessions ==
    \/ \E s \in Sessions : ShutDownTwice(s)
    \/ \A h \in Hosts :
           /\ clean[h] \in {"stopping", "stop", "await", "deleting", "delete"}
           /\ SessionOf(cookie[h]) # SessionOf(h)
           => ~Open(SessionOf(cookie[h]))

\* "running" never outlives its owner: when it is set, some session is open, or
\* Redis failed while it was being taken or released.
LockHasOwner ==
    lock => \/ \E s \in Sessions : Open(s) \/ launch[s] \in {"lockError", "abortStuck"}
            \/ \E h \in Hosts : clean[h] = "stuck"

\* The VM h is left to itself: a Clean of its session gave up, or looked for the
\* runner before h was recorded (launchServer was still waiting for Start, or
\* AttachRunner had not answered).
LeftBehind(h) ==
    \E k \in Kinds : LET g == <<SessionOf(h), k>> IN
        \/ clean[g] \in {"gaveUp", "stuck"}
        \/ clean[g] \notin {"idle", "begin", "lookup"} /\ cookie[g] # h

\* The Web UI offers to launch (EventStopped is the current state) only while no
\* existing VM is recorded as the runner, but one its own Clean left behind, and
\* while no session is open, but one that has yet to announce itself or whose Clean
\* is about to release "running".  After a Set of the current state that failed the
\* page is out of date until the next one.
LaunchPageMeansStopped ==
    \/ missed
    \/ \E s \in Sessions : ShutDownTwice(s)
    \/ page = "launch" =>
           /\ runnerId # Unset => ~VMExists(runnerId) \/ LeftBehind(runnerId)
           /\ \A s \in Sessions : Open(s) =>
                  \/ launch[s] \in {"register", "abort", "announce"}
                  \/ \E k \in Kinds : clean[<<s, k>>] = "succeed"

\* Whatever fails in the cloud, a Shutdown of a session frees the instance for another
\* launch, except when Redis fails on the release itself.
ShutdownFreesInstance ==
    \A s \in Sessions :
        (\E k \in Kinds : clean[<<s, k>>] = "begin")
            ~> (~lock \/ \E k \in Kinds : clean[<<s, k>>] = "stuck")

\* The message of lockInstance, "another server is already running", tells what
\* the check is for: no launch is accepted while the VM of another session is up.
LaunchRefusedWhileServerRuns ==
    [][\A s \in Sessions : launch[s] = "idle" /\ launch'[s] = "register" =>
           \A t \in Sessions : vm[VMOf(t)] # "ACTIVE"]_vars
=============================================================================
