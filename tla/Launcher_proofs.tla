-------------------------- MODULE Launcher_proofs --------------------------
(***************************************************************************)
(* For any number of launches and of failing calls: "running" protects the *)
(* open session, Clean spares the VMs of other open sessions, a held lock  *)
(* has an owner, and the page offers a launch only when nothing runs.      *)
(***************************************************************************)
EXTENDS Launcher, TLAPS

\* The empty control plane has a value of the right type in every variable.
LEMMA TypeInit == ASSUME Init PROVE TypeOK
<1> USE DEF LauncherAssumption, Hosts, MaybeHost, LaunchPC, CleanPC, VMStatus, Pages
<1>1. cloudConfigured \in BOOLEAN /\ lock \in BOOLEAN
  BY DEF Init
<1>2. faults \in 0..MaxFaults
  BY LauncherAssumption DEF Init
<1> QED BY <1>1, <1>2 DEF Init, TypeOK

\* The page changes only when an event is published; a call that fails counts.
LEMMA ShownStep ==
    ASSUME [Next]_vars
    PROVE  /\ UNCHANGED shown \/ \E code \in Pages : Publish(code)
           /\ Fault \/ NoFault
<1> USE DEF Pages
<1>1. ASSUME NEW s \in Sessions, LaunchStep(s)
      PROVE  UNCHANGED shown \/ \E code \in Pages : Publish(code)
  BY <1>1 DEF LaunchStep, Launch, RegisterKey, AbortLaunch, CreateServer, AwaitBuilt,
              RecordRunnerId, OfferManualSetup, Announce, AnnounceProgress, SaveScript
<1>2. ASSUME NEW h \in Hosts, CloudStep(h) \/ HostStep(h)
      PROVE  UNCHANGED shown \/ \E code \in Pages : Publish(code)
  BY <1>2 DEF CloudStep, HostStep, Boot, PostHello, AttachRunner, PostStatus, PostShutdown
<1>3. ASSUME NEW h \in Hosts, CleanStep(h)
      PROVE  UNCHANGED shown \/ \E code \in Pages : Publish(code)
  BY <1>3 DEF CleanStep, CleanProgress, CleanLookup, CleanStop, CleanAwaitOff, CleanDelete,
              CleanUnset, CleanPublish, CleanRelease
<1>4. ASSUME NEW s \in Sessions, LaunchStep(s) PROVE Fault \/ NoFault
  BY <1>4 DEF LaunchStep, Launch, RegisterKey, AbortLaunch, CreateServer, AwaitBuilt, NoFault,
              RecordRunnerId, OfferManualSetup, Announce, AnnounceProgress, SaveScript, Publish
<1>5. ASSUME NEW h \in Hosts, CloudStep(h) \/ HostStep(h) PROVE Fault \/ NoFault
  BY <1>5 DEF CloudStep, HostStep, Boot, PostHello, AttachRunner, PostStatus, PostShutdown,
              NoFault, Publish
<1>6. ASSUME NEW h \in Hosts, CleanStep(h) PROVE Fault \/ NoFault
  BY <1>6 DEF CleanStep, CleanProgress, CleanLookup, CleanStop, CloudCallFails, CleanAwaitOff,
              CleanDelete, CleanUnset, CleanPublish, CleanRelease, NoFault, Publish
<1>7. CASE UNCHANGED vars
  BY <1>7 DEF vars, NoFault
<1> QED BY <1>1, <1>2, <1>3, <1>4, <1>5, <1>6, <1>7 DEF Next

\* Nothing but these writes "running", and nothing sets up the cloud.
LEMMA FlagStep ==
    ASSUME [Next]_vars
    PROVE  cloudConfigured' = cloudConfigured /\ lock' \in {TRUE, FALSE, lock}
<1>1. ASSUME NEW s \in Sessions, LaunchStep(s)
      PROVE  cloudConfigured' = cloudConfigured /\ lock' \in {TRUE, FALSE, lock}
  BY <1>1 DEF LaunchStep, Launch, RegisterKey, AbortLaunch, CreateServer, AwaitBuilt, MaybeWritten,
              RecordRunnerId, OfferManualSetup, Announce, AnnounceProgress, SaveScript
<1>2. ASSUME NEW h \in Hosts, CloudStep(h) \/ HostStep(h)
      PROVE  cloudConfigured' = cloudConfigured /\ lock' = lock
  BY <1>2 DEF CloudStep, HostStep, Boot, PostHello, AttachRunner, PostStatus, PostShutdown
<1>3. ASSUME NEW h \in Hosts, CleanStep(h)
      PROVE  cloudConfigured' = cloudConfigured /\ lock' \in {TRUE, FALSE, lock}
  BY <1>3 DEF CleanStep, CleanProgress, CleanLookup, CleanStop, CleanAwaitOff, CleanDelete,
              CleanUnset, CleanPublish, CleanRelease, MaybeWritten
<1> QED BY <1>1, <1>2, <1>3 DEF Next, vars

\* No step of a launch, of the cloud, of a runner or of Clean leaves the types.
LEMMA TypeStep == ASSUME TypeOK, [Next]_vars PROVE TypeOK'
<1> DEFINE Rest == /\ authKeys \subseteq Sessions
                   /\ runnerId \in MaybeHost
                   /\ launch \in [Sessions -> LaunchPC]
                   /\ clean \in [Hosts -> CleanPC]
                   /\ cookie \in [Hosts -> MaybeHost]
                   /\ vm \in [Hosts -> VMStatus]
                   /\ runner \in [Hosts -> {"off", "booted", "attaching", "up", "down"}]
<1>1. Rest'
  <2>0. Rest
    BY DEF TypeOK
  <2> USE DEF Kinds, Hosts, MaybeHost, SessionOf, VMOf, LaunchPC, CleanPC, VMStatus
  <2> USE DEF MaybeWritten, LaunchGoTo, CleanGoTo, keys
  <2>1. ASSUME NEW s \in Sessions, LaunchStep(s) PROVE Rest'
    <3>1. CASE Launch(s) \/ AbortLaunch(s)
      BY <2>0, <3>1 DEF Launch, AbortLaunch
    <3>2. CASE RegisterKey(s) \/ Announce(s)
      BY <2>0, <3>2 DEF RegisterKey, Announce
    <3>3. CASE CreateServer(s) \/ AwaitBuilt(s)
      BY <2>0, <3>3 DEF CreateServer, AwaitBuilt
    <3>4. CASE RecordRunnerId(s) \/ AnnounceProgress(s)
      BY <2>0, <3>4 DEF RecordRunnerId, AnnounceProgress
    <3>5. CASE OfferManualSetup(s) \/ SaveScript(s)
      BY <2>0, <3>5 DEF OfferManualSetup, SaveScript
    <3> QED BY <2>1, <3>1, <3>2, <3>3, <3>4, <3>5 DEF LaunchStep
  <2>2. ASSUME NEW h \in Hosts, CloudStep(h) PROVE Rest'
    BY <2>0, <2>2 DEF CloudStep
  <2>3. ASSUME NEW h \in Hosts, HostStep(h) PROVE Rest'
    <3>1. CASE Boot(h)         BY <2>0, <3>1 DEF Boot
    <3>2. CASE PostHello(h)    BY <2>0, <3>2 DEF PostHello
    <3>3. CASE AttachRunner(h) BY <2>0, <3>3 DEF AttachRunner
    <3>4. CASE PostStatus(h)   BY <2>0, <3>4 DEF PostStatus
    <3>5. CASE PostShutdown(h) BY <2>0, <3>5 DEF PostShutdown
    <3> QED BY <2>3, <3>1, <3>2, <3>3, <3>4, <3>5 DEF HostStep
  <2>4. ASSUME NEW h \in Hosts, CleanStep(h) PROVE Rest'
    <3>1. CASE CleanLookup(h)
      <4>1. PICK p \in CleanPC : CleanGoTo(h, p)
        BY <3>1 DEF CleanLookup
      <4>2. cookie' \in [Hosts -> MaybeHost]
        BY <2>0, <3>1 DEF CleanLookup
      <4>3. UNCHANGED <<keys, launch, vm, runner>>
        BY <3>1 DEF CleanLookup
      <4> QED BY <2>0, <4>1, <4>2, <4>3
    <3>2. CASE CleanStop(h)     BY <2>0, <3>2 DEF CleanStop, CloudCallFails, Stopped
    <3>3. CASE CleanAwaitOff(h) BY <2>0, <3>3 DEF CleanAwaitOff
    <3>4. CASE CleanDelete(h)   BY <2>0, <3>4 DEF CleanDelete, CloudCallFails, Deleted
    <3>5. CASE CleanUnset(h)    BY <2>0, <3>5 DEF CleanUnset, ForgetKeys
    <3>6. CASE CleanPublish(h) \/ CleanProgress(h)
      BY <2>0, <3>6 DEF CleanPublish, CleanProgress
    <3>7. CASE CleanRelease(h)
      <4>1. PICK p \in CleanPC : CleanGoTo(h, p)
        BY <3>7 DEF CleanRelease
      <4>2. UNCHANGED <<keys, launch, cookie, vm, runner>>
        BY <3>7 DEF CleanRelease
      <4> QED BY <2>0, <4>1, <4>2
    <3> QED BY <2>4, <3>1, <3>2, <3>3, <3>4, <3>5, <3>6, <3>7 DEF CleanStep
  <2>5. CASE UNCHANGED vars
    BY <2>0, <2>5 DEF vars
  <2> QED BY <2>1, <2>2, <2>3, <2>4, <2>5 DEF Next
<1>2. page' \in Pages /\ missed' \in BOOLEAN
  BY ShownStep DEF TypeOK, shown, Publish, MaybeWritten
<1>3. cloudConfigured' \in BOOLEAN /\ lock' \in BOOLEAN
  BY FlagStep DEF TypeOK
<1>4. faults' \in 0..MaxFaults
  BY ShownStep, LauncherAssumption DEF TypeOK, Fault, NoFault
<1> QED BY <1>1, <1>2, <1>3, <1>4 DEF TypeOK

\* Every variable keeps its type: no handler stores a value of another kind
\* under a Redis key or leaves its own steps.
THEOREM TypeCorrect == Spec => []TypeOK
<1> QED BY TypeInit, TypeStep, PTL DEF Spec

-----------------------------------------------------------------------------

\* A session's VM, runners and Cleans exist only once CreateServer was tried, and
\* a host's Clean only once its runner has sent its last event.
Launched == {"building", "record", "progress", "started", "lost", "offer", "script", "manual",
             "noScript"}
HostsFollowLaunch ==
    \A h \in Hosts :
        /\ vm[h] # "none" \/ runner[h] # "off" \/ clean[h] # "idle" =>
               launch[SessionOf(h)] \in Launched
        /\ clean[h] # "idle" => runner[h] = "down"

LockInv == TypeOK /\ HostsFollowLaunch /\ LockProtectsSession

\* No step makes a host, or the Clean of one, before the Launch it belongs to.
LEMMA HostsFollow ==
    ASSUME TypeOK, HostsFollowLaunch, [Next]_vars
    PROVE  HostsFollowLaunch'
<1> USE DEF TypeOK, HostsFollowLaunch, Launched, Hosts, Kinds, SessionOf, VMOf, LaunchGoTo,
            CleanGoTo
<1>1. ASSUME NEW s \in Sessions, LaunchStep(s) PROVE HostsFollowLaunch'
  <2>1. CASE Launch(s)         BY <2>1 DEF Launch
  <2>2. CASE RegisterKey(s)    BY <2>2 DEF RegisterKey
  <2>3. CASE AbortLaunch(s)    BY <2>3 DEF AbortLaunch
  <2>4. CASE CreateServer(s)   BY <2>4 DEF CreateServer, MaybeWritten
  <2>5. CASE AwaitBuilt(s)     BY <2>5 DEF AwaitBuilt
  <2>6. CASE RecordRunnerId(s) BY <2>6 DEF RecordRunnerId
  <2>7. CASE OfferManualSetup(s) BY <2>7 DEF OfferManualSetup
  <2>8. CASE Announce(s)       BY <2>8 DEF Announce
  <2>9. CASE AnnounceProgress(s) BY <2>9 DEF AnnounceProgress
  <2>10. CASE SaveScript(s)    BY <2>10 DEF SaveScript
  <2> QED BY <1>1, <2>1, <2>2, <2>3, <2>4, <2>5, <2>6, <2>7, <2>8, <2>9, <2>10 DEF LaunchStep
<1>2. ASSUME NEW h \in Hosts, CloudStep(h) PROVE HostsFollowLaunch'
  BY <1>2 DEF CloudStep
<1>3. ASSUME NEW h \in Hosts, HostStep(h) PROVE HostsFollowLaunch'
  <2>1. CASE Boot(h)         BY <2>1 DEF Boot
  <2>2. CASE PostHello(h)    BY <2>2 DEF PostHello, MaybeWritten
  <2>3. CASE AttachRunner(h) BY <2>3 DEF AttachRunner
  <2>4. CASE PostStatus(h)   BY <2>4 DEF PostStatus
  <2>5. CASE PostShutdown(h) BY <2>5 DEF PostShutdown
  <2> QED BY <1>3, <2>1, <2>2, <2>3, <2>4, <2>5 DEF HostStep
<1>4. ASSUME NEW h \in Hosts, CleanStep(h) PROVE HostsFollowLaunch'
  <2>1. CASE CleanLookup(h)   BY <2>1 DEF CleanLookup
  <2>8. CASE CleanProgress(h) BY <2>8 DEF CleanProgress
  <2>2. CASE CleanStop(h)     BY <2>2 DEF CleanStop, CloudCallFails, Stopped, MaybeWritten, VMExists
  <2>3. CASE CleanAwaitOff(h) BY <2>3 DEF CleanAwaitOff
  <2>4. CASE CleanDelete(h)   BY <2>4 DEF CleanDelete, CloudCallFails, Deleted, MaybeWritten,
                                          VMExists
  <2>5. CASE CleanUnset(h)    BY <2>5 DEF CleanUnset, ForgetKeys
  <2>6. CASE CleanPublish(h)  BY <2>6 DEF CleanPublish
  <2>7. CASE CleanRelease(h)
    <3>1. launch' = launch /\ vm' = vm /\ runner' = runner
      BY <2>7 DEF CleanRelease
    <3>2. \A g \in Hosts : clean'[g] # "idle" => clean[g] # "idle"
      BY <2>7 DEF CleanRelease
    <3> QED BY ONLY HostsFollowLaunch, <3>1, <3>2 DEF HostsFollowLaunch
  <2> QED BY <1>4, <2>1, <2>2, <2>3, <2>4, <2>5, <2>6, <2>7, <2>8 DEF CleanStep
<1>5. CASE UNCHANGED vars
  BY <1>5 DEF vars
<1> QED BY <1>1, <1>2, <1>3, <1>4, <1>5 DEF Next

\* A Clean that was started stays started: a second Shutdown is not forgotten.
LEMMA CleanNeverIdleAgain ==
    ASSUME TypeOK, [Next]_vars, NEW g \in Hosts, clean[g] # "idle"
    PROVE  clean'[g] # "idle"
<1> USE DEF TypeOK, LaunchGoTo, CleanGoTo
<1>1. ASSUME NEW s \in Sessions, LaunchStep(s) PROVE clean' = clean
  BY <1>1 DEF LaunchStep, Launch, RegisterKey, AbortLaunch, CreateServer, AwaitBuilt,
              RecordRunnerId, OfferManualSetup, Announce, AnnounceProgress, SaveScript
<1>2. ASSUME NEW h \in Hosts, CloudStep(h) PROVE clean' = clean
  BY <1>2 DEF CloudStep
<1>3. ASSUME NEW h \in Hosts, HostStep(h) PROVE clean'[g] # "idle"
  BY <1>3 DEF HostStep, Boot, PostHello, AttachRunner, PostStatus, PostShutdown
<1>4. ASSUME NEW h \in Hosts, CleanStep(h) PROVE clean'[g] # "idle"
  BY <1>4 DEF CleanStep, CleanProgress, CleanLookup, CleanStop, CloudCallFails, Stopped,
              CleanAwaitOff, CleanDelete, Deleted, CleanUnset, ForgetKeys, CleanPublish,
              CleanRelease
<1> QED BY <1>1, <1>2, <1>3, <1>4 DEF Next, vars

\* Only Launch opens a session; only Launch and the two releases touch "running".
OtherStep ==
    \/ \E s \in Sessions : \/ RegisterKey(s) \/ CreateServer(s) \/ AwaitBuilt(s)
                           \/ RecordRunnerId(s) \/ OfferManualSetup(s) \/ Announce(s)
                           \/ AnnounceProgress(s) \/ SaveScript(s)
    \/ \E h \in Hosts :
          \/ CloudStep(h) \/ HostStep(h) \/ CleanProgress(h) \/ CleanLookup(h) \/ CleanStop(h)
          \/ CleanAwaitOff(h) \/ CleanDelete(h) \/ CleanUnset(h) \/ CleanPublish(h)
    \/ UNCHANGED vars

\* Only a Launch and the two ways to release it touch the lock.
LEMMA StepKinds ==
    ASSUME [Next]_vars
    PROVE  \/ OtherStep
           \/ \E s \in Sessions : Launch(s) \/ AbortLaunch(s)
           \/ \E h \in Hosts : CleanRelease(h)
BY DEF Next, OtherStep, LaunchStep, CleanStep

\* The steps that do not touch the lock open no session.
LEMMA OtherStepsOpenNothing ==
    ASSUME TypeOK, HostsFollowLaunch, OtherStep
    PROVE  lock' = lock /\ \A t \in Sessions : Open(t)' => Open(t)
<1> USE DEF TypeOK, Open, Acquired, Ended, LaunchPC, Hosts, Kinds, LaunchGoTo, CleanGoTo
<1>1. ASSUME NEW s \in Sessions,
             \/ RegisterKey(s) \/ CreateServer(s) \/ AwaitBuilt(s) \/ RecordRunnerId(s)
             \/ OfferManualSetup(s) \/ Announce(s) \/ AnnounceProgress(s) \/ SaveScript(s)
      PROVE  lock' = lock /\ \A t \in Sessions : Open(t)' => Open(t)
  BY <1>1 DEF RegisterKey, CreateServer, AwaitBuilt, RecordRunnerId, OfferManualSetup, Announce,
              AnnounceProgress, SaveScript
<1>2. ASSUME NEW h \in Hosts, CloudStep(h) \/ HostStep(h)
      PROVE  lock' = lock /\ \A t \in Sessions : Open(t)' => Open(t)
  <2>1. lock' = lock /\ launch' = launch
    BY <1>2 DEF CloudStep, HostStep, Boot, PostHello, AttachRunner, PostStatus, PostShutdown, keys
  <2>2. clean[h] = "idle" \/ clean' = clean
    BY <1>2 DEF CloudStep, HostStep, Boot, PostHello, AttachRunner, PostStatus, PostShutdown, keys,
                HostsFollowLaunch
  <2>3. \A g \in Hosts : g # h => clean'[g] = clean[g]
    BY <1>2 DEF CloudStep, HostStep, Boot, PostHello, AttachRunner, PostStatus, PostShutdown, keys
  <2>4. ASSUME NEW t \in Sessions, Open(t)', NEW k \in Kinds PROVE clean[<<t, k>>] \notin Ended
    BY <2>2, <2>3, <2>4
  <2>5. \A t \in Sessions : Open(t)' => Open(t)
    BY <2>1, <2>4
  <2> QED BY <2>1, <2>5
<1>3. ASSUME NEW h \in Hosts,
             \/ CleanProgress(h) \/ CleanLookup(h) \/ CleanStop(h) \/ CleanAwaitOff(h)
             \/ CleanDelete(h) \/ CleanUnset(h) \/ CleanPublish(h)
      PROVE  lock' = lock /\ \A t \in Sessions : Open(t)' => Open(t)
  <2>1. lock' = lock /\ launch' = launch
    BY <1>3 DEF CleanProgress, CleanLookup, CleanStop, CloudCallFails, Stopped, CleanAwaitOff,
                CleanDelete, Deleted, CleanUnset, ForgetKeys, CleanPublish
  <2>2. clean[h] \notin Ended
    BY <1>3 DEF CleanProgress, CleanLookup, CleanStop, CloudCallFails, Stopped, CleanAwaitOff,
                CleanDelete, Deleted, CleanUnset, ForgetKeys, CleanPublish
  <2>3. \A g \in Hosts : g # h => clean'[g] = clean[g]
    BY <1>3 DEF CleanProgress, CleanLookup, CleanStop, CloudCallFails, Stopped, CleanAwaitOff,
                CleanDelete, Deleted, CleanUnset, ForgetKeys, CleanPublish
  <2>4. ASSUME NEW t \in Sessions, Open(t)', NEW k \in Kinds PROVE clean[<<t, k>>] \notin Ended
    <3>1. CASE <<t, k>> = h
      BY <3>1, <2>2
    <3>2. CASE <<t, k>> # h
      BY <3>2, <2>3, <2>4
    <3> QED BY <3>1, <3>2
  <2>5. \A t \in Sessions : Open(t)' => Open(t)
    BY <2>1, <2>4
  <2> QED BY <2>1, <2>5
<1>4. CASE UNCHANGED vars
  BY <1>4 DEF vars
<1> QED BY <1>1, <1>2, <1>3, <1>4 DEF OtherStep

\* LockProtectsSession is inductive together with the order of launch and Clean.
LEMMA LockStep ==
    ASSUME LockInv, [Next]_vars
    PROVE  LockInv'
<1> USE DEF LockInv, Open, Acquired, Ended, LaunchPC, Hosts, Kinds, SessionOf
<1>1. TypeOK'
  BY TypeStep
<1>2. HostsFollowLaunch'
  BY HostsFollow
<1>3. LockProtectsSession'
  <2>1. CASE \E s \in Sessions : ShutDownTwice(s)
    <3>1. PICK s \in Sessions : ShutDownTwice(s)
      BY <2>1
    <3>2. ASSUME NEW k \in Kinds PROVE clean'[<<s, k>>] # "idle"
      <4>1. <<s, k>> \in Hosts /\ clean[<<s, k>>] # "idle"
        BY <3>1 DEF ShutDownTwice
      <4> QED BY <4>1, CleanNeverIdleAgain
    <3> QED BY <3>2 DEF LockProtectsSession, ShutDownTwice
  <2>2. CASE ~\E s \in Sessions : ShutDownTwice(s)
    <3> DEFINE OneOpen == \A s \in Sessions : Open(s) => lock /\ \A t \in Sessions : Open(t) => s = t
    <3>0. OneOpen
      BY <2>2 DEF LockProtectsSession
    <3>1. ASSUME OtherStep PROVE OneOpen'
      <4>1. lock' = lock
        BY <3>1, OtherStepsOpenNothing
      <4>2. \A t \in Sessions : Open(t)' => Open(t)
        BY <3>1, OtherStepsOpenNothing
      <4> HIDE DEF Open
      <4> QED BY <3>0, <4>1, <4>2
    <3>2. ASSUME NEW s \in Sessions, Launch(s) PROVE OneOpen'
      <4>1. \A t \in Sessions : t # s => (Open(t)' <=> Open(t))
        BY <3>2 DEF Launch, LaunchGoTo, TypeOK
      <4>2. CASE launch'[s] = "register"
        <5>1. lock' = TRUE /\ ~lock
          BY <3>2, <4>2 DEF Launch, LaunchGoTo, TypeOK
        <5>2. \A t \in Sessions : t # s => ~Open(t)'
          BY <5>1, <4>1, <3>0
        <5> QED BY <5>1, <5>2
      <4>3. CASE launch'[s] # "register"
        <5>1. ~Open(s)'
          BY <3>2, <4>3 DEF Launch, LaunchGoTo, TypeOK
        <5>2. lock => lock'
          BY <3>2 DEF Launch, MaybeWritten
        <5>3. \A t \in Sessions : Open(t)' => Open(t)
          BY <5>1, <4>1
        <5> HIDE DEF Open
        <5> QED BY <5>2, <5>3, <3>0
      <4> QED BY <4>2, <4>3
    <3>3. ASSUME NEW s \in Sessions, AbortLaunch(s) PROVE OneOpen'
      <4>1. \A t \in Sessions : t # s => (Open(t)' <=> Open(t))
        BY <3>3 DEF AbortLaunch, LaunchGoTo, TypeOK
      <4>2. Open(s)
        BY <3>3 DEF AbortLaunch, HostsFollowLaunch, Launched, TypeOK
      <4>3. ~Open(s)'
        BY <3>3 DEF AbortLaunch, LaunchGoTo, TypeOK
      <4> QED BY <4>1, <4>2, <4>3, <3>0
    <3>4. ASSUME NEW h \in Hosts, CleanRelease(h) PROVE OneOpen'
      <4>0. PICK s \in Sessions, k \in Kinds : h = <<s, k>>
        OBVIOUS
      <4>a. clean[h] \in {"succeed", "giveUp"} /\ launch' = launch
        BY <3>4 DEF CleanRelease
      <4>b. clean'[h] \in Ended /\ \A g \in Hosts : g # h => clean'[g] = clean[g]
        BY <3>4 DEF CleanRelease, CleanGoTo, TypeOK
      <4>1. \A t \in Sessions : t # s => (Open(t)' <=> Open(t))
        BY <4>0, <4>a, <4>b
      <4>2. Open(s)
        <5>1. launch[s] \in Acquired
          BY <4>0, <4>a DEF HostsFollowLaunch, Launched
        <5>2. ASSUME NEW j \in Kinds PROVE clean[<<s, j>>] \notin Ended
          <6>1. CASE j = k
            BY <6>1, <4>0, <4>a
          <6>2. CASE j # k
            BY <6>2, <4>0, <4>a, <2>2 DEF ShutDownTwice
          <6> QED BY <6>1, <6>2
        <5> QED BY <5>1, <5>2
      <4>3. ~Open(s)'
        BY <4>0, <4>b
      <4> QED BY <4>1, <4>2, <4>3, <3>0
    <3>5. OneOpen'
      <4> HIDE DEF OneOpen
      <4> QED BY <3>1, <3>2, <3>3, <3>4, StepKinds
    <3> QED BY <3>5 DEF LockProtectsSession
  <2> QED BY <2>1, <2>2
<1> QED BY <1>1, <1>2, <1>3

\* At first no session is open and the lock is free.
LEMMA InitLockInv == ASSUME Init PROVE LockInv
<1>1. TypeOK
  BY TypeInit
<1> QED BY <1>1 DEF Init, LockInv, HostsFollowLaunch, LockProtectsSession, Open, Acquired,
                   LaunchPC, Hosts, SessionOf

\* The lock protects the open session, however calls interleave and fail.
THEOREM LockProtection == Spec => []LockProtectsSession
<1>1. Init => LockInv
  BY InitLockInv
<1>2. LockInv /\ [Next]_vars => LockInv'
  BY LockStep
<1>3. LockInv => LockProtectsSession
  BY DEF LockInv
<1> QED BY <1>1, <1>2, <1>3, PTL DEF Spec

-----------------------------------------------------------------------------

\* A host whose Clean is under way and no session shut down twice: its session is
\* still open.
LEMMA CleaningSessionIsOpen ==
    ASSUME TypeOK, HostsFollowLaunch, ~\E s \in Sessions : ShutDownTwice(s),
           NEW h \in Hosts, clean[h] \notin Ended \cup {"idle"}
    PROVE  SessionOf(h) \in Sessions /\ Open(SessionOf(h))
<1>0. PICK s \in Sessions, k \in Kinds : h = <<s, k>>
  BY DEF Hosts
<1>1. launch[s] \in Acquired
  BY <1>0 DEF HostsFollowLaunch, Launched, Acquired, LaunchPC, SessionOf
<1>2. ASSUME NEW j \in Kinds PROVE clean[<<s, j>>] \notin Ended
  <2>1. CASE j = k
    BY <2>1, <1>0
  <2>2. CASE j # k
    <3>1. clean[<<s, j>>] = "idle"
      BY <2>2, <1>0 DEF ShutDownTwice, Kinds
    <3> QED BY <3>1 DEF Ended
  <2> QED BY <2>1, <2>2
<1> QED BY <1>0, <1>1, <1>2 DEF Open, SessionOf

\* Two shutdowns of a session are never forgotten.
LEMMA TwiceForever ==
    ASSUME TypeOK, [Next]_vars, \E s \in Sessions : ShutDownTwice(s)
    PROVE  (\E s \in Sessions : ShutDownTwice(s))'
<1>1. PICK s \in Sessions : ShutDownTwice(s)
  OBVIOUS
<1>2. ASSUME NEW k \in Kinds PROVE clean'[<<s, k>>] # "idle"
  <2>1. <<s, k>> \in Hosts /\ clean[<<s, k>>] # "idle"
    BY <1>1 DEF ShutDownTwice, Hosts
  <2> QED BY <2>1, CleanNeverIdleAgain
<1> QED BY <1>2 DEF ShutDownTwice

\* The one way for a session to open: its Launch finds "running" unset.
LEMMA OnlyLaunchOpens ==
    ASSUME TypeOK, HostsFollowLaunch, [Next]_vars, NEW x \in Sessions, Open(x)', ~Open(x)
    PROVE  ~lock /\ clean' = clean /\ cookie' = cookie
<1>1. ASSUME OtherStep PROVE FALSE
  <2>1. \A t \in Sessions : Open(t)' => Open(t)
    BY <1>1, OtherStepsOpenNothing
  <2> HIDE DEF Open
  <2> QED BY <2>1
<1>2. ASSUME NEW s \in Sessions, Launch(s)
      PROVE  ~lock /\ clean' = clean /\ cookie' = cookie
  BY <1>2 DEF Launch, LaunchGoTo, TypeOK, Open, Acquired
<1>3. ASSUME NEW s \in Sessions, AbortLaunch(s) PROVE FALSE
  BY <1>3 DEF AbortLaunch, LaunchGoTo, TypeOK, Open, Acquired
<1>4. ASSUME NEW h \in Hosts, CleanRelease(h) PROVE FALSE
  <2>1. clean[h] \notin Ended /\ launch' = launch
    BY <1>4 DEF CleanRelease, Ended
  <2>2. \A g \in Hosts : g # h => clean'[g] = clean[g]
    BY <1>4 DEF CleanRelease, CleanGoTo, TypeOK
  <2>3. ASSUME NEW k \in Kinds PROVE clean[<<x, k>>] \notin Ended
    <3>1. CASE <<x, k>> = h
      BY <3>1, <2>1
    <3>2. CASE <<x, k>> # h
      <4>1. <<x, k>> \in Hosts
        BY DEF Hosts
      <4> QED BY <4>1, <3>2, <2>2 DEF Open
    <3> QED BY <3>1, <3>2
  <2> QED BY <2>1, <2>3 DEF Open
<1> HIDE DEF Open
<1> QED BY <1>1, <1>2, <1>3, <1>4, StepKinds

\* While Clean stops and deletes a VM, its cookie names one.
Deleting == {"stopping", "stop", "await", "deleting", "delete"}
CookieNamesHost == \A h \in Hosts : clean[h] \in Deleting => cookie[h] \in Hosts

SpareInv == LockInv /\ CookieNamesHost /\ CleanSparesOpenSessions

\* A Clean deletes the server it looked up, and looked it up while it was recorded.
LEMMA CookieStep ==
    ASSUME TypeOK, CookieNamesHost, [Next]_vars
    PROVE  /\ CookieNamesHost'
           /\ \A g \in Hosts : clean'[g] \in Deleting =>
                  \/ clean[g] \in Deleting /\ cookie'[g] = cookie[g]
                  \/ clean[g] = "lookup" /\ launch' = launch
<1> USE DEF TypeOK, CookieNamesHost, Deleting, MaybeHost, LaunchGoTo, CleanGoTo
<1> DEFINE Kept == \A g \in Hosts : clean'[g] \in Deleting =>
                       \/ clean[g] \in Deleting /\ cookie'[g] = cookie[g]
                       \/ clean[g] = "lookup" /\ launch' = launch
<1>1. ASSUME NEW s \in Sessions, LaunchStep(s) PROVE CookieNamesHost' /\ Kept
  BY <1>1 DEF LaunchStep, Launch, RegisterKey, AbortLaunch, CreateServer, AwaitBuilt,
              RecordRunnerId, OfferManualSetup, Announce, AnnounceProgress, SaveScript
<1>2. ASSUME NEW h \in Hosts, CloudStep(h) PROVE CookieNamesHost' /\ Kept
  BY <1>2 DEF CloudStep
<1>3. ASSUME NEW h \in Hosts, HostStep(h) PROVE CookieNamesHost' /\ Kept
  BY <1>3 DEF HostStep, Boot, PostHello, AttachRunner, PostStatus, PostShutdown
<1>4. ASSUME NEW h \in Hosts, CleanStep(h) PROVE CookieNamesHost' /\ Kept
  <2>1. CASE CleanLookup(h) BY <2>1 DEF CleanLookup
  <2>2. CASE ~CleanLookup(h)
    BY <1>4, <2>2 DEF CleanStep, CleanProgress, CleanStop, CloudCallFails, Stopped, CleanAwaitOff,
                      CleanDelete, Deleted, CleanUnset, ForgetKeys, CleanPublish, CleanRelease
  <2> QED BY <2>1, <2>2
<1>5. CASE UNCHANGED vars
  BY <1>5 DEF vars
<1> QED BY <1>1, <1>2, <1>3, <1>4, <1>5 DEF Next

\* The server a Clean has looked up stays that of no other open session.
LEMMA SpareStep ==
    ASSUME SpareInv, [Next]_vars
    PROVE  SpareInv'
<1>1. LockInv' /\ CookieNamesHost'
  BY LockStep, CookieStep DEF SpareInv, LockInv
<1>2. CleanSparesOpenSessions'
  <2>1. CASE \E s \in Sessions : ShutDownTwice(s)
    BY <2>1, TwiceForever DEF SpareInv, LockInv, CleanSparesOpenSessions
  <2>2. CASE ~\E s \in Sessions : ShutDownTwice(s)
    <3>1. ASSUME NEW g \in Hosts, clean'[g] \in Deleting,
                 NEW x \in Sessions, x = SessionOf(cookie'[g]), x # SessionOf(g)
          PROVE  ~Open(x)'
      <4>1. clean[g] \in Deleting \cup {"lookup"}
        BY <3>1, CookieStep DEF SpareInv, LockInv
      <4>2. SessionOf(g) \in Sessions /\ Open(SessionOf(g))
        BY <4>1, <2>2, CleaningSessionIsOpen DEF SpareInv, LockInv, Deleting, Ended
      <4>3. \A t \in Sessions : Open(t) => lock /\ t = SessionOf(g)
        BY <4>2, <2>2 DEF SpareInv, LockInv, LockProtectsSession
      <4>4. ~Open(x) /\ lock
        BY <3>1, <4>2, <4>3
      <4> HIDE DEF Open
      <4> QED BY <4>4, OnlyLaunchOpens DEF SpareInv, LockInv
    <3>2. ASSUME NEW g \in Hosts, clean'[g] \in Deleting, SessionOf(cookie'[g]) # SessionOf(g)
          PROVE  ~Open(SessionOf(cookie[g]))'
      <4>1. PICK x \in Sessions : x = SessionOf(cookie'[g])
        BY <1>1, <3>2 DEF CookieNamesHost, Hosts, SessionOf
      <4>2. ~Open(x)'
        BY <3>1, <3>2, <4>1
      <4> QED BY <4>1, <4>2 DEF Open, SessionOf
    <3> QED BY <3>2 DEF CleanSparesOpenSessions, Deleting, SessionOf
  <2> QED BY <2>1, <2>2
<1> QED BY <1>1, <1>2 DEF SpareInv

\* However a stale or late runner id got into the shared key, the VM that Clean
\* stops and deletes never belongs to another session that is open.
THEOREM CleanSpares == Spec => []CleanSparesOpenSessions
<1>1. Init => SpareInv
  <2> SUFFICES ASSUME Init PROVE SpareInv
    OBVIOUS
  <2>1. LockInv
    BY InitLockInv
  <2> QED BY <2>1 DEF Init, SpareInv, CookieNamesHost, CleanSparesOpenSessions, Deleting
<1>2. SpareInv /\ [Next]_vars => SpareInv'
  BY SpareStep
<1>3. SpareInv => CleanSparesOpenSessions
  BY DEF SpareInv
<1> QED BY <1>1, <1>2, <1>3, PTL DEF Spec

-----------------------------------------------------------------------------

\* Who may hold "running": an open session, or a step in which Redis failed.
HeldBy(s) == Open(s) \/ launch[s] \in {"lockError", "abortStuck"}

OwnerInv == TypeOK /\ HostsFollowLaunch /\ LockHasOwner

\* Steps other than a release keep every owner.
LEMMA OwnersStay ==
    ASSUME TypeOK, HostsFollowLaunch, OtherStep
    PROVE  /\ \A t \in Sessions : HeldBy(t) => HeldBy(t)'
           /\ \A g \in Hosts : clean[g] = "stuck" => clean'[g] = "stuck"
<1> DEFINE Kept == /\ \A t \in Sessions : HeldBy(t) => HeldBy(t)'
                   /\ \A g \in Hosts : clean[g] = "stuck" => clean'[g] = "stuck"
<1> USE DEF TypeOK, HeldBy, Open, Acquired, Ended, LaunchPC, Hosts, Kinds, LaunchGoTo, CleanGoTo
<1>1. ASSUME NEW s \in Sessions,
             \/ RegisterKey(s) \/ CreateServer(s) \/ AwaitBuilt(s) \/ RecordRunnerId(s)
             \/ OfferManualSetup(s) \/ Announce(s) \/ AnnounceProgress(s) \/ SaveScript(s)
      PROVE  Kept
  BY <1>1 DEF RegisterKey, CreateServer, AwaitBuilt, RecordRunnerId, OfferManualSetup, Announce,
              AnnounceProgress, SaveScript
<1>2. ASSUME launch' = launch,
             \A g \in Hosts : /\ clean'[g] \in Ended => clean[g] \in Ended
                              /\ clean[g] = "stuck" => clean'[g] = "stuck"
      PROVE  Kept
  BY <1>2
<1>3. ASSUME NEW h \in Hosts, CloudStep(h) \/ HostStep(h) PROVE Kept
  <2>1. launch' = launch
    BY <1>3 DEF CloudStep, HostStep, Boot, PostHello, AttachRunner, PostStatus, PostShutdown
  <2>2. \A g \in Hosts : /\ clean'[g] \in Ended => clean[g] \in Ended
                         /\ clean[g] = "stuck" => clean'[g] = "stuck"
    BY <1>3 DEF CloudStep, HostStep, Boot, PostHello, AttachRunner, PostStatus, PostShutdown,
                HostsFollowLaunch
  <2> QED BY <2>1, <2>2, <1>2
<1>4. ASSUME NEW h \in Hosts,
             \/ CleanProgress(h) \/ CleanLookup(h) \/ CleanStop(h) \/ CleanAwaitOff(h)
             \/ CleanDelete(h) \/ CleanUnset(h) \/ CleanPublish(h)
      PROVE  Kept
  <2>1. launch' = launch
    BY <1>4 DEF CleanProgress, CleanLookup, CleanStop, CloudCallFails, Stopped, CleanAwaitOff,
                CleanDelete, Deleted, CleanUnset, ForgetKeys, CleanPublish
  <2>2. \A g \in Hosts : /\ clean'[g] \in Ended => clean[g] \in Ended
                         /\ clean[g] = "stuck" => clean'[g] = "stuck"
    BY <1>4 DEF CleanProgress, CleanLookup, CleanStop, CloudCallFails, Stopped, CleanAwaitOff,
                CleanDelete, Deleted, CleanUnset, ForgetKeys, CleanPublish
  <2> QED BY <2>1, <2>2, <1>2
<1>5. CASE UNCHANGED vars
  BY <1>5 DEF vars
<1> QED BY <1>1, <1>3, <1>4, <1>5 DEF OtherStep

\* A lock loses its owner only to a call of Redis that failed.
LEMMA OwnerStep ==
    ASSUME OwnerInv, [Next]_vars
    PROVE  OwnerInv'
<1>1. TypeOK' /\ HostsFollowLaunch'
  BY TypeStep, HostsFollow DEF OwnerInv
<1> DEFINE Owned == \/ \E s \in Sessions : HeldBy(s)
                    \/ \E h \in Hosts : clean[h] = "stuck"
<1>2. lock => Owned
  BY DEF OwnerInv, LockHasOwner, HeldBy
<1>3. ASSUME lock' PROVE Owned'
  <2>1. ASSUME OtherStep PROVE Owned'
    <3>1. lock
      BY <1>3, <2>1, OtherStepsOpenNothing DEF OwnerInv
    <3>2. /\ \A t \in Sessions : HeldBy(t) => HeldBy(t)'
          /\ \A g \in Hosts : clean[g] = "stuck" => clean'[g] = "stuck"
      BY <2>1, OwnersStay DEF OwnerInv
    <3> HIDE DEF HeldBy
    <3> QED BY <3>1, <3>2, <1>2
  <2>2. ASSUME NEW s \in Sessions, Launch(s) PROVE Owned'
    <3>1. CASE launch'[s] = "register"
      <4>1. \A k \in Kinds : clean[<<s, k>>] = "idle"
        BY <2>2 DEF Launch, OwnerInv, HostsFollowLaunch, Launched, Hosts, SessionOf
      <4>2. HeldBy(s)'
        BY <2>2, <3>1, <4>1 DEF Launch, HeldBy, Open, Acquired, LaunchPC, Ended
      <4> QED BY <4>2
    <3>2. CASE launch'[s] = "lockError"
      BY <3>2 DEF HeldBy
    <3>3. CASE launch'[s] = "refused"
      <4>1. lock /\ clean' = clean
        BY <2>2, <3>3 DEF Launch, LaunchGoTo, OwnerInv, TypeOK
      <4>2. \A t \in Sessions : HeldBy(t) => HeldBy(t)'
        BY <2>2, <3>3, <4>1 DEF Launch, LaunchGoTo, OwnerInv, TypeOK, HeldBy, Open, Acquired
      <4> HIDE DEF HeldBy
      <4> QED BY <4>1, <4>2, <1>2
    <3> QED BY <2>2, <3>1, <3>2, <3>3 DEF Launch, LaunchGoTo, OwnerInv, TypeOK
  <2>3. ASSUME NEW s \in Sessions, AbortLaunch(s) PROVE Owned'
    <3>1. launch'[s] = "abortStuck"
      <4>1. lock' # FALSE
        BY <1>3
      <4> QED BY <4>1, <2>3 DEF AbortLaunch, LaunchGoTo, OwnerInv, TypeOK
    <3> QED BY <3>1 DEF HeldBy
  <2>4. ASSUME NEW h \in Hosts, CleanRelease(h) PROVE Owned'
    <3>1. clean'[h] = "stuck"
      <4>1. lock' # FALSE
        BY <1>3
      <4> QED BY <4>1, <2>4 DEF CleanRelease, CleanGoTo, OwnerInv, TypeOK
    <3> QED BY <3>1
  <2> HIDE DEF Owned
  <2> QED BY <2>1, <2>2, <2>3, <2>4, StepKinds
<1> QED BY <1>1, <1>3 DEF OwnerInv, LockHasOwner, HeldBy

\* "running" cannot be left set by a path that forgot to release it: only a failing
\* Redis orphans it.
THEOREM LockOwned == Spec => []LockHasOwner
<1>1. Init => OwnerInv
  <2> SUFFICES ASSUME Init PROVE OwnerInv
    OBVIOUS
  <2>1. LockInv /\ ~lock
    BY InitLockInv DEF Init
  <2> QED BY <2>1 DEF LockInv, OwnerInv, LockHasOwner
<1>2. OwnerInv /\ [Next]_vars => OwnerInv'
  BY OwnerStep
<1>3. OwnerInv => LockHasOwner
  BY DEF OwnerInv
<1> QED BY <1>1, <1>2, <1>3, PTL DEF Spec

-----------------------------------------------------------------------------

\* Clean goes on past DeleteServer when the VM it looked up is deleted, or it found none.
PastDelete == {"unset", "publish", "succeed", "cleaned"}
CookieDeleted ==
    \A h \in Hosts : clean[h] \in PastDelete /\ cookie[h] # Unset => vm[cookie[h]] = "deleted"

\* "runner-id:default" names a host of a session that was launched.
RecordedLaunched == runnerId # Unset => launch[SessionOf(runnerId)] \in Launched

\* A VM that was set up by hand is known once its runner has booted.
BootedByHand == \A s \in Sessions :
    vm[<<s, "manual">>] # "none" => runner[<<s, "manual">>] # "off"

\* Session s has yet to register its auth key, or its Clean is about to release "running".
AtTheEdge(s) ==
    launch[s] \in {"register", "abort", "announce"} \/ \E k \in Kinds : clean[<<s, k>>] = "succeed"
PageOpen ==
    \/ missed
    \/ \E s \in Sessions : ShutDownTwice(s)
    \/ page = "launch" => \A s \in Sessions : Open(s) => AtTheEdge(s)

PageInv == LockInv /\ CookieDeleted /\ RecordedLaunched /\ BootedByHand /\ PageOpen

\* A VM that was deleted stays deleted: CreateServer makes the VM of a session once, and
\* a machine boots once.
LEMMA DeletedForever ==
    ASSUME TypeOK, HostsFollowLaunch, BootedByHand, [Next]_vars, NEW g \in Hosts, vm[g] = "deleted"
    PROVE  vm'[g] = "deleted"
<1> USE DEF TypeOK, Hosts, Kinds, SessionOf, VMOf
<1>1. ASSUME NEW s \in Sessions, LaunchStep(s) PROVE vm'[g] = "deleted"
  <2>1. CASE CreateServer(s)
    <3>1. launch[s] = "create" /\ VMOf(s) \in Hosts
      BY <2>1 DEF CreateServer
    <3>2. vm[VMOf(s)] = "none"
      BY <3>1 DEF HostsFollowLaunch, Launched
    <3> QED BY <2>1, <3>2 DEF CreateServer, MaybeWritten
  <2>2. CASE ~CreateServer(s)
    BY <1>1, <2>2 DEF LaunchStep, Launch, RegisterKey, AbortLaunch, AwaitBuilt, RecordRunnerId,
                      OfferManualSetup, Announce, AnnounceProgress, SaveScript
  <2> QED BY <2>1, <2>2
<1>2. ASSUME NEW h \in Hosts, CloudStep(h) PROVE vm'[g] = "deleted"
  BY <1>2 DEF CloudStep
<1>3. ASSUME NEW h \in Hosts, HostStep(h) PROVE vm'[g] = "deleted"
  BY <1>3 DEF HostStep, Boot, PostHello, AttachRunner, PostStatus, PostShutdown, BootedByHand
<1>4. ASSUME NEW h \in Hosts, CleanStep(h) PROVE vm'[g] = "deleted"
  <2>1. CASE CleanStop(h)
    BY <2>1 DEF CleanStop, CloudCallFails, Stopped, MaybeWritten, VMExists
  <2>2. CASE CleanDelete(h)
    BY <2>2 DEF CleanDelete, CloudCallFails, Deleted, MaybeWritten, VMExists
  <2>3. CASE ~CleanStop(h) /\ ~CleanDelete(h)
    BY <1>4, <2>3 DEF CleanStep, CleanProgress, CleanLookup, CleanAwaitOff, CleanUnset,
                      ForgetKeys, CleanPublish, CleanRelease
  <2> QED BY <2>1, <2>2, <2>3
<1>5. CASE UNCHANGED vars
  BY <1>5 DEF vars
<1> QED BY <1>1, <1>2, <1>3, <1>4, <1>5 DEF Next

\* A runner boots once.
LEMMA ByHandStep ==
    ASSUME TypeOK, HostsFollowLaunch, BootedByHand, [Next]_vars
    PROVE  BootedByHand'
<1> SUFFICES ASSUME NEW t \in Sessions, vm'[<<t, "manual">>] # "none"
             PROVE  runner'[<<t, "manual">>] # "off"
  BY DEF BootedByHand
<1> DEFINE m == <<t, "manual">>
<1>0. m \in Hosts /\ (vm[m] # "none" => runner[m] # "off")
  BY DEF Hosts, Kinds, BootedByHand
<1> USE DEF TypeOK
<1>1. ASSUME NEW s \in Sessions, LaunchStep(s) PROVE runner' = runner /\ vm'[m] = vm[m]
  <2>1. VMOf(s) # m
    BY DEF VMOf
  <2> QED BY <1>0, <1>1, <2>1 DEF LaunchStep, Launch, RegisterKey, AbortLaunch, AwaitBuilt,
                                  RecordRunnerId, OfferManualSetup, Announce, AnnounceProgress,
                                  SaveScript, CreateServer, MaybeWritten
<1>2. ASSUME NEW h \in Hosts, CloudStep(h) PROVE runner' = runner /\ vm[m] # "none"
  BY <1>0, <1>2 DEF CloudStep
<1>3. ASSUME NEW h \in Hosts, HostStep(h) PROVE runner'[m] # "off"
  <2>1. runner[m] # "off" => runner'[m] # "off"
    BY <1>0, <1>3 DEF HostStep, Boot, PostHello, MaybeWritten, AttachRunner, PostStatus,
                      PostShutdown
  <2>2. vm'[m] = vm[m] \/ runner'[m] # "off"
    BY <1>0, <1>3 DEF HostStep, Boot, PostHello, AttachRunner, PostStatus, PostShutdown
  <2> QED BY <1>0, <2>1, <2>2
<1>4. ASSUME NEW h \in Hosts, CleanStep(h) PROVE runner' = runner /\ vm[m] # "none"
  <2>1. runner' = runner
    BY <1>4 DEF CleanStep, CleanProgress, CleanLookup, CleanStop, CloudCallFails, Stopped,
                CleanAwaitOff, CleanDelete, Deleted, CleanUnset, ForgetKeys, CleanPublish,
                CleanRelease
  <2>2. vm' = vm \/ (VMExists(cookie[h]) /\ \E st : vm' = [vm EXCEPT ![cookie[h]] = st])
    <3>1. CASE CleanStop(h)
      BY <3>1 DEF CleanStop, CloudCallFails, Stopped, MaybeWritten
    <3>2. CASE CleanDelete(h)
      BY <3>2 DEF CleanDelete, CloudCallFails, Deleted, MaybeWritten
    <3>3. CASE ~CleanStop(h) /\ ~CleanDelete(h)
      BY <1>4, <3>3 DEF CleanStep, CleanProgress, CleanLookup, CleanAwaitOff, CleanUnset,
                        CleanPublish, CleanRelease
    <3> QED BY <3>1, <3>2, <3>3
  <2> QED BY <1>0, <2>1, <2>2 DEF VMExists
<1>5. CASE UNCHANGED vars
  BY <1>0, <1>5 DEF vars
<1> QED BY <1>0, <1>1, <1>2, <1>3, <1>4, <1>5 DEF Next

\* Clean is past DeleteServer only when the VM it looked up is deleted, or it found none.
LEMMA CookieDeletedStep ==
    ASSUME TypeOK, HostsFollowLaunch, BootedByHand, CookieDeleted, [Next]_vars
    PROVE  CookieDeleted'
<1> SUFFICES ASSUME NEW g \in Hosts, clean'[g] \in PastDelete, cookie'[g] # Unset
             PROVE  vm'[cookie'[g]] = "deleted"
  BY DEF CookieDeleted
<1> USE DEF TypeOK, CleanGoTo
<1>0. ASSUME clean[g] \in PastDelete, cookie'[g] = cookie[g] PROVE vm'[cookie'[g]] = "deleted"
  <2>1. cookie[g] \in Hosts /\ vm[cookie[g]] = "deleted"
    BY <1>0 DEF CookieDeleted, MaybeHost
  <2> QED BY <1>0, <2>1, DeletedForever
<1>1. ASSUME NEW s \in Sessions, LaunchStep(s) PROVE clean[g] \in PastDelete /\ cookie'[g] = cookie[g]
  BY <1>1 DEF LaunchStep, Launch, RegisterKey, AbortLaunch, CreateServer, AwaitBuilt,
              RecordRunnerId, OfferManualSetup, Announce, AnnounceProgress, SaveScript
<1>2. ASSUME NEW h \in Hosts, CloudStep(h) \/ HostStep(h)
      PROVE  clean[g] \in PastDelete /\ cookie'[g] = cookie[g]
  BY <1>2 DEF CloudStep, HostStep, Boot, PostHello, AttachRunner, PostStatus, PostShutdown,
              PastDelete
<1>3. ASSUME NEW h \in Hosts, CleanStep(h), g # h
      PROVE  clean[g] \in PastDelete /\ cookie'[g] = cookie[g]
  <2>1. \E pc : clean' = [clean EXCEPT ![h] = pc]
    BY <1>3 DEF CleanStep, CleanProgress, CleanLookup, CleanStop, CloudCallFails, Stopped,
                CleanAwaitOff, CleanDelete, Deleted, CleanUnset, ForgetKeys, CleanPublish,
                CleanRelease
  <2>2. cookie' = cookie \/ \E c : cookie' = [cookie EXCEPT ![h] = c]
    BY <1>3 DEF CleanStep, CleanProgress, CleanLookup, CleanStop, CloudCallFails, Stopped,
                CleanAwaitOff, CleanDelete, Deleted, CleanUnset, ForgetKeys, CleanPublish,
                CleanRelease
  <2> QED BY <1>3, <2>1, <2>2
<1>4. ASSUME CleanStep(g) PROVE vm'[cookie'[g]] = "deleted"
  <2> USE DEF PastDelete
  <2>1. CASE CleanLookup(g)
    BY <2>1 DEF CleanLookup
  <2>2. CASE CleanStop(g) \/ CleanAwaitOff(g)
    BY <2>2 DEF CleanStop, CloudCallFails, Stopped, CleanAwaitOff
  <2>3. CASE CleanDelete(g)
    <3>1. clean'[g] = "unset"
      BY <2>3 DEF CleanDelete, CloudCallFails, Deleted
    <3>2. cookie'[g] = cookie[g] /\ cookie[g] \in Hosts
      BY <2>3 DEF CleanDelete, CloudCallFails, Deleted, MaybeHost
    <3>3. vm' = [vm EXCEPT ![cookie[g]] = "deleted"]
      BY <2>3, <3>1 DEF CleanDelete, CloudCallFails, Deleted
    <3> QED BY <3>2, <3>3
  <2>4. CASE CleanUnset(g) \/ CleanPublish(g) \/ CleanRelease(g)
    <3>1. cookie' = cookie
      BY <2>4 DEF CleanUnset, ForgetKeys, CleanPublish, CleanRelease
    <3>2. clean[g] \in PastDelete
      BY <2>4 DEF CleanUnset, ForgetKeys, CleanPublish, CleanRelease
    <3> QED BY <3>1, <3>2, <1>0
  <2>5. CASE CleanProgress(g)
    BY <2>5 DEF CleanProgress
  <2> QED BY <1>4, <2>1, <2>2, <2>3, <2>4, <2>5 DEF CleanStep
<1>5. CASE UNCHANGED vars
  BY <1>0, <1>5 DEF vars
<1> QED BY <1>0, <1>1, <1>2, <1>3, <1>4, <1>5 DEF Next

\* The host that is recorded belongs to a session that has been launched.
LEMMA RecordedStep ==
    ASSUME TypeOK, HostsFollowLaunch, RecordedLaunched, [Next]_vars
    PROVE  RecordedLaunched'
<1> USE DEF TypeOK
<1>0. ASSUME NEW r \in Hosts, launch[SessionOf(r)] \in Launched
      PROVE  launch'[SessionOf(r)] \in Launched
  <2>0. SessionOf(r) \in Sessions
    BY DEF Hosts, SessionOf
  <2>1. ASSUME NEW s \in Sessions, LaunchStep(s) PROVE launch'[SessionOf(r)] \in Launched
    BY <1>0, <2>0, <2>1 DEF LaunchStep, Launch, RegisterKey, AbortLaunch, CreateServer,
                            AwaitBuilt, RecordRunnerId, OfferManualSetup, Announce,
                            AnnounceProgress, SaveScript, LaunchGoTo, Launched
  <2>2. ASSUME NEW h \in Hosts, CloudStep(h) \/ HostStep(h) \/ CleanStep(h) PROVE launch' = launch
    BY <2>2 DEF CloudStep, HostStep, Boot, PostHello, AttachRunner, PostStatus, PostShutdown,
                CleanStep, CleanProgress, CleanLookup, CleanStop, CloudCallFails, Stopped,
                CleanAwaitOff, CleanDelete, Deleted, CleanUnset, ForgetKeys, CleanPublish,
                CleanRelease
  <2> QED BY <1>0, <2>1, <2>2 DEF Next, vars
<1> DEFINE Stays == \/ runnerId' \in {Unset, runnerId}
                    \/ runnerId' \in Hosts /\ launch[SessionOf(runnerId')] \in Launched
<1>1. Stays
  <2>1. ASSUME NEW s \in Sessions, LaunchStep(s) PROVE Stays
    <3>1. CASE RecordRunnerId(s)
      <4>1. VMOf(s) \in Hosts /\ SessionOf(VMOf(s)) = s /\ launch[s] \in Launched
        BY <3>1 DEF RecordRunnerId, Hosts, Kinds, VMOf, SessionOf, Launched
      <4> QED BY <3>1, <4>1 DEF RecordRunnerId, MaybeWritten
    <3>2. CASE ~RecordRunnerId(s)
      BY <2>1, <3>2 DEF LaunchStep, Launch, RegisterKey, AbortLaunch, CreateServer, AwaitBuilt,
                        OfferManualSetup, Announce, AnnounceProgress, SaveScript, keys
    <3> QED BY <3>1, <3>2
  <2>2. ASSUME NEW h \in Hosts, CloudStep(h) \/ HostStep(h) PROVE Stays
    <3>1. CASE AttachRunner(h)
      <4>1. launch[SessionOf(h)] \in Launched
        BY <3>1 DEF AttachRunner, HostsFollowLaunch
      <4> QED BY <3>1, <4>1 DEF AttachRunner, MaybeWritten
    <3>2. CASE ~AttachRunner(h)
      BY <2>2, <3>2 DEF CloudStep, HostStep, Boot, PostHello, PostStatus, PostShutdown, keys
    <3> QED BY <3>1, <3>2
  <2>3. ASSUME NEW h \in Hosts, CleanStep(h) PROVE Stays
    BY <2>3 DEF CleanStep, CleanProgress, CleanLookup, CleanStop, CloudCallFails, Stopped,
                CleanAwaitOff, CleanDelete, Deleted, CleanUnset, ForgetKeys, CleanPublish,
                CleanRelease, keys
  <2> QED BY <2>1, <2>2, <2>3 DEF Next, vars, keys
<1>2. ASSUME runnerId' # Unset PROVE launch'[SessionOf(runnerId')] \in Launched
  <2>1. runnerId' \in Hosts /\ launch[SessionOf(runnerId')] \in Launched
    BY <1>1, <1>2 DEF RecordedLaunched, MaybeHost
  <2>2. PICK r \in Hosts : r = runnerId'
    BY <2>1
  <2> QED BY <1>0, <2>1, <2>2
<1> QED BY <1>2 DEF RecordedLaunched, SessionOf

\* Any publish but that of EventStopped takes the offer to launch off the page, or fails.
LEMMA OnlyCleanOffers ==
    ASSUME [Next]_vars, page' = "launch", ~missed', ~\E h \in Hosts : CleanPublish(h)
    PROVE  page = "launch" /\ ~missed
<1> DEFINE Other == UNCHANGED shown \/ Publish("busy") \/ Publish("manualSetup")
<1>1. ASSUME NEW s \in Sessions, LaunchStep(s) PROVE Other
  BY <1>1 DEF LaunchStep, Launch, RegisterKey, AbortLaunch, CreateServer, AwaitBuilt,
              RecordRunnerId, OfferManualSetup, Announce, AnnounceProgress, SaveScript
<1>2. ASSUME NEW h \in Hosts, CloudStep(h) \/ HostStep(h) PROVE Other
  BY <1>2 DEF CloudStep, HostStep, Boot, PostHello, AttachRunner, PostStatus, PostShutdown
<1>3. ASSUME NEW h \in Hosts, CleanStep(h) PROVE Other
  BY <1>3 DEF CleanStep, CleanProgress, CleanLookup, CleanStop, CleanAwaitOff, CleanDelete,
              CleanUnset, CleanRelease
<1>4. Other
  BY <1>1, <1>2, <1>3 DEF Next, vars
<1> QED BY <1>4 DEF shown, Publish

\* The page offers to launch only when Clean publishes it, with "running" still held.
LEMMA PageStep ==
    ASSUME LockInv, PageOpen, [Next]_vars
    PROVE  PageOpen'
<1>0. TypeOK /\ HostsFollowLaunch /\ LockProtectsSession
  BY DEF LockInv
<1>1. CASE \E s \in Sessions : ShutDownTwice(s)
  BY <1>0, <1>1, TwiceForever DEF PageOpen
<1>2. CASE ~\E s \in Sessions : ShutDownTwice(s)
  <2> SUFFICES ASSUME page' = "launch", ~missed', NEW t \in Sessions, Open(t)'
               PROVE  AtTheEdge(t)'
    BY DEF PageOpen
  <2>1. ASSUME NEW h \in Hosts, CleanPublish(h) PROVE AtTheEdge(t)'
    <3>1. clean[h] = "publish" /\ clean'[h] = "succeed"
      BY <1>0, <2>1 DEF CleanPublish, CleanGoTo, TypeOK
    <3>2. SessionOf(h) \in Sessions /\ Open(SessionOf(h))
      BY <1>0, <1>2, <3>1, CleaningSessionIsOpen DEF Ended
    <3>3. Open(t)
      BY <1>0, <2>1, OtherStepsOpenNothing DEF OtherStep
    <3>4. t = SessionOf(h)
      BY <1>0, <1>2, <3>2, <3>3 DEF LockProtectsSession
    <3>5. PICK k \in Kinds : h = <<t, k>>
      BY <3>4 DEF Hosts, SessionOf
    <3> QED BY <3>1, <3>5 DEF AtTheEdge
  <2>2. ASSUME ~\E h \in Hosts : CleanPublish(h) PROVE AtTheEdge(t)'
    <3>1. page = "launch" /\ ~missed
      BY <2>2, OnlyCleanOffers
    <3>2. Open(t) => AtTheEdge(t)
      BY <1>2, <3>1 DEF PageOpen
    <3>3. ASSUME NEW s \in Sessions, LaunchStep(s) PROVE AtTheEdge(t)'
      <4>1. clean' = clean
        BY <3>3 DEF LaunchStep, Launch, RegisterKey, AbortLaunch, CreateServer, AwaitBuilt,
                    RecordRunnerId, OfferManualSetup, Announce, AnnounceProgress, SaveScript
      <4>2. CASE launch'[t] = launch[t]
        BY <3>2, <4>1, <4>2 DEF Open, AtTheEdge
      <4>3. CASE launch'[t] # launch[t]
        <5>1. s = t
          BY <1>0, <3>3, <4>3 DEF LaunchStep, Launch, RegisterKey, AbortLaunch, CreateServer,
                                  AwaitBuilt, RecordRunnerId, OfferManualSetup, Announce,
                                  AnnounceProgress, SaveScript, LaunchGoTo, TypeOK
        <5>2. CASE Launch(t) \/ AbortLaunch(t)
          BY <1>0, <5>2 DEF Launch, AbortLaunch, LaunchGoTo, TypeOK, Open, Acquired, AtTheEdge
        <5>3. CASE RegisterKey(t)
          BY <1>0, <5>3 DEF RegisterKey, LaunchGoTo, TypeOK, AtTheEdge
        <5>5. ~Announce(t) /\ ~OfferManualSetup(t)
          BY DEF Announce, OfferManualSetup, Publish
        <5>4. CASE \/ CreateServer(t) \/ AwaitBuilt(t) \/ RecordRunnerId(t)
                   \/ AnnounceProgress(t) \/ SaveScript(t)
          <6>1. launch[t] \in Acquired /\ launch[t] \notin {"register", "abort", "announce"}
            BY <5>4 DEF CreateServer, AwaitBuilt, RecordRunnerId, AnnounceProgress, SaveScript,
                        Acquired, LaunchPC
          <6>2. Open(t)
            BY <4>1, <6>1 DEF Open
          <6> QED BY <3>2, <4>1, <6>1, <6>2 DEF AtTheEdge
        <5> QED BY <3>3, <5>1, <5>2, <5>3, <5>4, <5>5 DEF LaunchStep
      <4> QED BY <4>2, <4>3
    <3>4. ASSUME launch' = launch, Open(t),
                 \A g \in Hosts : clean[g] = "succeed" => clean'[g] = "succeed"
          PROVE  AtTheEdge(t)'
      BY <3>2, <3>4 DEF AtTheEdge, Hosts
    <3>5. ASSUME NEW h \in Hosts, CloudStep(h) \/ HostStep(h) PROVE AtTheEdge(t)'
      <4>1. Open(t)
        BY <1>0, <3>5, OtherStepsOpenNothing DEF OtherStep
      <4>2. launch' = launch
        BY <3>5 DEF CloudStep, HostStep, Boot, PostHello, AttachRunner, PostStatus, PostShutdown
      <4>3. \A g \in Hosts : clean[g] = "succeed" => clean'[g] = "succeed"
        BY <1>0, <3>5 DEF CloudStep, HostStep, Boot, PostHello, AttachRunner, PostStatus,
                          PostShutdown, TypeOK, HostsFollowLaunch
      <4> QED BY <3>4, <4>1, <4>2, <4>3
    <3>6. ASSUME NEW h \in Hosts,
                 \/ CleanProgress(h) \/ CleanLookup(h) \/ CleanStop(h) \/ CleanAwaitOff(h)
                 \/ CleanDelete(h) \/ CleanUnset(h)
          PROVE  AtTheEdge(t)'
      <4>1. Open(t)
        BY <1>0, <3>6, OtherStepsOpenNothing DEF OtherStep
      <4>2. launch' = launch
        BY <3>6 DEF CleanProgress, CleanLookup, CleanStop, CloudCallFails, Stopped, CleanAwaitOff,
                    CleanDelete, Deleted, CleanUnset, ForgetKeys
      <4>3. \A g \in Hosts : clean[g] = "succeed" => clean'[g] = "succeed"
        BY <1>0, <3>6 DEF CleanProgress, CleanLookup, CleanStop, CloudCallFails, Stopped,
                          CleanAwaitOff, CleanDelete, Deleted, CleanUnset, ForgetKeys, CleanGoTo,
                          TypeOK
      <4> QED BY <3>4, <4>1, <4>2, <4>3
    <3>7. ASSUME NEW h \in Hosts, CleanRelease(h) PROVE AtTheEdge(t)'
      <4>1. launch' = launch /\ clean[h] \in {"succeed", "giveUp"}
        BY <3>7 DEF CleanRelease
      <4>2. clean'[h] \in Ended /\ \A g \in Hosts : g # h => clean'[g] = clean[g]
        BY <1>0, <3>7 DEF CleanRelease, CleanGoTo, TypeOK, Ended
      <4>3. \A k \in Kinds : <<t, k>> \in Hosts /\ clean'[<<t, k>>] \notin Ended
        BY DEF Open, Hosts
      <4>4. \A k \in Kinds : clean'[<<t, k>>] = clean[<<t, k>>]
        BY <4>2, <4>3
      <4>5. Open(t)
        BY <4>1, <4>3, <4>4 DEF Open
      <4> QED BY <3>2, <4>1, <4>4, <4>5 DEF AtTheEdge
    <3>8. CASE UNCHANGED vars
      BY <3>2, <3>8 DEF vars, Open, AtTheEdge
    <3> QED BY <2>2, <3>3, <3>5, <3>6, <3>7, <3>8 DEF Next, CleanStep
  <2> QED BY <2>1, <2>2
<1> QED BY <1>1, <1>2

\* A VM whose session has a Clean that went past DeleteServer, or that has ended, is gone
\* or left behind.
LEMMA GoneOrLeft ==
    ASSUME TypeOK, CookieDeleted, NEW r \in Hosts, NEW k \in Kinds,
           clean[<<SessionOf(r), k>>] \in PastDelete \cup Ended
    PROVE  ~VMExists(r) \/ LeftBehind(r)
<1> DEFINE g == <<SessionOf(r), k>>
<1>1. g \in Hosts
  BY DEF Hosts, SessionOf
<1>2. CASE clean[g] \in {"gaveUp", "stuck"}
  BY <1>2 DEF LeftBehind
<1>3. CASE clean[g] \in PastDelete /\ cookie[g] # r
  BY <1>3 DEF LeftBehind, PastDelete
<1>4. CASE clean[g] \in PastDelete /\ cookie[g] = r
  <2>1. r # Unset
    BY LauncherAssumption DEF Hosts, Kinds
  <2> QED BY <1>1, <1>4, <2>1 DEF CookieDeleted, VMExists
<1> QED BY <1>2, <1>3, <1>4 DEF Ended, PastDelete

\* The Web UI offers to launch only while no existing VM is recorded that its Clean did not
\* leave behind, and no session is between its announcement and the end of its Clean, unless
\* the last Set of the current state failed.
THEOREM LaunchPage == Spec => []LaunchPageMeansStopped
<1>1. Init => PageInv
  <2> SUFFICES ASSUME Init PROVE PageInv
    OBVIOUS
  <2>1. LockInv
    BY InitLockInv
  <2>2. CookieDeleted /\ RecordedLaunched
    BY DEF Init, CookieDeleted, RecordedLaunched
  <2>3. BootedByHand
    BY DEF Init, BootedByHand, Hosts, Kinds
  <2>4. PageOpen
    BY DEF Init, PageOpen, Open, Acquired
  <2> QED BY <2>1, <2>2, <2>3, <2>4 DEF PageInv
<1>2. PageInv /\ [Next]_vars => PageInv'
  BY LockStep, CookieDeletedStep, RecordedStep, ByHandStep, PageStep DEF PageInv, LockInv
<1>3. PageInv => LaunchPageMeansStopped
  <2> SUFFICES ASSUME PageInv, ~missed, ~\E s \in Sessions : ShutDownTwice(s),
                      page = "launch"
               PROVE  /\ runnerId # Unset => ~VMExists(runnerId) \/ LeftBehind(runnerId)
                      /\ \A s \in Sessions : Open(s) => AtTheEdge(s)
    BY DEF LaunchPageMeansStopped, AtTheEdge
  <2>1. \A s \in Sessions : Open(s) => AtTheEdge(s)
    BY DEF PageInv, PageOpen
  <2>2. ASSUME runnerId # Unset PROVE ~VMExists(runnerId) \/ LeftBehind(runnerId)
    <3>1. runnerId \in Hosts /\ launch[SessionOf(runnerId)] \in Launched
      BY <2>2 DEF PageInv, LockInv, TypeOK, MaybeHost, RecordedLaunched
    <3>2. PICK s \in Sessions : s = SessionOf(runnerId)
      BY <3>1 DEF Hosts, SessionOf
    <3>3. \E k \in Kinds : clean[<<s, k>>] \in PastDelete \cup Ended
      <4>1. CASE Open(s)
        BY <2>1, <3>1, <3>2, <4>1 DEF AtTheEdge, Launched, PastDelete
      <4>2. CASE ~Open(s)
        BY <3>1, <3>2, <4>2 DEF Open, Launched, Acquired, LaunchPC
      <4> QED BY <4>1, <4>2
    <3> QED BY <3>1, <3>2, <3>3, GoneOrLeft DEF PageInv, LockInv
  <2> QED BY <2>1, <2>2
<1> QED BY <1>1, <1>2, <1>3, PTL DEF Spec
=============================================================================
