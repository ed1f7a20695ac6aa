---------------------------- MODULE Proxy_proofs ----------------------------
(***************************************************************************)
(* Theorems about the way of actions and of players' connections, for any  *)
(* number of actions, players and failing calls.                           *)
(***************************************************************************)
EXTENDS Proxy, TLAPS

-----------------------------------------------------------------------------
(***************************************************************************)
(* Actions                                                                 *)
(***************************************************************************)

\* No action reaches the runner twice.
ActionDeliveredOnce == \A a \in Actions : delivered[a] <= 1

Places == 1..Len(queue)
InQueue(a) == \E i \in Places : queue[i] = a
Answered(a) == answer # Nothing /\ answer = a

\* An action is in one place at a time: not pushed yet, in the list (once), in the
\* answer of the poll, or with the runner.
OnePlace(a) ==
    /\ push[a] = "idle" => ~InQueue(a) /\ ~Answered(a) /\ delivered[a] = 0
    /\ InQueue(a) => ~Answered(a) /\ delivered[a] = 0
    /\ Answered(a) => delivered[a] = 0
    /\ delivered[a] <= 1
NoDoubles == \A i, j \in Places : queue[i] = queue[j] => i = j
ActionInv == ActionTypeOK /\ NoDoubles /\ \A a \in Actions : OnePlace(a)

\* What Popped leaves was in the list; what Pop takes, if anything, is gone from it.
LEMMA PopTakes ==
    ASSUME ActionTypeOK, NoDoubles, queue' = Popped
    PROVE  /\ queue' \in Seq(Actions) /\ NoDoubles'
           /\ \A a \in Actions : InQueue(a)' => InQueue(a)
           /\ Pop # Nothing => Pop \in Actions
           /\ \A a \in Actions : a = Pop /\ a # Nothing => InQueue(a) /\ ~InQueue(a)'
<1>1. queue \in Seq(Actions)
  BY DEF ActionTypeOK
<1>2. CASE queue = <<>>
  BY <1>1, <1>2 DEF Popped, Pop, NoDoubles, Places, InQueue
<1>3. CASE queue # <<>>
  <2>1. /\ queue' = Tail(queue) /\ Pop = queue[1] /\ Len(queue) \in Nat /\ Len(queue) > 0
        /\ queue' \in Seq(Actions) /\ Len(queue') = Len(queue) - 1
        /\ \A i \in 1..Len(queue') : queue'[i] = queue[i + 1]
    BY <1>1, <1>3 DEF Popped, Pop
  <2>2. \A i \in 1..Len(queue') : i + 1 \in Places /\ i + 1 # 1
    BY <2>1 DEF Places
  <2>3. NoDoubles'
    BY <2>1, <2>2 DEF NoDoubles, Places
  <2>4. \A a \in Actions : InQueue(a)' => InQueue(a)
    BY <2>1, <2>2 DEF InQueue, Places
  <2>5. 1 \in Places /\ Pop \in Actions
    BY <1>1, <2>1 DEF Places
  <2>6. \A a \in Actions : a = Pop => InQueue(a) /\ ~InQueue(a)'
    BY <2>1, <2>2, <2>5 DEF InQueue, NoDoubles, Places
  <2> QED BY <2>1, <2>3, <2>4, <2>5, <2>6
<1> QED BY <1>2, <1>3

\* A call that fails is counted.
LEMMA FaultsBounded ==
    ASSUME ActionTypeOK, UNCHANGED faults \/ Fault
    PROVE  faults' \in 0..MaxFaults
<1>1. faults \in 0..MaxFaults
  BY DEF ActionTypeOK
<1> QED BY <1>1, ActionAssumption DEF Fault

\* Steps that are not about actions.
LEMMA QuietStep ==
    ASSUME ActionInv, UNCHANGED actionVars, UNCHANGED faults \/ Fault
    PROVE  ActionInv'
<1>1. faults' \in 0..MaxFaults
  BY FaultsBounded DEF ActionInv
<1> QED BY <1>1 DEF ActionInv, ActionTypeOK, actionVars, NoDoubles, OnePlace, InQueue, Answered,
                    Places

\* Push of an action: it is listed once, or not at all.
LEMMA PushStep ==
    ASSUME ActionInv, NEW a \in Actions, RPush(a) \/ PublishNotify(a)
    PROVE  ActionInv'
<1>0. ActionTypeOK /\ NoDoubles /\ \A x \in Actions : OnePlace(x)
  BY DEF ActionInv
<1>1. /\ faults' \in 0..MaxFaults
      /\ UNCHANGED <<poll, subscribed, answer, runner, delivered>>
  <2>1. UNCHANGED faults \/ Fault
    BY DEF RPush, PublishNotify
  <2> QED BY <1>0, <2>1, FaultsBounded DEF RPush, PublishNotify, pollVars
<1>2. /\ push' \in [Actions -> {"idle", "listed", "over"}] /\ push'[a] # "idle"
      /\ \A x \in Actions : x # a => push'[x] = push[x]
  BY <1>0 DEF RPush, PublishNotify, ActionTypeOK
<1>3. notes' \in Nat
  BY <1>0 DEF RPush, PublishNotify, pollVars, ActionTypeOK
<1>4. CASE UNCHANGED queue
  <2>1. \A x \in Actions : OnePlace(x)'
    BY <1>0, <1>1, <1>2, <1>4 DEF OnePlace, InQueue, Answered, Places
  <2> QED BY <1>0, <1>1, <1>2, <1>3, <1>4, <2>1 DEF ActionInv, ActionTypeOK, NoDoubles, Places
<1>5. CASE push[a] = "idle" /\ queue' = Append(queue, a)
  <2>1. /\ queue' \in Seq(Actions) /\ Len(queue) \in Nat /\ Len(queue') = Len(queue) + 1
        /\ \A i \in 1..Len(queue) : queue'[i] = queue[i]
        /\ queue'[Len(queue) + 1] = a
    BY <1>0, <1>5 DEF ActionTypeOK
  <2>2. ~InQueue(a) /\ ~Answered(a) /\ delivered[a] = 0
    BY <1>0, <1>5 DEF OnePlace
  <2>3. \A x \in Actions : x # a => (InQueue(x)' => InQueue(x))
    BY <2>1 DEF InQueue, Places
  <2>4. NoDoubles'
    BY <1>0, <2>1, <2>2 DEF NoDoubles, InQueue, Places
  <2>5. \A x \in Actions : OnePlace(x)'
    <3>1. \A x \in Actions : Answered(x)' = Answered(x) /\ delivered'[x] = delivered[x]
      BY <1>1 DEF Answered
    <3>2. OnePlace(a)'
      BY <1>2, <2>2, <3>1 DEF OnePlace
    <3>3. \A x \in Actions : x # a => OnePlace(x)'
      BY <1>0, <1>2, <2>3, <3>1 DEF OnePlace
    <3> QED BY <3>2, <3>3
  <2> QED BY <1>0, <1>1, <1>2, <1>3, <2>1, <2>4, <2>5 DEF ActionInv, ActionTypeOK
<1> QED BY <1>4, <1>5 DEF RPush, PublishNotify

\* A poll takes an action off the list, loses it or gives it to the runner.
LEMMA PollKeeps ==
    ASSUME ActionInv, PollStep
    PROVE  ActionInv'
<1>0. ActionTypeOK /\ NoDoubles /\ \A x \in Actions : OnePlace(x)
  BY DEF ActionInv
<1>1. faults' \in 0..MaxFaults /\ UNCHANGED push
  <2>1. (UNCHANGED faults \/ Fault) /\ UNCHANGED push
    BY DEF PollStep, BeginPoll, SubscribeArrives, FirstPop, PopNotified, PollTimeout,
           ReceiveAction, PollAgain
  <2> QED BY <1>0, <2>1, FaultsBounded
<1>2. /\ poll' \in {"none", "begin", "wait", "answer"} /\ subscribed' \in BOOLEAN
      /\ runner' \in {"poll", "sleep"} /\ notes' \in Nat
  <2>1. /\ poll \in {"none", "begin", "wait", "answer"} /\ subscribed \in BOOLEAN
        /\ runner \in {"poll", "sleep"} /\ notes \in Nat
    BY <1>0 DEF ActionTypeOK
  <2>2. CASE BeginPoll \/ SubscribeArrives \/ FirstPop \/ PollAgain
    BY <2>1, <2>2 DEF BeginPoll, SubscribeArrives, FirstPop, PollAgain
  <2>3. CASE PopNotified
    <3>1. notes \in Nat /\ notes > 0 /\ notes' = notes - 1
      BY <2>1, <2>3 DEF PopNotified
    <3>2. notes' \in Nat
      BY <3>1
    <3> QED BY <2>1, <2>3, <3>2 DEF PopNotified
  <2>4. CASE PollTimeout \/ ReceiveAction
    <3>1. EndPoll /\ runner' \in {"poll", "sleep"}
      BY <2>1, <2>4 DEF PollTimeout, ReceiveAction
    <3>2. subscribed' \in BOOLEAN
      BY <3>1, Zenon DEF EndPoll
    <3>3. notes' \in Nat /\ poll' = "none"
      BY <3>1 DEF EndPoll
    <3> QED BY <3>1, <3>2, <3>3
  <2> QED BY <2>2, <2>3, <2>4 DEF PollStep
<1>3. CASE BeginPoll \/ SubscribeArrives \/ PollAgain
  <2>1. UNCHANGED <<queue, answer, delivered>>
    BY <1>3 DEF BeginPoll, SubscribeArrives, PollAgain
  <2>2. \A x \in Actions : OnePlace(x)'
    BY <1>0, <1>1, <2>1 DEF OnePlace, InQueue, Answered, Places
  <2> QED BY <1>0, <1>1, <1>2, <2>1, <2>2 DEF ActionInv, ActionTypeOK, NoDoubles, Places
<1>4. CASE (FirstPop \/ PopNotified) /\ UNCHANGED <<queue, answer>>
  <2>1. UNCHANGED <<queue, answer, delivered>>
    BY <1>4 DEF FirstPop, PopNotified
  <2>2. \A x \in Actions : OnePlace(x)'
    BY <1>0, <1>1, <2>1 DEF OnePlace, InQueue, Answered, Places
  <2> QED BY <1>0, <1>1, <1>2, <2>1, <2>2 DEF ActionInv, ActionTypeOK, NoDoubles, Places
<1>5. CASE (FirstPop \/ PopNotified) /\ queue' = Popped /\ (answer' = answer \/ answer' = Pop)
  <2>1. UNCHANGED delivered
    BY <1>5 DEF FirstPop, PopNotified
  <2>2. /\ queue' \in Seq(Actions) /\ NoDoubles'
        /\ \A a \in Actions : InQueue(a)' => InQueue(a)
        /\ Pop # Nothing => Pop \in Actions
        /\ \A a \in Actions : a = Pop /\ a # Nothing => InQueue(a) /\ ~InQueue(a)'
    BY <1>0, <1>5, PopTakes
  <2>3. answer' \in Actions \cup {Nothing}
    BY <1>0, <1>5, <2>2 DEF ActionTypeOK
  <2>4. \A x \in Actions : Answered(x)' => Answered(x) \/ (InQueue(x) /\ ~InQueue(x)')
    BY <1>5, <2>2 DEF Answered
  <2>5. \A x \in Actions : OnePlace(x)'
    BY <1>0, <1>1, <2>1, <2>2, <2>4 DEF OnePlace
  <2> QED BY <1>0, <1>1, <1>2, <2>1, <2>2, <2>3, <2>5 DEF ActionInv, ActionTypeOK
<1>6. CASE PollTimeout \/ ReceiveAction
  <2>1. /\ UNCHANGED queue /\ answer' = Nothing
        /\ UNCHANGED delivered \/ (answer # Nothing /\ delivered' = [delivered EXCEPT ![answer] = @ + 1])
    BY <1>6 DEF PollTimeout, ReceiveAction, EndPoll
  <2>2. \A x \in Actions : InQueue(x)' = InQueue(x) /\ ~Answered(x)'
    BY <2>1 DEF InQueue, Answered, Places
  <2>3. /\ delivered' \in [Actions -> Nat]
        /\ \A x \in Actions : delivered'[x] = IF delivered' # delivered /\ Answered(x) THEN 1 ELSE delivered[x]
    <3>1. CASE UNCHANGED delivered
      BY <1>0, <3>1 DEF ActionTypeOK
    <3>2. CASE answer # Nothing /\ delivered' = [delivered EXCEPT ![answer] = @ + 1]
      <4>1. answer \in Actions /\ Answered(answer) /\ delivered \in [Actions -> Nat]
        BY <1>0, <3>2 DEF ActionTypeOK, Answered
      <4>2. delivered[answer] = 0
        BY <1>0, <4>1 DEF OnePlace
      <4> QED BY <3>2, <4>1, <4>2 DEF Answered
    <3> QED BY <2>1, <3>1, <3>2
  <2>4. \A x \in Actions : OnePlace(x)'
    BY <1>0, <1>1, <2>2, <2>3 DEF OnePlace
  <2>5. NoDoubles'
    BY <1>0, <2>1 DEF NoDoubles, Places
  <2> QED BY <1>0, <1>1, <1>2, <2>1, <2>3, <2>4, <2>5 DEF ActionInv, ActionTypeOK
<1>7. FirstPop \/ PopNotified =>
        \/ UNCHANGED <<queue, answer>>
        \/ queue' = Popped /\ (answer' = answer \/ answer' = Pop)
  BY DEF FirstPop, PopNotified
<1> QED BY <1>3, <1>4, <1>5, <1>6, <1>7 DEF PollStep

-----------------------------------------------------------------------------
(***************************************************************************)
(* Connections                                                             *)
(***************************************************************************)

ProxyTypeOK ==
    /\ handle \in [Players -> {"handshake", "copy", "over"} \cup Pooled]
    /\ pool \subseteq Players
    /\ holder \in Players \cup {Nothing}
    /\ incoming \in [Players -> {"none", "lookup", "send", "sleep", "over"}]
    /\ acquired \subseteq Players
    /\ connector \in [Players -> {"none", "dialGame", "copy", "over"}]
    /\ player \in [Players -> {"open", "closed"}]
    /\ link \in [Players -> {"none", "open", "closed"}]
    /\ game \in [Players -> {"none", "open", "closed"}]

ProxyInv == ActionInv /\ ProxyTypeOK /\ PoolHasNoLeftovers

\* The invariant holds before the first connection and the first action.
LEMMA ProxyStart == Init => ProxyInv
<1> SUFFICES ASSUME Init PROVE ProxyInv
  OBVIOUS
<1>1. PICK scene \in Scenes :
          /\ ActionInit(scene)
          /\ handle = [p \in Players |-> IF p \in scene THEN "handshake" ELSE "over"]
          /\ player = [p \in Players |-> IF p \in scene THEN "open" ELSE "closed"]
  BY DEF Init
<1>2. ActionInv
  <2>1. ActionTypeOK
    <3>1. faults \in 0..MaxFaults
      BY <1>1, ActionAssumption DEF ActionInit
    <3>2. queue \in Seq(Actions) /\ notes \in Nat
      BY <1>1 DEF ActionInit
    <3>4. subscribed \in BOOLEAN
      BY <1>1, Zenon DEF ActionInit
    <3>3. /\ push \in [Actions -> {"idle", "listed", "over"}] /\ delivered \in [Actions -> Nat]
          /\ poll = "none" /\ answer = Nothing /\ runner = "poll"
      BY <1>1 DEF ActionInit
    <3> QED BY <3>1, <3>2, <3>3, <3>4 DEF ActionTypeOK
  <2>2. Places = {}
    BY <1>1 DEF ActionInit, Places
  <2> QED BY <1>1, <2>1, <2>2 DEF ActionInit, ActionInv, NoDoubles, OnePlace, InQueue, Answered
<1>3. ProxyTypeOK
  BY <1>1 DEF Init, ProxyTypeOK
<1>4. PoolHasNoLeftovers
  BY <1>1 DEF Init, PoolHasNoLeftovers
<1> QED BY <1>2, <1>3, <1>4 DEF ProxyInv

\* Every step of the proxy, the connector and the action path preserves it.
LEMMA ProxyStep == ProxyInv /\ [Next]_vars => ProxyInv'
<1> SUFFICES ASSUME ProxyInv, [Next]_vars PROVE ProxyInv'
  OBVIOUS
<1>0. ActionInv /\ ProxyTypeOK /\ PoolHasNoLeftovers
  BY DEF ProxyInv
<1>same. ASSUME UNCHANGED proxyVars PROVE ProxyTypeOK' /\ PoolHasNoLeftovers'
  BY <1>0, <1>same DEF proxyVars, sockets, ProxyTypeOK, PoolHasNoLeftovers
<1>1. CASE UNCHANGED vars
  BY <1>0, <1>1, <1>same, QuietStep DEF vars, ProxyInv
<1>2. CASE PollStep /\ UNCHANGED proxyVars
  BY <1>0, <1>2, <1>same, PollKeeps DEF ProxyInv
<1>3. ASSUME NEW a \in WebActions, PushWebAction(a) PROVE ProxyInv'
  BY <1>0, <1>3, <1>same, PushStep DEF PushWebAction, ProxyInv, Actions
\* handleConn of p.
<1>handle. ASSUME NEW p \in Players, HandleConnStep(p) PROVE ProxyInv'
  <2>1. ActionInv'
    <3>1. CASE UNCHANGED <<actionVars, faults>>
      BY <1>0, <3>1, QuietStep
    <3>2. CASE RPush(p) \/ PublishNotify(p)
      BY <1>0, <3>2, PushStep DEF Actions, Players
    <3> QED BY <1>handle, <3>1, <3>2 DEF HandleConnStep, HandleDummyServer, Register, PushConnReq,
                                         Receive, MarkAcquired, WaitTimeout, DeleteFromPool,
                                         CopyEnds
  <2>2. ProxyTypeOK'
    <3>1. handle' \in [Players -> {"handshake", "copy", "over"} \cup Pooled]
      BY <1>0, <1>handle DEF ProxyTypeOK, HandleConnStep, HandleDummyServer, Register,
                             PushConnReq, Receive, MarkAcquired, WaitTimeout, DeleteFromPool,
                             CopyEnds, HandleGoTo, Pooled
    <3>2. /\ player' \in [Players -> {"open", "closed"}]
          /\ link' \in [Players -> {"none", "open", "closed"}] /\ UNCHANGED <<game, connector>>
      BY <1>0, <1>handle DEF ProxyTypeOK, HandleConnStep, HandleDummyServer, Register,
                             PushConnReq, Receive, MarkAcquired, WaitTimeout, DeleteFromPool,
                             CopyEnds, sockets
    <3>3. /\ pool' \subseteq Players /\ acquired' \subseteq Players /\ holder' \in Players \cup {Nothing}
          /\ incoming' \in [Players -> {"none", "lookup", "send", "sleep", "over"}]
      BY <1>0, <1>handle DEF ProxyTypeOK, HandleConnStep, HandleDummyServer, Register,
                             PushConnReq, Receive, MarkAcquired, WaitTimeout, DeleteFromPool,
                             CopyEnds
    <3> QED BY <1>0, <3>1, <3>2, <3>3 DEF ProxyTypeOK
  <2>3. \A q \in Players : q # p => handle'[q] = handle[q]
    BY <1>0, <1>handle DEF ProxyTypeOK, HandleConnStep, HandleDummyServer, Register, PushConnReq,
                           Receive, MarkAcquired, WaitTimeout, DeleteFromPool, CopyEnds,
                           HandleGoTo
  <2>4. /\ pool' \subseteq pool \cup {p}
        /\ p \in pool' => handle'[p] \in Pooled
    BY <1>0, <1>handle DEF ProxyTypeOK, HandleConnStep, HandleDummyServer, Register, PushConnReq,
                           Receive, MarkAcquired, WaitTimeout, DeleteFromPool, CopyEnds,
                           HandleGoTo, Pooled, PoolHasNoLeftovers
  <2> QED BY <1>0, <2>1, <2>2, <2>3, <2>4 DEF ProxyInv, ProxyTypeOK, PoolHasNoLeftovers
\* The goroutine of the connector's connection, the connector, and the two peers.
<1>other. ASSUME NEW p \in Players, ChannelStep(p) \/ ConnectorStep(p) \/ PeerCloses(p) PROVE ProxyInv'
  <2>1. ActionInv'
    <3>1. UNCHANGED actionVars /\ (UNCHANGED faults \/ Fault)
      BY <1>other DEF ChannelStep, ConnectorStep, LookUp, CloseUnacquired, DialProxy, DialGame,
         ConnectorCopyEnds, PeerCloses
    <3> QED BY <1>0, <3>1, QuietStep
  <2>2. /\ UNCHANGED <<handle, pool, acquired>> /\ holder' \in Players \cup {Nothing}
        /\ incoming' \in [Players -> {"none", "lookup", "send", "sleep", "over"}]
    BY <1>0, <1>other DEF ProxyTypeOK, ChannelStep, ConnectorStep, LookUp, CloseUnacquired,
                          DialProxy, DialGame, ConnectorCopyEnds, PeerCloses
  <2>3. /\ connector' \in [Players -> {"none", "dialGame", "copy", "over"}]
        /\ player' \in [Players -> {"open", "closed"}]
        /\ link' \in [Players -> {"none", "open", "closed"}]
        /\ game' \in [Players -> {"none", "open", "closed"}]
    BY <1>0, <1>other DEF ProxyTypeOK, ChannelStep, ConnectorStep, LookUp, CloseUnacquired,
                          DialProxy, DialGame, ConnectorCopyEnds, PeerCloses, sockets
  <2> QED BY <1>0, <2>1, <2>2, <2>3 DEF ProxyInv, ProxyTypeOK, PoolHasNoLeftovers
<1> QED BY <1>1, <1>2, <1>3, <1>handle, <1>other DEF Next

\* The invariant holds for every set of clients, links and actions.
LEMMA ProxySafe == Spec => []ProxyInv
BY ProxyStart, ProxyStep, PTL DEF Spec

\* The lists, polls, channels and sockets keep their types.
THEOREM TypeCorrect == Spec => []TypeOK
<1>1. ProxyInv => TypeOK
  BY DEF ProxyInv, ActionInv, ProxyTypeOK, TypeOK
<1> QED BY <1>1, ProxySafe, PTL

\* No action that Push lists reaches the runner twice: neither a poll that fails or
\* times out, nor a lost answer, nor a failing Publish hands it out again.
THEOREM DeliveredOnce == Spec => []ActionDeliveredOnce
<1>1. ProxyInv => ActionDeliveredOnce
  BY DEF ProxyInv, ActionInv, OnePlace, ActionDeliveredOnce
<1> QED BY <1>1, ProxySafe, PTL

\* Every way out of handleConn takes the id of the connection out of the pool.
THEOREM PoolIsCleaned == Spec => []PoolHasNoLeftovers
<1>1. ProxyInv => PoolHasNoLeftovers
  BY DEF ProxyInv
<1> QED BY <1>1, ProxySafe, PTL

-----------------------------------------------------------------------------
(***************************************************************************)
(* The abstract delivery                                                   *)
(***************************************************************************)

\* An action is under way while it is in the list or in the answer.
LEMMA UnderwayIs ==
    ASSUME ActionTypeOK
    PROVE  \A x : x \in Underway <=> x # Nothing /\ (InQueue(x) \/ Answered(x))
<1>1. queue \in Seq(Actions) /\ DOMAIN queue = Places
  BY DEF ActionTypeOK, Places
<1> QED BY <1>1 DEF Underway, InQueue, Answered

\* A step of the action path is a step of the abstract delivery.
LEMMA DeliveryStep ==
    ASSUME ProxyInv, ProxyInv', [Next]_vars
    PROVE  [Delivery!Next]_<<Unsent, Underway, delivered>>
<1>0. ActionInv /\ ActionTypeOK /\ NoDoubles /\ ActionTypeOK'
  BY DEF ProxyInv, ActionInv
<1>1. /\ \A x : x \in Underway <=> x # Nothing /\ (InQueue(x) \/ Answered(x))
      /\ \A x : x \in Underway' <=> x # Nothing /\ (InQueue(x)' \/ Answered(x)')
  <2>1. \A x : x \in Underway <=> x # Nothing /\ (InQueue(x) \/ Answered(x))
    BY <1>0, UnderwayIs
  <2>2. (\A x : x \in Underway <=> x # Nothing /\ (InQueue(x) \/ Answered(x)))'
    BY <1>0, UnderwayIs, PTL
  <2> QED BY <2>1, <2>2
<1>quiet. ASSUME UNCHANGED actionVars
          PROVE  UNCHANGED <<Unsent, Underway, delivered>>
  BY <1>quiet DEF actionVars, Unsent, Underway
<1>push. ASSUME NEW a \in Actions, RPush(a) \/ PublishNotify(a)
         PROVE  Delivery!Next
  <2>1. UNCHANGED <<answer, delivered>>
    BY <1>push DEF RPush, PublishNotify, pollVars
  <2>2. /\ Unsent' \subseteq Unsent /\ a \notin Unsent'
        /\ push[a] = "idle" => a \in Unsent
    BY <1>0, <1>push DEF RPush, PublishNotify, ActionTypeOK, Unsent
  <2>3. Underway' \subseteq Underway \cup (Unsent \ Unsent')
    <3>1. CASE UNCHANGED queue
      BY <1>1, <2>1, <3>1 DEF InQueue, Answered, Places
    <3>2. CASE push[a] = "idle" /\ queue' = Append(queue, a)
      <4>1. /\ Len(queue) \in Nat /\ Len(queue') = Len(queue) + 1
            /\ \A i \in 1..Len(queue) : queue'[i] = queue[i]
            /\ queue'[Len(queue) + 1] = a
        BY <1>0, <3>2 DEF ActionTypeOK
      <4>2. \A x : InQueue(x)' => InQueue(x) \/ x = a
        BY <4>1 DEF InQueue, Places
      <4>3. \A x : Answered(x)' => Answered(x)
        BY <2>1 DEF Answered
      <4> QED BY <1>1, <2>2, <3>2, <4>2, <4>3
    <3> QED BY <1>push, <3>1, <3>2 DEF RPush, PublishNotify
  <2> QED BY <2>1, <2>2, <2>3 DEF Delivery!Next, Delivery!Leave
<1>poll. ASSUME PollStep
         PROVE  Delivery!Next
  <2>1. Unsent' = Unsent
    BY <1>poll DEF Unsent, PollStep, BeginPoll, SubscribeArrives, FirstPop, PopNotified,
                   PollTimeout, ReceiveAction, PollAgain
  <2>2. CASE UNCHANGED <<queue, answer, delivered>>
    BY <2>1, <2>2 DEF Underway, Delivery!Next, Delivery!Leave
  <2>3. CASE queue' = Popped /\ (answer' = answer \/ answer' = Pop) /\ UNCHANGED delivered
    <3>1. /\ \A a \in Actions : InQueue(a)' => InQueue(a)
          /\ Pop # Nothing => Pop \in Actions
          /\ \A a \in Actions : a = Pop /\ a # Nothing => InQueue(a)
      BY <1>0, <2>3, PopTakes
    <3>2. \A x : InQueue(x)' => x \in Actions
      BY <1>0 DEF ActionTypeOK, InQueue, Places
    <3>3. \A x : x # Nothing /\ Answered(x)' => Answered(x) \/ InQueue(x)
      BY <2>3, <3>1 DEF Answered
    <3>4. Underway' \subseteq Underway
      BY <1>1, <3>1, <3>2, <3>3
    <3> QED BY <2>1, <2>3, <3>4 DEF Delivery!Next, Delivery!Leave
  <2>4. CASE UNCHANGED queue /\ answer' = Nothing
    <3>1. Underway' \subseteq Underway
      BY <1>1, <2>4 DEF InQueue, Answered, Places
    <3>2. CASE UNCHANGED delivered
      BY <2>1, <3>1, <3>2 DEF Delivery!Next, Delivery!Leave
    <3>3. CASE answer # Nothing /\ delivered' = [delivered EXCEPT ![answer] = @ + 1]
      <4>1. answer \in Actions /\ Answered(answer)
        BY <1>0, <3>3 DEF ActionTypeOK, Answered
      <4>2. ~InQueue(answer)
        BY <4>1 DEF ProxyInv, ActionInv, OnePlace
      <4>3. answer \in Underway \ Underway'
        <5>1. answer \in Underway
          BY <1>1, <3>3, <4>1
        <5>2. Underway' = {queue[i] : i \in DOMAIN queue} \ {Nothing}
          BY <2>4 DEF Underway
        <5>3. answer \notin {queue[i] : i \in DOMAIN queue}
          BY <1>0, <4>2 DEF InQueue, Places, ActionTypeOK
        <5> QED BY <5>1, <5>2, <5>3
      <4> QED BY <2>1, <3>1, <3>3, <4>3 DEF Delivery!Next, Delivery!Leave, Delivery!Arrive
    <3>4. UNCHANGED delivered \/ (answer # Nothing /\ delivered' = [delivered EXCEPT ![answer] = @ + 1])
      BY <1>poll DEF PollStep, BeginPoll, SubscribeArrives, FirstPop, PopNotified, PollTimeout,
         ReceiveAction, PollAgain
    <3> QED BY <3>2, <3>3, <3>4
  <2> QED BY <1>poll, <2>2, <2>3, <2>4 DEF PollStep, BeginPoll, SubscribeArrives, FirstPop,
                                           PopNotified, PollTimeout, ReceiveAction, PollAgain,
                                           EndPoll
<1>1a. CASE UNCHANGED vars
  BY <1>1a, <1>quiet DEF vars
<1>2. CASE PollStep /\ UNCHANGED proxyVars
  BY <1>2, <1>poll
<1>3. ASSUME NEW a \in WebActions, PushWebAction(a) PROVE Delivery!Next
  BY <1>3, <1>push DEF PushWebAction, Actions
<1>4. ASSUME NEW p \in Players, HandleConnStep(p)
      PROVE  Delivery!Next \/ UNCHANGED <<Unsent, Underway, delivered>>
  <2>1. UNCHANGED actionVars \/ RPush(p) \/ PublishNotify(p)
    BY <1>4 DEF HandleConnStep, HandleDummyServer, Register, PushConnReq, Receive, MarkAcquired,
                WaitTimeout, DeleteFromPool, CopyEnds
  <2> QED BY <1>quiet, <1>push, <2>1 DEF Actions, Players
<1>5. ASSUME NEW p \in Players, ChannelStep(p) \/ ConnectorStep(p) \/ PeerCloses(p)
      PROVE  UNCHANGED <<Unsent, Underway, delivered>>
  <2>1. UNCHANGED actionVars
    BY <1>5 DEF ChannelStep, ConnectorStep, LookUp, CloseUnacquired, DialProxy, DialGame,
       ConnectorCopyEnds, PeerCloses
  <2> QED BY <1>quiet, <2>1
<1> QED BY <1>1a, <1>2, <1>3, <1>4, <1>5 DEF Next

\* Push, the list, the poll and PollAction implement the abstract delivery, for any
\* number of actions, polls and failing calls: no action arrives twice or without
\* having been pushed, and one that was lost does not come back.
THEOREM DeliveryRefinement == Spec => ImplementsAtMostOnce
<1>1. Init => Delivery!Init
  <2> SUFFICES ASSUME Init PROVE Delivery!Init
    OBVIOUS
  <2>1. /\ push \in [Actions -> {"idle", "over"}] /\ queue = <<>> /\ answer = Nothing
        /\ delivered = [a \in Actions |-> 0]
    BY DEF Init, ActionInit
  <2>2. Underway = {}
    BY <2>1 DEF Underway
  <2>3. Unsent \subseteq DOMAIN delivered /\ delivered = [x \in DOMAIN delivered |-> 0]
    BY <2>1 DEF Unsent
  <2> QED BY <2>2, <2>3 DEF Delivery!Init
<1>2. ProxyInv /\ ProxyInv' /\ [Next]_vars => [Delivery!Next]_<<Unsent, Underway, delivered>>
  BY DeliveryStep
<1> QED BY <1>1, <1>2, ProxySafe, PTL DEF Spec, ImplementsAtMostOnce, Delivery!Spec
=============================================================================
