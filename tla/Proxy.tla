------------------------------- MODULE Proxy -------------------------------
(***************************************************************************)
(* The way of a player's connection: the proxy of the control plane asks   *)
(* the runner for a connection (an action of ActionPath), the connector of *)
(* the runner dials the proxy and the game server, and the proxy joins the *)
(* two connections that carry the same id.                                 *)
(*                                                                         *)
(* The goroutine of a connector's connection looks its id up in the pool   *)
(* and sends on an unbuffered channel while it holds the mutex p.m.        *)
(***************************************************************************)
EXTENDS ActionPath

Players == ConnReqs

VARIABLES
    handle,    \* handleConn of each player's connection
    pool,      \* ids in p.pool
    holder,    \* who holds p.m while it sends: a player's id, or Nothing
    incoming,  \* the goroutine of a connector's connection
    acquired,  \* connections of connectors with acquired set
    connector, \* Proxy.Run of the connector
    player,    \* the player's socket
    link,      \* the socket between connector and proxy
    game       \* the socket between connector and game server

sockets == <<player, link, game>>
proxyVars == <<handle, pool, holder, incoming, acquired, connector, sockets>>
vars == <<actionVars, faults, proxyVars>>

Pooled == {"push", "notify", "wait", "taken", "delete", "unpool"}

TypeOK ==
    /\ ActionTypeOK
    /\ handle \in [Players -> {"handshake", "copy", "over"} \cup Pooled]
    /\ pool \subseteq Players
    /\ holder \in Players \cup {Nothing}
    /\ incoming \in [Players -> {"none", "lookup", "send", "sleep", "over"}]
    /\ acquired \subseteq Players
    /\ connector \in [Players -> {"none", "dialGame", "copy", "over"}]
    /\ player \in [Players -> {"open", "closed"}]
    /\ link \in [Players -> {"none", "open", "closed"}]
    /\ game \in [Players -> {"none", "open", "closed"}]

Init ==
    /\ \E scene \in Scenes :
          /\ ActionInit(scene)
          /\ handle = [p \in Players |-> IF p \in scene THEN "handshake" ELSE "over"]
          /\ player = [p \in Players |-> IF p \in scene THEN "open" ELSE "closed"]
    /\ pool = {} /\ holder = Nothing
    /\ incoming = [p \in Players |-> "none"]
    /\ acquired = {}
    /\ connector = [p \in Players |-> "none"]
    /\ link = [p \in Players |-> "none"]
    /\ game = [p \in Players |-> "none"]

HandleGoTo(p, to) == handle' = [handle EXCEPT ![p] = to]
\* p.m.Lock, what it protects, and p.m.Unlock in one step.
Unlocked == holder = Nothing

-----------------------------------------------------------------------------
(***************************************************************************)
(* handleConn                                                              *)
(***************************************************************************)

\* The handshake names another domain, or no server runs, or it cannot be read: one
\* who asks for the status gets that of handleDummyServer, and the socket is closed.
HandleDummyServer(p) ==
    /\ handle[p] = "handshake"
    /\ HandleGoTo(p, "over")
    /\ player' = [player EXCEPT ![p] = "closed"]
    /\ UNCHANGED <<actionVars, faults, pool, holder, incoming, acquired, connector, link, game>>

\* It names the game's domain and the server runs: a new channel is put in the pool.
Register(p) ==
    /\ handle[p] = "handshake" /\ Unlocked
    /\ pool' = pool \cup {p}
    /\ HandleGoTo(p, "push")
    /\ UNCHANGED <<actionVars, faults, holder, incoming, acquired, connector, sockets>>

\* action.Push, whose error is ignored.
PushConnReq(p) ==
    /\ \/ handle[p] = "push" /\ RPush(p)
       \/ handle[p] = "notify" /\ PublishNotify(p)
    /\ HandleGoTo(p, IF push'[p] = "listed" THEN "notify" ELSE "wait")
    /\ UNCHANGED <<pool, holder, incoming, acquired, connector, sockets>>

\* case c := <-ch: the sender goes on and unlocks.
Receive(p) ==
    /\ handle[p] = "wait" /\ incoming[p] = "send"
    /\ HandleGoTo(p, "taken")
    /\ incoming' = [incoming EXCEPT ![p] = "sleep"]
    /\ holder' = Nothing
    /\ UNCHANGED <<actionVars, faults, pool, acquired, connector, sockets>>

\* c.acquired = true, in no order with CloseUnacquired but that of time.
MarkAcquired(p) ==
    /\ handle[p] = "taken"
    /\ HandleGoTo(p, "delete")
    /\ acquired' = acquired \cup {p}
    /\ UNCHANGED <<actionVars, faults, pool, holder, incoming, connector, sockets>>

\* Mutation of WaitTimeout: the id is left in the pool.
WaitTimeoutPooled(p) ==
    /\ handle[p] = "wait"
    /\ HandleGoTo(p, "over")
    /\ UNCHANGED <<actionVars, faults, pool, holder, incoming, acquired, connector, sockets>>

\* case <-timer.C: one who only asks for the status gets one from the proxy, which
\* ends within the deadline of the socket.
WaitTimeout(p) ==
    /\ handle[p] = "wait"
    /\ HandleGoTo(p, "unpool")
    /\ UNCHANGED <<actionVars, faults, pool, holder, incoming, acquired, connector, sockets>>

\* deleteFromPool, before the connections are joined and, deferred, at the end: then
\* the player's socket is closed.
DeleteFromPool(p) ==
    /\ handle[p] \in {"delete", "unpool"} /\ Unlocked
    /\ pool' = pool \ {p}
    /\ IF handle[p] = "delete"
       THEN HandleGoTo(p, "copy") /\ UNCHANGED player
       ELSE HandleGoTo(p, "over") /\ player' = [player EXCEPT ![p] = "closed"]
    /\ UNCHANGED <<actionVars, faults, holder, incoming, acquired, connector, link, game>>

\* Mutation of CopyEnds: each direction closes the socket that it writes to.
CopyEndsHalf(p) ==
    /\ handle[p] = "copy" /\ link[p] = "closed"
    /\ player' = [player EXCEPT ![p] = "closed"]
    /\ HandleGoTo(p, "unpool")
    /\ UNCHANGED <<actionVars, faults, pool, holder, incoming, acquired, connector, link, game>>

\* One of the copies ends, and closes both sockets.
CopyEnds(p) ==
    /\ handle[p] = "copy" /\ (player[p] = "closed" \/ link[p] = "closed")
    /\ player' = [player EXCEPT ![p] = "closed"]
    /\ link' = [link EXCEPT ![p] = "closed"]
    /\ HandleGoTo(p, "unpool")
    /\ UNCHANGED <<actionVars, faults, pool, holder, incoming, acquired, connector, game>>

-----------------------------------------------------------------------------
(***************************************************************************)
(* startConnectorChannel                                                   *)
(***************************************************************************)

LookUp(p) ==
    /\ incoming[p] = "lookup" /\ Unlocked
    /\ incoming' = [incoming EXCEPT ![p] = IF p \in pool THEN "send" ELSE "sleep"]
    /\ holder' = IF p \in pool THEN p ELSE Nothing
    /\ UNCHANGED <<actionVars, faults, handle, pool, acquired, connector, sockets>>

\* After 30 seconds, whatever handleConn has come to since.
CloseUnacquired(p) ==
    /\ incoming[p] = "sleep"
    /\ incoming' = [incoming EXCEPT ![p] = "over"]
    /\ link' = IF p \in acquired THEN link ELSE [link EXCEPT ![p] = "closed"]
    /\ UNCHANGED <<actionVars, faults, handle, pool, holder, acquired, connector, player, game>>

-----------------------------------------------------------------------------
(***************************************************************************)
(* The connector                                                           *)
(***************************************************************************)

\* HandleActionConnRequest notifies proxy/open and HandleProxyOpen starts Proxy.Run:
\* tls.Dial, and the id is written, which the proxy reads.
DialProxy(p) ==
    /\ connector[p] = "none" /\ delivered[p] > 0
    /\ \/ /\ connector' = [connector EXCEPT ![p] = "dialGame"]
          /\ link' = [link EXCEPT ![p] = "open"]
          /\ incoming' = [incoming EXCEPT ![p] = "lookup"]
          /\ UNCHANGED faults
       \/ /\ Fault
          /\ connector' = [connector EXCEPT ![p] = "over"]
          /\ UNCHANGED <<link, incoming>>
    /\ UNCHANGED <<actionVars, handle, pool, holder, acquired, player, game>>

DialGame(p) ==
    /\ connector[p] = "dialGame"
    /\ \/ /\ connector' = [connector EXCEPT ![p] = "copy"]
          /\ game' = [game EXCEPT ![p] = "open"]
          /\ UNCHANGED <<link, faults>>
       \/ /\ Fault
          /\ connector' = [connector EXCEPT ![p] = "over"]
          /\ link' = [link EXCEPT ![p] = "closed"]
          /\ UNCHANGED game
    /\ UNCHANGED <<actionVars, handle, pool, holder, incoming, acquired, player>>

\* One of the two copyWithMeter ends, and both sockets are closed.
ConnectorCopyEnds(p) ==
    /\ connector[p] = "copy" /\ (link[p] = "closed" \/ game[p] = "closed")
    /\ connector' = [connector EXCEPT ![p] = "over"]
    /\ link' = [link EXCEPT ![p] = "closed"]
    /\ game' = [game EXCEPT ![p] = "closed"]
    /\ UNCHANGED <<actionVars, faults, handle, pool, holder, incoming, acquired, player>>

\* The player leaves, or the game server closes the connection.  A player who leaves
\* earlier is noticed by the copies only.
PeerCloses(p) ==
    /\ \/ /\ handle[p] = "copy" /\ player[p] = "open"
          /\ player' = [player EXCEPT ![p] = "closed"]
          /\ UNCHANGED game
       \/ /\ game[p] = "open"
          /\ game' = [game EXCEPT ![p] = "closed"]
          /\ UNCHANGED player
    /\ UNCHANGED <<actionVars, faults, handle, pool, holder, incoming, acquired, connector, link>>

-----------------------------------------------------------------------------

\* handleApiStop, handleApiQuickUndoSnapshot and handleApiQuickUndoUndo; their
\* mappers notify the launcher, which is the subject of GameLauncher.
PushWebAction(a) == (RPush(a) \/ PublishNotify(a)) /\ UNCHANGED proxyVars

HandleConnStep(p) ==
    \/ HandleDummyServer(p) \/ Register(p) \/ PushConnReq(p) \/ Receive(p) \/ MarkAcquired(p)
    \/ WaitTimeout(p) \/ DeleteFromPool(p) \/ CopyEnds(p)
ChannelStep(p) == LookUp(p) \/ CloseUnacquired(p)
ConnectorStep(p) == DialProxy(p) \/ DialGame(p) \/ ConnectorCopyEnds(p)

Next ==
    \/ PollStep /\ UNCHANGED proxyVars
    \/ \E a \in WebActions : PushWebAction(a)
    \/ \E p \in Players :
          HandleConnStep(p) \/ ChannelStep(p) \/ ConnectorStep(p) \/ PeerCloses(p)

Spec == Init /\ [][Next]_vars

\* The goroutines of the proxy, the runner and the connector run on, and a user's
\* request is handled to its end.
FairSpec ==
    /\ Spec
    /\ WF_vars(PollStep /\ UNCHANGED proxyVars)
    /\ \A a \in WebActions : WF_vars(PublishNotify(a) /\ UNCHANGED proxyVars)
    /\ \A p \in Players :
          WF_vars(HandleConnStep(p)) /\ WF_vars(ChannelStep(p)) /\ WF_vars(ConnectorStep(p))

-----------------------------------------------------------------------------

\* Actions that Push was not called for yet; those in the list and in the answer to a
\* poll.
Unsent == {a \in Actions : push[a] = "idle"}
Underway == ({queue[i] : i \in DOMAIN queue} \cup {answer}) \ {Nothing}

Delivery == INSTANCE AtMostOnce WITH unsent <- Unsent, underway <- Underway, arrived <- delivered

\* Push, the list, the poll and PollAction together deliver an action at most once, and
\* only one that was pushed: what a failed call, an unused first getAction or a lost
\* answer has lost stays lost, however often the runner polls again.
ImplementsAtMostOnce == Delivery!Spec

\* An id is in the pool only while its handleConn has it: what times out or fails
\* leaves nothing behind.
PoolHasNoLeftovers == \A p \in pool : handle[p] \in Pooled

\* When one end of a joined connection closes so does the other, through both copies.
CloseReachesBothEnds ==
    \A p \in Players :
        (handle[p] = "copy" /\ (player[p] = "closed" \/ game[p] = "closed"))
            ~> player[p] = "closed" /\ link[p] = "closed" /\ game[p] # "open"

-----------------------------------------------------------------------------

\* proxy.go:123: "If the connection is not handled within 30 seconds, close the it to
\* avoid connection leak."
UnhandledLinkIsClosed ==
    \A p \in Players :
        incoming[p] # "none" ~> p \in acquired \/ link[p] = "closed"
=============================================================================
