----------------------------- MODULE StatusPath -----------------------------
(***************************************************************************)
(* The way of a status event: a process of the runner notifies exteriord   *)
(* ("status/push"), HandleMonitor collects the events and posts them, the  *)
(* control plane handles a post event by event, keeps the last state under *)
(* a Redis key and publishes it to the browsers that hold a stream open.   *)
(*                                                                         *)
(* A state is known by its number: Redis holds the state number nset, the  *)
(* nset-th that was ever set, or none yet (0).                             *)
(***************************************************************************)
EXTENDS Naturals, Sequences

CONSTANTS
    Games,     \* what the game's processes may send: kinds of events, in order
    ChanCap,   \* capacity of msgChan (8 in the code)
    Users,     \* browsers with a stream
    MaxFaults  \* bound on failing calls

ASSUME StatusAssumption ==
    /\ Games \subseteq Seq({"status", "info", "started", "hello"})
    /\ ChanCap \in Nat \ {0} /\ MaxFaults \in Nat

VARIABLES
    game,     \* what the game's processes send
    nsent,    \* how much of Script was sent
    pushes,   \* events in goroutines of exteriord's RPC server
    msgChan,  \* the channel to HandleMonitor
    buf,      \* its buffer
    monitor,  \* HandleMonitor: "select", "posting", "done"
    cleanUp,  \* Clean Up: "runs", or "done" after its sleep
    posts,    \* posts with a handler: events to go, what it does, the state it publishes
    behind,   \* events that came after Shutdown in a post
    clean,    \* Launcher.Clean: "none", "start", what it publishes, "over"
    handled,  \* how often an event was handled
    nset,     \* number of the state under current-state
    stream,   \* what each user's handleStream does
    shown,    \* number of the state the page shows
    inbox,    \* states published to the user's subscription
    faults

\* Clean Up runs when the others are through; its last event is Shutdown.
Script == game \o <<"status", "shutdown">>
Events == DOMAIN Script
Shutdown == Len(Script)
\* DispatchEvent and not SendEvent.
Dispatched(e) == Script[e] \in {"info", "hello"}
Elems(s) == {s[i] : i \in DOMAIN s}

runnerVars == <<game, nsent, pushes, msgChan, buf, monitor, cleanUp>>
streamVars == <<stream, shown, inbox>>
planeVars == <<behind, clean, handled, nset, streamVars>>
vars == <<runnerVars, posts, planeVars, faults>>

Post == [todo : Seq(Events), at : {"sent", "next", "publish", "ok", "error"}, state : Nat]

TypeOK ==
    /\ game \in Games
    /\ nsent \in 0..Len(Script)
    /\ pushes \subseteq Events
    /\ msgChan \in Seq(Events) /\ Len(msgChan) <= ChanCap
    /\ buf \in Seq(Events)
    /\ monitor \in {"select", "posting", "done"}
    /\ cleanUp \in {"runs", "done"}
    /\ posts \in Seq(Post)
    /\ behind \subseteq Events
    /\ clean \in {"none", "start", "stopping", "work", "stopped", "over"}
    /\ handled \in [Events -> Nat]
    /\ nset \in Nat
    /\ stream \in [Users -> {"closed", "got", "open"}]
    /\ shown \in [Users -> 0..nset]
    /\ inbox \in [Users -> Seq(1..nset)]
    /\ faults \in 0..MaxFaults

Init ==
    /\ game \in Games
    /\ nsent = 0 /\ pushes = {} /\ msgChan = <<>> /\ buf = <<>>
    /\ monitor = "select" /\ cleanUp = "runs"
    /\ posts = <<>> /\ behind = {} /\ clean = "none"
    /\ handled = [e \in Events |-> 0]
    /\ nset = 0
    /\ stream = [u \in Users |-> "closed"]
    /\ shown = [u \in Users |-> 0]
    /\ inbox = [u \in Users |-> <<>>]
    /\ faults = 0

Fault == faults < MaxFaults /\ faults' = faults + 1

-----------------------------------------------------------------------------
(***************************************************************************)
(* The runner                                                              *)
(***************************************************************************)

\* SendEvent and DispatchEvent: a notification that is written is not acknowledged,
\* an error is logged.
SendEvent ==
    /\ nsent < Len(Script) /\ monitor # "done"
    /\ nsent' = nsent + 1
    /\ \/ pushes' = pushes \cup {nsent'} /\ UNCHANGED faults
       \/ Fault /\ UNCHANGED pushes
    /\ UNCHANGED <<game, msgChan, buf, monitor, cleanUp, posts, planeVars>>

\* Mutation of HandleStatusPush: the channel takes any number of events.
HandleStatusPushUnbounded(e) ==
    /\ e \in pushes
    /\ pushes' = pushes \ {e}
    /\ msgChan' = Append(msgChan, e)
    /\ UNCHANGED <<game, nsent, buf, monitor, cleanUp, posts, planeVars, faults>>

\* Each runs in a goroutine of its own, and sends when the channel has room.
HandleStatusPush(e) ==
    /\ e \in pushes /\ Len(msgChan) < ChanCap
    /\ pushes' = pushes \ {e}
    /\ msgChan' = Append(msgChan, e)
    /\ UNCHANGED <<game, nsent, buf, monitor, cleanUp, posts, planeVars, faults>>

\* client.PostStatus, up to the answer.
PostStatus(events) ==
    /\ monitor' = "posting"
    /\ posts' = Append(posts, [todo |-> events, at |-> "sent", state |-> 0])

\* Mutation of ReceiveEvent: an event to dispatch is sent alone.
ReceiveEventAlone ==
    /\ monitor = "select" /\ msgChan # <<>>
    /\ LET e == Head(msgChan) IN
       IF Dispatched(e) THEN buf' = <<e>> /\ PostStatus(<<e>>)
       ELSE buf' = Append(buf, e) /\ UNCHANGED <<monitor, posts>>
    /\ msgChan' = Tail(msgChan)
    /\ UNCHANGED <<game, nsent, pushes, cleanUp, planeVars, faults>>

\* case msg := <-s.msgChan.
ReceiveEvent ==
    /\ monitor = "select" /\ msgChan # <<>>
    /\ msgChan' = Tail(msgChan)
    /\ buf' = Append(buf, Head(msgChan))
    /\ IF Dispatched(Head(msgChan)) THEN PostStatus(buf') ELSE UNCHANGED <<monitor, posts>>
    /\ UNCHANGED <<game, nsent, pushes, cleanUp, planeVars, faults>>

\* Mutation of Tick: what is too little to send waits for more.
TickWhenMany ==
    /\ monitor = "select" /\ Len(buf) > 1
    /\ PostStatus(buf)
    /\ UNCHANGED <<game, nsent, pushes, msgChan, buf, cleanUp, planeVars, faults>>

\* case <-ticker.C.
Tick ==
    /\ monitor = "select" /\ buf # <<>>
    /\ PostStatus(buf)
    /\ UNCHANGED <<game, nsent, pushes, msgChan, buf, cleanUp, planeVars, faults>>

\* The post that HandleMonitor waits for is the last one.
Answered == SubSeq(posts, 1, Len(posts) - 1)

\* Mutation of PostReturns: events whose post failed are kept for the next one.
PostReturnsKeeping ==
    /\ monitor = "posting"
    /\ monitor' = "select"
    /\ \/ /\ posts[Len(posts)].at \in {"ok", "error"}
          /\ buf' = IF posts[Len(posts)].at = "ok" THEN <<>> ELSE buf
          /\ posts' = Answered
          /\ UNCHANGED faults
       \/ Fault /\ UNCHANGED <<buf, posts>>
    /\ UNCHANGED <<game, nsent, pushes, msgChan, cleanUp, planeVars>>

\* The answer, whatever it says, or an error of the connection, which does not stop
\* the handler: the buffer is reset.
PostReturns ==
    /\ monitor = "posting"
    /\ monitor' = "select"
    /\ buf' = <<>>
    /\ \/ posts[Len(posts)].at \in {"ok", "error"} /\ posts' = Answered /\ UNCHANGED faults
       \/ Fault /\ UNCHANGED posts
    /\ UNCHANGED <<game, nsent, pushes, msgChan, cleanUp, planeVars>>

\* Clean Up sleeps for five seconds, sends proc/done and exits.  The sleep is long
\* enough for the notification, a tick and the post, unless something is slow.
Sleep ==
    /\ cleanUp = "runs" /\ nsent = Len(Script)
    /\ cleanUp' = "done"
    /\ \/ /\ Shutdown \notin pushes \cup Elems(msgChan) \cup Elems(buf)
          /\ UNCHANGED faults
       \/ Fault
    /\ UNCHANGED <<game, nsent, pushes, msgChan, buf, monitor, posts, planeVars>>

\* proc/done cancels the context: HandleMonitor returns, a post is given up.
Cancelled ==
    /\ cleanUp = "done" /\ monitor # "done"
    /\ monitor' = "done"
    /\ UNCHANGED <<game, nsent, pushes, msgChan, buf, cleanUp, posts, planeVars, faults>>

-----------------------------------------------------------------------------
(***************************************************************************)
(* The control plane                                                       *)
(***************************************************************************)

At(i, at) == posts' = [posts EXCEPT ![i].at = at]
\* The handler goes on to the next event.
Advance(i) == posts' = [posts EXCEPT ![i].todo = Tail(@), ![i].at = "next"]

\* publishEvent of a state: Set, then Publish to those that are subscribed.
SetState == nset' = nset + 1
Publish(state) ==
    inbox' = [u \in Users |-> IF stream[u] = "open" THEN Append(inbox[u], state) ELSE inbox[u]]

\* The request arrives and its body is read, or it is lost.
BeginPost(i) ==
    /\ posts[i].at = "sent"
    /\ \/ At(i, "next") /\ UNCHANGED faults
       \/ Fault /\ At(i, "error")
    /\ UNCHANGED <<runnerVars, behind, clean, handled, nset, streamVars>>

\* All events are handled.
EndPost(i) ==
    /\ posts[i].at = "next" /\ posts[i].todo = <<>>
    /\ At(i, "ok")
    /\ UNCHANGED <<runnerVars, behind, clean, handled, nset, streamVars, faults>>

\* Shutdown: Clean is started, the rest of the post is ignored.
HandleShutdown(i, e) ==
    /\ Script[e] = "shutdown"
    /\ clean' = "start"
    /\ behind' = behind \cup Elems(Tail(posts[i].todo))
    /\ posts' = [posts EXCEPT ![i].todo = <<>>, ![i].at = "ok"]
    /\ UNCHANGED <<nset, streamVars, faults>>

\* A status event is set; if that fails it is not published, and nobody is told.
HandleStatus(i, e) ==
    /\ Script[e] = "status"
    /\ \/ /\ SetState
          /\ posts' = [posts EXCEPT ![i].at = "publish", ![i].state = nset']
          /\ UNCHANGED faults
       \/ Fault /\ Advance(i) /\ UNCHANGED nset
    /\ UNCHANGED <<behind, clean, streamVars>>

\* Info is published only, and changes no page.
HandleInfo(i, e) ==
    /\ Script[e] = "info"
    /\ Advance(i)
    /\ UNCHANGED <<behind, clean, nset, streamVars, faults>>

\* Hello and Started are stored; an error of the store ends the post.
HandleStored(i, e) ==
    /\ Script[e] \in {"hello", "started"}
    /\ \/ Advance(i) /\ UNCHANGED faults
       \/ Fault /\ At(i, "error")
    /\ UNCHANGED <<behind, clean, nset, streamVars>>

\* The loop of handlePostStatus, and HandleEvent.
HandleEvent(i) ==
    /\ posts[i].at = "next" /\ posts[i].todo # <<>>
    /\ LET e == Head(posts[i].todo) IN
       /\ handled' = [handled EXCEPT ![e] = @ + 1]
       /\ HandleShutdown(i, e) \/ HandleStatus(i, e) \/ HandleInfo(i, e) \/ HandleStored(i, e)
    /\ UNCHANGED runnerVars

\* The second half of publishEvent, whose error is only logged.
PublishStatus(i) ==
    /\ posts[i].at = "publish"
    /\ Advance(i)
    /\ \/ Publish(posts[i].state) /\ UNCHANGED faults
       \/ Fault /\ UNCHANGED inbox
    /\ UNCHANGED <<runnerVars, behind, clean, handled, nset, stream, shown>>

\* Clean publishes that the server stops and, at its end, that it is stopped; the
\* rest of it is the subject of Launcher.
CleanSets ==
    /\ clean \in {"start", "work"}
    /\ clean' = IF clean = "start" THEN "stopping" ELSE "stopped"
    /\ SetState
    /\ UNCHANGED <<runnerVars, posts, behind, handled, streamVars, faults>>

CleanPublishes ==
    /\ clean \in {"stopping", "stopped"}
    /\ clean' = IF clean = "stopping" THEN "work" ELSE "over"
    /\ Publish(nset)
    /\ UNCHANGED <<runnerVars, posts, behind, handled, nset, stream, shown, faults>>

-----------------------------------------------------------------------------
(***************************************************************************)
(* handleStream                                                            *)
(***************************************************************************)

\* Mutation of GetState: the current state is read by a client that is subscribed.
GetStateSubscribed(u) ==
    /\ \/ /\ stream[u] = "closed"
          /\ stream' = [stream EXCEPT ![u] = "open"]
          /\ UNCHANGED <<shown, inbox>>
       \/ /\ stream[u] = "open" /\ shown[u] = 0
          /\ shown' = [shown EXCEPT ![u] = nset]
          /\ UNCHANGED <<stream, inbox>>
    /\ UNCHANGED <<runnerVars, posts, behind, clean, handled, nset, faults>>

\* SubscribeEvent reads the current state, and then subscribes.
GetState(u) ==
    /\ stream[u] = "closed"
    /\ stream' = [stream EXCEPT ![u] = "got"]
    /\ shown' = [shown EXCEPT ![u] = nset]
    /\ UNCHANGED <<runnerVars, posts, behind, clean, handled, nset, inbox, faults>>

Subscribe(u) ==
    /\ stream[u] = "got"
    /\ stream' = [stream EXCEPT ![u] = "open"]
    /\ UNCHANGED <<runnerVars, posts, behind, clean, handled, nset, shown, inbox, faults>>

\* case status := <-eventChannel.
WriteEvent(u) ==
    /\ stream[u] = "open" /\ inbox[u] # <<>>
    /\ shown' = [shown EXCEPT ![u] = Head(inbox[u])]
    /\ inbox' = [inbox EXCEPT ![u] = Tail(@)]
    /\ UNCHANGED <<runnerVars, posts, behind, clean, handled, nset, stream, faults>>

\* The request ends: the browser leaves, or only wanted the current state as JSON.
CloseStream(u) ==
    /\ stream[u] = "open"
    /\ stream' = [stream EXCEPT ![u] = "closed"]
    /\ shown' = [shown EXCEPT ![u] = 0]
    /\ inbox' = [inbox EXCEPT ![u] = <<>>]
    /\ UNCHANGED <<runnerVars, posts, behind, clean, handled, nset, faults>>

-----------------------------------------------------------------------------

MonitorStep == ReceiveEvent \/ Tick \/ PostReturns \/ Cancelled
PostStep(i) == BeginPost(i) \/ EndPost(i) \/ HandleEvent(i) \/ PublishStatus(i)
StreamStep(u) == GetState(u) \/ Subscribe(u) \/ WriteEvent(u) \/ CloseStream(u)

Next ==
    \/ SendEvent \/ Sleep \/ MonitorStep \/ CleanSets \/ CleanPublishes
    \/ \E e \in Events : HandleStatusPush(e)
    \/ \E i \in DOMAIN posts : PostStep(i)
    \/ \E u \in Users : StreamStep(u)

Spec == Init /\ [][Next]_vars

\* The goroutines of exteriord run on; so does the handler of a post.
FairSpec ==
    /\ Spec
    /\ WF_vars(MonitorStep)
    /\ WF_vars(\E e \in Events : HandleStatusPush(e))
    /\ WF_vars(\E i \in DOMAIN posts : PostStep(i))

-----------------------------------------------------------------------------

\* Events that the handler of a post has yet to look at.
Todo(p) ==
    IF p.at \in {"sent", "next"} THEN p.todo
    ELSE IF p.at = "publish" THEN Tail(p.todo) ELSE <<>>

\* What is in the buffer while a post is under way was posted.
Waiting == IF monitor = "select" THEN Elems(buf) ELSE {}

\* Events that nobody has sent yet; those with exteriord and with the handlers of posts.
Unsent == (nsent + 1)..Len(Script)
Underway ==
    UNION ({pushes, Elems(msgChan), Waiting} \cup {Elems(Todo(posts[i])) : i \in DOMAIN posts})

Delivery == INSTANCE AtMostOnce WITH unsent <- Unsent, underway <- Underway, arrived <- handled

\* The notification, the buffer and the posts together bring an event to HandleEvent at
\* most once, even if its post was handled and the answer was lost: Clean runs once,
\* the page sees no state again, and what a failed call has lost stays lost.
ImplementsAtMostOnce == Delivery!Spec

\* Unless a call fails no event is lost on the way, in whichever order the handlers
\* of the notifications run: it can be dropped only behind a Shutdown it let
\* overtake it, or because exteriord is over.
EventsAccounted ==
    faults = 0 => \A e \in 1..nsent :
        \/ handled[e] = 1 \/ monitor = "done"
        \/ e \in pushes \cup Elems(msgChan) \cup Elems(buf)
        \/ e \in behind /\ clean # "none"

\* While the posts of one runner are all that is published, a page never goes back
\* to an older state: the posts do not overlap, a state is set before it is
\* published, and the current state is read before the subscription begins.
StreamNeverGoesBack ==
    [][\A u \in Users :
          faults = 0 /\ clean = "none" /\ stream'[u] # "closed" => shown'[u] >= shown[u]]_vars

\* A Shutdown that was sent makes the control plane clean up, unless a call fails.
ShutdownStartsClean == nsent = Len(Script) /\ faults = 0 ~> clean # "none" \/ faults > 0
=============================================================================
