----------------------------- MODULE ActionPath -----------------------------
(***************************************************************************)
(* The way of an action from the control plane to the runner: Push lists   *)
(* it in Redis and publishes a notification, the runner polls, the handler *)
(* of the poll waits for a notification and takes an action off the list,  *)
(* and PollAction hands it to its mapper.  There is one list, of the       *)
(* runner "default", and one runner that polls it.                         *)
(***************************************************************************)
EXTENDS Integers, Sequences

CONSTANTS
    WebActions, \* actions that users of the web API ask for
    ConnReqs,   \* connection requests of the proxy, one for each player
    Scenes,     \* sets of actions: one of them is asked for, the others are not
    MaxFaults   \* bound on calls that fail and polls that time out

Actions == WebActions \cup ConnReqs

ASSUME ActionAssumption ==
    /\ WebActions \cap ConnReqs = {}
    /\ Scenes \subseteq SUBSET Actions
    /\ MaxFaults \in Nat

Nothing == "nothing"

VARIABLES
    push,       \* each action's Push: "idle", "listed", "over"
    queue,      \* the list
    poll,       \* the poll's handler: "none", "begin", "wait", "answer"
    subscribed, \* its SUBSCRIBE has reached Redis
    notes,      \* notifications in its channel
    answer,     \* the action it answers with
    runner,     \* PollAction: "poll", or "sleep" after an error
    delivered,  \* how often each action was given to a mapper
    faults

actionVars == <<push, queue, poll, subscribed, notes, answer, runner, delivered>>
pollVars == <<poll, subscribed, notes, answer, runner, delivered>>

ActionTypeOK ==
    /\ push \in [Actions -> {"idle", "listed", "over"}]
    /\ queue \in Seq(Actions)
    /\ poll \in {"none", "begin", "wait", "answer"}
    /\ subscribed \in BOOLEAN
    /\ notes \in Nat
    /\ answer \in Actions \cup {Nothing}
    /\ runner \in {"poll", "sleep"}
    /\ delivered \in [Actions -> Nat]
    /\ faults \in 0..MaxFaults

ActionInit(scene) ==
    /\ push = [a \in Actions |-> IF a \in scene THEN "idle" ELSE "over"]
    /\ queue = <<>>
    /\ poll = "none" /\ subscribed = FALSE /\ notes = 0 /\ answer = Nothing
    /\ runner = "poll" /\ delivered = [a \in Actions |-> 0]
    /\ faults = 0

Fault == faults < MaxFaults /\ faults' = faults + 1

-----------------------------------------------------------------------------
(***************************************************************************)
(* Push                                                                    *)
(***************************************************************************)

\* Mutation of RPush: it is tried again when its answer is lost.
RPushAgain(a) ==
    /\ push[a] = "idle"
    /\ queue' = Append(queue, a)
    /\ \/ push' = [push EXCEPT ![a] = "listed"] /\ UNCHANGED faults
       \/ Fault /\ UNCHANGED push
    /\ UNCHANGED pollVars

\* RPush; when it fails the action is not pushed at all.
RPush(a) ==
    /\ push[a] = "idle"
    /\ \/ /\ queue' = Append(queue, a)
          /\ push' = [push EXCEPT ![a] = "listed"]
          /\ UNCHANGED faults
       \/ /\ Fault
          /\ push' = [push EXCEPT ![a] = "over"]
          /\ UNCHANGED queue
    /\ UNCHANGED pollVars

\* Mutation of PublishNotify: only the first action of the list is announced.
PublishNotifyIfAlone(a) ==
    /\ push[a] = "listed"
    /\ push' = [push EXCEPT ![a] = "over"]
    /\ notes' = IF subscribed /\ Len(queue) = 1 THEN notes + 1 ELSE notes
    /\ UNCHANGED <<queue, poll, subscribed, answer, runner, delivered, faults>>

\* Publish reaches the poll that is subscribed at this time, if any; when it fails
\* the action stays listed.
PublishNotify(a) ==
    /\ push[a] = "listed"
    /\ push' = [push EXCEPT ![a] = "over"]
    /\ \/ notes' = (IF subscribed THEN notes + 1 ELSE notes) /\ UNCHANGED faults
       \/ Fault /\ UNCHANGED notes
    /\ UNCHANGED <<queue, poll, subscribed, answer, runner, delivered>>

-----------------------------------------------------------------------------
(***************************************************************************)
(* handleRunnerPoll and Wait                                               *)
(***************************************************************************)

\* The request arrives and Subscribe is called, which does not wait for Redis.
BeginPoll ==
    /\ poll = "none" /\ runner = "poll"
    /\ poll' = "begin"
    /\ UNCHANGED <<push, queue, subscribed, notes, answer, runner, delivered, faults>>

SubscribeArrives ==
    /\ poll \in {"begin", "wait"} /\ ~subscribed
    /\ subscribed' = TRUE
    /\ UNCHANGED <<push, queue, poll, notes, answer, runner, delivered, faults>>

Popped == IF queue = <<>> THEN queue ELSE Tail(queue)
Pop == IF queue = <<>> THEN Nothing ELSE Head(queue)

\* The first getAction: the action it takes off the list is not used.  Its error
\* ends the poll with an empty answer.
FirstPop ==
    /\ poll = "begin"
    /\ \/ poll' = "wait" /\ queue' = Popped /\ UNCHANGED faults
       \/ Fault /\ poll' = "answer" /\ UNCHANGED queue
    /\ UNCHANGED <<push, subscribed, notes, answer, runner, delivered>>

\* Mutation of PopNotified: the handler does not wait for the notification.
PopUnnotified ==
    /\ poll = "wait"
    /\ poll' = "answer" /\ answer' = Pop /\ queue' = Popped
    /\ notes' = notes - 1
    /\ UNCHANGED <<push, subscribed, runner, delivered, faults>>

\* case <-c: the answer is empty if the action was taken off before, or on an error.
PopNotified ==
    /\ poll = "wait" /\ notes > 0
    /\ poll' = "answer"
    /\ notes' = notes - 1
    /\ \/ answer' = Pop /\ queue' = Popped /\ UNCHANGED faults
       \/ Fault /\ UNCHANGED <<answer, queue>>
    /\ UNCHANGED <<push, subscribed, runner, delivered>>

\* The subscription is closed when Wait returns.
EndPoll ==
    /\ poll' = "none" /\ subscribed' = FALSE /\ notes' = 0 /\ answer' = Nothing

\* case <-ctx.Done() after 30 seconds: status 204, which carries no body, so that the
\* runner cannot read ErrAgain from it and takes it for a failure.
PollTimeout ==
    /\ poll = "wait"
    /\ Fault
    /\ EndPoll
    /\ runner' = "sleep"
    /\ UNCHANGED <<push, queue, delivered>>

-----------------------------------------------------------------------------
(***************************************************************************)
(* PollAction                                                              *)
(***************************************************************************)

\* The answer arrives, and its action is given to a goroutine of its own.  One that
\* is empty or lost is an error.
ReceiveAction ==
    /\ poll = "answer"
    /\ EndPoll
    /\ \/ /\ answer # Nothing
          /\ delivered' = [delivered EXCEPT ![answer] = @ + 1]
          /\ UNCHANGED <<runner, faults>>
       \/ /\ answer = Nothing
          /\ runner' = "sleep"
          /\ UNCHANGED <<delivered, faults>>
       \/ /\ Fault
          /\ runner' = "sleep"
          /\ UNCHANGED delivered
    /\ UNCHANGED <<push, queue>>

\* time.Sleep is over.
PollAgain ==
    /\ runner = "sleep"
    /\ runner' = "poll"
    /\ UNCHANGED <<push, queue, poll, subscribed, notes, answer, delivered, faults>>

PollStep ==
    \/ BeginPoll \/ SubscribeArrives \/ FirstPop \/ PopNotified \/ PollTimeout
    \/ ReceiveAction \/ PollAgain

-----------------------------------------------------------------------------

\* An action that comes first in the list while the runner waits for it reaches the
\* runner, unless a call fails or the poll times out: its notification is yet to
\* come, and finds the subscription.
WaitingPollGetsAction ==
    \A a \in Actions :
        (/\ poll = "wait" /\ subscribed /\ faults = MaxFaults
         /\ queue # <<>> /\ a = Head(queue) /\ push[a] = "listed")
            ~> delivered[a] > 0
=============================================================================
