----------------------------- MODULE Exteriord -----------------------------
(***************************************************************************)
(* exteriord, the supervisor of the runner: the scheduler starts a process *)
(* for each task of a dependency graph, proc.Start restarts those that     *)
(* fail, and the last task, Clean Up, makes exteriord tell the services to *)
(* stop ("proc/done" runs the stop hooks) and cancel its own context.      *)
(*                                                                         *)
(* Notifications are one-way: the sender goes on once the bytes are        *)
(* written, and the receiver handles each in a goroutine of its own.       *)
(***************************************************************************)
EXTENDS Naturals, FiniteSets, Sequences

CONSTANTS
    Tasks,            \* the registered tasks
    Deps,             \* what each task depends on
    RestartOnFailure, \* tasks whose process is started again when it fails
    Services,         \* tasks whose process runs until it is told to stop
    Hooked,           \* services that register a stop hook (Meter does not)
    BindFirst,        \* hooked services that bind base/stop before they register
    CleanUp,          \* the task that sends proc/done
    MaxFailures       \* bound on the processes that fail

ASSUME ExteriordAssumption ==
    /\ IsFiniteSet(Tasks)
    /\ Deps \in [Tasks -> SUBSET Tasks]
    /\ RestartOnFailure \subseteq Tasks
    /\ Services \subseteq Tasks /\ Hooked \subseteq Services /\ BindFirst \subseteq Hooked
    /\ CleanUp \in Tasks \ Services
    /\ MaxFailures \in Nat

VARIABLES
    run,        \* Scheduler.Run: in its "loop" or "returned"
    started,    \* tasks with started = true
    completed,  \* s.competedTasks
    count,      \* completedTasks
    proc,       \* the goroutine of each task, in proc.Start and after it
    bound,      \* services whose process has bound base/stop
    hookSent,   \* services whose process has sent proc/registerStopHook
    hookMsgs,   \* registrations that exteriord has yet to handle
    stopHook,   \* RPCHandler.stopHook
    done,       \* HandleProcDone: "idle", "sent", "calling" (holds m), "cancelled"
    toCall,     \* hooks HandleProcDone has yet to call
    stopMsgs,   \* services with a base/stop in flight
    failures    \* processes that have failed so far

schedVars == <<run, started, completed, count>>
hookVars == <<hookMsgs, stopHook, done, toCall>>
vars == <<schedVars, proc, bound, hookSent, hookVars, stopMsgs, failures>>

ProcState == {"none", "up", "delay", "notify", "over"}

TypeOK ==
    /\ run \in {"loop", "returned"}
    /\ started \subseteq Tasks
    /\ completed \subseteq Tasks
    /\ count \in Nat
    /\ proc \in [Tasks -> ProcState]
    /\ bound \subseteq Hooked
    /\ hookSent \subseteq Hooked
    /\ hookMsgs \in [Hooked -> Nat]
    /\ stopHook \in Seq(Hooked)
    /\ done \in {"idle", "sent", "calling", "cancelled"}
    /\ toCall \in Seq(Hooked)
    /\ stopMsgs \subseteq Hooked
    /\ failures \in 0..MaxFailures

Init ==
    /\ run = "loop"
    /\ started = {}
    /\ completed = {}
    /\ count = 0
    /\ proc = [t \in Tasks |-> "none"]
    /\ bound = {}
    /\ hookSent = {}
    /\ hookMsgs = [t \in Hooked |-> 0]
    /\ stopHook = <<>>
    /\ done = "idle"
    /\ toCall = <<>>
    /\ stopMsgs = {}
    /\ failures = 0

-----------------------------------------------------------------------------
(***************************************************************************)
(* Scheduler.Run                                                           *)
(***************************************************************************)

\* No dependency of t is uncompleted, and t was not started.
Ready(t) == t \notin started /\ Deps[t] \subseteq completed

\* Mutation of Start: a task is ready as soon as what it depends on was started.
StartEarly(t) ==
    /\ run = "loop" /\ t \notin started /\ Deps[t] \subseteq started
    /\ started' = started \cup {t}
    /\ proc' = [proc EXCEPT ![t] = "up"]
    /\ UNCHANGED <<run, completed, count, bound, hookSent, hookVars, stopMsgs, failures>>

\* Mutation of Start: the tasks are looked at once, before the first completion.
StartRoots(t) ==
    /\ run = "loop" /\ Ready(t) /\ completed = {}
    /\ started' = started \cup {t}
    /\ proc' = [proc EXCEPT ![t] = "up"]
    /\ UNCHANGED <<run, completed, count, bound, hookSent, hookVars, stopMsgs, failures>>

\* The pass over s.tasks starts the ready ones, in the order in which the map yields
\* them.  Completions are received between the passes, so a task that is not ready
\* when it is visited is not ready in this pass at all.
Start(t) ==
    /\ run = "loop" /\ Ready(t)
    /\ started' = started \cup {t}
    /\ proc' = [proc EXCEPT ![t] = "up"]
    /\ UNCHANGED <<run, completed, count, bound, hookSent, hookVars, stopMsgs, failures>>

\* Mutation of Complete: Run returns with a task to go.
CompleteEarly(t) ==
    /\ run = "loop" /\ \A u \in Tasks : ~Ready(u)
    /\ proc[t] = "notify"
    /\ proc' = [proc EXCEPT ![t] = "over"]
    /\ completed' = completed \cup {t}
    /\ count' = count + 1
    /\ run' = IF count' + 1 >= Cardinality(Tasks) THEN "returned" ELSE "loop"
    /\ UNCHANGED <<started, bound, hookSent, hookVars, stopMsgs, failures>>

\* After the pass, taskID := <-notifyComplete.  The channel is unbuffered: the
\* goroutine that sends ends with the step that receives.
Complete(t) ==
    /\ run = "loop" /\ \A u \in Tasks : ~Ready(u)
    /\ proc[t] = "notify"
    /\ proc' = [proc EXCEPT ![t] = "over"]
    /\ completed' = completed \cup {t}
    /\ count' = count + 1
    /\ run' = IF count' = Cardinality(Tasks) THEN "returned" ELSE "loop"
    /\ UNCHANGED <<started, bound, hookSent, hookVars, stopMsgs, failures>>

-----------------------------------------------------------------------------
(***************************************************************************)
(* proc.Start and the processes                                            *)
(***************************************************************************)

\* Mutation of ProcExit: every process sends proc/done at its end.
ProcExitDone(t) ==
    /\ proc[t] = "up" /\ t \notin Services
    /\ proc' = [proc EXCEPT ![t] = "notify"]
    /\ done' = IF done = "idle" THEN "sent" ELSE done
    /\ UNCHANGED <<schedVars, bound, hookSent, hookMsgs, stopHook, toCall, stopMsgs, failures>>

\* A task's process exits with status 0.  Clean Up sends proc/done at its end.
ProcExit(t) ==
    /\ proc[t] = "up" /\ t \notin Services
    /\ proc' = [proc EXCEPT ![t] = "notify"]
    /\ done' = IF t = CleanUp THEN "sent" ELSE done
    /\ UNCHANGED <<schedVars, bound, hookSent, hookMsgs, stopHook, toCall, stopMsgs, failures>>

\* The process cannot be started, is killed or exits with another status.  What
\* was sent to it is lost; what it sent is not.
ProcFail(t) ==
    /\ proc[t] = "up" /\ failures < MaxFailures
    /\ failures' = failures + 1
    /\ proc' = [proc EXCEPT ![t] = IF t \in RestartOnFailure THEN "delay" ELSE "notify"]
    /\ bound' = bound \ {t}
    /\ hookSent' = hookSent \ {t}
    /\ stopMsgs' = stopMsgs \ {t}
    /\ UNCHANGED <<schedVars, hookVars>>

\* waitRestartDelay is over.
ProcRestart(t) ==
    /\ proc[t] = "delay"
    /\ proc' = [proc EXCEPT ![t] = "up"]
    /\ UNCHANGED <<schedVars, bound, hookSent, hookVars, stopMsgs, failures>>

\* A service binds base/stop: Connector before it registers its hook, Snapshot
\* Service after.
BindStop(t) ==
    /\ proc[t] = "up" /\ t \in Hooked \ bound
    /\ t \in BindFirst \cup hookSent
    /\ bound' = bound \cup {t}
    /\ UNCHANGED <<schedVars, proc, hookSent, hookVars, stopMsgs, failures>>

SendHook(t) ==
    /\ proc[t] = "up" /\ t \in Hooked \ hookSent
    /\ t \in BindFirst => t \in bound
    /\ hookSent' = hookSent \cup {t}
    /\ hookMsgs' = [hookMsgs EXCEPT ![t] = @ + 1]
    /\ UNCHANGED <<schedVars, proc, bound, stopHook, done, toCall, stopMsgs, failures>>

\* The service handles base/stop and exits with status 0; a call that comes before
\* the method is bound is dropped.
HandleBaseStop(t) ==
    /\ t \in stopMsgs
    /\ stopMsgs' = stopMsgs \ {t}
    /\ IF t \in bound
       THEN /\ proc' = [proc EXCEPT ![t] = "notify"]
            /\ bound' = bound \ {t}
            /\ hookSent' = hookSent \ {t}
       ELSE UNCHANGED <<proc, bound, hookSent>>
    /\ UNCHANGED <<schedVars, hookVars, failures>>

-----------------------------------------------------------------------------
(***************************************************************************)
(* The stop hooks                                                          *)
(***************************************************************************)

\* HandleProcRegisterStopHook, under the mutex that HandleProcDone holds.
RegisterStopHook(t) ==
    /\ hookMsgs[t] > 0 /\ done # "calling"
    /\ hookMsgs' = [hookMsgs EXCEPT ![t] = @ - 1]
    /\ stopHook' = Append(stopHook, t)
    /\ UNCHANGED <<schedVars, proc, bound, hookSent, done, toCall, stopMsgs, failures>>

\* Mutation of HandleProcDone: the process that asks for the end is told to stop as well.
HandleProcDoneSelf ==
    /\ done = "sent"
    /\ done' = "calling"
    /\ toCall' = Append(stopHook, CleanUp)
    /\ UNCHANGED <<schedVars, proc, bound, hookSent, hookMsgs, stopHook, stopMsgs, failures>>

HandleProcDone ==
    /\ done = "sent"
    /\ done' = "calling"
    /\ toCall' = stopHook
    /\ UNCHANGED <<schedVars, proc, bound, hookSent, hookMsgs, stopHook, stopMsgs, failures>>

\* Mutation of CallHook: the loop ends at the first call that fails.
CallHookOrGiveUp ==
    /\ done = "calling"
    /\ LET t == Head(toCall) IN
       IF toCall # <<>> /\ proc[t] = "up"
       THEN /\ toCall' = Tail(toCall)
            /\ stopMsgs' = stopMsgs \cup {t}
            /\ UNCHANGED done
       ELSE /\ done' = "cancelled"
            /\ toCall' = <<>>
            /\ UNCHANGED stopMsgs
    /\ UNCHANGED <<schedVars, proc, bound, hookSent, hookMsgs, stopHook, failures>>

\* Notify("base/stop") of the next hook, whose error (nothing listens on the
\* socket) is logged; after the last one cancelFn.
CallHook ==
    /\ done = "calling"
    /\ IF toCall = <<>>
       THEN /\ done' = "cancelled"
            /\ UNCHANGED <<toCall, stopMsgs>>
       ELSE /\ toCall' = Tail(toCall)
            /\ stopMsgs' = IF proc[Head(toCall)] = "up" THEN stopMsgs \cup {Head(toCall)}
                           ELSE stopMsgs
            /\ UNCHANGED done
    /\ UNCHANGED <<schedVars, proc, bound, hookSent, hookMsgs, stopHook, failures>>

-----------------------------------------------------------------------------

SchedulerStep == \E t \in Tasks : Start(t) \/ Complete(t)
ProcStep(t) == ProcExit(t) \/ ProcFail(t) \/ ProcRestart(t)
ServiceStep(t) ==
    BindStop(t) \/ SendHook(t) \/ HandleBaseStop(t) \/ RegisterStopHook(t)
DoneStep == HandleProcDone \/ CallHook

Next ==
    \/ SchedulerStep
    \/ \E t \in Tasks : ProcStep(t)
    \/ \E t \in Hooked : ServiceStep(t)
    \/ DoneStep

Spec == Init /\ [][Next]_vars

\* The goroutines of exteriord keep running; a delivered base/stop is handled.
\* Nothing makes a process end by itself.
FairSpec ==
    /\ Spec
    /\ WF_vars(SchedulerStep) /\ WF_vars(DoneStep)
    /\ \A t \in Hooked : WF_vars(HandleBaseStop(t))

-----------------------------------------------------------------------------

\* What the abstract scheduler sees of a task.  A process that waits for its
\* restart is still running.
StatusOf(t) ==
    CASE t \notin started -> "waiting"
      [] proc[t] \in {"notify", "over"} -> "over"
      [] OTHER -> "running"

Graph == INSTANCE TaskGraph WITH status <- [t \in Tasks |-> StatusOf(t)]

\* The scheduler runs every task at most once and after its dependencies, whatever
\* fails and is restarted in between.
ImplementsTaskGraph == Graph!Spec

\* The services are told to stop when Clean Up is through, so after the last of the
\* game's processes: the launcher never loses the snapshot helper to a stop hook.
ServicesOutliveGame ==
    done # "idle" \/ stopMsgs # {} => \A d \in Deps[CleanUp] : proc[d] = "over"

\* Run counts every completion once: it returns when the last task is over and not
\* before, and leaves no goroutine behind that waits for it to receive.
RunReturnsAtTheEnd ==
    /\ count = Cardinality(completed)
    /\ run = "returned" <=> \A t \in Tasks : proc[t] = "over"

\* A task whose dependencies have completed is started, though Run sleeps in the
\* receive in between.
ReadyTaskStarts ==
    \A t \in Tasks : Deps[t] \subseteq completed ~> t \in started

\* proc/done stops every service that was listening and registered by then, even
\* if the hook of another fails.
DoneStopsServices ==
    \A t \in Hooked :
        (done = "sent" /\ t \in bound /\ \E i \in DOMAIN stopHook : stopHook[i] = t)
            ~> t \notin bound
=============================================================================
