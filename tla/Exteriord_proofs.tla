-------------------------- MODULE Exteriord_proofs --------------------------
(***************************************************************************)
(* For every task graph and any number of failing processes: the scheduler *)
(* of exteriord implements TaskGraph, its counter of completions is right, *)
(* and the stop hooks are called after what Clean Up depends on is over.   *)
(***************************************************************************)
EXTENDS Exteriord, FiniteSetTheorems, TLAPS

\* A task that was started is up, about to be restarted, or past its last process;
\* it is over exactly when Run has received its completion, and was started after
\* those of its dependencies.
SchedulerInv ==
    /\ \A t \in Tasks : proc[t] = "none" <=> t \notin started
    /\ \A t \in Tasks : proc[t] = "over" <=> t \in completed
    /\ \A t \in started : Deps[t] \subseteq completed
    /\ count = Cardinality(completed)
    /\ run = "returned" <=> completed = Tasks

\* Only a process that is up has bound base/stop, and only the end of Clean Up leads
\* to calls of it.
HookInv ==
    /\ \A t \in bound : proc[t] = "up"
    /\ done # "idle" => proc[CleanUp] \in {"notify", "over"}
    /\ stopMsgs # {} => done # "idle"

Inv == TypeOK /\ SchedulerInv /\ HookInv

\* At first nothing was started.
LEMMA InvInit == ASSUME Init PROVE Inv
<1> USE ExteriordAssumption DEF ExteriordAssumption
<1>1. TypeOK
  BY DEF Init, TypeOK, ProcState
<1>2. SchedulerInv
  <2>1. Cardinality({}) = 0
    BY FS_EmptySet
  <2> QED BY <2>1 DEF Init, SchedulerInv
<1>3. HookInv
  BY DEF Init, HookInv
<1> QED BY <1>1, <1>2, <1>3 DEF Inv

\* The task that Run starts has all its dependencies among the completed ones.
LEMMA StartStep == ASSUME Inv, NEW t \in Tasks, Start(t) PROVE Inv'
<1> USE ExteriordAssumption DEF ExteriordAssumption, Inv, Start, Ready
<1>1. TypeOK'
  BY DEF TypeOK, ProcState, hookVars
<1>2. SchedulerInv'
  BY DEF TypeOK, SchedulerInv
<1>3. HookInv'
  BY DEF TypeOK, SchedulerInv, HookInv, hookVars
<1> QED BY <1>1, <1>2, <1>3

\* The counter keeps pace with the completed tasks, so that Run returns with the
\* last of them.
LEMMA CompleteStep == ASSUME Inv, NEW t \in Tasks, Complete(t) PROVE Inv'
<1> USE ExteriordAssumption DEF ExteriordAssumption, Inv, Complete
<1>1. TypeOK'
  BY DEF TypeOK, ProcState, hookVars
<1>2. t \notin completed /\ IsFiniteSet(completed)
  BY FS_Subset DEF TypeOK, SchedulerInv
<1>3. Cardinality(completed') = Cardinality(completed) + 1
  BY <1>2, FS_AddElement
<1>4. completed' = Tasks <=> Cardinality(completed') = Cardinality(Tasks)
  <2>1. completed' \in SUBSET Tasks /\ IsFiniteSet(Tasks)
    BY <1>1 DEF TypeOK
  <2> HIDE DEF Inv, Complete, ExteriordAssumption
  <2> QED BY <2>1, FS_Subset
<1>5. run' = "returned" <=> completed' = Tasks
  BY <1>3, <1>4 DEF SchedulerInv
<1>6. SchedulerInv'
  BY <1>3, <1>5 DEF TypeOK, SchedulerInv
<1>7. HookInv'
  BY DEF TypeOK, SchedulerInv, HookInv, hookVars
<1> QED BY <1>1, <1>6, <1>7

\* A process that exits or fails is not completed before Run receives it.
LEMMA ProcessStep == ASSUME Inv, NEW t \in Tasks, ProcStep(t) PROVE Inv'
<1> USE ExteriordAssumption DEF ExteriordAssumption, Inv, schedVars, hookVars
<1>1. CASE ProcExit(t)
  BY <1>1 DEF ProcExit, TypeOK, ProcState, SchedulerInv, HookInv
<1>2. CASE ProcFail(t)
  <2>1. TypeOK'
    BY <1>2 DEF ProcFail, TypeOK, ProcState
  <2>2. SchedulerInv'
    BY <1>2 DEF ProcFail, TypeOK, SchedulerInv
  <2>3. HookInv'
    BY <1>2 DEF ProcFail, TypeOK, HookInv
  <2> QED BY <2>1, <2>2, <2>3
<1>3. CASE ProcRestart(t)
  BY <1>3 DEF ProcRestart, TypeOK, ProcState, SchedulerInv, HookInv
<1> QED BY <1>1, <1>2, <1>3 DEF ProcStep

\* Only a service that is up binds base/stop and is ended by it.
LEMMA ServiceInv == ASSUME Inv, NEW t \in Hooked, ServiceStep(t) PROVE Inv'
<1> USE ExteriordAssumption DEF ExteriordAssumption, Inv, schedVars, hookVars
<1>1. CASE BindStop(t)
  BY <1>1 DEF BindStop, TypeOK, ProcState, SchedulerInv, HookInv
<1>2. CASE SendHook(t)
  BY <1>2 DEF SendHook, TypeOK, ProcState, SchedulerInv, HookInv
<1>3. CASE HandleBaseStop(t)
  <2>1. TypeOK'
    BY <1>3 DEF HandleBaseStop, TypeOK, ProcState
  <2>2. SchedulerInv'
    BY <1>3 DEF HandleBaseStop, TypeOK, SchedulerInv, HookInv
  <2>3. HookInv'
    BY <1>3 DEF HandleBaseStop, TypeOK, HookInv
  <2> QED BY <2>1, <2>2, <2>3
<1>4. CASE RegisterStopHook(t)
  BY <1>4 DEF RegisterStopHook, TypeOK, ProcState, SchedulerInv, HookInv
<1> QED BY <1>1, <1>2, <1>3, <1>4 DEF ServiceStep

\* proc/done calls hooks of services only.
LEMMA DoneInv == ASSUME Inv, DoneStep PROVE Inv'
<1> USE DEF Inv, schedVars
<1>1. CASE HandleProcDone
  BY <1>1 DEF HandleProcDone, TypeOK, SchedulerInv, HookInv
<1>2. CASE CallHook
  <2>1. toCall # <<>> => Head(toCall) \in Hooked /\ Tail(toCall) \in Seq(Hooked)
    BY DEF TypeOK
  <2> QED BY <1>2, <2>1 DEF CallHook, TypeOK, SchedulerInv, HookInv
<1> QED BY <1>1, <1>2 DEF DoneStep

\* Every step preserves the invariant.
LEMMA InvStep == ASSUME Inv, [Next]_vars PROVE Inv'
<1>1. CASE SchedulerStep
  BY <1>1, StartStep, CompleteStep DEF SchedulerStep
<1>2. CASE UNCHANGED vars
  BY <1>2 DEF vars, schedVars, hookVars, Inv, TypeOK, SchedulerInv, HookInv
<1> QED BY <1>1, <1>2, ProcessStep, ServiceInv, DoneInv DEF Next

\* The inductive invariant: the processes, the completions and the hooks agree.
THEOREM InvHolds == Spec => []Inv
<1>1. Init => Inv
  BY InvInit
<1>2. Inv /\ [Next]_vars => Inv'
  BY InvStep
<1> QED BY <1>1, <1>2, PTL DEF Spec

-----------------------------------------------------------------------------

\* The types of the scheduler's, the processes' and the hooks' state.
THEOREM TypeCorrect == Spec => []TypeOK
<1>1. Inv => TypeOK
  BY DEF Inv
<1> QED BY <1>1, InvHolds, PTL

\* Run returns with the last completion, for every graph.
THEOREM ReturnsAtTheEnd == Spec => []RunReturnsAtTheEnd
<1>1. Inv => RunReturnsAtTheEnd
  <2> SUFFICES ASSUME Inv PROVE RunReturnsAtTheEnd
    OBVIOUS
  <2>1. completed = Tasks <=> \A t \in Tasks : proc[t] = "over"
    BY DEF Inv, TypeOK, SchedulerInv
  <2> QED BY <2>1 DEF Inv, SchedulerInv, RunReturnsAtTheEnd
<1> QED BY <1>1, InvHolds, PTL

\* No stop hook is called while something that Clean Up depends on is running.
THEOREM ServicesOutlive == Spec => []ServicesOutliveGame
<1>1. Inv => ServicesOutliveGame
  <2> SUFFICES ASSUME Inv, done # "idle" \/ stopMsgs # {}, NEW d \in Deps[CleanUp]
               PROVE  proc[d] = "over"
    BY DEF ServicesOutliveGame
  <2>1. CleanUp \in started
    BY ExteriordAssumption DEF ExteriordAssumption, Inv, HookInv, SchedulerInv
  <2> QED BY <2>1, ExteriordAssumption DEF ExteriordAssumption, Inv, SchedulerInv, TypeOK
<1> QED BY <1>1, InvHolds, PTL

-----------------------------------------------------------------------------

StatusMap == [t \in Tasks |-> StatusOf(t)]

\* A step that leaves what the abstract scheduler sees of every task as it was.
LEMMA Stutter ==
    ASSUME \A t \in Tasks : StatusOf(t)' = StatusOf(t)
    PROVE  StatusMap' = StatusMap
BY DEF StatusMap

\* A step that changes the status of one task.
LEMMA OneMoves ==
    ASSUME NEW t \in Tasks, \A u \in Tasks : u # t => StatusOf(u)' = StatusOf(u),
           NEW new, StatusOf(t)' = new
    PROVE  StatusMap' = [StatusMap EXCEPT ![t] = new]
BY DEF StatusMap

\* Every step of exteriord is a step of the abstract scheduler, or leaves the status
\* of every task as it is.
LEMMA GraphStep == ASSUME Inv, [Next]_vars PROVE [Graph!Next]_StatusMap
<1> USE ExteriordAssumption DEF ExteriordAssumption, Inv
<1> USE DEF StatusOf
<1>1. ASSUME NEW t \in Tasks, Start(t) PROVE Graph!Begin(t)
  <2>1. StatusMap' = [StatusMap EXCEPT ![t] = "running"]
    BY <1>1, OneMoves DEF Start, Ready, TypeOK, SchedulerInv
  <2>2. StatusMap[t] = "waiting" /\ \A d \in Deps[t] : StatusMap[d] = "over"
    BY <1>1 DEF Start, Ready, StatusMap, TypeOK, SchedulerInv
  <2> QED BY <2>1, <2>2 DEF Graph!Begin, StatusMap
<1>2. ASSUME NEW t \in Tasks, Complete(t) PROVE StatusMap' = StatusMap
  BY <1>2, Stutter DEF Complete, TypeOK
<1>3. ASSUME NEW t \in Tasks, proc[t] = "up", proc' = [proc EXCEPT ![t] = "notify"],
             started' = started
      PROVE  Graph!End(t)
  <2>1. StatusMap' = [StatusMap EXCEPT ![t] = "over"]
    BY <1>3, OneMoves DEF TypeOK, SchedulerInv
  <2>2. StatusMap[t] = "running"
    BY <1>3 DEF StatusMap, TypeOK, SchedulerInv
  <2> QED BY <2>1, <2>2 DEF Graph!End, StatusMap
<1>4. ASSUME NEW t \in Tasks, proc[t] \in {"up", "delay"}, started' = started,
             NEW pc \in {"up", "delay"}, proc' = [proc EXCEPT ![t] = pc]
      PROVE  StatusMap' = StatusMap
  BY <1>4, Stutter DEF TypeOK
<1>5. ASSUME proc' = proc, started' = started PROVE StatusMap' = StatusMap
  BY <1>5, Stutter
<1>6. ASSUME NEW t \in Tasks, ProcStep(t) PROVE Graph!End(t) \/ StatusMap' = StatusMap
  <2>1. CASE ProcExit(t)
    BY <2>1, <1>3 DEF ProcExit, schedVars
  <2>2. CASE ProcFail(t)
    BY <2>2, <1>3, <1>4 DEF ProcFail, schedVars
  <2>3. CASE ProcRestart(t)
    BY <2>3, <1>4 DEF ProcRestart, schedVars
  <2> QED BY <1>6, <2>1, <2>2, <2>3 DEF ProcStep
<1>7. ASSUME NEW t \in Hooked, ServiceStep(t) PROVE Graph!End(t) \/ StatusMap' = StatusMap
  <2>1. CASE HandleBaseStop(t)
    BY <2>1, <1>3, <1>5 DEF HandleBaseStop, schedVars, HookInv, TypeOK
  <2>2. CASE ~HandleBaseStop(t)
    BY <1>7, <2>2, <1>5 DEF ServiceStep, BindStop, SendHook, RegisterStopHook, schedVars
  <2> QED BY <2>1, <2>2
<1>8. ASSUME DoneStep \/ UNCHANGED vars PROVE StatusMap' = StatusMap
  BY <1>8, <1>5 DEF DoneStep, HandleProcDone, CallHook, vars, schedVars
<1>9. Hooked \subseteq Tasks
  OBVIOUS
<1> HIDE DEF StatusOf, Inv
<1> QED BY <1>1, <1>2, <1>6, <1>7, <1>8, <1>9 DEF Next, SchedulerStep, Graph!Next

\* The scheduler and proc.Start implement the abstract scheduler: every task runs at
\* most once and after its dependencies, however often its process is restarted.
THEOREM Refinement == Spec => ImplementsTaskGraph
<1>1. Init => Graph!Init
  BY DEF Init, Graph!Init, StatusOf
<1>2. Inv /\ [Next]_vars => [Graph!Next]_StatusMap
  BY GraphStep
<1> QED BY <1>1, <1>2, InvHolds, PTL DEF Spec, ImplementsTaskGraph, Graph!Spec, StatusMap
=============================================================================
