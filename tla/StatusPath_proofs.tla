-------------------------- MODULE StatusPath_proofs --------------------------
(***************************************************************************)
(* Theorems about the way of status events, for every game, any number of  *)
(* browsers, any capacity of the channel and any number of failing calls.  *)
(***************************************************************************)
EXTENDS StatusPath, SequenceTheorems, TLAPS

\* A sequence without repetitions.
Distinct(s) == \A i, j \in 1..Len(s) : s[i] = s[j] => i = j

\* A post has an event to go.
ToGo(e, i) == e \in Elems(Todo(posts[i]))

\* Before a post an event is in one place.
OnePlace ==
    /\ Distinct(msgChan) /\ (monitor = "select" => Distinct(buf))
    /\ pushes \cap Elems(msgChan) = {}
    /\ pushes \cap Waiting = {} /\ Elems(msgChan) \cap Waiting = {}
    /\ pushes \cup Elems(msgChan) \cup Waiting \subseteq 1..nsent

\* What was not posted was not handled; what a post has to go was not handled, and is
\* in one post; and nothing is handled twice.
HandledOnce == \A e \in Events : handled[e] <= 1
NotYet(e) == e > nsent \/ e \in pushes \cup Elems(msgChan) \cup Waiting
OneHandling ==
    /\ \A e \in Events : NotYet(e) => handled[e] = 0 /\ \A i \in DOMAIN posts : ~ToGo(e, i)
    /\ \A e \in Events, i \in DOMAIN posts :
          ToGo(e, i) => handled[e] = 0 /\ \A j \in DOMAIN posts : ToGo(e, j) => j = i
    /\ \A i \in DOMAIN posts : Distinct(Todo(posts[i]))
    /\ HandledOnce

\* There is a post to wait for, and a state to publish.
PostsInv ==
    /\ monitor = "posting" => posts # <<>>
    /\ \A i \in DOMAIN posts :
          posts[i].at = "publish" => posts[i].todo # <<>> /\ posts[i].state \in 1..nset

\* Unless a call fails posts do not overlap, and what was posted is with the handler.
Dropped(e) == e \in behind /\ clean # "none"
FineInv ==
    faults = 0 =>
        /\ Len(posts) <= 1 /\ (monitor = "select" => posts = <<>>)
        /\ \A i \in DOMAIN posts : posts[i].at # "error"
        /\ monitor = "posting" =>
              \A e \in Elems(buf) : handled[e] = 1 \/ ToGo(e, Len(posts)) \/ Dropped(e)
        /\ EventsAccounted

\* States wait for a page in the order in which they were set.
InOrder(u) ==
    \A k \in 1..Len(inbox[u]) :
        /\ shown[u] <= inbox[u][k]
        /\ \A l \in 1..Len(inbox[u]) : k <= l => inbox[u][k] <= inbox[u][l]
StreamInv ==
    /\ \A u \in Users : stream[u] # "open" => inbox[u] = <<>>
    /\ clean \in {"stopping", "stopped"} => nset > 0
    /\ faults = 0 /\ clean = "none" =>
          /\ \A i \in DOMAIN posts : posts[i].at = "publish" => posts[i].state = nset
          /\ \A u \in Users : InOrder(u)

StatusInv == TypeOK /\ OnePlace /\ OneHandling /\ PostsInv /\ FineInv /\ StreamInv

-----------------------------------------------------------------------------
(***************************************************************************)
(* Sequences                                                               *)
(***************************************************************************)

\* An empty queue holds nothing.
LEMMA EmptyElems == Elems(<<>>) = {} /\ Distinct(<<>>)
BY DEF Elems, Distinct

\* What a queue holds after an element is added at its end.
LEMMA AppendElems ==
    ASSUME NEW S, NEW s \in Seq(S), NEW x \in S
    PROVE  /\ Append(s, x) \in Seq(S) /\ Elems(Append(s, x)) = Elems(s) \cup {x}
           /\ Distinct(s) /\ x \notin Elems(s) => Distinct(Append(s, x))
<1> DEFINE t == Append(s, x)
<1>1. /\ t \in Seq(S) /\ Len(s) \in Nat /\ Len(t) = Len(s) + 1
      /\ \A i \in 1..Len(s) : t[i] = s[i]
      /\ t[Len(s) + 1] = x
      /\ DOMAIN t = 1..Len(t) /\ DOMAIN s = 1..Len(s)
  OBVIOUS
<1> HIDE DEF t
<1>2. Elems(t) = Elems(s) \cup {x}
  <2>1. \A i \in 1..Len(t) : i \in 1..Len(s) \/ i = Len(s) + 1
    BY <1>1
  <2>2. Len(s) + 1 \in 1..Len(t) /\ 1..Len(s) \subseteq 1..Len(t)
    BY <1>1
  <2>3. ASSUME NEW y \in Elems(t) PROVE y \in Elems(s) \cup {x}
    BY <1>1, <2>1 DEF Elems
  <2>4. ASSUME NEW y \in Elems(s) \cup {x} PROVE y \in Elems(t)
    BY <1>1, <2>2 DEF Elems
  <2> QED BY <2>3, <2>4
<1>3. ASSUME Distinct(s), x \notin Elems(s) PROVE Distinct(t)
  BY <1>1, <1>3 DEF Distinct, Elems
<1> QED BY <1>1, <1>2, <1>3 DEF t

\* What a queue holds without its head.
LEMMA TailElems ==
    ASSUME NEW S, NEW s \in Seq(S), s # <<>>
    PROVE  /\ Head(s) \in S /\ Tail(s) \in Seq(S) /\ Len(Tail(s)) = Len(s) - 1
           /\ Elems(s) = Elems(Tail(s)) \cup {Head(s)}
           /\ Distinct(s) => Distinct(Tail(s)) /\ Head(s) \notin Elems(Tail(s))
<1> DEFINE t == Tail(s)
<1>1. /\ t \in Seq(S) /\ Len(s) \in Nat /\ Len(s) > 0 /\ Len(t) = Len(s) - 1
      /\ \A i \in 1..Len(t) : t[i] = s[i + 1]
      /\ Head(s) = s[1] /\ Head(s) \in S
      /\ DOMAIN t = 1..Len(t) /\ DOMAIN s = 1..Len(s)
  OBVIOUS
<1> HIDE DEF t
<1>2. /\ \A i \in 1..Len(t) : i + 1 \in 1..Len(s) /\ i + 1 # 1
      /\ \A i \in 1..Len(s) : i = 1 \/ (i - 1 \in 1..Len(t) /\ i = (i - 1) + 1)
      /\ 1 \in 1..Len(s)
  BY <1>1
<1>3. Elems(s) = Elems(t) \cup {Head(s)}
  <2>1. \A i \in 1..Len(s) : i = 1 \/ s[i] = t[i - 1]
    BY <1>1, <1>2
  <2>2. ASSUME NEW y \in Elems(s) PROVE y \in Elems(t) \cup {Head(s)}
    BY <1>1, <1>2, <2>1 DEF Elems
  <2>3. ASSUME NEW y \in Elems(t) \cup {Head(s)} PROVE y \in Elems(s)
    BY <1>1, <1>2 DEF Elems
  <2> QED BY <2>2, <2>3
<1>4. ASSUME Distinct(s) PROVE Distinct(t) /\ Head(s) \notin Elems(t)
  BY <1>1, <1>2, <1>4 DEF Distinct, Elems
<1> QED BY <1>1, <1>3, <1>4 DEF t

\* A queue holds elements of its type.
LEMMA ElemsIn ==
    ASSUME NEW S, NEW s \in Seq(S)
    PROVE  Elems(s) \subseteq S
BY DEF Elems

\* The events a game sends are numbered from 1 and end with the shutdown.
LEMMA ScriptEvents ==
    ASSUME game \in Games
    PROVE  /\ Script \in Seq({"status", "info", "started", "hello", "shutdown"})
           /\ Len(Script) \in Nat /\ Events = 1..Len(Script)
           /\ Script[Len(Script)] = "shutdown" /\ Len(Script) > 0
BY StatusAssumption DEF Script, Events

\* They do not change while the game runs.
LEMMA SameEvents ==
    ASSUME game' = game
    PROVE  Script' = Script /\ Events' = Events /\ Post' = Post
BY DEF Script, Events, Post

\* Where no fault has happened, none happens in a step without one.
LEMMA FaultCounted ==
    ASSUME TypeOK, UNCHANGED faults \/ Fault
    PROVE  faults' \in 0..MaxFaults /\ (faults' = 0 => faults = 0 /\ UNCHANGED faults)
<1>1. faults \in 0..MaxFaults
  BY DEF TypeOK
<1> QED BY <1>1, StatusAssumption DEF Fault

-----------------------------------------------------------------------------
(***************************************************************************)
(* The runner                                                              *)
(***************************************************************************)

\* Steps of the runner leave alone what is published.
LEMMA RunnerFrame ==
    ASSUME StatusInv, UNCHANGED <<game, planeVars>>, UNCHANGED faults \/ Fault,
           \A i \in DOMAIN posts' :
               posts'[i].at = "publish" => i \in DOMAIN posts /\ posts'[i] = posts[i],
           monitor' = "posting" => posts' # <<>>
    PROVE  PostsInv' /\ StreamInv'
<1>0. /\ TypeOK /\ PostsInv /\ StreamInv
      /\ UNCHANGED <<behind, clean, handled, nset, stream, shown, inbox>>
  BY DEF StatusInv, planeVars, streamVars
<1>1. faults' = 0 => faults = 0
  BY <1>0, FaultCounted
<1>2. PostsInv'
  BY <1>0 DEF PostsInv
<1>3. StreamInv'
  BY <1>0, <1>1 DEF StreamInv, InOrder
<1> QED BY <1>2, <1>3

\* Posts that are left are as they were, and nothing comes back to the runner.
LEMMA HandlingFrame ==
    ASSUME StatusInv, UNCHANGED <<game, handled>>,
           \A e \in Events : NotYet(e)' => NotYet(e),
           DOMAIN posts' \subseteq DOMAIN posts, \A i \in DOMAIN posts' : posts'[i] = posts[i]
    PROVE  OneHandling'
<1>0. OneHandling /\ Events' = Events
  BY SameEvents DEF StatusInv
<1>1. \A e, i : i \in DOMAIN posts' => ToGo(e, i)' = ToGo(e, i)
  BY DEF ToGo
<1>2. HandledOnce'
  BY <1>0 DEF HandledOnce, OneHandling
<1>3. \A i \in DOMAIN posts' : Distinct(Todo(posts'[i]))
  BY <1>0 DEF OneHandling
<1>4. \A e \in Events : NotYet(e)' => handled'[e] = 0 /\ \A i \in DOMAIN posts' : ~ToGo(e, i)'
  BY <1>0, <1>1 DEF OneHandling
<1>5. \A e \in Events, i \in DOMAIN posts' :
          ToGo(e, i)' => handled'[e] = 0 /\ \A j \in DOMAIN posts' : ToGo(e, j)' => j = i
  BY <1>0, <1>1 DEF OneHandling
<1> QED BY <1>0, <1>2, <1>3, <1>4, <1>5 DEF OneHandling

\* The runner sends an event.
LEMMA SendEventStep ==
    ASSUME StatusInv, SendEvent
    PROVE  StatusInv'
<1>0. TypeOK /\ OnePlace /\ OneHandling /\ PostsInv /\ FineInv /\ StreamInv
  BY DEF StatusInv
<1>1. /\ UNCHANGED <<game, msgChan, buf, monitor, cleanUp, posts, planeVars>>
      /\ UNCHANGED <<behind, clean, handled, nset, stream, shown, inbox>>
      /\ UNCHANGED faults \/ Fault
      /\ nsent' = nsent + 1 /\ nsent < Len(Script)
      /\ pushes' = pushes \cup {nsent'} \/ (pushes' = pushes /\ Fault)
  BY DEF SendEvent, planeVars, streamVars
<1>2. /\ Events' = Events /\ Script' = Script /\ Post' = Post /\ Len(Script) \in Nat
      /\ Events = 1..Len(Script) /\ nsent \in 0..Len(Script)
  BY <1>0, <1>1, SameEvents, ScriptEvents DEF TypeOK
<1>3. nsent' \in Events /\ nsent' \in 0..Len(Script) /\ nsent' \notin 1..nsent /\ 1..nsent \subseteq 1..nsent'
      /\ nsent' \in 1..nsent'
  BY <1>1, <1>2
<1>4. faults' \in 0..MaxFaults /\ (faults' = 0 => faults = 0 /\ UNCHANGED faults)
  BY <1>0, <1>1, FaultCounted
<1>5. TypeOK'
  <2>1. pushes' \subseteq Events
    BY <1>0, <1>1, <1>3 DEF TypeOK
  <2> QED BY <1>0, <1>1, <1>2, <1>3, <1>4, <2>1 DEF TypeOK
<1>w. Waiting' = Waiting
  BY <1>1 DEF Waiting
<1>6. OnePlace'
  BY <1>0, <1>1, <1>3, <1>w DEF OnePlace
<1>7. OneHandling'
  <2>1. \A e \in Events : NotYet(e)' => NotYet(e)
    <3>1. \A e \in Events : e > nsent' => e > nsent
      BY <1>1, <1>2
    <3>2. nsent' > nsent
      BY <1>1, <1>2
    <3> QED BY <1>1, <1>w, <3>1, <3>2 DEF NotYet
  <2> QED BY <1>1, <2>1, HandlingFrame
<1>8. FineInv'
  <2> SUFFICES ASSUME faults' = 0 PROVE FineInv'
    BY DEF FineInv
  <2>1. faults = 0 /\ pushes' = pushes \cup {nsent'}
    <3>1. faults = 0 /\ faults' = faults
      BY <1>4
    <3>2. ~Fault
      BY <3>1 DEF Fault
    <3> QED BY <1>1, <3>1, <3>2
  <2>2. EventsAccounted'
    <3>1. \A e \in 1..nsent' : e \in 1..nsent \/ e = nsent'
      BY <1>1, <1>2
    <3>2. EventsAccounted
      BY <1>0, <2>1 DEF FineInv
    <3> QED BY <1>1, <2>1, <3>1, <3>2 DEF EventsAccounted
  <2> QED BY <1>0, <1>1, <2>1, <2>2 DEF FineInv, ToGo, Dropped
<1>9. PostsInv' /\ StreamInv'
  <2>1. monitor' = "posting" => posts' # <<>>
    BY <1>0, <1>1 DEF PostsInv
  <2> QED BY <1>1, <2>1, RunnerFrame
<1> QED BY <1>5, <1>6, <1>7, <1>8, <1>9 DEF StatusInv

\* exteriord puts an event into the channel of HandleMonitor.
LEMMA StatusPushStep ==
    ASSUME StatusInv, NEW e \in Events, HandleStatusPush(e)
    PROVE  StatusInv'
<1>0. TypeOK /\ OnePlace /\ OneHandling /\ PostsInv /\ FineInv /\ StreamInv
  BY DEF StatusInv
<1>1. /\ UNCHANGED <<game, nsent, buf, monitor, cleanUp, posts, planeVars, faults>>
      /\ UNCHANGED <<behind, clean, handled, nset, stream, shown, inbox>>
      /\ e \in pushes /\ Len(msgChan) < ChanCap
      /\ pushes' = pushes \ {e} /\ msgChan' = Append(msgChan, e)
  BY DEF HandleStatusPush, planeVars, streamVars
<1>2. Events' = Events /\ Script' = Script /\ Post' = Post
  BY <1>1, SameEvents
<1>3. /\ msgChan' \in Seq(Events) /\ Elems(msgChan') = Elems(msgChan) \cup {e}
      /\ Distinct(msgChan')
  BY <1>0, <1>1, AppendElems DEF TypeOK, OnePlace
<1>4. Len(msgChan') <= ChanCap
  <2>1. Len(msgChan') = Len(msgChan) + 1 /\ Len(msgChan) \in Nat
    BY <1>0, <1>1 DEF TypeOK
  <2> QED BY <1>1, <2>1, StatusAssumption
<1>5. TypeOK'
  BY <1>0, <1>1, <1>2, <1>3, <1>4 DEF TypeOK
<1>w. Waiting' = Waiting
  BY <1>1 DEF Waiting
<1>6. OnePlace'
  BY <1>0, <1>1, <1>3, <1>w DEF OnePlace
<1>7. OneHandling'
  <2>1. \A x \in Events : NotYet(x)' => NotYet(x)
    BY <1>1, <1>3, <1>w DEF NotYet
  <2> QED BY <1>1, <2>1, HandlingFrame
<1>8. FineInv'
  <2>1. EventsAccounted => EventsAccounted'
    BY <1>1, <1>3 DEF EventsAccounted
  <2> QED BY <1>0, <1>1, <2>1 DEF FineInv, ToGo, Dropped
<1>9. PostsInv' /\ StreamInv'
  <2>1. monitor' = "posting" => posts' # <<>>
    BY <1>0, <1>1 DEF PostsInv
  <2> QED BY <1>1, <2>1, RunnerFrame
<1> QED BY <1>5, <1>6, <1>7, <1>8, <1>9 DEF StatusInv

\* HandleMonitor posts what it has collected.
LEMMA PostingStep ==
    ASSUME StatusInv, monitor = "select", monitor' = "posting",
           UNCHANGED <<game, nsent, pushes, cleanUp, planeVars, faults>>,
           buf' \in Seq(Events), Distinct(buf'),
           posts' = Append(posts, [todo |-> buf', at |-> "sent", state |-> 0]),
           msgChan' \in Seq(Events), Len(msgChan') <= ChanCap, Distinct(msgChan'),
           Elems(msgChan') \cup Elems(buf') = Elems(msgChan) \cup Elems(buf),
           Elems(msgChan') \cap Elems(buf') = {}, Elems(msgChan') \subseteq Elems(msgChan)
    PROVE  StatusInv'
<1>0. TypeOK /\ OnePlace /\ OneHandling /\ PostsInv /\ FineInv /\ StreamInv
  BY DEF StatusInv
<1>1. UNCHANGED <<behind, clean, handled, nset, stream, shown, inbox>>
  BY DEF planeVars, streamVars
<1>2. Events' = Events /\ Script' = Script /\ Post' = Post
  BY SameEvents
<1>n. PICK n : n = Len(posts) + 1
  OBVIOUS
<1> DEFINE new == [todo |-> buf', at |-> "sent", state |-> 0]
<1>3. new \in Post /\ new.at = "sent" /\ new.todo = buf' /\ Todo(new) = buf'
  BY DEF Post, Todo
<1>4. posts \in Seq(Post) /\ posts' = Append(posts, new)
  BY <1>0 DEF TypeOK
<1> HIDE DEF new
<1>5. /\ posts' \in Seq(Post) /\ Len(posts) \in Nat /\ Len(posts') = n /\ posts'[n] = new
      /\ DOMAIN posts = 1..Len(posts) /\ DOMAIN posts' = 1..n /\ n \notin DOMAIN posts /\ n \in DOMAIN posts'
      /\ \A i \in DOMAIN posts' : i = n \/ (i \in DOMAIN posts /\ posts'[i] = posts[i])
      /\ posts' # <<>>
  BY <1>3, <1>4, <1>n
<1>6. TypeOK'
  BY <1>0, <1>1, <1>2, <1>5 DEF TypeOK
<1>w. Waiting = Elems(buf) /\ Waiting' = {}
  BY DEF Waiting
<1>7. OnePlace'
  BY <1>0, <1>w DEF OnePlace
<1>8. \A e : ToGo(e, n)' <=> e \in Elems(buf')
  <2>1. Todo(posts'[n]) = buf'
    BY <1>3, <1>5
  <2> QED BY <2>1 DEF ToGo
<1>9. \A e : \A i \in DOMAIN posts : ToGo(e, i)' <=> ToGo(e, i)
  BY <1>5 DEF ToGo, Todo
<1>10. \A e \in Events : NotYet(e)' => NotYet(e) /\ e \notin Elems(buf')
  <2>1. \A e \in Events : e > nsent => e \notin 1..nsent
    <3>1. nsent \in Nat /\ Events \subseteq Nat
      BY <1>0, ScriptEvents DEF TypeOK
    <3> QED BY <3>1
  <2>2. Elems(buf') \subseteq 1..nsent /\ pushes \cap Elems(buf') = {}
    BY <1>0, <1>w DEF OnePlace
  <2> QED BY <1>w, <2>1, <2>2 DEF NotYet
<1>11. \A e \in Elems(buf') : e \in Events /\ NotYet(e)
  BY <1>w, ElemsIn DEF NotYet
<1>12. OneHandling'
  <2>1. \A e \in Events : NotYet(e)' => handled'[e] = 0 /\ \A i \in DOMAIN posts' : ~ToGo(e, i)'
    BY <1>0, <1>1, <1>5, <1>8, <1>9, <1>10 DEF OneHandling
  <2>2. \A e \in Events, i \in DOMAIN posts' :
          ToGo(e, i)' => handled'[e] = 0 /\ \A j \in DOMAIN posts' : ToGo(e, j)' => j = i
    BY <1>0, <1>1, <1>5, <1>8, <1>9, <1>11 DEF OneHandling
  <2>3. \A i \in DOMAIN posts' : Distinct(Todo(posts'[i]))
    BY <1>0, <1>3, <1>5 DEF OneHandling
  <2>4. HandledOnce'
    BY <1>0, <1>1, <1>2 DEF HandledOnce, OneHandling
  <2> QED BY <1>2, <2>1, <2>2, <2>3, <2>4 DEF OneHandling
<1>13. FineInv'
  <2> SUFFICES ASSUME faults' = 0 PROVE FineInv'
    BY DEF FineInv
  <2>1. posts = <<>> /\ n = 1 /\ EventsAccounted
    BY <1>0, <1>n DEF FineInv
  <2>2. Len(posts') <= 1 /\ \A i \in DOMAIN posts' : posts'[i].at # "error"
    BY <1>3, <1>5, <2>1
  <2>3. \A e \in Elems(buf') : ToGo(e, Len(posts))'
    BY <1>3, <1>5 DEF ToGo
  <2>4. EventsAccounted'
    BY <1>1, <2>1 DEF EventsAccounted
  <2> QED BY <2>2, <2>3, <2>4 DEF FineInv
<1>14. PostsInv' /\ StreamInv'
  <2>1. \A i \in DOMAIN posts' : posts'[i].at = "publish" => i \in DOMAIN posts /\ posts'[i] = posts[i]
    BY <1>3, <1>5
  <2> QED BY <1>5, <2>1, RunnerFrame
<1> QED BY <1>6, <1>7, <1>12, <1>13, <1>14 DEF StatusInv

\* HandleMonitor takes an event from its channel.
LEMMA ReceiveEventStep ==
    ASSUME StatusInv, ReceiveEvent
    PROVE  StatusInv'
<1>0. TypeOK /\ OnePlace /\ OneHandling /\ PostsInv /\ FineInv /\ StreamInv
  BY DEF StatusInv
<1> DEFINE e == Head(msgChan)
<1>1. /\ UNCHANGED <<game, nsent, pushes, cleanUp, planeVars, faults>>
      /\ UNCHANGED <<behind, clean, handled, nset, stream, shown, inbox>>
      /\ monitor = "select" /\ msgChan # <<>>
      /\ msgChan' = Tail(msgChan) /\ buf' = Append(buf, e)
  BY DEF ReceiveEvent, planeVars, streamVars
<1>2. msgChan \in Seq(Events) /\ buf \in Seq(Events) /\ Len(msgChan) <= ChanCap
  BY <1>0 DEF TypeOK
<1>3. Distinct(msgChan) /\ Distinct(buf) /\ Elems(msgChan) \cap Elems(buf) = {}
  BY <1>0, <1>1 DEF OnePlace, Waiting
<1>4. /\ msgChan' \in Seq(Events) /\ e \in Events /\ Elems(msgChan) = Elems(msgChan') \cup {e}
      /\ Distinct(msgChan') /\ e \notin Elems(msgChan') /\ Len(msgChan') = Len(msgChan) - 1
  BY <1>1, <1>2, <1>3, TailElems
<1>5. Len(msgChan') <= ChanCap
  <2>1. Len(msgChan) \in Nat
    BY <1>2
  <2> QED BY <1>2, <1>4, <2>1, StatusAssumption
<1> HIDE DEF e
<1>6. buf' \in Seq(Events) /\ Elems(buf') = Elems(buf) \cup {e} /\ Distinct(buf')
  BY <1>1, <1>2, <1>3, <1>4, AppendElems
<1>7. /\ Elems(msgChan') \cup Elems(buf') = Elems(msgChan) \cup Elems(buf)
      /\ Elems(msgChan') \cap Elems(buf') = {} /\ Elems(msgChan') \subseteq Elems(msgChan)
  BY <1>3, <1>4, <1>6
<1>8. CASE PostStatus(buf')
  BY <1>1, <1>4, <1>5, <1>6, <1>7, <1>8, PostingStep DEF PostStatus
<1>9. CASE UNCHANGED <<monitor, posts>>
  <2>1. Events' = Events /\ Script' = Script /\ Post' = Post
    BY <1>1, SameEvents
  <2>2. TypeOK'
    BY <1>0, <1>1, <1>4, <1>5, <1>6, <1>9, <2>1 DEF TypeOK
  <2>3. Waiting = Elems(buf) /\ Waiting' = Elems(buf')
    BY <1>1, <1>9 DEF Waiting
  <2>4. OnePlace'
    BY <1>0, <1>1, <1>4, <1>6, <1>7, <1>9, <2>3 DEF OnePlace
  <2>5. OneHandling'
    <3>1. \A x \in Events : NotYet(x)' => NotYet(x)
      BY <1>1, <1>7, <2>3 DEF NotYet
    <3> QED BY <1>1, <1>9, <3>1, HandlingFrame
  <2>6. FineInv'
    <3>1. EventsAccounted => EventsAccounted'
      BY <1>1, <1>7, <1>9 DEF EventsAccounted
    <3> QED BY <1>0, <1>1, <1>9, <3>1 DEF FineInv, ToGo, Dropped
  <2>7. PostsInv' /\ StreamInv'
    <3>1. monitor' = "posting" => posts' # <<>>
      BY <1>0, <1>9 DEF PostsInv
    <3> QED BY <1>1, <1>9, <3>1, RunnerFrame
  <2> QED BY <2>2, <2>4, <2>5, <2>6, <2>7 DEF StatusInv
<1> QED BY <1>8, <1>9 DEF ReceiveEvent

\* HandleMonitor posts what it has gathered.
LEMMA TickStep ==
    ASSUME StatusInv, Tick
    PROVE  StatusInv'
<1>1. /\ UNCHANGED <<game, nsent, pushes, cleanUp, planeVars, faults>> /\ UNCHANGED <<msgChan, buf>>
      /\ monitor = "select" /\ PostStatus(buf)
  BY DEF Tick
<1>2. /\ buf' \in Seq(Events) /\ msgChan' \in Seq(Events) /\ Len(msgChan') <= ChanCap
      /\ Distinct(msgChan') /\ Distinct(buf') /\ Elems(msgChan') \cap Elems(buf') = {}
  BY <1>1 DEF StatusInv, TypeOK, OnePlace, Waiting
<1>3. monitor' = "posting" /\ posts' = Append(posts, [todo |-> buf', at |-> "sent", state |-> 0])
  BY <1>1 DEF PostStatus
<1>4. /\ Elems(msgChan') \cup Elems(buf') = Elems(msgChan) \cup Elems(buf)
      /\ Elems(msgChan') \subseteq Elems(msgChan)
  BY <1>1
<1> QED BY <1>1, <1>2, <1>3, <1>4, PostingStep

\* The post is over or lost, and its events are not kept.
LEMMA PostReturnsStep ==
    ASSUME StatusInv, PostReturns
    PROVE  StatusInv'
<1>0. TypeOK /\ OnePlace /\ OneHandling /\ PostsInv /\ FineInv /\ StreamInv
  BY DEF StatusInv
<1>1. /\ UNCHANGED <<game, nsent, pushes, msgChan, cleanUp, planeVars>>
      /\ UNCHANGED <<behind, clean, handled, nset, stream, shown, inbox>>
      /\ monitor = "posting" /\ monitor' = "select" /\ buf' = <<>>
      /\ UNCHANGED faults \/ Fault
      /\ \/ posts[Len(posts)].at \in {"ok", "error"} /\ posts' = Answered /\ UNCHANGED faults
         \/ Fault /\ UNCHANGED posts
  BY DEF PostReturns, planeVars, streamVars
<1>2. Events' = Events /\ Script' = Script /\ Post' = Post
  BY <1>1, SameEvents
<1>3. faults' \in 0..MaxFaults /\ (faults' = 0 => faults = 0 /\ UNCHANGED faults)
  BY <1>0, <1>1, FaultCounted
<1>4. /\ posts \in Seq(Post) /\ Len(posts) \in Nat /\ Len(posts) > 0 /\ DOMAIN posts = 1..Len(posts)
  BY <1>0, <1>1 DEF TypeOK, PostsInv
<1>5. posts' = Answered =>
        /\ posts' \in Seq(Post) /\ Len(posts') = Len(posts) - 1 /\ DOMAIN posts' = 1..(Len(posts) - 1)
        /\ \A i \in 1..(Len(posts) - 1) : posts'[i] = posts[i]
  BY <1>4 DEF Answered
<1>6. /\ posts' \in Seq(Post) /\ DOMAIN posts' \subseteq DOMAIN posts
      /\ \A i \in DOMAIN posts' : posts'[i] = posts[i]
  <2>1. CASE posts' = Answered
    BY <1>4, <1>5, <2>1
  <2>2. CASE posts' = posts
    BY <1>4, <2>2
  <2> QED BY <1>1, <2>1, <2>2
<1>7. TypeOK'
  BY <1>0, <1>1, <1>2, <1>3, <1>6 DEF TypeOK
<1>w. Waiting' = {} /\ Waiting = {} /\ Distinct(buf')
  BY <1>1, EmptyElems DEF Waiting
<1>8. OnePlace'
  BY <1>0, <1>1, <1>w DEF OnePlace
<1>9. OneHandling'
  <2>1. \A x \in Events : NotYet(x)' => NotYet(x)
    BY <1>1, <1>w DEF NotYet
  <2> QED BY <1>1, <1>6, <2>1, HandlingFrame
<1>10. FineInv'
  <2> SUFFICES ASSUME faults' = 0 PROVE FineInv'
    BY DEF FineInv
  <2>1. faults = 0 /\ posts[Len(posts)].at \in {"ok", "error"} /\ posts' = Answered
    <3>1. faults = 0 /\ faults' = faults
      BY <1>3
    <3>2. ~Fault
      BY <3>1 DEF Fault
    <3> QED BY <1>1, <3>1, <3>2
  <2>2. Len(posts) = 1
    BY <1>0, <1>4, <2>1 DEF FineInv
  <2>3. posts' = <<>>
    BY <1>5, <2>1, <2>2
  <2>4. \A e : ~ToGo(e, Len(posts))
    BY <2>1, EmptyElems DEF ToGo, Todo
  <2>5. \A e \in Elems(buf) : handled[e] = 1 \/ Dropped(e)
    BY <1>0, <1>1, <2>1, <2>4 DEF FineInv
  <2>6. EventsAccounted'
    <3>1. EventsAccounted
      BY <1>0, <2>1 DEF FineInv
    <3> QED BY <1>1, <2>1, <2>5, <3>1, EmptyElems DEF EventsAccounted, Dropped
  <2> QED BY <1>1, <2>3, <2>6 DEF FineInv
<1>11. PostsInv' /\ StreamInv'
  BY <1>1, <1>6, RunnerFrame
<1> QED BY <1>7, <1>8, <1>9, <1>10, <1>11 DEF StatusInv

\* Clean Up's sleep, and the end of exteriord.
LEMMA EndingStep ==
    ASSUME StatusInv, Sleep \/ Cancelled
    PROVE  StatusInv'
<1>0. TypeOK /\ OnePlace /\ OneHandling /\ PostsInv /\ FineInv /\ StreamInv
  BY DEF StatusInv
<1>1. /\ UNCHANGED <<game, nsent, pushes, msgChan, buf, posts, planeVars>>
      /\ UNCHANGED <<behind, clean, handled, nset, stream, shown, inbox>>
      /\ UNCHANGED faults \/ Fault
      /\ monitor' = monitor \/ monitor' = "done"
      /\ cleanUp' \in {"runs", "done"}
  BY <1>0 DEF Sleep, Cancelled, planeVars, streamVars, TypeOK
<1>2. Events' = Events /\ Script' = Script /\ Post' = Post
  BY <1>1, SameEvents
<1>3. faults' \in 0..MaxFaults /\ (faults' = 0 => faults = 0 /\ UNCHANGED faults)
  BY <1>0, <1>1, FaultCounted
<1>4. TypeOK'
  BY <1>0, <1>1, <1>2, <1>3 DEF TypeOK
<1>5. Waiting' \subseteq Waiting
  BY <1>1 DEF Waiting
<1>6. OnePlace'
  BY <1>0, <1>1, <1>5 DEF OnePlace
<1>7. OneHandling'
  <2>1. \A x \in Events : NotYet(x)' => NotYet(x)
    BY <1>1, <1>5 DEF NotYet
  <2> QED BY <1>1, <2>1, HandlingFrame
<1>8. FineInv'
  <2>1. faults' = 0 /\ EventsAccounted => EventsAccounted'
    BY <1>1, <1>3 DEF EventsAccounted
  <2> QED BY <1>0, <1>1, <1>3, <2>1 DEF FineInv, ToGo, Dropped
<1>9. PostsInv' /\ StreamInv'
  <2>1. monitor' = "posting" => posts' # <<>>
    BY <1>0, <1>1 DEF PostsInv
  <2> QED BY <1>1, <2>1, RunnerFrame
<1> QED BY <1>4, <1>6, <1>7, <1>8, <1>9 DEF StatusInv

-----------------------------------------------------------------------------
(***************************************************************************)
(* The control plane                                                       *)
(***************************************************************************)

\* A channel stays one when there is a post more.
LEMMA WiderInbox ==
    ASSUME NEW n \in Nat, NEW s \in Seq(1..n)
    PROVE  s \in Seq(1..(n + 1))
<1>1. s \in [1..Len(s) -> 1..n] /\ Len(s) \in Nat
  OBVIOUS
<1>2. s \in [1..Len(s) -> 1..(n + 1)]
  BY <1>1
<1> QED BY <1>1, <1>2, IsASeq

\* A new state widens the types of what pages show and wait for.
LEMMA SetStateTypes ==
    ASSUME TypeOK, SetState
    PROVE  /\ nset' \in Nat /\ nset' = nset + 1
           /\ \A u \in Users : shown[u] \in 0..nset' /\ inbox[u] \in Seq(1..nset')
<1>1. nset \in Nat /\ nset' = nset + 1 /\ shown \in [Users -> 0..nset] /\ inbox \in [Users -> Seq(1..nset)]
  BY DEF TypeOK, SetState
<1>2. \A u \in Users : shown[u] \in 0..nset'
  BY <1>1
<1>3. \A u \in Users : inbox[u] \in Seq(1..nset')
  BY <1>1, WiderInbox
<1> QED BY <1>1, <1>2, <1>3

\* One post changes: its handler does not take up events, and what it leaves behind was
\* handled once, or ignored after Shutdown.
LEMMA PostChanges ==
    ASSUME StatusInv, UNCHANGED runnerVars, NEW i \in DOMAIN posts, NEW q \in Post,
           posts' = [posts EXCEPT ![i] = q], UNCHANGED faults \/ Fault,
           Distinct(Todo(q)), Elems(Todo(q)) \subseteq Elems(Todo(posts[i])),
           \/ UNCHANGED handled
           \/ \E e \in Events : /\ ToGo(e, i) /\ e \notin Elems(Todo(q))
                                /\ handled' = [handled EXCEPT ![e] = @ + 1],
           behind \subseteq behind', clean # "none" => clean' # "none",
           faults' = 0 =>
               /\ q.at # "error"
               /\ \A e \in Elems(Todo(posts[i])) \ Elems(Todo(q)) : handled'[e] = 1 \/ Dropped(e)'
    PROVE  /\ posts' \in Seq(Post) /\ DOMAIN posts' = DOMAIN posts /\ posts'[i] = q
           /\ \A j \in DOMAIN posts : j # i => posts'[j] = posts[j]
           /\ handled' \in [Events -> Nat] /\ faults' \in 0..MaxFaults
           /\ OnePlace' /\ OneHandling' /\ FineInv'
<1>0. TypeOK /\ OnePlace /\ OneHandling /\ PostsInv /\ FineInv /\ StreamInv
  BY DEF StatusInv
<1>1. UNCHANGED <<game, nsent, pushes, msgChan, buf, monitor, cleanUp>>
  BY DEF runnerVars
<1>2. Events' = Events /\ Script' = Script /\ Post' = Post
  BY <1>1, SameEvents
<1>3. faults' \in 0..MaxFaults /\ (faults' = 0 => faults = 0 /\ UNCHANGED faults)
  BY <1>0, FaultCounted
<1>4. /\ posts \in Seq(Post) /\ handled \in [Events -> Nat]
      /\ Len(posts) \in Nat /\ DOMAIN posts = 1..Len(posts)
  BY <1>0 DEF TypeOK
<1>5. /\ posts' \in Seq(Post) /\ DOMAIN posts' = DOMAIN posts /\ Len(posts') = Len(posts) /\ posts'[i] = q
      /\ \A j \in DOMAIN posts : j # i => posts'[j] = posts[j]
  BY <1>4, ExceptSeq
<1>6. /\ \A e : ToGo(e, i)' <=> e \in Elems(Todo(q))
      /\ \A e : \A j \in DOMAIN posts : j # i => (ToGo(e, j)' <=> ToGo(e, j))
      /\ \A e : \A j \in DOMAIN posts : ToGo(e, j)' => ToGo(e, j)
  BY <1>5 DEF ToGo
<1>7. /\ handled' \in [Events -> Nat]
      /\ \A e \in Events : handled'[e] = handled[e]
            \/ (handled[e] = 0 /\ handled'[e] = 1 /\ ToGo(e, i) /\ ~ToGo(e, i)')
  <2>1. CASE UNCHANGED handled
    BY <1>4, <2>1
  <2>2. ASSUME NEW e \in Events, ToGo(e, i), e \notin Elems(Todo(q)), handled' = [handled EXCEPT ![e] = @ + 1]
        PROVE  /\ handled' \in [Events -> Nat]
               /\ \A x \in Events : handled'[x] = handled[x]
                     \/ (handled[x] = 0 /\ handled'[x] = 1 /\ ToGo(x, i) /\ ~ToGo(x, i)')
    <3>1. handled[e] = 0
      BY <1>0, <2>2 DEF OneHandling
    <3>2. handled'[e] = 1 /\ \A x \in Events : x # e => handled'[x] = handled[x]
      BY <1>4, <2>2, <3>1
    <3>3. handled' \in [Events -> Nat]
      BY <1>4, <2>2
    <3> QED BY <1>6, <2>2, <3>1, <3>2, <3>3
  <2> QED BY <2>1, <2>2
<1>w. Waiting' = Waiting
  BY <1>1 DEF Waiting
<1>8. OnePlace'
  BY <1>0, <1>1, <1>w DEF OnePlace
<1>9. OneHandling'
  <2>1. \A e \in Events : NotYet(e)' <=> NotYet(e)
    BY <1>1, <1>w DEF NotYet
  <2>2. \A e \in Events : NotYet(e)' => handled'[e] = 0 /\ \A j \in DOMAIN posts' : ~ToGo(e, j)'
    BY <1>0, <1>5, <1>6, <1>7, <2>1 DEF OneHandling
  <2>3. \A e \in Events, j \in DOMAIN posts :
          ToGo(e, j)' => handled'[e] = 0 /\ \A k \in DOMAIN posts : ToGo(e, k)' => k = j
    <3> SUFFICES ASSUME NEW e \in Events, NEW j \in DOMAIN posts, ToGo(e, j)'
                 PROVE  handled'[e] = 0 /\ \A k \in DOMAIN posts : ToGo(e, k)' => k = j
      OBVIOUS
    <3>1. ToGo(e, j) /\ handled[e] = 0 /\ \A k \in DOMAIN posts : ToGo(e, k) => k = j
      BY <1>0, <1>6 DEF OneHandling
    <3>2. handled'[e] = 0
      BY <1>7, <3>1
    <3> QED BY <1>6, <3>1, <3>2
  <2>4. \A j \in DOMAIN posts : Distinct(Todo(posts'[j]))
    BY <1>0, <1>5 DEF OneHandling
  <2>5. HandledOnce'
    BY <1>0, <1>2, <1>7 DEF HandledOnce, OneHandling
  <2> QED BY <1>2, <1>5, <2>2, <2>3, <2>4, <2>5 DEF OneHandling
<1>10. FineInv'
  <2> SUFFICES ASSUME faults' = 0 PROVE FineInv'
    BY DEF FineInv
  <2>1. faults = 0 /\ Len(posts) <= 1 /\ (monitor = "select" => posts = <<>>) /\ EventsAccounted
        /\ \A j \in DOMAIN posts : posts[j].at # "error"
    BY <1>0, <1>3 DEF FineInv
  <2>2. i = 1 /\ Len(posts) = 1 /\ monitor # "select"
    BY <1>4, <2>1
  <2>3. \A e \in Events : handled[e] = 1 => handled'[e] = 1
    BY <1>7
  <2>4. \A e \in 1..nsent : e \in Events
    <3>1. nsent \in 0..Len(Script) /\ Events = 1..Len(Script) /\ Len(Script) \in Nat
      BY <1>0, ScriptEvents DEF TypeOK
    <3> QED BY <3>1
  <2>5. EventsAccounted'
    BY <1>1, <2>1, <2>3, <2>4 DEF EventsAccounted
  <2>6. ASSUME monitor' = "posting", NEW e \in Elems(buf')
        PROVE  handled'[e] = 1 \/ ToGo(e, Len(posts))' \/ Dropped(e)'
    <3>1. e \in Elems(buf) /\ e \in Events
      BY <1>0, <1>1, ElemsIn DEF TypeOK
    <3>2. handled[e] = 1 \/ ToGo(e, i) \/ Dropped(e)
      BY <1>0, <1>1, <2>1, <2>2, <2>6, <3>1 DEF FineInv
    <3>3. ToGo(e, i) => ToGo(e, i)' \/ handled'[e] = 1 \/ Dropped(e)'
      BY <1>6 DEF ToGo
    <3>4. ToGo(e, i)' => ToGo(e, Len(posts))'
      BY <1>5, <2>2 DEF ToGo
    <3>5. Dropped(e) => Dropped(e)'
      BY DEF Dropped
    <3> QED BY <2>3, <3>1, <3>2, <3>3, <3>4, <3>5
  <2>7. \A j \in DOMAIN posts' : posts'[j].at # "error"
    BY <1>5, <2>1
  <2> QED BY <1>1, <1>5, <2>1, <2>2, <2>5, <2>6, <2>7 DEF FineInv
<1> QED BY <1>3, <1>5, <1>7, <1>8, <1>9, <1>10

\* What the handler's steps make of a post.
Becomes(i, todo, at, state) ==
    \E q \in Post :
        posts' = [posts EXCEPT ![i] = q] /\ q.todo = todo /\ q.at = at /\ q.state = state

\* How a step changes the post that the handler works on.
LEMMA PostEdits ==
    ASSUME StatusInv, NEW i \in DOMAIN posts
    PROVE  /\ posts[i].todo \in Seq(Events) /\ posts[i].state \in Nat
           /\ \A at \in {"next", "ok", "error"} : At(i, at) => Becomes(i, posts[i].todo, at, posts[i].state)
           /\ posts[i].todo # <<>> /\ Advance(i) => Becomes(i, Tail(posts[i].todo), "next", posts[i].state)
           /\ \A n \in Nat : posts' = [posts EXCEPT ![i].at = "publish", ![i].state = n]
                                => Becomes(i, posts[i].todo, "publish", n)
           /\ posts' = [posts EXCEPT ![i].todo = <<>>, ![i].at = "ok"]
                 => Becomes(i, <<>>, "ok", posts[i].state)
<1>1. posts[i] \in Post
  BY DEF StatusInv, TypeOK
<1>2. posts[i].todo \in Seq(Events) /\ posts[i].state \in Nat
  BY <1>1 DEF Post
<1>3. ASSUME NEW at \in {"next", "ok", "error"}, At(i, at)
      PROVE  Becomes(i, posts[i].todo, at, posts[i].state)
  <2> DEFINE q == [posts[i] EXCEPT !.at = at]
  <2>1. q \in Post /\ q.todo = posts[i].todo /\ q.at = at /\ q.state = posts[i].state
    BY <1>1 DEF Post
  <2>2. posts' = [posts EXCEPT ![i] = q]
    BY <1>3 DEF At
  <2> QED BY <2>1, <2>2 DEF Becomes
<1>4. ASSUME posts[i].todo # <<>>, Advance(i)
      PROVE  Becomes(i, Tail(posts[i].todo), "next", posts[i].state)
  <2> DEFINE q == [posts[i] EXCEPT !.todo = Tail(@), !.at = "next"]
  <2>1. Tail(posts[i].todo) \in Seq(Events)
    BY <1>2, <1>4
  <2>2. q \in Post /\ q.todo = Tail(posts[i].todo) /\ q.at = "next" /\ q.state = posts[i].state
    BY <1>1, <2>1 DEF Post
  <2>3. posts' = [posts EXCEPT ![i] = q]
    BY <1>4 DEF Advance
  <2> QED BY <2>2, <2>3 DEF Becomes
<1>5. ASSUME NEW n \in Nat, posts' = [posts EXCEPT ![i].at = "publish", ![i].state = n]
      PROVE  Becomes(i, posts[i].todo, "publish", n)
  <2> DEFINE q == [posts[i] EXCEPT !.at = "publish", !.state = n]
  <2>1. q \in Post /\ q.todo = posts[i].todo /\ q.at = "publish" /\ q.state = n
    BY <1>1 DEF Post
  <2>2. posts' = [posts EXCEPT ![i] = q]
    BY <1>5
  <2> QED BY <2>1, <2>2 DEF Becomes
<1>6. ASSUME posts' = [posts EXCEPT ![i].todo = <<>>, ![i].at = "ok"]
      PROVE  Becomes(i, <<>>, "ok", posts[i].state)
  <2> DEFINE q == [posts[i] EXCEPT !.todo = <<>>, !.at = "ok"]
  <2>0. <<>> \in Seq(Events)
    OBVIOUS
  <2>1. q \in Post /\ q.todo = <<>> /\ q.at = "ok" /\ q.state = posts[i].state
    BY <1>1, <2>0 DEF Post
  <2>2. posts' = [posts EXCEPT ![i] = q]
    BY <1>6
  <2> QED BY <2>1, <2>2 DEF Becomes
<1> QED BY <1>2, <1>3, <1>4, <1>5, <1>6

\* A step that publishes and sets nothing.
LEMMA SilentPost ==
    ASSUME StatusInv, UNCHANGED runnerVars, NEW i \in DOMAIN posts, NEW q \in Post,
           posts' = [posts EXCEPT ![i] = q], q.at # "publish",
           UNCHANGED <<nset, streamVars>>, UNCHANGED faults \/ Fault,
           clean' = clean \/ clean' = "start",
           behind' \subseteq Events, handled' \in [Events -> Nat],
           OnePlace', OneHandling', FineInv'
    PROVE  StatusInv'
<1>0. TypeOK /\ PostsInv /\ StreamInv
  BY DEF StatusInv
<1>1. UNCHANGED <<game, nsent, pushes, msgChan, buf, monitor, cleanUp>> /\ UNCHANGED <<stream, shown, inbox>>
  BY DEF runnerVars, streamVars
<1>2. Events' = Events /\ Script' = Script /\ Post' = Post
  BY <1>1, SameEvents
<1>3. faults' \in 0..MaxFaults /\ (faults' = 0 => faults = 0 /\ UNCHANGED faults)
  BY <1>0, FaultCounted
<1>4. /\ posts' \in Seq(Post) /\ DOMAIN posts' = DOMAIN posts /\ posts'[i] = q
      /\ \A j \in DOMAIN posts : j # i => posts'[j] = posts[j]
  <2>1. posts \in Seq(Post) /\ DOMAIN posts = 1..Len(posts)
    BY <1>0 DEF TypeOK
  <2> QED BY <2>1, ExceptSeq
<1>5. TypeOK'
  <2>1. clean' \in {"none", "start", "stopping", "work", "stopped", "over"}
    BY <1>0 DEF TypeOK
  <2> QED BY <1>0, <1>1, <1>2, <1>3, <1>4, <2>1 DEF TypeOK
<1>6. PostsInv'
  <2>1. posts # <<>> => posts' # <<>>
    BY <1>4
  <2> QED BY <1>0, <1>1, <1>4, <2>1 DEF PostsInv
<1>7. StreamInv'
  BY <1>0, <1>1, <1>3, <1>4 DEF StreamInv, InOrder
<1> QED BY <1>5, <1>6, <1>7 DEF StatusInv

\* handlePostStatus begins with a post or answers it.
LEMMA BeginOrEnd ==
    ASSUME StatusInv, NEW i \in DOMAIN posts, BeginPost(i) \/ EndPost(i)
    PROVE  StatusInv'
<1>1. /\ UNCHANGED <<runnerVars, behind, clean, handled, nset, streamVars>>
      /\ UNCHANGED faults \/ Fault
  BY DEF BeginPost, EndPost
<1>2. PICK at \in {"next", "ok", "error"} :
        /\ At(i, at) /\ (at = "error" => Fault)
        /\ \/ posts[i].at = "sent" /\ at # "ok"
           \/ posts[i].at = "next" /\ posts[i].todo = <<>> /\ at = "ok"
  BY DEF BeginPost, EndPost
<1>3. PICK q \in Post : posts' = [posts EXCEPT ![i] = q] /\ q.todo = posts[i].todo /\ q.at = at
  <2>1. Becomes(i, posts[i].todo, at, posts[i].state)
    BY <1>2, PostEdits
  <2> QED BY <2>1 DEF Becomes
<1>4. Todo(posts[i]) = posts[i].todo /\ (Todo(q) = posts[i].todo \/ at = "error" \/ posts[i].todo = <<>>)
      /\ (Todo(q) = posts[i].todo \/ Todo(q) = <<>>)
  BY <1>2, <1>3 DEF Todo
<1>5. Distinct(Todo(posts[i]))
  BY DEF StatusInv, OneHandling
<1>6. Distinct(Todo(q)) /\ Elems(Todo(q)) \subseteq Elems(Todo(posts[i]))
  BY <1>4, <1>5, EmptyElems
<1>7. faults' = 0 => at # "error"
  <2>1. TypeOK
    BY DEF StatusInv
  <2>2. faults' = 0 => ~Fault
    BY <2>1 DEF Fault, TypeOK
  <2> QED BY <1>2, <2>2
<1>8. faults' = 0 => \A e \in Elems(Todo(posts[i])) \ Elems(Todo(q)) : handled'[e] = 1 \/ Dropped(e)'
  BY <1>4, <1>7, EmptyElems
<1>9. OnePlace' /\ OneHandling' /\ FineInv' /\ handled' \in [Events -> Nat]
  BY <1>1, <1>3, <1>6, <1>7, <1>8, PostChanges
<1>10. q.at # "publish" /\ behind' \subseteq Events
  BY <1>1, <1>3 DEF StatusInv, TypeOK
<1> QED BY <1>1, <1>3, <1>9, <1>10, SilentPost

\* The handler looks at an event.
LEMMA HandleEventStep ==
    ASSUME StatusInv, NEW i \in DOMAIN posts, HandleEvent(i)
    PROVE  StatusInv'
<1>0. TypeOK /\ OnePlace /\ OneHandling /\ PostsInv /\ FineInv /\ StreamInv
  BY DEF StatusInv
<1>1. PICK e : e = Head(posts[i].todo)
  OBVIOUS
<1>2. /\ UNCHANGED runnerVars /\ posts[i].at = "next" /\ posts[i].todo # <<>>
      /\ handled' = [handled EXCEPT ![e] = @ + 1]
      /\ HandleShutdown(i, e) \/ HandleStatus(i, e) \/ HandleInfo(i, e) \/ HandleStored(i, e)
      /\ UNCHANGED faults \/ Fault
  BY <1>1 DEF HandleEvent, HandleShutdown, HandleStatus, HandleInfo, HandleStored
<1>3. Todo(posts[i]) = posts[i].todo /\ posts[i].todo \in Seq(Events) /\ Distinct(posts[i].todo)
  BY <1>0, <1>2, PostEdits DEF Todo, OneHandling
<1>4. PICK rest \in Seq(Events) : rest = Tail(posts[i].todo)
  BY <1>2, <1>3, TailElems
<1>5. /\ e \in Events /\ Elems(posts[i].todo) = Elems(rest) \cup {e}
      /\ Distinct(rest) /\ e \notin Elems(rest)
  BY <1>1, <1>2, <1>3, <1>4, TailElems
<1>6. ToGo(e, i) /\ handled[e] = 0
  BY <1>0, <1>3, <1>5 DEF ToGo, OneHandling
<1>7. handled'[e] = 1
  BY <1>0, <1>2, <1>5, <1>6 DEF TypeOK
<1>8. faults' = 0 => ~Fault
  BY <1>0 DEF Fault, TypeOK
\* It goes on, or gives up on an error.
<1>advance. ASSUME NEW q \in Post, posts' = [posts EXCEPT ![i] = q],
                   Todo(q) = rest \/ (q.at = "error" /\ Fault), q.at # "error" \/ Fault,
                   behind' = behind, clean' = clean
            PROVE  OnePlace' /\ OneHandling' /\ FineInv' /\ handled' \in [Events -> Nat]
  <2>1. Todo(q) = rest \/ Todo(q) = <<>>
    BY <1>advance DEF Todo
  <2>2. /\ Distinct(Todo(q)) /\ Elems(Todo(q)) \subseteq Elems(Todo(posts[i])) /\ e \notin Elems(Todo(q))
    BY <1>3, <1>5, <2>1, EmptyElems
  <2>3. faults' = 0 =>
           /\ q.at # "error"
           /\ \A x \in Elems(Todo(posts[i])) \ Elems(Todo(q)) : handled'[x] = 1 \/ Dropped(x)'
    BY <1>3, <1>5, <1>7, <1>8, <1>advance
  <2>4. \E x \in Events : /\ ToGo(x, i) /\ x \notin Elems(Todo(q))
                          /\ handled' = [handled EXCEPT ![x] = @ + 1]
    BY <1>2, <1>5, <1>6, <2>2
  <2> QED BY <1>2, <1>advance, <2>2, <2>3, <2>4, PostChanges
<1>9. CASE HandleShutdown(i, e)
  <2>1. /\ clean' = "start" /\ behind' = behind \cup Elems(rest)
        /\ posts' = [posts EXCEPT ![i].todo = <<>>, ![i].at = "ok"]
        /\ UNCHANGED <<nset, streamVars, faults>>
    BY <1>4, <1>9 DEF HandleShutdown
  <2>2. PICK q \in Post : posts' = [posts EXCEPT ![i] = q] /\ q.todo = <<>> /\ q.at = "ok"
    BY <2>1, PostEdits DEF Becomes
  <2>3. Todo(q) = <<>>
    BY <2>2 DEF Todo
  <2>4. Distinct(Todo(q)) /\ Elems(Todo(q)) = {}
    BY <2>3, EmptyElems
  <2>5. \A x \in Elems(Todo(posts[i])) : handled'[x] = 1 \/ Dropped(x)'
    BY <1>3, <1>5, <1>7, <2>1 DEF Dropped
  <2>6. OnePlace' /\ OneHandling' /\ FineInv' /\ handled' \in [Events -> Nat]
    <3>1. \E x \in Events : /\ ToGo(x, i) /\ x \notin Elems(Todo(q))
                            /\ handled' = [handled EXCEPT ![x] = @ + 1]
      BY <1>2, <1>5, <1>6, <2>4
    <3> QED BY <1>2, <2>1, <2>2, <2>4, <2>5, <3>1, PostChanges
  <2>7. behind' \subseteq Events /\ q.at # "publish"
    BY <1>0, <1>4, <2>1, <2>2, ElemsIn DEF TypeOK
  <2> QED BY <1>2, <2>1, <2>2, <2>6, <2>7, SilentPost
<1>10. CASE UNCHANGED <<behind, clean, nset, streamVars>> /\ (Advance(i) \/ (Fault /\ At(i, "error")))
  <2>1. PICK q \in Post : /\ posts' = [posts EXCEPT ![i] = q]
                          /\ (q.todo = rest /\ q.at = "next") \/ (q.at = "error" /\ Fault)
    BY <1>2, <1>4, <1>10, PostEdits DEF Becomes
  <2>2. Todo(q) = rest \/ (q.at = "error" /\ Fault)
    BY <2>1 DEF Todo
  <2>3. OnePlace' /\ OneHandling' /\ FineInv' /\ handled' \in [Events -> Nat]
    <3>1. q.at # "error" \/ Fault
      BY <2>1
    <3> QED BY <1>10, <1>advance, <2>1, <2>2, <3>1
  <2>4. q.at # "publish" /\ behind' \subseteq Events
    BY <1>0, <1>10, <2>1 DEF TypeOK
  <2> QED BY <1>2, <1>10, <2>1, <2>3, <2>4, SilentPost
<1>11. CASE /\ SetState /\ posts' = [posts EXCEPT ![i].at = "publish", ![i].state = nset']
            /\ UNCHANGED <<behind, clean, streamVars, faults>>
  <2>1. nset' \in Nat /\ nset' = nset + 1
    BY <1>0, <1>11 DEF TypeOK, SetState
  <2>2. PICK q \in Post : /\ posts' = [posts EXCEPT ![i] = q]
                          /\ q.todo = posts[i].todo /\ q.at = "publish" /\ q.state = nset'
    <3>1. Becomes(i, posts[i].todo, "publish", nset')
      BY <1>11, <2>1, PostEdits
    <3> QED BY <3>1 DEF Becomes
  <2>3. Todo(q) = rest
    BY <1>4, <2>2 DEF Todo
  <2>4. OnePlace' /\ OneHandling' /\ FineInv' /\ handled' \in [Events -> Nat]
    BY <1>11, <1>advance, <2>2, <2>3
  <2>5. /\ posts' \in Seq(Post) /\ DOMAIN posts' = DOMAIN posts /\ posts'[i] = q
        /\ \A j \in DOMAIN posts : j # i => posts'[j] = posts[j]
    <3>1. posts \in Seq(Post) /\ DOMAIN posts = 1..Len(posts)
      BY <1>0 DEF TypeOK
    <3> QED BY <2>2, <3>1, ExceptSeq
  <2>6. /\ UNCHANGED <<game, nsent, pushes, msgChan, buf, monitor, cleanUp>>
        /\ UNCHANGED <<stream, shown, inbox>>
    BY <1>2, <1>11 DEF runnerVars, streamVars
  <2>7. Events' = Events /\ Script' = Script /\ Post' = Post
    BY <2>6, SameEvents
  <2>8. TypeOK'
    <3>1. shown' \in [Users -> 0..nset'] /\ inbox' \in [Users -> Seq(1..nset')]
      <4>1. shown \in [Users -> 0..nset] /\ inbox \in [Users -> Seq(1..nset)]
        BY <1>0 DEF TypeOK
      <4>2. \A u \in Users : shown[u] \in 0..nset' /\ inbox[u] \in Seq(1..nset')
        BY <1>0, <1>11, SetStateTypes
      <4> QED BY <2>6, <4>1, <4>2
    <3> QED BY <1>0, <1>11, <2>1, <2>4, <2>5, <2>6, <2>7, <3>1 DEF TypeOK
  <2>9. PostsInv'
    <3>1. \A n \in 1..nset : n \in 1..nset'
      BY <1>0, <2>1 DEF TypeOK
    <3>2. nset' \in 1..nset'
      BY <1>0, <2>1 DEF TypeOK
    <3>3. posts # <<>> => posts' # <<>>
      BY <2>5
    <3> QED BY <1>0, <1>2, <2>2, <2>5, <2>6, <3>1, <3>2, <3>3 DEF PostsInv
  <2>10. StreamInv'
    <3>1. clean' \in {"stopping", "stopped"} => nset' > 0
      BY <1>0, <2>1 DEF TypeOK
    <3>2. faults' = 0 => \A j \in DOMAIN posts' : posts'[j].at = "publish" => posts'[j].state = nset'
      <4>1. faults' = 0 => Len(posts) <= 1
        BY <1>0, <1>11 DEF FineInv
      <4>2. DOMAIN posts = 1..Len(posts) /\ Len(posts) \in Nat
        BY <1>0 DEF TypeOK
      <4>3. faults' = 0 => \A j \in DOMAIN posts : j = i
        BY <4>1, <4>2
      <4> QED BY <2>2, <2>5, <4>3
    <3> QED BY <1>0, <1>11, <2>6, <3>1, <3>2 DEF StreamInv, InOrder
  <2> QED BY <2>4, <2>8, <2>9, <2>10 DEF StatusInv
<1> QED BY <1>2, <1>9, <1>10, <1>11 DEF HandleStatus, HandleInfo, HandleStored

\* Steps that handle no event.
LEMMA NothingHandled ==
    ASSUME StatusInv, UNCHANGED <<runnerVars, posts, behind, handled, faults>>,
           clean # "none" => clean' # "none"
    PROVE  OnePlace' /\ OneHandling' /\ FineInv'
<1>0. TypeOK /\ OnePlace /\ OneHandling /\ PostsInv /\ FineInv /\ StreamInv
  BY DEF StatusInv
<1>1. UNCHANGED <<game, nsent, pushes, msgChan, buf, monitor, cleanUp>>
  BY DEF runnerVars
<1>w. Waiting' = Waiting
  BY <1>1 DEF Waiting
<1>2. OnePlace'
  BY <1>0, <1>1, <1>w DEF OnePlace
<1>3. OneHandling'
  <2>1. \A e \in Events : NotYet(e)' => NotYet(e)
    BY <1>1, <1>w DEF NotYet
  <2> QED BY <1>1, <2>1, HandlingFrame
<1>4. FineInv'
  <2>1. EventsAccounted => EventsAccounted'
    BY <1>1 DEF EventsAccounted
  <2>2. \A e : Dropped(e) => Dropped(e)'
    BY DEF Dropped
  <2> QED BY <1>0, <1>1, <2>1, <2>2 DEF FineInv, ToGo
<1> QED BY <1>2, <1>3, <1>4

\* Publish reaches the open streams; the newest state comes last in its order.
LEMMA PublishStep ==
    ASSUME StatusInv, NEW n \in 1..nset, Publish(n), UNCHANGED <<stream, shown>>
    PROVE  /\ inbox' \in [Users -> Seq(1..nset)]
           /\ \A u \in Users : stream[u] # "open" => inbox'[u] = <<>>
           /\ n = nset => \A u \in Users : InOrder(u) => InOrder(u)'
<1>1. /\ inbox \in [Users -> Seq(1..nset)] /\ shown \in [Users -> 0..nset] /\ nset \in Nat
      /\ \A u \in Users : stream[u] # "open" => inbox[u] = <<>>
  BY DEF StatusInv, TypeOK, StreamInv
<1>2. \A u \in Users : inbox'[u] = IF stream[u] = "open" THEN Append(inbox[u], n) ELSE inbox[u]
  BY DEF Publish
<1>3. inbox' \in [Users -> Seq(1..nset)]
  <2>1. \A u \in Users : Append(inbox[u], n) \in Seq(1..nset) /\ inbox[u] \in Seq(1..nset)
    BY <1>1, AppendElems
  <2> QED BY <2>1 DEF Publish
<1>4. ASSUME n = nset, NEW u \in Users, InOrder(u) PROVE InOrder(u)'
  <2>1. CASE inbox'[u] = inbox[u]
    BY <1>4, <2>1 DEF InOrder
  <2>2. CASE inbox'[u] = Append(inbox[u], n)
    <3>0. inbox[u] \in Seq(1..nset) /\ shown[u] \in 0..nset /\ shown'[u] = shown[u]
      BY <1>1
    <3> DEFINE L == Len(inbox[u])
    <3>1. /\ L \in Nat /\ Len(inbox'[u]) = L + 1
          /\ \A k \in 1..L : inbox'[u][k] = inbox[u][k] /\ inbox[u][k] \in 1..nset
          /\ inbox'[u][L + 1] = nset
      BY <1>4, <2>2, <3>0
    <3>2. \A k \in 1..L : /\ shown[u] <= inbox[u][k]
                          /\ \A l \in 1..L : k <= l => inbox[u][k] <= inbox[u][l]
      BY <1>4 DEF InOrder
    <3> HIDE DEF L
    <3>3. \A k \in 1..(L + 1) : shown[u] <= inbox'[u][k]
      <4>1. \A k \in 1..(L + 1) : k \in 1..L \/ k = L + 1
        BY <3>1
      <4>2. shown[u] <= nset
        BY <1>1, <3>0
      <4> QED BY <3>1, <3>2, <4>1, <4>2
    <3>4. \A k \in 1..(L + 1) : \A l \in 1..(L + 1) : k <= l => inbox'[u][k] <= inbox'[u][l]
      <4> SUFFICES ASSUME NEW k \in 1..(L + 1), NEW l \in 1..(L + 1), k <= l
                   PROVE  inbox'[u][k] <= inbox'[u][l]
        OBVIOUS
      <4>1. CASE l \in 1..L
        <5>1. k \in 1..L
          BY <3>1, <4>1
        <5> QED BY <3>1, <3>2, <4>1, <5>1
      <4>2. CASE l = L + 1
        BY <1>1, <3>1, <4>2
      <4> QED BY <3>1, <4>1, <4>2
    <3> QED BY <3>0, <3>1, <3>3, <3>4 DEF InOrder
  <2> QED BY <1>2, <2>1, <2>2
<1> QED BY <1>1, <1>2, <1>3, <1>4

\* handlePostStatus publishes the state it has stored.
LEMMA PublishStatusStep ==
    ASSUME StatusInv, NEW i \in DOMAIN posts, PublishStatus(i)
    PROVE  StatusInv'
<1>0. TypeOK /\ OnePlace /\ OneHandling /\ PostsInv /\ FineInv /\ StreamInv
  BY DEF StatusInv
<1>1. /\ UNCHANGED runnerVars /\ UNCHANGED <<behind, clean, handled, nset, stream, shown>>
      /\ posts[i].at = "publish" /\ Advance(i) /\ (UNCHANGED faults \/ Fault)
      /\ Publish(posts[i].state) \/ (UNCHANGED inbox /\ Fault)
  BY DEF PublishStatus
<1>2. posts[i].todo # <<>> /\ posts[i].state \in 1..nset
  BY <1>0, <1>1 DEF PostsInv
<1>3. PICK q \in Post : posts' = [posts EXCEPT ![i] = q] /\ q.todo = Tail(posts[i].todo) /\ q.at = "next"
  <2>1. Becomes(i, Tail(posts[i].todo), "next", posts[i].state)
    BY <1>1, <1>2, PostEdits
  <2> QED BY <2>1 DEF Becomes
<1>4. Todo(q) = Todo(posts[i])
  BY <1>1, <1>3 DEF Todo
<1>5. /\ posts' \in Seq(Post) /\ DOMAIN posts' = DOMAIN posts /\ posts'[i] = q
      /\ \A j \in DOMAIN posts : j # i => posts'[j] = posts[j]
      /\ faults' \in 0..MaxFaults /\ OnePlace' /\ OneHandling' /\ FineInv'
  <2>1. Distinct(Todo(q)) /\ Elems(Todo(q)) \subseteq Elems(Todo(posts[i])) /\ q.at # "error"
    BY <1>0, <1>3, <1>4 DEF OneHandling
  <2>2. \A e \in Elems(Todo(posts[i])) \ Elems(Todo(q)) : handled'[e] = 1 \/ Dropped(e)'
    BY <1>4
  <2> QED BY <1>1, <1>3, <2>1, <2>2, PostChanges
<1>6. UNCHANGED <<game, nsent, pushes, msgChan, buf, monitor, cleanUp>>
  BY <1>1 DEF runnerVars
<1>7. Events' = Events /\ Script' = Script /\ Post' = Post
  BY <1>6, SameEvents
<1>8. /\ inbox' \in [Users -> Seq(1..nset)]
      /\ \A u \in Users : stream[u] # "open" => inbox'[u] = <<>>
  <2>1. CASE Publish(posts[i].state)
    BY <1>1, <1>2, <2>1, PublishStep
  <2>2. CASE UNCHANGED inbox
    BY <1>0, <2>2 DEF TypeOK, StreamInv
  <2> QED BY <1>1, <2>1, <2>2
<1>9. TypeOK'
  BY <1>0, <1>1, <1>5, <1>6, <1>7, <1>8 DEF TypeOK
<1>10. PostsInv'
  <2>1. posts # <<>> => posts' # <<>>
    BY <1>5
  <2> QED BY <1>0, <1>1, <1>3, <1>5, <1>6, <2>1 DEF PostsInv
<1>11. StreamInv'
  <2>1. ASSUME faults' = 0, clean = "none"
        PROVE  /\ \A j \in DOMAIN posts' : posts'[j].at = "publish" => posts'[j].state = nset
               /\ \A u \in Users : InOrder(u)'
    <3>1. faults = 0 /\ UNCHANGED faults
      BY <1>0, <1>1, <2>1, FaultCounted
    <3>2. ~Fault
      BY <1>0, <3>1 DEF Fault, TypeOK
    <3>3. /\ posts[i].state = nset /\ \A u \in Users : InOrder(u)
          /\ \A j \in DOMAIN posts : posts[j].at = "publish" => posts[j].state = nset
      <4>1. clean = "none"
        BY <2>1
      <4> QED BY <1>0, <1>1, <3>1, <4>1 DEF StreamInv
    <3>4. \A u \in Users : InOrder(u)'
      BY <1>1, <1>2, <3>2, <3>3, PublishStep
    <3> QED BY <1>3, <1>5, <3>3, <3>4
  <2> QED BY <1>0, <1>1, <1>8, <2>1 DEF StreamInv
<1> QED BY <1>5, <1>9, <1>10, <1>11 DEF StatusInv

\* Clean sets and publishes the page of a stopped server.
LEMMA CleanStep ==
    ASSUME StatusInv, CleanSets \/ CleanPublishes
    PROVE  StatusInv'
<1>0. TypeOK /\ OnePlace /\ OneHandling /\ PostsInv /\ FineInv /\ StreamInv
  BY DEF StatusInv
<1>1. /\ UNCHANGED <<runnerVars, posts, behind, handled, stream, shown, faults>>
      /\ UNCHANGED <<game, nsent, pushes, msgChan, buf, monitor, cleanUp>>
      /\ clean' \in {"stopping", "work", "stopped", "over"}
  BY DEF CleanSets, CleanPublishes, streamVars, runnerVars
<1>2. Events' = Events /\ Script' = Script /\ Post' = Post
  BY <1>1, SameEvents
<1>3. OnePlace' /\ OneHandling' /\ FineInv'
  BY <1>1, NothingHandled
<1>4. /\ nset' \in Nat /\ nset <= nset' /\ (clean' \in {"stopping", "stopped"} => nset' > 0)
      /\ shown' \in [Users -> 0..nset'] /\ inbox' \in [Users -> Seq(1..nset')]
      /\ \A u \in Users : stream[u] # "open" => inbox'[u] = <<>>
  <2>1. /\ nset \in Nat /\ shown \in [Users -> 0..nset] /\ inbox \in [Users -> Seq(1..nset)]
        /\ \A u \in Users : stream[u] # "open" => inbox[u] = <<>>
    BY <1>0 DEF TypeOK, StreamInv
  <2>2. CASE CleanSets
    <3>1. SetState /\ UNCHANGED inbox
      BY <2>2 DEF CleanSets, streamVars
    <3>2. /\ nset' \in Nat /\ nset' = nset + 1
          /\ \A u \in Users : shown[u] \in 0..nset' /\ inbox[u] \in Seq(1..nset')
      BY <1>0, <3>1, SetStateTypes
    <3>3. nset <= nset' /\ nset' > 0
      BY <2>1, <3>2
    <3> QED BY <1>1, <2>1, <3>1, <3>2, <3>3
  <2>3. CASE CleanPublishes
    <3>1. /\ Publish(nset) /\ UNCHANGED nset /\ clean' \in {"work", "over"}
          /\ clean \in {"stopping", "stopped"}
      BY <2>3 DEF CleanPublishes
    <3>2. nset \in 1..nset
      BY <1>0, <2>1, <3>1 DEF StreamInv
    <3>3. /\ inbox' \in [Users -> Seq(1..nset)]
          /\ \A u \in Users : stream[u] # "open" => inbox'[u] = <<>>
      BY <1>1, <3>1, <3>2, PublishStep
    <3> QED BY <1>1, <2>1, <3>1, <3>3
  <2> QED BY <2>2, <2>3
<1>5. TypeOK'
  BY <1>0, <1>1, <1>2, <1>4 DEF TypeOK
<1>6. PostsInv'
  <2>1. \A n \in 1..nset : n \in 1..nset'
    BY <1>0, <1>4 DEF TypeOK
  <2> QED BY <1>0, <1>1, <2>1 DEF PostsInv
<1>7. StreamInv'
  BY <1>1, <1>4 DEF StreamInv
<1> QED BY <1>3, <1>5, <1>6, <1>7 DEF StatusInv

-----------------------------------------------------------------------------
(***************************************************************************)
(* The browsers                                                            *)
(***************************************************************************)

\* A stream of a browser moves, and shows no older page than before.
LEMMA BrowserStep ==
    ASSUME StatusInv, NEW u \in Users, StreamStep(u)
    PROVE  /\ StatusInv'
           /\ \A w \in Users : faults = 0 /\ clean = "none" /\ stream'[w] # "closed" => shown'[w] >= shown[w]
<1>0. TypeOK /\ OnePlace /\ OneHandling /\ PostsInv /\ FineInv /\ StreamInv
  BY DEF StatusInv
<1>1. /\ UNCHANGED <<runnerVars, posts, behind, handled, clean, nset, faults>>
      /\ UNCHANGED <<game, nsent, pushes, msgChan, buf, monitor, cleanUp>>
  BY DEF StreamStep, GetState, Subscribe, WriteEvent, CloseStream, runnerVars
<1>2. Events' = Events /\ Script' = Script /\ Post' = Post
  BY <1>1, SameEvents
<1>3. OnePlace' /\ OneHandling' /\ FineInv'
  BY <1>1, NothingHandled
<1>4. /\ nset \in Nat /\ stream \in [Users -> {"closed", "got", "open"}]
      /\ shown \in [Users -> 0..nset] /\ inbox \in [Users -> Seq(1..nset)]
      /\ \A w \in Users : stream[w] # "open" => inbox[w] = <<>>
  BY <1>0 DEF TypeOK, StreamInv
<1>5. \A w \in Users : w # u => stream'[w] = stream[w] /\ shown'[w] = shown[w] /\ inbox'[w] = inbox[w]
  BY <1>4 DEF StreamStep, GetState, Subscribe, WriteEvent, CloseStream
<1>6. /\ stream' \in [Users -> {"closed", "got", "open"}]
      /\ shown' \in [Users -> 0..nset] /\ inbox' \in [Users -> Seq(1..nset)]
      /\ stream'[u] # "open" => inbox'[u] = <<>>
      /\ InOrder(u) => InOrder(u)' /\ (stream'[u] # "closed" => shown'[u] >= shown[u])
  <2>0. nset \in 0..nset /\ 0 \in 0..nset /\ <<>> \in Seq(1..nset) /\ shown[u] \in 0..nset
    BY <1>4
  <2>1. CASE GetState(u)
    <3>1. /\ stream' = [stream EXCEPT ![u] = "got"] /\ shown' = [shown EXCEPT ![u] = nset]
          /\ UNCHANGED inbox /\ inbox[u] = <<>>
      BY <1>4, <2>1 DEF GetState
    <3>2. InOrder(u)' /\ shown'[u] >= shown[u]
      BY <1>4, <2>0, <3>1 DEF InOrder
    <3> QED BY <1>4, <2>0, <3>1, <3>2
  <2>2. CASE Subscribe(u)
    <3>1. stream' = [stream EXCEPT ![u] = "open"] /\ UNCHANGED <<shown, inbox>>
      BY <2>2 DEF Subscribe
    <3>2. (InOrder(u) => InOrder(u)') /\ shown'[u] >= shown[u]
      BY <2>0, <3>1 DEF InOrder
    <3> QED BY <1>4, <3>1, <3>2
  <2>3. CASE WriteEvent(u)
    <3>1. /\ stream[u] = "open" /\ inbox[u] # <<>> /\ UNCHANGED stream
          /\ shown' = [shown EXCEPT ![u] = Head(inbox[u])]
          /\ inbox' = [inbox EXCEPT ![u] = Tail(@)]
      BY <2>3 DEF WriteEvent
    <3>2. PICK s \in Seq(1..nset) : s = inbox[u]
      BY <1>4
    <3>3. /\ Len(s) \in Nat /\ Len(s) > 0 /\ Head(s) = s[1] /\ Head(s) \in 1..nset
          /\ Tail(s) \in Seq(1..nset) /\ Len(Tail(s)) = Len(s) - 1
          /\ \A k \in 1..(Len(s) - 1) : Tail(s)[k] = s[k + 1]
      <4>1. s # <<>>
        BY <3>1, <3>2
      <4>2. Head(s) \in 1..nset /\ Tail(s) \in Seq(1..nset) /\ Len(Tail(s)) = Len(s) - 1
        BY <4>1, TailElems
      <4> QED BY <4>1, <4>2
    <3>4. shown'[u] = s[1] /\ inbox'[u] = Tail(s) /\ s[1] \in 0..nset
      BY <1>4, <3>1, <3>2, <3>3
    <3>5. ASSUME InOrder(u) PROVE InOrder(u)' /\ shown'[u] >= shown[u]
      <4>1. \A k \in 1..Len(s) : shown[u] <= s[k] /\ \A l \in 1..Len(s) : k <= l => s[k] <= s[l]
        BY <3>2, <3>5 DEF InOrder
      <4>2. 1 \in 1..Len(s) /\ s[1] \in 0..nset /\ shown[u] <= s[1]
        BY <3>3, <3>4, <4>1
      <4>3. \A k \in 1..(Len(s) - 1) : k + 1 \in 1..Len(s) /\ 1 <= k + 1
        BY <3>3
      <4>4. \A k \in 1..(Len(s) - 1) : s[1] <= Tail(s)[k]
        BY <3>3, <4>1, <4>2, <4>3
      <4>5. \A k \in 1..(Len(s) - 1), l \in 1..(Len(s) - 1) : k <= l => Tail(s)[k] <= Tail(s)[l]
        <5> SUFFICES ASSUME NEW k \in 1..(Len(s) - 1), NEW l \in 1..(Len(s) - 1), k <= l
                     PROVE  Tail(s)[k] <= Tail(s)[l]
          OBVIOUS
        <5>1. k + 1 <= l + 1
          OBVIOUS
        <5> QED BY <3>3, <4>1, <4>3, <5>1
      <4>6. InOrder(u)'
        BY <3>3, <3>4, <4>4, <4>5 DEF InOrder
      <4> QED BY <2>0, <3>4, <4>2, <4>6
    <3> QED BY <1>4, <3>1, <3>2, <3>3, <3>4, <3>5
  <2>4. CASE CloseStream(u)
    <3>1. /\ stream' = [stream EXCEPT ![u] = "closed"] /\ shown' = [shown EXCEPT ![u] = 0]
          /\ inbox' = [inbox EXCEPT ![u] = <<>>]
      BY <2>4 DEF CloseStream
    <3>2. inbox'[u] = <<>> /\ stream'[u] = "closed"
      BY <1>4, <3>1
    <3>3. InOrder(u)'
      BY <3>2 DEF InOrder
    <3> QED BY <1>4, <2>0, <3>1, <3>2, <3>3
  <2> QED BY <2>1, <2>2, <2>3, <2>4 DEF StreamStep
<1>7. \A w \in Users : InOrder(w) => InOrder(w)'
  BY <1>5, <1>6 DEF InOrder
<1>8. TypeOK'
  BY <1>0, <1>1, <1>2, <1>6 DEF TypeOK
<1>9. PostsInv'
  BY <1>0, <1>1 DEF PostsInv
<1>10. StreamInv'
  <2>1. \A w \in Users : stream'[w] # "open" => inbox'[w] = <<>>
    BY <1>4, <1>5, <1>6
  <2> QED BY <1>0, <1>1, <1>7, <2>1 DEF StreamInv
<1>11. \A w \in Users : faults = 0 /\ clean = "none" /\ stream'[w] # "closed" => shown'[w] >= shown[w]
  <2> SUFFICES ASSUME NEW w \in Users, faults = 0, clean = "none", stream'[w] # "closed"
               PROVE  shown'[w] >= shown[w]
    OBVIOUS
  <2>1. CASE w = u
    BY <1>0, <1>6, <2>1 DEF StreamInv
  <2>2. CASE w # u
    <3>1. shown'[w] = shown[w] /\ shown[w] \in 0..nset
      BY <1>4, <1>5, <2>2
    <3> QED BY <1>4, <3>1
  <2> QED BY <2>1, <2>2
<1> QED BY <1>3, <1>8, <1>9, <1>10, <1>11 DEF StatusInv

-----------------------------------------------------------------------------
(***************************************************************************)
(* The system                                                              *)
(***************************************************************************)

\* The invariant holds before the first event.
LEMMA StatusStart == Init => StatusInv
<1> SUFFICES ASSUME Init PROVE StatusInv
  OBVIOUS
<1>1. /\ game \in Games /\ nsent = 0 /\ pushes = {} /\ msgChan = <<>> /\ buf = <<>>
      /\ monitor = "select" /\ cleanUp = "runs" /\ posts = <<>> /\ behind = {} /\ clean = "none"
      /\ handled = [e \in Events |-> 0] /\ nset = 0 /\ faults = 0
      /\ stream = [u \in Users |-> "closed"] /\ shown = [u \in Users |-> 0]
      /\ inbox = [u \in Users |-> <<>>]
  BY DEF Init
<1>2. Len(Script) \in Nat /\ MaxFaults \in Nat /\ ChanCap \in Nat
  BY <1>1, ScriptEvents, StatusAssumption
<1>3. TypeOK
  <2>1. nsent \in 0..Len(Script) /\ faults \in 0..MaxFaults /\ Len(msgChan) <= ChanCap
    BY <1>1, <1>2
  <2>2. msgChan \in Seq(Events) /\ buf \in Seq(Events) /\ posts \in Seq(Post)
    BY <1>1
  <2>3. shown \in [Users -> 0..nset] /\ inbox \in [Users -> Seq(1..nset)]
    BY <1>1
  <2>4. handled \in [Events -> Nat] /\ nset \in Nat /\ stream \in [Users -> {"closed", "got", "open"}]
    BY <1>1
  <2> QED BY <1>1, <2>1, <2>2, <2>3, <2>4 DEF TypeOK
<1>4. OnePlace
  BY <1>1, EmptyElems DEF OnePlace, Waiting
<1>5. DOMAIN posts = {} /\ Len(posts) = 0 /\ 1..nsent = {}
  BY <1>1
<1>6. OneHandling
  BY <1>1, <1>5 DEF OneHandling, HandledOnce
<1>7. PostsInv
  BY <1>1, <1>5 DEF PostsInv
<1>8. FineInv
  BY <1>1, <1>5 DEF FineInv, EventsAccounted
<1>9. StreamInv
  BY <1>1, <1>5 DEF StreamInv, InOrder
<1> QED BY <1>3, <1>4, <1>6, <1>7, <1>8, <1>9 DEF StatusInv

\* Every step from the runner to the browsers preserves the invariant.
LEMMA StatusStep == StatusInv /\ [Next]_vars => StatusInv'
<1> SUFFICES ASSUME StatusInv, [Next]_vars PROVE StatusInv'
  OBVIOUS
<1>1. CASE UNCHANGED vars
  <2>1. UNCHANGED <<runnerVars, posts, behind, clean, handled, nset, streamVars, faults>>
    BY <1>1 DEF vars, planeVars
  <2>2. /\ UNCHANGED <<game, nsent, pushes, msgChan, buf, monitor, cleanUp>>
        /\ UNCHANGED <<stream, shown, inbox>>
    BY <2>1 DEF runnerVars, streamVars
  <2>3. Events' = Events /\ Script' = Script /\ Post' = Post
    BY <2>2, SameEvents
  <2>4. OnePlace' /\ OneHandling' /\ FineInv'
    BY <2>1, NothingHandled
  <2>5. TypeOK'
    BY <2>1, <2>2, <2>3 DEF StatusInv, TypeOK
  <2>6. PostsInv' /\ StreamInv'
    BY <2>1, <2>2 DEF StatusInv, PostsInv, StreamInv, InOrder
  <2> QED BY <2>4, <2>5, <2>6 DEF StatusInv
<1>2. CASE SendEvent \/ Sleep \/ MonitorStep
  BY <1>2, SendEventStep, EndingStep, ReceiveEventStep, TickStep, PostReturnsStep DEF MonitorStep
<1>3. CASE CleanSets \/ CleanPublishes
  BY <1>3, CleanStep
<1>4. ASSUME NEW e \in Events, HandleStatusPush(e) PROVE StatusInv'
  BY <1>4, StatusPushStep
<1>5. ASSUME NEW i \in DOMAIN posts, PostStep(i) PROVE StatusInv'
  BY <1>5, BeginOrEnd, HandleEventStep, PublishStatusStep DEF PostStep
<1>6. ASSUME NEW u \in Users, StreamStep(u) PROVE StatusInv'
  BY <1>6, BrowserStep
<1> QED BY <1>1, <1>2, <1>3, <1>4, <1>5, <1>6 DEF Next

\* The invariant holds for every game and set of users.
LEMMA StatusSafe == Spec => []StatusInv
BY StatusStart, StatusStep, PTL DEF Spec

\* Channel, buffer, posts and streams keep their types; the channel never holds more than
\* its capacity.
THEOREM TypeCorrect == Spec => []TypeOK
<1>1. StatusInv => TypeOK
  BY DEF StatusInv
<1> QED BY <1>1, StatusSafe, PTL

\* handlePostStatus handles an event once at most, even if the answer of its post was
\* lost and the handler goes on while HandleMonitor posts again.
THEOREM NeverHandledTwice == Spec => []HandledOnce
<1>1. StatusInv => HandledOnce
  BY DEF StatusInv, OneHandling
<1> QED BY <1>1, StatusSafe, PTL

\* Unless a call fails, an event that was sent was handled, is in a goroutine, in msgChan
\* or in the buffer, or was behind a Shutdown: HandleMonitor resets its buffer only when
\* the handler is through with it.
THEOREM NothingLost == Spec => []EventsAccounted
<1>1. StatusInv => EventsAccounted
  BY DEF StatusInv, FineInv, EventsAccounted
<1> QED BY <1>1, StatusSafe, PTL

\* Until Clean publishes too, and unless a call fails, no page goes back to an older
\* state: what waits for it is in the order in which the states were set.
THEOREM PagesGoForward == Spec => StreamNeverGoesBack
<1> DEFINE Forward ==
        \A u \in Users :
            faults = 0 /\ clean = "none" /\ stream'[u] # "closed" => shown'[u] >= shown[u]
<1>1. StatusInv /\ [Next]_vars => [Forward]_vars
  <2> SUFFICES ASSUME StatusInv, Next PROVE Forward
    OBVIOUS
  <2>1. ASSUME UNCHANGED shown PROVE Forward
    <3>1. shown \in [Users -> 0..nset] /\ nset \in Nat
      BY DEF StatusInv, TypeOK
    <3>2. \A u \in Users : shown[u] >= shown[u]
      BY <3>1
    <3> QED BY <2>1, <3>2
  <2>2. CASE \E u \in Users : StreamStep(u)
    BY <2>2, BrowserStep
  <2>3. CASE ~ \E u \in Users : StreamStep(u)
    <3>1. UNCHANGED shown
      BY <2>3 DEF Next, SendEvent, Sleep, MonitorStep, ReceiveEvent, Tick, PostReturns, Cancelled, CleanSets,
         CleanPublishes, HandleStatusPush, PostStep, BeginPost, EndPost, HandleEvent, HandleShutdown,
         HandleStatus, HandleInfo, HandleStored, PublishStatus, planeVars, streamVars
    <3> QED BY <2>1, <3>1
  <2> QED BY <2>2, <2>3
<1> QED BY <1>1, StatusSafe, PTL DEF Spec, StreamNeverGoesBack

-----------------------------------------------------------------------------
(***************************************************************************)
(* The abstract delivery                                                   *)
(***************************************************************************)

AtRunner == pushes \cup Elems(msgChan) \cup Waiting

\* An event is under way while it is with exteriord or a post has it to go.
LEMMA UnderwayIs == \A x : x \in Underway <=> x \in AtRunner \/ \E i \in DOMAIN posts : ToGo(x, i)
BY DEF Underway, AtRunner, ToGo

\* An event that was handled is not under way any more.
LEMMA HandledIsOver == StatusInv => \A x \in Events : handled[x] # 0 => x \notin Underway
BY UnderwayIs DEF StatusInv, OneHandling, NotYet, AtRunner

\* A post is appended.
LEMMA PostedIsToGo ==
    ASSUME StatusInv, NEW events \in Seq(Events), PostStatus(events)
    PROVE  \A x : (\E i \in DOMAIN posts' : ToGo(x, i)') =>
              x \in Elems(events) \/ \E i \in DOMAIN posts : ToGo(x, i)
<1> DEFINE new == [todo |-> events, at |-> "sent", state |-> 0]
<1>1. Todo(new) = events /\ new \in Post
  BY DEF Todo, Post
<1>2. posts \in Seq(Post) /\ posts' = Append(posts, new)
  BY DEF StatusInv, TypeOK, PostStatus
<1> HIDE DEF new
<1>3. \A i \in DOMAIN posts' : posts'[i] = new \/ (i \in DOMAIN posts /\ posts'[i] = posts[i])
  BY <1>1, <1>2
<1> QED BY <1>1, <1>3 DEF ToGo

\* The handler of a post takes up no event.
LEMMA HandlerTakesNothing ==
    ASSUME StatusInv, NEW i \in DOMAIN posts, PostStep(i)
    PROVE  \A x : (\E j \in DOMAIN posts' : ToGo(x, j)') => \E j \in DOMAIN posts : ToGo(x, j)
<1>1. /\ posts \in Seq(Post) /\ posts[i].todo \in Seq(Events) /\ DOMAIN posts = 1..Len(posts)
  <2>1. posts \in Seq(Post)
    BY DEF StatusInv, TypeOK
  <2>2. posts[i].todo \in Seq(Events)
    BY PostEdits
  <2> QED BY <2>1, <2>2
<1>2. PICK q \in Post :
        /\ posts' = [posts EXCEPT ![i] = q]
        /\ \/ q.at \in {"ok", "error"}
           \/ posts[i].at = "sent" /\ q.at = "next" /\ q.todo = posts[i].todo
           \/ /\ posts[i].at = "next" /\ posts[i].todo # <<>>
              /\ q.at = "publish" /\ q.todo = posts[i].todo
           \/ /\ posts[i].at \in {"next", "publish"} /\ posts[i].todo # <<>>
              /\ q.at = "next" /\ q.todo = Tail(posts[i].todo)
  <2> DEFINE Case(q) ==
        /\ posts' = [posts EXCEPT ![i] = q]
        /\ \/ q.at \in {"ok", "error"}
           \/ posts[i].at = "sent" /\ q.at = "next" /\ q.todo = posts[i].todo
           \/ /\ posts[i].at = "next" /\ posts[i].todo # <<>>
              /\ q.at = "publish" /\ q.todo = posts[i].todo
           \/ /\ posts[i].at \in {"next", "publish"} /\ posts[i].todo # <<>>
              /\ q.at = "next" /\ q.todo = Tail(posts[i].todo)
  <2>1. ASSUME NEW at \in {"ok", "error"}, At(i, at) PROVE \E q \in Post : Case(q)
    <3>1. Becomes(i, posts[i].todo, at, posts[i].state)
      BY <2>1, PostEdits
    <3> QED BY <3>1 DEF Becomes
  <2>2. ASSUME posts[i].at = "sent", At(i, "next") PROVE \E q \in Post : Case(q)
    BY <2>2, PostEdits DEF Becomes
  <2>3. ASSUME posts[i].at \in {"next", "publish"}, Advance(i), posts[i].todo # <<>>
        PROVE  \E q \in Post : Case(q)
    BY <2>3, PostEdits DEF Becomes
  <2>4. CASE BeginPost(i) \/ EndPost(i)
    BY <2>1, <2>2, <2>4 DEF BeginPost, EndPost
  <2>5. CASE PublishStatus(i)
    <3>1. posts[i].at = "publish" /\ posts[i].todo # <<>> /\ Advance(i)
      BY <2>5 DEF PublishStatus, StatusInv, PostsInv
    <3> QED BY <2>3, <3>1
  <2>6. CASE HandleEvent(i)
    <3>1. PICK e : e = Head(posts[i].todo)
      OBVIOUS
    <3>2. /\ posts[i].at = "next" /\ posts[i].todo # <<>>
          /\ HandleShutdown(i, e) \/ HandleStatus(i, e) \/ HandleInfo(i, e) \/ HandleStored(i, e)
      BY <2>6, <3>1 DEF HandleEvent
    <3>3. CASE posts' = [posts EXCEPT ![i].todo = <<>>, ![i].at = "ok"]
      BY <3>3, PostEdits DEF Becomes
    <3>4. CASE SetState /\ posts' = [posts EXCEPT ![i].at = "publish", ![i].state = nset']
      <4>1. nset' \in Nat
        BY <3>4 DEF StatusInv, TypeOK, SetState
      <4>2. Becomes(i, posts[i].todo, "publish", nset')
        BY <3>4, <4>1, PostEdits
      <4> QED BY <3>2, <4>2 DEF Becomes
    <3>5. CASE Advance(i) \/ At(i, "error")
      BY <2>1, <2>3, <3>2, <3>5
    <3> QED BY <3>2, <3>3, <3>4, <3>5 DEF HandleShutdown, HandleStatus, HandleInfo, HandleStored
  <2> QED BY <2>4, <2>5, <2>6 DEF PostStep
<1>3. Elems(Todo(q)) \subseteq Elems(Todo(posts[i]))
  <2>1. CASE q.at \in {"ok", "error"}
    BY <2>1, EmptyElems DEF Todo
  <2>2. CASE posts[i].at = "sent" /\ q.at = "next" /\ q.todo = posts[i].todo
    BY <2>2 DEF Todo
  <2>3. posts[i].todo # <<>> => Elems(Tail(posts[i].todo)) \subseteq Elems(posts[i].todo)
    BY <1>1, TailElems
  <2>4. CASE posts[i].at = "next" /\ posts[i].todo # <<>> /\ q.at = "publish" /\ q.todo = posts[i].todo
    BY <2>3, <2>4 DEF Todo
  <2>5. CASE /\ posts[i].at \in {"next", "publish"} /\ posts[i].todo # <<>>
             /\ q.at = "next" /\ q.todo = Tail(posts[i].todo)
    BY <2>3, <2>5 DEF Todo
  <2> QED BY <1>2, <2>1, <2>2, <2>4, <2>5
<1>4. /\ DOMAIN posts' = DOMAIN posts /\ posts'[i] = q
      /\ \A j \in DOMAIN posts : j # i => posts'[j] = posts[j]
  BY <1>1, <1>2
<1> QED BY <1>3, <1>4 DEF ToGo

\* A step of the runner, of a post or of a stream is a step of the abstract delivery.
LEMMA DeliveryStep ==
    ASSUME StatusInv, StatusInv', [Next]_vars
    PROVE  [Delivery!Next]_<<Unsent, Underway, handled>>
<1> DEFINE Unseen(x) == \E i \in DOMAIN posts : ToGo(x, i)
<1>0. TypeOK /\ OnePlace /\ game \in Games
  BY DEF StatusInv, TypeOK
<1>1. /\ \A x : x \in Underway <=> x \in AtRunner \/ Unseen(x)
      /\ \A x : x \in Underway' <=> x \in AtRunner' \/ Unseen(x)'
  <2>1. \A x : x \in Underway <=> x \in AtRunner \/ Unseen(x)
    BY UnderwayIs
  <2>2. (\A x : x \in Underway <=> x \in AtRunner \/ Unseen(x))'
    BY UnderwayIs, PTL
  <2> QED BY <2>1, <2>2
<1> HIDE DEF Unseen
<1>over. (\A x \in Events : handled[x] # 0 => x \notin Underway)'
  BY HandledIsOver, PTL
<1>lose. ASSUME UNCHANGED <<game, nsent, handled>>, \A x : x \in AtRunner' \/ Unseen(x)' => x \in AtRunner \/ Unseen(x)
         PROVE  Delivery!Next
  <2>1. Unsent' = Unsent
    BY <1>lose DEF Unsent, Script
  <2>2. Underway' \subseteq Underway
    BY <1>1, <1>lose
  <2> QED BY <1>lose, <2>1, <2>2 DEF Delivery!Next, Delivery!Leave
<1>2. CASE SendEvent
  <2>1. /\ nsent' = nsent + 1 /\ nsent < Len(Script)
        /\ pushes' \subseteq pushes \cup {nsent'}
        /\ UNCHANGED <<game, msgChan, buf, monitor, posts, handled>>
    BY <1>2 DEF SendEvent, planeVars
  <2>2. nsent \in Nat /\ Len(Script) \in Nat /\ Len(Script') = Len(Script)
    BY <1>0, <2>1, ScriptEvents, SameEvents DEF TypeOK
  <2>3. Unsent' \subseteq Unsent /\ nsent' \in Unsent \ Unsent'
    BY <2>1, <2>2 DEF Unsent
  <2>4. AtRunner' \subseteq AtRunner \cup {nsent'}
    BY <2>1 DEF AtRunner, Waiting
  <2>5. \A x : Unseen(x)' => Unseen(x)
    BY <2>1 DEF Unseen, ToGo
  <2>6. Underway' \subseteq Underway \cup (Unsent \ Unsent')
    BY <1>1, <2>3, <2>4, <2>5
  <2> QED BY <2>1, <2>3, <2>6 DEF Delivery!Next, Delivery!Leave
<1>3. ASSUME NEW e \in Events, HandleStatusPush(e) PROVE Delivery!Next
  <2>1. /\ UNCHANGED <<game, nsent, buf, monitor, posts, handled>> /\ e \in pushes
        /\ pushes' = pushes \ {e} /\ msgChan' = Append(msgChan, e)
    BY <1>3 DEF HandleStatusPush, planeVars
  <2>2. Elems(msgChan') = Elems(msgChan) \cup {e}
    BY <1>0, <2>1, AppendElems DEF TypeOK
  <2>3. AtRunner' \subseteq AtRunner
    BY <2>1, <2>2 DEF AtRunner, Waiting
  <2>4. \A x : Unseen(x)' => Unseen(x)
    BY <2>1 DEF Unseen, ToGo
  <2> QED BY <1>lose, <2>1, <2>3, <2>4
<1>4. CASE ReceiveEvent \/ Tick
  <2>1. /\ UNCHANGED <<game, nsent, pushes, handled>> /\ monitor = "select"
        /\ PostStatus(buf') \/ UNCHANGED <<monitor, posts>>
    BY <1>4 DEF ReceiveEvent, Tick, planeVars
  <2>2. /\ msgChan \in Seq(Events) /\ buf \in Seq(Events)
    BY <1>0 DEF TypeOK
  <2>3. Elems(msgChan') \cup Elems(buf') \subseteq Elems(msgChan) \cup Elems(buf) /\ buf' \in Seq(Events)
    <3>1. CASE Tick
      BY <2>2, <3>1 DEF Tick
    <3>2. CASE ReceiveEvent
      <4>1. msgChan # <<>> /\ msgChan' = Tail(msgChan) /\ buf' = Append(buf, Head(msgChan))
        BY <3>2 DEF ReceiveEvent
      <4>2. Head(msgChan) \in Events /\ Elems(msgChan) = Elems(msgChan') \cup {Head(msgChan)}
        BY <2>2, <4>1, TailElems
      <4>3. buf' \in Seq(Events) /\ Elems(buf') = Elems(buf) \cup {Head(msgChan)}
        BY <2>2, <4>1, <4>2, AppendElems
      <4> QED BY <4>2, <4>3
    <3> QED BY <1>4, <3>1, <3>2
  <2>4. AtRunner' \subseteq AtRunner /\ Elems(buf') \subseteq AtRunner
    BY <2>1, <2>3 DEF AtRunner, Waiting
  <2>5. \A x : Unseen(x)' => x \in Elems(buf') \/ Unseen(x)
    <3>1. CASE PostStatus(buf')
      BY <2>3, <3>1, PostedIsToGo DEF Unseen
    <3>2. CASE UNCHANGED posts
      BY <3>2 DEF Unseen, ToGo
    <3> QED BY <2>1, <3>1, <3>2
  <2> QED BY <1>lose, <2>1, <2>4, <2>5
<1>5. CASE PostReturns
  <2>1. /\ UNCHANGED <<game, nsent, pushes, msgChan, handled>> /\ monitor = "posting"
        /\ buf' = <<>> /\ (posts' = Answered \/ posts' = posts)
    BY <1>5 DEF PostReturns, planeVars
  <2>2. AtRunner' \subseteq AtRunner
    BY <2>1, EmptyElems DEF AtRunner, Waiting
  <2>3. \A i \in DOMAIN posts' : i \in DOMAIN posts /\ posts'[i] = posts[i]
    <3>1. posts \in Seq(Post) /\ Len(posts) \in Nat /\ Len(posts) > 0 /\ DOMAIN posts = 1..Len(posts)
      BY <1>0, <2>1 DEF TypeOK, StatusInv, PostsInv
    <3>2. posts' = Answered => /\ DOMAIN posts' = 1..(Len(posts) - 1)
                               /\ \A i \in 1..(Len(posts) - 1) : posts'[i] = posts[i]
      BY <3>1 DEF Answered
    <3> QED BY <2>1, <3>1, <3>2
  <2>4. \A x : Unseen(x)' => Unseen(x)
    BY <2>3 DEF Unseen, ToGo
  <2> QED BY <1>lose, <2>1, <2>2, <2>4
<1>6. CASE Sleep \/ Cancelled
  <2>1. /\ UNCHANGED <<game, nsent, pushes, msgChan, buf, posts, handled>>
        /\ monitor' = monitor \/ monitor' = "done"
    BY <1>6 DEF Sleep, Cancelled, planeVars
  <2>2. AtRunner' \subseteq AtRunner /\ \A x : Unseen(x)' => Unseen(x)
    BY <2>1 DEF AtRunner, Waiting, Unseen, ToGo
  <2> QED BY <1>lose, <2>1, <2>2
<1>7. ASSUME NEW i \in DOMAIN posts, PostStep(i) PROVE Delivery!Next
  <2>1. UNCHANGED <<game, nsent, pushes, msgChan, buf, monitor>>
    BY <1>7 DEF PostStep, BeginPost, EndPost, HandleEvent, PublishStatus, runnerVars
  <2>2. AtRunner' = AtRunner /\ \A x : Unseen(x)' => Unseen(x)
    BY <1>7, <2>1, HandlerTakesNothing DEF AtRunner, Waiting, Unseen
  <2>3. CASE UNCHANGED handled
    BY <1>lose, <2>1, <2>2, <2>3
  <2>4. CASE HandleEvent(i)
    <3>1. PICK e : e = Head(posts[i].todo)
      OBVIOUS
    <3>2. /\ posts[i].at = "next" /\ posts[i].todo # <<>>
          /\ handled' = [handled EXCEPT ![e] = @ + 1]
      BY <2>4, <3>1 DEF HandleEvent
    <3>3. e \in Events /\ ToGo(e, i)
      <4>1. posts[i].todo \in Seq(Events) /\ Todo(posts[i]) = posts[i].todo
        BY <3>2, PostEdits DEF Todo
      <4>2. e \in Events /\ e \in Elems(posts[i].todo)
        BY <3>1, <3>2, <4>1, TailElems
      <4> QED BY <4>1, <4>2 DEF ToGo
    <3>4. e \in Underway
      BY <1>1, <3>3 DEF Unseen
    <3>5. e \notin Underway'
      <4>1. handled'[e] # 0 /\ e \in Events'
        <5>1. Events' = Events
          BY <2>1, SameEvents
        <5>2. handled \in [Events -> Nat]
          BY <1>0 DEF TypeOK
        <5>3. handled[e] \in Nat /\ handled'[e] = handled[e] + 1
          BY <3>2, <3>3, <5>2
        <5> QED BY <3>3, <5>1, <5>3
      <4> QED BY <4>1, <1>over
    <3>6. Unsent' = Unsent /\ Underway' \subseteq Underway
      BY <1>1, <2>1, <2>2 DEF Unsent, Script
    <3> QED BY <3>2, <3>4, <3>5, <3>6 DEF Delivery!Next, Delivery!Leave, Delivery!Arrive
  <2> QED BY <1>7, <2>3, <2>4 DEF PostStep, BeginPost, EndPost, PublishStatus
<1>8. ASSUME UNCHANGED <<runnerVars, posts, handled>>
      PROVE  UNCHANGED <<Unsent, Underway, handled>>
  BY <1>8 DEF runnerVars, Unsent, Script, Underway, Waiting
<1>9. CASE CleanSets \/ CleanPublishes \/ UNCHANGED vars
  BY <1>8, <1>9 DEF CleanSets, CleanPublishes, vars, planeVars
<1>10. ASSUME NEW u \in Users, StreamStep(u) PROVE UNCHANGED <<Unsent, Underway, handled>>
  BY <1>8, <1>10 DEF StreamStep, GetState, Subscribe, WriteEvent, CloseStream
<1> QED BY <1>2, <1>3, <1>4, <1>5, <1>6, <1>7, <1>9, <1>10 DEF Next, MonitorStep

\* The notifications, the channel, the buffer and the posts implement the abstract
\* delivery, for every game and any number of failing calls: no event is handled twice
\* or without having been sent, and one that was lost does not come back.
THEOREM DeliveryRefinement == Spec => ImplementsAtMostOnce
<1>1. Init => Delivery!Init
  <2> SUFFICES ASSUME Init PROVE Delivery!Init
    OBVIOUS
  <2>1. /\ game \in Games /\ nsent = 0 /\ pushes = {} /\ msgChan = <<>> /\ buf = <<>> /\ posts = <<>>
        /\ handled = [e \in Events |-> 0]
    BY DEF Init
  <2>2. Underway = {}
    BY <2>1, UnderwayIs, EmptyElems DEF AtRunner, Waiting
  <2>3. Unsent = Events
    BY <2>1, ScriptEvents DEF Unsent
  <2>4. Unsent \subseteq DOMAIN handled /\ handled = [x \in DOMAIN handled |-> 0]
    BY <2>1, <2>3
  <2> QED BY <2>2, <2>4 DEF Delivery!Init
<1>2. StatusInv /\ StatusInv' /\ [Next]_vars => [Delivery!Next]_<<Unsent, Underway, handled>>
  BY DeliveryStep
<1> QED BY <1>1, <1>2, StatusSafe, PTL DEF Spec, ImplementsAtMostOnce, Delivery!Spec
=============================================================================
