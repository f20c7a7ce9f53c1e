--------------------------- MODULE K8sInputProofs ---------------------------
(***************************************************************************)
(* K8sInput for any cluster, any asset types and any number of             *)
(* overlapping collections: a collection reads only filled stores, a Run   *)
(* that fails leaves no watcher at work, a pod is never published under a  *)
(* node of another name, an input that has ended only winds down, and a    *)
(* pod that stays is never lost.                                           *)
(***************************************************************************)
EXTENDS K8sInput, TLAPS

TypeOK ==
  /\ config \in ConfigurationType
  /\ pc \in {"begin", "init", "startNode", "startPod", "loop", "returned", "panicked"}
  /\ result \in {"none", "ok", "error"}
  /\ watcher \in [Watchers -> {"none", "created", "running", "stopped"}]
  /\ timer \in {"none", "armed", "fired"}
  /\ phase \in [Slots \X Kinds -> {"idle", "ready", "first", "list", "publishing"}]
  /\ nodes \in [Nodes -> {"new", "up", "gone"}]
  /\ nodeStore \subseteq Nodes
  /\ event.kind = "pod" => event.parent \in Nodes \cup {None}

\* How far Run has come is how far the watchers are.
RunPhases ==
  /\ pc \in {"begin", "init"} => \A k \in Watchers : watcher[k] = "none"
  /\ pc = "startNode" => \A k \in Watchers : watcher[k] # "running"
  /\ pc = "startPod" =>
       /\ "node" \in Watched => watcher["node"] = "running"
       /\ watcher["pod"] # "running"
  /\ pc = "loop" => \A k \in Watched : watcher[k] = "running"
  /\ result # "none" => pc \in {"returned", "panicked"}

\* The timer is set by a Run that has reached its loop, which alone begins
\* collections; what it has begun outlives it, and so do its watchers.
CollectPhases ==
  Busy \/ timer # "none" =>
    /\ pc \in {"loop", "returned"}
    /\ result # "error"
    /\ \A k \in Watched : watcher[k] = "running"

\* The store only has nodes that have been up, and they are never new again.
StoreHasBeenUp == \A n \in nodeStore : nodes[n] # "new"

IInv ==
  TypeOK /\ RunPhases /\ ErrorStopsWatchers /\ CollectPhases /\ StoreHasBeenUp /\ ParentIsHost

-----------------------------------------------------------------------------

\* The invariant holds initially.
LEMMA InitIInv == Init => IInv
<1> SUFFICES ASSUME Init PROVE IInv
  OBVIOUS
<1>1. TypeOK
  BY ConfigurationsAssumption DEF Init, TypeOK, NoEvent
<1>2. RunPhases /\ ErrorStopsWatchers
  BY DEF Init, RunPhases, ErrorStopsWatchers
<1>3. CollectPhases
  BY DEF Init, CollectPhases, Busy
<1>4. StoreHasBeenUp /\ ParentIsHost
  BY DEF Init, StoreHasBeenUp, ParentIsHost, NoEvent
<1> QED BY <1>1, <1>2, <1>3, <1>4 DEF IInv

\* A collection takes its own goroutines only, and only from idle to ready.
LEMMA CollectType ==
  ASSUME TypeOK, NEW s \in Slots, Collect(s)
  PROVE  phase' \in [Slots \X Kinds -> {"idle", "ready", "first", "list", "publishing"}]
<1> QED BY DEF TypeOK, Collect

\* Whoever is found under the name of a pod's node has that name, and is in
\* the store.
LEMMA NodeOfFound ==
  ASSUME NEW p, NodeOf(p) # None
  PROVE  NodeOf(p) \in nodeStore /\ NameOf[NodeOf(p)] = NameOf[HostOf[p]]
<1> PICK n \in nodeStore : NameOf[n] = NameOf[HostOf[p]]
  BY DEF NodeOf
<1> QED BY DEF NodeOf

\* The steps of Run: the watchers, every failure of them, and cancellation.
LEMMA RunStep == ASSUME IInv, Run PROVE IInv'
<1> USE DEF IInv
<1>u. UNCHANGED <<config, taskVars, clusterVars>>
  BY DEF Run, Begin, InitWatchers, StartNode, StartPod, StartFails, ReturnCancelled
<1>b. UNCHANGED Busy /\ UNCHANGED Watched
  BY <1>u DEF Busy, taskVars, Watched, types
<1>s. UNCHANGED nodeStore \/ nodeStore' = Up
  BY DEF Run, Begin, InitWatchers, StartNode, StartPod, Started, StartFails, ReturnCancelled,
    storeVars
<1>1. TypeOK'
  <2>1. nodeStore' \subseteq Nodes
    BY <1>s DEF TypeOK, Up
  <2>2. watcher' \in [Watchers -> {"none", "created", "running", "stopped"}]
    BY DEF Run, Begin, InitWatchers, StartNode, StartPod, Started, StartFails, ReturnCancelled,
      TypeOK
  <2>3. /\ pc' \in {"init", "startNode", "startPod", "loop", "returned"}
        /\ result' \in {"none", "ok", "error"} /\ timer' \in {"none", "armed", "fired"}
    BY DEF Run, Begin, InitWatchers, StartNode, StartPod, StartFails, ReturnCancelled, Return,
      TypeOK
  <2> QED BY <1>u, <2>1, <2>2, <2>3 DEF TypeOK, taskVars, clusterVars
<1>2. RunPhases' /\ ErrorStopsWatchers' /\ CollectPhases'
  <2> USE DEF TypeOK, RunPhases, ErrorStopsWatchers, CollectPhases, Return
  <2>1. CASE Begin
    BY <1>b, <2>1 DEF Begin
  <2>2. CASE InitWatchers
    BY <1>b, <2>2 DEF InitWatchers, Watchers
  <2>3. CASE StartNode
    BY <1>b, <2>3 DEF StartNode, Started, Watchers, Watched
  <2>4. CASE StartPod
    BY <1>b, <2>4 DEF StartPod, Started, Watchers, Watched
  <2>5. CASE StartFails
    BY <1>b, <2>5 DEF StartFails
  <2>6. CASE ReturnCancelled
    BY <1>b, <2>6 DEF ReturnCancelled
  <2> QED BY <2>1, <2>2, <2>3, <2>4, <2>5, <2>6 DEF Run
<1>3. StoreHasBeenUp'
  BY <1>u, <1>s DEF StoreHasBeenUp, Up, clusterVars
<1>4. ParentIsHost'
  BY <1>u DEF ParentIsHost, taskVars, clusterVars
<1> QED BY <1>1, <1>2, <1>3, <1>4

\* A collection is begun by the timer or a tick.
LEMMA CollectStep ==
  ASSUME IInv, NEW s \in Slots, FirstCollect(s) \/ Tick(s)
  PROVE  IInv'
<1> USE DEF IInv
<1>u. UNCHANGED <<config, pc, result, watcher, event, clusterVars, storeVars>>
  BY DEF FirstCollect, Tick, Collect, runVars
<1>p. pc \in {"loop", "returned"} /\ result # "error" /\ \A k \in Watched : watcher[k] = "running"
  BY DEF FirstCollect, Tick, CollectPhases, RunPhases, TypeOK
<1>1. TypeOK'
  <2>1. timer' \in {"none", "armed", "fired"}
    BY DEF FirstCollect, Tick, runVars, TypeOK
  <2>2. phase' \in [Slots \X Kinds -> {"idle", "ready", "first", "list", "publishing"}]
    BY CollectType DEF FirstCollect, Tick
  <2> QED BY <1>u, <2>1, <2>2 DEF TypeOK, clusterVars, storeVars
<1>2. RunPhases' /\ ErrorStopsWatchers' /\ CollectPhases'
  BY <1>u, <1>p DEF RunPhases, ErrorStopsWatchers, CollectPhases, Watched, types
<1>3. StoreHasBeenUp' /\ ParentIsHost'
  BY <1>u DEF StoreHasBeenUp, ParentIsHost, clusterVars, storeVars
<1> QED BY <1>1, <1>2, <1>3

\* A step of one goroutine of a collection.
LEMMA TaskStep ==
  ASSUME IInv, NEW s \in Slots, NEW k \in Kinds, Task(s, k)
  PROVE  IInv'
<1> USE DEF IInv
<1>b. Busy
  <2>1. phase[<<s, k>>] # "idle"
    BY DEF Task, NoWatcher, CountNodes, FirstNode, NoFirstNode, List, Publish, PublishEnd, Kinds
  <2> QED BY <2>1 DEF Busy
<1>1. CASE NoFirstNode(s)
  BY <1>1 DEF NoFirstNode, TypeOK, RunPhases, ErrorStopsWatchers, CollectPhases, Busy,
    StoreHasBeenUp, ParentIsHost, clusterVars
<1>2. CASE ~NoFirstNode(s)
  <2>u. UNCHANGED <<runVars, clusterVars, storeVars>>
    BY <1>2 DEF Task, NoWatcher, CountNodes, FirstNode, List, Publish, PublishEnd
  <2>1. phase' \in [Slots \X Kinds -> {"idle", "ready", "first", "list", "publishing"}]
    BY <1>2 DEF Task, NoWatcher, CountNodes, FirstNode, List, Publish, PublishEnd, TypeOK
  <2>3. RunPhases' /\ ErrorStopsWatchers' /\ CollectPhases'
    BY <1>b, <2>u DEF RunPhases, ErrorStopsWatchers, CollectPhases, Watched, types, runVars
  <2>4. StoreHasBeenUp'
    BY <2>u DEF StoreHasBeenUp, clusterVars, storeVars
  <2>5. ParentIsHost' /\ (event'.kind = "pod" => event'.parent \in Nodes \cup {None})
    <3>1. CASE Publish(s, k) /\ k = "pod"
      <4>1. PICK x \in todo[<<s, k>>] :
              event' = [kind |-> k, object |-> x, parent |-> Parent(s, k, x)]
        BY <3>1 DEF Publish
      <4>2. Parent(s, k, x) # None =>
              Parent(s, k, x) \in nodeStore /\ NameOf[Parent(s, k, x)] = NameOf[HostOf[x]]
        BY <3>1, NodeOfFound DEF Parent
      <4> QED BY <2>u, <3>1, <4>1, <4>2 DEF ParentIsHost, StoreHasBeenUp, TypeOK, clusterVars
    <3>2. CASE Publish(s, k) /\ k # "pod"
      BY <2>u, <3>2 DEF Publish, ParentIsHost
    <3>3. CASE ~Publish(s, k)
      <4>1. UNCHANGED event
        BY <1>2, <3>3 DEF Task, NoWatcher, CountNodes, FirstNode, List, PublishEnd
      <4> QED BY <2>u, <4>1 DEF ParentIsHost, TypeOK, clusterVars
    <3> QED BY <3>1, <3>2, <3>3
  <2>6. TypeOK'
    BY <2>u, <2>1, <2>5 DEF TypeOK, runVars, clusterVars, storeVars
  <2> QED BY <2>3, <2>4, <2>5, <2>6
<1> QED BY <1>1, <1>2

\* The cluster changes, and the watchers follow: no node becomes new.
LEMMA ClusterStep ==
  ASSUME IInv,
         \/ \E n \in Nodes \ Permanent : NodeStep(n)
         \/ \E p \in config.pods : PodStep(p)
         \/ SyncNode \/ SyncPod
  PROVE  IInv'
<1> USE DEF IInv
<1>u. UNCHANGED <<runVars, taskVars>>
  BY DEF NodeStep, PodStep, SyncNode, SyncPod
<1>n. /\ nodes' \in [Nodes -> {"new", "up", "gone"}]
      /\ \A n \in Nodes : nodes[n] # "new" => nodes'[n] # "new"
  BY DEF NodeStep, PodStep, SyncNode, SyncPod, TypeOK, clusterVars
<1>s. UNCHANGED nodeStore \/ (UNCHANGED nodes /\ nodeStore' \subseteq nodeStore \cup Up)
  BY DEF NodeStep, PodStep, SyncNode, SyncPod, clusterVars, storeVars
<1>1. TypeOK'
  BY <1>u, <1>n, <1>s DEF TypeOK, Up, runVars, taskVars
<1>2. RunPhases' /\ ErrorStopsWatchers' /\ CollectPhases'
  BY <1>u DEF RunPhases, ErrorStopsWatchers, CollectPhases, Busy, Watched, types, runVars, taskVars
<1>3. StoreHasBeenUp'
  BY <1>n, <1>s DEF StoreHasBeenUp, Up, TypeOK
<1>4. ParentIsHost'
  BY <1>u, <1>n DEF ParentIsHost, TypeOK, taskVars
<1> QED BY <1>1, <1>2, <1>3, <1>4

\* Every step keeps the invariant.
LEMMA NextIInv == IInv /\ [Next]_vars => IInv'
<1> SUFFICES ASSUME IInv, [Next]_vars PROVE IInv'
  OBVIOUS
<1>1. CASE Run
  BY <1>1, RunStep
<1>2. CASE Cancel
  BY <1>2 DEF Cancel, IInv, TypeOK, RunPhases, ErrorStopsWatchers, CollectPhases, Busy, Watched,
    types, StoreHasBeenUp, ParentIsHost, taskVars, clusterVars, storeVars
<1>3. CASE \E s \in Slots : FirstCollect(s) \/ Tick(s)
  BY <1>3, CollectStep
<1>4. CASE \E s \in Slots : \E k \in Kinds : Task(s, k)
  BY <1>4, TaskStep
<1>5. CASE \/ \E n \in Nodes \ Permanent : NodeStep(n)
           \/ \E p \in config.pods : PodStep(p)
           \/ SyncNode \/ SyncPod
  BY <1>5, ClusterStep
<1>6. CASE UNCHANGED vars
  BY <1>6 DEF vars, IInv, TypeOK, RunPhases, ErrorStopsWatchers, CollectPhases, Busy, Watched,
    types, StoreHasBeenUp, ParentIsHost, runVars, taskVars, clusterVars, storeVars
<1> QED BY <1>1, <1>2, <1>3, <1>4, <1>5, <1>6 DEF Next

\* The invariant of the proof holds in every state.
LEMMA SpecIInv == Spec => []IInv
<1> QED BY InitIInv, NextIInv, PTL DEF Spec

-----------------------------------------------------------------------------

\* startK8sWatchers and its error path, k8s.go: whichever watcher fails, Run
\* returns with none of them running, the one it had started included.
THEOREM FailureStopsAll == Spec => []ErrorStopsWatchers
<1>1. IInv => ErrorStopsWatchers
  BY DEF IInv
<1> QED BY SpecIInv, <1>1, PTL

\* The timer's function and the ticker's: no collection, however many overlap,
\* reads the store of a watcher that was not started, or was stopped.
THEOREM StoresAreFilled == Spec => []CollectsSynced
<1>1. IInv => CollectsSynced
  BY DEF IInv, CollectPhases, CollectsSynced
<1> QED BY SpecIInv, <1>1, PTL

\* getNodeIdFromName, util.go: between the listing of a pod and the lookup of
\* its node both stores may change; still no pod gets another node's id.
THEOREM HostOrNamesake == Spec => []ParentIsHost
<1>1. IInv => ParentIsHost
  BY DEF IInv
<1> QED BY SpecIInv, <1>1, PTL

-----------------------------------------------------------------------------

(***************************************************************************)
(* What FallsSilent promises, without its "in the end": once Run has       *)
(* returned, each step of a goroutine brings its collection nearer to its  *)
(* end, none has to wait for anything, and only the timer begins one more. *)
(***************************************************************************)
Goroutines == Slots \X Kinds
Ended == pc \in {"returned", "panicked"}

\* How many stages of publishK8s* are ahead of a goroutine.
ToGo(g) == [idle |-> 0, publishing |-> 1, list |-> 2, first |-> 3, ready |-> 4][phase[g]]

\* A goroutine is a stage further, or has fewer objects left to publish.
Nearer(g) ==
  \/ ToGo(g)' < ToGo(g)
  \/ ToGo(g)' = ToGo(g) /\ todo'[g] \subseteq todo[g] /\ todo'[g] # todo[g]

\* Run never goes on once it has ended; the delayed collection is begun once at
\* the most; all that was begun comes nearer to its end.
WindsDown ==
  Ended =>
    /\ Ended'
    /\ \/ timer = "armed" /\ timer' = "fired"
       \/ /\ timer' = "armed" => timer = "armed"
          /\ \A g \in Goroutines : UNCHANGED <<phase[g], todo[g]>> \/ Nearer(g)
    /\ (\E s \in Slots, k \in Kinds : Task(s, k)) => \E g \in Goroutines : Nearer(g)

\* Only the goroutine of the nodes asks for the cluster, and it has its watcher:
\* the guards of its steps, so that no goroutine is left waiting for another.
NodesAsk ==
  \A s \in Slots, k \in Kinds :
    phase[<<s, k>>] \in {"first", "list"} => k = "node" /\ InCluster /\ Loads(k)

TodoType == todo \in [Goroutines -> SUBSET (Nodes \cup Pods)]

\* A step of a goroutine is about its own stage and list, unless it panics.
LEMMA TaskIsOwn ==
  ASSUME TypeOK, TodoType, NodesAsk, NEW s \in Slots, NEW k \in Kinds, Task(s, k), ~NoFirstNode(s)
  PROVE  /\ UNCHANGED <<runVars, storeVars>>
         /\ TodoType' /\ Nearer(<<s, k>>)
         /\ \A g \in Goroutines : g # <<s, k>> => UNCHANGED <<phase[g], todo[g]>>
         /\ phase'[<<s, k>>] \in {"first", "list"} => k = "node" /\ InCluster /\ Loads(k)
<1> DEFINE g == <<s, k>>
<1>g. g \in Goroutines /\ g \in Slots \X Kinds
  BY DEF Goroutines
<1> USE DEF TypeOK, TodoType, Nearer, ToGo
<1>1. CASE NoWatcher(s, k)
  BY <1>g, <1>1 DEF NoWatcher, Goroutines
<1>2. CASE k = "node" /\ CountNodes(s)
  BY <1>g, <1>2 DEF CountNodes, Goroutines
<1>3. CASE k = "node" /\ FirstNode(s)
  <2>1. phase[g] = "first" /\ InCluster /\ Loads(k)
    BY <1>3 DEF FirstNode, NodesAsk
  <2>2. phase' = [phase EXCEPT ![g] = "list"] /\ UNCHANGED <<todo, runVars, storeVars>>
    BY <1>3 DEF FirstNode
  <2> QED BY <1>g, <1>3, <2>1, <2>2 DEF Goroutines
<1>4. CASE List(s, k)
  <2>1. PICK S \in SUBSET (Nodes \cup Pods) : todo' = [todo EXCEPT ![g] = S]
    BY <1>4 DEF List, Kinds
  <2>2. /\ phase[g] \in {"ready", "list"} /\ phase' = [phase EXCEPT ![g] = "publishing"]
        /\ UNCHANGED <<runVars, storeVars>>
    BY <1>4 DEF List
  <2> QED BY <1>g, <2>1, <2>2 DEF Goroutines
<1>5. CASE Publish(s, k)
  <2>1. PICK x \in todo[g] : todo' = [todo EXCEPT ![g] = @ \ {x}]
    BY <1>5 DEF Publish
  <2>2. UNCHANGED <<phase, runVars, storeVars>> /\ phase[g] = "publishing"
    BY <1>5 DEF Publish
  <2> QED BY <1>g, <2>1, <2>2 DEF Goroutines
<1>6. CASE PublishEnd(s, k)
  BY <1>g, <1>6 DEF PublishEnd, Goroutines
<1> QED BY <1>1, <1>2, <1>3, <1>4, <1>5, <1>6 DEF Task

\* Both hold in every state.
LEMMA GoroutinesKept == Spec => [](NodesAsk /\ TodoType)
<1>1. Init => NodesAsk /\ TodoType
  BY DEF Init, NodesAsk, TodoType, Goroutines
<1>2. IInv /\ NodesAsk /\ TodoType /\ [Next]_vars => (NodesAsk /\ TodoType)'
  <2> SUFFICES ASSUME IInv, NodesAsk, TodoType, [Next]_vars PROVE NodesAsk' /\ TodoType'
    OBVIOUS
  <2>1. CASE Run
    <3>1. UNCHANGED <<config, phase, todo>>
      BY <2>1 DEF Run, Begin, InitWatchers, StartNode, StartPod, StartFails, ReturnCancelled, taskVars
    <3>2. Busy => UNCHANGED watcher
      BY <2>1 DEF IInv, CollectPhases, Run, Begin, InitWatchers, StartNode, StartPod, StartFails,
         ReturnCancelled
    <3>3. NodesAsk'
      BY <3>1, <3>2 DEF NodesAsk, InCluster, Loads, Busy
    <3> QED BY <3>1, <3>3 DEF TodoType
  <2>2. CASE \E s \in Slots : FirstCollect(s) \/ Tick(s)
    <3>1. UNCHANGED <<config, watcher, todo>>
      BY <2>2 DEF FirstCollect, Tick, Collect, runVars
    <3>2. \A g \in Slots \X Kinds : phase'[g] \in {phase[g], "ready"}
      BY <2>2 DEF FirstCollect, Tick, Collect, IInv, TypeOK
    <3> QED BY <3>1, <3>2 DEF NodesAsk, InCluster, TodoType, Loads
  <2>3. ASSUME NEW s \in Slots, NEW k \in Kinds, Task(s, k) PROVE NodesAsk' /\ TodoType'
    <3>1. CASE NoFirstNode(s)
      BY <3>1 DEF NoFirstNode, NodesAsk, InCluster, TodoType, Goroutines
    <3>2. CASE ~NoFirstNode(s)
      <4>1. /\ UNCHANGED <<config, watcher>> /\ TodoType'
            /\ \A g \in Goroutines : g # <<s, k>> => phase'[g] = phase[g]
            /\ phase'[<<s, k>>] \in {"first", "list"} => k = "node" /\ InCluster /\ Loads(k)
        BY <2>3, <3>2, TaskIsOwn DEF IInv, runVars
      <4> QED BY <4>1 DEF NodesAsk, InCluster, Loads, Goroutines
    <3> QED BY <3>1, <3>2
  <2>4. CASE \/ Cancel \/ UNCHANGED vars
             \/ \E n \in Nodes \ Permanent : NodeStep(n)
             \/ \E p \in config.pods : PodStep(p)
             \/ SyncNode \/ SyncPod
    <3>1. UNCHANGED <<config, watcher, phase, todo>>
      BY <2>4 DEF Cancel, NodeStep, PodStep, SyncNode, SyncPod, vars, runVars, taskVars
    <3> QED BY <3>1 DEF NodesAsk, InCluster, TodoType, Loads
  <2> QED BY <2>1, <2>2, <2>3, <2>4 DEF Next
<1> QED BY <1>1, <1>2, SpecIInv, PTL DEF Spec

\* Whatever the watchers and the cluster still do: after Run has returned, a
\* collection that is under way only comes nearer to its end.
THEOREM InputWindsDown == Spec => [][WindsDown]_vars
<1>1. IInv /\ NodesAsk /\ TodoType /\ [Next]_vars => [WindsDown]_vars
  <2> SUFFICES ASSUME IInv, NodesAsk, TodoType, Next, Ended
               PROVE  /\ Ended'
                      /\ \/ timer = "armed" /\ timer' = "fired"
                         \/ /\ timer' = "armed" => timer = "armed"
                            /\ \A g \in Goroutines : UNCHANGED <<phase[g], todo[g]>> \/ Nearer(g)
                      /\ (\E s \in Slots, k \in Kinds : Task(s, k)) => \E g \in Goroutines : Nearer(g)
    BY DEF WindsDown
  <2>t. TypeOK
    BY DEF IInv
  <2>1. ASSUME NEW s \in Slots, NEW k \in Kinds, Task(s, k)
        PROVE  /\ Ended' /\ (timer' = "armed" => timer = "armed") /\ Nearer(<<s, k>>)
               /\ \A g \in Goroutines : UNCHANGED <<phase[g], todo[g]>> \/ Nearer(g)
    <3>1. CASE NoFirstNode(s)
      <4>1. Ended' /\ timer' = "none"
        BY <3>1 DEF NoFirstNode, Ended
      <4>2. \A g \in Goroutines :
              /\ phase'[g] = "idle" /\ todo'[g] = {}
              /\ phase[g] = "idle" \/ phase[g] \in {"ready", "first", "list", "publishing"}
        BY <3>1, <2>t DEF NoFirstNode, Goroutines, TypeOK
      <4>3. phase[<<s, k>>] # "idle" /\ <<s, k>> \in Goroutines
        BY <2>1, <3>1 DEF Task, NoWatcher, CountNodes, FirstNode, NoFirstNode, List, Publish, PublishEnd,
           Goroutines, Kinds
      <4> QED BY <4>1, <4>2, <4>3 DEF Nearer, ToGo
    <3>2. CASE ~NoFirstNode(s)
      BY <2>t, <2>1, <3>2, TaskIsOwn DEF runVars, Ended
    <3> QED BY <3>1, <3>2
  <2>2. CASE \E s \in Slots, k \in Kinds : Task(s, k)
    <3>1. PICK s \in Slots, k \in Kinds : Task(s, k)
      BY <2>2
    <3>2. <<s, k>> \in Goroutines
      BY DEF Goroutines
    <3> QED BY <2>1, <3>1, <3>2
  <2>3. CASE \E s \in Slots : FirstCollect(s)
    <3>1. timer = "armed" /\ timer' = "fired" /\ pc' = pc
      BY <2>3 DEF FirstCollect
    <3>2. ASSUME NEW s \in Slots, NEW k \in Kinds, Task(s, k) PROVE \E g \in Goroutines : Nearer(g)
      BY <2>1, <3>2 DEF Goroutines
    <3> QED BY <3>1, <3>2 DEF Ended
  <2>4. CASE \/ Cancel
             \/ \E n \in Nodes \ Permanent : NodeStep(n)
             \/ \E p \in config.pods : PodStep(p)
             \/ SyncNode \/ SyncPod
    <3>1. UNCHANGED <<pc, timer, phase, todo>>
      BY <2>4 DEF Cancel, NodeStep, PodStep, SyncNode, SyncPod, runVars, taskVars
    <3>2. ASSUME NEW s \in Slots, NEW k \in Kinds, Task(s, k) PROVE \E g \in Goroutines : Nearer(g)
      BY <2>1, <3>2 DEF Goroutines
    <3> QED BY <3>1, <3>2 DEF Ended
  <2>5. ~Run /\ ~(\E s \in Slots : Tick(s))
    BY DEF Ended, Run, Begin, InitWatchers, StartNode, StartPod, StartFails, ReturnCancelled, Tick
  <2> QED BY <2>2, <2>3, <2>4, <2>5 DEF Next
<1> QED BY <1>1, SpecIInv, GoroutinesKept, PTL DEF Spec

-----------------------------------------------------------------------------

(***************************************************************************)
(* What PodsReported promises, without its "again and again": once both    *)
(* stores know a pod that stays, and its node, they never lose them, each  *)
(* listing has the pod, and it is published with this node.                *)
(***************************************************************************)
\* At a time one node has a name, in the cluster as in the store.
NamesUnique ==
  /\ \A m, n \in Up : NameOf[m] = NameOf[n] => m = n
  /\ \A m, n \in nodeStore : NameOf[m] = NameOf[n] => m = n

ClusterType ==
  /\ nodes \in [Nodes -> {"new", "up", "gone"}]
  /\ podStore \in [Pods -> {"absent", "pending", "running"}]
  /\ pods \in [Pods -> {"absent", "pending", "running", "gone"}]

Known(p) == HostOf[p] \in nodeStore /\ podStore[p] = "running"

\* The watcher of one of the two has still to learn of it, and is at work.
Behind(p) ==
  \/ watcher["node"] = "running" /\ HostOf[p] \in Up \ nodeStore
  \/ watcher["pod"] = "running" /\ podStore[p] # PodSnapshot[p]

Waits(s, p) == p \in todo[<<s, "pod">>]

\* While a pod and its node stay, whatever else comes and goes in the cluster
\* and in the stores, and whichever collection it is that lists and publishes.
PodStays ==
  \A p \in Pods :
    Lasting(p) /\ Lasting(p)' =>
      /\ Known(p) \/ Behind(p)
      /\ Known(p) => Known(p)'
      /\ Known(p) => \A s \in Slots :
           /\ List(s, "pod") => Waits(s, p)'
           /\ Waits(s, p) /\ ~Waits(s, p)' =>
                event' = [kind |-> "pod", object |-> p, parent |-> HostOf[p]]

\* The cluster lets a name only be taken over, and so do watchers.
LEMMA NamesKept == Spec => [](NamesUnique /\ ClusterType)
<1>1. Init => NamesUnique /\ ClusterType
  <2> SUFFICES ASSUME Init PROVE NamesUnique /\ ClusterType
    OBVIOUS
  <2>1. Up \subseteq Permanent
    BY DEF Init, Up
  <2> QED BY <2>1, NamesAreOwn DEF Init, NamesUnique, ClusterType, Permanent
<1>2. IInv /\ NamesUnique /\ ClusterType /\ [Next]_vars => (NamesUnique /\ ClusterType)'
  <2> SUFFICES ASSUME IInv, NamesUnique, ClusterType, [Next]_vars PROVE NamesUnique' /\ ClusterType'
    OBVIOUS
  <2>s. PodSnapshot \in [Pods -> {"absent", "pending", "running"}]
    BY DEF PodSnapshot, ClusterType
  <2>1. ASSUME NEW n \in Nodes, NodeStep(n) PROVE NamesUnique' /\ ClusterType'
    <3>1. /\ UNCHANGED <<nodeStore, podStore, pods>> /\ ClusterType'
      BY <2>1 DEF NodeStep, storeVars, ClusterType
    <3>2. \/ Up' \subseteq Up
          \/ Up' \subseteq Up \cup {n} /\ \A m \in Up : NameOf[m] # NameOf[n]
      BY <2>1 DEF NodeStep, Up, ClusterType
    <3> QED BY <3>1, <3>2 DEF NamesUnique
  <2>2. CASE SyncNode
    <3>1. UNCHANGED <<podStore, pods, nodes>>
      BY <2>2 DEF SyncNode, clusterVars
    <3>2. \A m, n \in nodeStore' : NameOf[m] = NameOf[n] => m = n
      BY <2>2 DEF SyncNode, NamesUnique
    <3> QED BY <3>1, <3>2 DEF NamesUnique, ClusterType, Up
  <2>3. CASE SyncPod \/ \E p \in config.pods : PodStep(p)
    <3>1. UNCHANGED <<nodeStore, nodes>> /\ ClusterType'
      BY <2>3, <2>s DEF SyncPod, PodStep, ClusterType, clusterVars, storeVars
    <3> QED BY <3>1 DEF NamesUnique, Up
  <2>4. CASE Run
    <3>1. UNCHANGED <<nodes, pods>> /\ nodeStore' \in {nodeStore, Up} /\ podStore' \in {podStore, PodSnapshot}
      BY <2>4 DEF Run, Begin, InitWatchers, StartNode, StartPod, StartFails, ReturnCancelled, Started,
         clusterVars, storeVars
    <3> QED BY <2>s, <3>1 DEF NamesUnique, ClusterType, Up
  <2>5. ASSUME NEW s \in Slots, NEW k \in Kinds, Task(s, k) PROVE NamesUnique' /\ ClusterType'
    <3>1. CASE NoFirstNode(s)
      BY <3>1 DEF NoFirstNode, clusterVars, NamesUnique, ClusterType, Up
    <3>2. CASE ~NoFirstNode(s)
      <4>1. UNCHANGED <<nodes, pods, nodeStore, podStore>>
        BY <2>5, <3>2 DEF Task, NoWatcher, CountNodes, FirstNode, List, Publish, PublishEnd, clusterVars, storeVars
      <4> QED BY <4>1 DEF NamesUnique, ClusterType, Up
    <3> QED BY <3>1, <3>2
  <2>6. CASE Cancel \/ UNCHANGED vars \/ \E s \in Slots : FirstCollect(s) \/ Tick(s)
    <3>1. UNCHANGED <<nodes, pods, nodeStore, podStore>>
      BY <2>6 DEF Cancel, FirstCollect, Tick, vars, clusterVars, storeVars
    <3> QED BY <3>1 DEF NamesUnique, ClusterType, Up
  <2> QED BY <2>1, <2>2, <2>3, <2>4, <2>5, <2>6 DEF Next
<1> QED BY <1>1, <1>2, SpecIInv, PTL DEF Spec

\* What both stores know of a pod and a node that stay, they keep.
LEMMA KnownKept ==
  ASSUME IInv, NamesUnique, ClusterType, Next, NEW p \in Pods, Lasting(p), Lasting(p)', Known(p)
  PROVE  Known(p)'
<1>n. HostOf[p] \in Up
  BY HostsAreNodes DEF Lasting, Up
<1>1. CASE SyncNode
  <2>1. podStore' = podStore
    BY <1>1 DEF SyncNode
  <2>2. HostOf[p] \in nodeStore'
    BY <1>1, <1>n DEF SyncNode, NamesUnique, Known
  <2> QED BY <2>1, <2>2 DEF Known
<1>2. CASE SyncPod
  <2>1. PodSnapshot[p] = "running" /\ nodeStore' = nodeStore
    BY <1>2 DEF PodSnapshot, Lasting, SyncPod
  <2> QED BY <1>2, <2>1 DEF SyncPod, Known, ClusterType
<1>3. CASE ~SyncNode /\ ~SyncPod
  <2>1. UNCHANGED <<nodeStore, podStore>>
    <3>1. CASE Run
      BY <3>1 DEF Lasting, Run, Begin, InitWatchers, StartNode, StartPod, StartFails, ReturnCancelled, storeVars
    <3>2. CASE Cancel \/ \E s \in Slots : FirstCollect(s) \/ Tick(s)
      BY <3>2 DEF Cancel, FirstCollect, Tick, storeVars
    <3>3. ASSUME NEW s \in Slots, NEW k \in Kinds, Task(s, k) PROVE UNCHANGED <<nodeStore, podStore>>
      <4>1. ~NoFirstNode(s)
        BY DEF NoFirstNode, Lasting
      <4> QED BY <3>3, <4>1 DEF Task, NoWatcher, CountNodes, FirstNode, List, Publish, PublishEnd, storeVars
    <3>4. CASE (\E n \in Nodes : NodeStep(n)) \/ \E q \in config.pods : PodStep(q)
      BY <3>4 DEF NodeStep, PodStep, storeVars
    <3> QED BY <1>3, <3>1, <3>2, <3>3, <3>4 DEF Next
  <2> QED BY <2>1 DEF Known
<1> QED BY <1>1, <1>2, <1>3

\* Its node is the only one of the name, and no other kind's goroutine has it.
LEMMA PublishedWithNode ==
  ASSUME IInv, NamesUnique, TodoType, NodesAsk, Next, NEW p \in Pods, Lasting(p), Lasting(p)', Known(p),
         NEW s \in Slots, Waits(s, p), ~Waits(s, p)'
  PROVE  event' = [kind |-> "pod", object |-> p, parent |-> HostOf[p]]
<1>1. ~(Run \/ Cancel \/ (\E t \in Slots : FirstCollect(t) \/ Tick(t))
        \/ (\E n \in Nodes : NodeStep(n)) \/ (\E q \in config.pods : PodStep(q)) \/ SyncNode \/ SyncPod)
  BY DEF Waits, Run, Begin, InitWatchers, StartNode, StartPod, StartFails, ReturnCancelled, Cancel,
     FirstCollect, Tick, Collect, NodeStep, PodStep, SyncNode, SyncPod, taskVars
<1>2. PICK t \in Slots, k \in Kinds : Task(t, k)
  BY <1>1 DEF Next
<1>3. <<t, k>> = <<s, "pod">>
  <2>1. ~NoFirstNode(t)
    BY DEF NoFirstNode, Lasting
  <2>2. \A g \in Goroutines : g # <<t, k>> => todo'[g] = todo[g]
    BY <1>2, <2>1, TaskIsOwn DEF IInv
  <2> QED BY <2>2 DEF Goroutines, Waits, Kinds
<1>4. t = s /\ k = "pod"
  BY <1>3
<1>5. Publish(s, "pod")
  <2>1. CASE List(s, "pod")
    <3>1. p \in todo'[<<s, "pod">>]
      BY <2>1 DEF List, TodoType, Goroutines, Kinds, Known, InStore
    <3> QED BY <3>1 DEF Waits
  <2> QED BY <1>2, <1>4, <2>1 DEF Task, NoWatcher, PublishEnd, Waits
<1>6. PICK x \in todo[<<s, "pod">>] :
        /\ event' = [kind |-> "pod", object |-> x, parent |-> Parent(s, "pod", x)]
        /\ todo' = [todo EXCEPT ![<<s, "pod">>] = @ \ {x}]
  BY <1>5 DEF Publish
<1>7. x = p
  BY <1>6 DEF Waits, TodoType, Goroutines, Kinds
<1>8. NodeOf(p) = HostOf[p]
  BY DEF NodeOf, Known, NamesUnique
<1>9. Parent(s, "pod", p) = HostOf[p]
  BY <1>8 DEF Parent, Lasting
<1> QED BY <1>6, <1>7, <1>9

\* A pod that stays on a node that stays becomes known and remains it, is in
\* each listing from then on and is published with this node, whatever the two
\* watchers miss or see late of the rest.
THEOREM KnownPodsStay == Spec => [][PodStays]_vars
<1>1. IInv /\ NodesAsk /\ TodoType /\ NamesUnique /\ ClusterType /\ [Next]_vars => [PodStays]_vars
  <2> SUFFICES ASSUME IInv, NodesAsk, TodoType, NamesUnique, ClusterType, Next, NEW p \in Pods,
                      Lasting(p), Lasting(p)'
               PROVE  /\ Known(p) \/ Behind(p)
                      /\ Known(p) => Known(p)'
                      /\ Known(p) => \A s \in Slots :
                           /\ List(s, "pod") => Waits(s, p)'
                           /\ Waits(s, p) /\ ~Waits(s, p)' =>
                                event' = [kind |-> "pod", object |-> p, parent |-> HostOf[p]]
    BY DEF PodStays
  <2>1. Known(p) \/ Behind(p)
    <3>1. watcher["node"] = "running" /\ watcher["pod"] = "running"
      BY DEF IInv, RunPhases, Lasting, Watched, Watchers
    <3>2. HostOf[p] \in Up /\ PodSnapshot[p] = "running"
      BY HostsAreNodes DEF Lasting, Up, PodSnapshot
    <3> QED BY <3>1, <3>2 DEF Known, Behind
  <2>2. ASSUME Known(p), NEW s \in Slots, List(s, "pod") PROVE Waits(s, p)'
    BY <2>2 DEF List, TodoType, Goroutines, Kinds, Known, InStore, Waits
  <2> QED BY <2>1, <2>2, KnownKept, PublishedWithNode
<1> QED BY <1>1, SpecIInv, GoroutinesKept, NamesKept, PTL DEF Spec

=============================================================================
