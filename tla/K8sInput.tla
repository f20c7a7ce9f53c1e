------------------------------ MODULE K8sInput ------------------------------
(***************************************************************************)
(* input/k8s: an input that mirrors the nodes and pods of a cluster with   *)
(* two watchers and publishes what their stores hold, ten seconds after it *)
(* has started and at every tick.  Each collection is up to three          *)
(* goroutines nobody waits for; they list a store and then publish one     *)
(* object at a time, looking up the node of a pod as they go, while the    *)
(* watchers keep changing the stores.  In a cluster, the store of nodes is *)
(* listed three times: the first node tells whether to ask Google.         *)
(***************************************************************************)
EXTENDS Naturals, FiniteSets

CONSTANTS
  Configurations,  \* [types, place, permanent, pods], see below
  Nodes,       \* node objects: a node that is created anew is another object
  NameOf,      \* NameOf[n] is the name of node n
  Pods,
  HostOf,      \* HostOf[p] is the node object pod p runs on
  ClusterUid,  \* what the metadata server says
  Overlap,     \* bound: collections under way at a time
  None

Kinds == {"node", "pod", "container"}
Watchers == {"node", "pod"}
Slots == 1..Overlap

\* A configuration: asset_types, short for k8s.node, k8s.pod, k8s.container;
\* whether assetbeat runs in the cluster, and the nodes of that have a gce provider
\* id; bounds: the nodes that are up all the time, and the pods there may be.
ConfigurationType ==
  [types : SUBSET Kinds, place : {"outside", "cluster", "gke"},
   permanent : SUBSET Nodes, pods : SUBSET Pods]

ASSUME ConfigurationsAssumption == Configurations \subseteq ConfigurationType
ASSUME HostsAreNodes == HostOf \in [Pods -> Nodes]
ASSUME NoneIsNoNode == None \notin Nodes \cup Pods
ASSUME NamesAreOwn ==
  \A c \in Configurations : \A m, n \in c.permanent : NameOf[m] = NameOf[n] => m = n

VARIABLES
  config,      \* the configuration
  cancelled,   \* inputCtx.Cancelation
  pc,          \* Run: "begin", "init", "startNode", "startPod", "loop", "returned";
               \* or the process has "panicked"
  result,      \* "none", "ok", "error"
  watcher,     \* watchersMap: "none", "created", "running", "stopped"
  timer,       \* the AfterFunc: "none", "armed", "fired"
  phase,       \* per goroutine of a collection: "idle", "ready", "first", "list", "publishing"
  todo,        \* the objects it has listed and not published yet
  uid,         \* per node goroutine, the cluster it has found, "" if it failed, or None
  event,       \* the last event published: [kind, object, parent]
  nodes,       \* the cluster: [Nodes -> {"new", "up", "gone"}]
  pods,        \* the cluster: [Pods -> {"absent", "pending", "running", "gone"}]
  nodeStore,   \* the node watcher's store
  podStore     \* the pod watcher's store

runVars == <<config, cancelled, pc, result, watcher, timer>>
taskVars == <<phase, todo, uid, event>>
clusterVars == <<nodes, pods>>
storeVars == <<nodeStore, podStore>>
vars == <<runVars, taskVars, clusterVars, storeVars>>

types == config.types
Permanent == config.permanent
InCluster == config.place # "outside"

Up == {n \in Nodes : nodes[n] = "up"}
InStore(p) == podStore[p] # "absent"
PodSnapshot == [p \in Pods |-> IF pods[p] = "gone" THEN "absent" ELSE pods[p]]
NoEvent == [kind |-> None, object |-> None, parent |-> None]

\* Which watchers are created: the containers are read from the pods, but the
\* pod watcher is created for k8s.pod only.
Watched == types \cap Watchers

Init ==
  /\ config \in Configurations
  /\ cancelled = FALSE
  /\ pc = "begin"
  /\ result = "none"
  /\ watcher = [k \in Watchers |-> "none"]
  /\ timer = "none"
  /\ phase = [g \in Slots \X Kinds |-> "idle"]
  /\ todo = [g \in Slots \X Kinds |-> {}]
  /\ uid = [s \in Slots |-> None]
  /\ event = NoEvent
  /\ nodes = [n \in Nodes |-> IF n \in Permanent THEN "up" ELSE "new"]
  /\ pods = [p \in Pods |-> "absent"]
  /\ nodeStore = {}
  /\ podStore = [p \in Pods |-> "absent"]

(***************************************************************************)
(* Run.                                                                    *)
(***************************************************************************)
Cancel ==
  /\ ~cancelled
  /\ cancelled' = TRUE
  /\ UNCHANGED <<config, pc, result, watcher, timer, taskVars, clusterVars, storeVars>>

Return(r) == pc' = "returned" /\ result' = r

\* Without a client Run fails; when already cancelled it does nothing.
Begin ==
  /\ pc = "begin"
  /\ \/ Return("error")
     \/ cancelled /\ Return("ok")
     \/ ~cancelled /\ pc' = "init" /\ UNCHANGED result
  /\ UNCHANGED <<config, cancelled, watcher, timer, taskVars, clusterVars, storeVars>>

\* initK8sWatchers creates the node watcher, then the pod watcher.
InitWatchers ==
  /\ pc = "init"
  /\ \/ /\ watcher' = [k \in Watchers |-> IF k \in Watched THEN "created" ELSE "none"]
        /\ pc' = "startNode" /\ UNCHANGED result
     \/ Watched # {} /\ Return("error") /\ UNCHANGED watcher
     \/ /\ Watched = Watchers /\ Return("error")
        /\ watcher' = [watcher EXCEPT !["node"] = "created"]
  /\ UNCHANGED <<config, cancelled, timer, taskVars, clusterVars, storeVars>>

\* A watcher that has started has listed the cluster into its store.
Started(k) ==
  /\ watcher' = [watcher EXCEPT ![k] = "running"]
  /\ nodeStore' = IF k = "node" THEN Up ELSE nodeStore
  /\ podStore' = IF k = "pod" THEN PodSnapshot ELSE podStore

\* Mutant of StartNode: the first collection is scheduled with the first watcher.
StartNodeArms ==
  /\ pc = "startNode"
  /\ pc' = "startPod"
  /\ timer' = "armed"
  /\ IF "node" \in Watched THEN Started("node") ELSE UNCHANGED <<watcher, storeVars>>
  /\ UNCHANGED <<config, cancelled, result, taskVars, clusterVars>>

StartNode ==
  /\ pc = "startNode"
  /\ pc' = "startPod"
  /\ IF "node" \in Watched THEN Started("node") ELSE UNCHANGED <<watcher, storeVars>>
  /\ UNCHANGED <<config, cancelled, result, timer, taskVars, clusterVars>>

StartPod ==
  /\ pc = "startPod"
  /\ pc' = "loop"
  /\ timer' = "armed"
  /\ IF "pod" \in Watched THEN Started("pod") ELSE UNCHANGED <<watcher, storeVars>>
  /\ UNCHANGED <<config, cancelled, result, taskVars, clusterVars>>

\* Mutant of StartFails: the watchers that were started are left running.
StartFailsOnly ==
  /\ \/ pc = "startNode" /\ "node" \in Watched
     \/ pc = "startPod" /\ "pod" \in Watched
  /\ Return("error")
  /\ UNCHANGED <<config, cancelled, timer, watcher, taskVars, clusterVars, storeVars>>

\* stopK8sWatchers stops all that were created, started or not.
StartFails ==
  /\ \/ pc = "startNode" /\ "node" \in Watched
     \/ pc = "startPod" /\ "pod" \in Watched
  /\ Return("error")
  /\ watcher' = [k \in Watchers |-> IF watcher[k] = "none" THEN "none" ELSE "stopped"]
  /\ UNCHANGED <<config, cancelled, timer, taskVars, clusterVars, storeVars>>

\* The watchers are left running, and the timer is not stopped.
ReturnCancelled ==
  /\ pc = "loop" /\ cancelled
  /\ Return("ok")
  /\ UNCHANGED <<config, cancelled, watcher, timer, taskVars, clusterVars, storeVars>>

(***************************************************************************)
(* collectK8sAssets, from the timer and from the ticker.                   *)
(***************************************************************************)
\* Mutant of Collect: k8s.pod is not recognised.
CollectNoPods(s) ==
  /\ \A k \in Kinds : phase[<<s, k>>] = "idle"
  /\ phase' = [g \in Slots \X Kinds |->
                 IF g[1] = s /\ g[2] \in types \ {"pod"} THEN "ready" ELSE phase[g]]
  /\ UNCHANGED <<todo, uid, event>>

Collect(s) ==
  /\ \A k \in Kinds : phase[<<s, k>>] = "idle"
  /\ phase' = [g \in Slots \X Kinds |->
                 IF g[1] = s /\ g[2] \in types THEN "ready" ELSE phase[g]]
  /\ UNCHANGED <<todo, uid, event>>

\* Mutant of FirstCollect: the timer is a ticker.
FirstCollectRepeats(s) ==
  /\ timer = "armed"
  /\ Collect(s)
  /\ UNCHANGED <<config, cancelled, pc, result, watcher, timer, clusterVars, storeVars>>

FirstCollect(s) ==
  /\ timer = "armed"
  /\ timer' = "fired"
  /\ Collect(s)
  /\ UNCHANGED <<config, cancelled, pc, result, watcher, clusterVars, storeVars>>

Tick(s) ==
  /\ pc = "loop"
  /\ Collect(s)
  /\ UNCHANGED <<runVars, clusterVars, storeVars>>

\* The goroutine of a kind loads its watcher, or ends without it.
Loads(k) == watcher[IF k = "node" THEN "node" ELSE "pod"] # "none"
NoWatcher(s, k) ==
  /\ phase[<<s, k>>] = "ready" /\ ~Loads(k)
  /\ phase' = [phase EXCEPT ![<<s, k>>] = "idle"]
  /\ UNCHANGED <<runVars, todo, uid, event, clusterVars, storeVars>>

\* publishK8sNodes, in the cluster: when there are nodes, the first is looked at.
CountNodes(s) ==
  /\ InCluster /\ phase[<<s, "node">>] = "ready" /\ Loads("node")
  /\ phase' = [phase EXCEPT ![<<s, "node">>] = IF nodeStore = {} THEN "list" ELSE "first"]
  /\ UNCHANGED <<runVars, todo, uid, event, clusterVars, storeVars>>

\* It is the first of a second list, and tells whether to fetch the uid of the
\* cluster.  One that cannot be fetched is empty, and becomes the parent all the same.
FirstNode(s) ==
  /\ phase[<<s, "node">>] = "first" /\ nodeStore # {}
  /\ phase' = [phase EXCEPT ![<<s, "node">>] = "list"]
  /\ IF config.place = "gke"
       THEN \E fetched \in {ClusterUid, ""} : uid' = [uid EXCEPT ![s] = fetched]
       ELSE UNCHANGED uid
  /\ UNCHANGED <<runVars, todo, event, clusterVars, storeVars>>

\* The second list is empty: the process ends, and its memory with it.
NoFirstNode(s) ==
  /\ phase[<<s, "node">>] = "first" /\ nodeStore = {}
  /\ pc' = "panicked" /\ timer' = "none"
  /\ watcher' = [k \in Watchers |-> "none"]
  /\ phase' = [g \in Slots \X Kinds |-> "idle"]
  /\ todo' = [g \in Slots \X Kinds |-> {}]
  /\ uid' = [t \in Slots |-> None]
  /\ podStore' = [p \in Pods |-> "absent"]
  /\ UNCHANGED <<config, cancelled, result, event, clusterVars, nodeStore>>

List(s, k) ==
  /\ phase[<<s, k>>] = (IF InCluster /\ k = "node" THEN "list" ELSE "ready") /\ Loads(k)
  /\ phase' = [phase EXCEPT ![<<s, k>>] = "publishing"]
  /\ todo' = [todo EXCEPT ![<<s, k>>] =
       CASE k = "node" -> nodeStore
         [] k = "pod" -> {p \in Pods : InStore(p)}
         [] k = "container" -> {p \in Pods : podStore[p] = "running"}]
  /\ UNCHANGED <<runVars, uid, event, clusterVars, storeVars>>

\* Mutant of NodeOf: the first node of the store, as publishK8sNodes takes it
\* for the cluster.
AnyNodeOf(p) == IF nodeStore = {} THEN None ELSE CHOOSE n \in nodeStore : TRUE

\* getNodeIdFromName: what the store has under the name of the pod's node.
NodeOf(p) ==
  IF \E n \in nodeStore : NameOf[n] = NameOf[HostOf[p]]
    THEN CHOOSE n \in nodeStore : NameOf[n] = NameOf[HostOf[p]]
    ELSE None

Parent(s, k, x) ==
  CASE k = "node" -> uid[s]
    [] k = "pod" -> IF "node" \in types THEN NodeOf(x) ELSE None
    [] k = "container" -> x

Publish(s, k) ==
  /\ phase[<<s, k>>] = "publishing"
  /\ \E x \in todo[<<s, k>>] :
       /\ event' = [kind |-> k, object |-> x, parent |-> Parent(s, k, x)]
       /\ todo' = [todo EXCEPT ![<<s, k>>] = @ \ {x}]
  /\ UNCHANGED <<phase, uid, runVars, clusterVars, storeVars>>

PublishEnd(s, k) ==
  /\ phase[<<s, k>>] = "publishing" /\ todo[<<s, k>>] = {}
  /\ phase' = [phase EXCEPT ![<<s, k>>] = "idle"]
  /\ uid' = IF k = "node" THEN [uid EXCEPT ![s] = None] ELSE uid
  /\ UNCHANGED <<todo, event, runVars, clusterVars, storeVars>>

(***************************************************************************)
(* The cluster, and the watchers that follow it one object at a time.      *)
(***************************************************************************)
NodeStep(n) ==
  /\ \/ /\ nodes[n] = "new"
        /\ \A m \in Up : NameOf[m] # NameOf[n]
        /\ nodes' = [nodes EXCEPT ![n] = "up"]
     \/ nodes[n] = "up" /\ nodes' = [nodes EXCEPT ![n] = "gone"]
  /\ UNCHANGED <<pods, runVars, taskVars, storeVars>>

\* A pod whose node is gone may stay in the API for a while.
PodStep(p) ==
  /\ \/ pods[p] = "absent" /\ HostOf[p] \in Up /\ pods' = [pods EXCEPT ![p] = "pending"]
     \/ pods[p] = "pending" /\ pods' = [pods EXCEPT ![p] = "running"]
     \/ pods[p] \in {"pending", "running"} /\ pods' = [pods EXCEPT ![p] = "gone"]
  /\ UNCHANGED <<nodes, runVars, taskVars, storeVars>>

SyncNode ==
  /\ watcher["node"] = "running"
  /\ \/ \E n \in Up \ nodeStore :
          nodeStore' = {m \in nodeStore : NameOf[m] # NameOf[n]} \cup {n}
     \/ \E n \in nodeStore \ Up : nodeStore' = nodeStore \ {n}
  /\ UNCHANGED <<podStore, runVars, taskVars, clusterVars>>

SyncPod ==
  /\ watcher["pod"] = "running"
  /\ \E p \in Pods :
       /\ podStore[p] # PodSnapshot[p]
       /\ podStore' = [podStore EXCEPT ![p] = PodSnapshot[p]]
  /\ UNCHANGED <<nodeStore, runVars, taskVars, clusterVars>>

Run == Begin \/ InitWatchers \/ StartNode \/ StartPod \/ StartFails \/ ReturnCancelled
Task(s, k) ==
  \/ NoWatcher(s, k)
  \/ k = "node" /\ (CountNodes(s) \/ FirstNode(s) \/ NoFirstNode(s))
  \/ List(s, k) \/ Publish(s, k) \/ PublishEnd(s, k)

Next ==
  \/ Run \/ Cancel
  \/ \E s \in Slots : FirstCollect(s) \/ Tick(s) \/ \E k \in Kinds : Task(s, k)
  \/ \E n \in Nodes \ Permanent : NodeStep(n)
  \/ \E p \in config.pods : PodStep(p)
  \/ SyncNode \/ SyncPod

\* Goroutines run, timer and ticker fire, creating and starting a watcher
\* ends one way or the other, and a running watcher catches up with the
\* cluster.  Nothing has to happen in the cluster, nobody has to cancel.
Fairness ==
  /\ WF_vars(Run)
  /\ WF_vars(\E s \in Slots : FirstCollect(s))
  /\ WF_vars(\E s \in Slots : Tick(s))
  /\ \A s \in Slots, k \in Kinds : WF_vars(Task(s, k))
  /\ WF_vars(SyncNode) /\ WF_vars(SyncPod)

Spec == Init /\ [][Next]_vars /\ Fairness

-----------------------------------------------------------------------------

Busy == \E g \in Slots \X Kinds : phase[g] # "idle"

\* "stop any running watcher": Run that fails leaves no watcher at work, the
\* one whose start has failed and the one started before it included.
ErrorStopsWatchers == result = "error" => \A k \in Watchers : watcher[k] # "running"

\* A collection reads only stores that have been filled once: no collection
\* before every watcher of the input has started, none after one has failed.
CollectsSynced ==
  Busy \/ timer # "none" => \A k \in Watched : watcher[k] = "running"

\* A pod is published with the node it runs on as its parent or with none,
\* whatever the two stores have missed: unless its node was created anew
\* under the same name, when either node object may be named.
ParentIsHost ==
  event.kind = "pod" /\ event.parent # None =>
    \/ event.parent = HostOf[event.object]
    \/ /\ NameOf[event.parent] = NameOf[HostOf[event.object]]
       /\ nodes[event.parent] # "new"

\* A cancelled input falls silent: collections and the timer outlive Run, but
\* in the end nothing is left that could publish.
FallsSilent == cancelled ~> [](pc \in {"returned", "panicked"} /\ ~Busy /\ timer # "armed")

\* A pod that stays, on a node that stays, is published with its parent again
\* and again, although the two watchers and the collections run unordered.
Lasting(p) ==
  /\ pc = "loop" /\ ~cancelled /\ {"node", "pod"} \subseteq types
  /\ pods[p] = "running" /\ nodes[HostOf[p]] = "up"
PodsReported ==
  \A p \in Pods :
    <>[]Lasting(p) => []<>(event = [kind |-> "pod", object |-> p, parent |-> HostOf[p]])

=============================================================================
