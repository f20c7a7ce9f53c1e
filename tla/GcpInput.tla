------------------------------ MODULE GcpInput ------------------------------
(***************************************************************************)
(* input/gcp: at each tick, goroutines nobody waits for collect VPCs,      *)
(* subnets, compute instances and GKE clusters.  The first three put what  *)
(* they list into caches with room for Capacity entries, which live for    *)
(* two periods; an instance finds its parent in the cache of the subnets,  *)
(* a cluster its parent and its children in those of the VPCs and the      *)
(* instances, while their collections may be writing.                      *)
(*                                                                         *)
(* Time is counted in ticks: an entry added between ticks n and n+1        *)
(* outlives tick n+2 and is gone by tick n+3.  Bound: one cluster, its     *)
(* VPC, and one subnet with all instances in it; of the other VPCs and     *)
(* subnets only their number is known.                                     *)
(***************************************************************************)
EXTENDS Integers, FiniteSets

CONSTANTS
  Configurations,  \* [types, zonal, instances, networks]: asset_types, whether the cluster
                   \* is in a single zone, the instances the project has in the beginning,
                   \* and how many VPCs and subnets it has
  Capacity,        \* the entries a cache has room for: 8192 in the code
  Instances,       \* compute instances
  Members,         \* those in the node pools of the cluster
  Leaving,         \* those that may be deleted
  None

Caches == {"vpc", "subnet", "compute"}
Kinds == Caches \cup {"cluster"}
Networks == {"vpc", "subnet"}

ASSUME InstancesAssumption == Members \subseteq Instances /\ Leaving \subseteq Instances
ASSUME ConfigurationsAssumption ==
  \A c \in Configurations :
    /\ c.types \subseteq Kinds
    /\ c.instances \subseteq Instances /\ IsFiniteSet(c.instances)
    /\ c.networks \in [Networks -> Nat]
ASSUME CapacityAssumption == Capacity \in Nat \ {0}

VARIABLES
  config,      \* cfg.AssetTypes, and the project
  pc,          \* Run: "begin", "loop", "returned"; or the process has "panicked"
  phase,       \* per kind: "idle", "ready", "adding", "resolving", "found", "children", "publishing"
  up,          \* the instances the project has now
  netLife,     \* life left of the VPC in VpcAssetsCache, of the subnet in SubnetAssetsCache
  life,        \* life left of each instance in ComputeAssetsCache
  stored,      \* instances with an entry, which may have expired and still takes room
  tainted,     \* the caches two goroutines have been at at a time
  todo,        \* per kind: what is left of its loop
  orphans,     \* of the compute goroutine, the instances whose subnet it did not find
  cluster,     \* the cluster goroutine: [parent, children, cut]
  hosts,       \* the orphans among the hosts published in this round, or None
  report,      \* what the last cluster event of this round said, or None
  listed,      \* what the compute collections have cached, by round
  netListed    \* whether the VPC and the subnet have been cached, by round

runVars == <<config, pc>>
taskVars == <<phase, todo, orphans, cluster>>
cacheVars == <<netLife, life, stored>>
reportVars == <<hosts, report>>
roundVars == <<listed, netListed>>
vars == <<runVars, up, taskVars, cacheVars, tainted, reportVars, roundVars>>

Life == 3   \* cfg.Period*2, counted in ticks from the one before

Live == {i \in Instances : life[i] > 0}
NoCluster == [parent |-> FALSE, children |-> {}, cut |-> FALSE]

IdlePhase == [k \in Kinds |-> "idle"]
NoTodo == [k \in Kinds |-> {}]
NoLife == [i \in Instances |-> 0]
NoNetLife == [k \in Networks |-> 0]
NoneListed == [now |-> {}, before |-> {}]
NoNetListed == [now |-> {}, before |-> {}]

Init ==
  /\ config \in Configurations
  /\ pc = "begin"
  /\ up = config.instances
  /\ phase = IdlePhase /\ todo = NoTodo /\ orphans = {} /\ cluster = NoCluster
  /\ netLife = NoNetLife /\ life = NoLife /\ stored = {} /\ tainted = {}
  /\ hosts = None /\ report = None
  /\ listed = NoneListed /\ netListed = NoNetListed

\* A goroutine panics: the process ends, and its memory with it.
Panic ==
  /\ pc' = "panicked"
  /\ phase' = IdlePhase /\ todo' = NoTodo /\ orphans' = {} /\ cluster' = NoCluster
  /\ netLife' = NoNetLife /\ life' = NoLife /\ stored' = {} /\ tainted' = {}
  /\ hosts' = None /\ report' = None
  /\ listed' = NoneListed /\ netListed' = NoNetListed
  /\ UNCHANGED <<config, up>>

(***************************************************************************)
(* Run.                                                                    *)
(***************************************************************************)
Alive == pc # "panicked"

\* Cancelled before the first collection or between two.
Return ==
  /\ pc \in {"begin", "loop"}
  /\ pc' = "returned"
  /\ UNCHANGED <<config, up, taskVars, cacheVars, tainted, reportVars, roundVars>>

Idle == \A k \in Kinds : phase[k] = "idle"
\* Mutant of Aged: entries are added without expiry.
NeverAged(n) == n
Aged(n) == IF n = 0 THEN 0 ELSE n - 1

\* collectAll, at once and at every tick.  Bound: the goroutines of one round
\* have ended before the next one.
CollectAll ==
  /\ Alive /\ Idle
  /\ pc \in {"begin", "loop"}
  /\ pc' = "loop"
  /\ phase' = [k \in Kinds |-> IF k \in config.types THEN "ready" ELSE "idle"]
  /\ netLife' = [k \in Networks |-> Aged(netLife[k])]
  /\ life' = [i \in Instances |-> Aged(life[i])]
  /\ hosts' = None /\ report' = None
  /\ listed' = [now |-> {}, before |-> listed.now]
  /\ netListed' = [now |-> {}, before |-> netListed.now]
  /\ UNCHANGED <<config, up, todo, orphans, cluster, stored, tainted>>

\* A client could not be created: that is logged, and nil is used.  The cluster
\* goroutine has two clients, one for instances the cache does not have.
NilClient(k) ==
  /\ Alive
  /\ phase[k] = "ready" \/ (k = "cluster" /\ phase[k] = "found" /\ Live = {})
  /\ Panic

\* An API call returns an error, maybe after a part of the list: the goroutine
\* logs it and ends.
ApiFails(k) ==
  /\ phase[k] \in {"ready", "adding", "resolving"}
  /\ phase' = [phase EXCEPT ![k] = "idle"]
  /\ todo' = [todo EXCEPT ![k] = {}]
  /\ orphans' = IF k = "compute" THEN {} ELSE orphans
  /\ UNCHANGED <<runVars, up, cluster, cacheVars, reportVars, roundVars>>

(***************************************************************************)
(* The caches are not made for concurrent use: once two goroutines have    *)
(* been at one, an entry may not be written, may not be found, or the      *)
(* process panics.                                                         *)
(***************************************************************************)
Reads(k, c) ==
  \/ c = "vpc" /\ k = "cluster" /\ phase[k] = "resolving"
  \/ c = "subnet" /\ k = "compute" /\ phase[k] = "adding"
  \/ c = "compute" /\ k = "cluster" /\ phase[k] = "children"
InUse(c) == phase[c] = "adding" \/ \E k \in Kinds : Reads(k, c)
Race(c) == phase[c] = "adding" /\ \E k \in Kinds : Reads(k, c)

Taint == tainted' = tainted \cup {c \in Caches : Race(c)'}

Corrupt ==
  /\ \E c \in tainted : InUse(c)
  /\ Panic

\* The outcomes of looking for an entry.
Get(c, present) == {present} \cup (IF c \in tainted THEN {FALSE} ELSE {})

(***************************************************************************)
(* collectVpcAssets and collectSubnetAssets.                               *)
(***************************************************************************)
NetworkList(k) ==
  /\ phase[k] = "ready"
  /\ phase' = [phase EXCEPT ![k] = "adding"]
  /\ UNCHANGED <<runVars, up, todo, orphans, cluster, cacheVars, reportVars, roundVars>>

\* The loop over the listed networks.  The one that is a parent is added at
\* some point; when there are more than the cache has room for, those that are
\* added before and after it may throw its entry out.
NetworkAdd(k) ==
  /\ phase[k] = "adding"
  /\ k \notin netListed.now
  /\ \/ netLife' = [netLife EXCEPT ![k] = Life]
     \/ k \in tainted /\ UNCHANGED netLife
  /\ netListed' = [netListed EXCEPT !.now = @ \cup {k}]
  /\ UNCHANGED <<runVars, up, taskVars, life, stored, reportVars, listed>>

NetworkEvict(k) ==
  /\ phase[k] = "adding"
  /\ config.networks[k] > Capacity
  /\ netLife[k] > 0
  /\ netLife' = [netLife EXCEPT ![k] = 0]
  /\ UNCHANGED <<runVars, up, taskVars, life, stored, reportVars, roundVars>>

NetworkEnd(k) ==
  /\ phase[k] = "adding"
  /\ k \in netListed.now
  /\ phase' = [phase EXCEPT ![k] = "idle"]
  /\ UNCHANGED <<runVars, up, todo, orphans, cluster, cacheVars, reportVars, roundVars>>

(***************************************************************************)
(* collectComputeAssets: list and cache, then publish what was listed.     *)
(***************************************************************************)
ComputeList ==
  /\ phase["compute"] = "ready"
  /\ phase' = [phase EXCEPT !["compute"] = "adding"]
  /\ todo' = [todo EXCEPT !["compute"] = up]
  /\ UNCHANGED <<runVars, up, orphans, cluster, cacheVars, reportVars, roundVars>>

\* getSubnetIdFromLink, for the instance.
FindSubnet(i) ==
  \E found \in Get("subnet", netLife["subnet"] > 0) :
    orphans' = IF found THEN orphans ELSE orphans \cup {i}

\* AddWithExpire.  An entry that is there is renewed in its place; a new one in a
\* full cache takes that of another, expired or not.  The code's victim is the one
\* least recently used, here it may be any.
AddEntry(i) ==
  IF i \in stored \/ Cardinality(stored) < Capacity
    THEN /\ life' = [life EXCEPT ![i] = Life]
         /\ stored' = stored \cup {i}
    ELSE \E victim \in stored :
           /\ life' = [life EXCEPT ![i] = Life, ![victim] = 0]
           /\ stored' = (stored \ {victim}) \cup {i}

\* Mutant of ComputeAdd: an entry that is there is not renewed.
ComputeAddOnce ==
  /\ phase["compute"] = "adding"
  /\ \E i \in todo["compute"] :
       /\ FindSubnet(i)
       /\ IF life[i] > 0 THEN UNCHANGED <<life, stored>> ELSE AddEntry(i)
       /\ todo' = [todo EXCEPT !["compute"] = @ \ {i}]
       /\ listed' = [listed EXCEPT !.now = @ \cup {i}]
  /\ UNCHANGED <<runVars, up, phase, cluster, netLife, reportVars, netListed>>

ComputeAdd ==
  /\ phase["compute"] = "adding"
  /\ \E i \in todo["compute"] :
       /\ FindSubnet(i)
       /\ \/ AddEntry(i)
          \/ "compute" \in tainted /\ UNCHANGED <<life, stored>>
       /\ todo' = [todo EXCEPT !["compute"] = @ \ {i}]
       /\ listed' = [listed EXCEPT !.now = @ \cup {i}]
  /\ UNCHANGED <<runVars, up, phase, cluster, netLife, reportVars, netListed>>

ComputePublish ==
  /\ phase["compute"] = "adding" /\ todo["compute"] = {}
  /\ phase' = [phase EXCEPT !["compute"] = "idle"]
  /\ hosts' = orphans /\ orphans' = {}
  /\ UNCHANGED <<runVars, up, todo, cluster, cacheVars, report, roundVars>>

(***************************************************************************)
(* collectGKEAssets, for the one cluster.                                  *)
(***************************************************************************)
ListCluster ==
  /\ phase["cluster"] = "ready"
  /\ phase' = [phase EXCEPT !["cluster"] = "resolving"]
  /\ UNCHANGED <<runVars, up, todo, orphans, cluster, cacheVars, reportVars, roundVars>>

\* getVpcIdFromLink.
FindVpc ==
  /\ phase["cluster"] = "resolving"
  /\ phase' = [phase EXCEPT !["cluster"] = "found"]
  /\ \E found \in Get("vpc", netLife["vpc"] > 0) :
       cluster' = [NoCluster EXCEPT !.parent = found]
  /\ UNCHANGED <<runVars, up, todo, orphans, cacheVars, reportVars, roundVars>>

\* The cache is used when it has entries.  Those that have expired may count,
\* and may be among its keys.
KeysFromCache ==
  /\ phase["cluster"] = "found"
  /\ stored # {}
  /\ \E keys \in SUBSET stored :
       /\ "compute" \notin tainted => Live \subseteq keys
       /\ todo' = [todo EXCEPT !["cluster"] = keys]
  /\ phase' = [phase EXCEPT !["cluster"] = "children"]
  /\ UNCHANGED <<runVars, up, orphans, cluster, cacheVars, reportVars, roundVars>>

\* Otherwise the API is asked; its failure is only a warning.
ChildrenFromApi ==
  /\ phase["cluster"] = "found"
  /\ Live = {}
  /\ phase' = [phase EXCEPT !["cluster"] = "publishing"]
  /\ \/ cluster' = [cluster EXCEPT !.children = up \cap Members]
     \/ cluster' = [cluster EXCEPT !.cut = TRUE]
  /\ UNCHANGED <<runVars, up, todo, orphans, cacheVars, reportVars, roundVars>>

\* The region of an instance is compared with the location of the cluster,
\* which for a zonal one is no region.
InRegion(i) == ~config.zonal

\* An entry that has expired or was thrown out since Keys is an error: what was
\* found so far is published.  Asking for it may free the room of an expired entry.
GetChild ==
  /\ phase["cluster"] = "children"
  /\ \E i \in todo["cluster"] : \E found \in Get("compute", life[i] > 0) :
       IF found
         THEN /\ cluster' = [cluster EXCEPT !.children =
                               IF InRegion(i) THEN @ \cup ({i} \cap Members) ELSE @]
              /\ todo' = [todo EXCEPT !["cluster"] = @ \ {i}]
              /\ UNCHANGED stored
         ELSE /\ cluster' = [cluster EXCEPT !.cut = TRUE]
              /\ todo' = [todo EXCEPT !["cluster"] = {}]
              /\ \/ UNCHANGED stored
                 \/ life[i] = 0 /\ stored' = stored \ {i}
  /\ UNCHANGED <<runVars, up, phase, orphans, netLife, life, reportVars, roundVars>>

ClusterPublish ==
  /\ \/ phase["cluster"] = "children" /\ todo["cluster"] = {}
     \/ phase["cluster"] = "publishing"
  /\ phase' = [phase EXCEPT !["cluster"] = "idle"]
  /\ report' = cluster
  /\ cluster' = NoCluster
  /\ UNCHANGED <<runVars, up, todo, orphans, cacheVars, hosts, roundVars>>

(***************************************************************************)
(* Time and the project.                                                   *)
(***************************************************************************)
Expire ==
  /\ Alive
  /\ \/ /\ \E k \in Networks : netLife[k] = 1 /\ netLife' = [netLife EXCEPT ![k] = 0]
        /\ UNCHANGED life
     \/ /\ \E i \in Instances : life[i] = 1 /\ life' = [life EXCEPT ![i] = 0]
        /\ UNCHANGED netLife
  /\ UNCHANGED <<runVars, up, taskVars, stored, tainted, reportVars, roundVars>>

\* Bound: no instance is created.  One the caches do not know yet is no
\* different from one whose entry has expired.
InstanceGone(i) ==
  /\ Alive /\ i \in up
  /\ up' = up \ {i}
  /\ UNCHANGED <<runVars, taskVars, cacheVars, tainted, reportVars, roundVars>>

Step(k) ==
  /\ \/ ApiFails(k)
     \/ k \in Networks /\ (NetworkList(k) \/ NetworkAdd(k) \/ NetworkEvict(k) \/ NetworkEnd(k))
     \/ k = "compute" /\ (ComputeList \/ ComputeAdd \/ ComputePublish)
     \/ k = "cluster" /\ (\/ ListCluster \/ FindVpc \/ KeysFromCache
                          \/ ChildrenFromApi \/ GetChild \/ ClusterPublish)
  /\ Taint

Next ==
  \/ Return \/ CollectAll
  \/ \E k \in Kinds : NilClient(k) \/ Step(k)
  \/ Corrupt \/ Expire
  \/ \E i \in Leaving : InstanceGone(i)

\* Goroutines run, API calls return with or without an error, and the ticker
\* ticks.
Fairness ==
  /\ WF_vars(CollectAll)
  /\ \A k \in Kinds : WF_vars(Step(k))

Spec == Init /\ [][Next]_vars /\ Fairness

-----------------------------------------------------------------------------

\* The entries the project fills a cache with, and whether they all have room.
Entries(c) == IF c = "compute" THEN Cardinality(config.instances) ELSE config.networks[c]
Fits(c) == Entries(c) <= Capacity

\* Nothing but its expiry takes an entry from the cache.
Keeps(c) == c \notin tainted /\ Fits(c)

\* What the collections listed in the round before is in this round's events:
\* the subnet as the parent of the hosts, the VPC as that of the cluster and
\* the instances among its children, unless an entry that has expired has cut
\* the list short or the cluster is zonal; for a project that fits into the
\* caches, and until two goroutines are at a cache at a time.  Two periods of
\* life are just enough when collections are not ordered.
RelationsComplete ==
  /\ hosts # None /\ Keeps("subnet") /\ "subnet" \in netListed.before => hosts = {}
  /\ report # None =>
       /\ Keeps("vpc") /\ "vpc" \in netListed.before => report.parent
       /\ Keeps("compute") /\ ~report.cut /\ ~config.zonal =>
            listed.before \cap Members \subseteq report.children

\* An instance that is gone leaves the children in the end, though the cache
\* has no removal.
GoneForgotten ==
  \A i \in Leaving :
    i \in config.instances \ up ~>
      pc \in {"returned", "panicked"} \/ [](report # None => i \notin report.children)

=============================================================================
