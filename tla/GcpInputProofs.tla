--------------------------- MODULE GcpInputProofs ---------------------------
(***************************************************************************)
(* The Google Cloud input, for any configurations and instances: what its  *)
(* goroutines find in the caches they share is complete, and what is gone  *)
(* from the project ages out of them.                                      *)
(***************************************************************************)
EXTENDS GcpInput, FiniteSetTheorems, TLAPS

\* Only instances of the project are listed and cached.
FromProject ==
  /\ config \in Configurations
  /\ up \cup stored \cup todo["compute"] \subseteq config.instances

\* Why relations are complete: an entry of this round has its whole life left, and one of
\* the round before has aged once.
EntriesLast ==
  /\ Keeps("compute") =>
       /\ \A i \in listed.now : life[i] = Life
       /\ \A i \in listed.before : life[i] >= Life - 1
  /\ \A k \in Networks : Keeps(k) =>
       /\ k \in netListed.now => netLife[k] = Life
       /\ k \in netListed.before => netLife[k] >= Life - 1

\* What the goroutines have put together so far agrees with that.
ComputeSoFar ==
  /\ phase["compute"] # "adding" => orphans = {}
  /\ Keeps("subnet") /\ "subnet" \in netListed.before => orphans = {}

ClusterSoFar ==
  /\ phase["cluster"] \in {"found", "children", "publishing"}
       /\ Keeps("vpc") /\ "vpc" \in netListed.before => cluster.parent
  /\ Keeps("compute") /\ ~cluster.cut /\ ~config.zonal =>
       /\ phase["cluster"] = "children" =>
            listed.before \cap Members \subseteq cluster.children \cup todo["cluster"]
       /\ phase["cluster"] = "publishing" => listed.before \cap Members \subseteq cluster.children

Steps == {"idle", "ready", "adding", "resolving", "found", "children", "publishing"}

TypeOK ==
  /\ pc \in {"begin", "loop", "returned", "panicked"} /\ up \subseteq Instances
  /\ phase \in [Kinds -> Steps] /\ todo \in [Kinds -> SUBSET Instances]
  /\ orphans \subseteq Instances
  /\ cluster \in [parent : BOOLEAN, children : SUBSET Instances, cut : BOOLEAN]
  /\ netLife \in [Networks -> 0..Life] /\ life \in [Instances -> 0..Life]
  /\ stored \subseteq Instances /\ tainted \subseteq Caches
  /\ listed \in [now : SUBSET Instances, before : SUBSET Instances]
  /\ netListed \in [now : SUBSET Networks, before : SUBSET Networks]

IInv == TypeOK /\ EntriesLast /\ ComputeSoFar /\ ClusterSoFar /\ RelationsComplete

-----------------------------------------------------------------------------

\* Looking for an entry tells whether it is there, until the cache is tainted.
LEMMA GetTells ==
  ASSUME NEW c, NEW present \in BOOLEAN, NEW found \in Get(c, present)
  PROVE  found \in BOOLEAN /\ (Keeps(c) => found = present)
<1>1. CASE c \in tainted
  <2>1. Get(c, present) = {present} \cup {FALSE}
    BY <1>1 DEF Get
  <2>2. found = present \/ found = FALSE
    BY <2>1, Zenon
  <2> QED BY <1>1, <2>2, Zenon DEF Keeps
<1>2. CASE c \notin tainted
  <2>1. Get(c, present) = {present} \cup {}
    BY <1>2 DEF Get
  <2>2. found = present
    BY <2>1, Zenon
  <2> QED BY <1>2, <2>2, Zenon
<1> QED BY <1>1, <1>2

\* What a cache keeps it has kept before.
LEMMA KeptBefore ==
  ASSUME config' = config, tainted \subseteq tainted'
  PROVE  \A c : Keeps(c)' => Keeps(c) /\ c \notin tainted
BY DEF Keeps, Fits, Entries

\* While the instances of the project have room in the cache, none is thrown out.
LEMMA NoneThrownOut ==
  ASSUME FromProject, NEW i \in todo["compute"], Fits("compute")
  PROVE  i \in stored \/ Cardinality(stored) < Capacity
<1> SUFFICES ASSUME i \notin stored PROVE Cardinality(stored) < Capacity
  OBVIOUS
<1>1. IsFiniteSet(config.instances) /\ stored \cup {i} \subseteq config.instances
  BY ConfigurationsAssumption DEF FromProject
<1>2. /\ IsFiniteSet(stored) /\ Cardinality(stored) \in Nat
      /\ Cardinality(stored \cup {i}) <= Cardinality(config.instances)
      /\ Cardinality(config.instances) \in Nat
  BY <1>1, FS_Subset, FS_CardinalityType
<1>3. Cardinality(stored \cup {i}) = Cardinality(stored) + 1
  BY <1>2, FS_AddElement
<1>4. Cardinality(config.instances) <= Capacity
  BY DEF Fits, Entries
<1> QED BY <1>2, <1>3, <1>4, CapacityAssumption

\* A new process: before the first collection, and after a panic.
LEMMA EmptyGood ==
  ASSUME phase = IdlePhase, todo = NoTodo, orphans = {}, cluster = NoCluster,
         netLife = NoNetLife, life = NoLife, stored = {}, tainted = {},
         hosts = None, report = None,
         listed = NoneListed, netListed = NoNetListed,
         pc \in {"begin", "panicked"}, up \subseteq Instances
  PROVE  IInv
<1> USE DEF IdlePhase, NoTodo, NoCluster, NoNetLife, NoLife, NoneListed,
    NoNetListed, Life
<1>1. TypeOK
  BY DEF TypeOK, Steps
<1>2. EntriesLast
  BY DEF EntriesLast
<1>3. ComputeSoFar /\ ClusterSoFar /\ RelationsComplete
  BY DEF ComputeSoFar, ClusterSoFar, RelationsComplete, Kinds, Caches
<1> QED BY <1>1, <1>2, <1>3 DEF IInv

\* After a panic everything is as in a new process.
LEMMA PanicGood ==
  ASSUME IInv, Panic
  PROVE  IInv'
<1> USE DEF Panic, IdlePhase, NoTodo, NoCluster, NoNetLife, NoLife,
    NoneListed, NoNetListed, Life
<1>1. TypeOK'
  BY DEF IInv, TypeOK, Steps
<1>2. EntriesLast'
  BY DEF EntriesLast
<1>3. ComputeSoFar' /\ ClusterSoFar' /\ RelationsComplete'
  BY DEF ComputeSoFar, ClusterSoFar, RelationsComplete, Kinds, Caches
<1> QED BY <1>1, <1>2, <1>3 DEF IInv

\* Entries age by one at a tick, when this round becomes the one before.
LEMMA CollectAllGood ==
  ASSUME IInv, CollectAll
  PROVE  IInv'
<1>kept. \A c : Keeps(c)' => Keeps(c)
  BY KeptBefore DEF CollectAll
<1>1. TypeOK'
  BY DEF IInv, TypeOK, CollectAll, Aged, Life, Steps
<1>2. EntriesLast'
  BY <1>kept DEF IInv, TypeOK, EntriesLast, CollectAll, Aged, Life
<1>3. ComputeSoFar' /\ ClusterSoFar' /\ RelationsComplete'
  <2>1. /\ orphans' = {} /\ hosts' = None /\ report' = None
        /\ phase'["cluster"] \in {"idle", "ready"}
    BY DEF IInv, ComputeSoFar, CollectAll, Idle, Kinds, Caches
  <2> QED BY <2>1 DEF ComputeSoFar, ClusterSoFar, RelationsComplete
<1> QED BY <1>1, <1>2, <1>3 DEF IInv

\* Steps that leave the caches, and what was put in them, as they are.
LEMMA EntriesFrame ==
  ASSUME EntriesLast, UNCHANGED <<config, netLife, life, listed, netListed>>,
         tainted \subseteq tainted'
  PROVE  EntriesLast'
<1> QED BY KeptBefore DEF EntriesLast

\* Nothing of this round's events changes, and the goroutines are where they were.
LEMMA StillGood ==
  ASSUME IInv, TypeOK', EntriesLast', tainted \subseteq tainted',
         UNCHANGED <<config, phase, todo, orphans, cluster, hosts, report>>,
         listed'.before = listed.before, netListed'.before = netListed.before
  PROVE  IInv'
<1> QED BY KeptBefore DEF IInv, ComputeSoFar, ClusterSoFar, RelationsComplete

\* An entry expires with its last tick of life, so none of the last two rounds does.
LEMMA ExpireGood ==
  ASSUME IInv, Expire
  PROVE  IInv'
<1>kept. \A c : Keeps(c)' => Keeps(c)
  BY KeptBefore DEF Expire, runVars
<1>1. TypeOK'
  BY DEF IInv, TypeOK, Expire, runVars, taskVars, reportVars,
      roundVars, Life
<1>2. EntriesLast'
  <2>1. CASE /\ \E k \in Networks : netLife[k] = 1 /\ netLife' = [netLife EXCEPT ![k] = 0]
             /\ UNCHANGED life
    BY <1>kept, <2>1 DEF IInv, TypeOK, EntriesLast, Expire, roundVars, Life
  <2>2. CASE /\ \E i \in Instances : life[i] = 1 /\ life' = [life EXCEPT ![i] = 0]
             /\ UNCHANGED netLife
    BY <1>kept, <2>2 DEF IInv, TypeOK, EntriesLast, Expire, roundVars, Life
  <2> QED BY <2>1, <2>2 DEF Expire
<1> QED BY <1>1, <1>2, StillGood DEF Expire, runVars, taskVars, reportVars,
    roundVars

\* Caching the VPC or the subnet gives its entry a whole life, and takes it away
\* only where there are too many.
LEMMA NetworkGood ==
  ASSUME IInv, NEW k \in Networks,
         NetworkList(k) \/ NetworkAdd(k) \/ NetworkEvict(k) \/ NetworkEnd(k),
         config \in Configurations, tainted \subseteq tainted', tainted' \subseteq Caches
  PROVE  IInv'
<1> USE DEF NetworkList, NetworkAdd, NetworkEvict, NetworkEnd
<1>n. k # "compute" /\ k # "cluster" /\ k \in Kinds
  BY DEF Networks, Kinds, Caches
<1>1. TypeOK'
  BY <1>n DEF IInv, TypeOK, runVars, taskVars, cacheVars, reportVars, roundVars, Steps, Life
<1>2. EntriesLast'
  <2>1. CASE NetworkList(k) \/ NetworkEnd(k)
    BY <2>1, EntriesFrame DEF IInv, runVars, cacheVars, roundVars
  <2>2. CASE NetworkAdd(k)
    <3>1. \A c : Keeps(c)' => Keeps(c) /\ c \notin tainted
      BY <2>2, KeptBefore DEF runVars
    <3> QED BY <2>2, <3>1 DEF IInv, TypeOK, EntriesLast, Life
  <2>3. CASE NetworkEvict(k)
    <3>1. \A c : Keeps(c)' => Keeps(c)
      BY <2>3, KeptBefore DEF runVars
    <3>2. ~Keeps(k)
      <4>1. config.networks[k] \in Nat
        BY ConfigurationsAssumption
      <4> QED BY <1>n, <2>3, <4>1, CapacityAssumption DEF Keeps, Fits, Entries
    <3> QED BY <2>3, <3>1, <3>2 DEF IInv, TypeOK, EntriesLast, roundVars
  <2> QED BY <2>1, <2>2, <2>3
<1>3. /\ UNCHANGED <<config, todo, orphans, cluster, hosts, report>>
      /\ listed'.before = listed.before /\ netListed'.before = netListed.before
  BY DEF IInv, TypeOK, runVars, taskVars, reportVars, roundVars
<1>4. phase'["compute"] = phase["compute"] /\ phase'["cluster"] = phase["cluster"]
  BY <1>n DEF IInv, TypeOK, taskVars, Kinds, Caches
<1>5. ComputeSoFar' /\ ClusterSoFar' /\ RelationsComplete'
  BY <1>3, <1>4, KeptBefore DEF IInv, ComputeSoFar, ClusterSoFar, RelationsComplete
<1> QED BY <1>1, <1>2, <1>5 DEF IInv

\* A collection that fails forgets what it has found and publishes nothing.
LEMMA ApiFailsGood ==
  ASSUME IInv, NEW k \in Kinds, ApiFails(k), tainted \subseteq tainted',
         tainted' \subseteq Caches
  PROVE  IInv'
<1>1. TypeOK'
  BY DEF IInv, TypeOK, ApiFails, runVars, cacheVars, reportVars,
      roundVars, Steps, Life
<1>2. EntriesLast'
  BY EntriesFrame DEF IInv, ApiFails, runVars, cacheVars, roundVars
<1>3. UNCHANGED <<config, cluster, hosts, report, listed, netListed>>
  BY DEF ApiFails, runVars, reportVars, roundVars
<1>4. ComputeSoFar'
  BY <1>3, KeptBefore DEF IInv, TypeOK, ApiFails, ComputeSoFar, Kinds, Caches
<1>5. ClusterSoFar'
  <2>1. \/ phase'["cluster"] = "idle"
        \/ phase'["cluster"] = phase["cluster"] /\ todo'["cluster"] = todo["cluster"]
    BY DEF IInv, TypeOK, ApiFails, Kinds
  <2> QED BY <1>3, <2>1, KeptBefore DEF IInv, ClusterSoFar
<1>6. RelationsComplete'
  BY <1>3, KeptBefore DEF IInv, RelationsComplete
<1> QED BY <1>1, <1>2, <1>4, <1>5, <1>6 DEF IInv

\* Until its cache is tainted the subnet listed in the round before is found for
\* every instance; and an instance that is cached gets a whole life.
LEMMA ComputeGood ==
  ASSUME IInv, FromProject, ComputeList \/ ComputeAdd \/ ComputePublish,
         tainted \subseteq tainted', tainted' \subseteq Caches
  PROVE  IInv'
<1>k. "compute" \in Kinds /\ "cluster" \in Kinds
  BY DEF Kinds, Caches
<1>kept. \A c : Keeps(c)' => Keeps(c) /\ c \notin tainted
  BY KeptBefore DEF ComputeList, ComputeAdd, ComputePublish, runVars
<1>1. TypeOK'
  <2>1. CASE ComputeList
    BY <1>k, <2>1 DEF IInv, TypeOK, ComputeList, runVars, cacheVars,
        reportVars, roundVars, Steps
  <2>2. CASE ComputeAdd
    <3>1. PICK i \in todo["compute"] :
            /\ FindSubnet(i)
            /\ AddEntry(i) \/ UNCHANGED <<life, stored>>
            /\ todo' = [todo EXCEPT !["compute"] = @ \ {i}]
            /\ listed' = [listed EXCEPT !.now = @ \cup {i}]
      BY <2>2 DEF ComputeAdd
    <3>2. i \in Instances
      BY <1>k, <3>1 DEF IInv, TypeOK
    <3>3. orphans' \subseteq Instances
      BY <3>1, <3>2 DEF IInv, TypeOK, FindSubnet
    <3>4. life' \in [Instances -> 0..Life] /\ stored' \subseteq Instances
      <4>1. life' = life \/ \E j \in stored \cup {i} :
                              life' = [life EXCEPT ![i] = Life, ![j] = IF j = i THEN Life ELSE 0]
        BY <3>1, <3>2 DEF IInv, TypeOK, AddEntry
      <4>2. life' \in [Instances -> 0..Life]
        BY <3>2, <4>1 DEF IInv, TypeOK, Life
      <4>3. stored' \subseteq stored \cup {i}
        BY <3>1 DEF AddEntry
      <4> QED BY <3>2, <4>2, <4>3 DEF IInv, TypeOK
    <3> QED BY <1>k, <2>2, <3>1, <3>2, <3>3, <3>4 DEF IInv, TypeOK, ComputeAdd,
        runVars, reportVars
  <2>3. CASE ComputePublish
    BY <1>k, <2>3 DEF IInv, TypeOK, ComputePublish, runVars, cacheVars,
        reportVars, roundVars, Steps
  <2> QED BY <2>1, <2>2, <2>3
<1>2. EntriesLast'
  <2>1. CASE ComputeList \/ ComputePublish
    BY <2>1, EntriesFrame DEF IInv, ComputeList, ComputePublish, runVars, cacheVars,
        roundVars
  <2>2. CASE ComputeAdd
    <3>1. PICK i \in todo["compute"] :
            /\ AddEntry(i) \/ ("compute" \in tainted /\ UNCHANGED <<life, stored>>)
            /\ listed' = [listed EXCEPT !.now = @ \cup {i}]
      BY <2>2 DEF ComputeAdd
    <3>2. Keeps("compute") => life' = [life EXCEPT ![i] = Life]
      <4>1. ASSUME Keeps("compute") PROVE AddEntry(i) /\ (i \in stored \/ Cardinality(stored) < Capacity)
        BY <3>1, <4>1, NoneThrownOut DEF Keeps
      <4> QED BY <4>1 DEF AddEntry
    <3> QED BY <1>k, <1>kept, <2>2, <3>1, <3>2 DEF IInv, TypeOK, EntriesLast, ComputeAdd, Life
  <2> QED BY <2>1, <2>2
<1>3. /\ UNCHANGED <<config, cluster, report>> /\ phase'["cluster"] = phase["cluster"]
      /\ todo'["cluster"] = todo["cluster"]
      /\ listed'.before = listed.before /\ netListed' = netListed
  BY <1>k DEF IInv, TypeOK, ComputeList, ComputeAdd, ComputePublish,
      runVars, reportVars, roundVars
<1>4. ClusterSoFar'
  BY <1>3, <1>kept DEF IInv, ClusterSoFar
<1>5. /\ ComputeSoFar'
      /\ \/ UNCHANGED hosts
         \/ (Keeps("subnet")' /\ "subnet" \in netListed'.before => hosts' = {})
  <2>1. CASE ComputeList
    BY <1>3, <1>kept, <2>1 DEF IInv, ComputeList, ComputeSoFar, reportVars
  <2>2. CASE ComputePublish
    BY <1>3, <1>kept, <2>2 DEF IInv, ComputePublish, ComputeSoFar
  <2>3. CASE ComputeAdd
    <3>1. ASSUME Keeps("subnet"), "subnet" \in netListed.before
          PROVE  orphans' = orphans
      <4>1. (netLife["subnet"] > 0) = TRUE
        BY <3>1 DEF IInv, TypeOK, EntriesLast, Life, Networks
      <4>2. PICK found \in Get("subnet", netLife["subnet"] > 0) :
              \E i \in Instances : orphans' = IF found THEN orphans ELSE orphans \cup {i}
        BY <1>k, <2>3 DEF IInv, TypeOK, ComputeAdd, FindSubnet
      <4>3. (netLife["subnet"] > 0) \in BOOLEAN
        OBVIOUS
      <4>4. found = (netLife["subnet"] > 0)
        BY <3>1, <4>2, <4>3, GetTells, Zenon
      <4>5. found = TRUE
        BY <4>1, <4>4, Zenon
      <4> QED BY <4>2, <4>5
    <3> QED BY <1>3, <1>kept, <2>3, <3>1 DEF IInv, ComputeSoFar, ComputeAdd, reportVars
  <2> QED BY <2>1, <2>2, <2>3
<1>6. RelationsComplete'
  BY <1>3, <1>5, <1>kept DEF IInv, RelationsComplete
<1> QED BY <1>1, <1>2, <1>4, <1>5, <1>6 DEF IInv

\* The VPC listed in the round before is found, and so is each instance of that
\* round, unless an expired entry ends the loop.
LEMMA ClusterGood ==
  ASSUME IInv, tainted \subseteq tainted', tainted' \subseteq Caches,
         \/ ListCluster \/ FindVpc \/ KeysFromCache
         \/ ChildrenFromApi \/ GetChild \/ ClusterPublish
  PROVE  IInv'
<1>k. "compute" \in Kinds /\ "cluster" \in Kinds
  BY DEF Kinds, Caches
<1>0. /\ UNCHANGED <<config, orphans, netLife, life, hosts, listed, netListed>>
      /\ UNCHANGED <<pc, up>> /\ stored' \subseteq stored
      /\ phase'["compute"] = phase["compute"]
  BY <1>k DEF IInv, TypeOK, ListCluster, FindVpc, KeysFromCache,
    ChildrenFromApi, GetChild, ClusterPublish,
    runVars, cacheVars, reportVars, roundVars
<1>kept. \A c : Keeps(c)' => Keeps(c)
  BY <1>0, KeptBefore
<1>1. EntriesLast' /\ ComputeSoFar'
  BY <1>0, <1>kept, EntriesFrame DEF IInv, ComputeSoFar
<1>live. Keeps("compute") => listed.before \subseteq Live
  BY DEF IInv, TypeOK, EntriesLast, Live, Life
<1>2. CASE ListCluster
  <2>1. /\ UNCHANGED <<todo, cluster, report>>
        /\ phase' = [phase EXCEPT !["cluster"] = "resolving"]
    BY <1>2 DEF ListCluster, reportVars
  <2> QED BY <1>k, <1>0, <1>kept, <1>1, <2>1 DEF IInv, TypeOK, Steps, ClusterSoFar,
      RelationsComplete
<1>3. CASE FindVpc
  <2>1. PICK found \in Get("vpc", netLife["vpc"] > 0) :
          cluster' = [NoCluster EXCEPT !.parent = found]
    BY <1>3 DEF FindVpc
  <2>a. (netLife["vpc"] > 0) \in BOOLEAN
    OBVIOUS
  <2>b. found \in BOOLEAN /\ (Keeps("vpc") => found = (netLife["vpc"] > 0))
    BY <2>a, <2>1, GetTells, Zenon
  <2>2. found \in BOOLEAN
    BY <2>b
  <2>3. ASSUME Keeps("vpc"), "vpc" \in netListed.before
        PROVE  found = TRUE
    <3>1. (netLife["vpc"] > 0) = TRUE
      BY <2>3 DEF IInv, TypeOK, EntriesLast, Life, Networks
    <3> QED BY <2>3, <2>b, <3>1, Zenon
  <2>4. /\ UNCHANGED <<todo, report>> /\ phase' = [phase EXCEPT !["cluster"] = "found"]
        /\ cluster' = [parent |-> found, children |-> {}, cut |-> FALSE]
    BY <1>3, <2>1 DEF FindVpc, reportVars, NoCluster
  <2> QED BY <1>k, <1>0, <1>kept, <1>1, <2>2, <2>3, <2>4 DEF IInv, TypeOK, Steps,
      ClusterSoFar, RelationsComplete
<1>4. CASE KeysFromCache
  <2>1. PICK keys \in SUBSET stored :
          /\ "compute" \notin tainted => Live \subseteq keys
          /\ todo' = [todo EXCEPT !["cluster"] = keys]
    BY <1>4 DEF KeysFromCache
  <2>2. /\ UNCHANGED <<cluster, report>>
        /\ phase' = [phase EXCEPT !["cluster"] = "children"]
        /\ phase["cluster"] = "found"
    BY <1>4 DEF KeysFromCache, reportVars
  <2>3. TypeOK'
    BY <1>k, <1>0, <2>1, <2>2 DEF IInv, TypeOK, Steps
  <2>4. ClusterSoFar'
    BY <1>k, <1>0, <1>kept, <1>live, <2>1, <2>2 DEF IInv, TypeOK, ClusterSoFar, Keeps
  <2> QED BY <1>0, <1>kept, <1>1, <2>2, <2>3, <2>4 DEF IInv, RelationsComplete
<1>5. CASE ChildrenFromApi
  <2>1. /\ UNCHANGED <<todo, report>> /\ phase' = [phase EXCEPT !["cluster"] = "publishing"]
        /\ phase["cluster"] = "found" /\ Live = {}
        /\ cluster'.parent = cluster.parent
    BY <1>5 DEF IInv, TypeOK, ChildrenFromApi, reportVars
  <2>c. cluster' \in [parent : BOOLEAN, children : SUBSET Instances, cut : BOOLEAN]
    <3>1. CASE cluster' = [cluster EXCEPT !.children = up \cap Members]
      BY <3>1 DEF IInv, TypeOK
    <3>2. CASE cluster' = [cluster EXCEPT !.cut = TRUE]
      BY <3>2 DEF IInv, TypeOK
    <3> QED BY <1>5, <3>1, <3>2 DEF ChildrenFromApi
  <2>2. TypeOK'
    BY <1>k, <1>0, <2>1, <2>c DEF IInv, TypeOK, Steps
  <2>3. ClusterSoFar'
    BY <1>k, <1>0, <1>kept, <1>live, <2>1 DEF IInv, TypeOK, ClusterSoFar
  <2> QED BY <1>0, <1>kept, <1>1, <2>1, <2>2, <2>3 DEF IInv, RelationsComplete
<1>6. CASE GetChild
  <2>1. /\ UNCHANGED <<phase, report>> /\ phase["cluster"] = "children"
    BY <1>6 DEF GetChild, reportVars
  <2>2. PICK i \in todo["cluster"] :
          \/ /\ cluster' = [cluster EXCEPT !.children =
                               IF InRegion(i) THEN @ \cup ({i} \cap Members) ELSE @]
             /\ todo' = [todo EXCEPT !["cluster"] = @ \ {i}]
          \/ /\ cluster' = [cluster EXCEPT !.cut = TRUE]
             /\ todo' = [todo EXCEPT !["cluster"] = {}]
    BY <1>6 DEF GetChild
  <2>3. i \in Instances
    BY <1>k, <2>2 DEF IInv, TypeOK
  <2>a. CASE /\ cluster' = [cluster EXCEPT !.children =
                            IF InRegion(i) THEN @ \cup ({i} \cap Members) ELSE @]
             /\ todo' = [todo EXCEPT !["cluster"] = @ \ {i}]
    <3>1. /\ cluster'.parent = cluster.parent /\ cluster'.cut = cluster.cut
          /\ cluster' \in [parent : BOOLEAN, children : SUBSET Instances, cut : BOOLEAN]
          /\ cluster.children \subseteq cluster'.children
          /\ ~config.zonal /\ i \in Members => i \in cluster'.children
      <4>1. CASE InRegion(i)
        BY <2>a, <2>3, <4>1 DEF IInv, TypeOK
      <4>2. CASE ~InRegion(i)
        BY <2>a, <2>3, <4>2 DEF IInv, TypeOK, InRegion
      <4> QED BY <4>1, <4>2
    <3>2. /\ todo'["cluster"] = todo["cluster"] \ {i}
          /\ todo' \in [Kinds -> SUBSET Instances]
      BY <1>k, <2>a DEF IInv, TypeOK
    <3>3. TypeOK'
      BY <1>0, <1>kept, <2>1, <3>1, <3>2 DEF IInv, TypeOK
    <3>4. ClusterSoFar'
      BY <1>0, <1>kept, <2>1, <3>1, <3>2 DEF IInv, ClusterSoFar
    <3> QED BY <1>0, <1>kept, <1>1, <2>1, <3>3, <3>4 DEF IInv, RelationsComplete
  <2>b. CASE /\ cluster' = [cluster EXCEPT !.cut = TRUE]
             /\ todo' = [todo EXCEPT !["cluster"] = {}]
    <3>1. TypeOK' /\ cluster'.parent = cluster.parent /\ cluster'.cut = TRUE
      BY <1>k, <1>0, <2>1, <2>b DEF IInv, TypeOK
    <3>2. ClusterSoFar'
      BY <1>0, <1>kept, <2>1, <3>1 DEF IInv, ClusterSoFar
    <3> QED BY <1>0, <1>kept, <1>1, <2>1, <3>1, <3>2 DEF IInv, RelationsComplete
  <2> QED BY <2>2, <2>a, <2>b
<1>7. CASE ClusterPublish
  <2>1. /\ UNCHANGED todo /\ report' = cluster
        /\ phase' = [phase EXCEPT !["cluster"] = "idle"]
        /\ cluster' = NoCluster
        /\ \/ phase["cluster"] = "children" /\ todo["cluster"] = {}
           \/ phase["cluster"] = "publishing"
    BY <1>7 DEF ClusterPublish
  <2>2. TypeOK'
    BY <1>k, <1>0, <2>1 DEF IInv, TypeOK, Steps, NoCluster
  <2>3. ClusterSoFar'
    BY <1>k, <2>1 DEF IInv, TypeOK, ClusterSoFar
  <2>4. RelationsComplete'
    BY <1>0, <1>kept, <2>1 DEF IInv, ClusterSoFar, RelationsComplete
  <2> QED BY <1>1, <2>2, <2>3, <2>4 DEF IInv
<1> QED BY <1>2, <1>3, <1>4, <1>5, <1>6, <1>7

\* Every step of a collection, with the meetings at a cache it records.
LEMMA StepGood ==
  ASSUME IInv, FromProject, NEW k \in Kinds, Step(k)
  PROVE  IInv'
<1>1. tainted \subseteq tainted' /\ tainted' \subseteq Caches
  BY DEF IInv, TypeOK, Step, Taint
<1>2. config \in Configurations
  BY DEF FromProject
<1> QED BY <1>1, <1>2, ApiFailsGood, NetworkGood, ComputeGood, ClusterGood DEF Step

\* What leaves the goroutines and the caches alone.
LEMMA OtherGood ==
  ASSUME IInv, Return \/ (\E i \in Leaving : InstanceGone(i)) \/ UNCHANGED vars
  PROVE  IInv'
<1>1. /\ UNCHANGED <<taskVars, cacheVars, tainted, reportVars, roundVars, config>>
      /\ pc' \in {pc, "returned"} /\ up' \subseteq up
  BY DEF Return, InstanceGone, vars, runVars
<1> USE <1>1 DEF taskVars, cacheVars, reportVars, roundVars
<1>2. TypeOK'
  BY DEF IInv, TypeOK
<1>3. EntriesLast'
  BY EntriesFrame DEF IInv
<1> QED BY <1>2, <1>3, StillGood

\* What is listed and cached comes from what the project has, which only shrinks.
LEMMA ProjectKept ==
  ASSUME TypeOK, FromProject, [Next]_vars
  PROVE  FromProject'
<1>k. "compute" \in Kinds /\ "cluster" \in Kinds
  BY DEF Kinds, Caches
<1>1. CASE Panic
  BY <1>k, <1>1 DEF FromProject, Panic, NoTodo
<1>2. CASE CollectAll \/ Return \/ Expire \/ (\E i \in Leaving : InstanceGone(i)) \/ UNCHANGED vars
  BY <1>2 DEF FromProject, CollectAll, Return, Expire, InstanceGone, vars, runVars,
     taskVars, cacheVars
<1>3. ASSUME NEW k \in Kinds, ApiFails(k) PROVE FromProject'
  BY <1>k, <1>3 DEF TypeOK, FromProject, ApiFails, runVars, cacheVars
<1>4. ASSUME NEW k \in Networks,
             NetworkList(k) \/ NetworkAdd(k) \/ NetworkEvict(k) \/ NetworkEnd(k)
      PROVE  FromProject'
  BY <1>4 DEF FromProject, NetworkList, NetworkAdd, NetworkEvict, NetworkEnd, runVars,
     taskVars, cacheVars
<1>5. CASE ComputeList \/ ComputePublish
  BY <1>k, <1>5 DEF TypeOK, FromProject, ComputeList, ComputePublish, runVars, cacheVars
<1>6. CASE ComputeAdd
  <2>1. PICK i \in todo["compute"] :
          /\ AddEntry(i) \/ UNCHANGED stored
          /\ todo' = [todo EXCEPT !["compute"] = @ \ {i}]
    BY <1>6 DEF ComputeAdd
  <2>2. stored' \subseteq stored \cup {i}
    BY <2>1 DEF AddEntry
  <2> QED BY <1>k, <1>6, <2>1, <2>2 DEF TypeOK, FromProject, ComputeAdd, runVars
<1>7. CASE \/ ListCluster \/ FindVpc \/ KeysFromCache
           \/ ChildrenFromApi \/ GetChild \/ ClusterPublish
  <2>1. /\ UNCHANGED <<config, up>> /\ stored' \subseteq stored
        /\ todo'["compute"] = todo["compute"]
    BY <1>k, <1>7 DEF TypeOK, ListCluster, FindVpc, KeysFromCache, ChildrenFromApi, GetChild,
       ClusterPublish, runVars, cacheVars
  <2> QED BY <2>1 DEF FromProject
<1> QED BY <1>1, <1>2, <1>3, <1>4, <1>5, <1>6, <1>7 DEF Next, NilClient, Corrupt, Step

\* The invariant of the proof holds in every state.
LEMMA SpecIInv == Spec => []IInv
<1>1. Init => IInv /\ FromProject
  <2> SUFFICES ASSUME Init PROVE IInv /\ FromProject
    OBVIOUS
  <2>1. up \subseteq Instances
    BY ConfigurationsAssumption DEF Init
  <2>2. FromProject
    BY DEF Init, FromProject, NoTodo, Kinds, Caches
  <2> QED BY <2>1, <2>2, EmptyGood DEF Init
<1>2. IInv /\ FromProject /\ [Next]_vars => IInv' /\ FromProject'
  BY CollectAllGood, PanicGood, StepGood, ExpireGood, OtherGood, ProjectKept
     DEF Next, NilClient, Corrupt, IInv
<1> QED BY <1>1, <1>2, PTL DEF Spec

\* However the four collections of a round overlap, the events of a round have
\* the parents and children that the round before has listed, until two
\* goroutines are at a cache at a time.
THEOREM RelationsHold == Spec => []RelationsComplete
<1>1. IInv => RelationsComplete
  BY DEF IInv
<1> QED BY <1>1, SpecIInv, PTL

-----------------------------------------------------------------------------

(***************************************************************************)
(* What GoneForgotten promises, without its "in the end": the caches have  *)
(* no removal, yet each tick brings an instance that is gone nearer to     *)
(* being forgotten, and nothing takes it back.                             *)
(***************************************************************************)

\* No listing, entry, cluster under way or report of this round has the instance.
Forgotten(i) ==
  /\ i \notin up \cup todo["compute"] \cup cluster.children
  /\ life[i] = 0
  /\ report # None => i \notin report.children

\* The most ticks an instance that is gone can still be known for: a listing that
\* was made before may yet renew its entry, and the last tick is for the report.
TicksLeft(i) ==
  IF Forgotten(i) THEN 0
  ELSE IF i \in todo["compute"] THEN Life + 1 ELSE life[i] + 1

\* A goroutine that has ended leaves nothing of what it was looking at.
Leftovers ==
  /\ phase["compute"] # "adding" => todo["compute"] = {}
  /\ phase["cluster"] \notin {"found", "children", "publishing"} => cluster = NoCluster

\* Every step leaves them like that.
LEMMA LeftoversKept == Spec => []Leftovers
<1>1. Init => Leftovers
  BY DEF Init, Leftovers, IdlePhase, NoTodo, Kinds, Caches
<1>2. IInv /\ Leftovers /\ [Next]_vars => Leftovers'
  <2> SUFFICES ASSUME TypeOK, Leftovers, [Next]_vars PROVE Leftovers'
    BY DEF IInv
  <2>k. "compute" \in Kinds /\ "cluster" \in Kinds
    BY DEF Kinds, Caches
  <2>1. CASE Panic
    BY <2>k, <2>1 DEF Leftovers, Panic, NoTodo
  <2>2. CASE CollectAll
    BY <2>k, <2>2 DEF TypeOK, Leftovers, CollectAll, Idle
  <2>3. CASE Return \/ Expire \/ (\E i \in Leaving : InstanceGone(i)) \/ UNCHANGED vars
    BY <2>3 DEF Leftovers, Return, Expire, InstanceGone, vars, taskVars
  <2>4. ASSUME NEW k \in Kinds, ApiFails(k) PROVE Leftovers'
    BY <2>k, <2>4 DEF TypeOK, Leftovers, ApiFails
  <2>5. ASSUME NEW k \in Networks,
               NetworkList(k) \/ NetworkAdd(k) \/ NetworkEvict(k) \/ NetworkEnd(k)
        PROVE  Leftovers'
    <3>1. k # "compute" /\ k # "cluster"
      BY DEF Networks
    <3> QED BY <2>k, <2>5, <3>1 DEF TypeOK, Leftovers, NetworkList, NetworkAdd, NetworkEvict,
        NetworkEnd, taskVars
  <2>6. CASE ComputeList \/ ComputeAdd \/ ComputePublish
    <3>1. UNCHANGED cluster /\ phase'["cluster"] = phase["cluster"]
      BY <2>k, <2>6 DEF TypeOK, ComputeList, ComputeAdd, ComputePublish
    <3>2. phase'["compute"] = "adding" \/ todo'["compute"] = {}
      BY <2>k, <2>6 DEF TypeOK, ComputeList, ComputeAdd, ComputePublish
    <3> QED BY <3>1, <3>2 DEF Leftovers
  <2>7. CASE \/ ListCluster \/ FindVpc \/ KeysFromCache
             \/ ChildrenFromApi \/ GetChild \/ ClusterPublish
    <3>1. todo'["compute"] = todo["compute"] /\ phase'["compute"] = phase["compute"]
      BY <2>k, <2>7 DEF TypeOK, ListCluster, FindVpc, KeysFromCache, ChildrenFromApi, GetChild, ClusterPublish
    <3>2. phase'["cluster"] \notin {"found", "children", "publishing"} => cluster' = NoCluster
      BY <2>k, <2>7 DEF TypeOK, Leftovers, ListCluster, FindVpc, KeysFromCache, ChildrenFromApi, GetChild,
         ClusterPublish
    <3> QED BY <3>1, <3>2 DEF Leftovers
  <2> QED BY <2>1, <2>2, <2>3, <2>4, <2>5, <2>6, <2>7 DEF Next, NilClient, Corrupt, Step
<1> QED BY <1>1, <1>2, SpecIInv, PTL DEF Spec

\* Ticks are not won back: a goroutine has a gone instance only from one that
\* had it before.
LEMMA TicksNotWon ==
  ASSUME TypeOK, TypeOK', NEW i \in Instances, i \notin up, i \notin up',
         i \in todo'["compute"] => i \in todo["compute"],
         life'[i] <= life[i] \/ i \in todo["compute"],
         i \in cluster'.children => i \in cluster.children \/ life[i] > 0,
         report' # None /\ i \in report'.children =>
           i \in cluster.children \/ (report # None /\ i \in report.children)
  PROVE  TicksLeft(i)' <= TicksLeft(i)
<1>1. life[i] \in 0..3 /\ life'[i] \in 0..3
  BY DEF TypeOK, Life
<1>2. Forgotten(i) => Forgotten(i)'
  BY <1>1 DEF Forgotten
<1> QED BY <1>1, <1>2 DEF TicksLeft, Life

\* An instance that is gone stays gone, no step gives it more ticks to be known
\* for, and every tick takes one away: a listing from before its end is the only
\* thing that may still renew its entry, once.
GoneAges ==
  \A i \in Instances \ up :
    /\ i \notin up'
    /\ TicksLeft(i)' <= TicksLeft(i)
    /\ CollectAll /\ TicksLeft(i) > 0 => TicksLeft(i)' < TicksLeft(i)

\* At a tick the entries age, and the reports of the round are over.
LEMMA TickTakesOne ==
  ASSUME TypeOK, TypeOK', Leftovers, CollectAll, NEW i \in Instances \ up
  PROVE  /\ i \notin up'
         /\ TicksLeft(i)' <= TicksLeft(i)
         /\ TicksLeft(i) > 0 => TicksLeft(i)' < TicksLeft(i)
<1>1. life[i] \in 0..3 /\ life'[i] = (IF life[i] = 0 THEN 0 ELSE life[i] - 1)
  BY DEF TypeOK, CollectAll, Aged, Life
<1>2. /\ i \notin up' \cup todo["compute"] \cup todo'["compute"]
      /\ cluster = NoCluster /\ cluster' = NoCluster /\ report' = None
  BY DEF Leftovers, CollectAll, Idle, Kinds, Caches
<1>3. Forgotten(i)' <=> life'[i] = 0
  BY <1>2 DEF Forgotten, NoCluster
<1>4. Forgotten(i) => life[i] = 0
  BY DEF Forgotten
<1> QED BY <1>1, <1>2, <1>3, <1>4 DEF TicksLeft

\* What every step but a tick does to an instance that is gone.
LEMMA StepAges ==
  ASSUME TypeOK, TypeOK', NEW k \in Kinds, Step(k), NEW i \in Instances \ up
  PROVE  i \notin up' /\ TicksLeft(i)' <= TicksLeft(i)
<1>k. "compute" \in Kinds /\ "cluster" \in Kinds
  BY DEF Kinds, Caches
<1>l. life[i] \in 0..3 /\ life'[i] \in 0..3
  BY DEF TypeOK, Life
<1>1. CASE \/ ApiFails(k)
           \/ k \in Networks /\ (\/ NetworkList(k) \/ NetworkAdd(k)
                                 \/ NetworkEvict(k) \/ NetworkEnd(k))
  <2>1. UNCHANGED <<up, life, cluster, report>> /\ todo'["compute"] \subseteq todo["compute"]
    BY <1>k, <1>1 DEF TypeOK, ApiFails, NetworkList, NetworkAdd, NetworkEvict, NetworkEnd,
       taskVars, cacheVars, reportVars
  <2> QED BY <1>l, <2>1, TicksNotWon
<1>2. CASE ComputeList \/ ComputePublish
  <2>1. /\ UNCHANGED <<up, life, cluster, report>>
        /\ todo'["compute"] \subseteq todo["compute"] \cup up
    BY <1>k, <1>2 DEF TypeOK, ComputeList, ComputePublish, cacheVars, reportVars
  <2> QED BY <1>l, <2>1, TicksNotWon
<1>3. CASE ComputeAdd
  <2>1. /\ UNCHANGED <<up, cluster, report>>
        /\ todo'["compute"] \subseteq todo["compute"]
    BY <1>k, <1>3 DEF TypeOK, ComputeAdd, reportVars
  <2>2. life'[i] <= life[i] \/ i \in todo["compute"]
    <3>1. PICK j \in todo["compute"] : AddEntry(j) \/ UNCHANGED life
      BY <1>3 DEF ComputeAdd
    <3>2. i # j => life'[i] \in {life[i], 0}
      BY <3>1 DEF TypeOK, AddEntry
    <3> QED BY <1>l, <3>1, <3>2
  <2> QED BY <1>l, <2>1, <2>2, TicksNotWon
<1>4. CASE ListCluster \/ FindVpc \/ KeysFromCache
  <2>1. /\ UNCHANGED <<up, life, report>> /\ todo'["compute"] = todo["compute"]
        /\ cluster' = cluster \/ cluster'.children = {}
    BY <1>k, <1>4 DEF TypeOK, ListCluster, FindVpc, KeysFromCache, NoCluster, cacheVars, reportVars
  <2> QED BY <1>l, <2>1, TicksNotWon
<1>5. CASE ChildrenFromApi
  <2>1. /\ UNCHANGED <<up, life, report, todo>>
        /\ cluster'.children \subseteq cluster.children \cup up
    BY <1>5 DEF TypeOK, ChildrenFromApi, cacheVars, reportVars
  <2> QED BY <1>l, <2>1, TicksNotWon
<1>6. CASE GetChild
  <2>1. PICK j \in todo["cluster"] : \E found \in Get("compute", life[j] > 0) :
          IF found THEN cluster' = [cluster EXCEPT !.children =
                                      IF InRegion(j) THEN @ \cup ({j} \cap Members) ELSE @]
                   ELSE cluster' = [cluster EXCEPT !.cut = TRUE]
    BY <1>6 DEF GetChild
  <2>2. \A found \in Get("compute", life[j] > 0) : found => life[j] > 0
    BY Zenon DEF Get
  <2>3. UNCHANGED <<up, life, report>> /\ todo'["compute"] = todo["compute"]
    BY <1>k, <1>6 DEF TypeOK, GetChild, cacheVars, reportVars
  <2>4. i \in cluster'.children => i \in cluster.children \/ life[i] > 0
    BY <2>1, <2>2 DEF TypeOK
  <2> QED BY <1>l, <2>3, <2>4, TicksNotWon
<1>7. CASE ClusterPublish
  <2>1. UNCHANGED <<up, life, todo>> /\ report' = cluster /\ cluster' = NoCluster
    BY <1>7 DEF ClusterPublish, cacheVars
  <2> QED BY <1>l, <2>1, TicksNotWon DEF NoCluster
<1> QED BY <1>1, <1>2, <1>3, <1>4, <1>5, <1>6, <1>7 DEF Step

\* For any number of instances, an instance that is gone from the project is
\* known for at most Life + 1 more ticks, whatever the goroutines that share the
\* caches do, and never again after that.
THEOREM GoneIsForgotten == Spec => [][GoneAges]_vars
<1>1. TypeOK /\ TypeOK' /\ Leftovers /\ [Next]_vars => [GoneAges]_vars
  <2> SUFFICES ASSUME TypeOK, TypeOK', Leftovers, Next, NEW i \in Instances \ up
               PROVE  /\ i \notin up' /\ TicksLeft(i)' <= TicksLeft(i)
                      /\ CollectAll /\ TicksLeft(i) > 0 => TicksLeft(i)' < TicksLeft(i)
    BY DEF GoneAges
  <2>1. CASE CollectAll
    BY <2>1, TickTakesOne
  <2>2. CASE ~CollectAll
    <3>1. CASE Panic
      <4>1. i \notin up' /\ Forgotten(i)'
        BY <3>1 DEF Panic, Forgotten, NoTodo, NoCluster, NoLife, Kinds, Caches
      <4>2. TicksLeft(i) >= 0
        BY DEF TicksLeft, TypeOK, Life
      <4> QED BY <2>2, <4>1, <4>2 DEF TicksLeft
    <3>2. CASE \E k \in Kinds : Step(k)
      BY <2>2, <3>2, StepAges
    <3>3. CASE Return \/ Expire \/ \E j \in Leaving : InstanceGone(j)
      <4>1. /\ UNCHANGED <<todo, cluster, report>> /\ up' \subseteq up
        BY <3>3 DEF Return, Expire, InstanceGone, taskVars, reportVars
      <4>2. life'[i] <= life[i]
        BY <3>3 DEF TypeOK, Return, Expire, InstanceGone, cacheVars, Life
      <4> QED BY <2>2, <4>1, <4>2, TicksNotWon
    <3> QED BY <2>2, <3>1, <3>2, <3>3 DEF Next, NilClient, Corrupt
  <2> QED BY <2>1, <2>2
<1>2. IInv => TypeOK
  BY DEF IInv
<1> QED BY <1>1, <1>2, SpecIInv, LeftoversKept, PTL DEF Spec

=============================================================================
