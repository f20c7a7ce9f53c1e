-------------------------- MODULE CloudInputsProofs --------------------------
(***************************************************************************)
(* The AWS, Azure and hostdata inputs for any regions, subscriptions and   *)
(* assets, however these come and go: the collections implement, as far as *)
(* safety goes, what Collection promises; a cluster is published with a    *)
(* child of its own; a log line is about a collection that failed.         *)
(***************************************************************************)
EXTENDS CloudInputs, TLAPS

\* Everything a list may hold: assets, and scale sets on the way to them.
Items == UNION ({Assets[t] : t \in Tasks} \cup {DOMAIN ScaleSets[s] : s \in Subscriptions})

ListType ==
  [stage : {"idle", "listing", "describing", "reading", "publishing"},
   ahead : SUBSET Items, got : SUBSET Items, lasting : SUBSET Items]

AllGroups == UNION {GroupsOf[x] : x \in DOMAIN GroupsOf}
InstancesIn(groups) == UNION {InstancesOf(ScalingGroups[g]) : g \in groups}

EksType ==
  [undescribed : SUBSET Items, cluster : Items \cup {None}, groups : SUBSET AllGroups,
   found : SUBSET InstancesIn(AllGroups), full : BOOLEAN]

VmsType(s) == [page : SUBSET Assets[SetVms(s)], got : SUBSET Assets[SetVms(s)]]

PagerType ==
  /\ up \in [Tasks -> SUBSET Items]
  /\ \A t \in Tasks : up[t] \subseteq Assets[t]
  /\ lists \in [Tasks -> ListType]

AwsType == eks \in [Regions -> EksType] /\ DOMAIN report = Regions

AzureType ==
  /\ subscriptionId \in Subscriptions \cup {None}
  /\ pending \subseteq Subscriptions
  /\ DOMAIN setVms = Subscriptions
  /\ \A s \in Subscriptions : setVms[s] \in VmsType(s)
  /\ err \in [Subscriptions -> {"nil", "error"}]
  /\ unchecked \subseteq AzureTasks
  /\ failed \subseteq AzureTasks
  /\ logged \subseteq AzureTasks

\* A list is good for what is promised of its task: while pages are read, what
\* has lasted and was promised was on a page or is ahead.  The list of scale
\* sets holds their VMs only when it is published.
GoodList(t, l) ==
  /\ l.stage \in Working => l.lasting \subseteq up[t]
  /\ l.stage = "listing" => l.lasting \cap Promised(t) \subseteq l.got \cup l.ahead
  /\ l.stage = "describing" => l.lasting \cap Promised(t) \subseteq l.got
  /\ t[2] # "scaleset" \/ l.stage = "publishing" => l.got \subseteq Assets[t]

ListsGood == \A t \in Tasks : GoodList(t, lists[t])

\* The instances found so far are the cluster's own, and with those of the
\* groups that are left they are all of them unless a call has failed.
EksGoodAt(r) ==
  LET e == eks[r]
      l == lists[Clusters(r)]
      own == InstancesIn(GroupsOf[e.cluster])
  IN  /\ e.cluster = None => e.found = {}
      /\ e.cluster # None =>
           /\ l.stage = "publishing" /\ e.cluster \in l.got
           /\ e.groups \subseteq GroupsOf[e.cluster]
           /\ e.found \subseteq own
           /\ e.full => own \subseteq e.found \cup InstancesIn(e.groups)

EksGood == \A r \in Regions : EksGoodAt(r)

\* A task runs once in a round: it is not begun again once it has ended.
Ended(t) == lists[t].stage = "idle" /\ t[1] \notin pending

\* A task that failed and finds no error to log owes it to the other one,
\* which has succeeded.
LogGood ==
  /\ \A s \in pending : \A k \in Kinds : lists[<<s, k>>].stage = "idle"
  /\ \A t \in failed : Ended(t)
  /\ \A s \in Subscriptions : err[s] = "error" => ({s} \X Kinds) \cap failed # {}
  /\ \A t \in logged : ({t[1]} \X Kinds) \cap failed # {}
  /\ \A t \in failed :
       err[t[1]] = "nil" \/ t \notin unchecked \cup logged =>
         \A u \in {t[1]} \X Kinds : u # t => u \notin failed /\ Ended(u)

NoAddressKept == hostInfo.ip = {}

IInv ==
  /\ PagerType /\ AwsType /\ AzureType
  /\ ListsGood /\ EksGood /\ ClusterChild /\ LogGood /\ NoAddressKept

\* From l to m, the list of a task goes on as Collection lets it, or not at all.
Advances(t, l, m) ==
  \/ AbsStage(m) = AbsStage(l) /\ AbsLasting(t, m) = AbsLasting(t, l) /\ AbsTodo(m) = AbsTodo(l)
  \/ l.stage \in Working /\ m.stage = "idle"
  \/ /\ l.stage \in Working /\ m.stage = "publishing"
     /\ AbsLasting(t, l) \subseteq m.got /\ m.got \subseteq Assets[t]
  \/ /\ l.stage = "publishing" /\ m.stage = "publishing"
     /\ \E a \in l.got : m.got = l.got \ {a}
  \/ l.stage = "publishing" /\ l.got = {} /\ m.stage = "idle"

\* The step of a goroutine changes one list, for a good one.
StepOf(t) ==
  \E m \in ListType :
    GoodList(t, m) /\ Advances(t, lists[t], m) /\ lists' = [lists EXCEPT ![t] = m]

-----------------------------------------------------------------------------

\* Assets and scale sets are items.
LEMMA ItemsHave ==
  /\ \A t \in Tasks : Assets[t] \subseteq Items
  /\ \A s \in Subscriptions : DOMAIN ScaleSets[s] \subseteq Items
<1> QED BY DEF Items

\* A task belongs to one input, and the tasks of a region differ.
LEMMA TasksApart ==
  /\ AwsTasks \subseteq Tasks /\ AzureTasks \subseteq Tasks
  /\ \A t \in AwsTasks : t \notin AzureTasks
  /\ \A r \in Regions : Clusters(r) \in AwsTasks
  /\ \A r \in Regions, type \in Plain : <<r, type>> \in AwsTasks
  /\ \A r, q : \A type \in Plain : <<r, type>> # Clusters(q)
  /\ \A r, q : Clusters(r) = Clusters(q) => r = q
  /\ \A s \in Subscriptions : Vms(s) \in AzureTasks /\ SetVms(s) \in AzureTasks
<1> QED BY AwsTasksAssumption, AzureTasksAssumption
  DEF AwsTasks, AzureTasks, AwsTypes, Plain, Kinds, Clusters, Vms, SetVms

\* What each collection promises: all its assets, or those in the regions wanted,
\* and of the scale sets nothing.
LEMMA PromisedAre ==
  /\ \A t \in AwsTasks : Promised(t) = Assets[t]
  /\ \A s \in Subscriptions : Promised(Vms(s)) = {v \in Assets[Vms(s)] : wantRegion(v)}
  /\ \A s \in Subscriptions : Promised(SetVms(s)) = {}
  /\ \A t \in Tasks : Promised(t) \subseteq Assets[t]
<1>1. \A s \in Subscriptions : Vms(s) \notin AwsTasks /\ SetVms(s) \notin AwsTasks
  BY TasksApart
<1>2. \A s : Vms(s)[2] = "vm" /\ SetVms(s)[2] = "scaleset"
  BY DEF Vms, SetVms
<1> QED BY <1>1, <1>2, TasksApart DEF Promised

\* No list is a good list.
LEMMA IdleIsGood ==
  ASSUME NEW t \in Tasks
  PROVE  NoList \in ListType /\ GoodList(t, NoList)
<1> QED BY DEF NoList, ListType, GoodList, Working

\* The step of one task leaves the other lists alone, and all of them good.
LEMMA OneList ==
  ASSUME PagerType, ListsGood, UNCHANGED <<up, regions>>, NEW t \in Tasks, StepOf(t)
  PROVE  PagerType' /\ ListsGood' /\ \A u \in Tasks : u # t => lists'[u] = lists[u]
<1>1. PICK m \in ListType : GoodList(t, m) /\ lists' = [lists EXCEPT ![t] = m]
  BY DEF StepOf
<1>2. /\ lists' \in [Tasks -> ListType] /\ lists'[t] = m
      /\ \A u \in Tasks : u # t => lists'[u] = lists[u]
  BY <1>1 DEF PagerType
<1>3. PagerType'
  BY <1>2 DEF PagerType
<1>4. \A u, l : GoodList(u, l) <=> GoodList(u, l)'
  BY DEF GoodList, Promised, wantRegion
<1>5. ListsGood'
  BY <1>1, <1>2, <1>4 DEF ListsGood
<1> QED BY <1>2, <1>3, <1>5

\* A step of one list is a step of Collection.
LEMMA OneAdvance ==
  ASSUME PagerType, UNCHANGED regions, NEW t \in Tasks, StepOf(t)
  PROVE  [Collecting!Next]_(Collecting!vars)
<1>1. PICK m \in ListType : Advances(t, lists[t], m) /\ lists' = [lists EXCEPT ![t] = m]
  BY DEF StepOf
<1> DEFINE l == lists[t]
<1>2. \A u, x : AbsLasting(u, x)' = AbsLasting(u, x)
  BY DEF AbsLasting, Promised, wantRegion
<1>3. /\ stage' = [stage EXCEPT ![t] = AbsStage(m)]
      /\ lasting' = [lasting EXCEPT ![t] = AbsLasting(t, m)]
      /\ todo' = [todo EXCEPT ![t] = AbsTodo(m)]
  BY <1>1, <1>2 DEF stage, lasting, todo, PagerType
<1>4. /\ stage \in [Tasks -> {stage[u] : u \in Tasks}] /\ stage[t] = AbsStage(l)
      /\ lasting \in [Tasks -> {lasting[u] : u \in Tasks}] /\ lasting[t] = AbsLasting(t, l)
      /\ todo \in [Tasks -> {todo[u] : u \in Tasks}] /\ todo[t] = AbsTodo(l)
  BY DEF stage, lasting, todo
<1>5. l \in ListType
  BY DEF PagerType
<1> HIDE DEF l
<1>6. CASE AbsStage(m) = AbsStage(l) /\ AbsLasting(t, m) = AbsLasting(t, l) /\ AbsTodo(m) = AbsTodo(l)
  BY <1>3, <1>4, <1>6 DEF Collecting!vars
<1>7. CASE l.stage \in Working /\ m.stage = "idle"
  <2>1. /\ AbsStage(l) = "listing" /\ AbsStage(m) = "idle" /\ AbsLasting(t, m) = {}
        /\ AbsTodo(l) = {} /\ AbsTodo(m) = {}
    BY <1>7 DEF AbsStage, AbsLasting, AbsTodo, Working
  <2>2. Collecting!GiveUp(t)
    BY <1>3, <1>4, <2>1 DEF Collecting!GiveUp
  <2> QED BY <2>2 DEF Collecting!Next, Collecting!Advance
<1>8. CASE /\ l.stage \in Working /\ m.stage = "publishing"
           /\ AbsLasting(t, l) \subseteq m.got /\ m.got \subseteq Assets[t]
  <2>1. /\ AbsStage(l) = "listing" /\ AbsStage(m) = "publishing" /\ AbsLasting(t, m) = {}
        /\ AbsTodo(m) = m.got
    BY <1>8 DEF AbsStage, AbsLasting, AbsTodo, Working
  <2>2. Collecting!Found(t)
    BY <1>3, <1>4, <1>8, <2>1 DEF Collecting!Found
  <2> QED BY <2>2 DEF Collecting!Next, Collecting!Advance
<1>9. CASE /\ l.stage = "publishing" /\ m.stage = "publishing"
           /\ \E a \in l.got : m.got = l.got \ {a}
  <2>1. /\ AbsStage(l) = "publishing" /\ AbsStage(m) = "publishing"
        /\ AbsLasting(t, l) = {} /\ AbsLasting(t, m) = {}
        /\ AbsTodo(l) = l.got /\ AbsTodo(m) = m.got
    BY <1>9 DEF AbsStage, AbsLasting, AbsTodo, Working
  <2>2. Collecting!Publish(t)
    BY <1>3, <1>4, <1>9, <2>1 DEF Collecting!Publish
  <2> QED BY <2>2 DEF Collecting!Next, Collecting!Advance
<1>10. CASE l.stage = "publishing" /\ l.got = {} /\ m.stage = "idle"
  <2>1. /\ AbsStage(l) = "publishing" /\ AbsStage(m) = "idle"
        /\ AbsLasting(t, l) = {} /\ AbsLasting(t, m) = {}
        /\ AbsTodo(l) = {} /\ AbsTodo(m) = {}
    BY <1>10 DEF AbsStage, AbsLasting, AbsTodo, Working
  <2>2. Collecting!End(t)
    BY <1>3, <1>4, <2>1 DEF Collecting!End
  <2> QED BY <2>2 DEF Collecting!Next, Collecting!Advance
<1> QED BY <1>1, <1>6, <1>7, <1>8, <1>9, <1>10 DEF Advances, l

-----------------------------------------------------------------------------

\* Nothing that has lasted slips between two pages: it is on the one or ahead.
LEMMA PageStep ==
  ASSUME PagerType, ListsGood, NEW t \in Tasks,
         NEW present \in SUBSET Items, Promised(t) \cap up[t] \subseteq present,
         NEW after \in {"describing", "reading", "publishing"},
         IF after = "reading" THEN t[2] = "scaleset" ELSE present \subseteq Assets[t],
         t[2] = "scaleset" => after = "reading",
         NextPage(t, present, after)
  PROVE  /\ StepOf(t)
         /\ lists'[t].stage \in {"listing", after}
<1>1. PICK page \in SUBSET lists[t].ahead :
        lists' = [lists EXCEPT ![t] = Paged(@, page, present, after)]
  BY DEF NextPage
<1> DEFINE l == lists[t]
           m == Paged(l, page, present, after)
<1>2. l \in ListType /\ l.stage = "listing" /\ GoodList(t, l)
  BY DEF PagerType, NextPage, ListsGood
<1>3. lists' = [lists EXCEPT ![t] = m]
  BY <1>1
<1> HIDE DEF l
<1>4. /\ m \in ListType /\ m.lasting = l.lasting /\ m.ahead = l.ahead \ page
      /\ m.got = l.got \cup (page \cap present)
      /\ m.stage = IF page = l.ahead THEN after ELSE "listing"
  BY <1>2 DEF ListType, Paged
<1> HIDE DEF m
<1>5. l.lasting \cap Promised(t) \subseteq m.got \cup m.ahead
  BY <1>2, <1>4 DEF GoodList, Working
<1>6. page = l.ahead => l.lasting \cap Promised(t) \subseteq m.got
  BY <1>4, <1>5
<1>7. t[2] # "scaleset" => m.got \subseteq Assets[t]
  BY <1>2, <1>4 DEF GoodList
<1>8. GoodList(t, m)
  BY <1>2, <1>4, <1>5, <1>6, <1>7 DEF GoodList, Working
<1>9. Advances(t, l, m)
  <2>1. CASE m.stage = "publishing"
    BY <1>2, <1>4, <1>6, <1>7, <2>1 DEF Advances, AbsLasting, Working
  <2>2. CASE m.stage # "publishing"
    BY <1>2, <1>4, <2>2 DEF Advances, AbsStage, AbsLasting, AbsTodo, Working
  <2> QED BY <2>1, <2>2
<1>10. lists'[t] = m
  BY <1>3 DEF PagerType
<1> QED BY <1>3, <1>4, <1>8, <1>9, <1>10 DEF StepOf, l

\* A step that leaves the lists as they are.
LEMMA NoStep ==
  ASSUME PagerType, ListsGood, NEW t \in Tasks, UNCHANGED lists
  PROVE  StepOf(t)
<1>1. lists[t] \in ListType /\ GoodList(t, lists[t])
  BY DEF PagerType, ListsGood
<1>2. lists' = [lists EXCEPT ![t] = lists[t]]
  BY DEF PagerType
<1>3. Advances(t, lists[t], lists[t])
  BY DEF Advances
<1> QED BY <1>1, <1>2, <1>3 DEF StepOf

\* A collection that ends early, or has published all, drops its list.
LEMMA DropStep ==
  ASSUME PagerType, NEW t \in Tasks, Drop(t),
         \/ lists[t].stage \in Working
         \/ lists[t].stage = "publishing" /\ lists[t].got = {}
  PROVE  StepOf(t) /\ lists'[t].stage = "idle"
<1>1. NoList.stage = "idle"
  BY DEF NoList
<1>2. Advances(t, lists[t], NoList)
  BY <1>1 DEF Advances
<1>3. lists'[t] = NoList
  BY DEF Drop, PagerType
<1> QED BY <1>1, <1>2, <1>3, IdleIsGood DEF StepOf, Drop

\* Publishing an asset takes it from the list.
LEMMA PublishStep ==
  ASSUME PagerType, ListsGood, NEW t \in Tasks, lists[t].stage = "publishing",
         NEW a \in lists[t].got, lists' = [lists EXCEPT ![t].got = @ \ {a}]
  PROVE  /\ StepOf(t) /\ lists'[t].stage = "publishing"
         /\ lists'[t].got = lists[t].got \ {a}
<1> DEFINE l == lists[t]
           m == [l EXCEPT !.got = @ \ {a}]
<1>1. l \in ListType /\ GoodList(t, l)
  BY DEF PagerType, ListsGood
<1>2. lists' = [lists EXCEPT ![t] = m] /\ lists'[t] = m
  BY DEF PagerType
<1>3. /\ l.stage = "publishing" /\ a \in l.got
  OBVIOUS
<1> HIDE DEF l
<1>4. m \in ListType /\ m.stage = "publishing" /\ m.got = l.got \ {a}
  BY <1>1, <1>3 DEF ListType
<1> HIDE DEF m
<1>5. GoodList(t, m)
  BY <1>1, <1>3, <1>4 DEF GoodList, Working
<1>6. Advances(t, l, m)
  BY <1>3, <1>4 DEF Advances
<1> QED BY <1>2, <1>4, <1>5, <1>6 DEF StepOf, l

\* A new list has all that may be promised ahead of it.
LEMMA NewIsGood ==
  ASSUME PagerType, NEW t \in Tasks, NEW ahead \in SUBSET Items, Promised(t) \subseteq ahead
  PROVE  /\ NewList(t, ahead) \in ListType /\ GoodList(t, NewList(t, ahead))
         /\ NewList(t, ahead).stage = "listing"
<1>1. up[t] \subseteq Items
  BY DEF PagerType
<1> QED BY <1>1 DEF NewList, ListType, GoodList, Working

\* Collections begin together.
LEMMA BeginStep ==
  ASSUME PagerType, ListsGood, UNCHANGED <<up, regions>>,
         lists' \in [Tasks -> ListType],
         \A t \in Tasks :
           \/ lists'[t] = lists[t]
           \/ /\ lists[t].stage = "idle" /\ lists'[t].stage = "listing"
              /\ GoodList(t, lists'[t])
  PROVE  PagerType' /\ ListsGood' /\ [Collecting!Next]_(Collecting!vars)
<1>1. PagerType'
  BY DEF PagerType
<1>2. ListsGood'
  <2>1. \A t, l : GoodList(t, l) <=> GoodList(t, l)'
    BY DEF GoodList, Promised, wantRegion
  <2> QED BY <2>1 DEF ListsGood
<1>3. Collecting!Begin
  <2>1. \A t, l : AbsLasting(t, l)' = AbsLasting(t, l)
    BY DEF AbsLasting, Promised, wantRegion
  <2>2. /\ stage = [t \in Tasks |-> AbsStage(lists[t])]
        /\ stage' = [t \in Tasks |-> AbsStage(lists'[t])]
        /\ lasting = [t \in Tasks |-> AbsLasting(t, lists[t])]
        /\ lasting' = [t \in Tasks |-> AbsLasting(t, lists'[t])]
        /\ todo = [t \in Tasks |-> AbsTodo(lists[t])]
        /\ todo' = [t \in Tasks |-> AbsTodo(lists'[t])]
    BY <2>1 DEF stage, lasting, todo
  <2>3. \A t \in Tasks : AbsStage(lists'[t]) \in {"idle", "listing", "publishing"}
    BY DEF AbsStage, Working, ListType
  <2>4. \A t \in Tasks : AbsLasting(t, lists'[t]) \subseteq Assets[t]
    BY PromisedAre DEF AbsLasting
  <2>5. \A t \in Tasks : Assets[t] \subseteq UNION {Assets[u] : u \in Tasks}
    OBVIOUS
  <2>6. \A t \in Tasks :
          /\ \/ /\ AbsStage(lists'[t]) = AbsStage(lists[t])
                /\ AbsLasting(t, lists'[t]) = AbsLasting(t, lists[t])
             \/ AbsStage(lists[t]) = "idle" /\ AbsStage(lists'[t]) = "listing"
          /\ AbsTodo(lists'[t]) = AbsTodo(lists[t])
    BY DEF AbsStage, AbsTodo, Working
  <2>7. stage' \in [Tasks -> {"idle", "listing", "publishing"}]
    BY <2>2, <2>3
  <2>8. lasting' \in [Tasks -> SUBSET UNION {Assets[t] : t \in Tasks}]
    BY <2>2, <2>4, <2>5
  <2>9. todo' = todo
    BY <2>2, <2>6
  <2>10. \A t \in Tasks :
           \/ stage'[t] = stage[t] /\ lasting'[t] = lasting[t]
           \/ stage[t] = "idle" /\ stage'[t] = "listing" /\ lasting'[t] \subseteq Assets[t]
    BY <2>2, <2>4, <2>6
  <2> QED BY <2>7, <2>8, <2>9, <2>10 DEF Collecting!Begin
<1> QED BY <1>1, <1>2, <1>3 DEF Collecting!Next

\* An asset that comes or goes changes only what has lasted.
LEMMA ChangeStep ==
  ASSUME PagerType, ListsGood, UNCHANGED regions, NEW t \in Tasks, NEW a \in Assets[t], Change(t, a)
  PROVE  /\ PagerType' /\ ListsGood' /\ [Collecting!Next]_(Collecting!vars)
         /\ \A u \in Tasks : lists'[u].stage = lists[u].stage /\ lists'[u].got = lists[u].got
<1> DEFINE l == lists[t]
           m == [l EXCEPT !.lasting = @ \ {a}]
<1>1. l \in ListType /\ GoodList(t, l)
  BY DEF PagerType, ListsGood
<1>2. /\ lists' = [lists EXCEPT ![t] = m]
      /\ up' = [up EXCEPT ![t] = IF a \in up[t] THEN up[t] \ {a} ELSE up[t] \cup {a}]
  BY DEF Change, PagerType
<1> HIDE DEF l
<1>3. /\ m \in ListType /\ m.stage = l.stage /\ m.ahead = l.ahead /\ m.got = l.got
      /\ m.lasting = l.lasting \ {a}
  BY <1>1 DEF ListType
<1> HIDE DEF m
<1>4. /\ lists' \in [Tasks -> ListType] /\ lists'[t] = m
      /\ \A u \in Tasks : u # t => lists'[u] = lists[u] /\ up'[u] = up[u]
      /\ up'[t] = IF a \in up[t] THEN up[t] \ {a} ELSE up[t] \cup {a}
      /\ up' \in [Tasks -> SUBSET Items]
  BY <1>2, <1>3, ItemsHave DEF PagerType
<1>5. PagerType'
  BY <1>4 DEF PagerType
<1>6. \A u : Promised(u)' = Promised(u)
  BY DEF Promised, wantRegion
<1>7. GoodList(t, lists[t])'
  BY <1>1, <1>3, <1>4, <1>6 DEF GoodList, Working
<1>8. ListsGood'
  BY <1>4, <1>6, <1>7 DEF ListsGood, GoodList
<1>9. \A u \in Tasks : lists'[u].stage = lists[u].stage /\ lists'[u].got = lists[u].got
  BY <1>3, <1>4 DEF l
<1>10. stage' = stage /\ todo' = todo
  BY <1>9 DEF stage, todo, AbsStage, AbsTodo
<1>11. lasting' = [lasting EXCEPT ![t] = AbsLasting(t, m)]
  BY <1>2, <1>4, <1>6 DEF lasting, AbsLasting
<1>12. lasting[t] = AbsLasting(t, l) /\ stage[t] = AbsStage(l)
  BY DEF lasting, stage, l
<1>13. [Collecting!Next]_(Collecting!vars)
  <2>1. CASE l.stage \in Working
    <3>1. stage[t] = "listing" /\ AbsLasting(t, m) \in SUBSET lasting[t]
      BY <1>3, <1>12, <2>1 DEF AbsStage, AbsLasting
    <3>2. Collecting!Deleted(t)
      BY <1>10, <1>11, <3>1 DEF Collecting!Deleted
    <3> QED BY <3>2 DEF Collecting!Next
  <2>2. CASE l.stage \notin Working
    <3>1. AbsLasting(t, m) = lasting[t]
      BY <1>3, <1>12, <2>2 DEF AbsLasting
    <3>2. lasting' = lasting
      BY <1>11, <3>1 DEF lasting
    <3> QED BY <1>10, <3>2 DEF Collecting!vars
  <2> QED BY <2>1, <2>2
<1> QED BY <1>5, <1>8, <1>9, <1>13

-----------------------------------------------------------------------------

\* The step of an AWS goroutine.
LEMMA AwsOneList ==
  ASSUME PagerType, AwsType, ListsGood, EksGood, NEW t \in AwsTasks, AwsStep(t)
  PROVE  StepOf(t) /\ UNCHANGED up
<1>t. t \in Tasks /\ t = <<t[1], t[2]>> /\ t[1] \in Regions /\ t[2] # "scaleset"
      /\ (t[2] = "k8s.cluster" => t = Clusters(t[1]))
  BY TasksApart DEF AwsTasks, AwsTypes, Plain, Clusters
<1>p. /\ up[t] \subseteq Assets[t] /\ up[t] \in SUBSET Items /\ Promised(t) \cap up[t] \subseteq up[t]
      /\ lists[t] \in ListType /\ GoodList(t, lists[t])
  BY <1>t DEF PagerType, ListsGood
<1>u. UNCHANGED up
  BY DEF AwsStep, CollectEKS, ListFails, CollectEnds, DescribePage, NextPage, PublishAsset, Publish,
    ListClusters, DescribeCluster, Described, ListNodeGroups, DescribeNodegroup, PublishCluster
<1>1. CASE ListFails(t) \/ CollectEnds(t)
  BY <1>t, <1>u, <1>1, DropStep DEF ListFails, CollectEnds, Working
<1>2. CASE t[2] \in Plain /\ DescribePage(t[1], t[2])
  <2>1. NextPage(t, up[t], "publishing")
    BY <1>t, <1>2 DEF DescribePage
  <2> QED BY <1>t, <1>p, <1>u, <2>1, PageStep
<1>3. CASE t[2] \in Plain /\ PublishAsset(t[1], t[2])
  <2>1. Publish(t)
    BY <1>t, <1>3 DEF PublishAsset
  <2> QED BY <1>t, <1>u, <2>1, PublishStep DEF Publish
<1>4. CASE t[2] = "k8s.cluster" /\ ListClusters(t[1])
  <2>1. NextPage(t, up[t], "describing")
    BY <1>t, <1>4 DEF ListClusters
  <2> QED BY <1>t, <1>p, <1>u, <2>1, PageStep
<1>5. CASE DescribeCluster(t[1]) \/ ListNodeGroups(t[1]) \/ DescribeNodegroup(t[1])
  BY <1>t, <1>u, <1>5, NoStep DEF DescribeCluster, ListNodeGroups, DescribeNodegroup
<1>6. CASE t[2] = "k8s.cluster" /\ Described(t[1])
  <2> DEFINE l == lists[t]
             m == [l EXCEPT !.stage = "publishing"]
  <2>1. lists' = [lists EXCEPT ![t] = m] /\ l.stage = "describing"
    BY <1>t, <1>6 DEF Described, PagerType
  <2>p. l \in ListType /\ GoodList(t, l)
    BY <1>p
  <2> HIDE DEF l
  <2>2. m \in ListType /\ m.stage = "publishing" /\ m.got = l.got
    BY <2>p DEF ListType
  <2> HIDE DEF m
  <2>3. GoodList(t, m)
    BY <1>t, <2>p, <2>2 DEF GoodList, Working
  <2>4. Advances(t, l, m)
    BY <1>t, <2>p, <2>1, <2>2 DEF GoodList, Advances, AbsLasting, Working
  <2> QED BY <1>u, <2>1, <2>2, <2>3, <2>4 DEF StepOf, l
<1>7. CASE t[2] = "k8s.cluster" /\ PublishCluster(t[1])
  <2>1. /\ lists[t].stage = "publishing" /\ eks[t[1]].cluster \in lists[t].got
        /\ lists' = [lists EXCEPT ![t].got = @ \ {eks[t[1]].cluster}]
    BY <1>t, <1>7 DEF PublishCluster, EksGood, EksGoodAt
  <2> QED BY <1>t, <1>u, <2>1, PublishStep
<1> QED BY <1>1, <1>2, <1>3, <1>4, <1>5, <1>6, <1>7 DEF AwsStep, CollectEKS

\* The step of an Azure goroutine.
LEMMA AzureOneList ==
  ASSUME PagerType, AzureType, ListsGood, NEW t \in AzureTasks, AzureStep(t)
  PROVE  StepOf(t) /\ UNCHANGED <<up, regions>> /\ AzureType'
<1>t. t \in Tasks /\ t[1] \in Subscriptions
      /\ (t[2] = "vm" => t = Vms(t[1])) /\ (t[2] = "scaleset" => t = SetVms(t[1]))
  BY TasksApart DEF AzureTasks, Kinds, Vms, SetVms
<1>p. /\ up[t] \subseteq Assets[t] /\ up[t] \in SUBSET Items /\ Assets[t] \subseteq Items
      /\ lists[t] \in ListType /\ GoodList(t, lists[t])
  BY <1>t, ItemsHave DEF PagerType, ListsGood
<1>1. CASE t[2] = "vm" /\ ListVms(t[1])
  <2> DEFINE present == {v \in up[t] : wantRegion(v)}
  <2>1. NextPage(t, present, "publishing") /\ UNCHANGED azureVars
    BY <1>t, <1>1 DEF ListVms
  <2>2. Promised(t) \cap up[t] \subseteq present
    BY <1>t, <1>1, PromisedAre
  <2>3. present \in SUBSET Items /\ present \subseteq Assets[t]
    BY <1>p
  <2> HIDE DEF present
  <2>4. StepOf(t)
    BY <1>t, <1>1, <2>1, <2>2, <2>3, PageStep
  <2> QED BY <2>1, <2>4 DEF NextPage, AzureType, azureVars, logVars, VmsType
<1>2. CASE t[2] = "scaleset" /\ ListScaleSets(t[1])
  <2>1. NextPage(t, DOMAIN ScaleSets[t[1]], "reading") /\ UNCHANGED azureVars
    BY <1>t, <1>2 DEF ListScaleSets
  <2>2. Promised(t) = {} /\ DOMAIN ScaleSets[t[1]] \in SUBSET Items
    BY <1>t, <1>2, PromisedAre, ItemsHave
  <2>3. StepOf(t)
    BY <1>t, <1>2, <2>1, <2>2, PageStep
  <2> QED BY <2>1, <2>3 DEF NextPage, AzureType, azureVars, logVars, VmsType
<1>3. CASE t[2] = "scaleset" /\ ReadScaleSet(t[1])
  <2> DEFINE l == lists[t]
  <2>1. PICK x \in l.got, page \in SUBSET up[t] :
          /\ setVms' = [setVms EXCEPT ![t[1]].page = page]
          /\ lists' = [lists EXCEPT ![t].got = @ \ {x}]
    BY <1>t, <1>3 DEF ReadScaleSet
  <2> DEFINE m == [l EXCEPT !.got = @ \ {x}]
  <2>2. lists' = [lists EXCEPT ![t] = m] /\ l.stage = "reading" /\ l \in ListType /\ GoodList(t, l)
    BY <1>t, <1>p, <1>3, <2>1 DEF ReadScaleSet
  <2>3. AzureType'
    BY <1>t, <1>p, <1>3, <2>1 DEF ReadScaleSet, AzureType, VmsType, logVars
  <2> HIDE DEF l
  <2>4. m \in ListType /\ m.stage = "reading" /\ m.lasting = l.lasting
    BY <2>2 DEF ListType
  <2> HIDE DEF m
  <2>5. GoodList(t, m) /\ Advances(t, l, m)
    BY <1>3, <2>2, <2>4 DEF GoodList, Advances, AbsStage, AbsLasting, AbsTodo, Working
  <2> QED BY <1>3, <2>2, <2>3, <2>4, <2>5 DEF StepOf, ReadScaleSet, l
<1>4. CASE t[2] = "scaleset" /\ GetInstanceView(t[1])
  <2>1. StepOf(t)
    BY <1>t, <1>4, NoStep DEF GetInstanceView
  <2> QED BY <1>t, <1>p, <1>4, <2>1 DEF GetInstanceView, AzureType, VmsType, logVars
<1>5. CASE t[2] = "scaleset" /\ AllRead(t[1])
  <2> DEFINE l == lists[t]
             vms == setVms[t[1]].got
             m == [l EXCEPT !.stage = "publishing", !.got = vms]
  <2>1. lists' = [lists EXCEPT ![t] = m] /\ l.stage = "reading" /\ l \in ListType
    BY <1>t, <1>p, <1>5 DEF AllRead, PagerType
  <2>2. vms \subseteq Assets[t]
    BY <1>t, <1>5 DEF AzureType, VmsType
  <2>3. AzureType'
    BY <1>t, <1>5 DEF AllRead, AzureType, VmsType, NoVms, logVars
  <2>4. Promised(t) = {}
    BY <1>t, <1>5, PromisedAre
  <2> HIDE DEF l, vms
  <2>5. m \in ListType /\ m.stage = "publishing" /\ m.got = vms
    BY <1>p, <2>1, <2>2 DEF ListType
  <2> HIDE DEF m
  <2>6. GoodList(t, m) /\ Advances(t, l, m)
    BY <2>1, <2>2, <2>4, <2>5 DEF GoodList, Advances, AbsLasting, Working
  <2> QED BY <1>5, <2>1, <2>3, <2>5, <2>6 DEF StepOf, AllRead, l
<1>6. CASE PublishVm(t)
  <2>1. StepOf(t)
    BY <1>t, <1>6, PublishStep DEF PublishVm, Publish
  <2> QED BY <1>6, <2>1 DEF PublishVm, Publish, AzureType, azureVars, logVars, VmsType
<1>7. CASE CollectFails(t) \/ Collected(t)
  <2>1. StepOf(t)
    BY <1>t, <1>7, DropStep DEF CollectFails, Collected, Working
  <2>2. AzureType'
    BY <1>t, <1>7 DEF CollectFails, Collected, Assign, AzureType, VmsType, NoVms
  <2> QED BY <1>7, <2>1, <2>2 DEF CollectFails, Collected
<1>8. CASE CheckErr(t)
  <2>1. StepOf(t)
    BY <1>t, <1>8, NoStep DEF CheckErr
  <2> QED BY <1>8, <2>1 DEF CheckErr, AzureType, VmsType
<1> QED BY <1>1, <1>2, <1>3, <1>4, <1>5, <1>6, <1>7, <1>8 DEF AzureStep

\* A region whose cluster is not touched.
LEMMA EksFrame ==
  ASSUME NEW r \in Regions, EksGoodAt(r),
         eks'[r].cluster = eks[r].cluster, eks'[r].groups = eks[r].groups,
         eks'[r].found = eks[r].found, eks'[r].full = eks[r].full,
         eks[r].cluster # None =>
           /\ lists'[Clusters(r)].stage = "publishing"
           /\ eks[r].cluster \in lists'[Clusters(r)].got
  PROVE  EksGoodAt(r)'
<1> QED BY DEF EksGoodAt, InstancesIn, InstancesOf

\* The instances of a set of node groups, one group taken out.
LEMMA InstancesSplit ==
  /\ \A S, g : g \in S =>
       /\ InstancesOf(ScalingGroups[g]) \subseteq InstancesIn(S)
       /\ InstancesIn(S) = InstancesOf(ScalingGroups[g]) \cup InstancesIn(S \ {g})
  /\ \A S, T : S \subseteq T => InstancesIn(S) \subseteq InstancesIn(T)
  /\ InstancesIn({}) = {}
<1> HIDE DEF InstancesOf
<1> QED BY DEF InstancesIn

\* The clusters of all regions through the step of an AWS goroutine.
LEMMA EksStep ==
  ASSUME PagerType, AwsType, ListsGood, EksGood, ClusterChild, UNCHANGED regions,
         NEW t \in AwsTasks, AwsStep(t)
  PROVE  AwsType' /\ EksGood' /\ ClusterChild'
<1> DEFINE r == t[1]
           e == eks[r]
<1>t. /\ r \in Regions /\ t \in Tasks /\ t = <<r, t[2]>>
      /\ t[2] = "k8s.cluster" => t = Clusters(r)
      /\ \A q \in Regions : Clusters(q) \in Tasks
      /\ \A q \in Regions : q # r => Clusters(q) # t
      /\ t[2] # "k8s.cluster" => \A q \in Regions : Clusters(q) # t
      /\ t[2] \in Plain => t[2] # "k8s.cluster"
  BY TasksApart DEF AwsTasks, AwsTypes, Plain, Clusters
<1>o. StepOf(t) /\ \A u \in Tasks : u # t => lists'[u] = lists[u]
  BY <1>t, AwsOneList, OneList
<1>e. e \in EksType /\ lists[t] \in ListType
  BY <1>t DEF AwsType, PagerType
<1>q. \A q \in Regions : EksGoodAt(q)
  BY DEF EksGood
<1>same. ASSUME UNCHANGED <<eks, report>>,
                t[2] = "k8s.cluster" /\ e.cluster # None =>
                  lists'[t].stage = "publishing" /\ e.cluster \in lists'[t].got
         PROVE  AwsType' /\ EksGood' /\ ClusterChild'
  <2>1. ASSUME NEW q \in Regions PROVE EksGoodAt(q)'
    BY <1>t, <1>o, <1>q, <1>same, <2>1, EksFrame DEF EksGoodAt
  <2> QED BY <1>same, <2>1 DEF AwsType, EksGood, ClusterChild, InstancesOf
<1>1. CASE ListFails(t) \/ CollectEnds(t)
  <2>1. t[2] = "k8s.cluster" => e.cluster = None
    BY <1>t, <1>q, <1>1 DEF ListFails, CollectEnds, EksGoodAt
  <2> QED BY <1>1, <1>same, <2>1 DEF ListFails, CollectEnds, eksVars
<1>2. CASE t[2] \in Plain /\ (DescribePage(r, t[2]) \/ PublishAsset(r, t[2]))
  BY <1>t, <1>2, <1>same DEF DescribePage, PublishAsset, eksVars
<1>3. CASE t[2] = "k8s.cluster" /\ ListClusters(r)
  <2>1. lists[t].stage = "listing" /\ UNCHANGED report
    BY <1>t, <1>3 DEF ListClusters, NextPage
  <2>2. e.cluster = None
    BY <1>t, <1>3, <1>q, <2>1 DEF EksGoodAt
  <2>3. lists'[t] \in ListType
    BY <1>t, <1>o DEF StepOf, PagerType
  <2>4. /\ eks' \in [Regions -> EksType]
        /\ \A q \in Regions :
             /\ eks'[q].cluster = eks[q].cluster /\ eks'[q].groups = eks[q].groups
             /\ eks'[q].found = eks[q].found /\ eks'[q].full = eks[q].full
    BY <1>t, <1>3, <2>3 DEF ListClusters, AwsType, EksType, ListType
  <2>5. ASSUME NEW q \in Regions PROVE EksGoodAt(q)'
    BY <1>t, <1>o, <1>q, <2>2, <2>4, <2>5, EksFrame DEF EksGoodAt
  <2> QED BY <2>1, <2>4, <2>5 DEF AwsType, EksGood, ClusterChild, InstancesOf
<1>4. CASE t[2] = "k8s.cluster" /\ DescribeCluster(r)
  <2>1. /\ eks' \in [Regions -> EksType]
        /\ \A q \in Regions :
             /\ eks'[q].cluster = eks[q].cluster /\ eks'[q].groups = eks[q].groups
             /\ eks'[q].found = eks[q].found /\ eks'[q].full = eks[q].full
    BY <1>t, <1>4 DEF DescribeCluster, AwsType, EksType
  <2>2. UNCHANGED <<lists, report>>
    BY <1>4 DEF DescribeCluster
  <2>3. ASSUME NEW q \in Regions PROVE EksGoodAt(q)'
    BY <1>t, <1>q, <2>1, <2>2, <2>3, EksFrame DEF EksGoodAt
  <2> QED BY <2>1, <2>2, <2>3 DEF AwsType, EksGood, ClusterChild, InstancesOf
<1>5. CASE t[2] = "k8s.cluster" /\ Described(r)
  <2>1. e.cluster = None
    BY <1>t, <1>5, <1>q DEF Described, EksGoodAt
  <2> QED BY <1>5, <1>same, <2>1 DEF Described, eksVars
<1>6. CASE t[2] = "k8s.cluster" /\ ListNodeGroups(r)
  <2>1. PICK c \in lists[t].got, groups \in SUBSET AllGroups :
          /\ groups \subseteq GroupsOf[c]
          /\ eks' = [eks EXCEPT ![r].cluster = c, ![r].groups = groups,
                                ![r].full = groups = GroupsOf[c]]
    BY <1>t, <1>6 DEF ListNodeGroups, AllGroups
  <2>2. /\ lists[t].stage = "publishing" /\ e.cluster = None /\ UNCHANGED <<lists, report>>
        /\ c \in Items
    BY <1>t, <1>e, <1>6 DEF ListNodeGroups, ListType
  <2>3. /\ eks'[r].cluster = c /\ eks'[r].groups = groups /\ eks'[r].found = e.found
        /\ eks'[r].full = (groups = GroupsOf[c])
        /\ \A q \in Regions : q # r => eks'[q] = eks[q]
    BY <1>t, <1>e, <2>1 DEF AwsType, EksType
  <2>4. eks' \in [Regions -> EksType]
    BY <1>t, <1>e, <2>1, <2>2 DEF AwsType, EksType
  <2>5. e.found = {}
    BY <1>t, <1>q, <2>2 DEF EksGoodAt
  <2>6. EksGoodAt(r)'
    <3>1. eks'[r].full => InstancesIn(GroupsOf[c]) = InstancesIn(groups)
      BY <2>3
    <3> QED BY <1>t, <1>6, <2>1, <2>2, <2>3, <2>5, <3>1 DEF EksGoodAt
  <2>7. ASSUME NEW q \in Regions, q # r PROVE EksGoodAt(q)'
    BY <1>q, <2>2, <2>3, <2>7, EksFrame DEF EksGoodAt
  <2> QED BY <2>2, <2>4, <2>6, <2>7 DEF AwsType, EksGood, ClusterChild, InstancesOf
<1>7. CASE t[2] = "k8s.cluster" /\ DescribeNodegroup(r)
  <2>1. PICK g \in e.groups :
          \/ eks' = [eks EXCEPT ![r].groups = @ \ {g}, ![r].found = @ \cup InstancesOf(ScalingGroups[g])]
          \/ eks' = [eks EXCEPT ![r].groups = @ \ {g}, ![r].full = FALSE]
          \/ eks' = [eks EXCEPT ![r].groups = {}, ![r].found = {}, ![r].full = FALSE]
    BY <1>7 DEF DescribeNodegroup
  <2>2. e.cluster # None /\ UNCHANGED <<lists, report>>
    BY <1>7 DEF DescribeNodegroup
  <2> DEFINE of == InstancesOf(ScalingGroups[g])
             own == InstancesIn(GroupsOf[e.cluster])
  <2>3. of \subseteq own /\ of \subseteq InstancesIn(AllGroups)
    <3>1. g \in GroupsOf[e.cluster] /\ g \in AllGroups
      BY <1>t, <1>e, <1>q, <2>2 DEF EksGoodAt, EksType
    <3> HIDE DEF e, r
    <3> QED BY <3>1, InstancesSplit
  <2>4. InstancesIn(e.groups) = of \cup InstancesIn(e.groups \ {g})
    BY InstancesSplit
  <2> HIDE DEF of, own
  <2>5. /\ eks' \in [Regions -> EksType]
        /\ \A q \in Regions : q # r => eks'[q] = eks[q]
        /\ eks'[r].cluster = e.cluster
        /\ \/ /\ eks'[r].groups = e.groups \ {g} /\ eks'[r].found = e.found \cup of
              /\ eks'[r].full = e.full
           \/ /\ eks'[r].groups = e.groups \ {g} /\ eks'[r].found = e.found
              /\ eks'[r].full = FALSE
           \/ eks'[r].groups = {} /\ eks'[r].found = {} /\ eks'[r].full = FALSE
    <3>1. eks \in [Regions -> EksType]
      BY DEF AwsType
    <3>2. CASE eks' = [eks EXCEPT ![r].groups = @ \ {g}, ![r].found = @ \cup of]
      BY <1>t, <2>3, <3>1, <3>2 DEF EksType
    <3>3. CASE eks' = [eks EXCEPT ![r].groups = @ \ {g}, ![r].full = FALSE]
      BY <1>t, <3>1, <3>3 DEF EksType
    <3>4. CASE eks' = [eks EXCEPT ![r].groups = {}, ![r].found = {}, ![r].full = FALSE]
      BY <1>t, <3>1, <3>4 DEF EksType
    <3> QED BY <2>1, <3>2, <3>3, <3>4 DEF of
  <2>6. EksGoodAt(r)'
    <3>1. /\ lists[Clusters(r)].stage = "publishing" /\ e.cluster \in lists[Clusters(r)].got
          /\ e.groups \subseteq GroupsOf[e.cluster] /\ e.found \subseteq own
          /\ e.full => own \subseteq e.found \cup InstancesIn(e.groups)
      BY <1>t, <1>q, <2>2 DEF EksGoodAt, own
    <3>2. /\ eks'[r].groups \subseteq GroupsOf[e.cluster] /\ eks'[r].found \subseteq own
          /\ eks'[r].full => own \subseteq eks'[r].found \cup InstancesIn(eks'[r].groups)
      BY <2>3, <2>4, <2>5, <3>1
    <3> QED BY <2>2, <2>5, <3>1, <3>2 DEF EksGoodAt, own
  <2>7. ASSUME NEW q \in Regions, q # r PROVE EksGoodAt(q)'
    BY <1>q, <2>2, <2>5, <2>7, EksFrame DEF EksGoodAt
  <2> QED BY <2>2, <2>5, <2>6, <2>7 DEF AwsType, EksGood, ClusterChild, InstancesOf
<1>8. CASE t[2] = "k8s.cluster" /\ PublishCluster(r)
  <2>1. /\ e.cluster # None /\ e.groups = {}
        /\ eks' = [eks EXCEPT ![r] = ClusterDone(@)]
    BY <1>8 DEF PublishCluster
  <2>2. PICK children \in Children(e.found) :
          report' = [report EXCEPT ![r] = [cluster |-> e.cluster, children |-> children, full |-> e.full]]
    BY <1>8 DEF PublishCluster
  <2> DEFINE own == InstancesIn(GroupsOf[e.cluster])
  <2>3. e.found \subseteq own /\ (e.full => own = e.found)
    <3>1. InstancesIn(e.groups) = {}
      BY <2>1, InstancesSplit
    <3> HIDE DEF e
    <3>2. e.found \subseteq own /\ (e.full => own \subseteq e.found \cup InstancesIn(e.groups))
      BY <1>t, <1>q, <2>1 DEF EksGoodAt, e
    <3> QED BY <3>1, <3>2
  <2> HIDE DEF own
  <2>4. children \subseteq own /\ (e.full /\ own # {} => children # {})
    BY <2>3 DEF Children
  <2>5. /\ DOMAIN report' = Regions
        /\ report'[r] = [cluster |-> e.cluster, children |-> children, full |-> e.full]
        /\ \A q \in Regions : q # r => report'[q] = report[q]
    BY <1>t, <2>2 DEF AwsType
  <2>6. ClusterChild'
    <3>1. ASSUME NEW q \in Regions
          PROVE  report'[q] # None =>
                   /\ report'[q].children \subseteq InstancesIn(GroupsOf[report'[q].cluster])
                   /\ report'[q].full /\ InstancesIn(GroupsOf[report'[q].cluster]) # {} =>
                        report'[q].children # {}
      <4>1. CASE q = r
        BY <2>4, <2>5, <4>1 DEF own
      <4>2. CASE q # r
        BY <2>5, <3>1, <4>2 DEF ClusterChild, InstancesIn
      <4> QED BY <4>1, <4>2
    <3> QED BY <3>1 DEF ClusterChild, InstancesIn, InstancesOf
  <2>7. /\ eks' \in [Regions -> EksType] /\ eks'[r].cluster = None /\ eks'[r].found = {}
        /\ \A q \in Regions : q # r => eks'[q] = eks[q]
    BY <1>t, <1>e, <2>1 DEF AwsType, EksType, ClusterDone
  <2>8. EksGoodAt(r)'
    BY <2>7 DEF EksGoodAt
  <2>9. ASSUME NEW q \in Regions, q # r PROVE EksGoodAt(q)'
    BY <1>t, <1>o, <1>q, <2>7, <2>9, EksFrame DEF EksGoodAt
  <2> QED BY <2>5, <2>6, <2>7, <2>8, <2>9 DEF AwsType, EksGood
<1> QED BY <1>1, <1>2, <1>3, <1>4, <1>5, <1>6, <1>7, <1>8 DEF AwsStep, CollectEKS

-----------------------------------------------------------------------------

\* A step that only goes on with lists, or leaves subscriptions out.
LEMMA LogFrame ==
  ASSUME LogGood, AzureType, UNCHANGED logVars, pending' \subseteq pending,
         \A t \in AzureTasks : lists[t].stage = "idle" => lists'[t].stage = "idle"
  PROVE  LogGood'
<1>1. \A t \in AzureTasks : Ended(t) => Ended(t)'
  BY DEF Ended
<1>2. \A s \in Subscriptions, k \in Kinds : <<s, k>> \in AzureTasks
  BY DEF AzureTasks
<1>3. \A t \in AzureTasks : {t[1]} \X Kinds \subseteq AzureTasks
  BY DEF AzureTasks
<1>4. \A s \in pending' : \A k \in Kinds : lists'[<<s, k>>].stage = "idle"
  BY <1>2 DEF LogGood, AzureType
<1>5. \A t \in failed : Ended(t)'
  BY <1>1 DEF LogGood, AzureType
<1>6. \A t \in failed :
        err[t[1]] = "nil" \/ t \notin unchecked \cup logged =>
          \A u \in {t[1]} \X Kinds : u # t => u \notin failed /\ Ended(u)'
  BY <1>1, <1>3 DEF LogGood, AzureType
<1>7. \A s \in Subscriptions : err[s] = "error" => ({s} \X Kinds) \cap failed # {}
  BY DEF LogGood
<1>8. \A t \in logged : ({t[1]} \X Kinds) \cap failed # {}
  BY DEF LogGood
<1> QED BY <1>4, <1>5, <1>6, <1>7, <1>8 DEF LogGood, logVars

\* The log of all subscriptions through the step of an Azure goroutine.
LEMMA LogStep ==
  ASSUME PagerType, AzureType, ListsGood, LogGood, NEW t \in AzureTasks, AzureStep(t)
  PROVE  LogGood'
<1> DEFINE s == t[1]
           both == {s} \X Kinds
<1>t. /\ t \in Tasks /\ s \in Subscriptions /\ AzureTasks \subseteq Tasks /\ t \in both
      /\ both \subseteq AzureTasks
      /\ \A u \in AzureTasks : u[1] \in Subscriptions /\ u \in {u[1]} \X Kinds
                               /\ {u[1]} \X Kinds \subseteq AzureTasks
      /\ \A u \in AzureTasks : \A w \in {u[1]} \X Kinds : w[1] = u[1]
      /\ \A u \in both : u[1] = s
      /\ \A u \in AzureTasks : u[1] = s => u \in both
      /\ \A u, w \in both : u # t /\ w # u => w = t
      /\ (t[2] = "vm" => t = Vms(s)) /\ (t[2] = "scaleset" => t = SetVms(s))
  BY TasksApart DEF AzureTasks, Kinds, Vms, SetVms
<1>o. /\ UNCHANGED <<up, regions>>
      /\ \A u \in Tasks : u # t => lists'[u] = lists[u]
  BY <1>t, AzureOneList, OneList
<1>p. /\ failed \subseteq AzureTasks /\ logged \subseteq AzureTasks /\ unchecked \subseteq AzureTasks
      /\ err \in [Subscriptions -> {"nil", "error"}]
      /\ \A q \in Subscriptions, k \in Kinds : <<q, k>> \in AzureTasks
  BY DEF AzureType, AzureTasks
<1>busy. \A u \in both : lists[u].stage # "idle" => s \notin pending /\ u \notin failed
  BY <1>t DEF LogGood, Ended
<1>frame. ASSUME UNCHANGED <<pending, logVars>>, lists[t].stage # "idle"
          PROVE  LogGood'
  <2>1. \A u \in AzureTasks : lists[u].stage = "idle" => lists'[u].stage = "idle"
    BY <1>t, <1>o, <1>frame
  <2> QED BY <1>frame, <2>1, LogFrame
<1>1. CASE t[2] = "vm" /\ ListVms(s)
  BY <1>t, <1>1, <1>frame DEF ListVms, NextPage, azureVars
<1>2. CASE t[2] = "scaleset" /\ ListScaleSets(s)
  BY <1>t, <1>2, <1>frame DEF ListScaleSets, NextPage, azureVars
<1>3. CASE t[2] = "scaleset" /\ (ReadScaleSet(s) \/ GetInstanceView(s) \/ AllRead(s))
  BY <1>t, <1>3, <1>frame DEF ReadScaleSet, GetInstanceView, AllRead
<1>4. CASE PublishVm(t)
  BY <1>4, <1>frame DEF PublishVm, Publish, azureVars
<1>5. CASE CollectFails(t) \/ Collected(t)
  <2>1. /\ lists[t].stage # "idle" /\ lists'[t].stage = "idle"
        /\ UNCHANGED <<pending, logged>> /\ unchecked' = unchecked \cup {t}
    BY <1>t, <1>5 DEF CollectFails, Collected, Drop, PagerType, NoList
  <2>2. s \notin pending /\ t \notin failed
    BY <1>t, <1>busy, <2>1
  <2>3. /\ \A u \in AzureTasks : Ended(u) => Ended(u)'
        /\ Ended(t)'
    BY <1>t, <1>o, <2>1, <2>2 DEF Ended
  <2>4. \A q \in pending' : \A k \in Kinds : lists'[<<q, k>>].stage = "idle"
    <3>1. \A u \in AzureTasks : lists[u].stage = "idle" => lists'[u].stage = "idle"
      BY <1>t, <1>o, <2>1
    <3>2. pending' = pending /\ pending \subseteq Subscriptions
      BY <2>1 DEF AzureType
    <3> QED BY <1>p, <3>1, <3>2 DEF LogGood
  <2>5. CASE CollectFails(t)
    <3>1. /\ failed' = failed \cup {t} /\ err' \in [Subscriptions -> {"nil", "error"}]
          /\ err'[s] = "error" /\ \A q \in Subscriptions : q # s => err'[q] = err[q]
      BY <1>t, <1>p, <2>5 DEF CollectFails, Assign
    <3>2. \A u \in failed' : Ended(u)'
      BY <1>p, <2>3, <3>1 DEF LogGood
    <3>3. \A q \in Subscriptions : err'[q] = "error" => ({q} \X Kinds) \cap failed' # {}
      BY <1>t, <3>1 DEF LogGood
    <3>4. \A u \in logged' : ({u[1]} \X Kinds) \cap failed' # {}
      BY <2>1, <3>1 DEF LogGood
    <3>5. ASSUME NEW u \in failed', err'[u[1]] = "nil" \/ u \notin unchecked' \cup logged'
          PROVE  \A w \in {u[1]} \X Kinds : w # u => w \notin failed' /\ Ended(w)'
      <4>1. u # t /\ u \in failed /\ u \in AzureTasks
        BY <1>p, <2>1, <3>1, <3>5
      <4>2. CASE u[1] = s
        <5>1. u \in both /\ err'[u[1]] = "error" /\ u \notin unchecked \cup logged
          BY <1>t, <2>1, <3>1, <3>5, <4>1, <4>2
        <5>2. Ended(t)
          BY <1>t, <4>1, <4>2, <5>1 DEF LogGood
        <5> QED BY <2>1, <5>2 DEF Ended
      <4>3. CASE u[1] # s
        <5>1. err[u[1]] = "nil" \/ u \notin unchecked \cup logged
          BY <1>t, <2>1, <3>1, <3>5, <4>1, <4>3
        <5>2. \A w \in {u[1]} \X Kinds : w \in AzureTasks /\ w # t
          BY <1>t, <4>1, <4>3
        <5> QED BY <2>3, <3>1, <4>1, <5>1, <5>2 DEF LogGood
      <4> QED BY <4>2, <4>3
    <3> QED BY <2>4, <3>2, <3>3, <3>4, <3>5 DEF LogGood
  <2>6. CASE Collected(t)
    <3>1. /\ failed' = failed /\ err' \in [Subscriptions -> {"nil", "error"}]
          /\ err'[s] = "nil" /\ \A q \in Subscriptions : q # s => err'[q] = err[q]
      BY <1>t, <1>p, <2>6 DEF Collected, Assign
    <3>2. \A u \in failed' : Ended(u)'
      BY <1>p, <2>3, <3>1 DEF LogGood
    <3>3. \A q \in Subscriptions : err'[q] = "error" => ({q} \X Kinds) \cap failed' # {}
      BY <1>t, <3>1 DEF LogGood
    <3>4. \A u \in logged' : ({u[1]} \X Kinds) \cap failed' # {}
      BY <2>1, <3>1 DEF LogGood
    <3>5. ASSUME NEW u \in failed', err'[u[1]] = "nil" \/ u \notin unchecked' \cup logged'
          PROVE  \A w \in {u[1]} \X Kinds : w # u => w \notin failed' /\ Ended(w)'
      <4>1. u # t /\ u \in failed /\ u \in AzureTasks
        BY <1>p, <2>2, <3>1
      <4>2. CASE u[1] = s
        <5>1. u \in both /\ \A w \in {u[1]} \X Kinds : w # u => w = t
          BY <1>t, <4>1, <4>2
        <5> QED BY <2>2, <2>3, <3>1, <5>1
      <4>3. CASE u[1] # s
        <5>1. err[u[1]] = "nil" \/ u \notin unchecked \cup logged
          BY <1>t, <2>1, <3>1, <3>5, <4>1, <4>3
        <5>2. \A w \in {u[1]} \X Kinds : w \in AzureTasks /\ w # t
          BY <1>t, <4>1, <4>3
        <5> QED BY <2>3, <3>1, <4>1, <5>1, <5>2 DEF LogGood
      <4> QED BY <4>2, <4>3
    <3> QED BY <2>4, <3>2, <3>3, <3>4, <3>5 DEF LogGood
  <2> QED BY <1>5, <2>5, <2>6
<1>6. CASE CheckErr(t)
  <2>1. /\ UNCHANGED <<lists, pending, err, failed>> /\ unchecked' = unchecked \ {t}
        /\ logged' = IF err[s] = "nil" THEN logged ELSE logged \cup {t}
    BY <1>6 DEF CheckErr
  <2>2. \A u : Ended(u) <=> Ended(u)'
    BY <2>1 DEF Ended
  <2>3. \A u \in logged' : ({u[1]} \X Kinds) \cap failed # {}
    <3>1. err[s] # "nil" => err[s] = "error"
      BY <1>t, <1>p
    <3>2. err[s] # "nil" => both \cap failed # {}
      BY <1>t, <3>1 DEF LogGood
    <3> QED BY <2>1, <3>2 DEF LogGood
  <2>4. \A u \in failed :
          err[u[1]] = "nil" \/ u \notin unchecked' \cup logged' =>
            err[u[1]] = "nil" \/ u \notin unchecked \cup logged
    BY <2>1
  <2> QED BY <2>1, <2>2, <2>3, <2>4 DEF LogGood
<1> QED BY <1>1, <1>2, <1>3, <1>4, <1>5, <1>6 DEF AzureStep

-----------------------------------------------------------------------------

\* The clusters of all regions through the steps of others.
LEMMA EksKept ==
  ASSUME AwsType, EksGood, ClusterChild, UNCHANGED <<eks, report>>,
         \A t \in AwsTasks : lists'[t].stage = lists[t].stage /\ lists'[t].got = lists[t].got
  PROVE  AwsType' /\ EksGood' /\ ClusterChild'
<1>1. ASSUME NEW r \in Regions PROVE EksGoodAt(r)'
  <2>1. Clusters(r) \in AwsTasks
    BY TasksApart
  <2> QED BY <2>1, EksFrame DEF EksGood, EksGoodAt
<1> QED BY <1>1 DEF AwsType, EksGood, ClusterChild, InstancesOf

\* A round begins with no cluster and no event.
LEMMA EksNew ==
  ASSUME eks' = [r \in Regions |-> NoEks], report' = [r \in Regions |-> None]
  PROVE  AwsType' /\ EksGood' /\ ClusterChild'
<1>1. NoEks \in EksType
  BY DEF NoEks, EksType
<1>2. EksGood'
  BY DEF EksGood, EksGoodAt, NoEks
<1> QED BY <1>1, <1>2 DEF AwsType, ClusterChild

\* A step keeps the invariant, and it is a step of Collection or none.
Good == IInv' /\ [Collecting!Next]_(Collecting!vars)

\* The start of a round of AWS collections.
LEMMA CollectAwsGood ==
  ASSUME IInv, CollectAws, UNCHANGED <<azureVars, hostVars>>
  PROVE  Good
<1>1. PICK loaded \in SUBSET Regions :
        lists' = [t \in Tasks |->
                    IF t \in loaded \X AwsTypes /\ Enabled(t[2]) THEN NewList(t, Assets[t]) ELSE lists[t]]
  BY DEF CollectAws
<1>2. UNCHANGED <<up, regions, azureVars, hostVars>> /\ \A t \in AwsTasks : lists[t].stage = "idle"
  BY DEF CollectAws, Idle, azureVars
<1>3. \A t \in Tasks :
        /\ NewList(t, Assets[t]) \in ListType /\ GoodList(t, NewList(t, Assets[t]))
        /\ NewList(t, Assets[t]).stage = "listing"
  BY NewIsGood, ItemsHave, PromisedAre DEF IInv
<1>4. \A t \in loaded \X AwsTypes : t \in AwsTasks
  BY DEF AwsTasks
<1>5. /\ lists' \in [Tasks -> ListType]
      /\ \A t \in Tasks :
           \/ lists'[t] = lists[t]
           \/ /\ t \in AwsTasks /\ lists'[t].stage = "listing"
              /\ GoodList(t, lists'[t])
  BY <1>1, <1>3, <1>4 DEF IInv, PagerType
<1>6. PagerType' /\ ListsGood' /\ [Collecting!Next]_(Collecting!vars)
  BY <1>2, <1>5, BeginStep DEF IInv
<1>7. AwsType' /\ EksGood' /\ ClusterChild'
  BY EksNew DEF CollectAws
<1>8. AzureType'
  BY <1>2 DEF IInv, AzureType, azureVars, logVars, VmsType
<1>9. LogGood'
  <2>1. \A t \in AzureTasks : lists'[t] = lists[t]
    BY <1>5, TasksApart
  <2> QED BY <1>2, <2>1, LogFrame DEF IInv, azureVars
<1>10. NoAddressKept'
  BY <1>2 DEF IInv, NoAddressKept, hostVars
<1> QED BY <1>6, <1>7, <1>8, <1>9, <1>10 DEF Good, IInv

\* A step of one AWS collection.
LEMMA AwsStepGood ==
  ASSUME IInv, NEW t \in AwsTasks, AwsStep(t), UNCHANGED <<azureVars, hostVars>>
  PROVE  Good
<1>1. t \in Tasks /\ UNCHANGED <<up, regions>> /\ StepOf(t)
  BY TasksApart, AwsOneList DEF IInv, azureVars
<1>2. PagerType' /\ ListsGood' /\ \A u \in Tasks : u # t => lists'[u] = lists[u]
  BY <1>1, OneList DEF IInv
<1>3. [Collecting!Next]_(Collecting!vars)
  BY <1>1, OneAdvance DEF IInv
<1>4. AwsType' /\ EksGood' /\ ClusterChild'
  BY <1>1, EksStep DEF IInv
<1>5. AzureType'
  BY DEF IInv, AzureType, azureVars, logVars, VmsType
<1>6. LogGood'
  <2>1. \A u \in AzureTasks : lists'[u] = lists[u]
    BY <1>2, TasksApart
  <2> QED BY <2>1, LogFrame DEF IInv, azureVars
<1>7. NoAddressKept'
  BY DEF IInv, NoAddressKept, hostVars
<1> QED BY <1>2, <1>3, <1>4, <1>5, <1>6, <1>7 DEF Good, IInv

\* A step of one Azure collection.
LEMMA AzureStepGood ==
  ASSUME IInv, NEW t \in AzureTasks, AzureStep(t), UNCHANGED <<eksVars, hostVars>>
  PROVE  Good
<1>1. t \in Tasks /\ UNCHANGED <<up, regions>> /\ StepOf(t) /\ AzureType'
  BY TasksApart, AzureOneList DEF IInv
<1>2. PagerType' /\ ListsGood' /\ \A u \in Tasks : u # t => lists'[u] = lists[u]
  BY <1>1, OneList DEF IInv
<1>3. [Collecting!Next]_(Collecting!vars)
  BY <1>1, OneAdvance DEF IInv
<1>4. AwsType' /\ EksGood' /\ ClusterChild'
  <2>1. \A u \in AwsTasks : lists'[u] = lists[u]
    BY <1>2, TasksApart
  <2> QED BY <2>1, EksKept DEF IInv, eksVars
<1>5. LogGood'
  BY LogStep DEF IInv
<1>6. NoAddressKept'
  BY DEF IInv, NoAddressKept, hostVars
<1> QED BY <1>1, <1>2, <1>3, <1>4, <1>5, <1>6 DEF Good, IInv

\* The loop over the subscriptions starts the two collections of one.
LEMMA StartSubscriptionGood ==
  ASSUME IInv, NEW s \in Subscriptions, StartSubscription(s), UNCHANGED <<eksVars, hostVars>>
  PROVE  Good
<1> DEFINE vms == NewList(Vms(s), Assets[Vms(s)])
           sets == NewList(SetVms(s), DOMAIN ScaleSets[s])
<1>t. /\ Vms(s) \in Tasks /\ SetVms(s) \in Tasks /\ Vms(s) # SetVms(s)
      /\ Vms(s) \in AzureTasks /\ SetVms(s) \in AzureTasks
      /\ Vms(s) = <<s, "vm">> /\ SetVms(s) = <<s, "scaleset">>
      /\ "vm" \in Kinds /\ "scaleset" \in Kinds
      /\ Vms(s)[1] = s /\ SetVms(s)[1] = s
  BY TasksApart DEF Vms, SetVms, Kinds
<1>1. /\ s \in pending /\ pending' = pending \ {s}
      /\ lists' = [lists EXCEPT ![Vms(s)] = vms, ![SetVms(s)] = sets]
      /\ UNCHANGED <<pc, up, regions, subscriptionId, cred, setVms, logVars>>
  BY DEF StartSubscription
<1>2. /\ vms \in ListType /\ GoodList(Vms(s), vms) /\ vms.stage = "listing"
      /\ sets \in ListType /\ GoodList(SetVms(s), sets) /\ sets.stage = "listing"
  <2>1. Assets[Vms(s)] \in SUBSET Items /\ Promised(Vms(s)) \subseteq Assets[Vms(s)]
    BY <1>t, ItemsHave, PromisedAre
  <2>2. DOMAIN ScaleSets[s] \in SUBSET Items /\ Promised(SetVms(s)) \subseteq DOMAIN ScaleSets[s]
    BY ItemsHave, PromisedAre
  <2> QED BY <1>t, <2>1, <2>2, NewIsGood DEF IInv
<1> HIDE DEF vms, sets
<1>3. lists[Vms(s)].stage = "idle" /\ lists[SetVms(s)].stage = "idle"
  BY <1>t, <1>1 DEF IInv, LogGood
<1>4. /\ lists' \in [Tasks -> ListType]
      /\ lists'[Vms(s)] = vms /\ lists'[SetVms(s)] = sets
      /\ \A t \in Tasks : t \notin {Vms(s), SetVms(s)} => lists'[t] = lists[t]
  BY <1>t, <1>1, <1>2 DEF IInv, PagerType
<1>5. PagerType' /\ ListsGood' /\ [Collecting!Next]_(Collecting!vars)
  BY <1>1, <1>2, <1>3, <1>4, BeginStep DEF IInv
<1>6. AwsType' /\ EksGood' /\ ClusterChild'
  <2>1. \A t \in AwsTasks : lists'[t] = lists[t]
    BY <1>t, <1>4, TasksApart
  <2> QED BY <2>1, EksKept DEF IInv, eksVars
<1>7. AzureType'
  BY <1>1 DEF IInv, AzureType, logVars, VmsType
<1>8. LogGood'
  <2>1. UNCHANGED <<err, unchecked, failed, logged>>
    BY <1>1 DEF logVars
  <2>2. \A u \in AzureTasks : u[1] # s => lists'[u] = lists[u]
    BY <1>t, <1>4, TasksApart
  <2>3. \A u \in AzureTasks : Ended(u) => u[1] # s /\ Ended(u)'
    BY <1>1, <2>2 DEF Ended
  <2>4. \A q \in pending' : q # s /\ \A k \in Kinds : <<q, k>> \in AzureTasks /\ <<q, k>>[1] = q
    BY <1>1 DEF IInv, AzureType, AzureTasks
  <2>5. \A q \in pending' : \A k \in Kinds : lists'[<<q, k>>].stage = "idle"
    <3>1. \A q \in pending' : \A k \in Kinds : lists[<<q, k>>].stage = "idle"
      BY <1>1 DEF IInv, LogGood
    <3> QED BY <2>2, <2>4, <3>1
  <2>6. failed \subseteq AzureTasks /\ \A t \in failed : {t[1]} \X Kinds \subseteq AzureTasks
    BY DEF IInv, AzureType, AzureTasks
  <2>7. \A t \in failed : Ended(t)'
    BY <2>3, <2>6 DEF IInv, LogGood
  <2>8. \A t \in failed :
          err[t[1]] = "nil" \/ t \notin unchecked \cup logged =>
            \A u \in {t[1]} \X Kinds : u # t => u \notin failed /\ Ended(u)'
    BY <2>3, <2>6 DEF IInv, LogGood
  <2>9. /\ \A q \in Subscriptions : err[q] = "error" => ({q} \X Kinds) \cap failed # {}
        /\ \A t \in logged : ({t[1]} \X Kinds) \cap failed # {}
    BY DEF IInv, LogGood
  <2> QED BY <2>1, <2>5, <2>7, <2>8, <2>9 DEF LogGood
<1>9. NoAddressKept'
  BY DEF IInv, NoAddressKept, hostVars
<1> QED BY <1>5, <1>6, <1>7, <1>8, <1>9 DEF Good, IInv

\* Steps that leave all collections alone.
LEMMA StillGood ==
  ASSUME IInv, UNCHANGED <<up, lists, regions, eks, report, hostInfo>>, AzureType', LogGood'
  PROVE  Good
<1>1. PagerType'
  BY DEF IInv, PagerType
<1>2. \A u, l : GoodList(u, l) <=> GoodList(u, l)'
  BY DEF GoodList, Promised, wantRegion
<1>3. ListsGood'
  BY <1>2 DEF IInv, ListsGood
<1>4. AwsType' /\ EksGood' /\ ClusterChild'
  BY EksKept DEF IInv
<1>5. UNCHANGED Collecting!vars
  <2>1. \A t, l : AbsLasting(t, l)' = AbsLasting(t, l)
    BY DEF AbsLasting, Promised, wantRegion
  <2> QED BY <2>1 DEF Collecting!vars, stage, lasting, todo
<1>6. NoAddressKept'
  BY DEF IInv, NoAddressKept
<1> QED BY <1>1, <1>3, <1>4, <1>5, <1>6 DEF Good, IInv

\* The other steps of that loop and of Run.
LEMMA AzureLoopGood ==
  ASSUME IInv, CollectAzure \/ NoClientFactory \/ CollectDone, UNCHANGED <<eksVars, hostVars>>
  PROVE  Good
<1>0. UNCHANGED <<up, lists, regions, eks, report, hostInfo>>
  BY DEF CollectAzure, NoClientFactory, CollectDone, azureVars, eksVars, hostVars
<1>1. CASE CollectAzure
  <2>1. AzureType'
    BY <1>1, VisibleAssumption DEF IInv, CollectAzure, AzureType, VmsType
  <2>2. /\ failed' = {} /\ logged' = {} /\ unchecked' = {}
        /\ err' = [s \in Subscriptions |-> "nil"]
        /\ \A t \in AzureTasks : lists[t].stage = "idle"
    BY <1>1 DEF CollectAzure, Idle
  <2>3. \A s \in pending' : \A k \in Kinds : <<s, k>> \in AzureTasks
    BY <2>1 DEF AzureType, AzureTasks
  <2>4. LogGood'
    BY <1>0, <2>2, <2>3 DEF LogGood
  <2> QED BY <1>0, <2>1, <2>4, StillGood
<1>2. CASE NoClientFactory \/ CollectDone
  <2>1. AzureType' /\ UNCHANGED logVars /\ pending' \subseteq pending
    BY <1>2 DEF IInv, NoClientFactory, CollectDone, AzureType, azureVars, logVars, VmsType
  <2>2. LogGood'
    BY <1>0, <2>1, LogFrame DEF IInv
  <2> QED BY <1>0, <2>1, <2>2, StillGood
<1> QED BY <1>1, <1>2

\* Steps that leave the lists and the assets alone, like the report of the host.
LEMMA IdleGood ==
  ASSUME IInv, UNCHANGED <<up, lists, eks, report, azureVars, hostInfo>>
  PROVE  Good
<1>1. AzureType' /\ UNCHANGED <<regions, logVars, pending>>
  BY DEF IInv, AzureType, azureVars, logVars, VmsType
<1>2. LogGood'
  BY <1>1, LogFrame DEF IInv
<1> QED BY <1>1, <1>2, StillGood

\* The account or the host changes.
LEMMA ChangeGood ==
  ASSUME IInv, NEW t \in Tasks, NEW a \in Assets[t], Change(t, a),
         UNCHANGED <<eksVars, azureVars, hostVars>>
  PROVE  Good
<1>1. /\ PagerType' /\ ListsGood' /\ [Collecting!Next]_(Collecting!vars)
      /\ \A u \in Tasks : lists'[u].stage = lists[u].stage /\ lists'[u].got = lists[u].got
  BY ChangeStep DEF IInv, azureVars
<1>2. AwsType' /\ EksGood' /\ ClusterChild'
  BY <1>1, EksKept, TasksApart DEF IInv, eksVars
<1>3. AzureType'
  BY DEF IInv, AzureType, azureVars, logVars, VmsType
<1>4. LogGood'
  BY <1>1, LogFrame, TasksApart DEF IInv, azureVars
<1>5. NoAddressKept'
  BY DEF IInv, NoAddressKept, hostVars
<1> QED BY <1>1, <1>2, <1>3, <1>4, <1>5 DEF Good, IInv

\* The lists of a process that begins, or has ended.
LEMMA NewProcess ==
  /\ AllIdle \in [Tasks -> ListType]
  /\ \A t \in Tasks : AllIdle[t].stage = "idle" /\ GoodList(t, AllIdle[t])
  /\ \A s \in Subscriptions : NoVms \in VmsType(s)
<1>1. \A t \in Tasks : NoList \in ListType /\ GoodList(t, NoList) /\ NoList.stage = "idle"
  BY IdleIsGood DEF NoList
<1> QED BY <1>1 DEF AllIdle, NoVms, VmsType

\* A panic ends all collections, which Collection allows at any time.
LEMMA PanicGood ==
  ASSUME IInv, Panic
  PROVE  Good
<1>1. UNCHANGED <<up, regions>> /\ lists' = AllIdle
  BY DEF Panic
<1>2. PagerType'
  BY <1>1, NewProcess DEF IInv, PagerType
<1>3. ListsGood'
  BY <1>1 DEF ListsGood, GoodList, AllIdle, NoList, Working
<1>4. AwsType' /\ EksGood' /\ ClusterChild'
  BY EksNew DEF Panic
<1>5. AzureType'
  BY NewProcess DEF IInv, Panic, AzureType, VmsType
<1>6. LogGood'
  BY DEF Panic, LogGood
<1>7. NoAddressKept'
  BY DEF IInv, Panic, NoAddressKept
<1>8. Collecting!Crash
  BY <1>1 DEF Collecting!Crash, Collecting!Nothing, stage, lasting, todo,
    AbsStage, AbsLasting, AbsTodo, AllIdle, NoList, Working
<1> QED BY <1>2, <1>3, <1>4, <1>5, <1>6, <1>7, <1>8 DEF Good, IInv, Collecting!Next

-----------------------------------------------------------------------------

\* The invariant holds initially, and the collections are those of Collection.
LEMMA InitGood == Init => IInv /\ Collecting!Init
<1> SUFFICES ASSUME Init PROVE IInv /\ Collecting!Init
  OBVIOUS
<1>1. lists = AllIdle /\ up = Assets
  BY DEF Init
<1>2. PagerType
  BY <1>1, NewProcess, ItemsHave, AssetsAssumption DEF PagerType
<1>3. ListsGood
  BY <1>1, NewProcess DEF ListsGood
<1>4. AwsType /\ EksGood /\ ClusterChild
  <2>1. NoEks \in EksType
    BY DEF NoEks, EksType
  <2>2. eks = [r \in Regions |-> NoEks] /\ report = [r \in Regions |-> None]
    BY DEF Init, AwsInit
  <2> QED BY <2>1, <2>2 DEF AwsType, EksGood, EksGoodAt, ClusterChild, NoEks
<1>5. AzureType
  BY NewProcess, SubscriptionAssumption DEF Init, AzureInit, AzureType
<1>6. LogGood
  BY DEF Init, AzureInit, LogGood
<1>7. NoAddressKept
  BY DEF Init, NoAddressKept
<1>8. Collecting!Init
  BY <1>1 DEF Collecting!Init, Collecting!Nothing, stage, lasting, todo,
    AbsStage, AbsLasting, AbsTodo, AllIdle, NoList, Working
<1> QED BY <1>2, <1>3, <1>4, <1>5, <1>6, <1>7, <1>8 DEF IInv

\* Every step keeps the invariant and is one of Collection, or a stutter.
LEMMA NextGood == IInv /\ [Next]_vars => Good
<1> SUFFICES ASSUME IInv, [Next]_vars PROVE Good
  OBVIOUS
<1>1. CASE AwsNext /\ UNCHANGED <<azureVars, hostVars>>
  BY <1>1, CollectAwsGood, AwsStepGood DEF AwsNext
<1>2. CASE AzureNext /\ UNCHANGED <<eksVars, hostVars>>
  BY <1>2, AzureLoopGood, StartSubscriptionGood, AzureStepGood DEF AzureNext, AzureLoop
<1>3. CASE HostNext /\ UNCHANGED <<eksVars, azureVars>>
  BY <1>3, IdleGood DEF HostNext, Report, ChangeAddress, SameInfo, eksVars
<1>4. CASE (\E i \in Inputs : Return(i)) /\ UNCHANGED <<eksVars, azureVars, hostVars>>
  BY <1>4, IdleGood DEF Return, eksVars, hostVars
<1>5. CASE /\ \E t \in Observed : \E a \in Assets[t] \cap Changing : Change(t, a)
           /\ UNCHANGED <<eksVars, azureVars, hostVars>>
  BY <1>5, ChangeGood, TasksApart DEF Observed
<1>6. CASE Panic
  BY <1>6, PanicGood
<1>7. CASE UNCHANGED vars
  BY <1>7, IdleGood DEF vars, eksVars, hostVars
<1> QED BY <1>1, <1>2, <1>3, <1>4, <1>5, <1>6, <1>7 DEF Next

\* The invariant of the proof holds in every state.
LEMMA SpecIInv == Spec => []IInv
<1>1. IInv /\ [Next]_vars => IInv'
  BY NextGood DEF Good
<1> QED BY InitGood, <1>1, PTL DEF Spec

-----------------------------------------------------------------------------

\* A published cluster is given no instance of another cluster's node groups,
\* and one of its own whenever they have any and every call was answered.
THEOREM ChildrenAreOwn == Spec => []ClusterChild
<1>1. IInv => ClusterChild
  BY DEF IInv
<1> QED BY <1>1, SpecIInv, PTL

\* What the goroutines of one subscription log is about that subscription,
\* though its two collections share their err.
THEOREM LogsStayApart == Spec => []LogIsOfSubscription
<1>1. IInv => LogIsOfSubscription
  <2> SUFFICES ASSUME IInv, NEW s \in Subscriptions
               PROVE  LET both == {s} \X Kinds
                      IN  /\ both \cap logged # {} => both \cap failed # {}
                          /\ both \subseteq failed \ unchecked => both \subseteq logged
    BY DEF LogIsOfSubscription
  <2> DEFINE both == {s} \X Kinds
  <2>1. \A t \in both : t[1] = s
    OBVIOUS
  <2>2. both \cap logged # {} => both \cap failed # {}
    BY <2>1 DEF IInv, LogGood
  <2>3. ASSUME both \subseteq failed \ unchecked, NEW t \in both
        PROVE  t \in logged
    <3>1. /\ <<s, "vm">> \in both /\ <<s, "scaleset">> \in both
          /\ <<s, "vm">> # <<s, "scaleset">>
      BY DEF Kinds
    <3>2. PICK u \in both : u # t
      BY <3>1
    <3> QED BY <2>1, <2>3, <3>2 DEF IInv, LogGood
  <2> QED BY <2>2, <2>3
<1> QED BY <1>1, SpecIInv, PTL

\* No report about the host carries an address of an earlier report.
THEOREM AddressesAreNew == Spec => AddressesCurrent
<1>1. IInv /\ [Next]_vars =>
        [hostReport' \notin {hostReport, None} => hostReport'.ip \subseteq addresses]_hostVars
  <2> SUFFICES ASSUME IInv, [Next]_vars, hostReport' \notin {hostReport, None}
               PROVE  hostReport'.ip \subseteq addresses
    OBVIOUS
  <2>1. PICK ipList \in SUBSET addresses :
          hostReport' = [id |-> IF cloudId # None THEN cloudId ELSE hostInfo.id,
                         ip |-> IF ipList # {} THEN ipList ELSE hostInfo.ip]
    BY DEF Next, Panic, HostNext, Report, ChangeAddress, vars, hostVars
  <2> QED BY <2>1 DEF IInv, NoAddressKept
<1> QED BY <1>1, SpecIInv, PTL DEF Spec, AddressesCurrent

\* Whatever page or call fails and however the assets change meanwhile, a
\* collection publishes nothing, or each asset it found once, and it finds
\* all that lasted through its listing.  (That it ends is left to TLC.)
THEOREM CollectsSafely == Spec => Collecting!Init /\ [][Collecting!Next]_(Collecting!vars)
<1>1. IInv /\ [Next]_vars => [Collecting!Next]_(Collecting!vars)
  BY NextGood DEF Good
<1> QED BY <1>1, InitGood, SpecIInv, PTL DEF Spec

=============================================================================
