------------------------------ MODULE AwsInput ------------------------------
(***************************************************************************)
(* input/aws: at each tick, for each region, one goroutine per type, and   *)
(* nobody waits for them.  Instances, VPCs and subnets are listed and then *)
(* published.  Clusters are listed, described by a goroutine each, and     *)
(* published one after the other with one of the instances of their node   *)
(* groups, which takes up to three more calls per cluster.                 *)
(***************************************************************************)
EXTENDS Pager

CONSTANTS
  Regions,        \* cfg.Regions
  GroupsOf,       \* for each cluster, its node groups
  ScalingGroups,  \* for each node group, its autoscaling groups
  Members         \* for each autoscaling group of the account, its instances

Plain == {"aws.ec2.instance", "aws.vpc", "aws.subnet"}
AwsTypes == Plain \cup {"k8s.cluster"}
AwsTasks == Regions \X AwsTypes
Clusters(r) == <<r, "k8s.cluster">>

ASSUME AwsTasksAssumption == AwsTasks \subseteq Tasks /\ "aws" \in Inputs

VARIABLES
  types,   \* cfg.AssetTypes
  eks,     \* per region, the variables of collectEKSAssets
  report   \* per region, the last cluster event of the round, or None

eksVars == <<types, eks, report>>

\* full: every call about the cluster has been answered.
NoEks == [undescribed |-> {}, cluster |-> None, groups |-> {}, found |-> {}, full |-> FALSE]

AwsInit ==
  /\ eks = [r \in Regions |-> NoEks]
  /\ report = [r \in Regions |-> None]

\* IsTypeEnabled: an empty list enables every type.
Enabled(type) == types = {} \/ type \in types

\* collectAWSAssets.  A region whose configuration cannot be loaded is left
\* out.  Bound: the goroutines of one round have ended before the next one.
CollectAws ==
  /\ AtSelect("aws") /\ Idle(AwsTasks)
  /\ pc' = [pc EXCEPT !["aws"] = "loop"]
  /\ \E loaded \in SUBSET Regions :
       lists' = [t \in Tasks |->
                   IF t \in loaded \X AwsTypes /\ Enabled(t[2]) THEN NewList(t, Assets[t]) ELSE lists[t]]
  /\ eks' = [r \in Regions |-> NoEks]
  /\ report' = [r \in Regions |-> None]
  /\ UNCHANGED <<types, up>>

\* describeEC2Instances, describeVPCs, describeSubnets.
DescribePage(r, type) ==
  /\ NextPage(<<r, type>>, up[<<r, type>>], "publishing")
  /\ UNCHANGED eksVars

\* collectEC2Assets, collectVPCAssets, collectSubnetAssets.
PublishAsset(r, type) == Publish(<<r, type>>) /\ UNCHANGED eksVars

\* A page cannot be read: what was read before is dropped with it.
ListFails(t) ==
  /\ Alive /\ lists[t].stage = "listing"
  /\ Drop(t)
  /\ UNCHANGED <<pc, up, eksVars>>

CollectEnds(t) ==
  /\ Alive /\ lists[t].stage = "publishing" /\ lists[t].got = {}
  /\ t[2] = "k8s.cluster" => eks[t[1]].cluster = None
  /\ Drop(t)
  /\ UNCHANGED <<pc, up, eksVars>>

(***************************************************************************)
(* collectEKSAssets.                                                       *)
(***************************************************************************)
ListClusters(r) ==
  /\ NextPage(Clusters(r), up[Clusters(r)], "describing")
  /\ eks' = IF lists'[Clusters(r)].stage = "describing"
              THEN [eks EXCEPT ![r].undescribed = lists'[Clusters(r)].got]
              ELSE eks
  /\ UNCHANGED <<types, report>>

\* One goroutine per cluster; after wg.Wait every one is described.
DescribeCluster(r) ==
  /\ Alive /\ lists[Clusters(r)].stage = "describing"
  /\ \E c \in eks[r].undescribed \cap up[Clusters(r)] :
       eks' = [eks EXCEPT ![r].undescribed = @ \ {c}]
  /\ UNCHANGED <<types, report, pc, up, lists>>

Described(r) ==
  /\ Alive /\ lists[Clusters(r)].stage = "describing"
  /\ eks[r].undescribed = {}
  /\ lists' = [lists EXCEPT ![Clusters(r)].stage = "publishing"]
  /\ UNCHANGED <<pc, up, eksVars>>

\* A call that fails, at the latest when the cluster is gone, is logged, and
\* then the Cluster field of its nil response is read.
NilCluster(r) == Alive /\ eks[r].undescribed # {}

\* listNodeGroups reads one page, and its error is dropped.
ListNodeGroups(r) ==
  /\ Alive /\ lists[Clusters(r)].stage = "publishing"
  /\ eks[r].cluster = None
  /\ \E c \in lists[Clusters(r)].got, groups \in SUBSET UNION {GroupsOf[x] : x \in DOMAIN GroupsOf} :
       /\ groups \subseteq GroupsOf[c]
       /\ eks' = [eks EXCEPT ![r].cluster = c, ![r].groups = groups,
                         ![r].full = groups = GroupsOf[c]]
  /\ UNCHANGED <<types, report, pc, up, lists>>

\* The children variable is declared in the body of the loop: the instances
\* of the cluster before are gone.
\* Mutant of ClusterDone: it is declared outside of it.
ClusterDoneKept(e) == [e EXCEPT !.cluster = None]
ClusterDone(e) == [e EXCEPT !.cluster = None, !.found = {}]

\* getInstanceIDsFromEKSAsg.  Asked for no groups, the API answers for all.
InstancesOf(asgs) ==
  UNION {Members[a] : a \in IF asgs = {} THEN DOMAIN Members ELSE asgs}

\* getInstanceIDsFromNodeGroup: a group that cannot be described drops the
\* instances of all groups, one whose instances cannot be listed only its own.
DescribeNodegroup(r) ==
  /\ Alive /\ eks[r].cluster # None
  /\ \E g \in eks[r].groups :
       \/ eks' = [eks EXCEPT ![r].groups = @ \ {g}, ![r].found = @ \cup InstancesOf(ScalingGroups[g])]
       \/ eks' = [eks EXCEPT ![r].groups = @ \ {g}, ![r].full = FALSE]
       \/ eks' = [eks EXCEPT ![r].groups = {}, ![r].found = {}, ![r].full = FALSE]
  /\ UNCHANGED <<types, report, pc, up, lists>>

\* Each instance overwrites the children, so the last one is kept.
Children(found) == IF found = {} THEN {{}} ELSE {{i} : i \in found}

PublishCluster(r) ==
  /\ Alive /\ eks[r].cluster # None /\ eks[r].groups = {}
  /\ \E children \in Children(eks[r].found) :
       report' = [report EXCEPT ![r] = [cluster |-> eks[r].cluster, children |-> children, full |-> eks[r].full]]
  /\ lists' = [lists EXCEPT ![Clusters(r)].got = @ \ {eks[r].cluster}]
  /\ eks' = [eks EXCEPT ![r] = ClusterDone(@)]
  /\ UNCHANGED <<types, pc, up>>

CollectEKS(r) ==
  \/ ListClusters(r) \/ DescribeCluster(r) \/ Described(r)
  \/ ListNodeGroups(r) \/ DescribeNodegroup(r) \/ PublishCluster(r)

AwsStep(t) ==
  \/ ListFails(t) \/ CollectEnds(t)
  \/ t[2] \in Plain /\ (DescribePage(t[1], t[2]) \/ PublishAsset(t[1], t[2]))
  \/ t[2] = "k8s.cluster" /\ CollectEKS(t[1])

AwsNext ==
  \/ CollectAws
  \/ \E t \in AwsTasks : AwsStep(t)

-----------------------------------------------------------------------------

\* The child published with a cluster is an instance of its own node groups,
\* and there is one whenever they have instances and every call was answered;
\* only a node group that has no autoscaling group yet brings in a stranger.
\* (The instances of another cluster would come from the loop's variables.)
ClusterChild ==
  \A r \in Regions :
    LET groups == GroupsOf[report[r].cluster]
        own == UNION {InstancesOf(ScalingGroups[g]) : g \in groups}
    IN  report[r] # None =>
          /\ report[r].children \subseteq own
          /\ report[r].full /\ own # {} => report[r].children # {}
=============================================================================
