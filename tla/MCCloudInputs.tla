--------------------------- MODULE MCCloudInputs ----------------------------
(***************************************************************************)
(* AWS: two subnets or a VPC and two clusters, one region; the node group  *)
(* of the first cluster has two instances, the second cluster has a group  *)
(* without instances or, in the last place, one without an autoscaling     *)
(* group.  Azure: one subscription with VMs in two regions and a scale     *)
(* set, and an empty one.  One asset of each task comes and goes.          *)
(***************************************************************************)
EXTENDS CloudInputs

MCInputs == {"aws", "azure", "hostdata"}
MCRegions == {"r1"}
MCSubscriptions == {"s1", "s2", "s3"}
MCVisible == {"s2", "s3"}

MCAssets ==
  [t \in (MCRegions \X {"aws.ec2.instance", "aws.vpc", "aws.subnet", "k8s.cluster"})
         \cup (MCSubscriptions \X {"vm", "scaleset"}) |->
     CASE t[2] = "aws.ec2.instance" -> {"i1", "i2"}
       [] t[2] = "aws.vpc" -> {"v1"}
       [] t[2] = "aws.subnet" -> {"n1", "n2"}
       [] t[2] = "k8s.cluster" -> {"c1", "c2"}
       [] t = <<"s1", "vm">> -> {"m1", "m2"}
       [] t = <<"s1", "scaleset">> -> {"w1", "w2"}
       [] OTHER -> {}]

MCTasks == DOMAIN MCAssets
MCChanging == {"i1", "v1", "n1", "c1", "m1", "w1"}
MCGroupsOf == [c \in {"c1", "c2"} |-> IF c = "c1" THEN {"g1", "g2"} ELSE {"g3"}]
MCScalingGroups == [g \in {"g1", "g2", "g3"} |-> CASE g = "g1" -> {"asg1"} [] g = "g2" -> {} [] g = "g3" -> {"asg3"}]
MCMembers == [a \in {"asg1", "asg3", "other"} |-> CASE a = "asg1" -> {"i1", "i2"} [] a = "asg3" -> {} [] a = "other" -> {"x"}]
MCScaleSets == [s \in MCSubscriptions |-> IF s = "s1" THEN [x \in {"set1"} |-> {"w1", "w2"}] ELSE << >>]
MCRegionOf == [v \in {"m1", "m2"} |-> IF v = "m1" THEN "east" ELSE "west"]
MCAddresses == {"a1", "a2"}

\* The settings of inputs that are not configured are left at their defaults.
Plainly == [inputs |-> {}, types |-> {}, regions |-> {}, subscription |-> None, hostId |-> None, cloudId |-> None]
MCConfigurations ==
  {[Plainly EXCEPT !.inputs = {"aws"}, !.types = T] :
     T \in {{"k8s.cluster"}, {"aws.subnet", "aws.vpc"}, {"aws.ec2.instance"}}}
  \cup {[Plainly EXCEPT !.inputs = {"azure"}, !.subscription = "s1", !.regions = R] : R \in {{}, {"east"}}}
  \cup {[Plainly EXCEPT !.inputs = {"azure"}]}
  \cup {[Plainly EXCEPT !.inputs = {"hostdata"}, !.hostId = h, !.cloudId = c] :
          h \in {None, "machine"}, c \in {None, "cloud"}}
=============================================================================
