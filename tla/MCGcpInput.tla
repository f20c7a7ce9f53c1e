----------------------------- MODULE MCGcpInput -----------------------------
(***************************************************************************)
(* Each cache together with its reader: the VPC with the cluster; the      *)
(* subnet with two instances; two instances of the cluster, one of which   *)
(* may expire while the other is read; one of it and one beside it, with   *)
(* a cluster in a single zone.  The caches have room for two entries, and  *)
(* each of them is also tried with three.                                  *)
(***************************************************************************)
EXTENDS GcpInput, TLC

CONSTANTS i1, i2, i3

MCInstances == {i1, i2, i3}
MCMembers == {i1, i2}
MCLeaving == {i1}
MCCapacity == 2

Networked(vpcs, subnets) == ("vpc" :> vpcs) @@ ("subnet" :> subnets)

MCConfigurations ==
  [types : {{"vpc", "cluster"}}, zonal : {FALSE}, instances : {{i1}},
   networks : {Networked(n, 1) : n \in {2, 3}}]
  \cup [types : {{"subnet", "compute"}}, zonal : {FALSE}, instances : {{i1, i2}},
        networks : {Networked(1, n) : n \in {2, 3}}]
  \cup [types : {{"compute", "cluster"}}, zonal : {FALSE}, instances : {{i1, i2}, {i1, i2, i3}},
        networks : {Networked(1, 1)}]
  \cup [types : {{"compute", "cluster"}}, zonal : {TRUE}, instances : {{i1, i3}},
        networks : {Networked(1, 1)}]
=============================================================================
