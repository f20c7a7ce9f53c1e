----------------------------- MODULE MCK8sInput -----------------------------
(***************************************************************************)
(* One pod on a node that may be replaced by one of the same name, beside  *)
(* a node that stays; asset types with both watchers, with one, with none; *)
(* and, from inside a cluster, its nodes, which it may lose all: of one of *)
(* Google's and of another.                                                *)
(***************************************************************************)
EXTENDS K8sInput, TLC

CONSTANTS a1, a2, b1, p1

MCNodes == {a1, a2, b1}
MCNameOf == (a1 :> "a") @@ (a2 :> "a") @@ (b1 :> "b")
MCPods == {p1}
MCHostOf == (p1 :> a1)
MCConfigurations ==
  [types : {{"node", "pod"}, {"pod", "container"}, {"container"}}, place : {"outside"},
   permanent : {{b1}}, pods : {{p1}}]
  \cup [types : {{"node"}}, place : {"cluster", "gke"}, permanent : {{}, {b1}}, pods : {{}}]
=============================================================================
