--------------------------- MODULE MCEventCounter ---------------------------
(***************************************************************************)
(* Two clients, three events (two on the first client, so that PublishAll  *)
(* adds two at once) and two goroutines in Wait.                           *)
(***************************************************************************)
EXTENDS EventCounter, TLC

CONSTANTS c1, c2, e1, e2, e3

MCClients == {c1, c2}
MCEvents == {e1, e2, e3}
MCClientOf == (e1 :> c1) @@ (e2 :> c1) @@ (e3 :> c2)
=============================================================================
