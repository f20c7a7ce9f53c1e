----------------------------- MODULE MCOutlets -----------------------------
(***************************************************************************)
(* Two calls (one can leave early while the other waits for the mutex) and *)
(* two goroutines that close the sub-outlet.                               *)
(***************************************************************************)
EXTENDS Outlets

CONSTANTS e1, e2, c1, c2

MCEvents == {e1, e2}
MCClosers == {c1, c2}
=============================================================================
