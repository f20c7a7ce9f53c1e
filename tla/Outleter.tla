------------------------------ MODULE Outleter ------------------------------
(***************************************************************************)
(* What channel/interface.go promises of an Outleter, as its callers use   *)
(* it: OnEvent answers true or false, Close may come at any time and from  *)
(* any goroutine.  A true answer goes only to a call that entered while    *)
(* the outlet was open; a false answer only when the outlet, or the one it *)
(* sends to, is closed; and every call that entered is answered.           *)
(* Outlet and SubOutlet implement this in two ways.                        *)
(***************************************************************************)
CONSTANT Events   \* one call of OnEvent each

VARIABLES
  closed,     \* the outlet is closed
  upstream,   \* what it sends to is open
  call        \* per event: "none", "entered", "true", "false"

vars == <<closed, upstream, call>>

Init ==
  /\ closed = FALSE
  /\ upstream = TRUE
  /\ call = [e \in Events |-> "none"]

Close ==
  /\ closed' = TRUE
  /\ UNCHANGED <<upstream, call>>

CloseUpstream ==
  /\ upstream' = FALSE
  /\ UNCHANGED <<closed, call>>

Enter(e) ==
  /\ ~closed
  /\ call[e] = "none"
  /\ call' = [call EXCEPT ![e] = "entered"]
  /\ UNCHANGED <<closed, upstream>>

Accept(e) ==
  /\ call[e] = "entered"
  /\ call' = [call EXCEPT ![e] = "true"]
  /\ UNCHANGED <<closed, upstream>>

Refuse(e) ==
  /\ call[e] \in {"none", "entered"}
  /\ closed \/ ~upstream
  /\ call' = [call EXCEPT ![e] = "false"]
  /\ UNCHANGED <<closed, upstream>>

Next ==
  \/ Close \/ CloseUpstream
  \/ \E e \in Events : Enter(e) \/ Accept(e) \/ Refuse(e)

Fairness ==
  \A e \in Events : WF_vars(call[e] = "entered" /\ (Accept(e) \/ Refuse(e)))

Spec == Init /\ [][Next]_vars /\ Fairness

=============================================================================
