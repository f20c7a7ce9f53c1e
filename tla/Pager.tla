-------------------------------- MODULE Pager -------------------------------
(***************************************************************************)
(* The steps the AWS and Azure collections have in common: a paginator     *)
(* reads an API page by page while assets come and go, and what was read   *)
(* is published one by one.  Pages are parts of the assets that may exist: *)
(* an asset on a page that was read is in the result if it existed then.   *)
(***************************************************************************)
CONSTANTS
  Tasks,      \* the collections of all inputs
  Assets,     \* for each task, the assets that may exist, with VMs of scale sets for those
  Changing,   \* those that come and go
  Inputs,     \* the inputs: each has a goroutine in its Run
  None

ASSUME AssetsAssumption ==
  Assets \in [Tasks -> SUBSET UNION {Assets[t] : t \in Tasks}]

VARIABLES
  pc,         \* per input: "off", "begin", "loop", "collecting", "returned", or "panicked"
  up,         \* for each task, the assets that exist
  lists       \* for each task [stage, ahead, got, lasting]: what is not yet read,
              \* what was read and is not yet published, and, for the properties,
              \* what has existed since the listing began

NoList == [stage |-> "idle", ahead |-> {}, got |-> {}, lasting |-> {}]
AllIdle == [t \in Tasks |-> NoList]

Alive == \A i \in Inputs : pc[i] # "panicked"
Idle(T) == \A t \in T : lists[t].stage = "idle"

\* The top of Run's loop, where the context may be done or the ticker has ticked.
AtSelect(i) == Alive /\ pc[i] \in {"begin", "loop"}

Return(i) ==
  /\ AtSelect(i)
  /\ pc' = [pc EXCEPT ![i] = "returned"]
  /\ UNCHANGED <<up, lists>>

NewList(t, ahead) ==
  [stage |-> "listing", ahead |-> ahead, got |-> {}, lasting |-> up[t]]

\* Mutant of NextPage: only one page is read.
FirstPage(t, present, after) ==
  /\ Alive /\ lists[t].stage = "listing"
  /\ \E page \in SUBSET lists[t].ahead :
       lists' = [lists EXCEPT ![t] =
                   [@ EXCEPT !.ahead = {}, !.got = page \cap present, !.stage = after]]
  /\ UNCHANGED <<pc, up>>

\* The list after a page.
Paged(l, page, present, after) ==
  [l EXCEPT !.ahead = @ \ page, !.got = @ \cup (page \cap present),
            !.stage = IF page = l.ahead THEN after ELSE @]

\* A page that holds the part of present it passes.  After the last one the
\* collection goes on with the stage after.
NextPage(t, present, after) ==
  /\ Alive /\ lists[t].stage = "listing"
  /\ \E page \in SUBSET lists[t].ahead :
       lists' = [lists EXCEPT ![t] = Paged(@, page, present, after)]
  /\ UNCHANGED <<pc, up>>

\* The collection returns an error or is done: either way nothing of it is left.
Drop(t) == lists' = [lists EXCEPT ![t] = NoList]

Publish(t) ==
  /\ Alive /\ lists[t].stage = "publishing"
  /\ \E a \in lists[t].got : lists' = [lists EXCEPT ![t].got = @ \ {a}]
  /\ UNCHANGED <<pc, up>>

\* An asset is created or deleted.
Change(t, a) ==
  /\ Alive
  /\ up' = [up EXCEPT ![t] = IF a \in @ THEN @ \ {a} ELSE @ \cup {a}]
  /\ lists' = [lists EXCEPT ![t].lasting = @ \ {a}]
  /\ UNCHANGED pc
=============================================================================
