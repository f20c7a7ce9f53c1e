----------------------------- MODULE Collection -----------------------------
(***************************************************************************)
(* What the collections of a cloud input promise together: a task lists,   *)
(* publishing nothing, and either gives up, having published nothing, or   *)
(* publishes each asset it found once.  It finds every asset that lasted,  *)
(* that is, existed from the beginning of the listing to its end.          *)
(***************************************************************************)
CONSTANTS
  Tasks,    \* the collections: one type of assets of one region or subscription each
  Assets    \* for each task, the assets it is configured to report

VARIABLES
  stage,    \* "idle", "listing" or "publishing"
  lasting,  \* the assets that have lasted, while listing
  todo      \* the assets left to publish

vars == <<stage, lasting, todo>>

Nothing == [t \in Tasks |-> {}]

Init ==
  /\ stage = [t \in Tasks |-> "idle"]
  /\ lasting = Nothing /\ todo = Nothing

\* Collections may begin together.
Begin ==
  /\ stage' \in [Tasks -> {"idle", "listing", "publishing"}]
  /\ lasting' \in [Tasks -> SUBSET UNION {Assets[t] : t \in Tasks}]
  /\ \A t \in Tasks :
       \/ stage'[t] = stage[t] /\ lasting'[t] = lasting[t]
       \/ stage[t] = "idle" /\ stage'[t] = "listing" /\ lasting'[t] \subseteq Assets[t]
  /\ UNCHANGED todo

Deleted(t) ==
  /\ stage[t] = "listing"
  /\ \E S \in SUBSET lasting[t] : lasting' = [lasting EXCEPT ![t] = S]
  /\ UNCHANGED <<stage, todo>>

GiveUp(t) ==
  /\ stage[t] = "listing"
  /\ stage' = [stage EXCEPT ![t] = "idle"]
  /\ lasting' = [lasting EXCEPT ![t] = {}]
  /\ UNCHANGED todo

Found(t) ==
  /\ stage[t] = "listing"
  /\ stage' = [stage EXCEPT ![t] = "publishing"]
  /\ \E S \in SUBSET Assets[t] :
       /\ lasting[t] \subseteq S
       /\ todo' = [todo EXCEPT ![t] = S]
  /\ lasting' = [lasting EXCEPT ![t] = {}]

Publish(t) ==
  /\ stage[t] = "publishing"
  /\ \E a \in todo[t] : todo' = [todo EXCEPT ![t] = @ \ {a}]
  /\ UNCHANGED <<stage, lasting>>

End(t) ==
  /\ stage[t] = "publishing" /\ todo[t] = {}
  /\ stage' = [stage EXCEPT ![t] = "idle"]
  /\ UNCHANGED <<lasting, todo>>

\* The process ends.
Crash ==
  /\ stage' = [t \in Tasks |-> "idle"]
  /\ lasting' = Nothing /\ todo' = Nothing

Advance(t) == GiveUp(t) \/ Found(t) \/ Publish(t) \/ End(t)

Next == Begin \/ Crash \/ \E t \in Tasks : Deleted(t) \/ Advance(t)

\* A collection that has begun ends.
Fairness == \A t \in Tasks : WF_vars(Advance(t))

Spec == Init /\ [][Next]_vars /\ Fairness
=============================================================================
