----------------------------- MODULE AzureInput -----------------------------
(***************************************************************************)
(* input/azure: at each tick, Run's goroutine finds the subscriptions and  *)
(* starts two goroutines for each, one for the virtual machines and one    *)
(* for those of scale sets.  Nobody waits for them, and the two assign     *)
(* their results to the same variable err before they look at it.          *)
(***************************************************************************)
EXTENDS Pager

CONSTANTS
  Subscriptions,
  Visible,     \* the subscriptions the credential can list
  ScaleSets,   \* for each subscription, the VMs that each of its scale sets may have
  RegionOf     \* for each VM that is in no scale set, its location

Kinds == {"vm", "scaleset"}
AzureTasks == Subscriptions \X Kinds
Vms(s) == <<s, "vm">>
SetVms(s) == <<s, "scaleset">>

ASSUME AzureTasksAssumption == AzureTasks \subseteq Tasks /\ "azure" \in Inputs
ASSUME VisibleAssumption == Visible \subseteq Subscriptions

VARIABLES
  regions,   \* cfg.Regions
  subscriptionId,   \* cfg.SubscriptionID, or None
  cred,      \* whether the credentials could be created
  pending,   \* the subscriptions the loop has not reached
  setVms,    \* per subscription, [page, got]: the VMs of a scale set's page, and those viewed
  err,       \* per subscription, the shared err: "nil" or "error"
  unchecked, \* the tasks that have assigned their result and not yet looked at err
  failed,    \* for the properties, the tasks that failed in this round
  logged     \* those whose goroutine logged an error

logVars == <<err, unchecked, failed, logged>>
azureVars == <<regions, subscriptionId, cred, pending, setVms, logVars>>

NoVms == [page |-> {}, got |-> {}]

AzureInit ==
  /\ cred = TRUE /\ pending = {}
  /\ setVms = [s \in Subscriptions |-> NoVms]
  /\ err = [s \in Subscriptions |-> "nil"]
  /\ unchecked = {} /\ failed = {} /\ logged = {}

(***************************************************************************)
(* collectAzureAssets.                                                     *)
(***************************************************************************)
\* getAzureCredentials and getAzureSubscriptions: both errors are only logged;
\* a page of subscriptions that cannot be read leaves none of them, and with
\* the nil credential none can be.  A subscription that is configured is taken
\* as it is.
\* Bound: the goroutines of one round have ended before the next one.
CollectAzure ==
  /\ AtSelect("azure") /\ Idle(AzureTasks) /\ unchecked = {}
  /\ pc' = [pc EXCEPT !["azure"] = "collecting"]
  /\ cred' \in BOOLEAN
  /\ \/ subscriptionId # None /\ pending' = {subscriptionId}
     \/ subscriptionId = None /\ pending' = {}
     \/ subscriptionId = None /\ cred' /\ pending' = Visible
  /\ failed' = {} /\ logged' = {}
  /\ err' = [s \in Subscriptions |-> "nil"]
  /\ UNCHANGED <<up, lists, regions, subscriptionId, setVms, unchecked>>

\* The two goroutines of a subscription; their err is new in each iteration.
\* (Virtual machines are enabled: an input without them starts nothing.)
StartSubscription(s) ==
  /\ Alive /\ pc["azure"] = "collecting" /\ s \in pending
  /\ pending' = pending \ {s}
  /\ lists' = [lists EXCEPT ![Vms(s)] = NewList(Vms(s), Assets[Vms(s)]),
                            ![SetVms(s)] = NewList(SetVms(s), DOMAIN ScaleSets[s])]
  /\ UNCHANGED <<pc, up, regions, subscriptionId, cred, setVms, logVars>>

\* No client factory: the function returns, whatever is left of the loop.
NoClientFactory ==
  /\ Alive /\ pc["azure"] = "collecting" /\ pending # {}
  /\ pending' = {}
  /\ UNCHANGED <<pc, up, lists, regions, subscriptionId, cred, setVms, logVars>>

CollectDone ==
  /\ Alive /\ pc["azure"] = "collecting" /\ pending = {}
  /\ pc' = [pc EXCEPT !["azure"] = "loop"]
  /\ UNCHANGED <<up, lists, azureVars>>

\* A call with the nil credential, in a collection; and in Run's goroutine,
\* before getAzureSubscriptions has failed with it.
NilCredential(t) == Alive /\ ~cred /\ lists[t].stage = "listing"
NilSubscriptions == Alive /\ pc["azure"] = "collecting" /\ ~cred /\ subscriptionId = None

(***************************************************************************)
(* getAllAzureVMInstances.                                                 *)
(***************************************************************************)
wantRegion(v) == regions = {} \/ RegionOf[v] \in regions

ListVms(s) ==
  /\ cred
  /\ NextPage(Vms(s), {v \in up[Vms(s)] : wantRegion(v)}, "publishing")
  /\ UNCHANGED azureVars

(***************************************************************************)
(* getAllAzureScaleSetsVMInstances: all scale sets, then the first page of *)
(* the VMs of each and the instance view of each VM.  Bound: the scale     *)
(* sets stay; the call about one that is gone fails, as any call may.      *)
(***************************************************************************)
ListScaleSets(s) ==
  /\ cred
  /\ NextPage(SetVms(s), DOMAIN ScaleSets[s], "reading")
  /\ UNCHANGED azureVars

ReadScaleSet(s) ==
  /\ Alive /\ lists[SetVms(s)].stage = "reading" /\ setVms[s].page = {}
  /\ \E x \in lists[SetVms(s)].got, page \in SUBSET up[SetVms(s)] :
       /\ page \subseteq ScaleSets[s][x]
       /\ setVms' = [setVms EXCEPT ![s].page = page]
       /\ lists' = [lists EXCEPT ![SetVms(s)].got = @ \ {x}]
  /\ UNCHANGED <<pc, up, regions, subscriptionId, cred, pending, logVars>>

GetInstanceView(s) ==
  /\ Alive /\ lists[SetVms(s)].stage = "reading"
  /\ \E v \in setVms[s].page \cap up[SetVms(s)] :
       setVms' = [setVms EXCEPT ![s] = [page |-> @.page \ {v}, got |-> @.got \cup {v}]]
  /\ UNCHANGED <<pc, up, lists, regions, subscriptionId, cred, pending, logVars>>

AllRead(s) ==
  /\ Alive /\ lists[SetVms(s)].stage = "reading"
  /\ lists[SetVms(s)].got = {} /\ setVms[s].page = {}
  /\ lists' = [lists EXCEPT ![SetVms(s)].stage = "publishing", ![SetVms(s)].got = setVms[s].got]
  /\ setVms' = [setVms EXCEPT ![s] = NoVms]
  /\ UNCHANGED <<pc, up, regions, subscriptionId, cred, pending, logVars>>

(***************************************************************************)
(* The goroutines of collectAzureAssets.                                   *)
(***************************************************************************)
PublishVm(t) == Publish(t) /\ UNCHANGED azureVars

\* collectAzureVMAssets or collectAzureScaleSetsVMAssets returns to err.
\* Mutant of Assign: there is one err for all subscriptions.
AssignHoisted(t, e) == err' = [s \in Subscriptions |-> e]
Assign(t, e) == err' = [err EXCEPT ![t[1]] = e]

\* Any call fails, and so does the one about a VM that is gone.
CollectFails(t) ==
  /\ Alive /\ lists[t].stage \in {"listing", "reading"}
  /\ Drop(t)
  /\ setVms' = IF t[2] = "scaleset" THEN [setVms EXCEPT ![t[1]] = NoVms] ELSE setVms
  /\ failed' = failed \cup {t}
  /\ Assign(t, "error")
  /\ unchecked' = unchecked \cup {t}
  /\ UNCHANGED <<pc, up, regions, subscriptionId, cred, pending, logged>>

Collected(t) ==
  /\ Alive /\ lists[t].stage = "publishing" /\ lists[t].got = {}
  /\ Drop(t)
  /\ Assign(t, "nil")
  /\ unchecked' = unchecked \cup {t}
  /\ UNCHANGED <<pc, up, regions, subscriptionId, cred, pending, setVms, failed, logged>>

\* Which error a line carries is left out: err is read again for it.
CheckErr(t) ==
  /\ Alive /\ t \in unchecked
  /\ unchecked' = unchecked \ {t}
  /\ logged' = IF err[t[1]] = "nil" THEN logged ELSE logged \cup {t}
  /\ UNCHANGED <<pc, up, lists, regions, subscriptionId, cred, pending, setVms, err, failed>>

AzureStep(t) ==
  \/ t[2] = "vm" /\ ListVms(t[1])
  \/ t[2] = "scaleset" /\ (\/ ListScaleSets(t[1]) \/ ReadScaleSet(t[1])
                           \/ GetInstanceView(t[1]) \/ AllRead(t[1]))
  \/ PublishVm(t) \/ CollectFails(t) \/ Collected(t)
  \/ CheckErr(t)

AzureLoop == (\E s \in Subscriptions : StartSubscription(s)) \/ NoClientFactory \/ CollectDone

AzureNext ==
  \/ CollectAzure \/ AzureLoop
  \/ \E t \in AzureTasks : AzureStep(t)

-----------------------------------------------------------------------------

\* The goroutines of a subscription share err, so the failure of one of them
\* may be logged by the other, by both or not at all.  Between subscriptions
\* nothing is mixed up: a line is logged only where a collection failed, and
\* when both collections of a subscription have failed, each logs a line.
LogIsOfSubscription ==
  \A s \in Subscriptions :
    LET both == {s} \X Kinds
    IN  /\ both \cap logged # {} => both \cap failed # {}
        /\ both \subseteq failed \ unchecked => both \subseteq logged
=============================================================================
