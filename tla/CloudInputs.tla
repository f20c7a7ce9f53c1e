---------------------------- MODULE CloudInputs -----------------------------
(***************************************************************************)
(* The AWS, Azure and hostdata inputs in one process: a panic in a         *)
(* goroutine of one ends them all.                                         *)
(***************************************************************************)
EXTENDS AwsInput, AzureInput, HostInput

\* The configurations: [inputs, types, regions, subscription, hostId,
\* cloudId], the inputs that are configured, their settings, and what sysinfo
\* and the cloud say.
CONSTANT Configurations

ASSUME SubscriptionAssumption ==
  \A c \in Configurations : c.subscription \in Subscriptions \cup {None}

vars == <<pc, up, lists, eksVars, azureVars, hostVars>>

Init ==
  /\ \E c \in Configurations :
       /\ pc = [i \in Inputs |-> IF i \in c.inputs THEN "begin" ELSE "off"]
       /\ types = c.types /\ regions = c.regions /\ subscriptionId = c.subscription
       /\ hostInfo = [id |-> c.hostId, ip |-> {}] /\ cloudId = c.cloudId
  /\ up = Assets
  /\ lists = AllIdle
  /\ AwsInit /\ AzureInit /\ HostInit

\* The process ends, and its memory with it.
Panic ==
  /\ \/ \E r \in Regions : NilCluster(r)
     \/ NilSubscriptions \/ \E t \in AzureTasks : NilCredential(t)
  /\ pc' = [i \in Inputs |-> "panicked"]
  /\ lists' = AllIdle
  /\ eks' = [r \in Regions |-> NoEks]
  /\ report' = [r \in Regions |-> None]
  /\ pending' = {} /\ cred' = TRUE
  /\ setVms' = [s \in Subscriptions |-> NoVms]
  /\ err' = [s \in Subscriptions |-> "nil"]
  /\ unchecked' = {} /\ failed' = {} /\ logged' = {}
  /\ hostReport' = None
  /\ UNCHANGED <<up, types, regions, subscriptionId, hostInfo, cloudId, addresses>>

\* Bound: only the assets that some collection looks for come and go.
Observed == {t \in AwsTasks : pc["aws"] # "off" /\ Enabled(t[2])}
            \cup {t \in AzureTasks : pc["azure"] # "off"}

Next ==
  \/ AwsNext /\ UNCHANGED <<azureVars, hostVars>>
  \/ AzureNext /\ UNCHANGED <<eksVars, hostVars>>
  \/ HostNext /\ UNCHANGED <<eksVars, azureVars>>
  \/ /\ \/ \E i \in Inputs : Return(i)
        \/ \E t \in Observed : \E a \in Assets[t] \cap Changing : Change(t, a)
     /\ UNCHANGED <<eksVars, azureVars, hostVars>>
  \/ Panic

\* Goroutines run, and API calls return, with or without an error: the one
\* about a cluster that is gone ends the process.
Fairness ==
  /\ \A t \in AwsTasks : WF_vars(AwsStep(t) /\ UNCHANGED <<azureVars, hostVars>>)
  /\ \A t \in AzureTasks : WF_vars(AzureStep(t) /\ UNCHANGED <<eksVars, hostVars>>)
  /\ WF_vars(Panic)
  /\ WF_vars(AzureLoop /\ UNCHANGED <<eksVars, hostVars>>)

Spec == Init /\ [][Next]_vars /\ Fairness

-----------------------------------------------------------------------------

Working == {"listing", "describing", "reading"}

\* Of a scale set's VMs only a first page is read: nothing is promised of
\* those that last.  VMs out of the configured regions are nobody's assets.
Promised(t) ==
  CASE t \in AwsTasks -> Assets[t]
    [] t \in AzureTasks /\ t[2] = "vm" -> {v \in Assets[t] : wantRegion(v)}
    [] OTHER -> {}

\* What the lists are to Collection.
AbsStage(l) == IF l.stage \in Working THEN "listing" ELSE l.stage
AbsLasting(t, l) == IF l.stage \in Working THEN l.lasting \cap Promised(t) ELSE {}
AbsTodo(l) == IF l.stage = "publishing" THEN l.got ELSE {}

stage == [t \in Tasks |-> AbsStage(lists[t])]
lasting == [t \in Tasks |-> AbsLasting(t, lists[t])]
todo == [t \in Tasks |-> AbsTodo(lists[t])]

Collecting == INSTANCE Collection WITH stage <- stage, lasting <- lasting, todo <- todo

\* Whatever page or call fails and however the assets change meanwhile, a
\* collection publishes nothing or all that lasted, each once, and it ends.
ImplementsCollection == Collecting!Spec
=============================================================================
