# assetbeat in TLA+

TLA+ models of assetbeat (the asset-collecting beat built on libbeat and
filebeat's input framework), TLC configurations that check them on small
instances, and TLAPS proofs of the facts that hold for every instance.  Paths
such as `src/beater/crawler.go` refer to the repository this directory stands
beside.

## 1. The system

assetbeat is one process.  libbeat creates a *beater*, calls its `Run` and,
later, its `Stop`.  `Run` starts *inputs* that periodically list the assets of
a cloud account, a Kubernetes cluster or a host and publish each as an event
into libbeat's pipeline.

| component | state it keeps | operations | interacts with | hard part | what makes it correct |
|---|---|---|---|---|---|
| beater (`beater/assetbeat.go`) | position in `Run`, the `done` channel, two signalWaits, the lists it created | `newBeater`, `Run`, `Stop` | calls everything below; called by libbeat from two goroutines | start order, stop order, five error returns, deferred functions, three signals that race for the end | returns only when asked; answers every `Stop`; no input outlives it; the counter is waited for only after the inputs |
| crawler (`beater/crawler.go`) | map of runners by configuration hash, a WaitGroup, the reloader | `Start`, `startInput`, `Stop`, `WaitForCompletion` | runner factory, reloader, `Run` | parallel stop, failed start, a reloader that is scheduled late, a second waiter in once mode | everything started is stopped; nothing else is cancelled |
| event counter (`beater/channels.go`) | a WaitGroup and three gauges | `Publish`, `PublishAll`, `Close`, the listener's callbacks, `Wait` | every client of the pipeline, waitEvents | any number of clients publish while someone waits | it covers every event in flight and never goes negative; `Wait` returns only at zero |
| signalWait (`beater/signalwait.go`) | a plain counter, a channel with one slot | `Add…`, `Signal`, `Wait` | `Run`; one goroutine per `Add` | goroutines that send in any order into one slot | it is a semaphore: no signal lost, no wait for nothing |
| outlets (`channel/outlet.go`, `util.go`, `connector.go`, `factory.go`) | open flag, worker goroutine, three channels | `OnEvent`, `Close`, `CloseOnSignal`, `Connect` | pipeline clients | `Close` racing `OnEvent` | an answer belongs to the caller's event; nothing is sent on a closed channel |
| common settings (`channel/runner.go`) | an editor per runner | make an editor of an input's settings, edit the configuration of each client | `Run`'s runner factory, pipeline clients | maps that several clients may have been handed | a client has its own input's settings, and what was handed over is unchanged |
| configuration (`config/config.go`, `newBeater`) | the list of inputs | unpack, merge files, list enabled inputs, refuse | `Run`, the crawler | a variable shared by iterations; several files | what is accepted has something to run, and stdin runs alone; the listed types are those of the enabled inputs |
| periodic inputs (`input/*/…Run`) | ticker, cancellation | collect on each tick | publisher | collections run in goroutines nobody waits for | after cancellation nothing new is collected |
| kubernetes input (`input/k8s`) | watchers with stores, a 10 s timer | start and stop watchers, publish nodes, pods, containers | Kubernetes API, Google's metadata server | partial start, two stores that lag behind each other, a store listed twice, the timer is never cancelled | a failed start leaves no watcher; nothing is published from an unfilled store; a lasting pod is reported with its node; silence after cancellation |
| gcp input (`input/gcp`) | three bounded LRU caches with expiry | list VPCs, subnets, instances, clusters | GCP API | goroutines nobody orders share the caches; an entry expires or is thrown out between two reads | parents and children are complete when the round before listed them, and what is gone is forgotten |
| aws input (`input/aws`) | none | list instances, VPCs, subnets, clusters; describe clusters and their node groups | AWS API | errors in the middle of a list, variables of loops, a nil response | nothing or all that lasted is published; the child of a cluster is its own |
| azure input (`input/azure`) | none | list subscriptions, VMs, scale sets and their VMs | Azure API | pages, an `err` two goroutines share, a nil credential | every page of VMs is read; the log is about the right subscription |
| hostdata input (`input/hostdata`) | what was read of the host at the start | report | network interfaces, cloud metadata | the document is shared by all reports | no report has the addresses of an earlier one |
| publishing helpers, command, plugin list, build | none | | | none | |

### How the parts meet

`Run` starts the crawler's inputs, then autodiscover, then the manager (Elastic
Agent), and blocks in *waitFinished* until `Stop` closes the `done` channel or,
in once mode, the crawler's completion is reported.  Then it stops the
manager's list, autodiscover and the crawler, hands `wgEvents.Wait` and a limit
(the timer of `shutdown_timeout`, or the `done` channel) to *waitEvents*, stops
the manager and waits for waitEvents in a deferred call.  Every client that any
input opens is a countingClient, so that all publishing goes through the one
event counter.  Goroutines: `Run`, the signal handler in `Stop`, one per `Add`
of a signalWait, one per runner, one per stopper, one per collection, the
reloader's, and the pipeline's.

## 2. The modules

| module | models | state |
|---|---|---|
| `AliveSignals` | what a signalWait promises: a counting semaphore | functions alive, returns not consumed, the waiter |
| `SignalWait` | `beater/signalwait.go` | `count`, elements in the channel, a phase per goroutine, the owner |
| `WaitGroup` | `sync.WaitGroup` (external), with its two panics | counter, a phase per waiter, the panic |
| `EventCounter` | `beater/channels.go`; owns a `WaitGroup` | a phase per client and per event |
| `Crawler` | `beater/crawler.go`; owns a `WaitGroup` | the loop of `Start`, the map, phases of runners, stoppers, reloader |
| `Beater` | what libbeat expects of `Run` and `Stop` | phase of `Run`, whether `Stop` was called |
| `Assetbeat` | `beater/assetbeat.go`, composed of `Crawler`, `EventCounter` and two instances of `SignalWait` | position in `Run`, `done`, lists, manager, autodiscover, collections |
| `Outleter` | what `channel.Outleter` promises: true means handed over, false means closed | a state per call, open or closed |
| `Outlet` | `channel/outlet.go` and `CloseOnSignal` | the flag, the `done` channel, the client, a phase per call and per closer |
| `SubOutlet` | `channel/util.go`: `SubOutlet`, its worker, `OnEvent`, `Close` | three channels, a phase per call, worker and closer |
| `Outlets` | a `SubOutlet` whose worker calls an `Outlet` | that of both |
| `K8sInput` | `input/k8s`: `Run`, the watchers, the three collections | position in `Run`, watchers, timer, a phase per goroutine of a collection, the cluster, the two stores |
| `GcpInput` | `input/gcp`: `Run`, the four collections, the three caches | a phase per collection, the caches as the life left to each entry and the room it takes, what the last round listed |
| `Collection` | what the collections of a cloud input promise: nothing, or all that lasted, each once | a stage per collection, what lasted, what is left to publish |
| `Pager` | the steps AWS and Azure collections share: pages read one by one while assets come and go | position of each input's `Run`; per collection what is unread and what was read; the assets |
| `AwsInput` | `input/aws`; extends `Pager` | the variables of `collectEKSAssets`, the last cluster event |
| `AzureInput` | `input/azure`; extends `Pager` | subscriptions not yet reached, a scale set's page, the shared `err`, what was logged |
| `HostInput` | `input/hostdata`; extends `Pager` | the host's information, its addresses, the last report |
| `CloudInputs` | the three in one process, with the panics that end it; maps them to `Collection` | that of all |
| `Config` | `config/config.go` and `newBeater` | the configuration, the variable of `ListEnabledInputs`, the list it makes |
| `CommonSettings` | `channel/runner.go` | an editor per runner, the maps of each client |
| `Setup` | `Config`, then a runner for each enabled input, then their clients | that of both |
| `SignalWaitProofs`, `EventCounterProofs`, `CrawlerProofs`, `K8sInputProofs`, `GcpInputProofs`, `CloudInputsProofs` | theorems about the module in their name | |
| `ChannelProofs` | theorems about `Setup` and `Outlets` | |
| `AssetbeatProofs` | theorems about `Assetbeat`, from those of its components | |
| `MC…` | constants of the TLC runs | |

**From code to state.**  A goroutine is a phase variable; a blocking statement
is an action whose guard is the condition it waits for; statements between two
blocking ones that touch nothing another goroutine reads are one action.  In
`Assetbeat`, `pc` names the next statement of `Run`, and each action is one
statement (`InitLoader`, `AbortStart`, `AddOnce`, `StartDiscover`, …, `Return`);
an action of a component that `Run` or one of its goroutines performs is taken
from the component's module, so that the composed system can do nothing the
components cannot.  A Go panic ends the process: a component that has panicked
enables no action.

**What is external.**  Code outside the repository appears only as far as
`beater` depends on it: a runner's `Start` launches a goroutine and its `Stop`
cancels and waits; a pipeline client drops an event when it is closed and
otherwise filters or queues it; a client is closed when its input is cancelled
or ends; `RunnerList.Stop` waits for its runners but does not forbid a later
`Reload`; autodiscover starts nothing after its `Stop`; the reloader leaves its
loop when its channel is closed.  A Kubernetes watcher's `Start` returns when its
store has been filled, and afterwards the store follows the cluster with any
delay.  The caches of the Google Cloud input are bounded LRUs with expiry
(`gcp/util.go:144`, 8192 entries each): a new entry in a full one throws another
out, an expired one takes room until it is read or replaced, and entries written
or read by two goroutines at a time may be lost, missed, or end the process.  The clouds' APIs answer page by page, or fail; an asset
on a page is in the answer if it exists when the page is read, and a call about
one that is gone fails.  `map` in `PROJECT.json` marks these
definitions.

**Mutants.**  Definitions whose comment begins with "Mutant of" are wrong
variants of the definition below them (a forgotten decrement, a missing guard).
No action uses them; they are there to show that each property would notice
such a mistake in the code.

## 3. The runs

| run | question | instance |
|---|---|---|
| `signal_wait` | is signalWait the semaphore it is meant to be? | three functions: one more than channel and waiter can hold, so that a send blocks |
| `event_counter` | does the counter cover what is in flight, and when does `Wait` return? | two clients, three events (two in one batch), two waiters |
| `crawler` | does `Stop` end what `Start` started? | two inputs, every choice of disabled, broken and equal inputs, reloader and once mode on and off |
| `beater` | in which order does `Run` shut down, what does it leave behind, and is it what libbeat expects (`Beater`), liveness included? | both configured inputs; both with the second broken; the first alone, with two events and a collection that may outlive it; the second alone, with the lists of the agent and of autodiscover or the crawler's reloader; each with the timeout and once mode where they matter |
| `outlets` | can an answer get lost, mixed up or be wrong when both outlets are closed under way? | two calls, two goroutines that close the sub-outlet, an owner and a signal that close the outlet |
| `k8s_input` | does a failed start clean up, and are pods reported with the right node? | a node, its replacement of the same name, a node that stays, one pod; asset types with two, one and no watcher; and from inside a cluster, Google's or another, its nodes, which it may lose all |
| `gcp_input` | is a two-period life of the entries enough for unordered collections? | each cache with its reader: VPC and cluster, subnet and two instances, two instances and a regional or zonal cluster; room for two entries in each cache, of which each is also tried with three |
| `cloud_inputs` | what is published when pages and calls fail and assets change under way? | AWS: two assets of a type and two clusters with three node groups; Azure: VMs in two regions, a scale set, an empty subscription; hostdata: two addresses; one asset of each type comes and goes |
| `setup` | which configurations are accepted, and do inputs share anything they should not? | every main file of up to two inputs and a file of one more, enabled or not, stdin, AWS or without type; two clients |

`CollectsSynced` (Kubernetes) is what makes the ten seconds and the order of
`Run` matter: the timer is armed only after every watcher has been filled.
`RelationsComplete` (Google Cloud) is the reason for the expiry after *two*
periods: with `Life` one less it fails.  It leaves out four cases in which the
code does publish less: a project with more networks or instances than a cache
has room for (`Keeps`; 8192 in the code), an entry among the keys that has
expired when it is read (recorded in the event as `cut`), a cache that two
goroutines have been at at a time (`tainted`, for good), and zonal clusters.
`GoneForgotten` is the other side: what is gone is never removed, it can only
expire or be thrown out.

`ImplementsCollection` (the cloud inputs) is the refinement of `Collection`:
a collection that is paged, described, filtered and dropped at every place
where an error can come from is an all-or-nothing step.  It includes that a
collection ends, with the process if need be.  What each of the three makes of
its own variables is the subject of `ClusterChild`, `LogIsOfSubscription` and
`AddressesCurrent`.

`AttachedNeverPanics` says that with inputs that wait for their collection,
without the agent and without once mode, no interleaving makes a WaitGroup panic.

**Where code and comments disagree.**  Three runs are expected to find a
violation; each checks what the repository's comments say.

| run | sentence | what TLC shows |
|---|---|---|
| `beater_errors` | "Stopping is inverted to the starting order" (`assetbeat.go:172`) | a failing `NewAutodiscover` or `Manager.Start` returns with the inputs running |
| `beater_panic` | "Otherwise wgEvents.Wait or publisher might panic" (`assetbeat.go:238`) | a collection that outlives its input adds to the counter while `Wait` returns, and it does panic |
| `acked_wait` | "Wait for either timeout or all events having been ACKed by outputs" (`assetbeat.go:252`), with a counter that "adds and subtracts [...] when events have been published, dropped or ACKed" (`channels.go:35`, similarly 68) | in once mode without a timeout every event is acknowledged and `Run` waits until it is stopped: nothing subtracts an acknowledged event |

The models contain more behaviour of this kind, for which there is no run: the
same cause as one above, or no sentence of the repository denies it.

* Once mode ends at once and not "until all harvesters reach EOF"
  (`assetbeat.go:46`): `WaitForCompletion` waits for a WaitGroup to which only
  `Stop` adds.
* Inputs the manager delivers during the shutdown may start after the others
  have ended: the manager is stopped last (`assetbeat.go:262`).
* `SubOutlet.OnEvent` answers true for an event that only its worker has, when
  `Close` comes in between (`util.go:83`); the outlet below may then refuse it.
  `TrueThroughBoth` therefore speaks of open sub-outlets.
* With `k8s.container` alone the pod watcher is not created, and no container
  is ever published (`k8s.go:230`).
* A cancelled Kubernetes input leaves its watchers running (`k8s.go:128`).
* A pod may be published with the node object that has taken over the name of
  its node, or with the one that had it before (`nodes.go:102`).
* The children of a cluster are those the cache has, even when it is half full
  in the first round or cut short by an expired entry (`gke.go:226`).
* A zonal cluster gets no children from the cache, since a region is compared
  with its zone (`gke.go:235`), though it gets them from the API when nothing is
  cached, and `input/gcp/README.md:61` promises them.
* A node's parent is published as `cluster:` when the metadata server could not
  be asked (`nodes.go:129-133`), and a store that is emptied between two calls
  of `List` ends the process (`nodes.go:126-127`).
* Something that could not be created or fetched is only logged and then used,
  which ends the process: a Google Cloud client (`gcp.go:127`), the Azure
  credentials (`azure.go:134`), the description of an EKS cluster (`eks.go:149`).
* An EKS cluster keeps one of its instances as child (`eks.go:57`), and a node
  group without autoscaling group gets those of every group of the account
  (`eks.go:124`); `input/aws/README.md` speaks of the EC2 instances.
* Of a scale set's VMs only the first page is read (`vm.go:120`), and the
  configured regions are ignored for them, against `input/azure/README.md:25`.
* The failure of an Azure collection may go unlogged when the other one of its
  subscription assigns the shared `err` in between (`azure.go:150`), and one
  client factory that cannot be made skips the subscriptions that are left
  (`azure.go:146`).
* An input without a type is listed under the type of the one before it
  (`config.go:136`): `NoInventedType` says so, and that no other input is affected.
* Inputs that the reloader or autodiscover start may join an exclusive stdin:
  the rule is checked only for those configured at the start (`assetbeat.go:97`).

**Bounds.**  The beater's systems are finite without a constraint, because
the bounded things happen once: each function is added once, each event is
published once, each input runs at most one collection, each list starts at
most one runner, `Start` and `Stop` of the crawler are called once.  The inputs
run for ever, with these bounds:

* `Overlap` collections of `K8sInput` at a time (1 in the run; a collection is
  short against a period); in the other inputs a round begins when the
  collections of the one before have ended.
* A configuration of `K8sInput` and `GcpInput` is a record of settings together
  with the objects there may be, so that each run has the cases that need
  different ones, and not their product: the nodes that never go
  (`permanent`), the pods, the instances there are in the beginning.
* `GcpInput`: time is counted in ticks (`Life`, 3: two periods begun between two
  ticks), one VPC, one
  subnet and one cluster that are looked at, further networks as a number of
  entries that take room, `Leaving` instances, none created, room for `Capacity`
  (2) entries in each cache.
* `CloudInputs`: `Changing` assets come and go, any number of times, but only
  while a configured collection looks for them; scale sets stay.
* `Setup`: three inputs, two files, two clients; what one input can do to another
  takes two.

The defects
these properties are about need two of something (two events, two waiters, two
inputs, two stoppers), which every instance has; what holds beyond these sizes
is proved, for every safety property but those of section 4's last paragraph.
Deadlock is not checked,
because all these systems stop: the crawler after `Stop`, the process after `Run`.

**Fairness.**  Weak fairness stands for three things: the Go scheduler runs
every goroutine that can proceed (each statement of `Run`, each stopper, each
signalWait goroutine, a released waiter); the pipeline answers each event it is
handed; a cancelled input returns from `Run`, which every loop under
`src/input` does because it selects on the cancellation, and one collection is
a finite sequence of calls.  In `K8sInput` and `GcpInput` the ticker also ticks,
API calls return, with or without an error, and a running watcher catches up
with the cluster.  In `CloudInputs` the same holds of calls; `Panic` is fair
because the call about an EKS cluster that is gone must return too, and its only
outcome ends the process.  In `Outlets` `Publish` of the pipeline returns.  In `Assetbeat`
the shutdown timer also fires.  There is no fairness for `Stop`, for closing an
outlet, for publishing, for a new input of the agent, for the end of an input
that was not cancelled, for acknowledgements, or for a change of an asset.

## 4. The proofs

Every invariant that a passing run checks is a theorem, and so are the two action
properties and the safety part of the five refinements.  Of each property that
says what must *eventually* happen the safety core is a theorem too: that whoever
waits has somebody left to wait for, and that steps only lead nearer to the end.
The theorems hold for every value of the constants under the named assumptions
of the modules, which TLC evaluates in each run.

| module | assumed | why the code justifies it |
|---|---|---|
| `SignalWait`, `EventCounter` | finitely many functions and events; each event has a client | a run of the process is finite, and an event is published through a client |
| `Crawler`, `Assetbeat` | `N` is a natural number, configurations and options have their types | the number of inputs in a list |
| `K8sInput` | configurations have their type, a pod's host is a node, `None` is neither a node nor a pod, nodes that never go have names of their own | the objects of a cluster, which has one node of a name at a time |
| `GcpInput` | asset types are known ones; the project's instances are finitely many, its VPCs and subnets a number; a cache has room for a positive number of entries | `IsTypeEnabled` is asked about these names only; a listing ends; `freelru.New` is given 8192 |
| `Pager`, `AwsInput`, `AzureInput`, `HostInput`, `CloudInputs` | each collection is one of the tasks, each input one of the inputs; a task's assets are assets; what the credential can list, and what is configured, is a subscription | bookkeeping of the models |
| `Config`, `CommonSettings` | configurations are lists of inputs of some set of types; the maps that were handed over are not a client's | a configuration is decoded into `[]*conf.C` |

* `SignalWaitProofs`.  The inductive invariant is `TypeOK /\ CountExact`: only
  because a signal in the channel is counted does `count` stay a natural
  number.  From it, `WaitHasSender` (a waiting owner has a sender) by a second
  invariant `WaitCounts`, and `ImplementsSafely`: every step is a step of
  `AliveSignals` or a stutter (a send moves a return from "sending" to
  "buffered", which the semaphore does not tell apart).
* `EventCounterProofs`.  The inductive invariant is `TypeOK /\ Balance /\
  NeverNegative`, where `Balance`, the exact number behind what `CoversInFlight`
  promises, follows the code: an acknowledged event keeps its unit.  Each event holds one unit of the counter from `PublishAll`
  until it is dropped, so that a drop finds the counter positive and what is in
  flight is covered (`CounterCovers`); a `Wait`
  returns only at zero, that is, with no event outstanding (`WaitIsSound`).
  `WaitEndsOrPinned` rests on two facts: a `Wait` is blocked only while an event is
  pinned or the pipeline owes an answer (`WaitHasCause`), which takes `Blocking`: the
  counter is above zero for whoever is blocked; and each answer brings an event
  nearer to its end, none goes back, and a pinned one stays pinned and keeps every
  `Wait` from returning (`EventsEnd`).
* `CrawlerProofs`.  `StopComplete` is not inductive.  The strengthening says
  that map and runners agree (`Registered`), that a stopper is done only after
  its runner (`StopperRunner`), that stoppers exist from `Stop` on and for every
  runner from its `Wait` on (`StopPhases`), that the WaitGroup counts exactly the
  stoppers at work (`WgExact`), and that the counter, which only falls after the
  last `Add`, is zero once `Stop`'s `Wait` was released (`StopReleased`).
  `OneWaiter` gives the absence of a panic without once mode.  `StartReachesAll`
  adds what the loop of `Start` has done below the index it is at.  With
  `NothingMissed` (whoever is blocked has a unit of the counter to wait for, and
  the reloader's stopper was called before) follows what the two liveness
  properties rest on: a `Stop` that waits has a goroutine that can go on
  (`WaitGoesOn`), every step from `Stop` on brings somebody forward and nobody back
  (`StopNears`), and a late reloader finds its channel closed (`ReloaderTold`).
* `AssetbeatProofs` is compositional.  Every step of the beater is a step of each
  of its four components or leaves that component alone, so the components' own
  inductive invariants, cited from their proof modules, hold inside the beater
  (`ComponentsInPlace`).  To these it adds the order of `Run`: where crawler,
  manager and result are at each `pc` (`RunOrder`), why each of the two waits has
  returned (`FinishedReason`, `FlushedReason`), when the lists end
  (`ListOrder`); and what runners owe it (`InputOrder`): a client is open only
  while its runner lives, once `wgEvents.Wait` has returned no event of a
  configured input is in the pipeline, and with collections that are waited for
  the counter is quiet while that `Wait` returns.  `ErrorOrder` says which errors
  come before which inputs; it is why only a failing `NewAutodiscover` or
  `Manager.Start` leaves one behind (`ReturnIsClean`).  The four invariants of
  the beater follow; that a taken event leaves only the limit to end the wait, which
  is why `AckedEndsWait` fails (`OnlyLimitEnds`); and, with `Promise!Next` checked
  action by action, the safety part of `ImplementsBeater` (`BeaterSafely`).  For its liveness, `RunGoesOn` says
  of each statement at which `Run` blocks that what it waits for can still come:
  `WaitOrder` carries that a list that was told to end has cancelled all its
  runners, that a signal stays in its channel until it is taken, and that whoever
  waits for events has a limit besides; the crawler's own wait is taken over from
  `CrawlerProofs` (`WaitGoesOn`).
* `ChannelProofs`, on the outlets.  One of the parties that close an outlet finds
  the flag set (`OneSwap`), one closer of the sub-outlet is in the once (`OneClose`), and while
  a call holds the mutex either the worker has its event or the slot its answer;
  what an earlier call left behind is gone before the next one enters
  (`Handover`).  `TrueAnswers` and `FalseAnswers` follow an answer from the
  pipeline back to the caller.  The model's rule that a channel is closed and
  sent on at most once is `ChannelsNeverPanic`.  Two more facts, that the outlet's
  call is under way while the worker is in it (`CallUnderWay`) and that whoever won
  the right to close is still at it (`CloserAtWork`), show that neither a closed
  sub-outlet (`WorkerGoesOn`) nor a signal (`SignalGoesOn`) is ever stuck; the weights
  of `Left` add up to a number that no step of a closed sub-outlet makes larger and
  each useful one makes smaller (`WorkerNears`).
* `K8sInputProofs`.  How far `Run` has come says how far the watchers are
  (`RunPhases`), and whatever collects, timer included, was begun by a `Run` that
  reached its loop (`CollectPhases`); the store holds only nodes that have been
  up (`StoreHasBeenUp`), which are never new again.  `WindsDown` says step by step
  that a cancelled input begins no collection but the timer's, with `NodesAsk`: only
  the collection of the nodes asks for the cluster.  `PodStays` is what
  `PodsReported` rests on: as long as a running pod and its node last, the stores
  know them or a watcher at work has still to learn of them; once known they stay
  known, each listing has the pod, and it is published with its own node as
  parent.  `NamesUnique` says that no other node of its name takes its place in the
  store.
* `CloudInputsProofs`.  Each goroutine owns a list; a list is good (`GoodList`)
  when what lasted since the listing began was on a page or is ahead.  A step
  replaces one good list by another that `Collection` allows (`StepOf`), which
  gives `CollectsSafely` without a case per action and pair of collections.
  `EksGood` says the same of the loop over node groups.  `LogGood` carries
  `LogsStayApart`: a task that failed and finds no error to log owes that to the
  other task of its subscription, which has succeeded.  `NoAddressKept`: the host's
  own information never has an address.
* `GcpInputProofs`.  An entry of this round has its whole life left and one of the
  round before has aged once (`EntriesLast`), so it cannot expire while this round
  looks for it; what the goroutines have put together so far agrees with that
  (`ComputeSoFar`, `ClusterSoFar`), which gives `RelationsComplete`
  for a project of any size that fits into the caches: whatever has an entry comes
  from the project (`FromProject`), so a new one always finds room and throws none
  out.  The entry of an
  instance that is gone only ages (`GoneAges`), but for the one collection that
  had listed it before (`Leftovers`), which stores it at most once more.
* `ChannelProofs`, on the configuration.  Merging neither loses nor doubles an
  input: there is a bijection between the inputs there are and the places they came from (`SameInputs`).  With
  it the loop of `ListEnabledInputs` (`ListedSoFar`: each input in its place, under
  its own type or the one carried over) gives both `ListsWhatIsEnabled`
  and `AcceptsOnlyRunnable`; the latter compares a number of types with a number
  of inputs.  `OwnFields` (each client has fields of its own and the given ones
  stay) gives `SettingsStayApart`.

Each inductive invariant was model-checked before it was proved.

Only model-checked: that what must happen *does* happen, as it rests on fairness
and `ENABLED`, which the prover does not handle; and the three properties that the
code violates.  What is proved of each liveness property is this:

| property | its safety core | theorems |
|---|---|---|
| `StopTerminates` | `WaitGoesOn`, `StopNears` | `StopNeverStuck`, `StopOnlyNears` |
| `LateReloaderEnds` | `ReloaderTold` | `LateReloaderTold` |
| `WaitEndsOrPinned` | `WaitHasCause`, `EventsEnd` | `WaitNotForgotten`, `EventsOnlyEnd` |
| `ImplementsBeater` | steps of `Beater`, `RunGoesOn` | `BeaterSafely`, `ShutdownNeverStuck` |
| `WorkerEnds` | `WorkerGoesOn`, `WorkerNears` | `WorkerNeverStuck`, `WorkerOnlyNears` |
| `SignalClosesClient` | `SignalGoesOn` | `SignalNotForgotten` |
| `FallsSilent` | `WindsDown` | `InputWindsDown` |
| `PodsReported` | `PodStays` | `KnownPodsStay` |
| `GoneForgotten` | `GoneAges` | `GoneIsForgotten` |
| the other refinements | steps of the abstract module | `ImplementsSafely`, `OutletSafely`, `SubOutletSafely`, `CollectsSafely` |

## 5. Not modelled, not proved

Left out of what is modelled: log output, the monitoring gauges beside the
WaitGroup, the contents of events and configurations (an input is enabled,
broken or neither, and has a hash), `outDone` (it is closed and nobody listens),
the list `modules` (it has no factory and never holds a runner), and `Run`'s
`panic` on a plugin list that is inconsistent at build time.

Of the inputs also: the fields of events beyond parents, children and the
address and name of the host, with the helpers that fill them
(`input/internal/publish.go`); the containers inside a pod; the filters of the
Google Cloud input by region and its projects beyond the first, which only make
lists shorter or longer; which error a line of the log carries.  The command
line, the list of plugins and the build tooling keep no state.

Everything above was planned and is done: the modules of section 2, one run for
each question of section 3, and the theorems of section 4.  What is left to
prove needs fairness, and with it a prover that handles `ENABLED`: that the
goroutines which, by the theorems, can go on do so.

## 6. Running

    tlc -workers 2 -config MCCrawler.cfg MCCrawler
    tlapm CrawlerProofs.tla

`PROJECT.json` lists every run with its module and configuration.
