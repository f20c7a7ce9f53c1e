------------------------------ MODULE Assetbeat ------------------------------
(***************************************************************************)
(* beater/assetbeat.go: Run and Stop of the beater, composed of the parts  *)
(* it creates: the crawler (Crawler), the counter of events in the         *)
(* pipeline (EventCounter) and two signalWaits (SignalWait), waitFinished  *)
(* for the end of the run and waitEvents for the end of the shutdown.      *)
(*                                                                         *)
(* Around them: the runners that Elastic Agent (through the manager's      *)
(* RunnerList) and autodiscover start while the beater runs, and the       *)
(* goroutines in which an input collects its assets.  Most inputs do not   *)
(* wait for these when they are cancelled (input/aws, azure, gcp, k8s),    *)
(* so that they may publish on a client that is already closed.            *)
(***************************************************************************)
EXTENDS Integers, FiniteSets

CONSTANTS
  N, Ids, Settings,         \* of the crawler
  Events, ClientOf,         \* of the event counter
  Options                   \* the rest of the configuration to consider

Index == 1..N
Managed == N + 1       \* the runner that the manager's RunnerList starts
Discovered == N + 2    \* the runner that autodiscover starts
Publishers == 1..(N + 2)

OptionType ==
  [timeout : BOOLEAN,              \* shutdown_timeout > 0
   discover : BOOLEAN,             \* autodiscover is configured
   agent : BOOLEAN,                \* the manager delivers inputs
   detached : SUBSET Publishers]   \* inputs that do not wait for their collection

ASSUME OptionsType == Options \subseteq OptionType
ASSUME NType == N \in Nat
ASSUME EventsFinite == IsFiniteSet(Events)
ASSUME ClientOfType == ClientOf \in [Events -> Publishers]

VARIABLES
  config, crawlerPc, next, inputs, runner, reloader, closed, stopper,
  stops, stopsWaiter, crawlerPanic,              \* Crawler
  client, event, active, activeWaiter, eventPanic,   \* EventCounter
  finCount, finSignals, finGoroutine, finWaiter,   \* waitFinished
  evtCount, evtSignals, evtGoroutine, evtWaiter,   \* waitEvents
  options,
  pc,          \* where Run is
  done,        \* assetbeat.done is closed
  dynamic,     \* runners of the lists: "absent", "running", "cancelled", "done"
  manager,     \* "off", "on", "stopped"
  discover,    \* autodiscover: "off", "on", "stopped"
  collector,   \* per publisher: "idle", "running", "ended"
  result       \* of Run: "none", "ok", "error"

Crawler == INSTANCE Crawler WITH pc <- crawlerPc, counter <- stops,
             waiter <- stopsWaiter, panic <- crawlerPanic
Counter == INSTANCE EventCounter WITH Clients <- Publishers, Waiters <- {"shutdown"},
             counter <- active, waiter <- activeWaiter, panic <- eventPanic
Finished == INSTANCE SignalWait WITH Signalers <- {"once", "done"}, count <- finCount,
              signals <- finSignals, goroutine <- finGoroutine, waiter <- finWaiter
Flushed == INSTANCE SignalWait WITH Signalers <- {"published", "limit"}, count <- evtCount,
             signals <- evtSignals, goroutine <- evtGoroutine, waiter <- evtWaiter

ASSUME SettingsType == Settings \subseteq Crawler!SettingType

crawlerVars == <<config, crawlerPc, next, inputs, runner, reloader, closed, stopper,
                 stops, stopsWaiter, crawlerPanic>>
counterVars == <<client, event, active, activeWaiter, eventPanic>>
finishedVars == <<finCount, finSignals, finGoroutine, finWaiter>>
flushedVars == <<evtCount, evtSignals, evtGoroutine, evtWaiter>>
signalVars == <<finishedVars, flushedVars>>
lists == <<dynamic, manager, discover>>
vars == <<crawlerVars, counterVars, signalVars, options, pc, done, lists, collector, result>>

Init ==
  /\ Crawler!Init
  /\ Counter!Init
  /\ Finished!Init
  /\ Flushed!Init
  /\ options \in Options
  /\ pc = "init"
  /\ done = FALSE
  /\ dynamic = [p \in {Managed, Discovered} |-> "absent"]
  /\ manager = "off"
  /\ discover = "off"
  /\ collector = [p \in Publishers |-> "idle"]
  /\ result = "none"

(***************************************************************************)
(* Run, up to the wait for the end of the run.                             *)
(***************************************************************************)
\* A panic, of whichever WaitGroup, ends the process.
Alive == crawlerPanic = "none" /\ eventPanic = "none"

Goto(from, to) == Alive /\ pc = from /\ pc' = to

\* v2InputLoader.Init: an error returns before anything was started.
InitLoader ==
  /\ \/ Goto("init", "starting") /\ UNCHANGED result
     \/ Goto("init", "returned") /\ result' = "error"
  /\ UNCHANGED <<crawlerVars, counterVars, signalVars, options, done, lists, collector>>

\* crawler.Start, input by input.
StartCrawler ==
  /\ Alive
  /\ pc = "starting"
  /\ Crawler!StartInput \/ Crawler!StartReloader
  /\ UNCHANGED <<counterVars, signalVars, options, pc, done, lists, collector, result>>

\* crawler.Start failed: Run stops the crawler before it returns the error.
AbortStart ==
  /\ Goto("starting", "abort")
  /\ crawlerPc = "failed"
  /\ Crawler!Stop
  /\ UNCHANGED <<counterVars, signalVars, options, done, lists, collector, result>>

\* In once mode the crawler's completion is an alternative to the done signal.
AddOnce ==
  /\ Goto("starting", "discover")
  /\ crawlerPc = "started"
  /\ IF config.once THEN Finished!Add("once") ELSE UNCHANGED finishedVars
  /\ UNCHANGED <<crawlerVars, counterVars, flushedVars, options, done, lists, collector, result>>

\* NewAutodiscover and Start.  An error returns at once: what was started
\* before is not stopped, only the deferred functions run.
StartDiscover ==
  /\ \/ Goto("discover", "manager") /\ ~options.discover /\ UNCHANGED <<discover, result>>
     \/ Goto("discover", "manager") /\ options.discover /\ discover' = "on" /\ UNCHANGED result
     \/ Goto("discover", "defers") /\ options.discover /\ result' = "error" /\ UNCHANGED discover
  /\ UNCHANGED <<crawlerVars, counterVars, signalVars, options, done, dynamic, manager, collector>>

\* b.Manager.Start, with the same error return.
StartManager ==
  /\ \/ Goto("manager", "addDone") /\ manager' = "on" /\ UNCHANGED result
     \/ Goto("manager", "defers") /\ result' = "error" /\ UNCHANGED manager
  /\ UNCHANGED <<crawlerVars, counterVars, signalVars, options, done, dynamic, discover, collector>>

\* Mutant of AddDone: Run does not register the done channel.
AddDoneForgotten ==
  /\ Goto("addDone", "waitFinished")
  /\ UNCHANGED <<crawlerVars, counterVars, signalVars, options, done, lists, collector, result>>

AddDone ==
  /\ Goto("addDone", "waitFinished")
  /\ Finished!Add("done")
  /\ UNCHANGED <<crawlerVars, counterVars, flushedVars, options, done, lists, collector, result>>

WaitFinished ==
  /\ Alive
  /\ pc = "waitFinished"
  /\ finWaiter # "returned"
  /\ Finished!WaitCall \/ Finished!WaitReceive
  /\ UNCHANGED <<crawlerVars, counterVars, flushedVars, options, pc, done, lists, collector, result>>

(***************************************************************************)
(* Run, from there on: stop the lists, the crawler, install waitEvents,    *)
(* stop the manager, and run the deferred functions.                       *)
(***************************************************************************)
Cancelled(p) == [dynamic EXCEPT ![p] = IF @ = "running" THEN "cancelled" ELSE @]
Quiet(p) == dynamic[p] \in {"absent", "done"}

\* Mutant of StopLists: the shutdown does not wait for waitFinished.
StopListsAtOnce ==
  /\ Goto("waitFinished", "stopLists")
  /\ finWaiter # "waiting"
  /\ dynamic' = Cancelled(Managed)
  /\ UNCHANGED <<crawlerVars, counterVars, signalVars, options, done, manager, discover, collector, result>>

StopLists ==
  /\ Goto("waitFinished", "stopLists")
  /\ finWaiter = "returned"
  /\ dynamic' = Cancelled(Managed)
  /\ UNCHANGED <<crawlerVars, counterVars, signalVars, options, done, manager, discover, collector, result>>

StopDiscover ==
  /\ Goto("stopLists", "stopDiscover")
  /\ Quiet(Managed)
  /\ dynamic' = Cancelled(Discovered)
  /\ discover' = IF discover = "on" THEN "stopped" ELSE discover
  /\ UNCHANGED <<crawlerVars, counterVars, signalVars, options, done, manager, collector, result>>

\* Mutant of StopCrawler: Run does not stop the crawler.
StopCrawlerForgotten ==
  /\ Goto("stopDiscover", "stopManager")
  /\ Quiet(Discovered)
  /\ UNCHANGED <<crawlerVars, counterVars, signalVars, options, done, lists, collector, result>>

StopCrawler ==
  /\ Goto("stopDiscover", "stopCrawler")
  /\ Quiet(Discovered)
  /\ Crawler!Stop
  /\ UNCHANGED <<counterVars, signalVars, options, done, lists, collector, result>>

\* The body of crawler.Stop, both here and after a failed Start.
CrawlerStopping ==
  /\ Alive
  /\ pc \in {"abort", "stopCrawler"}
  /\ \/ \E i \in Crawler!Stoppers : Crawler!asyncWaitStop(i)
     \/ Crawler!StopWait \/ Crawler!Resume("stop") \/ Crawler!Stopped
  /\ UNCHANGED <<counterVars, signalVars, options, pc, done, lists, collector, result>>

AbortedStart ==
  /\ Goto("abort", "defers")
  /\ crawlerPc = "stopped"
  /\ result' = "error"
  /\ UNCHANGED <<crawlerVars, counterVars, signalVars, options, done, lists, collector>>

WaitPublished == options.timeout \/ config.once

\* Mutant of AddPublished: wgEvents.Wait is installed while the crawler is
\* still stopping.
AddPublishedEarly ==
  /\ IF WaitPublished
       THEN Goto("stopCrawler", "addLimit") /\ Flushed!Add("published")
       ELSE Goto("stopCrawler", "stopManager") /\ UNCHANGED flushedVars
  /\ UNCHANGED <<crawlerVars, counterVars, finishedVars, options, done, lists, collector, result>>

\* waitEvents gets wgEvents.Wait and, as the limit, the timer of
\* shutdown_timeout or, without one, the done channel.
AddPublished ==
  /\ crawlerPc = "stopped"
  /\ IF WaitPublished
       THEN Goto("stopCrawler", "addLimit") /\ Flushed!Add("published")
       ELSE Goto("stopCrawler", "stopManager") /\ UNCHANGED flushedVars
  /\ UNCHANGED <<crawlerVars, counterVars, finishedVars, options, done, lists, collector, result>>

AddLimit ==
  /\ Goto("addLimit", "stopManager")
  /\ Flushed!Add("limit")
  /\ UNCHANGED <<crawlerVars, counterVars, finishedVars, options, done, lists, collector, result>>

StopManager ==
  /\ Goto("stopManager", "defers")
  /\ manager' = "stopped"
  /\ result' = "ok"
  /\ UNCHANGED <<crawlerVars, counterVars, signalVars, options, done, dynamic, discover, collector>>

\* defer waitEvents.Wait()
WaitEvents ==
  /\ Alive
  /\ pc = "defers"
  /\ evtWaiter # "returned"
  /\ Flushed!WaitCall \/ Flushed!WaitReceive
  /\ UNCHANGED <<crawlerVars, counterVars, finishedVars, options, pc, done, lists, collector, result>>

\* The other deferred functions: nobody listens on outDone, and the task
\* group of the loader has no tasks.
Return ==
  /\ Goto("defers", "returned")
  /\ evtWaiter = "returned"
  /\ UNCHANGED <<crawlerVars, counterVars, signalVars, options, done, lists, collector, result>>

Main ==
  \/ InitLoader \/ StartCrawler \/ AbortStart \/ AddOnce \/ StartDiscover \/ StartManager
  \/ AddDone \/ WaitFinished \/ StopLists \/ StopDiscover \/ StopCrawler \/ CrawlerStopping
  \/ AbortedStart \/ AddPublished \/ AddLimit \/ StopManager \/ WaitEvents \/ Return

(***************************************************************************)
(* Stop, called by a signal handler or the manager, any number of times    *)
(* and before Run too: stopOnce closes the channel.                        *)
(***************************************************************************)
Stop ==
  /\ Alive
  /\ pc # "returned"
  /\ ~done
  /\ done' = TRUE
  /\ UNCHANGED <<crawlerVars, counterVars, signalVars, options, pc, lists, collector, result>>

(***************************************************************************)
(* The goroutines of the signalWaits.                                      *)
(***************************************************************************)
RunOnce ==
  /\ Alive
  /\ finGoroutine["once"] = "running"
  /\ Crawler!OnceWait \/ Crawler!Resume("once")
  /\ UNCHANGED <<counterVars, signalVars, options, pc, done, lists, collector, result>>

FinishedSignal ==
  /\ Alive
  /\ \/ Finished!Fire("once") /\ stopsWaiter["once"] = "returned"
     \/ Finished!Fire("done") /\ done
     \/ \E s \in {"once", "done"} : Finished!Send(s)
  /\ UNCHANGED <<crawlerVars, counterVars, flushedVars, options, pc, done, lists, collector, result>>

WaitCounter ==
  /\ Alive
  /\ evtGoroutine["published"] = "running"
  /\ Counter!Wait("shutdown") \/ Counter!Resume("shutdown")
  /\ UNCHANGED <<crawlerVars, signalVars, options, pc, done, lists, collector, result>>

FlushedSignal ==
  /\ Alive
  /\ \/ Flushed!Fire("published") /\ activeWaiter["shutdown"] = "returned"
     \/ Flushed!Fire("limit") /\ (options.timeout \/ done)
     \/ \E s \in {"published", "limit"} : Flushed!Send(s)
  /\ UNCHANGED <<crawlerVars, counterVars, finishedVars, options, pc, done, lists, collector, result>>

(***************************************************************************)
(* The inputs.  A runner connects a client; the client is closed when the  *)
(* runner is cancelled (CloseRef) or ends, whichever comes first.  The     *)
(* collection publishes through the client and may outlive the runner of   *)
(* a detached input.  Bounds: one collection per input and none where      *)
(* there is nothing to publish, one runner per list.                       *)
(***************************************************************************)
State(p) == IF p \in Index THEN runner[p] ELSE dynamic[p]

\* Elastic Agent or autodiscover hands its list a new input.  inputs.Stop()
\* holds the lock of its list until the runners it has cancelled have ended.
Reload ==
  /\ Alive
  /\ \E p \in {Managed, Discovered} :
       /\ IF p = Managed THEN manager = "on" /\ options.agent /\ pc # "stopLists"
          ELSE discover = "on"
       /\ dynamic[p] = "absent"
       /\ dynamic' = [dynamic EXCEPT ![p] = "running"]
  /\ UNCHANGED <<crawlerVars, counterVars, signalVars, options, pc, done, manager, discover, collector, result>>

Connect(p) ==
  /\ Alive
  /\ State(p) \in {"running", "cancelled"}
  /\ Counter!Connect(p)
  /\ UNCHANGED <<crawlerVars, signalVars, options, pc, done, lists, collector, result>>

CloseRef(p) ==
  /\ Alive
  /\ State(p) = "cancelled"
  /\ Counter!Close(p)
  /\ UNCHANGED <<crawlerVars, signalVars, options, pc, done, lists, collector, result>>

Collect(p) ==
  /\ Alive
  /\ client[p] # "none"
  /\ State(p) \in {"running", "cancelled"}
  /\ collector[p] = "idle"
  /\ \E e \in Events : ClientOf[e] = p
  /\ collector' = [collector EXCEPT ![p] = "running"]
  /\ UNCHANGED <<crawlerVars, counterVars, signalVars, options, pc, done, lists, result>>

Publish(e) ==
  /\ Alive
  /\ collector[ClientOf[e]] = "running"
  /\ Counter!Publish(e)
  /\ UNCHANGED <<crawlerVars, signalVars, options, pc, done, lists, collector, result>>

Pipeline(e) ==
  /\ Alive
  /\ Counter!Answer(e) \/ Counter!Acked(e)
  /\ UNCHANGED <<crawlerVars, signalVars, options, pc, done, lists, collector, result>>

\* The last Publish of a collection has returned when the collection ends.
CollectEnds(p) ==
  /\ Alive
  /\ collector[p] = "running"
  /\ \A e \in Events : ClientOf[e] = p => event[e] \notin {"counted", "accepted"}
  /\ collector' = [collector EXCEPT ![p] = "ended"]
  /\ UNCHANGED <<crawlerVars, counterVars, signalVars, options, pc, done, lists, result>>

RunnerEnds(p) ==
  /\ Alive
  /\ p \notin options.detached => collector[p] # "running"
  /\ IF p \in Index
       THEN Crawler!RunnerEnds(p) /\ UNCHANGED dynamic
       ELSE /\ dynamic[p] \in {"running", "cancelled"}
            /\ dynamic' = [dynamic EXCEPT ![p] = "done"]
            /\ UNCHANGED crawlerVars
  /\ IF client[p] = "open" THEN Counter!Close(p) ELSE UNCHANGED counterVars
  /\ UNCHANGED <<signalVars, options, pc, done, manager, discover, collector, result>>

\* The goroutines crawler.Stop has spawned.
Stoppers ==
  /\ Alive
  /\ \E i \in Crawler!Stoppers : Crawler!StopperCancel(i) \/ Crawler!StopperReturn(i)
  /\ UNCHANGED <<counterVars, signalVars, options, pc, done, lists, collector, result>>

\* The reloader of config.inputs, once the crawler has spawned it.
CrawlerReloader ==
  /\ Alive
  /\ Crawler!ReloaderStep
  /\ UNCHANGED <<counterVars, signalVars, options, pc, done, lists, collector, result>>

Input(p) == Connect(p) \/ CloseRef(p) \/ Collect(p) \/ CollectEnds(p) \/ RunnerEnds(p)

Next ==
  \/ Main
  \/ Stop
  \/ RunOnce \/ FinishedSignal \/ WaitCounter \/ FlushedSignal
  \/ Stoppers \/ CrawlerReloader
  \/ Reload
  \/ \E p \in Publishers : Input(p)
  \/ \E e \in Events : Publish(e) \/ Pipeline(e)

\* The scheduler runs what can proceed; the pipeline answers each event; a
\* cancelled input ends, and so does a collection (a finite list of calls);
\* the shutdown timer fires.  Nobody has to call Stop, deliver an input,
\* publish, or acknowledge, and a running input does not end by itself.
Fairness ==
  /\ WF_vars(Main)
  /\ WF_vars(RunOnce \/ FinishedSignal \/ WaitCounter \/ FlushedSignal)
  /\ WF_vars(Stoppers \/ CrawlerReloader)
  /\ WF_vars(\E p \in Publishers :
                 CollectEnds(p) \/ (State(p) = "cancelled" /\ RunnerEnds(p)))
  /\ WF_vars(\E e \in Events : Counter!Answer(e) /\ Pipeline(e))

Spec == Init /\ [][Next]_vars /\ Fairness

-----------------------------------------------------------------------------

LiveRunners(S) == {p \in S : State(p) \in {"running", "cancelled"}}

\* Run returns only when every configured and every discovered input has ended,
\* and its client with it, unless NewAutodiscover or Manager.Start has failed:
\* then the crawler has been started and not stopped.  An input of the agent is
\* left behind only by a Run without error.
CleanReturn ==
  pc = "returned" =>
    /\ \A p \in Index \cup {Discovered} :
         p \in LiveRunners(Publishers) \/ client[p] = "open" =>
           result = "error" /\ crawlerPc = "started"
    /\ Managed \in LiveRunners(Publishers) \/ client[Managed] = "open" => result = "ok"

\* The shutdown starts to wait for the event counter only when no configured
\* input runs any more: what the note before inputs.Stop() asks for.
CounterAfterInputs ==
  activeWaiter["shutdown"] # "out" => LiveRunners(Index \cup {Discovered}) = {}

\* No input is asked to end before the run is over: a runner is cancelled
\* only after waitFinished has returned, or after Start has failed.
CancelledAfterFinish ==
  \A p \in Publishers : State(p) = "cancelled" =>
    finWaiter = "returned" \/ (p \in Index /\ pc = "abort")

\* Without the agent, and with inputs that wait for their collection, no
\* interleaving makes a WaitGroup panic (the crawler's needs once mode).
AttachedNeverPanics ==
  options.detached = {} /\ ~options.agent /\ ~config.once => Alive

(***************************************************************************)
(* Run and Stop are what libbeat expects of a beater.                      *)
(***************************************************************************)
Phase ==
  IF pc = "returned" THEN result
  ELSE IF ~Alive THEN "panicked"
  ELSE IF manager = "off" THEN "starting" ELSE "serving"

Promise == INSTANCE Beater WITH once <- config.once, stopped <- done, phase <- Phase

ImplementsBeater == Promise!Spec

(***************************************************************************)
(* What comments of the code say, and the code does not keep.              *)
(***************************************************************************)

\* "Stopping is inverted to the starting order ... crawler is stopped first":
\* no configured input outlives Run, with or without an error.
NoInputOutlivesRun == pc = "returned" => LiveRunners(Index) = {}

\* "Otherwise wgEvents.Wait or publisher might panic due to concurrent
\* updates": the order of shutdown keeps wgEvents.Wait from panicking.
CounterNeverPanics == eventPanic = "none"

\* "Wait for either timeout or all events having been ACKed by outputs", with
\* a counter that is said to subtract what was published, dropped or ACKed:
\* when every event handed to the pipeline was acknowledged or dropped, the
\* shutdown's wgEvents.Wait returns, unless the process ends before or a
\* collection publishes one more.
Settled == \A e \in Events : event[e] \in {"new", "acked", "dropped"}
AckedEndsWait ==
  activeWaiter["shutdown"] = "blocked" /\ Settled ~>
    activeWaiter["shutdown"] = "returned" \/ pc = "returned" \/ ~Alive \/ ~Settled

=============================================================================
