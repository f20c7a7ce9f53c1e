--------------------------- MODULE AssetbeatProofs ---------------------------
(***************************************************************************)
(* The composed beater, for any number of inputs, any configuration and    *)
(* any finite set of events: the order of its shutdown, why its waits      *)
(* return, and that Run and Stop keep what Beater promises.                *)
(*                                                                         *)
(* The proof is compositional.  Every step of the beater is a step of each *)
(* of its four components or leaves that component alone, so the           *)
(* invariants proved in the components' own proof modules hold here        *)
(* (Components).  The beater's invariant adds the order of Run (OwnOrder)  *)
(* and what the runners, their clients and collections owe it              *)
(* (InputOrder).                                                           *)
(***************************************************************************)
EXTENDS Assetbeat, FiniteSetTheorems, TLAPS

\* The components again, with what is proved of them.
CP == INSTANCE CrawlerProofs WITH pc <- crawlerPc, counter <- stops,
        waiter <- stopsWaiter, panic <- crawlerPanic
EP == INSTANCE EventCounterProofs WITH Clients <- Publishers, Waiters <- {"shutdown"},
        counter <- active, waiter <- activeWaiter, panic <- eventPanic
FP == INSTANCE SignalWaitProofs WITH Signalers <- {"once", "done"}, count <- finCount,
        signals <- finSignals, goroutine <- finGoroutine, waiter <- finWaiter
LP == INSTANCE SignalWaitProofs WITH Signalers <- {"published", "limit"}, count <- evtCount,
        signals <- evtSignals, goroutine <- evtGoroutine, waiter <- evtWaiter

-----------------------------------------------------------------------------

Phases == {"init", "starting", "abort", "discover", "manager", "addDone", "waitFinished",
           "stopLists", "stopDiscover", "stopCrawler", "addLimit", "stopManager",
           "defers", "returned"}
RunnerStates == {"absent", "running", "cancelled", "done"}

\* The beater's own variables.
OwnTypes ==
  /\ options \in Options
  /\ pc \in Phases
  /\ done \in BOOLEAN
  /\ dynamic \in [{Managed, Discovered} -> RunnerStates]
  /\ manager \in {"off", "on", "stopped"}
  /\ discover \in {"off", "on", "stopped"}
  /\ collector \in [Publishers -> {"idle", "running", "ended"}]
  /\ result \in {"none", "ok", "error"}

\* Run is between waitFinished and the end of a run without error.
Ending == pc \in {"defers", "returned"} /\ result = "ok"
Closing == pc \in {"stopLists", "stopDiscover", "stopCrawler", "addLimit", "stopManager"} \/ Ending

\* Where the crawler, the manager and the result are when Run is at pc.
RunOrder ==
  /\ pc = "init" => crawlerPc = "starting"
  /\ pc = "starting" => crawlerPc \in {"starting", "started", "failed"}
  /\ pc \in {"abort", "stopCrawler"} => crawlerPc \in {"stopping", "waiting", "stopped"}
  /\ pc \in {"discover", "manager", "addDone", "waitFinished", "stopLists", "stopDiscover"} =>
       crawlerPc = "started"
  /\ pc \in {"addLimit", "stopManager"} \/ Ending => crawlerPc = "stopped"
  /\ crawlerPc \in {"stopping", "waiting"} => pc \in {"abort", "stopCrawler"}
  /\ pc \in {"init", "starting", "abort", "discover", "manager"} \/ result = "error" => manager = "off"
  /\ pc \in {"addDone", "waitFinished"} \/ Closing => manager # "off"
  /\ pc \in {"defers", "returned"} <=> result # "none"

\* waitFinished: a goroutine exists for each function that was added, and
\* Wait returns because one of them had its reason to.
FinishedReason ==
  /\ finGoroutine["once"] # "idle" => config.once
  /\ finGoroutine["done"] \in {"sending", "gone"} => done
  /\ pc = "waitFinished" => finGoroutine["done"] # "idle"
  /\ finSignals > 0 => finGoroutine["once"] = "gone" \/ finGoroutine["done"] = "gone"
  /\ finWaiter = "waiting" => pc = "waitFinished"
  /\ finWaiter = "returned" => done \/ config.once
  /\ Closing => finWaiter = "returned"

\* Runners: a list is told to end only when the run is over, and the shutdown
\* waits for autodiscover's.
ListOrder ==
  /\ \A p \in {Managed, Discovered} : dynamic[p] = "cancelled" => finWaiter = "returned"
  /\ Closing /\ pc # "stopLists" => discover # "on"
  /\ Closing /\ pc \notin {"stopLists", "stopDiscover"} => Quiet(Discovered)
  /\ ~options.agent => dynamic[Managed] = "absent"

\* waitEvents: what is installed, and why a function has returned.
FlushedReason ==
  /\ evtGoroutine["published"] # "idle" => pc \in {"addLimit", "stopManager"} \/ Ending
  /\ evtGoroutine["published"] \in {"sending", "gone"} => activeWaiter["shutdown"] = "returned"
  /\ activeWaiter["shutdown"] # "out" => evtGoroutine["published"] # "idle"
  /\ pc = "addLimit" => evtGoroutine["published"] # "idle"
  /\ WaitPublished /\ (pc = "stopManager" \/ Ending) =>
       evtGoroutine["published"] # "idle" /\ evtGoroutine["limit"] # "idle"
  /\ evtSignals > 0 => evtGoroutine["published"] = "gone" \/ evtGoroutine["limit"] = "gone"
  /\ evtWaiter # "out" => pc \in {"defers", "returned"}
  /\ evtWaiter = "returned" /\ WaitPublished /\ Ending =>
       \E s \in {"published", "limit"} : evtGoroutine[s] \in {"sending", "gone"}
  /\ pc = "returned" /\ result = "ok" => evtWaiter = "returned"

\* What an error leaves behind: nothing where it came before the inputs, or was
\* one of the crawler's; a list has a runner only once it has been started.
ErrorOrder ==
  /\ result = "error" => crawlerPc \in {"starting", "started", "stopped"}
  /\ pc # "starting" /\ crawlerPc = "starting" => \A i \in Index : runner[i] = "absent"
  /\ pc \in {"init", "starting", "abort"} => discover = "off"
  /\ discover # "off" => crawlerPc = "started" \/ Closing
  /\ discover = "off" => dynamic[Discovered] = "absent"
  /\ manager = "off" => dynamic[Managed] = "absent"

\* A client is open only as long as its runner lives, and so is the
\* collection of an input that waits for it.
RunnerOwns ==
  /\ \A p \in Publishers : client[p] = "open" => State(p) \in {"running", "cancelled"}
  /\ \A p \in Publishers \ options.detached :
       collector[p] = "running" => State(p) \in {"running", "cancelled"}

\* Once wgEvents.Wait has returned, the pipeline takes no event of a
\* configured or discovered input any more.
NothingTaken ==
  activeWaiter["shutdown"] = "returned" =>
    \A e \in Events : event[e] \in {"accepted", "queued", "acked", "filtered"} =>
      ClientOf[e] = Managed

\* With inputs that all wait for their collection, and without the agent,
\* the counter is quiet while its Wait returns.
QuietRelease ==
  options.detached = {} /\ ~options.agent /\ activeWaiter["shutdown"] = "released" => active = 0

\* Such a counter does not panic.
CounterSafe == options.detached = {} /\ ~options.agent => eventPanic = "none"

\* The components' own inductive invariants.
Components == CP!IInv /\ EP!IInv /\ FP!IInv /\ LP!IInv

OwnOrder == OwnTypes /\ RunOrder /\ FinishedReason /\ ListOrder /\ FlushedReason
InputOrder == RunnerOwns /\ NothingTaken /\ QuietRelease /\ CounterSafe

IInv == Components /\ OwnOrder /\ ErrorOrder /\ InputOrder

-----------------------------------------------------------------------------

\* A signalWait of two functions has finitely many.
LEMMA PairFinite == ASSUME NEW a, NEW b PROVE IsFiniteSet({a, b})
<1>1. IsFiniteSet({a}) /\ {a, b} = {a} \cup {b}
  BY FS_Singleton
<1> QED BY <1>1, FS_AddElement

\* The invariants of the components are kept by their steps.
LEMMA CrawlerIInv ==
  /\ CP!Init => CP!IInv
  /\ CP!IInv /\ [CP!Next]_(CP!vars) => CP!IInv'
BY CP!InitIInv, CP!NextIInv, NType, SettingsType DEF CP!SettingType, Crawler!SettingType, CP!Index, Crawler!Index

\* The event counter's own invariant, as EventCounterProofs has it.
LEMMA CounterIInv ==
  /\ EP!Init => EP!IInv
  /\ EP!IInv /\ [EP!Next]_(EP!vars) => EP!IInv'
BY EP!InitIInv, EP!NextIInv, EventsFinite, ClientOfType DEF EP!IsFiniteSet, IsFiniteSet

\* The invariant of waitFinished, as SignalWaitProofs has it.
LEMMA FinishedIInv ==
  /\ FP!Init => FP!IInv
  /\ FP!IInv /\ [FP!Next]_(FP!vars) => FP!IInv'
<1>1. FP!IsFiniteSet({"once", "done"})
  <2>1. IsFiniteSet({"once", "done"})
    BY PairFinite
  <2> QED BY <2>1 DEF FP!IsFiniteSet, IsFiniteSet
<1> QED BY <1>1, FP!InitIInv, FP!NextIInv

\* The invariant of waitEvents, as SignalWaitProofs has it.
LEMMA FlushedIInv ==
  /\ LP!Init => LP!IInv
  /\ LP!IInv /\ [LP!Next]_(LP!vars) => LP!IInv'
<1>1. LP!IsFiniteSet({"published", "limit"})
  <2>1. IsFiniteSet({"published", "limit"})
    BY PairFinite
  <2> QED BY <2>1 DEF LP!IsFiniteSet, IsFiniteSet
<1> QED BY <1>1, LP!InitIInv, LP!NextIInv

-----------------------------------------------------------------------------

\* The two instances of Crawler, in Assetbeat and here, are the same actions.
LEMMA CrawlerSteps ==
  /\ Crawler!Init => CP!Init
  /\ Crawler!StartInput => CP!StartInput
  /\ Crawler!StartReloader => CP!StartReloader
  /\ Crawler!Stop => CP!Stop
  /\ \A i \in Crawler!Stoppers :
       /\ Crawler!asyncWaitStop(i) => CP!asyncWaitStop(i)
       /\ Crawler!StopperCancel(i) => CP!StopperCancel(i)
       /\ Crawler!StopperReturn(i) => CP!StopperReturn(i)
  /\ Crawler!StopWait => CP!StopWait
  /\ Crawler!Stopped => CP!Stopped
  /\ Crawler!OnceWait => CP!OnceWait
  /\ \A w \in {"stop", "once"} : Crawler!Resume(w) => CP!Resume(w)
  /\ \A i \in Index : Crawler!RunnerEnds(i) => CP!RunnerEnds(i)
  /\ Crawler!ReloaderStep => CP!ReloaderStep
  /\ Crawler!Stoppers = CP!Stoppers /\ CP!Index = Index
<1> USE DEF Crawler!Index, CP!Index, Crawler!Stoppers, CP!Stoppers, Crawler!Reloader, CP!Reloader,
       Crawler!wgVars, CP!wgVars, Crawler!Waiters, CP!Waiters, Index
<1>1. Crawler!Init => CP!Init
  BY DEF Crawler!Init, CP!Init, Crawler!WG!Init, CP!WG!Init
<1>2. Crawler!StartInput => CP!StartInput
  BY DEF Crawler!StartInput, CP!StartInput, Crawler!SkipDisabled, CP!SkipDisabled,
     Crawler!Reject, CP!Reject, Crawler!StartRunner, CP!StartRunner
<1>3. /\ Crawler!StartReloader => CP!StartReloader
      /\ Crawler!Stop => CP!Stop
      /\ Crawler!Stopped => CP!Stopped
  BY DEF Crawler!StartReloader, CP!StartReloader, Crawler!Stop, CP!Stop, Crawler!Stopped, CP!Stopped
<1>4. ASSUME NEW i \in Crawler!Stoppers
      PROVE  /\ Crawler!asyncWaitStop(i) => CP!asyncWaitStop(i)
             /\ Crawler!StopperCancel(i) => CP!StopperCancel(i)
             /\ Crawler!StopperReturn(i) => CP!StopperReturn(i)
  BY DEF Crawler!asyncWaitStop, CP!asyncWaitStop, Crawler!ToStop, CP!ToStop,
     Crawler!StopperCancel, CP!StopperCancel, Crawler!StopperReturn, CP!StopperReturn,
     Crawler!WG!Add, CP!WG!Add, Crawler!WG!Done, CP!WG!Done, Crawler!WG!Release, CP!WG!Release
<1>5. /\ Crawler!StopWait => CP!StopWait
      /\ Crawler!OnceWait => CP!OnceWait
      /\ \A w \in {"stop", "once"} : Crawler!Resume(w) => CP!Resume(w)
  BY DEF Crawler!StopWait, CP!StopWait, Crawler!OnceWait, CP!OnceWait, Crawler!Resume, CP!Resume,
     Crawler!Loaded, CP!Loaded, Crawler!ToStop, CP!ToStop,
     Crawler!WG!Wait, CP!WG!Wait, Crawler!WG!Resume, CP!WG!Resume
<1>6. /\ \A i \in Index : Crawler!RunnerEnds(i) => CP!RunnerEnds(i)
      /\ Crawler!ReloaderStep => CP!ReloaderStep
  BY DEF Crawler!RunnerEnds, CP!RunnerEnds, Crawler!ReloaderStep, CP!ReloaderStep
<1> QED BY <1>1, <1>2, <1>3, <1>4, <1>5, <1>6

\* The same for the event counter and the two signalWaits.
LEMMA CounterSteps ==
  /\ Counter!Init => EP!Init
  /\ \A p \in Publishers : (Counter!Connect(p) => EP!Connect(p)) /\ (Counter!Close(p) => EP!Close(p))
  /\ \A e \in Events :
       /\ Counter!Publish(e) => EP!Publish(e)
       /\ Counter!Answer(e) => EP!Answer(e)
       /\ Counter!Acked(e) => EP!Acked(e)
  /\ Counter!Wait("shutdown") => EP!Wait("shutdown")
  /\ Counter!Resume("shutdown") => EP!Resume("shutdown")
<1> USE DEF Counter!wgVars, EP!wgVars
<1>1. Counter!Init => EP!Init
  BY DEF Counter!Init, EP!Init, Counter!WG!Init, EP!WG!Init
<1>2. ASSUME NEW p \in Publishers
      PROVE  (Counter!Connect(p) => EP!Connect(p)) /\ (Counter!Close(p) => EP!Close(p))
  BY DEF Counter!Connect, EP!Connect, Counter!Close, EP!Close
<1>3. ASSUME NEW e \in Events PROVE Counter!Publish(e) => EP!Publish(e)
  BY DEF Counter!Publish, EP!Publish, Counter!PublishAll, EP!PublishAll, Counter!WG!Add, EP!WG!Add,
     Counter!Cardinality, EP!Cardinality
<1>4. ASSUME NEW e \in Events
      PROVE  (Counter!Answer(e) => EP!Answer(e)) /\ (Counter!Acked(e) => EP!Acked(e))
  BY DEF Counter!Answer, EP!Answer, Counter!Accept, EP!Accept, Counter!DroppedOnPublish,
     EP!DroppedOnPublish, Counter!FilteredOut, EP!FilteredOut, Counter!Published, EP!Published,
     Counter!Acked, EP!Acked, Counter!WG!Done, EP!WG!Done, Counter!WG!Release, EP!WG!Release
<1>5. /\ Counter!Wait("shutdown") => EP!Wait("shutdown")
      /\ Counter!Resume("shutdown") => EP!Resume("shutdown")
  BY DEF Counter!Wait, EP!Wait, Counter!Resume, EP!Resume, Counter!WG!Wait, EP!WG!Wait,
     Counter!WG!Resume, EP!WG!Resume
<1> QED BY <1>1, <1>2, <1>3, <1>4, <1>5

\* The operations of waitFinished are those SignalWaitProofs speaks of.
LEMMA FinishedSteps ==
  /\ Finished!Init => FP!Init
  /\ \A s \in {"once", "done"} :
       /\ Finished!Add(s) => FP!Add(s)
       /\ Finished!Fire(s) => FP!Fire(s)
       /\ Finished!Send(s) => FP!Send(s)
  /\ Finished!WaitCall => FP!WaitCall
  /\ Finished!WaitReceive => FP!WaitReceive
BY DEF Finished!Init, FP!Init, Finished!Add, FP!Add, Finished!Fire, FP!Fire, Finished!Send, FP!Send,
   Finished!WaitCall, FP!WaitCall, Finished!WaitReceive, FP!WaitReceive, Finished!Capacity, FP!Capacity

\* The operations of waitEvents are those SignalWaitProofs speaks of.
LEMMA FlushedSteps ==
  /\ Flushed!Init => LP!Init
  /\ \A s \in {"published", "limit"} :
       /\ Flushed!Add(s) => LP!Add(s)
       /\ Flushed!Fire(s) => LP!Fire(s)
       /\ Flushed!Send(s) => LP!Send(s)
  /\ Flushed!WaitCall => LP!WaitCall
  /\ Flushed!WaitReceive => LP!WaitReceive
BY DEF Flushed!Init, LP!Init, Flushed!Add, LP!Add, Flushed!Fire, LP!Fire, Flushed!Send, LP!Send,
   Flushed!WaitCall, LP!WaitCall, Flushed!WaitReceive, LP!WaitReceive, Flushed!Capacity, LP!Capacity

-----------------------------------------------------------------------------

\* Each step of the beater is one of the component's, or none.
LEMMA ImplementsCrawler == [Next]_vars => [CP!Next]_(CP!vars)
<1> SUFFICES ASSUME [Next]_vars, ~UNCHANGED crawlerVars PROVE CP!Next
  BY DEF crawlerVars, CP!vars, CP!wgVars
<1> USE CrawlerSteps DEF CP!Next, CP!Owner
<1>1. CASE StartCrawler \/ AbortStart \/ StopCrawler
  BY <1>1 DEF StartCrawler, AbortStart, StopCrawler
<1>2. CASE CrawlerStopping \/ Stoppers \/ RunOnce \/ CrawlerReloader
  BY <1>2 DEF CrawlerStopping, Stoppers, RunOnce, CrawlerReloader
<1>3. ASSUME NEW p \in Publishers, Input(p) PROVE CP!Next
  <2>1. RunnerEnds(p)
    BY <1>3 DEF Input, Connect, CloseRef, Collect, CollectEnds
  <2>2. p \in Index /\ Crawler!RunnerEnds(p)
    BY <2>1 DEF RunnerEnds
  <2> QED BY <2>2
<1> QED BY <1>1, <1>2, <1>3 DEF Next, Main, InitLoader, AddOnce, StartDiscover, StartManager, AddDone,
  WaitFinished, StopLists, StopDiscover, AbortedStart, AddPublished, AddLimit, StopManager,
  WaitEvents, Return, Stop, FinishedSignal, WaitCounter, FlushedSignal, Reload, Publish, Pipeline, vars

\* A step of the beater is a step of the event counter, or leaves it alone.
LEMMA ImplementsCounter == [Next]_vars => [EP!Next]_(EP!vars)
<1> SUFFICES ASSUME [Next]_vars, ~UNCHANGED counterVars PROVE EP!Next
  BY DEF counterVars, EP!vars
<1> USE CounterSteps DEF EP!Next
<1>1. CASE WaitCounter
  BY <1>1 DEF WaitCounter
<1>2. ASSUME NEW e \in Events, Publish(e) \/ Pipeline(e) PROVE EP!Next
  BY <1>2 DEF Publish, Pipeline
<1>3. ASSUME NEW p \in Publishers, Input(p) PROVE EP!Next
  <2>1. Counter!Connect(p) \/ Counter!Close(p)
    BY <1>3 DEF Input, Connect, CloseRef, Collect, CollectEnds, RunnerEnds
  <2> QED BY <2>1
<1> QED BY <1>1, <1>2, <1>3 DEF Next, Main, InitLoader, StartCrawler, AbortStart, AddOnce, StartDiscover,
  StartManager, AddDone, WaitFinished, StopLists, StopDiscover, StopCrawler, CrawlerStopping, AbortedStart,
  AddPublished, AddLimit, StopManager, WaitEvents, Return, Stop, RunOnce, FinishedSignal, FlushedSignal,
  Stoppers, CrawlerReloader, Reload, vars

\* A step of the beater is a step of waitFinished, or leaves it alone.
LEMMA ImplementsFinished == [Next]_vars => [FP!Next]_(FP!vars)
<1> SUFFICES ASSUME [Next]_vars, ~UNCHANGED finishedVars PROVE FP!Next
  BY DEF finishedVars, FP!vars
<1>1. AddOnce \/ AddDone \/ WaitFinished \/ FinishedSignal
  BY DEF Next, Main, InitLoader, StartCrawler, AbortStart, StartDiscover,
  StartManager, StopLists, StopDiscover, StopCrawler, CrawlerStopping, AbortedStart,
  AddPublished, AddLimit, StopManager, WaitEvents, Return, Stop, RunOnce, WaitCounter, FlushedSignal,
  Stoppers, CrawlerReloader, Reload, Input, Connect, CloseRef, Collect, CollectEnds, RunnerEnds,
  Publish, Pipeline, vars, signalVars
<1> QED BY <1>1, FinishedSteps DEF FP!Next, AddOnce, AddDone, WaitFinished, FinishedSignal

\* A step of the beater is a step of waitEvents, or leaves it alone.
LEMMA ImplementsFlushed == [Next]_vars => [LP!Next]_(LP!vars)
<1> SUFFICES ASSUME [Next]_vars, ~UNCHANGED flushedVars PROVE LP!Next
  BY DEF flushedVars, LP!vars
<1>1. AddPublished \/ AddLimit \/ WaitEvents \/ FlushedSignal
  BY DEF Next, Main, InitLoader, StartCrawler, AbortStart, AddOnce, StartDiscover,
  StartManager, AddDone, WaitFinished, StopLists, StopDiscover, StopCrawler, CrawlerStopping, AbortedStart,
  StopManager, Return, Stop, RunOnce, FinishedSignal, WaitCounter,
  Stoppers, CrawlerReloader, Reload, Input, Connect, CloseRef, Collect, CollectEnds, RunnerEnds,
  Publish, Pipeline, vars, signalVars
<1> QED BY <1>1, FlushedSteps DEF LP!Next, AddPublished, AddLimit, WaitEvents, FlushedSignal

\* Hence every component keeps its own invariant inside of the beater.
LEMMA ComponentsKept ==
  /\ Init => Components
  /\ Components /\ [Next]_vars => Components'
<1>1. Init => Components
  BY CrawlerIInv, CounterIInv, FinishedIInv, FlushedIInv, CrawlerSteps, CounterSteps, FinishedSteps,
     FlushedSteps DEF Init, Components
<1>2. Components /\ [Next]_vars => Components'
  BY CrawlerIInv, CounterIInv, FinishedIInv, FlushedIInv, ImplementsCrawler, ImplementsCounter,
     ImplementsFinished, ImplementsFlushed DEF Components
<1> QED BY <1>1, <1>2

-----------------------------------------------------------------------------

\* What the beater needs to know of its components.
LEMMA CrawlerFacts ==
  ASSUME CP!IInv
  PROVE  /\ config \in Settings
         /\ config.once \in BOOLEAN
         /\ crawlerPc \in {"starting", "started", "failed", "stopping", "waiting", "stopped"}
         /\ runner \in [Index -> RunnerStates]
         /\ crawlerPc = "stopped" => \A i \in Index : runner[i] \notin {"running", "cancelled"}
         /\ \A i \in Index : runner[i] = "cancelled" => crawlerPc \in {"stopping", "waiting"}
         /\ ~config.once => crawlerPanic = "none"
<1>a. CP!Index = Index /\ CP!SettingType = Crawler!SettingType
  BY DEF CP!Index, Index, CP!SettingType, Crawler!SettingType, Crawler!Index
<1>1. CP!TypeOK
  BY DEF CP!IInv
<1>2. /\ config \in Settings
      /\ crawlerPc \in {"starting", "started", "failed", "stopping", "waiting", "stopped"}
      /\ runner \in [Index -> RunnerStates]
  BY <1>a, <1>1 DEF CP!TypeOK, RunnerStates
<1>3. config.once \in BOOLEAN
  BY <1>2, SettingsType DEF Crawler!SettingType
<1>4. CP!StopComplete /\ CP!CancelledByStop
  BY <1>a, CP!StoppedIsQuiet, CP!CancelledHasStopper, NType, SettingsType
<1>5. /\ crawlerPc = "stopped" => \A i \in Index : runner[i] \notin {"running", "cancelled"}
      /\ \A i \in Index : runner[i] = "cancelled" => crawlerPc \in {"stopping", "waiting"}
  BY <1>a, <1>4 DEF CP!StopComplete, CP!CancelledByStop, CP!Alive
<1>6. ~config.once => crawlerPanic = "none"
  BY DEF CP!IInv, CP!OneWaiter
<1> QED BY <1>2, <1>3, <1>5, <1>6

\* What the beater's own invariant needs of the event counter: a counter at zero
\* has no event in the pipeline.
LEMMA CounterFacts ==
  ASSUME EP!IInv
  PROVE  /\ client \in [Publishers -> {"none", "open", "closed"}]
         /\ event \in [Events -> {"new", "counted", "accepted", "queued", "acked",
                                  "filtered", "dropped"}]
         /\ active \in Nat
         /\ activeWaiter \in [{"shutdown"} -> {"out", "blocked", "released", "returned"}]
         /\ eventPanic \in {"none", "reused"}
         /\ active = 0 => \A e \in Events : event[e] \in {"new", "dropped"}
<1>1. EP!TypeOK /\ EP!Balance /\ EP!NeverNegative
  BY DEF EP!IInv
<1>2. EP!Cardinality(EP!Outstanding) = 0 <=> EP!Outstanding = {}
  <2>1. EP!IsFiniteSet(Events)
    BY EventsFinite DEF EP!IsFiniteSet, IsFiniteSet
  <2> QED BY <2>1, EP!OutstandingFinite, ClientOfType
<1>3. active = 0 => EP!Outstanding = {}
  BY <1>1, <1>2 DEF EP!Balance
<1> QED BY <1>1, <1>3 DEF EP!TypeOK, EP!NeverNegative, EP!Outstanding, EP!InState

\* What it needs of both signalWaits: a count of zero leaves nobody to wait for.
LEMMA SignalFacts ==
  ASSUME FP!IInv, LP!IInv
  PROVE  /\ finCount \in Nat /\ finSignals \in {0, 1}
         /\ finGoroutine \in [{"once", "done"} -> {"idle", "running", "sending", "gone"}]
         /\ finWaiter \in {"out", "waiting", "returned"}
         /\ finCount = 0 => \A s \in {"once", "done"} : finGoroutine[s] \in {"idle", "gone"}
         /\ evtCount \in Nat /\ evtSignals \in {0, 1}
         /\ evtGoroutine \in [{"published", "limit"} -> {"idle", "running", "sending", "gone"}]
         /\ evtWaiter \in {"out", "waiting", "returned"}
         /\ evtCount = 0 => \A s \in {"published", "limit"} : evtGoroutine[s] \in {"idle", "gone"}
<1>1. FP!TypeOK /\ FP!CountExact /\ LP!TypeOK /\ LP!CountExact
  BY DEF FP!IInv, LP!IInv
<1>2. FP!IsFiniteSet({"once", "done"}) /\ LP!IsFiniteSet({"published", "limit"})
  <2>1. IsFiniteSet({"once", "done"}) /\ IsFiniteSet({"published", "limit"})
    BY PairFinite
  <2> QED BY <2>1 DEF FP!IsFiniteSet, LP!IsFiniteSet, IsFiniteSet
<1>3. finCount = 0 => FP!Running = {} /\ FP!Sending = {}
  BY <1>1, <1>2, FP!SetsFinite, FP!EmptyMeansZero DEF FP!TypeOK, FP!CountExact, FP!Capacity
<1>4. evtCount = 0 => LP!Running = {} /\ LP!Sending = {}
  BY <1>1, <1>2, LP!SetsFinite, LP!EmptyMeansZero DEF LP!TypeOK, LP!CountExact, LP!Capacity
<1>5. \A i \in 0..1 : i \in {0, 1}
  OBVIOUS
<1> QED BY <1>1, <1>3, <1>4, <1>5 DEF FP!TypeOK, FP!Running, FP!Sending, FP!Capacity,
           LP!TypeOK, LP!Running, LP!Sending, LP!Capacity

-----------------------------------------------------------------------------

\* Before Run nothing of the order is violated.
LEMMA InitOrder == Init => OwnOrder /\ ErrorOrder /\ InputOrder
<1> SUFFICES ASSUME Init PROVE OwnOrder /\ ErrorOrder /\ InputOrder
  OBVIOUS
<1>1. OwnTypes /\ RunOrder
  BY DEF Init, OwnTypes, Phases, RunnerStates, RunOrder, Ending, Closing, Crawler!Init
<1>2. FinishedReason /\ ListOrder /\ FlushedReason
  BY DEF Init, FinishedReason, ListOrder, FlushedReason, Ending, Closing, Finished!Init,
     Flushed!Init, Counter!Init, Counter!WG!Init
<1>3. InputOrder
  BY DEF Init, InputOrder, RunnerOwns, NothingTaken, QuietRelease, CounterSafe, Counter!Init, Counter!WG!Init
<1>4. ErrorOrder
  BY DEF Init, ErrorOrder, Crawler!Init, Crawler!Index, Index
<1> QED BY <1>1, <1>2, <1>3, <1>4 DEF OwnOrder

Live(p) == State(p) \in {"running", "cancelled"}

\* What the properties say of the inputs is kept by every step that leaves
\* the event counter and the collections alone and ends no runner.
LEMMA InputsKept ==
  ASSUME InputOrder, UNCHANGED <<counterVars, collector, options>>,
         \A p \in Publishers : Live(p) => Live(p)'
  PROVE  InputOrder'
<1>1. UNCHANGED <<client, event, active, activeWaiter, eventPanic, collector, options>>
  BY DEF counterVars
<1>2. RunnerOwns'
  BY <1>1 DEF InputOrder, RunnerOwns, Live
<1>3. NothingTaken' /\ QuietRelease' /\ CounterSafe'
  BY <1>1 DEF InputOrder, NothingTaken, QuietRelease, CounterSafe
<1> QED BY <1>2, <1>3 DEF InputOrder

\* Run on its way to the wait for the end of the run, or to an error.
LEMMA StartKeeps ==
  ASSUME Components, OwnOrder, InputOrder,
         \/ InitLoader \/ AbortStart \/ AddOnce \/ StartDiscover \/ StartManager \/ AddDone
         \/ AbortedStart
  PROVE  OwnOrder' /\ InputOrder'
<1> USE DEF OwnOrder, Components, InitLoader, AbortStart, AddOnce, StartDiscover, StartManager,
        AddDone, AbortedStart, Goto
<1>u. UNCHANGED <<config, runner, flushedVars, counterVars, collector, options, done, dynamic>>
  BY DEF Crawler!Stop, crawlerVars, signalVars, lists
<1>v. UNCHANGED <<evtSignals, evtGoroutine, evtWaiter, activeWaiter, finSignals, finWaiter>>
  BY <1>u DEF counterVars, flushedVars, signalVars, finishedVars, Finished!Add
<1>1. InputOrder'
  BY <1>u, InputsKept DEF Live, State
<1>2. OwnTypes'
  BY <1>u DEF OwnTypes, Phases, lists
<1>3. RunOrder'
  BY <1>u, CrawlerFacts DEF OwnTypes, RunOrder, Ending, Closing, lists, crawlerVars, Crawler!Stop
<1>4. FinishedReason'
  BY <1>u, <1>v, SignalFacts DEF OwnTypes, RunOrder, FinishedReason, Ending, Closing,
     finishedVars, signalVars, Finished!Add
<1>5. ListOrder'
  BY <1>u, <1>v DEF ListOrder, RunOrder, Ending, Closing, Quiet
<1>6. FlushedReason'
  BY <1>u, <1>v DEF OwnTypes, RunOrder, FlushedReason, WaitPublished, Ending
<1> QED BY <1>1, <1>2, <1>3, <1>4, <1>5, <1>6

\* Run from there on.
LEMMA ShutdownKeeps ==
  ASSUME Components, OwnOrder, InputOrder,
         \/ StopLists \/ StopDiscover \/ StopCrawler \/ AddPublished \/ AddLimit \/ StopManager
         \/ Return
  PROVE  OwnOrder' /\ InputOrder'
<1> USE DEF OwnOrder, Components, StopLists, StopDiscover, StopCrawler, AddPublished, AddLimit,
        StopManager, Return, Goto
<1>u. /\ UNCHANGED <<config, runner, counterVars, collector, options, done>>
      /\ UNCHANGED <<finCount, finSignals, finGoroutine, finWaiter, activeWaiter, evtSignals, evtWaiter>>
  BY DEF Crawler!Stop, Flushed!Add, crawlerVars, signalVars, finishedVars, flushedVars, counterVars, lists
<1>d. /\ dynamic' \in [{Managed, Discovered} -> RunnerStates]
      /\ \A p \in {Managed, Discovered} :
           /\ dynamic'[p] = dynamic[p] \/ (dynamic[p] = "running" /\ dynamic'[p] = "cancelled")
           /\ dynamic'[p] = "cancelled" => dynamic[p] = "cancelled" \/ pc \in {"waitFinished", "stopLists"}
           /\ pc \in {"stopDiscover", "stopCrawler", "addLimit", "stopManager", "defers"} => dynamic'[p] = dynamic[p]
  BY DEF OwnTypes, Cancelled, lists, RunnerStates
<1>1. InputOrder'
  <2>1. ASSUME NEW p \in Publishers, Live(p) PROVE Live(p)'
    <3>1. p \in Index \/ p \in {Managed, Discovered}
      BY NType DEF Publishers, Index, Managed, Discovered
    <3> QED BY <1>u, <1>d, <2>1, <3>1 DEF Live, State
  <2> QED BY <1>u, <2>1, InputsKept
<1>2. OwnTypes'
  BY <1>u, <1>d DEF OwnTypes, Phases, lists
<1>3. RunOrder'
  BY <1>u, CrawlerFacts DEF OwnTypes, RunOrder, Ending, Closing, lists, crawlerVars, Crawler!Stop
<1>4. FinishedReason'
  BY <1>u DEF OwnTypes, RunOrder, FinishedReason, Ending, Closing
<1>5. ListOrder'
  BY <1>u, <1>d DEF OwnTypes, FinishedReason, ListOrder, RunOrder, Ending, Closing, Quiet, lists
<1>6. FlushedReason'
  BY <1>u, SignalFacts DEF OwnTypes, RunOrder, FlushedReason, WaitPublished, Ending,
     Flushed!Add, flushedVars, signalVars
<1> QED BY <1>1, <1>2, <1>3, <1>4, <1>5, <1>6

\* The steps of the crawler and its goroutines.
LEMMA CrawlerKeeps ==
  ASSUME Components, OwnOrder, InputOrder,
         StartCrawler \/ CrawlerStopping \/ RunOnce \/ Stoppers \/ CrawlerReloader
  PROVE  OwnOrder' /\ InputOrder'
<1> USE DEF OwnOrder, Components
<1>c. /\ UNCHANGED <<config, counterVars, signalVars, options, pc, done, lists, collector, result>>
      /\ \A i \in Index : runner[i] \in {"running", "cancelled"} =>
           runner'[i] \in {"running", "cancelled"}
      /\ \/ crawlerPc' = crawlerPc
         \/ pc = "starting" /\ crawlerPc' \in {"starting", "started", "failed"}
         \/ pc \in {"abort", "stopCrawler"} /\ crawlerPc' \in {"waiting", "stopped"}
  BY CrawlerFacts DEF StartCrawler, CrawlerStopping, RunOnce, Stoppers, CrawlerReloader,
     Crawler!StartInput, Crawler!SkipDisabled, Crawler!Reject, Crawler!StartRunner,
     Crawler!StartReloader, Crawler!asyncWaitStop, Crawler!StopWait, Crawler!Resume, Crawler!Stopped,
     Crawler!OnceWait, Crawler!StopperCancel, Crawler!StopperReturn, Crawler!ReloaderStep
<1>1. InputOrder'
  BY <1>c, InputsKept DEF Live, State, lists
<1>2. OwnTypes' /\ RunOrder'
  BY <1>c DEF OwnTypes, RunOrder, Ending, Closing, lists
<1>3. FinishedReason' /\ ListOrder'
  BY <1>c DEF FinishedReason, ListOrder, Ending, Closing, Quiet, lists, signalVars, finishedVars
<1>4. FlushedReason'
  BY <1>c DEF FlushedReason, Ending, WaitPublished, signalVars, flushedVars, counterVars
<1> QED BY <1>1, <1>2, <1>3, <1>4

\* The waits of Run and the goroutines that end them.
LEMMA SignalKeeps ==
  ASSUME Components, OwnOrder, InputOrder, WaitFinished \/ FinishedSignal \/ WaitEvents \/ FlushedSignal
  PROVE  OwnOrder' /\ InputOrder'
<1> USE DEF OwnOrder, Components
<1>u. UNCHANGED <<crawlerVars, counterVars, options, pc, done, lists, collector, result>>
  BY DEF WaitFinished, FinishedSignal, WaitEvents, FlushedSignal
<1>v. /\ UNCHANGED <<config, runner, crawlerPc, dynamic, manager, discover, activeWaiter>>
  BY <1>u DEF crawlerVars, counterVars, lists
<1>1. InputOrder'
  BY <1>u, <1>v, InputsKept DEF Live, State
<1>2. OwnTypes' /\ RunOrder'
  BY <1>u, <1>v DEF OwnTypes, RunOrder, Ending, Closing
<1>3. CASE WaitFinished \/ FinishedSignal
  <2>1. FinishedReason'
    <3>1. CASE WaitFinished /\ Finished!WaitCall
      BY <1>u, <1>v, <3>1, SignalFacts DEF FinishedReason, Closing, Ending, WaitFinished, Finished!WaitCall
    <3>2. CASE WaitFinished /\ Finished!WaitReceive
      BY <1>u, <1>v, <3>2, SignalFacts DEF FinishedReason, Closing, Ending, WaitFinished, Finished!WaitReceive
    <3>3. CASE FinishedSignal
      BY <1>u, <1>v, <3>3, SignalFacts DEF FinishedReason, Closing, Ending, FinishedSignal, Finished!Fire, Finished!Send
    <3> QED BY <1>3, <3>1, <3>2, <3>3 DEF WaitFinished
  <2>2. finWaiter = "returned" => finWaiter' = "returned"
    BY <1>3 DEF WaitFinished, FinishedSignal, Finished!WaitCall, Finished!WaitReceive, Finished!Fire, Finished!Send
  <2>3. ListOrder'
    BY <1>u, <1>v, <2>2 DEF ListOrder, Closing, Ending, Quiet
  <2>4. UNCHANGED <<evtCount, evtSignals, evtGoroutine, evtWaiter>>
    BY <1>3 DEF WaitFinished, FinishedSignal, flushedVars
  <2>5. FlushedReason'
    BY <1>u, <1>v, <2>4 DEF FlushedReason, Ending, WaitPublished
  <2> QED BY <1>1, <1>2, <2>1, <2>3, <2>5
<1>4. CASE WaitEvents \/ FlushedSignal
  <2>1. UNCHANGED <<finCount, finSignals, finGoroutine, finWaiter>>
    BY <1>4 DEF WaitEvents, FlushedSignal, finishedVars
  <2>2. FinishedReason' /\ ListOrder'
    BY <1>u, <1>v, <2>1 DEF FinishedReason, ListOrder, Closing, Ending, Quiet
  <2>3. FlushedReason'
    <3>1. CASE WaitEvents /\ Flushed!WaitCall
      BY <1>u, <1>v, <3>1, SignalFacts DEF OwnTypes, RunOrder, FlushedReason, Ending, WaitPublished,
         WaitEvents, Flushed!WaitCall
    <3>2. CASE WaitEvents /\ Flushed!WaitReceive
      BY <1>u, <1>v, <3>2, SignalFacts DEF OwnTypes, RunOrder, FlushedReason, Ending, WaitPublished,
         WaitEvents, Flushed!WaitReceive
    <3>3. CASE FlushedSignal
      BY <1>u, <1>v, <3>3, SignalFacts DEF FlushedReason, Ending, WaitPublished, FlushedSignal,
         Flushed!Fire, Flushed!Send
    <3> QED BY <1>4, <3>1, <3>2, <3>3 DEF WaitEvents
  <2> QED BY <1>1, <1>2, <2>2, <2>3
<1> QED BY <1>3, <1>4

\* No configured and no discovered input runs once the counter is waited for.
LEMMA QuietAtWait == Components /\ OwnOrder => CounterAfterInputs
<1> SUFFICES ASSUME Components, OwnOrder, activeWaiter["shutdown"] # "out",
                    NEW p \in Index \cup {Discovered}, Live(p)
             PROVE  FALSE
  BY DEF CounterAfterInputs, LiveRunners, Live
<1>1. pc \in {"addLimit", "stopManager"} \/ Ending
  BY DEF OwnOrder, FlushedReason
<1>2. crawlerPc = "stopped" /\ Quiet(Discovered)
  BY <1>1 DEF OwnOrder, RunOrder, ListOrder, Closing, Ending
<1>3. p \notin Index
  BY <1>2, CrawlerFacts DEF Components, Live, State
<1>4. p = Discovered /\ Discovered \notin Index
  BY <1>3, NType DEF Discovered, Index
<1> QED BY <1>2, <1>4 DEF Live, State, Quiet

\* Stop, an input that a list gets, and the start and the end of a collection.
LEMMA OwnKeeps ==
  ASSUME Components, OwnOrder, InputOrder,
         Stop \/ Reload \/ \E p \in Publishers : Collect(p) \/ CollectEnds(p)
  PROVE  OwnOrder' /\ InputOrder'
<1> USE DEF OwnOrder, Components
<1>u. UNCHANGED <<crawlerVars, counterVars, signalVars, options, pc, manager, discover, result>>
  BY DEF Stop, Reload, Collect, CollectEnds, lists
<1>v. /\ UNCHANGED <<config, runner, crawlerPc, finSignals, finGoroutine, finWaiter>>
      /\ UNCHANGED <<evtSignals, evtGoroutine, evtWaiter>>
      /\ UNCHANGED <<client, event, active, activeWaiter, eventPanic>>
  BY <1>u DEF crawlerVars, counterVars, signalVars, finishedVars, flushedVars
<1>d. done' \in BOOLEAN /\ (done => done')
  BY DEF OwnTypes, Stop, Reload, Collect, CollectEnds
<1>l. /\ dynamic' \in [{Managed, Discovered} -> RunnerStates]
      /\ \A p \in {Managed, Discovered} :
           \/ dynamic'[p] = dynamic[p]
           \/ /\ dynamic[p] = "absent" /\ dynamic'[p] = "running"
              /\ IF p = Managed THEN options.agent ELSE discover = "on"
  BY DEF OwnTypes, Stop, Reload, Collect, CollectEnds, lists, RunnerStates
<1>c. /\ collector' \in [Publishers -> {"idle", "running", "ended"}]
      /\ \A p \in Publishers : collector'[p] = "running" => collector[p] = "running" \/ Live(p)
  BY DEF OwnTypes, Stop, Reload, Collect, CollectEnds, Live
<1>s. \A p \in Publishers : Live(p) => Live(p)'
  <2> SUFFICES ASSUME NEW p \in Publishers, Live(p) PROVE Live(p)'
    OBVIOUS
  <2>1. p \in Index \/ p \in {Managed, Discovered}
    BY NType DEF Publishers, Index, Managed, Discovered
  <2> QED BY <1>v, <1>l, <2>1 DEF Live, State
<1>1. InputOrder'
  <2>1. RunnerOwns'
    BY <1>u, <1>v, <1>c, <1>s DEF InputOrder, RunnerOwns, Live
  <2>2. NothingTaken' /\ QuietRelease' /\ CounterSafe'
    BY <1>u, <1>v DEF InputOrder, NothingTaken, QuietRelease, CounterSafe
  <2> QED BY <2>1, <2>2 DEF InputOrder
<1>2. OwnTypes' /\ RunOrder' /\ FinishedReason'
  BY <1>u, <1>v, <1>d, <1>l, <1>c DEF OwnTypes, RunOrder, FinishedReason, Closing, Ending
<1>3. ListOrder'
  <2>1. Managed # Discovered
    BY NType DEF Managed, Discovered
  <2> QED BY <1>u, <1>v, <1>l, <2>1 DEF ListOrder, Closing, Ending, Quiet
<1>4. FlushedReason'
  BY <1>u, <1>v DEF FlushedReason, Ending, WaitPublished
<1> QED BY <1>1, <1>2, <1>3, <1>4

\* A runner that ends takes its client with it.
LEMMA RunnerKeeps ==
  ASSUME Components, OwnOrder, InputOrder, NEW p \in Publishers, RunnerEnds(p)
  PROVE  OwnOrder' /\ InputOrder'
<1> USE DEF OwnOrder, Components
<1>u. UNCHANGED <<signalVars, options, pc, done, manager, discover, collector, result>>
  BY DEF RunnerEnds
<1>v. /\ UNCHANGED <<config, crawlerPc, finSignals, finGoroutine, finWaiter>>
      /\ UNCHANGED <<evtSignals, evtGoroutine, evtWaiter>>
      /\ UNCHANGED <<event, active, activeWaiter, eventPanic>>
  BY <1>u DEF RunnerEnds, Crawler!RunnerEnds, crawlerVars, counterVars, signalVars, finishedVars, flushedVars,
     Counter!Close, Counter!wgVars
<1>x. /\ client' \in [Publishers -> {"none", "open", "closed"}]
      /\ client'[p] # "open"
      /\ \A q \in Publishers : client'[q] = "open" => client[q] = "open"
  BY CounterFacts DEF RunnerEnds, counterVars, Counter!Close
<1>i. Index \subseteq Publishers /\ (p \notin Index => p \in {Managed, Discovered})
  BY NType DEF Publishers, Index, Managed, Discovered
<1>l. /\ dynamic' \in [{Managed, Discovered} -> RunnerStates]
      /\ \A q \in {Managed, Discovered} :
           dynamic'[q] = dynamic[q] \/ (q = p /\ dynamic[q] # "absent" /\ dynamic'[q] = "done")
  BY <1>i DEF OwnTypes, RunnerEnds, RunnerStates
<1>s. \A q \in Publishers : q # p /\ Live(q) => Live(q)'
  <2> SUFFICES ASSUME NEW q \in Publishers, q # p, Live(q) PROVE Live(q)'
    OBVIOUS
  <2>1. q \in Index \/ q \in {Managed, Discovered}
    BY NType DEF Publishers, Index, Managed, Discovered
  <2> QED BY <1>i, <1>l, <2>1, CrawlerFacts DEF Live, State, RunnerEnds, Crawler!RunnerEnds, crawlerVars
<1>1. InputOrder'
  <2>1. p \notin options.detached => collector[p] # "running"
    BY DEF RunnerEnds
  <2>2. RunnerOwns'
    BY <1>u, <1>x, <1>s, <2>1 DEF InputOrder, RunnerOwns, Live
  <2>3. NothingTaken' /\ QuietRelease' /\ CounterSafe'
    BY <1>u, <1>v DEF InputOrder, NothingTaken, QuietRelease, CounterSafe
  <2> QED BY <2>2, <2>3 DEF InputOrder
<1>2. OwnTypes' /\ RunOrder' /\ FinishedReason'
  BY <1>u, <1>v, <1>l DEF OwnTypes, RunOrder, FinishedReason, Closing, Ending
<1>3. ListOrder'
  BY <1>u, <1>v, <1>l DEF ListOrder, Closing, Ending, Quiet
<1>4. FlushedReason'
  BY <1>u, <1>v DEF FlushedReason, Ending, WaitPublished
<1> QED BY <1>1, <1>2, <1>3, <1>4

\* The steps of the event counter leave the beater's own variables alone.
LEMMA CounterFrame ==
  ASSUME OwnOrder, UNCHANGED <<crawlerVars, signalVars, options, pc, done, lists, collector, result>>,
         activeWaiter["shutdown"] # activeWaiter'["shutdown"] =>
           /\ evtGoroutine["published"] = "running"
           /\ activeWaiter["shutdown"] # "returned"
  PROVE  OwnOrder'
<1>u. /\ UNCHANGED <<config, runner, crawlerPc, finSignals, finGoroutine, finWaiter>>
      /\ UNCHANGED <<evtSignals, evtGoroutine, evtWaiter, dynamic, manager, discover>>
  BY DEF crawlerVars, signalVars, finishedVars, flushedVars, lists
<1>1. OwnTypes' /\ RunOrder' /\ FinishedReason'
  BY <1>u DEF OwnOrder, OwnTypes, RunOrder, FinishedReason, Closing, Ending
<1>2. ListOrder'
  BY <1>u DEF OwnOrder, ListOrder, Closing, Ending, Quiet
<1>3. FlushedReason'
  BY <1>u DEF OwnOrder, FlushedReason, Ending, WaitPublished
<1> QED BY <1>1, <1>2, <1>3 DEF OwnOrder

\* A client is connected by a runner and closed with it.
LEMMA ClientKeeps ==
  ASSUME Components, OwnOrder, InputOrder, NEW p \in Publishers, Connect(p) \/ CloseRef(p)
  PROVE  OwnOrder' /\ InputOrder'
<1> USE DEF Components
<1>u. /\ UNCHANGED <<crawlerVars, signalVars, options, pc, done, lists, collector, result>>
      /\ UNCHANGED <<event, active, activeWaiter, eventPanic>>
  BY DEF Connect, CloseRef, Counter!Connect, Counter!Close, Counter!wgVars
<1>v. UNCHANGED <<runner, dynamic>>
  BY <1>u DEF crawlerVars, lists
<1>1. OwnOrder'
  BY <1>u, CounterFrame
<1>2. RunnerOwns'
  BY <1>u, <1>v, CounterFacts DEF InputOrder, RunnerOwns, State, Connect, CloseRef,
     Counter!Connect, Counter!Close
<1>3. NothingTaken' /\ QuietRelease' /\ CounterSafe'
  BY <1>u DEF InputOrder, NothingTaken, QuietRelease, CounterSafe
<1> QED BY <1>1, <1>2, <1>3 DEF InputOrder

\* Nobody publishes during the wait of the shutdown when every input waits
\* for its collection and the agent is absent.
LEMMA QuietPublishers ==
  ASSUME Components, OwnOrder, InputOrder, activeWaiter["shutdown"] # "out",
         options.detached = {}, ~options.agent, NEW p \in Publishers
  PROVE  collector[p] # "running"
<1> SUFFICES ASSUME Live(p) PROVE FALSE
  BY DEF InputOrder, RunnerOwns, Live
<1>1. p \notin Index \cup {Discovered}
  BY QuietAtWait DEF CounterAfterInputs, LiveRunners, Live
<1>2. p = Managed
  BY <1>1, NType DEF Publishers, Index, Managed, Discovered
<1> QED BY <1>1, <1>2 DEF OwnOrder, ListOrder, Live, State

\* An event that is published needs an open client, and so a runner that lives.
LEMMA PublishKeeps ==
  ASSUME Components, OwnOrder, InputOrder, NEW e \in Events, Publish(e)
  PROVE  OwnOrder' /\ InputOrder'
<1> USE DEF Components
<1>t. ClientOf[e] \in Publishers
  BY ClientOfType
<1>u. /\ UNCHANGED <<crawlerVars, signalVars, options, pc, done, lists, collector, result>>
      /\ UNCHANGED <<client, activeWaiter, eventPanic>>
      /\ collector[ClientOf[e]] = "running"
  BY DEF Publish, Counter!Publish, Counter!PublishAll, Counter!WG!Add
<1>v. UNCHANGED <<runner, dynamic>>
  BY <1>u DEF crawlerVars, lists
<1>1. OwnOrder'
  BY <1>u, CounterFrame
<1>2. RunnerOwns' /\ CounterSafe'
  BY <1>u, <1>v DEF InputOrder, RunnerOwns, State, CounterSafe
<1>3. NothingTaken'
  BY <1>u DEF InputOrder, NothingTaken, Publish, Counter!Publish, Counter!PublishAll
<1>4. QuietRelease'
  BY <1>t, <1>u, QuietPublishers DEF QuietRelease
<1> QED BY <1>1, <1>2, <1>3, <1>4 DEF InputOrder

\* The pipeline accepts an event only through an open client; after wgEvents.Wait
\* only the agent's input has one.
LEMMA PipelineKeeps ==
  ASSUME Components, OwnOrder, InputOrder, NEW e \in Events, Pipeline(e)
  PROVE  OwnOrder' /\ InputOrder'
<1> USE DEF Components
<1>f. /\ event \in [Events -> {"new", "counted", "accepted", "queued", "acked",
                            "filtered", "dropped"}]
      /\ active \in Nat
      /\ activeWaiter \in [{"shutdown"} -> {"out", "blocked", "released", "returned"}]
      /\ active = 0 => event[e] \in {"new", "dropped"}
      /\ eventPanic = "none"
  BY CounterFacts DEF Pipeline, Alive
<1>u. UNCHANGED <<crawlerVars, signalVars, options, pc, done, lists, collector, result>>
  BY DEF Pipeline
<1>v. UNCHANGED <<runner, dynamic>>
  BY <1>u DEF crawlerVars, lists
<1>t. ClientOf[e] \in Publishers
  BY ClientOfType
<1>1. CASE Counter!DroppedOnPublish(e)
  <2>1. /\ active # 0 /\ active' = active - 1 /\ client' = client /\ eventPanic' = eventPanic
        /\ event' = [event EXCEPT ![e] = "dropped"]
        /\ activeWaiter' = IF active = 1
                           THEN [w \in {"shutdown"} |-> IF activeWaiter[w] = "blocked"
                                                       THEN "released" ELSE activeWaiter[w]]
                           ELSE activeWaiter
    BY <1>1, <1>f DEF Counter!DroppedOnPublish, Counter!WG!Done, Counter!WG!Release
  <2>2. activeWaiter'["shutdown"] # activeWaiter["shutdown"] =>
          active' = 0 /\ activeWaiter["shutdown"] = "blocked" /\ activeWaiter'["shutdown"] = "released"
    BY <1>f, <2>1
  <2>3. activeWaiter["shutdown"] = "blocked" => evtGoroutine["published"] = "running"
    BY SignalFacts DEF OwnOrder, FlushedReason
  <2>4. OwnOrder'
    BY <1>u, <2>2, <2>3, CounterFrame
  <2>5. RunnerOwns' /\ CounterSafe'
    BY <1>u, <1>v, <2>1 DEF InputOrder, RunnerOwns, State, CounterSafe
  <2>6. QuietRelease'
    BY <1>u, <2>1, <2>2 DEF InputOrder, QuietRelease
  <2>7. NothingTaken'
    BY <1>f, <2>1, <2>2 DEF InputOrder, NothingTaken
  <2> QED BY <2>4, <2>5, <2>6, <2>7 DEF InputOrder
<1>2. CASE Counter!Accept(e) \/ Counter!FilteredOut(e) \/ Counter!Published(e) \/ Counter!Acked(e)
  <2>1. UNCHANGED <<client, active, activeWaiter, eventPanic>>
    BY <1>2 DEF Counter!Accept, Counter!FilteredOut, Counter!Published, Counter!Acked, Counter!wgVars
  <2>2. OwnOrder'
    BY <1>u, <2>1, CounterFrame
  <2>3. RunnerOwns' /\ CounterSafe' /\ QuietRelease'
    BY <1>u, <1>v, <2>1 DEF InputOrder, RunnerOwns, State, CounterSafe, QuietRelease
  <2>4. CASE Counter!Accept(e)
    <3>1. Live(ClientOf[e])
      BY <1>t, <2>4 DEF Counter!Accept, InputOrder, RunnerOwns, Live
    <3>2. activeWaiter["shutdown"] = "returned" => ClientOf[e] = Managed
      BY <1>t, <3>1, QuietAtWait, NType DEF CounterAfterInputs, LiveRunners, Live, Publishers, Index,
         Managed, Discovered
    <3>3. NothingTaken'
      BY <1>f, <2>1, <2>4, <3>2 DEF InputOrder, NothingTaken, Counter!Accept
    <3> QED BY <2>2, <2>3, <3>3 DEF InputOrder
  <2>5. CASE ~Counter!Accept(e)
    <3>1. NothingTaken'
      BY <1>2, <1>f, <2>1, <2>5 DEF InputOrder, NothingTaken, Counter!FilteredOut, Counter!Published, Counter!Acked
    <3> QED BY <2>2, <2>3, <3>1 DEF InputOrder
  <2> QED BY <2>4, <2>5
<1> QED BY <1>1, <1>2 DEF Pipeline, Counter!Answer

\* wgEvents.Wait returns at zero, when no event is with the pipeline.
LEMMA WaitKeeps ==
  ASSUME Components, OwnOrder, InputOrder, WaitCounter
  PROVE  OwnOrder' /\ InputOrder'
<1> USE DEF Components
<1>f. /\ activeWaiter \in [{"shutdown"} -> {"out", "blocked", "released", "returned"}]
      /\ active = 0 => \A e \in Events : event[e] \in {"new", "dropped"}
  BY CounterFacts
<1>u. /\ UNCHANGED <<crawlerVars, signalVars, options, pc, done, lists, collector, result>>
      /\ UNCHANGED <<client, event, active>>
      /\ evtGoroutine["published"] = "running" /\ activeWaiter["shutdown"] # "returned"
      /\ eventPanic = "none"
  BY DEF WaitCounter, Alive, Counter!Wait, Counter!Resume, Counter!WG!Wait, Counter!WG!Resume
<1>v. UNCHANGED <<runner, dynamic>>
  BY <1>u DEF crawlerVars, lists
<1>w. /\ activeWaiter'["shutdown"] = "returned" => active = 0
      /\ activeWaiter'["shutdown"] = "released" => activeWaiter["shutdown"] = "released"
      /\ eventPanic' # "none" => active # 0 /\ activeWaiter["shutdown"] = "released"
  BY <1>f, <1>u DEF WaitCounter, Counter!Wait, Counter!Resume, Counter!WG!Wait, Counter!WG!Resume
<1>1. OwnOrder'
  BY <1>u, CounterFrame
<1>2. RunnerOwns'
  BY <1>u, <1>v DEF InputOrder, RunnerOwns, State
<1>3. NothingTaken'
  BY <1>f, <1>u, <1>w DEF NothingTaken
<1>4. QuietRelease' /\ CounterSafe'
  BY <1>u, <1>w DEF InputOrder, QuietRelease, CounterSafe
<1> QED BY <1>1, <1>2, <1>3, <1>4 DEF InputOrder

-----------------------------------------------------------------------------

\* The five error returns of Run, and what is started before and after them.
LEMMA ErrorOrderKept ==
  ASSUME Components, OwnOrder, ErrorOrder, [Next]_vars
  PROVE  ErrorOrder'
<1> USE DEF OwnOrder, Components
<1>d. Managed \notin Index /\ Discovered \notin Index /\ Managed # Discovered
  BY NType DEF Managed, Discovered, Index
<1>1. CASE InitLoader \/ AbortStart \/ AddOnce \/ StartDiscover \/ StartManager \/ AddDone \/ AbortedStart
  <2>1. UNCHANGED <<runner, dynamic>>
    BY <1>1 DEF InitLoader, AbortStart, AddOnce, StartDiscover, StartManager, AddDone, AbortedStart,
       Crawler!Stop, crawlerVars, lists
  <2>2. CASE InitLoader
    BY <2>1, <2>2 DEF InitLoader, Goto, crawlerVars, lists, OwnTypes, ErrorOrder, RunOrder, Closing, Ending
  <2>3. CASE AbortStart \/ AbortedStart
    BY <2>1, <2>3 DEF AbortStart, AbortedStart, Goto, Crawler!Stop, crawlerVars, lists, OwnTypes,
       ErrorOrder, RunOrder, Closing, Ending
  <2>4. CASE AddOnce \/ StartDiscover \/ StartManager \/ AddDone
    <3>1. crawlerPc = "started" /\ crawlerPc' = "started"
      BY <2>4 DEF AddOnce, StartDiscover, StartManager, AddDone, Goto, crawlerVars, RunOrder
    <3>2. /\ pc' \notin {"init", "starting", "abort"}
          /\ discover = "off" => dynamic[Discovered] = "absent"
          /\ manager = "off" => dynamic[Managed] = "absent"
      BY <2>4 DEF AddOnce, StartDiscover, StartManager, AddDone, Goto, ErrorOrder
    <3>3. (discover' = "off" => discover = "off") /\ (manager' = "off" => manager = "off")
      BY <2>4 DEF AddOnce, StartDiscover, StartManager, AddDone, lists
    <3> QED BY <2>1, <3>1, <3>2, <3>3 DEF ErrorOrder
  <2> QED BY <1>1, <2>2, <2>3, <2>4
<1>2. CASE StopLists \/ StopDiscover \/ StopCrawler \/ AddPublished \/ AddLimit \/ StopManager \/ Return
  <2>1. \A p \in {Managed, Discovered} : dynamic[p] = "absent" => dynamic'[p] = "absent"
    BY <1>2 DEF StopLists, StopDiscover, StopCrawler, AddPublished, AddLimit, StopManager, Return,
       lists, Cancelled, OwnTypes
  <2>2. /\ UNCHANGED runner
        /\ discover' = "off" => discover = "off"
        /\ discover = "off" => discover' = "off"
        /\ manager' = "off" => manager = "off"
        /\ pc' \notin {"init", "starting", "abort"}
    BY <1>2 DEF StopLists, StopDiscover, StopCrawler, AddPublished, AddLimit, StopManager, Return,
       Crawler!Stop, crawlerVars, lists, Goto
  <2>3. CASE Return
    BY <2>1, <2>2, <2>3 DEF Return, Goto, crawlerVars, lists, ErrorOrder, RunOrder, Closing, Ending
  <2>4. CASE StopLists \/ StopDiscover \/ StopCrawler
    BY <2>1, <2>2, <2>4 DEF StopLists, StopDiscover, StopCrawler, Goto, Crawler!Stop, crawlerVars,
       ErrorOrder, RunOrder, Closing, Ending
  <2>5. CASE AddPublished
    BY <2>1, <2>2, <2>5 DEF AddPublished, Goto, crawlerVars, ErrorOrder, RunOrder, Closing, Ending
  <2>6. CASE AddLimit \/ StopManager
    BY <2>1, <2>2, <2>6 DEF AddLimit, StopManager, Goto, crawlerVars, ErrorOrder, RunOrder, Closing, Ending
  <2> QED BY <1>2, <2>3, <2>4, <2>5, <2>6
<1>3. CASE StartCrawler \/ CrawlerStopping \/ RunOnce \/ Stoppers \/ CrawlerReloader
  <2>1. UNCHANGED <<pc, result, dynamic, manager, discover>>
    BY <1>3 DEF StartCrawler, CrawlerStopping, RunOnce, Stoppers, CrawlerReloader, lists
  <2>2. CASE StartCrawler
    <3>1. pc = "starting" /\ result = "none" /\ discover = "off"
      BY <2>2 DEF StartCrawler, RunOrder, ErrorOrder, OwnTypes
    <3> QED BY <2>1, <3>1 DEF ErrorOrder
  <2>3. CASE CrawlerStopping
    <3>1. /\ pc = "abort" => discover = "off"
          /\ pc = "stopCrawler" => Closing /\ Closing'
          /\ pc \in {"abort", "stopCrawler"} /\ result = "none"
      BY <2>1, <2>3 DEF CrawlerStopping, RunOrder, ErrorOrder, OwnTypes, Closing
    <3>2. crawlerPc # "starting" /\ (crawlerPc' = crawlerPc \/ crawlerPc' \in {"waiting", "stopped"})
      BY <2>3 DEF CrawlerStopping, RunOrder, Crawler!asyncWaitStop, Crawler!StopWait, Crawler!Resume, Crawler!Stopped
    <3> QED BY <2>1, <3>1, <3>2 DEF ErrorOrder
  <2>4. CASE RunOnce \/ Stoppers \/ CrawlerReloader
    <3>1. /\ crawlerPc' = crawlerPc
          /\ \A i \in Index : runner[i] = "absent" => runner'[i] = "absent"
      BY <2>4, CrawlerFacts DEF RunOnce, Stoppers, CrawlerReloader, Crawler!Resume, Crawler!OnceWait,
         Crawler!StopperCancel, Crawler!StopperReturn, Crawler!ReloaderStep
    <3> QED BY <2>1, <3>1 DEF ErrorOrder, Closing, Ending
  <2> QED BY <1>3, <2>2, <2>3, <2>4
<1>4. CASE Reload
  <2>1. UNCHANGED <<pc, result, manager, discover, runner, crawlerPc>>
    BY <1>4 DEF Reload, crawlerVars
  <2>2. \A p \in {Managed, Discovered} :
          \/ dynamic'[p] = dynamic[p]
          \/ IF p = Managed THEN manager # "off" ELSE discover # "off"
    BY <1>4 DEF Reload, OwnTypes
  <2> QED BY <1>d, <2>1, <2>2 DEF ErrorOrder, Closing, Ending
<1>5. CASE \E p \in Publishers : RunnerEnds(p)
  <2>1. UNCHANGED <<pc, result, manager, discover, crawlerPc>>
    BY <1>5 DEF RunnerEnds, Crawler!RunnerEnds, crawlerVars
  <2>2. /\ \A i \in Index : runner[i] = "absent" => runner'[i] = "absent"
        /\ \A p \in {Managed, Discovered} : dynamic[p] = "absent" => dynamic'[p] = "absent"
    BY <1>5, CrawlerFacts DEF RunnerEnds, Crawler!RunnerEnds, crawlerVars, OwnTypes
  <2> QED BY <2>1, <2>2 DEF ErrorOrder, Closing, Ending
<1>6. CASE UNCHANGED <<pc, result, manager, discover, dynamic, runner, crawlerPc>>
  BY <1>6 DEF ErrorOrder, Closing, Ending
<1> QED BY <1>1, <1>2, <1>3, <1>4, <1>5, <1>6
  DEF Next, Main, WaitFinished, WaitEvents, Stop, FinishedSignal, WaitCounter, FlushedSignal, Input,
      Connect, CloseRef, Collect, CollectEnds, Publish, Pipeline, vars, crawlerVars, lists

\* The invariant holds initially.
LEMMA InitIInv == Init => IInv
BY ComponentsKept, InitOrder DEF IInv

\* Every step keeps the invariant.
LEMMA NextIInv == IInv /\ [Next]_vars => IInv'
<1> SUFFICES ASSUME Components, OwnOrder, InputOrder, [Next]_vars PROVE OwnOrder' /\ InputOrder'
  BY ComponentsKept, ErrorOrderKept DEF IInv
<1>1. CASE Main
  BY <1>1, StartKeeps, ShutdownKeeps, CrawlerKeeps, SignalKeeps DEF Main
<1>2. CASE Stop \/ Reload \/ RunOnce \/ FinishedSignal \/ WaitCounter \/ FlushedSignal
           \/ Stoppers \/ CrawlerReloader
  BY <1>2, OwnKeeps, CrawlerKeeps, SignalKeeps, WaitKeeps
<1>3. ASSUME NEW p \in Publishers, Input(p) PROVE OwnOrder' /\ InputOrder'
  BY <1>3, ClientKeeps, OwnKeeps, RunnerKeeps DEF Input
<1>4. ASSUME NEW e \in Events, Publish(e) \/ Pipeline(e) PROVE OwnOrder' /\ InputOrder'
  BY <1>4, PublishKeeps, PipelineKeeps
<1>5. CASE UNCHANGED vars
  <2>1. UNCHANGED <<crawlerVars, counterVars, signalVars, options, pc, done, lists, collector, result>>
    BY <1>5 DEF vars
  <2>2. UNCHANGED <<runner, dynamic, activeWaiter>>
    BY <2>1 DEF crawlerVars, lists, counterVars
  <2> QED BY <2>1, <2>2, CounterFrame, InputsKept DEF Live, State
<1> QED BY <1>1, <1>2, <1>3, <1>4, <1>5 DEF Next

-----------------------------------------------------------------------------

\* The shutdown waits for the event counter only when no configured and no
\* discovered input runs any more, in every interleaving of the inputs, the
\* crawler's stoppers and the goroutines of the two signalWaits.
THEOREM CounterIsLast == Spec => []CounterAfterInputs
<1>1. IInv => CounterAfterInputs
  BY QuietAtWait DEF IInv
<1> QED BY InitIInv, NextIInv, <1>1, PTL DEF Spec

\* No input is asked to end before the run is over or its start has failed.
THEOREM NobodyCancelledEarly == Spec => []CancelledAfterFinish
<1>1. IInv => CancelledAfterFinish
  <2> SUFFICES ASSUME IInv, NEW p \in Publishers, State(p) = "cancelled"
               PROVE  finWaiter = "returned" \/ (p \in Index /\ pc = "abort")
    BY DEF CancelledAfterFinish
  <2>1. CASE p \in Index
    <3>1. pc \in {"abort", "stopCrawler"}
      BY <2>1, CrawlerFacts DEF IInv, Components, OwnOrder, RunOrder, State
    <3> QED BY <2>1, <3>1 DEF IInv, OwnOrder, FinishedReason, Closing
  <2>2. CASE p \notin Index
    <3>1. p \in {Managed, Discovered}
      BY <2>2, NType DEF Publishers, Index, Managed, Discovered
    <3> QED BY <2>2, <3>1 DEF IInv, OwnOrder, ListOrder, State
  <2> QED BY <2>1, <2>2
<1> QED BY InitIInv, NextIInv, <1>1, PTL DEF Spec

\* Run returns only after every configured and every discovered input has ended
\* and its client is closed, unless the crawler had been started when
\* NewAutodiscover or Manager.Start failed; and an error leaves no input of the
\* agent behind.
THEOREM ReturnIsClean == Spec => []CleanReturn
<1>1. IInv => CleanReturn
  <2> SUFFICES ASSUME IInv, pc = "returned" PROVE CleanReturn
    BY DEF CleanReturn
  <2> USE DEF IInv, OwnOrder
  <2>1. Index \subseteq Publishers /\ {Managed, Discovered} \subseteq Publishers
        /\ Managed \notin Index /\ Discovered \notin Index
    BY NType DEF Publishers, Index, Managed, Discovered
  <2>2. result \in {"ok", "error"} /\ (Closing <=> result = "ok")
    BY DEF OwnTypes, RunOrder, Closing, Ending
  <2>3. \A p \in Publishers : p \in LiveRunners(Publishers) \/ client[p] = "open" => Live(p)
    BY DEF InputOrder, RunnerOwns, LiveRunners, Live
  <2>4. ASSUME NEW p \in Index, Live(p) PROVE result = "error" /\ crawlerPc = "started"
    <3>1. runner[p] \in {"running", "cancelled"}
      BY <2>4 DEF Live, State
    <3>2. crawlerPc # "stopped" /\ crawlerPc # "starting"
      BY <3>1, CrawlerFacts DEF Components, ErrorOrder
    <3> QED BY <2>2, <3>2 DEF RunOrder, ErrorOrder, Ending
  <2>5. ASSUME Live(Discovered) PROVE result = "error" /\ crawlerPc = "started"
    <3>1. ~Quiet(Discovered) /\ discover # "off"
      BY <2>1, <2>5 DEF Live, State, Quiet, ErrorOrder
    <3> QED BY <2>2, <3>1 DEF ListOrder, ErrorOrder
  <2>6. ASSUME Live(Managed) PROVE result = "ok"
    <3>1. manager # "off"
      BY <2>1, <2>6 DEF Live, State, ErrorOrder
    <3> QED BY <2>2, <3>1 DEF RunOrder
  <2> QED BY <2>1, <2>3, <2>4, <2>5, <2>6 DEF CleanReturn
<1> QED BY InitIInv, NextIInv, <1>1, PTL DEF Spec

\* What is left of the wait for events once the pipeline has taken one of a
\* configured input: an acknowledgement is not given back to the counter, so
\* that a shutdown ends by its limit.
TakenNeedsLimit ==
  /\ pc = "returned" /\ result = "ok" /\ WaitPublished
  /\ \E e \in Counter!Pinned : ClientOf[e] \in Index
  => evtGoroutine["limit"] \in {"sending", "gone"}

\* What run acked_wait shows of one event, for every instance: against the
\* comments of the code, nothing but the limit (shutdown_timeout, or Stop) ends
\* a shutdown that waits for events the pipeline has taken.
THEOREM OnlyLimitEnds == Spec => []TakenNeedsLimit
<1>1. IInv => TakenNeedsLimit
  <2> SUFFICES ASSUME IInv, pc = "returned", result = "ok", WaitPublished,
                      NEW e \in Counter!Pinned, ClientOf[e] \in Index,
                      evtGoroutine["limit"] \notin {"sending", "gone"}
               PROVE  FALSE
    BY DEF TakenNeedsLimit
  <2>1. evtGoroutine["published"] \in {"sending", "gone"}
    BY DEF IInv, OwnOrder, FlushedReason, Ending
  <2>2. activeWaiter["shutdown"] = "returned"
    BY <2>1 DEF IInv, OwnOrder, FlushedReason
  <2>3. e \in Events /\ event[e] \in {"queued", "acked", "filtered"}
    BY DEF Counter!Pinned, Counter!InState
  <2>4. Managed \notin Index
    BY NType DEF Managed, Index
  <2> QED BY <2>2, <2>3, <2>4 DEF IInv, InputOrder, NothingTaken
<1> QED BY InitIInv, NextIInv, <1>1, PTL DEF Spec

\* With inputs that wait for their collection, without the agent and without
\* once mode neither WaitGroup panics.
THEOREM AttachedIsSafe == Spec => []AttachedNeverPanics
<1>1. IInv => AttachedNeverPanics
  BY CrawlerFacts DEF IInv, Components, InputOrder, CounterSafe, AttachedNeverPanics, Alive
<1> QED BY InitIInv, NextIInv, <1>1, PTL DEF Spec

-----------------------------------------------------------------------------

\* The configuration stays what it was.
LEMMA ConfigKept == [Next]_vars => config' = config
<1> SUFFICES ASSUME [CP!Next]_(CP!vars) PROVE config' = config
  BY ImplementsCrawler
<1> QED BY DEF CP!vars, CP!Next, CP!Owner, CP!StartInput, CP!StartReloader, CP!StopWait, CP!Stopped,
       CP!Resume, CP!Stop, CP!OnceWait, CP!asyncWaitStop, CP!StopperCancel, CP!StopperReturn,
       CP!RunnerEnds, CP!ReloaderStep

\* Who moves the beater from one phase of the promise to another.
Movers == InitLoader \/ StartManager \/ StopManager \/ Return

\* All but Stop and the four steps above leave what a beater promises alone.
LEMMA OthersMoveNothing ==
  ASSUME Next, ~Stop, ~Movers
  PROVE  /\ Alive
         /\ UNCHANGED <<done, manager>>
         /\ pc' = "returned" <=> pc = "returned"
         /\ pc = "returned" => result' = result
<1>1. CASE Main
  BY <1>1 DEF Main, Movers, StartCrawler, AbortStart, AddOnce, StartDiscover, AddDone, WaitFinished,
     StopLists, StopDiscover, StopCrawler, CrawlerStopping, AbortedStart, AddPublished, AddLimit,
     WaitEvents, Goto, lists
<1>2. CASE Reload \/ RunOnce \/ FinishedSignal \/ WaitCounter \/ FlushedSignal \/ Stoppers \/ CrawlerReloader
  BY <1>2 DEF Reload, RunOnce, FinishedSignal, WaitCounter, FlushedSignal, Stoppers, CrawlerReloader, lists
<1>3. ASSUME NEW p \in Publishers, Input(p)
      PROVE  Alive /\ UNCHANGED <<done, manager, pc, result>>
  BY <1>3 DEF Input, Connect, CloseRef, Collect, CollectEnds, RunnerEnds, lists
<1>4. ASSUME NEW e \in Events, Publish(e) \/ Pipeline(e)
      PROVE  Alive /\ UNCHANGED <<done, manager, pc, result>>
  BY <1>4 DEF Publish, Pipeline, lists
<1> QED BY <1>1, <1>2, <1>3, <1>4 DEF Next

\* Run and Stop keep libbeat's promise step by step.
LEMMA StepRefines == IInv /\ [Next]_vars => [Promise!Next]_(Promise!vars)
<1> SUFFICES ASSUME IInv, [Next]_vars PROVE [Promise!Next]_(Promise!vars)
  OBVIOUS
<1> USE DEF IInv, OwnOrder, Promise!Next, Promise!Run, Promise!vars
<1>o. config' = config
  BY ConfigKept
<1>1. CASE Stop
  <2>1. UNCHANGED <<pc, result, manager>> /\ (Alive' <=> Alive)
    BY <1>1 DEF Stop, Alive, crawlerVars, counterVars, lists
  <2> QED BY <1>1, <1>o, <2>1 DEF Stop, Phase, Promise!Stop
<1>2. CASE InitLoader \/ StartManager
  <2>1. done' = done /\ Alive /\ Alive' /\ manager = "off"
    BY <1>2 DEF InitLoader, StartManager, Goto, Alive, crawlerVars, counterVars, RunOrder
  <2>2. CASE UNCHANGED manager
    BY <1>2, <1>o, <2>1, <2>2 DEF InitLoader, StartManager, Goto, Phase, Promise!ReturnError, lists
  <2>3. CASE ~UNCHANGED manager
    BY <1>2, <1>o, <2>1, <2>3 DEF InitLoader, StartManager, Goto, Phase, Promise!Serve, lists
  <2> QED BY <2>2, <2>3
<1>3. CASE StopManager
  <2>1. done' = done /\ Alive /\ Alive' /\ manager # "off"
    BY <1>3 DEF StopManager, Goto, Alive, crawlerVars, counterVars, RunOrder, Closing
  <2> QED BY <1>3, <1>o, <2>1 DEF StopManager, Goto, Phase
<1>4. CASE Return
  <2>1. done' = done /\ Alive /\ result' = result /\ pc = "defers" /\ pc' = "returned"
    BY <1>4 DEF Return, Goto
  <2>2. CASE result = "ok"
    <3>1. manager # "off" /\ (done \/ config.once)
      BY <2>1, <2>2 DEF RunOrder, FinishedReason, Closing, Ending
    <3> QED BY <1>o, <2>1, <2>2, <3>1 DEF Phase, Promise!Return
  <2>3. CASE result # "ok"
    <3>1. result = "error" /\ manager = "off"
      BY <2>1, <2>3 DEF OwnTypes, RunOrder
    <3> QED BY <1>o, <2>1, <3>1 DEF Phase, Promise!ReturnError
  <2> QED BY <2>2, <2>3
<1>5. CASE Next /\ ~Stop /\ ~Movers
  <2>1. /\ Alive /\ UNCHANGED <<done, manager>>
        /\ pc' = "returned" <=> pc = "returned"
        /\ pc = "returned" => result' = result
    BY <1>5, OthersMoveNothing
  <2>2. CASE pc = "returned" \/ Alive'
    BY <1>o, <2>1, <2>2 DEF Phase
  <2>3. CASE pc # "returned" /\ ~Alive'
    BY <1>o, <2>1, <2>3 DEF Phase, Promise!Panic
  <2> QED BY <2>2, <2>3
<1>6. CASE UNCHANGED vars
  BY <1>o, <1>6 DEF vars, Phase, Alive, crawlerVars, counterVars, lists
<1> QED BY <1>1, <1>2, <1>3, <1>4, <1>5, <1>6 DEF Movers

\* The beater implements Beater: its initial states and its steps are the
\* promise's.  In particular a run ends without error only in service, and
\* after Stop or in once mode.  (The fairness of Promise!Spec is left to TLC.)
THEOREM BeaterSafely == Spec => Promise!Init /\ [][Promise!Next]_(Promise!vars)
<1>1. Init => Promise!Init
  <2> SUFFICES ASSUME Init PROVE Promise!Init
    OBVIOUS
  <2>1. config.once \in BOOLEAN
    BY InitIInv, CrawlerFacts DEF IInv, Components
  <2> QED BY <2>1 DEF Init, Promise!Init, Phase, Alive, Crawler!Init, Crawler!WG!Init,
             Counter!Init, Counter!WG!Init
<1> QED BY InitIInv, NextIInv, StepRefines, <1>1, PTL DEF Spec

\* Inside of the beater each component behaves as its own module says, so what
\* its invariant states holds in every interleaving of the whole.
THEOREM ComponentsInPlace ==
  Spec => /\ [][CP!Next]_(CP!vars) /\ [][EP!Next]_(EP!vars)
          /\ [][FP!Next]_(FP!vars) /\ [][LP!Next]_(LP!vars)
          /\ []Components
BY ComponentsKept, ImplementsCrawler, ImplementsCounter, ImplementsFinished, ImplementsFlushed, PTL DEF Spec

-----------------------------------------------------------------------------

\* What the waits of the shutdown rest on: the crawler's facts (NothingMissed);
\* a list that has been told to end has no runner that was not; a signal stays
\* in its channel until its one receiver takes it; and whoever waits for events
\* has a limit besides.
WaitOrder ==
  /\ CP!NothingMissed
  /\ pc = "stopLists" => dynamic[Managed] # "running"
  /\ pc = "stopDiscover" => dynamic[Discovered] # "running"
  /\ finWaiter # "returned" /\ finSignals = 0 =>
       \A s \in {"once", "done"} : finGoroutine[s] # "gone"
  /\ evtWaiter # "returned" /\ evtSignals = 0 =>
       \A s \in {"published", "limit"} : evtGoroutine[s] # "gone"
  /\ evtGoroutine["published"] # "idle" /\ pc # "addLimit" => evtGoroutine["limit"] # "idle"
  /\ evtWaiter = "waiting" => evtGoroutine["limit"] # "idle"

\* A signalWait has a signal, or this goroutine will send one when its function
\* has returned.
Arrives(signals, goroutine) == signals > 0 \/ goroutine \in {"running", "sending"}

\* Wherever Run blocks, what it waits for can come: waitFinished is woken by the
\* closed done channel, the lists by runners that have been cancelled, the
\* crawler by its stoppers, and waitEvents at the latest by its limit.
RunGoesOn ==
  /\ pc = "waitFinished" /\ finWaiter = "waiting" => Arrives(finSignals, finGoroutine["done"])
  /\ pc = "stopLists" /\ ~Quiet(Managed) => dynamic[Managed] = "cancelled"
  /\ pc = "stopDiscover" /\ ~Quiet(Discovered) => dynamic[Discovered] = "cancelled"
  /\ pc \in {"abort", "stopCrawler"} => CP!WaitGoesOn
  /\ pc = "defers" /\ evtWaiter = "waiting" => Arrives(evtSignals, evtGoroutine["limit"])

\* CrawlerProofs has the crawler's part of both.
LEMMA CrawlerWaits ==
  /\ CP!Init => CP!NothingMissed
  /\ CP!IInv /\ CP!NothingMissed /\ [CP!Next]_(CP!vars) => CP!NothingMissed'
  /\ CP!IInv /\ CP!NothingMissed => CP!WaitGoesOn
BY CP!NothingMissedKept, CP!WaitedFor, NType, SettingsType
   DEF CP!SettingType, Crawler!SettingType, CP!Index, Crawler!Index

\* Before a function has been added to waitEvents its count is that of its signals.
LEMMA NothingAdded ==
  ASSUME LP!IInv, \A s \in {"published", "limit"} : evtGoroutine[s] = "idle"
  PROVE  evtCount = evtSignals
<1>1. LP!Running = {} /\ LP!Sending = {}
  BY DEF LP!Running, LP!Sending
<1>2. LP!IsFiniteSet({"published", "limit"})
  <2>1. IsFiniteSet({"published", "limit"})
    BY PairFinite
  <2> QED BY <2>1 DEF LP!IsFiniteSet, IsFiniteSet
<1> QED BY <1>1, <1>2, LP!EmptyMeansZero DEF LP!IInv, LP!TypeOK, LP!CountExact, LP!Capacity

\* The part of WaitOrder that is about Run and its lists.
LEMMA ListWaitsKept ==
  ASSUME IInv, WaitOrder, [Next]_vars
  PROVE  /\ pc' = "stopLists" => dynamic'[Managed] # "running"
         /\ pc' = "stopDiscover" => dynamic'[Discovered] # "running"
<1> USE DEF IInv, OwnOrder
<1>d. Managed # Discovered
  BY NType DEF Managed, Discovered
<1>1. CASE StopLists \/ StopDiscover
  BY <1>1, <1>d DEF StopLists, StopDiscover, Goto, Cancelled, OwnTypes
<1>2. CASE Reload
  <2>1. UNCHANGED pc /\ (discover = "on" => pc # "stopDiscover")
    BY <1>2 DEF Reload, ListOrder, Closing
  <2>2. /\ dynamic'[Managed] = dynamic[Managed] \/ pc # "stopLists"
        /\ dynamic'[Discovered] = dynamic[Discovered] \/ discover = "on"
    BY <1>2, <1>d DEF Reload, OwnTypes
  <2> QED BY <2>1, <2>2 DEF WaitOrder
<1>3. ASSUME NEW p \in Publishers, Input(p)
      PROVE  /\ pc' = "stopLists" => dynamic'[Managed] # "running"
             /\ pc' = "stopDiscover" => dynamic'[Discovered] # "running"
  <2>1. pc' = pc /\ (dynamic' = dynamic \/ dynamic' = [dynamic EXCEPT ![p] = "done"])
    BY <1>3 DEF Input, Connect, CloseRef, Collect, CollectEnds, RunnerEnds, lists
  <2> QED BY <2>1, <1>d DEF WaitOrder, OwnTypes
<1>4. CASE Main /\ ~StopLists /\ ~StopDiscover
  <2>1. dynamic' = dynamic /\ (pc' = pc \/ pc' \notin {"stopLists", "stopDiscover"})
    BY <1>4 DEF Main, InitLoader, StartCrawler, AbortStart, AddOnce, StartDiscover, StartManager,
       AddDone, WaitFinished, StopCrawler, CrawlerStopping, AbortedStart, AddPublished, AddLimit,
       StopManager, WaitEvents, Return, Goto, lists
  <2> QED BY <2>1 DEF WaitOrder
<1>5. CASE UNCHANGED <<pc, dynamic>>
  BY <1>5 DEF WaitOrder
<1> QED BY <1>1, <1>2, <1>3, <1>4, <1>5 DEF Next, Stop, RunOnce, FinishedSignal, WaitCounter,
  FlushedSignal, Stoppers, CrawlerReloader, Publish, Pipeline, lists, vars

\* The part that is about waitFinished.
LEMMA FinishedWaitsKept ==
  ASSUME IInv, WaitOrder, [Next]_vars, finWaiter' # "returned", finSignals' = 0,
         NEW s \in {"once", "done"}
  PROVE  finGoroutine'[s] # "gone"
<1>t. finSignals \in {0, 1} /\ finGoroutine \in [{"once", "done"} -> {"idle", "running", "sending", "gone"}]
  BY SignalFacts DEF IInv, Components
<1>1. CASE UNCHANGED finishedVars
  BY <1>1 DEF finishedVars, WaitOrder
<1>2. CASE AddOnce \/ AddDone \/ WaitFinished \/ FinishedSignal
  BY <1>2, <1>t DEF AddOnce, AddDone, WaitFinished, FinishedSignal, Finished!Add, Finished!WaitCall,
     Finished!WaitReceive, Finished!Fire, Finished!Send, finishedVars, WaitOrder
<1> QED BY <1>1, <1>2 DEF Next, Main, InitLoader, StartCrawler, AbortStart, StartDiscover,
  StartManager, StopLists, StopDiscover, StopCrawler, CrawlerStopping, AbortedStart,
  AddPublished, AddLimit, StopManager, WaitEvents, Return, Stop, RunOnce, WaitCounter, FlushedSignal,
  Stoppers, CrawlerReloader, Reload, Input, Connect, CloseRef, Collect, CollectEnds, RunnerEnds,
  Publish, Pipeline, vars, signalVars

\* The part that is about waitEvents.
LEMMA FlushedWaitsKept ==
  ASSUME IInv, WaitOrder, [Next]_vars
  PROVE  /\ evtWaiter' # "returned" /\ evtSignals' = 0 =>
              \A s \in {"published", "limit"} : evtGoroutine'[s] # "gone"
         /\ evtGoroutine'["published"] # "idle" /\ pc' # "addLimit" => evtGoroutine'["limit"] # "idle"
         /\ evtWaiter' = "waiting" => evtGoroutine'["limit"] # "idle"
<1> USE DEF IInv, OwnOrder
<1>t. /\ evtSignals \in {0, 1}
      /\ evtGoroutine \in [{"published", "limit"} -> {"idle", "running", "sending", "gone"}]
      /\ evtWaiter \in {"out", "waiting", "returned"}
  BY SignalFacts DEF Components
<1>1. CASE AddPublished
  <2>1. CASE UNCHANGED flushedVars
    BY <1>1, <2>1 DEF AddPublished, Goto, flushedVars, WaitOrder
  <2>2. CASE Flushed!Add("published") /\ pc' = "addLimit"
    BY <1>t, <2>2 DEF Flushed!Add, WaitOrder
  <2> QED BY <1>1, <2>1, <2>2 DEF AddPublished, Goto
<1>2. CASE AddLimit
  BY <1>2, <1>t DEF AddLimit, Flushed!Add, WaitOrder
<1>3. CASE WaitEvents /\ Flushed!WaitCall
  <2>1. evtGoroutine["published"] = "idle" /\ evtGoroutine["limit"] = "idle" => evtSignals = 0
    BY <1>t DEF FlushedReason
  <2>2. evtCount # 0 => evtGoroutine["limit"] # "idle"
    BY <1>3, <2>1, NothingAdded DEF Components, WaitEvents, WaitOrder
  <2> QED BY <1>3, <2>2 DEF WaitEvents, Flushed!WaitCall, WaitOrder
<1>4. CASE (WaitEvents /\ Flushed!WaitReceive) \/ FlushedSignal
  BY <1>4, <1>t DEF WaitEvents, FlushedSignal, Flushed!WaitReceive, Flushed!Fire, Flushed!Send, WaitOrder
<1>5. CASE UNCHANGED flushedVars /\ ~AddLimit
  <2>1. pc = "addLimit" => pc' = "addLimit"
    BY <1>5 DEF Next, Main, InitLoader, StartCrawler, AbortStart, AddOnce, StartDiscover,
      StartManager, AddDone, WaitFinished, StopLists, StopDiscover, StopCrawler, CrawlerStopping, AbortedStart,
      AddPublished, StopManager, WaitEvents, Return, Stop, RunOnce, FinishedSignal, WaitCounter, FlushedSignal,
      Stoppers, CrawlerReloader, Reload, Input, Connect, CloseRef, Collect, CollectEnds, RunnerEnds,
      Publish, Pipeline, vars, Goto
  <2> QED BY <1>5, <2>1 DEF flushedVars, WaitOrder
<1> QED BY <1>1, <1>2, <1>3, <1>4, <1>5 DEF Next, Main, InitLoader, StartCrawler, AbortStart, AddOnce,
  StartDiscover, StartManager, AddDone, WaitFinished, StopLists, StopDiscover, StopCrawler,
  CrawlerStopping, AbortedStart, StopManager, WaitEvents, Return, Stop, RunOnce, FinishedSignal, WaitCounter,
  Stoppers, CrawlerReloader, Reload, Input, Connect, CloseRef, Collect, CollectEnds, RunnerEnds,
  Publish, Pipeline, vars, signalVars

\* Every step keeps what the waits rest on.
LEMMA WaitOrderKept ==
  /\ Init => WaitOrder
  /\ IInv /\ WaitOrder /\ [Next]_vars => WaitOrder'
<1>1. Init => WaitOrder
  BY CrawlerWaits, CrawlerSteps DEF Init, WaitOrder, Finished!Init, Flushed!Init
<1>2. ASSUME IInv, WaitOrder, [Next]_vars PROVE WaitOrder'
  <2>1. CP!NothingMissed'
    BY <1>2, CrawlerWaits, ImplementsCrawler DEF IInv, Components, WaitOrder
  <2> QED BY <1>2, <2>1, ListWaitsKept, FinishedWaitsKept, FlushedWaitsKept DEF WaitOrder
<1> QED BY <1>1, <1>2

\* The shutdown has no deadlock: no statement of Run blocks for something that
\* cannot come, whatever the inputs, the crawler's goroutines and the pipeline do.
THEOREM ShutdownNeverStuck == Spec => []RunGoesOn
<1>1. IInv /\ WaitOrder => RunGoesOn
  <2> SUFFICES ASSUME IInv, WaitOrder PROVE RunGoesOn
    OBVIOUS
  <2> USE DEF IInv, OwnOrder, Components
  <2>1. pc = "waitFinished" /\ finWaiter = "waiting" => Arrives(finSignals, finGoroutine["done"])
    BY SignalFacts DEF WaitOrder, FinishedReason, Arrives
  <2>2. pc = "defers" /\ evtWaiter = "waiting" => Arrives(evtSignals, evtGoroutine["limit"])
    BY SignalFacts DEF WaitOrder, Arrives
  <2>3. /\ pc = "stopLists" /\ ~Quiet(Managed) => dynamic[Managed] = "cancelled"
        /\ pc = "stopDiscover" /\ ~Quiet(Discovered) => dynamic[Discovered] = "cancelled"
    BY DEF OwnTypes, RunnerStates, Quiet, WaitOrder
  <2> QED BY <2>1, <2>2, <2>3, CrawlerWaits DEF RunGoesOn, WaitOrder
<1> QED BY <1>1, WaitOrderKept, InitIInv, NextIInv, PTL DEF Spec

=============================================================================
