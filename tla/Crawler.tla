------------------------------- MODULE Crawler -------------------------------
(***************************************************************************)
(* beater/crawler.go: starts one runner per enabled input of the           *)
(* configuration, keyed by the hash of the input's configuration, and      *)
(* stops them all in parallel, each by a goroutine of its own that one     *)
(* WaitGroup counts.                                                       *)
(*                                                                         *)
(* A runner is libbeat's: Start launches a goroutine, Stop cancels it and  *)
(* waits until it is gone.  The reloader (libbeat/cfgfile) is likewise a   *)
(* goroutine, which Start only spawns: it may get the processor any time   *)
(* later.  The crawler's owner calls Start once, then Stop once; in once   *)
(* mode another goroutine calls WaitForCompletion.                         *)
(***************************************************************************)
EXTENDS Integers, FiniteSets

CONSTANTS
  N,         \* number of configured inputs
  Ids,       \* configuration hashes
  Settings   \* the configurations to consider

Index == 1..N
Reloader == 0                       \* the extra stopper
Stoppers == Index \cup {Reloader}

SettingType ==
  [enabled : SUBSET Index,    \* inputs not disabled
   broken : SUBSET Index,     \* inputs whose config does not unpack or Create
   id : [Index -> Ids],       \* hash of each input's configuration
   reload : BOOLEAN,          \* config.inputs enabled
   once : BOOLEAN]            \* the -once flag

ASSUME NType == N \in Nat
ASSUME SettingsType == Settings \subseteq SettingType

VARIABLES
  config,
  pc,        \* the owner: "starting", "started", "failed", "stopping", "waiting", "stopped"
  next,      \* the input Start is at
  inputs,    \* crawler.inputs: the runner stored under each hash, 0 for none
  runner,    \* per input: "absent", "running", "cancelled", "done"
  reloader,  \* "none", "created", "spawned", "running", "done"
  closed,    \* the reloader's done channel is closed
  stopper,   \* the goroutines of Stop: "none", "called", "waiting", "done"
  counter,   \* crawler.wg
  waiter,
  panic

Waiters == {"stop", "once"}
WG == INSTANCE WaitGroup

wgVars == <<counter, waiter, panic>>
vars == <<config, pc, next, inputs, runner, reloader, closed, stopper, wgVars>>

Init ==
  /\ config \in Settings
  /\ pc = "starting"
  /\ next = 1
  /\ inputs = [h \in Ids |-> 0]
  /\ runner = [i \in Index |-> "absent"]
  /\ reloader = "none"
  /\ closed = FALSE
  /\ stopper = [i \in Stoppers |-> "none"]
  /\ WG!Init

(***************************************************************************)
(* Start: the inputs in the order of the configuration.                    *)
(***************************************************************************)
SkipDisabled ==
  /\ next \notin config.enabled
  /\ next' = next + 1
  /\ UNCHANGED <<pc, inputs, runner>>

\* Mutants of Reject: a broken input is logged and skipped; a failing Start
\* cancels what it has started.
RejectSkips ==
  /\ next \in config.enabled
  /\ next \in config.broken \/ inputs[config.id[next]] # 0
  /\ next' = next + 1
  /\ UNCHANGED <<pc, inputs, runner>>

RejectCancels ==
  /\ next \in config.enabled
  /\ next \in config.broken \/ inputs[config.id[next]] # 0
  /\ pc' = "failed"
  /\ runner' = [i \in Index |-> IF runner[i] = "running" THEN "cancelled" ELSE runner[i]]
  /\ UNCHANGED <<next, inputs>>

\* An unpack, hash or Create error, or a hash that is already in the map.
Reject ==
  /\ next \in config.enabled
  /\ next \in config.broken \/ inputs[config.id[next]] # 0
  /\ pc' = "failed"
  /\ UNCHANGED <<next, inputs, runner>>

\* Mutant of StartRunner: no look into the map for the same hash.
StartRunnerOverwrites ==
  /\ next \in config.enabled \ config.broken
  /\ inputs' = [inputs EXCEPT ![config.id[next]] = next]
  /\ runner' = [runner EXCEPT ![next] = "running"]
  /\ next' = next + 1
  /\ UNCHANGED pc

StartRunner ==
  /\ next \in config.enabled \ config.broken
  /\ inputs[config.id[next]] = 0
  /\ inputs' = [inputs EXCEPT ![config.id[next]] = next]
  /\ runner' = [runner EXCEPT ![next] = "running"]
  /\ next' = next + 1
  /\ UNCHANGED pc

StartInput ==
  /\ panic = "none"
  /\ pc = "starting"
  /\ next \in Index
  /\ SkipDisabled \/ Reject \/ StartRunner
  /\ UNCHANGED <<config, reloader, closed, stopper, wgVars>>

\* The last part of Start: the reloader checks its files, which may fail and
\* then leaves it created but not running, or is spawned.
StartReloader ==
  /\ panic = "none"
  /\ pc = "starting"
  /\ next = N + 1
  /\ \/ ~config.reload /\ pc' = "started" /\ UNCHANGED reloader
     \/ config.reload /\ pc' = "started" /\ reloader' = "spawned"
     \/ config.reload /\ pc' = "failed" /\ reloader' = "created"
  /\ UNCHANGED <<config, next, inputs, runner, closed, stopper, wgVars>>

(***************************************************************************)
(* Stop: asyncWaitStop for each runner in the map, in the map's order,     *)
(* then for the reloader, then WaitForCompletion.                          *)
(***************************************************************************)
Stop ==
  /\ panic = "none"
  /\ pc \in {"started", "failed"}
  /\ pc' = "stopping"
  /\ UNCHANGED <<config, next, inputs, runner, reloader, closed, stopper, wgVars>>

ToStop == {i \in Index : \E h \in Ids : inputs[h] = i /\ stopper[i] = "none"}

asyncWaitStop(i) ==
  /\ pc = "stopping"
  /\ stopper[i] = "none"
  /\ IF i = Reloader THEN ToStop = {} /\ reloader # "none" ELSE i \in ToStop
  /\ stopper' = [stopper EXCEPT ![i] = "called"]
  /\ WG!Add(1)
  /\ UNCHANGED <<config, pc, next, inputs, runner, reloader, closed>>

StopWait ==
  /\ pc = "stopping"
  /\ ToStop = {}
  /\ reloader # "none" => stopper[Reloader] # "none"
  /\ pc' = "waiting"
  /\ WG!Wait("stop")
  /\ UNCHANGED <<config, next, inputs, runner, reloader, closed, stopper>>

Stopped ==
  /\ panic = "none"
  /\ pc = "waiting"
  /\ waiter["stop"] = "returned"
  /\ pc' = "stopped"
  /\ UNCHANGED <<config, next, inputs, runner, reloader, closed, stopper, wgVars>>

\* WaitForCompletion in the goroutine of once mode, which exists only after
\* a Start without error.
Loaded == next = N + 1 /\ pc # "starting" /\ reloader # "created"

\* Mutant of OnceWait: the second waiter exists without the flag too.
OnceWaitAlways ==
  /\ Loaded
  /\ WG!Wait("once")
  /\ UNCHANGED <<config, pc, next, inputs, runner, reloader, closed, stopper>>

OnceWait ==
  /\ config.once
  /\ Loaded
  /\ WG!Wait("once")
  /\ UNCHANGED <<config, pc, next, inputs, runner, reloader, closed, stopper>>

Resume(w) ==
  /\ WG!Resume(w)
  /\ UNCHANGED <<config, pc, next, inputs, runner, reloader, closed, stopper>>

(***************************************************************************)
(* The goroutine asyncWaitStop starts: Stop of the runner or the reloader  *)
(* asks it to end, waits for it, and gives its unit back to the WaitGroup. *)
(***************************************************************************)
\* Mutants of StopperCancel: the runner is not cancelled; the reloader's
\* channel is closed only when its goroutine is running already.
StopperForgets(i) ==
  /\ panic = "none"
  /\ stopper[i] = "called"
  /\ stopper' = [stopper EXCEPT ![i] = "waiting"]
  /\ closed' = (closed \/ i = Reloader)
  /\ UNCHANGED <<config, pc, next, inputs, runner, reloader, wgVars>>

StopperCancelRunning(i) ==
  /\ panic = "none"
  /\ stopper[i] = "called"
  /\ stopper' = [stopper EXCEPT ![i] = "waiting"]
  /\ IF i = Reloader
       THEN closed' = (reloader = "running") /\ UNCHANGED runner
       ELSE /\ runner' = [runner EXCEPT ![i] = IF @ = "running" THEN "cancelled" ELSE @]
            /\ UNCHANGED closed
  /\ UNCHANGED <<config, pc, next, inputs, reloader, wgVars>>

StopperCancel(i) ==
  /\ panic = "none"
  /\ stopper[i] = "called"
  /\ stopper' = [stopper EXCEPT ![i] = "waiting"]
  /\ IF i = Reloader
       THEN closed' = TRUE /\ UNCHANGED runner
       ELSE /\ runner' = [runner EXCEPT ![i] = IF @ = "running" THEN "cancelled" ELSE @]
            /\ UNCHANGED closed
  /\ UNCHANGED <<config, pc, next, inputs, reloader, wgVars>>

StopperReturn(i) ==
  /\ stopper[i] = "waiting"
  /\ IF i = Reloader THEN reloader # "running" ELSE runner[i] = "done"
  /\ stopper' = [stopper EXCEPT ![i] = "done"]
  /\ WG!Done
  /\ UNCHANGED <<config, pc, next, inputs, runner, reloader, closed>>

(***************************************************************************)
(* The runners and the reloader themselves.  A runner that is cancelled    *)
(* ends; one that is not may end by itself, with an error.  The reloader   *)
(* counts itself as running only once its goroutine got the processor.     *)
(***************************************************************************)
RunnerEnds(i) ==
  /\ panic = "none"
  /\ runner[i] \in {"running", "cancelled"}
  /\ runner' = [runner EXCEPT ![i] = "done"]
  /\ UNCHANGED <<config, pc, next, inputs, reloader, closed, stopper, wgVars>>

ReloaderStep ==
  /\ panic = "none"
  /\ \/ reloader = "spawned" /\ reloader' = "running"
     \/ reloader = "running" /\ closed /\ reloader' = "done"
  /\ UNCHANGED <<config, pc, next, inputs, runner, closed, stopper, wgVars>>

Owner == StartInput \/ StartReloader \/ StopWait \/ Stopped \/ Resume("stop")

Next ==
  \/ Owner
  \/ Stop
  \/ OnceWait
  \/ Resume("once")
  \/ \E i \in Stoppers : asyncWaitStop(i) \/ StopperCancel(i) \/ StopperReturn(i)
  \/ \E i \in Index : RunnerEnds(i)
  \/ ReloaderStep

\* The scheduler runs every goroutine that can proceed, and an input that
\* is cancelled returns from Run: every Run loop of input/ selects on the
\* cancellation.  Nobody has to call Stop, nor does a running input end.
Fairness ==
  /\ WF_vars(Owner)
  /\ WF_vars(OnceWait \/ Resume("once"))
  /\ \A i \in Stoppers :
       WF_vars(asyncWaitStop(i)) /\ WF_vars(StopperCancel(i)) /\ WF_vars(StopperReturn(i))
  /\ \A i \in Index : WF_vars(RunnerEnds(i) /\ runner[i] = "cancelled")
  /\ WF_vars(ReloaderStep)

Spec == Init /\ [][Next]_vars /\ Fairness

-----------------------------------------------------------------------------

TypeOK ==
  /\ config \in Settings
  /\ pc \in {"starting", "started", "failed", "stopping", "waiting", "stopped"}
  /\ next \in 1..(N + 1)
  /\ inputs \in [Ids -> 0..N]
  /\ runner \in [Index -> {"absent", "running", "cancelled", "done"}]
  /\ reloader \in {"none", "created", "spawned", "running", "done"}
  /\ closed \in BOOLEAN
  /\ stopper \in [Stoppers -> {"none", "called", "waiting", "done"}]
  /\ counter \in Nat
  /\ waiter \in [Waiters -> {"out", "blocked", "released", "returned"}]
  /\ panic \in {"none", "negative", "reused"}

Alive == {i \in Index : runner[i] \in {"running", "cancelled"}}

\* Once Stop has returned no configured input runs any more, after a failed
\* Start too, and whatever the inputs did meanwhile.
StopComplete == pc = "stopped" => Alive = {}

\* A Start that succeeded has started every enabled input, each under a hash
\* of its own, so none of them is out of Stop's reach.
StartedAll ==
  Loaded =>
    \A i \in config.enabled : runner[i] # "absent" /\ inputs[config.id[i]] = i

\* Stop asks an input to end, nobody else does: an input is cancelled only
\* by its own stopper, and only after Start has returned.
CancelledByStop ==
  \A i \in Index : runner[i] = "cancelled" =>
    stopper[i] = "waiting" /\ pc \in {"stopping", "waiting"}

\* The WaitGroup counts exactly the stoppers that have not returned.
Working == {i \in Stoppers : stopper[i] \in {"called", "waiting"}}
WgExact == counter = Cardinality(Working)

\* Only once mode has a second goroutine in WaitForCompletion; without it
\* Stop never panics on a WaitGroup used anew before a Wait has returned.
NoReusePanic == ~config.once => panic = "none"

\* Stop returns, unless once mode's second waiter makes it panic.
StopTerminates == pc = "stopping" ~> pc = "stopped" \/ panic # "none"

\* A reloader whose goroutine is only scheduled after Stop has returned still
\* ends: it finds its done channel closed.
LateReloaderEnds ==
  pc = "stopped" ~> reloader \notin {"spawned", "running"} \/ panic # "none"

=============================================================================
