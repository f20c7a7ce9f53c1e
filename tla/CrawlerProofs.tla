---------------------------- MODULE CrawlerProofs ----------------------------
(***************************************************************************)
(* Crawler for any number of inputs and any configuration: what Start has  *)
(* started, Stop has ended when it returns; the WaitGroup counts exactly   *)
(* the stoppers; without once mode Stop does not panic; and what Stop      *)
(* waits for is never missing, and comes nearer with every step.           *)
(***************************************************************************)
EXTENDS Crawler, FiniteSetTheorems, TLAPS

\* The map and the runners agree: each entry is a runner that was started,
\* under its own hash, and each runner that was started has an entry.
Registered ==
  /\ \A h \in Ids : inputs[h] # 0 =>
       config.id[inputs[h]] = h /\ runner[inputs[h]] # "absent"
  /\ \A i \in Index : runner[i] # "absent" => inputs[config.id[i]] = i

\* A stopper works on a runner that was started, asks it to end, and is done
\* only when the runner is.
StopperRunner ==
  \A i \in Index :
    /\ stopper[i] # "none" => runner[i] # "absent"
    /\ stopper[i] = "waiting" => runner[i] \in {"cancelled", "done"}
    /\ stopper[i] = "done" => runner[i] = "done"
    /\ runner[i] = "cancelled" => stopper[i] = "waiting"

\* Stoppers exist only from Stop on, and all of them from its Wait on.
StopPhases ==
  /\ pc \in {"starting", "started", "failed"} => \A i \in Stoppers : stopper[i] = "none"
  /\ pc \in {"waiting", "stopped"} <=> waiter["stop"] # "out"
  /\ pc \in {"waiting", "stopped"} => \A i \in Index : runner[i] # "absent" => stopper[i] # "none"

\* After the last Add the counter only falls: a Wait of Stop that was
\* released, or has returned, leaves it at zero.
StopReleased ==
  /\ waiter["stop"] \in {"released", "returned"} => counter = 0
  /\ pc = "stopped" => waiter["stop"] = "returned"

\* Without once mode nobody else waits.
OneWaiter == ~config.once => waiter["once"] = "out" /\ panic = "none"

IInv ==
  TypeOK /\ Registered /\ StopperRunner /\ StopPhases /\ WgExact /\ StopReleased /\ OneWaiter

-----------------------------------------------------------------------------

\* There are finitely many stoppers.
LEMMA StoppersFinite == IsFiniteSet(Stoppers)
<1>1. IsFiniteSet(Index)
  BY NType, FS_Interval DEF Index
<1> QED BY <1>1, FS_AddElement DEF Stoppers

\* The stoppers at work can be counted.
LEMMA WorkingFinite ==
  /\ IsFiniteSet(Working)
  /\ Cardinality(Working) \in Nat
  /\ Cardinality(Working) = 0 <=> Working = {}
<1>1. IsFiniteSet(Working)
  BY StoppersFinite, FS_Subset DEF Working
<1> QED BY <1>1, FS_CardinalityType, FS_EmptySet

\* What a configuration is.
LEMMA ConfigType ==
  ASSUME TypeOK
  PROVE  /\ config.id \in [Index -> Ids]
         /\ config.enabled \subseteq Index
         /\ Index = 1..N /\ N \in Nat /\ 0 \notin Index
BY SettingsType, NType DEF TypeOK, SettingType, Index

\* A new stopper adds one to the working ones.
LEMMA CallAdds ==
  ASSUME TypeOK, NEW i \in Stoppers, asyncWaitStop(i)
  PROVE  Cardinality(Working') = Cardinality(Working) + 1
<1>1. i \notin Working /\ Working' = Working \cup {i}
  BY DEF TypeOK, asyncWaitStop, Working
<1> QED BY <1>1, WorkingFinite, FS_AddElement

\* A stopper that cancels stays a working one.
LEMMA CancelKeeps ==
  ASSUME TypeOK, NEW i \in Stoppers, StopperCancel(i)
  PROVE  Working' = Working
BY DEF TypeOK, StopperCancel, Working

\* A stopper that returns takes one away.
LEMMA ReturnRemoves ==
  ASSUME TypeOK, NEW i \in Stoppers, StopperReturn(i)
  PROVE  /\ Cardinality(Working') = Cardinality(Working) - 1
         /\ Cardinality(Working) >= 1
<1>1. i \in Working /\ Working' = Working \ {i}
  BY DEF TypeOK, StopperReturn, Working
<1>2. Cardinality(Working') = Cardinality(Working) - 1
  BY <1>1, WorkingFinite, FS_RemoveElement
<1>3. Cardinality(Working) # 0
  BY <1>1, WorkingFinite
<1> QED BY <1>2, <1>3, WorkingFinite

-----------------------------------------------------------------------------

\* The invariant holds initially.
LEMMA InitIInv == Init => IInv
<1> SUFFICES ASSUME Init PROVE IInv
  OBVIOUS
<1>n. /\ N \in Nat /\ next \in 1..(N + 1)
      /\ inputs \in [Ids -> 0..N]
  BY NType DEF Init
<1>w. /\ counter \in Nat
      /\ waiter \in [Waiters -> {"out", "blocked", "released", "returned"}]
      /\ panic \in {"none", "negative", "reused"}
  BY DEF Init, WG!Init
<1>1. TypeOK
  BY <1>n, <1>w DEF Init, TypeOK
<1>2. Registered /\ StopperRunner /\ StopPhases /\ StopReleased /\ OneWaiter
  BY <1>1, ConfigType DEF Init, WG!Init, Registered, StopperRunner, StopPhases,
     StopReleased, OneWaiter, Waiters, Stoppers
<1>3. Working = {}
  BY DEF Init, Working
<1>4. WgExact
  BY <1>3, FS_EmptySet DEF Init, WG!Init, WgExact
<1> QED BY <1>1, <1>2, <1>4 DEF IInv

\* Start.
LEMMA StartInputIInv == IInv /\ StartInput => IInv'
<1> SUFFICES ASSUME IInv, StartInput PROVE IInv'
  OBVIOUS
<1> USE DEF IInv
<1>c. /\ config.id \in [Index -> Ids] /\ Index = 1..N /\ N \in Nat /\ 0 \notin Index
      /\ next \in Index /\ pc = "starting" /\ pc' \in {"starting", "failed"}
  BY ConfigType DEF StartInput, SkipDisabled, Reject, StartRunner
<1>u. UNCHANGED <<config, reloader, closed, stopper, counter, waiter, panic>>
  BY DEF StartInput, wgVars
<1>n. \A i \in Stoppers : stopper[i] = "none"
  BY <1>c DEF StopPhases
<1>1. CASE SkipDisabled \/ Reject
  <2>1. UNCHANGED <<inputs, runner>> /\ next' \in 1..(N + 1)
    BY <1>1, <1>c DEF SkipDisabled, Reject, TypeOK
  <2>2. TypeOK'
    BY <1>c, <1>u, <2>1 DEF TypeOK
  <2>3. Registered' /\ StopperRunner' /\ WgExact'
    BY <1>u, <2>1 DEF Registered, StopperRunner, WgExact, Working
  <2>4. StopPhases' /\ StopReleased' /\ OneWaiter'
    BY <1>c, <1>u, <2>1 DEF StopPhases, StopReleased, OneWaiter
  <2> QED BY <2>2, <2>3, <2>4
<1>2. CASE StartRunner
  <2>1. /\ inputs' = [inputs EXCEPT ![config.id[next]] = next]
        /\ runner' = [runner EXCEPT ![next] = "running"]
        /\ next' = next + 1 /\ inputs[config.id[next]] = 0 /\ pc' = pc
    BY <1>2 DEF StartRunner
  <2>2. TypeOK'
    BY <1>c, <1>u, <2>1 DEF TypeOK
  <2>3. runner[next] = "absent"
    BY <1>c, <2>1 DEF TypeOK, Registered
  <2>4. Registered'
    <3> DEFINE id == config.id
    <3>0. next # 0 /\ id[next] \in Ids /\ inputs \in [Ids -> 0..N] /\ id' = id
      BY <1>c, <1>u DEF TypeOK
    <3>1. ASSUME NEW h \in Ids, inputs'[h] # 0
          PROVE  id[inputs'[h]] = h /\ runner'[inputs'[h]] # "absent"
      <4>1. CASE h = id[next]
        BY <1>c, <2>1, <3>0, <4>1 DEF TypeOK
      <4>2. CASE h # id[next]
        <5>1. inputs'[h] = inputs[h] /\ inputs[h] \in Index
          BY <1>c, <2>1, <3>0, <3>1, <4>2
        <5>2. id[inputs[h]] = h /\ runner[inputs[h]] # "absent"
          BY <3>1, <5>1 DEF Registered
        <5>3. inputs[h] # next
          BY <2>3, <5>2
        <5> QED BY <2>1, <5>1, <5>2, <5>3 DEF TypeOK
      <4> QED BY <4>1, <4>2
    <3>2. ASSUME NEW i \in Index, runner'[i] # "absent" PROVE inputs'[id[i]] = i
      <4>1. CASE i = next
        BY <2>1, <3>0, <4>1
      <4>2. CASE i # next
        <5>1. inputs[id[i]] = i
          BY <2>1, <3>2, <4>2 DEF TypeOK, Registered
        <5>2. id[i] # id[next] /\ id[i] \in Ids
          BY <1>c, <2>1, <5>1
        <5> QED BY <2>1, <3>0, <5>1, <5>2
      <4> QED BY <4>1, <4>2
    <3> QED BY <3>0, <3>1, <3>2 DEF Registered
  <2>5. StopperRunner'
    BY <1>c, <1>u, <1>n, <2>1 DEF TypeOK, StopperRunner, Stoppers
  <2>6. StopPhases' /\ StopReleased' /\ OneWaiter' /\ WgExact'
    BY <1>c, <1>u, <2>1 DEF StopPhases, StopReleased, OneWaiter, WgExact, Working
  <2> QED BY <2>2, <2>4, <2>5, <2>6
<1> QED BY <1>1, <1>2 DEF StartInput

\* The owner's other steps outside of the WaitGroup.
LEMMA OwnerIInv == IInv /\ (StartReloader \/ Stop \/ Stopped) => IInv'
<1> SUFFICES ASSUME IInv, StartReloader \/ Stop \/ Stopped PROVE IInv'
  OBVIOUS
<1> USE DEF IInv
<1>1. UNCHANGED <<config, next, inputs, runner, closed, stopper, counter, waiter, panic>>
  BY DEF StartReloader, Stop, Stopped, wgVars
<1>2. TypeOK'
  BY <1>1 DEF TypeOK, StartReloader, Stop, Stopped
<1>3. Registered' /\ StopperRunner' /\ WgExact' /\ OneWaiter'
  BY <1>1 DEF Registered, StopperRunner, WgExact, Working, OneWaiter
<1>4. StopPhases' /\ StopReleased'
  BY <1>1 DEF StopPhases, StopReleased, StartReloader, Stop, Stopped
<1> QED BY <1>2, <1>3, <1>4

\* Stop adds one to the WaitGroup and starts one stopper.
LEMMA CallIInv == ASSUME IInv, NEW i \in Stoppers, asyncWaitStop(i) PROVE IInv'
<1> USE DEF IInv
<1>c. Cardinality(Working') = Cardinality(Working) + 1
  BY CallAdds
<1>u. /\ UNCHANGED <<config, pc, next, inputs, runner, reloader, closed, waiter, panic>>
      /\ counter' = counter + 1 /\ stopper' = [stopper EXCEPT ![i] = "called"]
      /\ pc = "stopping" /\ stopper[i] = "none"
  BY DEF asyncWaitStop, WG!Add
<1>1. TypeOK'
  BY <1>u DEF TypeOK
<1>2. Registered' /\ OneWaiter'
  BY <1>u DEF Registered, OneWaiter
<1>3. i \in Index => runner[i] # "absent"
  BY ConfigType DEF asyncWaitStop, ToStop, Registered, Reloader
<1>4. StopperRunner'
  BY <1>u, <1>3 DEF TypeOK, StopperRunner, Stoppers
<1>5. StopPhases' /\ StopReleased'
  BY <1>u DEF StopPhases, StopReleased
<1>6. WgExact'
  BY <1>c, <1>u DEF WgExact
<1> QED BY <1>1, <1>2, <1>4, <1>5, <1>6

\* Stop waits once it has started all stoppers.
LEMMA StopWaitIInv == IInv /\ StopWait => IInv'
<1> SUFFICES ASSUME IInv, StopWait PROVE IInv'
  OBVIOUS
<1> USE DEF IInv
<1>u. /\ UNCHANGED <<config, next, inputs, runner, reloader, closed, stopper, counter, panic>>
      /\ waiter' = [waiter EXCEPT !["stop"] = IF counter = 0 THEN "returned" ELSE "blocked"]
      /\ pc' = "waiting" /\ pc = "stopping"
  BY DEF StopWait, WG!Wait
<1>1. TypeOK'
  BY <1>u DEF TypeOK, Waiters
<1>2. Registered' /\ StopperRunner' /\ WgExact'
  BY <1>u DEF Registered, StopperRunner, WgExact, Working
<1>3. waiter'["stop"] # "out" /\ (waiter'["stop"] \in {"released", "returned"} => counter' = 0)
  BY <1>u DEF TypeOK, Waiters
<1>4. \A i \in Index : runner[i] # "absent" => stopper[i] # "none"
  BY ConfigType DEF StopWait, ToStop, Registered
<1>5. StopPhases' /\ StopReleased'
  BY <1>u, <1>3, <1>4 DEF StopPhases, StopReleased
<1>6. OneWaiter'
  BY <1>u DEF TypeOK, OneWaiter, Waiters
<1> QED BY <1>1, <1>2, <1>5, <1>6

\* WaitForCompletion waits for the same WaitGroup.
LEMMA OnceWaitIInv == IInv /\ OnceWait => IInv'
<1> SUFFICES ASSUME IInv, OnceWait PROVE IInv'
  OBVIOUS
<1> USE DEF IInv
<1>u. /\ UNCHANGED <<config, pc, next, inputs, runner, reloader, closed, stopper, counter, panic>>
      /\ waiter' = [waiter EXCEPT !["once"] = IF counter = 0 THEN "returned" ELSE "blocked"]
      /\ config.once
  BY DEF OnceWait, WG!Wait
<1>1. TypeOK'
  BY <1>u DEF TypeOK, Waiters
<1>2. Registered' /\ StopperRunner' /\ WgExact' /\ OneWaiter'
  BY <1>u DEF Registered, StopperRunner, WgExact, Working, OneWaiter
<1>3. waiter'["stop"] = waiter["stop"]
  BY <1>u DEF TypeOK, Waiters
<1>4. StopPhases' /\ StopReleased'
  BY <1>u, <1>3 DEF StopPhases, StopReleased
<1> QED BY <1>1, <1>2, <1>4

\* The resumed Wait of Stop finds the counter at zero; the only other waiter
\* belongs to once mode.
LEMMA ResumeIInv == ASSUME IInv, NEW w \in Waiters, Resume(w) PROVE IInv'
<1> USE DEF IInv
<1>u. /\ UNCHANGED <<config, pc, next, inputs, runner, reloader, closed, stopper, counter>>
      /\ waiter[w] = "released"
      /\ \/ /\ counter = 0
            /\ waiter' = [waiter EXCEPT ![w] = "returned"] /\ panic' = panic
         \/ /\ counter # 0 \/ \E v \in Waiters : waiter[v] = "blocked"
            /\ waiter' = waiter /\ panic' = "reused"
  BY DEF Resume, WG!Resume
<1>1. TypeOK'
  BY <1>u DEF TypeOK
<1>2. Registered' /\ StopperRunner' /\ WgExact'
  BY <1>u DEF Registered, StopperRunner, WgExact, Working
<1>3. waiter'["stop"] = "out" <=> waiter["stop"] = "out"
  BY <1>u DEF TypeOK, Waiters
<1>4. StopPhases'
  BY <1>u, <1>3 DEF StopPhases
<1>5. StopReleased'
  BY <1>u DEF TypeOK, Waiters, StopReleased
<1>6. OneWaiter'
  BY <1>u DEF TypeOK, Waiters, StopReleased, OneWaiter
<1> QED BY <1>1, <1>2, <1>4, <1>5, <1>6

\* A stopper cancels its runner.
LEMMA CancelIInv == ASSUME IInv, NEW i \in Stoppers, StopperCancel(i) PROVE IInv'
<1> USE DEF IInv
<1>w. Working' = Working
  BY CancelKeeps
<1>u. /\ UNCHANGED <<config, pc, next, inputs, reloader, counter, waiter, panic>>
      /\ stopper[i] = "called" /\ stopper' = [stopper EXCEPT ![i] = "waiting"]
  BY DEF StopperCancel, wgVars
<1>r. /\ closed' \in BOOLEAN
      /\ runner' = IF i = Reloader THEN runner
                   ELSE [runner EXCEPT ![i] = IF @ = "running" THEN "cancelled" ELSE @]
  BY DEF TypeOK, StopperCancel
<1>i. i # Reloader => i \in Index
  BY DEF Stoppers
<1>a. /\ runner' \in [Index -> {"absent", "running", "cancelled", "done"}]
      /\ \A j \in Index : runner'[j] # "absent" <=> runner[j] # "absent"
  BY <1>r, <1>i DEF TypeOK
<1>1. TypeOK'
  BY <1>u, <1>r, <1>a DEF TypeOK
<1>2. Registered'
  <2>1. \A h \in Ids : inputs[h] # 0 => inputs[h] \in Index
    BY ConfigType DEF TypeOK
  <2> QED BY <1>u, <1>a, <2>1 DEF Registered
<1>3. StopperRunner'
  BY <1>u, <1>r, <1>i, ConfigType DEF TypeOK, StopperRunner, Stoppers, Reloader
<1>4. StopPhases' /\ StopReleased' /\ OneWaiter' /\ WgExact'
  BY <1>u, <1>a, <1>w DEF TypeOK, StopPhases, StopReleased, OneWaiter, WgExact, Stoppers
<1> QED BY <1>1, <1>2, <1>3, <1>4

\* A stopper whose runner has ended leaves the WaitGroup.
LEMMA ReturnIInv == ASSUME IInv, NEW i \in Stoppers, StopperReturn(i) PROVE IInv'
<1> USE DEF IInv
<1>w. /\ Cardinality(Working') = Cardinality(Working) - 1 /\ counter >= 1
      /\ counter \in Nat
  BY ReturnRemoves DEF WgExact, TypeOK
<1>u. /\ UNCHANGED <<config, pc, next, inputs, runner, reloader, closed, panic>>
      /\ counter' = counter - 1
      /\ waiter' = IF counter = 1
                   THEN [w \in Waiters |-> IF waiter[w] = "blocked" THEN "released" ELSE waiter[w]]
                   ELSE waiter
      /\ stopper' = [stopper EXCEPT ![i] = "done"]
      /\ stopper[i] = "waiting" /\ (i # Reloader => runner[i] = "done")
  BY <1>w DEF StopperReturn, WG!Done, WG!Release
<1>t. /\ waiter' \in [Waiters -> {"out", "blocked", "released", "returned"}]
      /\ \A w \in Waiters : waiter'[w] = "out" <=> waiter[w] = "out"
      /\ \A w \in Waiters : waiter'[w] = "returned" <=> waiter[w] = "returned"
      /\ \A w \in Waiters : waiter'[w] = "released" => waiter[w] = "released" \/ counter' = 0
  BY <1>u, <1>w DEF TypeOK
<1>1. TypeOK'
  BY <1>u, <1>t, <1>w DEF TypeOK
<1>2. Registered'
  BY <1>u DEF Registered
<1>3. StopperRunner'
  BY <1>u, ConfigType DEF TypeOK, StopperRunner, Stoppers, Reloader
<1>4. StopPhases'
  BY <1>u, <1>t DEF TypeOK, StopPhases, Stoppers, Waiters
<1>5. StopReleased' /\ OneWaiter'
  BY <1>u, <1>t, <1>w DEF StopReleased, OneWaiter, Waiters
<1>6. WgExact'
  BY <1>u, <1>w DEF WgExact
<1> QED BY <1>1, <1>2, <1>3, <1>4, <1>5, <1>6

\* The runners and the reloader.
LEMMA RunnerIInv ==
  ASSUME IInv, NEW i \in Index, RunnerEnds(i)
  PROVE  IInv'
<1> USE DEF IInv
<1>u. /\ UNCHANGED <<config, pc, next, inputs, reloader, closed, stopper, counter, waiter, panic>>
      /\ runner[i] \in {"running", "cancelled"} /\ runner' = [runner EXCEPT ![i] = "done"]
  BY DEF RunnerEnds, wgVars
<1>1. TypeOK'
  BY <1>u DEF TypeOK
<1>2. Registered'
  <2>1. \A h \in Ids : inputs[h] # 0 => inputs[h] \in Index
    BY ConfigType DEF TypeOK
  <2>2. \A j \in Index : runner'[j] # "absent" <=> runner[j] # "absent"
    BY <1>u DEF TypeOK
  <2> QED BY <1>u, <2>1, <2>2 DEF Registered
<1>3. StopperRunner'
  BY <1>u DEF TypeOK, StopperRunner
<1>4. StopPhases' /\ StopReleased' /\ OneWaiter' /\ WgExact'
  BY <1>u DEF TypeOK, StopPhases, StopReleased, OneWaiter, WgExact, Working
<1> QED BY <1>1, <1>2, <1>3, <1>4

\* The reloader touches none of this.
LEMMA QuietIInv == IInv /\ (ReloaderStep \/ UNCHANGED vars) => IInv'
<1> SUFFICES ASSUME IInv, ReloaderStep \/ UNCHANGED vars PROVE IInv'
  OBVIOUS
<1> USE DEF IInv
<1>u. UNCHANGED <<config, pc, next, inputs, runner, closed, stopper, counter, waiter, panic>>
  BY DEF ReloaderStep, vars, wgVars
<1>1. TypeOK'
  BY <1>u DEF TypeOK, ReloaderStep, vars
<1>2. Registered' /\ StopperRunner' /\ StopPhases' /\ WgExact' /\ StopReleased' /\ OneWaiter'
  BY <1>u DEF Registered, StopperRunner, StopPhases, WgExact, Working, StopReleased, OneWaiter
<1> QED BY <1>1, <1>2

\* Every step keeps the invariant.
LEMMA NextIInv == IInv /\ [Next]_vars => IInv'
<1>1. {"stop", "once"} = Waiters
  BY DEF Waiters
<1> QED BY <1>1, StartInputIInv, OwnerIInv, CallIInv, StopWaitIInv, OnceWaitIInv, ResumeIInv,
           CancelIInv, ReturnIInv, RunnerIInv, QuietIInv DEF Next, Owner

-----------------------------------------------------------------------------

\* Once Stop is past its Wait, every stopper is done, and so is its runner.
LEMMA StoppedIsQuiet == IInv => StopComplete
<1> SUFFICES ASSUME IInv, pc = "stopped", NEW i \in Index,
                    runner[i] \in {"running", "cancelled"}
             PROVE  FALSE
  BY DEF StopComplete, Alive
<1>1. Working = {}
  BY WorkingFinite DEF IInv, StopReleased, WgExact
<1>2. stopper[i] # "none"
  BY DEF IInv, StopPhases
<1>3. stopper[i] = "done"
  BY <1>1, <1>2 DEF IInv, TypeOK, Working, Stoppers
<1> QED BY <1>3 DEF IInv, StopperRunner

\* When crawler.Stop returns, every input that crawler.Start has started has
\* ended, for any number of inputs and whatever failed on the way.
THEOREM StopEndsInputs == Spec => []StopComplete
BY InitIInv, NextIInv, StoppedIsQuiet, PTL DEF Spec

\* The WaitGroup of the crawler counts the stoppers that are at work.
THEOREM CountsStoppers == Spec => []WgExact
<1>1. IInv => WgExact
  BY DEF IInv
<1> QED BY InitIInv, NextIInv, <1>1, PTL DEF Spec

\* Start goes through the configuration in order: the enabled inputs before
\* the one it is at have been started.
StartedBelow == \A i \in config.enabled : i < next => runner[i] # "absent"

\* What Start has reached stays started, for Stop comes after it.
LEMMA StartedBelowStep == IInv /\ StartedBelow /\ [Next]_vars => StartedBelow'
<1> SUFFICES ASSUME TypeOK, StartedBelow, [Next]_vars PROVE StartedBelow'
  BY DEF IInv
<1>c. (\A i \in config.enabled : i \in Int /\ i \in Index) /\ next \in Int
  BY ConfigType DEF TypeOK
<1>1. CASE StartInput
  <2>u. config' = config
    BY <1>1 DEF StartInput
  <2>1. CASE SkipDisabled \/ Reject
    <3>1. runner' = runner /\ (next' = next \/ (next' = next + 1 /\ next \notin config.enabled))
      BY <2>1 DEF SkipDisabled, Reject
    <3>2. ASSUME NEW i \in config.enabled, i < next' PROVE i < next
      BY <1>c, <3>1, <3>2
    <3> QED BY <2>u, <3>1, <3>2 DEF StartedBelow
  <2>2. CASE StartRunner
    <3>1. /\ next' = next + 1 /\ runner'[next] = "running"
          /\ \A i \in Index : i # next => runner'[i] = runner[i]
      BY <1>1, <2>2 DEF TypeOK, StartInput, StartRunner
    <3> QED BY <2>u, <3>1, <1>c DEF StartedBelow
  <2> QED BY <1>1, <2>1, <2>2 DEF StartInput
<1>2. CASE ~StartInput
  <2>1. config' = config /\ next' = next
    BY <1>2 DEF Next, Owner, Stop, StartReloader, StopWait, Stopped, Resume, OnceWait,
       asyncWaitStop, StopperCancel, StopperReturn, RunnerEnds, ReloaderStep, vars
  <2>2. \A i \in Index : runner[i] # "absent" => runner'[i] # "absent"
    BY <1>2 DEF Next, Owner, Stop, StartReloader, StopWait, Stopped, Resume, OnceWait,
       asyncWaitStop, StopperCancel, StopperReturn, RunnerEnds, ReloaderStep, vars, TypeOK
  <2> QED BY <1>c, <2>1, <2>2 DEF StartedBelow
<1> QED BY <1>1, <1>2

\* After a Start without error each enabled input runs, or has run, and is in
\* the map under its own hash: Stop, which goes by the map, reaches them all.
THEOREM StartReachesAll == Spec => []StartedAll
<1>1. Init => StartedBelow
  BY ConfigType, InitIInv DEF IInv, Init, StartedBelow
<1>2. IInv /\ StartedBelow => StartedAll
  BY ConfigType DEF IInv, TypeOK, Registered, StartedBelow, StartedAll, Loaded
<1> QED BY InitIInv, NextIInv, StartedBelowStep, <1>1, <1>2, PTL DEF Spec

\* A cancelled input has its stopper at work, which holds Stop in its Wait.
LEMMA CancelledHasStopper == IInv => CancelledByStop
<1> SUFFICES ASSUME IInv, NEW i \in Index, runner[i] = "cancelled"
             PROVE  stopper[i] = "waiting" /\ pc \in {"stopping", "waiting"}
  BY DEF CancelledByStop
<1>1. stopper[i] = "waiting"
  BY DEF IInv, StopperRunner
<1>2. i \in Working
  BY <1>1 DEF Working, Stoppers
<1>3. pc # "stopped"
  BY <1>2, WorkingFinite DEF IInv, StopReleased, WgExact
<1>4. pc \notin {"starting", "started", "failed"}
  BY <1>1 DEF IInv, StopPhases, Stoppers
<1> QED BY <1>1, <1>3, <1>4 DEF IInv, TypeOK

\* Nobody but Stop asks an input to end.
THEOREM OnlyStopCancels == Spec => []CancelledByStop
BY InitIInv, NextIInv, CancelledHasStopper, PTL DEF Spec

\* Without once mode the crawler's WaitGroup never panics.
THEOREM StopNeverPanics == Spec => []NoReusePanic
<1>1. IInv => NoReusePanic
  BY DEF IInv, OneWaiter, NoReusePanic
<1> QED BY InitIInv, NextIInv, <1>1, PTL DEF Spec

-----------------------------------------------------------------------------

(***************************************************************************)
(* What StopTerminates promises, without its "in the end": Stop never      *)
(* waits for nothing, and each step after it was called is one of finitely *)
(* many.                                                                   *)
(***************************************************************************)

\* Whoever is blocked has a unit of the counter to wait for, and the reloader's
\* channel is closed before its stopper waits for it; the Wait of Stop comes after
\* that stopper was called.
NothingMissed ==
  /\ \A w \in Waiters : waiter[w] = "blocked" => counter > 0
  /\ stopper[Reloader] \in {"waiting", "done"} => closed
  /\ pc \in {"waiting", "stopped"} /\ reloader # "none" => stopper[Reloader] # "none"

\* A Stop that waits can resume, or a stopper can cancel its runner, or a runner
\* that was cancelled or has ended, or a reloader that was told to end, is waited
\* for: the guards of Resume, Stopped, StopperCancel, RunnerEnds, ReloaderStep and
\* StopperReturn.
WaitGoesOn ==
  pc = "waiting" =>
    \/ waiter["stop"] \in {"released", "returned"}
    \/ \E i \in Stoppers : stopper[i] = "called"
    \/ \E i \in Index : stopper[i] = "waiting" /\ runner[i] \in {"cancelled", "done"}
    \/ stopper[Reloader] = "waiting" /\ (reloader = "running" => closed)

\* A reloader that was created finds its channel closed once Stop is complete,
\* even when its goroutine runs only then.
ReloaderTold == pc = "stopped" /\ reloader # "none" => closed

\* The stages of Stop, of the reloader, and of stoppers, runners and waiters.
Stage ==
  [absent |-> 0, none |-> 0, out |-> 0, created |-> 0,
   called |-> 1, spawned |-> 1, blocked |-> 1, stopping |-> 1,
   running |-> 2, released |-> 2, waiting |-> 2,
   cancelled |-> 3, done |-> 4, returned |-> 4, stopped |-> 4]

Stopping == pc \in {"stopping", "waiting", "stopped"}

\* Nobody falls back a stage.
Forward ==
  /\ Stage[pc] <= Stage[pc'] /\ Stage[reloader] <= Stage[reloader']
  /\ \A i \in Stoppers : Stage[stopper[i]] <= Stage[stopper'[i]]
  /\ \A i \in Index : Stage[runner[i]] <= Stage[runner'[i]]
  /\ \A w \in Waiters : Stage[waiter[w]] <= Stage[waiter'[w]]

\* Somebody reaches the next one.
SomeoneMoves ==
  \/ Stage[pc] < Stage[pc'] \/ Stage[reloader] < Stage[reloader']
  \/ \E i \in Stoppers : Stage[stopper[i]] < Stage[stopper'[i]]
  \/ \E i \in Index : Stage[runner[i]] < Stage[runner'[i]]
  \/ \E w \in Waiters : Stage[waiter[w]] < Stage[waiter'[w]]

\* Every step from Stop on, but one that ends the process by a panic.
StopNears == Stopping => Stopping' /\ Forward /\ (SomeoneMoves \/ panic' # "none")

\* The order of the stages.
LEMMA Stages ==
  /\ Stage["stopping"] = 1 /\ Stage["waiting"] = 2 /\ Stage["stopped"] = 4
  /\ Stage["none"] = 0 /\ Stage["created"] = 0 /\ Stage["spawned"] = 1
  /\ Stage["running"] = 2 /\ Stage["done"] = 4
  /\ Stage["called"] = 1 /\ Stage["absent"] = 0 /\ Stage["cancelled"] = 3
  /\ Stage["out"] = 0 /\ Stage["blocked"] = 1 /\ Stage["released"] = 2 /\ Stage["returned"] = 4
BY DEF Stage

\* Each component that stays where it is, stays at its stage.
LEMMA StagesStay ==
  ASSUME TypeOK, Stopping
  PROVE  /\ Stage[pc] <= Stage[pc] /\ Stage[reloader] <= Stage[reloader]
         /\ \A i \in Stoppers : Stage[stopper[i]] <= Stage[stopper[i]]
         /\ \A i \in Index : Stage[runner[i]] <= Stage[runner[i]]
         /\ \A w \in Waiters : Stage[waiter[w]] <= Stage[waiter[w]]
BY Stages DEF TypeOK, Stopping

\* The steps that take a unit of the WaitGroup, give one back, or wait.
LEMMA NothingMissedKept ==
  /\ Init => NothingMissed
  /\ IInv /\ NothingMissed /\ [Next]_vars => NothingMissed'
<1>1. Init => NothingMissed
  BY DEF Init, WG!Init, NothingMissed, Stoppers
<1>2. IInv /\ NothingMissed /\ [Next]_vars => NothingMissed'
  <2> SUFFICES ASSUME IInv, NothingMissed, [Next]_vars PROVE NothingMissed'
    OBVIOUS
  <2>t. TypeOK /\ Reloader \in Stoppers
    BY DEF IInv, Stoppers
  <2>1. ASSUME NEW i \in Stoppers, asyncWaitStop(i) PROVE NothingMissed'
    BY <2>t, <2>1 DEF NothingMissed, asyncWaitStop, WG!Add, TypeOK
  <2>2. ASSUME NEW i \in Stoppers, StopperCancel(i) PROVE NothingMissed'
    <3>1. closed => closed'
      BY <2>2 DEF StopperCancel
    <3>2. i = Reloader => closed'
      BY <2>2 DEF StopperCancel
    <3>3. UNCHANGED <<counter, waiter, pc, reloader>> /\ stopper' = [stopper EXCEPT ![i] = "waiting"]
      BY <2>2 DEF StopperCancel, wgVars
    <3> QED BY <2>t, <3>1, <3>2, <3>3 DEF NothingMissed, TypeOK
  <2>3. ASSUME NEW i \in Stoppers, StopperReturn(i) PROVE NothingMissed'
    <3>1. counter >= 1 /\ counter \in Nat
      BY <2>t, <2>3, ReturnRemoves DEF IInv, WgExact, TypeOK
    <3>2. /\ counter' = counter - 1 /\ closed' = closed
          /\ waiter' = IF counter = 1
                       THEN [w \in Waiters |-> IF waiter[w] = "blocked" THEN "released" ELSE waiter[w]]
                       ELSE waiter
          /\ stopper' = [stopper EXCEPT ![i] = "done"] /\ stopper[i] = "waiting"
          /\ UNCHANGED <<pc, reloader>>
      BY <2>3 DEF StopperReturn, WG!Done, WG!Release
    <3> QED BY <2>t, <3>1, <3>2 DEF NothingMissed, TypeOK
  <2>4. CASE StopWait \/ OnceWait
    <3>1. PICK v \in Waiters : waiter' = [waiter EXCEPT ![v] = IF counter = 0 THEN "returned" ELSE "blocked"]
      BY <2>4 DEF StopWait, OnceWait, WG!Wait, Waiters
    <3>2. /\ UNCHANGED <<counter, stopper, closed, reloader>>
          /\ pc' = pc \/ (reloader # "none" => stopper[Reloader] # "none")
      BY <2>4 DEF StopWait, OnceWait, WG!Wait
    <3> QED BY <2>t, <3>1, <3>2 DEF NothingMissed, TypeOK
  <2>5. ASSUME NEW v \in Waiters, Resume(v) PROVE NothingMissed'
    <3>1. /\ UNCHANGED <<counter, stopper, closed, pc, reloader>>
          /\ waiter' = waiter \/ waiter' = [waiter EXCEPT ![v] = "returned"]
      BY <2>5 DEF Resume, WG!Resume
    <3> QED BY <2>t, <3>1 DEF NothingMissed, TypeOK
  <2>6. CASE \/ StartInput \/ StartReloader \/ Stop \/ Stopped \/ ReloaderStep \/ UNCHANGED vars
             \/ \E i \in Index : RunnerEnds(i)
    <3>1. /\ UNCHANGED <<counter, waiter, stopper, closed>>
          /\ pc' \in {"waiting", "stopped"} =>
               pc \in {"waiting", "stopped"} /\ (reloader' # "none" => reloader # "none")
      BY <2>6 DEF StartInput, SkipDisabled, Reject, StartRunner, StartReloader, Stop, Stopped,
         ReloaderStep, RunnerEnds, vars, wgVars
    <3> QED BY <3>1 DEF NothingMissed
  <2> QED BY <2>1, <2>2, <2>3, <2>4, <2>5, <2>6 DEF Next, Owner, Waiters
<1> QED BY <1>1, <1>2

\* A Wait that is blocked is not forgotten, and what its stoppers wait for can end.
LEMMA WaitedFor == IInv /\ NothingMissed => WaitGoesOn
<1> SUFFICES ASSUME IInv, NothingMissed, pc = "waiting",
                    waiter["stop"] \notin {"released", "returned"},
                    \A i \in Stoppers : stopper[i] # "called"
             PROVE  \/ \E i \in Index : stopper[i] = "waiting" /\ runner[i] \in {"cancelled", "done"}
                    \/ stopper[Reloader] = "waiting" /\ (reloader = "running" => closed)
  BY DEF WaitGoesOn
<1>1. waiter["stop"] = "blocked"
  BY DEF IInv, TypeOK, StopPhases, Waiters
<1>2. Working # {}
  BY <1>1, WorkingFinite DEF IInv, WgExact, NothingMissed, Waiters
<1>3. PICK i \in Stoppers : stopper[i] = "waiting"
  BY <1>2 DEF Working
<1> QED BY <1>3 DEF IInv, StopperRunner, NothingMissed, Stoppers

\* A Wait of Stop has always somebody to wait for who can go on: no stopper is
\* lost, no wake-up either, and none waits for a runner nobody has cancelled.
THEOREM StopNeverStuck == Spec => []WaitGoesOn
BY NothingMissedKept, WaitedFor, InitIInv, NextIInv, PTL DEF Spec

\* Once Stop is complete, the reloader has been told to end: with StopOnlyNears,
\* by which it only goes forward, this is the safety part of LateReloaderEnds.
THEOREM LateReloaderTold == Spec => []ReloaderTold
<1>1. IInv /\ NothingMissed => ReloaderTold
  <2> SUFFICES ASSUME IInv, NothingMissed, pc = "stopped", reloader # "none" PROVE closed
    BY DEF ReloaderTold
  <2>1. Working = {}
    BY WorkingFinite DEF IInv, StopReleased, WgExact
  <2>2. stopper[Reloader] = "done"
    BY <2>1 DEF IInv, TypeOK, NothingMissed, Working, Stoppers
  <2> QED BY <2>2 DEF NothingMissed
<1> QED BY <1>1, NothingMissedKept, InitIInv, NextIInv, PTL DEF Spec

\* Each of the steps is forward, and moves the one that takes it.
LEMMA StepNears == TypeOK /\ TypeOK' /\ Next => StopNears
<1> SUFFICES ASSUME TypeOK, TypeOK', Next, Stopping
             PROVE  Stopping' /\ Forward /\ (SomeoneMoves \/ panic' # "none")
  BY DEF StopNears
<1> USE Stages DEF Forward, SomeoneMoves
<1>s. /\ Stage[pc] <= Stage[pc] /\ Stage[reloader] <= Stage[reloader]
      /\ \A i \in Stoppers : Stage[stopper[i]] <= Stage[stopper[i]]
      /\ \A i \in Index : Stage[runner[i]] <= Stage[runner[i]]
      /\ \A w \in Waiters : Stage[waiter[w]] <= Stage[waiter[w]]
  BY StagesStay
<1>1. CASE StopWait
  <2>1. /\ UNCHANGED <<reloader, stopper, runner>> /\ pc = "stopping" /\ pc' = "waiting"
        /\ waiter["stop"] = "out"
        /\ waiter' = [waiter EXCEPT !["stop"] = IF counter = 0 THEN "returned" ELSE "blocked"]
    BY <1>1 DEF StopWait, WG!Wait
  <2>2. \A w \in Waiters : Stage[waiter[w]] <= Stage[waiter'[w]]
    BY <1>s, <2>1 DEF TypeOK, Waiters
  <2> QED BY <1>s, <2>1, <2>2 DEF Stopping
<1>2. CASE Stopped
  <2>1. /\ UNCHANGED <<reloader, stopper, runner, waiter>> /\ pc = "waiting" /\ pc' = "stopped"
    BY <1>2 DEF Stopped, wgVars
  <2> QED BY <1>s, <2>1 DEF Stopping
<1>3. ASSUME NEW v \in Waiters, Resume(v)
      PROVE  Stopping' /\ Forward /\ (SomeoneMoves \/ panic' # "none")
  <2>1. /\ UNCHANGED <<pc, reloader, stopper, runner>> /\ waiter[v] = "released"
        /\ \/ waiter' = [waiter EXCEPT ![v] = "returned"]
           \/ waiter' = waiter /\ panic' = "reused"
    BY <1>3 DEF Resume, WG!Resume
  <2> QED BY <1>s, <2>1 DEF Stopping, TypeOK
<1>4. CASE OnceWait
  <2>1. /\ UNCHANGED <<pc, reloader, stopper, runner>> /\ waiter["once"] = "out"
        /\ waiter' = [waiter EXCEPT !["once"] = IF counter = 0 THEN "returned" ELSE "blocked"]
    BY <1>4 DEF OnceWait, WG!Wait
  <2> QED BY <1>s, <2>1 DEF Stopping, TypeOK, Waiters
<1>5. ASSUME NEW i \in Stoppers, asyncWaitStop(i)
      PROVE  Stopping' /\ Forward /\ SomeoneMoves
  <2>1. /\ UNCHANGED <<pc, reloader, runner, waiter>> /\ stopper[i] = "none"
        /\ stopper' = [stopper EXCEPT ![i] = "called"]
    BY <1>5 DEF asyncWaitStop, WG!Add
  <2> QED BY <1>s, <2>1 DEF Stopping, TypeOK
<1>6. ASSUME NEW i \in Stoppers, StopperCancel(i)
      PROVE  Stopping' /\ Forward /\ SomeoneMoves
  <2>1. /\ UNCHANGED <<pc, reloader, waiter>> /\ stopper[i] = "called"
        /\ stopper' = [stopper EXCEPT ![i] = "waiting"]
        /\ \/ UNCHANGED runner
           \/ i \in Index /\ runner' = [runner EXCEPT ![i] = IF @ = "running" THEN "cancelled" ELSE @]
    BY <1>6 DEF StopperCancel, wgVars, Stoppers
  <2>2. \A j \in Index : Stage[runner[j]] <= Stage[runner'[j]]
    BY <1>s, <2>1 DEF TypeOK
  <2> QED BY <1>s, <2>1, <2>2 DEF Stopping, TypeOK
<1>7. ASSUME NEW i \in Stoppers, StopperReturn(i)
      PROVE  Stopping' /\ Forward /\ SomeoneMoves
  <2>1. /\ UNCHANGED <<pc, reloader, runner>> /\ stopper[i] = "waiting"
        /\ stopper' = [stopper EXCEPT ![i] = "done"]
        /\ \A w \in Waiters : waiter'[w] = waiter[w] \/ (waiter[w] = "blocked" /\ waiter'[w] = "released")
    BY <1>7 DEF StopperReturn, WG!Done, WG!Release
  <2> QED BY <1>s, <2>1 DEF Stopping, TypeOK
<1>8. ASSUME NEW i \in Index, RunnerEnds(i)
      PROVE  Stopping' /\ Forward /\ SomeoneMoves
  <2>1. /\ UNCHANGED <<pc, reloader, stopper, waiter>> /\ runner[i] \in {"running", "cancelled"}
        /\ runner' = [runner EXCEPT ![i] = "done"]
    BY <1>8 DEF RunnerEnds, wgVars
  <2> QED BY <1>s, <2>1 DEF Stopping, TypeOK
<1>9. CASE ReloaderStep
  <2>1. /\ UNCHANGED <<pc, stopper, runner, waiter>>
        /\ \/ reloader = "spawned" /\ reloader' = "running"
           \/ reloader = "running" /\ reloader' = "done"
    BY <1>9 DEF ReloaderStep, wgVars
  <2> QED BY <1>s, <2>1 DEF Stopping
<1>10. ~StartInput /\ ~StartReloader /\ ~Stop
  BY DEF StartInput, StartReloader, Stop, Stopping
<1> QED BY <1>1, <1>2, <1>3, <1>4, <1>5, <1>6, <1>7, <1>8, <1>9, <1>10 DEF Next, Owner, Waiters

\* From Stop on every step brings somebody forward and nobody back, however many
\* inputs there are and whatever they do: a Stop that is called takes finitely
\* many steps.
THEOREM StopOnlyNears == Spec => [][StopNears]_vars
<1>1. IInv => TypeOK
  BY DEF IInv
<1>2. TypeOK /\ TypeOK' /\ [Next]_vars => [StopNears]_vars
  BY StepNears
<1> QED BY <1>1, <1>2, InitIInv, NextIInv, PTL DEF Spec

=============================================================================
