------------------------- MODULE EventCounterProofs -------------------------
(***************************************************************************)
(* EventCounter for any clients, any finite set of events and any waiters: *)
(* the WaitGroup covers what is in flight, never goes negative, and lets a *)
(* Wait return only when every event counted so far was dropped; a Wait    *)
(* that blocks has an event to wait for, and events only get nearer to     *)
(* their end.                                                              *)
(***************************************************************************)
EXTENDS EventCounter, FiniteSetTheorems, TLAPS

\* What the counter really holds: every event ever counted except those the
\* pipeline dropped.  That an acknowledged event is among them is not what
\* the comments of the code say (run acked_wait).
Balance == counter = Cardinality(Outstanding)

\* The inductive invariant.
IInv == TypeOK /\ Balance /\ NeverNegative

\* The events that still hold a unit of the counter form a finite set.
LEMMA OutstandingFinite ==
  /\ IsFiniteSet(Outstanding)
  /\ Cardinality(Outstanding) \in Nat
  /\ Cardinality(Outstanding) = 0 <=> Outstanding = {}
<1>1. Outstanding \subseteq Events
  BY DEF Outstanding, InState
<1>2. IsFiniteSet(Outstanding)
  BY <1>1, EventsFinite, FS_Subset
<1> QED BY <1>2, FS_CardinalityType, FS_EmptySet

\* Publishing adds exactly the published events to the outstanding ones.
LEMMA PublishAllAdds ==
  ASSUME TypeOK, NEW c \in Clients, NEW es \in SUBSET Events, PublishAll(c, es)
  PROVE  Cardinality(Outstanding') = Cardinality(Outstanding) + Cardinality(es)
<1>1. Outstanding' = Outstanding \cup es /\ Outstanding \cap es = {}
  BY DEF TypeOK, PublishAll, Outstanding, InState
<1>2. IsFiniteSet(es) /\ Cardinality(es) \in Nat
  BY EventsFinite, FS_Subset, FS_CardinalityType
<1>3. Cardinality(Outstanding \cup es) = Cardinality(Outstanding) + Cardinality(es) - Cardinality({})
  BY <1>1, <1>2, OutstandingFinite, FS_Union
<1> QED BY <1>1, <1>2, <1>3, OutstandingFinite, FS_EmptySet

\* A drop removes exactly one.
LEMMA DropRemoves ==
  ASSUME TypeOK, NEW e \in Events, DroppedOnPublish(e)
  PROVE  Cardinality(Outstanding') = Cardinality(Outstanding) - 1
<1>1. e \in Outstanding /\ Outstanding' = Outstanding \ {e}
  BY DEF TypeOK, DroppedOnPublish, Outstanding, InState
<1> QED BY <1>1, OutstandingFinite, FS_RemoveElement

\* A step that touches neither the WaitGroup nor an outstanding event.
Steady == counter' = counter /\ panic' = panic /\ Outstanding' = Outstanding

\* A step that neither counts nor drops an event keeps the balance.
LEMMA SteadyKeeps == Balance /\ NeverNegative /\ Steady => Balance' /\ NeverNegative'
BY DEF Steady, Balance, NeverNegative

\* Everything else leaves the set of outstanding events as it is.
LEMMA OthersSteady ==
  ASSUME TypeOK, NEW e \in Events, Accept(e) \/ FilteredOut(e) \/ Published(e) \/ Acked(e)
  PROVE  Steady /\ waiter' = waiter
<1>1. counter' = counter /\ panic' = panic /\ waiter' = waiter
  BY DEF Accept, FilteredOut, Published, Acked, wgVars
<1>2. Outstanding' = Outstanding
  BY DEF TypeOK, Accept, FilteredOut, Published, Acked, Outstanding, InState
<1> QED BY <1>1, <1>2 DEF Steady

-----------------------------------------------------------------------------

\* The invariant holds initially.
LEMMA InitIInv == Init => IInv
<1> SUFFICES ASSUME Init PROVE IInv
  OBVIOUS
<1>1. TypeOK /\ NeverNegative
  BY DEF Init, TypeOK, NeverNegative, WG!Init
<1>2. Outstanding = {}
  BY DEF Init, Outstanding, InState
<1>3. Balance
  BY <1>2, FS_EmptySet DEF Init, WG!Init, Balance
<1> QED BY <1>1, <1>3 DEF IInv

\* One step per action; the WaitGroup's operations are unfolded here only.
LEMMA NextIInv == IInv /\ [Next]_vars => IInv'
<1> SUFFICES ASSUME TypeOK, Balance, NeverNegative, [Next]_vars PROVE IInv'
  BY DEF IInv
<1>1. ASSUME NEW c \in Clients, Connect(c) \/ Close(c) PROVE IInv'
  <2>1. TypeOK'
    BY <1>1 DEF TypeOK, Connect, Close, wgVars
  <2>2. Steady
    BY <1>1 DEF Connect, Close, wgVars, Steady, Outstanding, InState
  <2> QED BY <2>1, <2>2, SteadyKeeps DEF IInv
<1>2. ASSUME NEW c \in Clients, NEW es \in SUBSET Events, PublishAll(c, es) PROVE IInv'
  <2>1. Cardinality(Outstanding') = Cardinality(Outstanding) + Cardinality(es)
    BY <1>2, PublishAllAdds
  <2>2. Cardinality(es) \in Nat
    BY EventsFinite, FS_Subset, FS_CardinalityType
  <2>3. counter' = counter + Cardinality(es) /\ panic' = panic /\ waiter' = waiter
    BY <1>2 DEF PublishAll, WG!Add
  <2>4. TypeOK'
    BY <1>2, <2>2, <2>3 DEF TypeOK, PublishAll
  <2>5. Balance'
    BY <2>1, <2>3 DEF Balance
  <2>6. NeverNegative'
    BY <2>3 DEF NeverNegative
  <2> QED BY <2>4, <2>5, <2>6 DEF IInv
<1>3. ASSUME NEW e \in Events, Publish(e) PROVE IInv'
  <2>1. ClientOf[e] \in Clients /\ {e} \in SUBSET Events
    BY ClientOfType
  <2> QED BY <1>2, <1>3, <2>1 DEF Publish
<1>4. ASSUME NEW e \in Events, DroppedOnPublish(e) PROVE IInv'
  <2>1. Cardinality(Outstanding') = Cardinality(Outstanding) - 1
    BY <1>4, DropRemoves
  <2>2. e \in Outstanding
    BY <1>4 DEF DroppedOnPublish, Outstanding, InState
  <2>3. counter >= 1 /\ counter \in Nat
    BY <2>2, OutstandingFinite DEF Balance
  <2>4. counter' = counter - 1 /\ panic' = panic
    BY <1>4, <2>3 DEF DroppedOnPublish, WG!Done
  <2>5. waiter' \in [Waiters -> {"out", "blocked", "released", "returned"}]
    BY <1>4 DEF TypeOK, DroppedOnPublish, WG!Done, WG!Release
  <2>6. event' \in [Events -> {"new", "counted", "accepted", "queued", "acked",
                               "filtered", "dropped"}] /\ client' = client
    BY <1>4 DEF TypeOK, DroppedOnPublish
  <2>7. TypeOK'
    BY <2>3, <2>4, <2>5, <2>6 DEF TypeOK
  <2>8. Balance' /\ NeverNegative'
    BY <2>1, <2>4 DEF Balance, NeverNegative
  <2> QED BY <2>7, <2>8 DEF IInv
<1>5. ASSUME NEW e \in Events, Accept(e) \/ FilteredOut(e) \/ Published(e) \/ Acked(e)
      PROVE  IInv'
  <2>1. TypeOK'
    BY <1>5 DEF TypeOK, Accept, FilteredOut, Published, Acked, wgVars
  <2>2. Steady
    BY <1>5, OthersSteady
  <2> QED BY <2>1, <2>2, SteadyKeeps DEF IInv
<1>6. ASSUME NEW w \in Waiters, Wait(w) PROVE IInv'
  <2>1. TypeOK'
    BY <1>6 DEF TypeOK, Wait, WG!Wait
  <2>2. Steady
    BY <1>6 DEF Wait, WG!Wait, Steady, Outstanding, InState
  <2> QED BY <2>1, <2>2, SteadyKeeps DEF IInv
<1>7. ASSUME NEW w \in Waiters, Resume(w) PROVE IInv'
  <2>1. counter' = counter /\ Outstanding' = Outstanding /\ panic' # "negative"
    BY <1>7 DEF NeverNegative, Resume, WG!Resume, Outstanding, InState
  <2>2. TypeOK'
    BY <1>7 DEF TypeOK, Resume, WG!Resume
  <2> QED BY <2>1, <2>2 DEF IInv, Balance, NeverNegative
<1>8. CASE UNCHANGED vars
  <2>1. TypeOK' /\ Steady
    BY <1>8 DEF vars, TypeOK, Steady, Outstanding, InState
  <2> QED BY <2>1, SteadyKeeps DEF IInv
<1> QED BY <1>1, <1>2, <1>3, <1>4, <1>5, <1>6, <1>7, <1>8 DEF Next, Answer

\* The counter covers every event in flight, for batches of any size, and
\* never goes negative on its way.
THEOREM CounterCovers == Spec => []CoversInFlight
<1>1. IInv => CoversInFlight
  <2> SUFFICES ASSUME Balance, NeverNegative PROVE CoversInFlight
    BY DEF IInv
  <2>1. InFlight \subseteq Outstanding
    BY DEF InFlight, Outstanding, InState
  <2>2. Cardinality(InFlight) <= Cardinality(Outstanding)
    BY <2>1, OutstandingFinite, FS_Subset
  <2>3. Cardinality(InFlight) \in Nat
    BY <2>1, OutstandingFinite, FS_Subset, FS_CardinalityType
  <2> QED BY <2>2, <2>3, OutstandingFinite DEF Balance, CoversInFlight
<1> QED BY InitIInv, NextIInv, <1>1, PTL DEF Spec

\* No order of publishing and dropping makes the WaitGroup negative.
THEOREM CounterNeverNegative == Spec => []NeverNegative
<1>1. IInv => NeverNegative
  BY DEF IInv
<1> QED BY InitIInv, NextIInv, <1>1, PTL DEF Spec

-----------------------------------------------------------------------------

\* A waiter leaves Wait only with the counter at zero, in a step that does
\* not touch the events.
LEMMA ReturnsAtZero ==
  ASSUME TypeOK, [Next]_vars, NEW w \in Waiters, WaitReturns(w)
  PROVE  counter = 0 /\ event' = event
<1>1. ASSUME NEW c \in Clients, Connect(c) \/ Close(c) PROVE FALSE
  BY <1>1 DEF Connect, Close, wgVars, WaitReturns
<1>2. ASSUME NEW c \in Clients, NEW es \in SUBSET Events, PublishAll(c, es) PROVE FALSE
  BY <1>2 DEF PublishAll, WG!Add, WaitReturns
<1>3. ASSUME NEW e \in Events, Publish(e) PROVE FALSE
  BY <1>3 DEF Publish, PublishAll, WG!Add, WaitReturns
<1>4. ASSUME NEW e \in Events, DroppedOnPublish(e) PROVE FALSE
  BY <1>4 DEF TypeOK, DroppedOnPublish, WG!Done, WG!Release, WaitReturns
<1>5. ASSUME NEW e \in Events, Accept(e) \/ FilteredOut(e) \/ Published(e) \/ Acked(e)
      PROVE  FALSE
  BY <1>5, OthersSteady DEF WaitReturns
<1>6. ASSUME NEW v \in Waiters, Wait(v) PROVE counter = 0 /\ event' = event
  BY <1>6 DEF TypeOK, Wait, WG!Wait, WaitReturns
<1>7. ASSUME NEW v \in Waiters, Resume(v) PROVE counter = 0 /\ event' = event
  BY <1>7 DEF TypeOK, Resume, WG!Resume, WaitReturns
<1>8. CASE UNCHANGED vars
  BY <1>8 DEF vars, WaitReturns
<1> QED BY <1>1, <1>2, <1>3, <1>4, <1>5, <1>6, <1>7, <1>8 DEF Next, Answer

\* Wait returns only when nothing that was counted is outstanding, however
\* many clients publish meanwhile: the shutdown never mistakes a busy
\* pipeline for an idle one.
THEOREM WaitIsSound == Spec => WaitSound
<1>1. IInv /\ [Next]_vars
        => [\A w \in Waiters : WaitReturns(w) => Outstanding' = {}]_vars
  <2> SUFFICES ASSUME TypeOK, Balance, [Next]_vars, NEW w \in Waiters, WaitReturns(w)
               PROVE  Outstanding' = {}
    BY DEF IInv
  <2>1. counter = 0 /\ event' = event
    BY ReturnsAtZero
  <2>2. Outstanding = {}
    BY <2>1, OutstandingFinite DEF Balance
  <2>3. Outstanding' = Outstanding
    BY <2>1 DEF Outstanding, InState
  <2> QED BY <2>2, <2>3
<1> QED BY InitIInv, NextIInv, <1>1, PTL DEF Spec, WaitSound

-----------------------------------------------------------------------------
(***************************************************************************)
(* The part of WaitEndsOrPinned that needs no fairness: a Wait that blocks *)
(* has an event to wait for, and the events only get nearer to their end.  *)
(***************************************************************************)

\* The pipeline can answer for e: the guard of Answer(e), but for a panic.
Unanswered(e) == event[e] \in {"counted", "accepted"} /\ client[ClientOf[e]] # "none"

\* A goroutine blocks only while the counter is above zero, and what the
\* pipeline was handed it was handed by a client.
Blocking ==
  /\ \A w \in Waiters : waiter[w] = "blocked" => counter > 0
  /\ \A e \in Events : event[e] # "new" => client[ClientOf[e]] # "none"

\* No lost wake-up: while a goroutine is blocked in Wait, some event is pinned
\* or the pipeline has yet to answer for one.
WaitHasCause ==
  \A w \in Waiters :
    waiter[w] = "blocked" => Pinned # {} \/ \E e \in Events : Unanswered(e)

\* How far the pipeline is with an event.
Way(s) ==
  IF s = "new" THEN 0 ELSE IF s = "counted" THEN 1 ELSE IF s = "accepted" THEN 2
  ELSE IF s = "acked" THEN 4 ELSE 3

\* No event goes back, every answer takes one further, and an event that got
\* past the client stays pinned, so that no Wait ever returns again.
EventsEnd ==
  /\ \A e \in Events :
       Way(event'[e]) >= Way(event[e]) /\ (Answer(e) => Way(event'[e]) > Way(event[e]))
  /\ Pinned \subseteq Pinned'
  /\ Pinned # {} => \A w \in Waiters : ~WaitReturns(w)

-----------------------------------------------------------------------------

\* Every step keeps what a blocked goroutine waits for.
LEMMA BlockingKept == ASSUME TypeOK, Blocking, [Next]_vars PROVE Blocking'
<1>1. ASSUME NEW c \in Clients, Connect(c) \/ Close(c) PROVE Blocking'
  <2>1. UNCHANGED <<event, counter, waiter>> /\ \A d \in Clients : client[d] # "none" => client'[d] # "none"
    BY <1>1 DEF TypeOK, Connect, Close, wgVars
  <2> QED BY <2>1, ClientOfType DEF Blocking
<1>2. ASSUME NEW c \in Clients, NEW es \in SUBSET Events, PublishAll(c, es) PROVE Blocking'
  <2>1. Cardinality(es) \in Nat
    BY EventsFinite, FS_Subset, FS_CardinalityType
  <2>2. counter' = counter + Cardinality(es) /\ UNCHANGED <<waiter, client>>
    BY <1>2 DEF PublishAll, WG!Add
  <2>3. \A w \in Waiters : waiter'[w] = "blocked" => counter' > 0
    BY <2>1, <2>2 DEF TypeOK, Blocking
  <2>4. \A e \in Events : event'[e] # "new" => event[e] # "new" \/ ClientOf[e] = c
    BY <1>2 DEF PublishAll
  <2>5. client[c] # "none"
    BY <1>2 DEF PublishAll
  <2> QED BY <2>2, <2>3, <2>4, <2>5 DEF Blocking
<1>3. ASSUME NEW e \in Events, Publish(e) PROVE Blocking'
  <2>1. ClientOf[e] \in Clients /\ {e} \in SUBSET Events
    BY ClientOfType
  <2> QED BY <1>2, <1>3, <2>1 DEF Publish
<1>4. ASSUME NEW e \in Events, DroppedOnPublish(e) PROVE Blocking'
  <2>1. /\ UNCHANGED client /\ event[e] # "new"
        /\ \A f \in Events : f # e => event'[f] = event[f]
    BY <1>4 DEF TypeOK, DroppedOnPublish
  <2>2. counter' = counter - 1 /\ waiter' = IF counter = 1 THEN WG!Release ELSE waiter
    BY <1>4 DEF DroppedOnPublish, WG!Done
  <2>3. \A w \in Waiters : waiter'[w] = "blocked" => waiter[w] = "blocked" /\ counter # 1
    BY <2>2 DEF WG!Release
  <2>4. \A w \in Waiters : waiter'[w] = "blocked" => counter' > 0
    BY <2>2, <2>3 DEF TypeOK, Blocking
  <2> QED BY <2>1, <2>4 DEF Blocking
<1>5. ASSUME NEW e \in Events, Accept(e) \/ FilteredOut(e) \/ Published(e) \/ Acked(e)
      PROVE  Blocking'
  <2>1. counter' = counter /\ waiter' = waiter
    BY <1>5, OthersSteady DEF Steady
  <2>2. /\ UNCHANGED client /\ event[e] # "new"
        /\ \A f \in Events : f # e => event'[f] = event[f]
    BY <1>5 DEF TypeOK, Accept, FilteredOut, Published, Acked
  <2> QED BY <2>1, <2>2 DEF Blocking
<1>6. ASSUME NEW v \in Waiters, Wait(v) PROVE Blocking'
  <2>1. /\ UNCHANGED <<client, event, counter>>
        /\ \A w \in Waiters : waiter'[w] = "blocked" => waiter[w] = "blocked" \/ counter # 0
    BY <1>6 DEF TypeOK, Wait, WG!Wait
  <2> QED BY <2>1 DEF TypeOK, Blocking
<1>7. ASSUME NEW v \in Waiters, Resume(v) PROVE Blocking'
  <2>1. /\ UNCHANGED <<client, event, counter>>
        /\ \A w \in Waiters : waiter'[w] = "blocked" => waiter[w] = "blocked"
    BY <1>7 DEF TypeOK, Resume, WG!Resume
  <2> QED BY <2>1 DEF Blocking
<1>8. CASE UNCHANGED vars
  BY <1>8 DEF vars, Blocking
<1> QED BY <1>1, <1>2, <1>3, <1>4, <1>5, <1>6, <1>7, <1>8 DEF Next, Answer

\* A goroutine blocked in Wait always has an event to wait for: one that is
\* pinned, or one the pipeline has yet to answer for.  No order of publishing,
\* dropping and waiting leaves it asleep over a counter that will not move.
THEOREM WaitNotForgotten == Spec => []WaitHasCause
<1>1. Init => Blocking
  BY DEF Init, WG!Init, Blocking
<1>2. IInv /\ Blocking => WaitHasCause
  <2> SUFFICES ASSUME IInv, Blocking, NEW w \in Waiters, waiter[w] = "blocked"
               PROVE  Pinned # {} \/ \E e \in Events : Unanswered(e)
    BY DEF WaitHasCause
  <2>1. counter > 0
    BY DEF Blocking
  <2>2. Outstanding # {}
    BY <2>1, OutstandingFinite DEF IInv, Balance
  <2>3. PICK e \in Events : event[e] \in {"counted", "accepted", "queued", "acked", "filtered"}
    BY <2>2 DEF Outstanding, InState
  <2>4. CASE event[e] \in {"queued", "acked", "filtered"}
    BY <2>4 DEF Pinned, InState
  <2>5. CASE event[e] \in {"counted", "accepted"}
    BY <2>5 DEF Blocking, Unanswered
  <2> QED BY <2>3, <2>4, <2>5
<1>3. IInv /\ Blocking /\ [Next]_vars => Blocking'
  BY BlockingKept DEF IInv
<1> QED BY InitIInv, NextIInv, <1>1, <1>2, <1>3, PTL DEF Spec

\* What a step does to the events.
LEMMA EventSteps ==
  ASSUME TypeOK, [Next]_vars
  PROVE  \A f \in Events :
           \/ event'[f] = event[f]
           \/ event[f] = "new" /\ event'[f] = "counted"
           \/ event[f] = "counted" /\ event'[f] = "accepted"
           \/ event[f] \in {"counted", "accepted"} /\ event'[f] = "dropped"
           \/ event[f] = "accepted" /\ event'[f] \in {"queued", "filtered"}
           \/ event[f] = "queued" /\ event'[f] = "acked"
<1>1. ASSUME NEW c \in Clients, NEW es \in SUBSET Events, PublishAll(c, es)
      PROVE  \A f \in Events : event'[f] = event[f] \/ (event[f] = "new" /\ event'[f] = "counted")
  BY <1>1 DEF PublishAll
<1>2. CASE \E e \in Events : Publish(e)
  <2>1. \A e \in Events : ClientOf[e] \in Clients /\ {e} \in SUBSET Events
    BY ClientOfType
  <2> QED BY <1>1, <1>2, <2>1 DEF Publish
<1>3. ASSUME NEW e \in Events,
             Accept(e) \/ DroppedOnPublish(e) \/ FilteredOut(e) \/ Published(e) \/ Acked(e)
      PROVE  /\ \A f \in Events : f # e => event'[f] = event[f]
             /\ \/ event[e] = "counted" /\ event'[e] = "accepted"
                \/ event[e] \in {"counted", "accepted"} /\ event'[e] = "dropped"
                \/ event[e] = "accepted" /\ event'[e] \in {"queued", "filtered"}
                \/ event[e] = "queued" /\ event'[e] = "acked"
  BY <1>3 DEF TypeOK, Accept, DroppedOnPublish, FilteredOut, Published, Acked
<1>4. CASE event' = event
  BY <1>4
<1> QED BY <1>1, <1>2, <1>3, <1>4 DEF Next, Answer, Connect, Close, Wait, Resume, vars

\* The pipeline brings every event nearer to its end and never takes a pinned
\* one back; so a Wait that has met a pinned event returns no more, and the
\* shutdown is left to its timeout.
THEOREM EventsOnlyEnd == Spec => [][EventsEnd]_vars
<1>1. ASSUME IInv, [Next]_vars PROVE [EventsEnd]_vars
  <2>1. \A e \in Events : Way(event'[e]) >= Way(event[e])
    BY <1>1, EventSteps DEF IInv, Way
  <2>2. ASSUME NEW e \in Events, Answer(e) PROVE Way(event'[e]) > Way(event[e])
    <3>1. \/ event[e] = "counted" /\ event'[e] = "accepted"
          \/ event[e] \in {"counted", "accepted"} /\ event'[e] = "dropped"
          \/ event[e] = "accepted" /\ event'[e] \in {"queued", "filtered"}
      BY <1>1, <2>2 DEF IInv, TypeOK, Answer, Accept, DroppedOnPublish, FilteredOut, Published
    <3> QED BY <3>1 DEF Way
  <2>3. Pinned \subseteq Pinned'
    BY <1>1, EventSteps DEF IInv, Pinned, InState
  <2>4. ASSUME NEW w \in Waiters, WaitReturns(w) PROVE Pinned = {}
    <3>1. counter = 0
      BY <1>1, <2>4, ReturnsAtZero DEF IInv
    <3>2. Outstanding = {}
      BY <1>1, <3>1, OutstandingFinite DEF IInv, Balance
    <3> QED BY <3>2 DEF Pinned, Outstanding, InState
  <2> QED BY <2>1, <2>2, <2>3, <2>4 DEF EventsEnd
<1> QED BY InitIInv, NextIInv, <1>1, PTL DEF Spec

=============================================================================
