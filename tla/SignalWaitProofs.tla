-------------------------- MODULE SignalWaitProofs --------------------------
(***************************************************************************)
(* SignalWait for any finite set of functions: the count field is exact,   *)
(* Wait never blocks for nothing, and every step is a step of the          *)
(* semaphore AliveSignals.                                                 *)
(***************************************************************************)
EXTENDS SignalWait, FiniteSetTheorems, TLAPS

\* The inductive invariant.  CountExact is needed for the type: only because
\* a buffered signal is counted does count stay a natural number.
IInv == TypeOK /\ CountExact

\* The sets the count speaks of are finite.
LEMMA SetsFinite ==
  /\ IsFiniteSet(Running) /\ Cardinality(Running) \in Nat
  /\ IsFiniteSet(Sending) /\ Cardinality(Sending) \in Nat
<1>1. Running \subseteq Signalers /\ Sending \subseteq Signalers
  BY DEF Running, Sending
<1>2. IsFiniteSet(Running) /\ IsFiniteSet(Sending)
  BY <1>1, SignalersFinite, FS_Subset
<1> QED BY <1>2, FS_CardinalityType

\* A goroutine that is running or sending makes its set nonempty.
LEMMA EmptyMeansZero ==
  /\ Cardinality(Running) = 0 <=> Running = {}
  /\ Cardinality(Sending) = 0 <=> Sending = {}
BY SetsFinite, FS_EmptySet

\* How Running and Sending change in each action of a goroutine or of Add.
LEMMA AddSets ==
  ASSUME TypeOK, NEW s \in Signalers, Add(s)
  PROVE  /\ Cardinality(Running') = Cardinality(Running) + 1
         /\ Sending' = Sending
<1>1. Running' = Running \cup {s} /\ s \notin Running
  BY DEF TypeOK, Add, Running
<1>2. Sending' = Sending
  BY DEF TypeOK, Add, Sending
<1> QED BY <1>1, <1>2, SetsFinite, FS_AddElement

\* A function that returns is one that runs no longer, and is about to send.
LEMMA FireSets ==
  ASSUME TypeOK, NEW s \in Signalers, Fire(s)
  PROVE  /\ Running' = Running \ {s} /\ Sending' = Sending \cup {s}
         /\ Cardinality(Running') = Cardinality(Running) - 1
         /\ Cardinality(Sending') = Cardinality(Sending) + 1
<1>1. Running' = Running \ {s} /\ s \in Running
  BY DEF TypeOK, Fire, Running
<1>2. Sending' = Sending \cup {s} /\ s \notin Sending
  BY DEF TypeOK, Fire, Sending
<1> QED BY <1>1, <1>2, SetsFinite, FS_AddElement, FS_RemoveElement

\* A signal that was sent is one fewer to be sent.
LEMMA SendSets ==
  ASSUME TypeOK, NEW s \in Signalers, Send(s)
  PROVE  /\ Running' = Running
         /\ Cardinality(Sending') = Cardinality(Sending) - 1
<1>1. Running' = Running
  BY DEF TypeOK, Send, Running
<1>2. Sending' = Sending \ {s} /\ s \in Sending
  BY DEF TypeOK, Send, Sending
<1> QED BY <1>1, <1>2, SetsFinite, FS_RemoveElement

-----------------------------------------------------------------------------

\* The invariant holds initially.
LEMMA InitIInv == Init => IInv
<1> SUFFICES ASSUME Init PROVE IInv
  OBVIOUS
<1>1. TypeOK
  BY DEF Init, TypeOK, Capacity
<1>2. Running = {} /\ Sending = {}
  BY DEF Init, Running, Sending
<1>3. CountExact
  BY <1>2, FS_EmptySet DEF Init, CountExact
<1> QED BY <1>1, <1>3 DEF IInv

\* Every step keeps the invariant.
LEMMA NextIInv == IInv /\ [Next]_vars => IInv'
<1> SUFFICES ASSUME TypeOK, CountExact, [Next]_vars PROVE TypeOK' /\ CountExact'
  BY DEF IInv
<1>f. /\ Cardinality(Running) \in Nat /\ Cardinality(Sending) \in Nat
      /\ signals \in {0, 1} /\ count \in Nat
  BY SetsFinite DEF TypeOK, Capacity
<1>1. ASSUME NEW s \in Signalers, Add(s) PROVE TypeOK' /\ CountExact'
  <2>1. TypeOK'
    BY <1>1 DEF TypeOK, Add
  <2>2. Cardinality(Running') = Cardinality(Running) + 1 /\ Sending' = Sending
    BY <1>1, AddSets
  <2>3. CountExact'
    BY <1>1, <1>f, <2>2 DEF CountExact, Add
  <2> QED BY <2>1, <2>3
<1>2. ASSUME NEW s \in Signalers, Fire(s) PROVE TypeOK' /\ CountExact'
  <2>1. TypeOK'
    BY <1>2 DEF TypeOK, Fire
  <2>2. /\ Cardinality(Running') = Cardinality(Running) - 1
        /\ Cardinality(Sending') = Cardinality(Sending) + 1
    BY <1>2, FireSets
  <2>3. CountExact'
    BY <1>2, <1>f, <2>2 DEF CountExact, Fire
  <2> QED BY <2>1, <2>3
<1>3. ASSUME NEW s \in Signalers, Send(s) PROVE TypeOK' /\ CountExact'
  <2>1. TypeOK'
    BY <1>3 DEF TypeOK, Send, Capacity
  <2>2. Running' = Running /\ Cardinality(Sending') = Cardinality(Sending) - 1
    BY <1>3, SendSets
  <2>3. CountExact'
    BY <1>3, <1>f, <2>2 DEF CountExact, Send
  <2> QED BY <2>1, <2>3
<1>4. CASE WaitCall
  <2>1. TypeOK'
    BY <1>4 DEF TypeOK, WaitCall
  <2>2. CountExact'
    BY <1>4 DEF CountExact, WaitCall, Running, Sending
  <2> QED BY <2>1, <2>2
<1>5. CASE WaitReceive
  <2>1. signals = 1 /\ count - 1 \in Nat
    BY <1>5, <1>f DEF CountExact, WaitReceive
  <2>2. TypeOK'
    BY <1>5, <2>1 DEF TypeOK, WaitReceive, Capacity
  <2>3. Running' = Running /\ Sending' = Sending
    BY <1>5 DEF WaitReceive, Running, Sending
  <2>4. CountExact'
    BY <1>5, <1>f, <2>3 DEF CountExact, WaitReceive
  <2> QED BY <2>2, <2>4
<1>6. CASE UNCHANGED vars
  BY <1>6 DEF vars, TypeOK, CountExact, Running, Sending
<1> QED BY <1>1, <1>2, <1>3, <1>4, <1>5, <1>6 DEF Next

\* The fields of a signalWait keep their types; count never goes negative.
THEOREM TypeCorrect == Spec => []TypeOK
<1>1. IInv => TypeOK
  BY DEF IInv
<1> QED BY InitIInv, NextIInv, <1>1, PTL DEF Spec

\* The count field is the number of signals that are still to come or to be
\* received, after any sequence of Add and Wait.
THEOREM CountIsExact == Spec => []CountExact
<1>1. IInv => CountExact
  BY DEF IInv
<1> QED BY InitIInv, NextIInv, <1>1, PTL DEF Spec

-----------------------------------------------------------------------------

\* While the owner waits, the count is positive.
WaitCounts == waiter = "waiting" => count > 0

\* Every step keeps the count of a blocked Wait positive.
LEMMA WaitCountsStep == IInv /\ WaitCounts /\ [Next]_vars => WaitCounts'
<1> SUFFICES ASSUME TypeOK, CountExact, WaitCounts, [Next]_vars PROVE WaitCounts'
  BY DEF IInv
<1>1. ASSUME NEW s \in Signalers, Add(s) \/ Fire(s) \/ Send(s) PROVE WaitCounts'
  BY <1>1 DEF TypeOK, WaitCounts, Add, Fire, Send
<1>2. CASE WaitCall
  BY <1>2 DEF TypeOK, WaitCounts, WaitCall
<1>3. CASE WaitReceive
  BY <1>3 DEF WaitCounts, WaitReceive
<1>4. CASE UNCHANGED vars
  BY <1>4 DEF vars, WaitCounts
<1> QED BY <1>1, <1>2, <1>3, <1>4 DEF Next

\* Wait never blocks on a channel that nobody will send on: Run's two waits
\* cannot hang for lack of a sender.
THEOREM WaitHasSender == Spec => []NoLostSignal
<1>1. Init => WaitCounts
  BY DEF Init, WaitCounts
<1>2. IInv /\ WaitCounts => NoLostSignal
  <2> SUFFICES ASSUME TypeOK, CountExact, WaitCounts, waiter = "waiting"
               PROVE  signals > 0 \/ Running \cup Sending # {}
    BY DEF IInv, NoLostSignal
  <2>1. Cardinality(Running) + Cardinality(Sending) + signals > 0
    BY DEF CountExact, WaitCounts
  <2>2. signals > 0 \/ Cardinality(Running) # 0 \/ Cardinality(Sending) # 0
    BY <2>1, SetsFinite DEF TypeOK, Capacity
  <2> QED BY <2>2, EmptyMeansZero
<1> QED BY InitIInv, NextIInv, WaitCountsStep, <1>1, <1>2, PTL DEF Spec

-----------------------------------------------------------------------------

\* Every step of the counter and the channel is a step of the semaphore, or
\* leaves it as it is (a send moves a return from one place to another).
LEMMA StepRefines == IInv /\ [Next]_vars => [Promise!Next]_(Promise!vars)
<1> SUFFICES ASSUME TypeOK, CountExact, [Next]_vars PROVE [Promise!Next]_(Promise!vars)
  BY DEF IInv
<1> DEFINE added == {s \in Signalers : goroutine[s] # "idle"}
           ready == signals + Cardinality(Sending)
<1>f. /\ Cardinality(Running) \in Nat /\ Cardinality(Sending) \in Nat
      /\ signals \in {0, 1} /\ count \in Nat
  BY SetsFinite DEF TypeOK, Capacity
<1>1. ASSUME NEW s \in Signalers, Add(s) PROVE Promise!Add(s)
  <2>1. s \notin added /\ added' = added \cup {s} /\ Running' = Running \cup {s}
    BY <1>1 DEF TypeOK, Add, Running
  <2>s. Sending' = Sending
    BY <1>1, AddSets
  <2>2. ready' = ready
    BY <1>1, <2>s DEF Add
  <2> QED BY <1>1, <2>1, <2>2 DEF Add, Promise!Add
<1>2. ASSUME NEW s \in Signalers, Fire(s) PROVE Promise!Fire(s)
  <2>1. s \in Running /\ Running' = Running \ {s} /\ added' = added
    BY <1>2 DEF TypeOK, Fire, Running
  <2>s. Cardinality(Sending') = Cardinality(Sending) + 1
    BY <1>2, FireSets
  <2>2. ready' = ready + 1
    BY <1>2, <1>f, <2>s DEF Fire
  <2> QED BY <1>2, <2>1, <2>2 DEF Fire, Promise!Fire
<1>3. ASSUME NEW s \in Signalers, Send(s) PROVE UNCHANGED Promise!vars
  <2>1. Running' = Running /\ added' = added
    BY <1>3 DEF TypeOK, Send, Running
  <2>s. Cardinality(Sending') = Cardinality(Sending) - 1
    BY <1>3, SendSets
  <2>2. ready' = ready
    BY <1>3, <1>f, <2>s DEF Send
  <2> QED BY <1>3, <2>1, <2>2 DEF Send, Promise!vars
<1>4. CASE WaitCall
  <2>1. Running' = Running /\ added' = added /\ ready' = ready
    BY <1>4 DEF WaitCall, Running, Sending
  <2>2. count = 0 <=> Running = {} /\ ready = 0
    BY <1>f, EmptyMeansZero DEF CountExact
  <2> QED BY <1>4, <2>1, <2>2 DEF WaitCall, Promise!Wait, Promise!Next
<1>5. CASE WaitReceive
  <2>1. Running' = Running /\ Sending' = Sending /\ added' = added
    BY <1>5 DEF WaitReceive, Running, Sending
  <2>2. ready > 0 /\ ready' = ready - 1
    BY <1>5, <1>f, <2>1 DEF WaitReceive
  <2> QED BY <1>5, <2>1, <2>2 DEF WaitReceive, Promise!Return, Promise!Next
<1>6. CASE UNCHANGED vars
  BY <1>6 DEF vars, Promise!vars, Running, Sending
<1> QED BY <1>1, <1>2, <1>3, <1>4, <1>5, <1>6 DEF Next, Promise!Next

\* signalWait implements the semaphore: its initial states and its steps are
\* the semaphore's.  (The fairness part of Promise!Spec is left to TLC.)
THEOREM ImplementsSafely == Spec => Promise!Init /\ [][Promise!Next]_(Promise!vars)
<1>1. Init => Promise!Init
  <2> SUFFICES ASSUME Init PROVE Promise!Init
    OBVIOUS
  <2>1. Running = {} /\ Sending = {} /\ {s \in Signalers : goroutine[s] # "idle"} = {}
    BY DEF Init, Running, Sending
  <2> QED BY <2>1, FS_EmptySet DEF Init, Promise!Init
<1> QED BY InitIInv, NextIInv, StepRefines, <1>1, PTL DEF Spec

=============================================================================
