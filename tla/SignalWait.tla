----------------------------- MODULE SignalWait -----------------------------
(***************************************************************************)
(* beater/signalwait.go: a counter of potential "alive" signals and a      *)
(* channel of capacity one.  Add starts a goroutine per function, which    *)
(* sends on the channel once the function has returned; Wait returns at    *)
(* once when the counter is zero and otherwise receives one signal.        *)
(*                                                                         *)
(* Add and Wait are called by the one goroutine that owns the value (the   *)
(* count field has no lock), so Add is not enabled while Wait blocks.      *)
(***************************************************************************)
EXTENDS Naturals, FiniteSets

CONSTANT Signalers   \* the goroutines that Add may start, one per function

ASSUME SignalersFinite == IsFiniteSet(Signalers)

Capacity == 1

VARIABLES
  count,       \* signalWait.count
  signals,     \* elements in the buffer of signalWait.signals
  goroutine,   \* the goroutine of each Add: "idle", "running", "sending", "gone"
  waiter       \* the owner: "out" of Wait, "waiting" in it, "returned" from it

vars == <<count, signals, goroutine, waiter>>

Init ==
  /\ count = 0
  /\ signals = 0
  /\ goroutine = [s \in Signalers |-> "idle"]
  /\ waiter = "out"

(***************************************************************************)
(* The owner's operations.                                                 *)
(***************************************************************************)
\* Mutant of Add: the increment is forgotten.
AddUncounted(s) ==
  /\ waiter # "waiting"
  /\ goroutine[s] = "idle"
  /\ goroutine' = [goroutine EXCEPT ![s] = "running"]
  /\ UNCHANGED <<count, signals, waiter>>

Add(s) ==
  /\ waiter # "waiting"
  /\ goroutine[s] = "idle"
  /\ count' = count + 1
  /\ goroutine' = [goroutine EXCEPT ![s] = "running"]
  /\ UNCHANGED <<signals, waiter>>

\* Mutant of WaitCall: the early return decrements too.
WaitCallDecrements ==
  /\ waiter # "waiting"
  /\ waiter' = IF count = 0 THEN "returned" ELSE "waiting"
  /\ count' = IF count = 0 THEN count - 1 ELSE count
  /\ UNCHANGED <<signals, goroutine>>

WaitCall ==
  /\ waiter # "waiting"
  /\ waiter' = IF count = 0 THEN "returned" ELSE "waiting"
  /\ UNCHANGED <<count, signals, goroutine>>

\* Mutant of WaitReceive: the decrement is forgotten.
WaitReceiveUncounted ==
  /\ waiter = "waiting"
  /\ signals > 0
  /\ signals' = signals - 1
  /\ waiter' = "returned"
  /\ UNCHANGED <<count, goroutine>>

WaitReceive ==
  /\ waiter = "waiting"
  /\ signals > 0
  /\ signals' = signals - 1
  /\ count' = count - 1
  /\ waiter' = "returned"
  /\ UNCHANGED goroutine

(***************************************************************************)
(* The goroutine of one Add: fn() returns, then s.signals <- v, which      *)
(* blocks while the buffer is full.                                        *)
(***************************************************************************)
Fire(s) ==
  /\ goroutine[s] = "running"
  /\ goroutine' = [goroutine EXCEPT ![s] = "sending"]
  /\ UNCHANGED <<count, signals, waiter>>

\* Mutant of Send: a signal that finds the buffer full is thrown away.
SendOrDrop(s) ==
  /\ goroutine[s] = "sending"
  /\ signals' = Capacity
  /\ goroutine' = [goroutine EXCEPT ![s] = "gone"]
  /\ UNCHANGED <<count, waiter>>

Send(s) ==
  /\ goroutine[s] = "sending"
  /\ signals < Capacity
  /\ signals' = signals + 1
  /\ goroutine' = [goroutine EXCEPT ![s] = "gone"]
  /\ UNCHANGED <<count, waiter>>

Next ==
  \/ \E s \in Signalers : Add(s) \/ Fire(s) \/ Send(s)
  \/ WaitCall
  \/ WaitReceive

\* The Go scheduler runs every goroutine that can proceed.  Nothing makes a
\* function return (it waits for a signal, a timer or a counter) and nothing
\* makes the owner call Add or Wait: Fire, Add and WaitCall have no fairness.
Fairness ==
  /\ WF_vars(WaitReceive)
  /\ \A s \in Signalers : WF_vars(Send(s))

Spec == Init /\ [][Next]_vars /\ Fairness

-----------------------------------------------------------------------------

Running == {s \in Signalers : goroutine[s] = "running"}
Sending == {s \in Signalers : goroutine[s] = "sending"}

TypeOK ==
  /\ count \in Nat
  /\ signals \in 0..Capacity
  /\ goroutine \in [Signalers -> {"idle", "running", "sending", "gone"}]
  /\ waiter \in {"out", "waiting", "returned"}

\* The count field is exact at every moment: it is the number of functions
\* still running, plus the signals not delivered to the channel, plus the
\* signals in it.  This is what lets Wait decide from count alone whether a
\* signal can still arrive.
CountExact == count = Cardinality(Running) + Cardinality(Sending) + signals

\* Wait never blocks on a channel nobody will ever send on: while the owner
\* waits, a signal is buffered, or some goroutine still owes one.
NoLostSignal ==
  waiter = "waiting" => signals > 0 \/ Running \cup Sending # {}

(***************************************************************************)
(* The channel and the counter together are the semaphore of AliveSignals. *)
(***************************************************************************)
Promise == INSTANCE AliveSignals WITH
  added <- {s \in Signalers : goroutine[s] # "idle"},
  alive <- Running,
  ready <- signals + Cardinality(Sending)

ImplementsPromise == Promise!Spec

=============================================================================
