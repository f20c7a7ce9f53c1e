------------------------------ MODULE WaitGroup ------------------------------
(***************************************************************************)
(* sync.WaitGroup of Go's standard library, as the beater uses it: one     *)
(* counter, goroutines that block until it is zero, and the two panics its *)
(* implementation can raise.  This is external code, modelled from how     *)
(* beater/channels.go and beater/crawler.go call it; a module that owns a  *)
(* WaitGroup takes an INSTANCE of this one.                                *)
(*                                                                         *)
(* A panic ends the process, so no operation is enabled after one.         *)
(***************************************************************************)
EXTENDS Integers

CONSTANT Waiters   \* the goroutines that call Wait

VARIABLES
  counter,   \* the value of the WaitGroup
  waiter,    \* per goroutine: "out", "blocked", "released", "returned"
  panic      \* "none", "negative" or "reused"

Init ==
  /\ counter = 0
  /\ waiter = [w \in Waiters |-> "out"]
  /\ panic = "none"

\* Reaching zero wakes every blocked goroutine; it has not run yet.
Release == [w \in Waiters |->
              IF waiter[w] = "blocked" THEN "released" ELSE waiter[w]]

Add(delta) ==
  /\ panic = "none"
  /\ counter' = counter + delta
  /\ UNCHANGED <<waiter, panic>>

Done ==
  /\ panic = "none"
  /\ counter' = counter - 1
  /\ waiter' = IF counter = 1 THEN Release ELSE waiter
  /\ panic' = IF counter < 1 THEN "negative" ELSE panic

Wait(w) ==
  /\ panic = "none"
  /\ waiter[w] = "out"
  /\ waiter' = [waiter EXCEPT ![w] = IF counter = 0 THEN "returned" ELSE "blocked"]
  /\ UNCHANGED <<counter, panic>>

\* The woken goroutine looks at the state again: the library panics when the
\* group was used for new work before the Wait that just ended has returned.
Resume(w) ==
  /\ panic = "none"
  /\ waiter[w] = "released"
  /\ IF counter = 0 /\ \A v \in Waiters : waiter[v] # "blocked"
       THEN /\ waiter' = [waiter EXCEPT ![w] = "returned"]
            /\ UNCHANGED panic
       ELSE /\ panic' = "reused"
            /\ UNCHANGED waiter
  /\ UNCHANGED counter

TypeOK ==
  /\ counter \in Int
  /\ waiter \in [Waiters -> {"out", "blocked", "released", "returned"}]
  /\ panic \in {"none", "negative", "reused"}

=============================================================================
