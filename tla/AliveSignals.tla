---------------------------- MODULE AliveSignals ----------------------------
(***************************************************************************)
(* What a signalWait promises its caller: it remembers how many of the     *)
(* functions handed to it have returned and have not been waited for yet,  *)
(* and every Wait consumes one of them.  No channel, no counter, no        *)
(* goroutine: beater/signalwait.go implements this with all three, and     *)
(* SignalWait is the module that says how.                                 *)
(***************************************************************************)
EXTENDS Naturals

CONSTANT Signalers   \* the functions that may be handed to Add

VARIABLES
  added,    \* functions handed over so far
  alive,    \* those that have not returned
  ready,    \* returns that no Wait has consumed
  waiter    \* the goroutine that owns the signalWait: "out", "waiting", "returned"

vars == <<added, alive, ready, waiter>>

Init ==
  /\ added = {}
  /\ alive = {}
  /\ ready = 0
  /\ waiter = "out"

\* The owner hands a function over.
Add(s) ==
  /\ waiter # "waiting"
  /\ s \notin added
  /\ added' = added \cup {s}
  /\ alive' = alive \cup {s}
  /\ UNCHANGED <<ready, waiter>>

\* A function returns.
Fire(s) ==
  /\ s \in alive
  /\ alive' = alive \ {s}
  /\ ready' = ready + 1
  /\ UNCHANGED <<added, waiter>>

\* Wait has something to wait for exactly when a function is alive or an
\* unconsumed return is left; otherwise it returns at once.
Wait ==
  /\ waiter # "waiting"
  /\ waiter' = IF alive = {} /\ ready = 0 THEN "returned" ELSE "waiting"
  /\ UNCHANGED <<added, alive, ready>>

\* Wait returns by consuming one return.
Return ==
  /\ waiter = "waiting"
  /\ ready > 0
  /\ ready' = ready - 1
  /\ waiter' = "returned"
  /\ UNCHANGED <<added, alive>>

Next ==
  \/ \E s \in Signalers : Add(s) \/ Fire(s)
  \/ Wait
  \/ Return

Spec == Init /\ [][Next]_vars /\ WF_vars(Return)

=============================================================================
