------------------------------- MODULE Outlet -------------------------------
(***************************************************************************)
(* channel/outlet.go, with the goroutine CloseOnSignal (channel/util.go)   *)
(* puts beside it when the factory has a done channel.  An outlet is a     *)
(* pipeline client and an atomic flag: OnEvent reads the flag, publishes,  *)
(* and answers what the flag is then; Close swaps the flag, closes the     *)
(* done channel and closes the client, in this order.                      *)
(***************************************************************************)
EXTENDS Naturals

CONSTANT Events   \* each is passed to OnEvent once, by a goroutine of its own

VARIABLES
  isOpen,    \* outlet.isOpen
  done,      \* times outlet.done was closed (a second time panics)
  client,    \* the pipeline client: "open", "closed"
  call,      \* "none", "entered", "publishing", "published", "true", "false"
  fate,      \* what the pipeline did with the event: "none", "taken", "dropped"
  closer,    \* "idle", "swapped", "signalled", "returned"
  signal     \* the factory's done channel is closed

vars == <<isOpen, done, client, call, fate, closer, signal>>

\* The goroutines that call Close: the owner and the one of CloseOnSignal.
ClosingParties == {"owner", "onSignal"}

Init ==
  /\ isOpen = TRUE
  /\ done = 0
  /\ client = "open"
  /\ call = [e \in Events |-> "none"]
  /\ fate = [e \in Events |-> "none"]
  /\ closer = [c \in ClosingParties |-> "idle"]
  /\ signal = FALSE

(***************************************************************************)
(* OnEvent.                                                                *)
(***************************************************************************)
\* Mutant of Load: the flag is read only after Publish.
LoadLate(e) ==
  /\ call[e] = "none"
  /\ call' = [call EXCEPT ![e] = "entered"]
  /\ UNCHANGED <<isOpen, done, client, fate, closer, signal>>

Load(e) ==
  /\ call[e] = "none"
  /\ call' = [call EXCEPT ![e] = IF isOpen THEN "entered" ELSE "false"]
  /\ UNCHANGED <<isOpen, done, client, fate, closer, signal>>

\* client.Publish drops the event when the client is closed; one that found
\* it open may still be dropped when it is closed meanwhile.
PublishBegin(e) ==
  /\ call[e] = "entered"
  /\ IF client = "open"
       THEN call' = [call EXCEPT ![e] = "publishing"] /\ UNCHANGED fate
       ELSE /\ call' = [call EXCEPT ![e] = "published"]
            /\ fate' = [fate EXCEPT ![e] = "dropped"]
  /\ UNCHANGED <<isOpen, done, client, closer, signal>>

PublishEnd(e) ==
  /\ call[e] = "publishing"
  /\ call' = [call EXCEPT ![e] = "published"]
  /\ \/ fate' = [fate EXCEPT ![e] = "taken"]
     \/ client = "closed" /\ fate' = [fate EXCEPT ![e] = "dropped"]
  /\ UNCHANGED <<isOpen, done, client, closer, signal>>

Answer(e) ==
  /\ call[e] = "published"
  /\ call' = [call EXCEPT ![e] = IF isOpen THEN "true" ELSE "false"]
  /\ UNCHANGED <<isOpen, done, client, fate, closer, signal>>

(***************************************************************************)
(* Close, and CloseOnSignal.                                               *)
(***************************************************************************)
Signal ==
  /\ ~signal
  /\ signal' = TRUE
  /\ UNCHANGED <<isOpen, done, client, call, fate, closer>>

Swap(c) ==
  /\ closer[c] = "idle"
  /\ c = "onSignal" => signal
  /\ isOpen' = FALSE
  /\ closer' = [closer EXCEPT ![c] = IF isOpen THEN "swapped" ELSE "returned"]
  /\ UNCHANGED <<done, client, call, fate, signal>>

CloseDone(c) ==
  /\ closer[c] = "swapped"
  /\ done' = done + 1
  /\ closer' = [closer EXCEPT ![c] = "signalled"]
  /\ UNCHANGED <<isOpen, client, call, fate, signal>>

\* Mutant of CloseClient: Close returns without closing the client.
ForgetClient(c) ==
  /\ closer[c] = "signalled"
  /\ closer' = [closer EXCEPT ![c] = "returned"]
  /\ UNCHANGED <<isOpen, done, client, call, fate, signal>>

CloseClient(c) ==
  /\ closer[c] = "signalled"
  /\ client' = "closed"
  /\ closer' = [closer EXCEPT ![c] = "returned"]
  /\ UNCHANGED <<isOpen, done, call, fate, signal>>

\* The goroutine of CloseOnSignal ends when the outlet is closed by others.
SignalNotNeeded ==
  /\ closer["onSignal"] = "idle"
  /\ done > 0
  /\ closer' = [closer EXCEPT !["onSignal"] = "returned"]
  /\ UNCHANGED <<isOpen, done, client, call, fate, signal>>

Next ==
  \/ \E e \in Events : Load(e) \/ PublishBegin(e) \/ PublishEnd(e) \/ Answer(e)
  \/ Signal
  \/ \E c \in ClosingParties : Swap(c) \/ CloseDone(c) \/ CloseClient(c)
  \/ SignalNotNeeded

\* Statements are executed, and Publish returns.  Nobody has to call OnEvent
\* or Close, or to close the factory's channel.
Fairness ==
  /\ \A e \in Events : WF_vars(PublishBegin(e) \/ PublishEnd(e) \/ Answer(e))
  /\ \A c \in ClosingParties : WF_vars(CloseDone(c) \/ CloseClient(c))
  /\ WF_vars(Swap("onSignal") \/ SignalNotNeeded)

Spec == Init /\ [][Next]_vars /\ Fairness

-----------------------------------------------------------------------------

\* The swap lets one party through: done is closed once.
ClosedOnce == done <= 1

\* A signal closes the client, whoever wins the race for the flag: the one that
\* loses returns at once and relies on the other.
SignalClosesClient == signal ~> client = "closed"

Promise == INSTANCE Outleter WITH
  closed <- ~isOpen,
  upstream <- TRUE,
  call <- [e \in Events |->
             IF call[e] \in {"publishing", "published"} THEN "entered" ELSE call[e]]

\* The flag alone keeps the promise of an Outleter: no call enters a closed
\* outlet, none is refused by an open one, all return.
ImplementsOutleter == Promise!Spec

=============================================================================
