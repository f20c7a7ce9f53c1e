---------------------------- MODULE EventCounter ----------------------------
(***************************************************************************)
(* beater/channels.go: the counter of pipeline events the shutdown waits   *)
(* for, and the two wrappers that keep it.  Every client connected through *)
(* withPipelineEventCounter is a countingClient, which adds to the counter *)
(* before it hands events on, and every client's listener is a             *)
(* countingEventer, which subtracts.                                       *)
(*                                                                         *)
(* The pipeline behind the client (libbeat) is external.  With the default *)
(* guarantee of Run (GuaranteedSend) it drops an event only when the       *)
(* client is closed; otherwise its processors remove the event or its      *)
(* queue takes it, and an output acknowledges it later.                    *)
(***************************************************************************)
EXTENDS Integers, FiniteSets

CONSTANTS
  Clients,    \* the connections to the pipeline
  Events,     \* the events that are ever published
  ClientOf,   \* the client each event is published on
  Waiters     \* the goroutines that call eventCounter.Wait

ASSUME EventsFinite == IsFiniteSet(Events)
ASSUME ClientOfType == ClientOf \in [Events -> Clients]

VARIABLES
  client,    \* "none", "open", "closed"
  event,     \* "new", "counted", "accepted", "queued", "acked", "filtered", "dropped"
  counter,   \* eventCounter.wg
  waiter,
  panic

WG == INSTANCE WaitGroup

wgVars == <<counter, waiter, panic>>
vars == <<client, event, counter, waiter, panic>>

Init ==
  /\ client = [c \in Clients |-> "none"]
  /\ event = [e \in Events |-> "new"]
  /\ WG!Init

(***************************************************************************)
(* The client.                                                             *)
(***************************************************************************)
Connect(c) ==
  /\ panic = "none"
  /\ client[c] = "none"
  /\ client' = [client EXCEPT ![c] = "open"]
  /\ UNCHANGED <<event, wgVars>>

Close(c) ==
  /\ panic = "none"
  /\ client[c] = "open"
  /\ client' = [client EXCEPT ![c] = "closed"]
  /\ UNCHANGED <<event, wgVars>>

\* Mutant of PublishAll: a batch is counted like a single event.
PublishAllOnce(c, es) ==
  /\ client[c] # "none"
  /\ \A e \in es : event[e] = "new" /\ ClientOf[e] = c
  /\ WG!Add(1)
  /\ event' = [e \in Events |-> IF e \in es THEN "counted" ELSE event[e]]
  /\ UNCHANGED client

\* The first half of PublishAll (and of Publish, for one event): the counter
\* goes up before the pipeline has seen anything.  A goroutine that outlived
\* the client may still publish on it.
PublishAll(c, es) ==
  /\ client[c] # "none"
  /\ \A e \in es : event[e] = "new" /\ ClientOf[e] = c
  /\ WG!Add(Cardinality(es))
  /\ event' = [e \in Events |-> IF e \in es THEN "counted" ELSE event[e]]
  /\ UNCHANGED client

Publish(e) == PublishAll(ClientOf[e], {e})

(***************************************************************************)
(* The pipeline looks whether the client is open, lets the processors see  *)
(* the event, and queues it; the client may be closed in between.  Of its  *)
(* answers to the listener only a drop is subtracted: Published and        *)
(* FilteredOut of countingEventer have empty bodies, and no                *)
(* acknowledgement reaches the counter.                                    *)
(***************************************************************************)
Accept(e) ==
  /\ panic = "none"
  /\ event[e] = "counted"
  /\ client[ClientOf[e]] = "open"
  /\ event' = [event EXCEPT ![e] = "accepted"]
  /\ UNCHANGED <<client, wgVars>>

\* Mutants of DroppedOnPublish: an empty body like the other callbacks'; a
\* combinedEventer that calls the listener twice.
DroppedIgnored(e) ==
  /\ panic = "none"
  /\ event[e] \in {"counted", "accepted"}
  /\ client[ClientOf[e]] = "closed"
  /\ event' = [event EXCEPT ![e] = "dropped"]
  /\ UNCHANGED <<client, wgVars>>

DroppedOnPublish(e) ==
  /\ event[e] \in {"counted", "accepted"}
  /\ client[ClientOf[e]] = "closed"
  /\ event' = [event EXCEPT ![e] = "dropped"]
  /\ WG!Done
  /\ UNCHANGED client

FilteredOut(e) ==
  /\ panic = "none"
  /\ event[e] = "accepted"
  /\ event' = [event EXCEPT ![e] = "filtered"]
  /\ UNCHANGED <<client, wgVars>>

\* Mutant of Published: an event is given back as soon as it is queued.
PublishedDone(e) ==
  /\ event[e] = "accepted"
  /\ event' = [event EXCEPT ![e] = "queued"]
  /\ WG!Done
  /\ UNCHANGED client

Published(e) ==
  /\ panic = "none"
  /\ event[e] = "accepted"
  /\ event' = [event EXCEPT ![e] = "queued"]
  /\ UNCHANGED <<client, wgVars>>

Acked(e) ==
  /\ panic = "none"
  /\ event[e] = "queued"
  /\ event' = [event EXCEPT ![e] = "acked"]
  /\ UNCHANGED <<client, wgVars>>

(***************************************************************************)
(* eventCounter.Wait, in two steps.                                        *)
(***************************************************************************)
Wait(w) ==
  /\ WG!Wait(w)
  /\ UNCHANGED <<client, event>>

Resume(w) ==
  /\ WG!Resume(w)
  /\ UNCHANGED <<client, event>>

Answer(e) == Accept(e) \/ DroppedOnPublish(e) \/ FilteredOut(e) \/ Published(e)

Next ==
  \/ \E c \in Clients : Connect(c) \/ Close(c)
  \/ \E c \in Clients, es \in SUBSET Events : PublishAll(c, es)
  \/ \E e \in Events : Publish(e) \/ Answer(e) \/ Acked(e)
  \/ \E w \in Waiters : Wait(w) \/ Resume(w)

\* The pipeline deals with every event it is handed, and the Go scheduler
\* runs a released goroutine.  Nobody is obliged to publish, to close a
\* client or to call Wait, and no output is obliged to acknowledge.
Fairness ==
  /\ \A e \in Events : WF_vars(Answer(e))
  /\ \A w \in Waiters : WF_vars(Resume(w))

Spec == Init /\ [][Next]_vars /\ Fairness

-----------------------------------------------------------------------------

TypeOK ==
  /\ client \in [Clients -> {"none", "open", "closed"}]
  /\ event \in [Events -> {"new", "counted", "accepted", "queued", "acked", "filtered", "dropped"}]
  /\ counter \in Nat
  /\ waiter \in [Waiters -> {"out", "blocked", "released", "returned"}]
  /\ panic \in {"none", "negative", "reused"}

InState(S) == {e \in Events : event[e] \in S}
InFlight == InState({"counted", "accepted", "queued"})
Outstanding == InState({"counted", "accepted", "queued", "acked", "filtered"})
Pinned == InState({"queued", "acked", "filtered"})

\* The listener never takes back what no client added: whatever the order of
\* PublishAll's bulk addition and the per-event drops, the WaitGroup does not
\* go negative (which would panic).
NeverNegative == panic # "negative"

\* And it never takes back too much: every event that was handed to the
\* pipeline and is neither dropped, filtered nor acknowledged is covered by
\* the counter, also in the middle of a batch.
CoversInFlight == NeverNegative /\ counter >= Cardinality(InFlight)

\* Wait returns only at a moment when every event counted so far was
\* dropped, even when clients publish during the Wait.
WaitReturns(w) == waiter[w] # "returned" /\ waiter'[w] = "returned"
WaitSound == [][\A w \in Waiters : WaitReturns(w) => Outstanding' = {}]_vars

\* No lost wake-up: a goroutine blocked in Wait leaves it, unless an event
\* got past the client (queued, acknowledged or filtered), which pins the
\* counter for good, or the process panics.
WaitEndsOrPinned ==
  \A w \in Waiters :
    waiter[w] = "blocked" ~> waiter[w] = "returned" \/ Pinned # {} \/ panic # "none"

=============================================================================
