----------------------------- MODULE SubOutlet -----------------------------
(***************************************************************************)
(* channel/util.go, SubOutlet: an outlet that can be closed without the    *)
(* one it sends to.  OnEvent hands its event to a worker over an           *)
(* unbuffered channel, under a mutex, and takes the worker's answer from a *)
(* channel of one slot; when the outlet is closed meanwhile it returns     *)
(* without that answer.  Close signals done, then takes the mutex and      *)
(* closes the event channel, once.                                         *)
(***************************************************************************)
EXTENDS Naturals, Sequences

CONSTANTS
  Events,    \* each is passed to OnEvent once, by a goroutine of its own
  Closers    \* goroutines that call Close

VARIABLES
  done,       \* subOutlet.done is closed
  chClosed,   \* times subOutlet.ch was closed (a second time panics)
  call,       \* "none", "entered", "handed", "true", "false"
  closer,     \* "idle", "locking", "waiting", "returned"
  worker,     \* "receiving", "forwarding", "answering", "ended"
  held,       \* the events the worker received, in order
  answer,     \* what the underlying outlet said of it
  res,        \* subOutlet.res: at most one [event, ok]
  upstream    \* the underlying outlet is open

vars == <<done, chClosed, call, closer, worker, held, answer, res, upstream>>

Init ==
  /\ done = FALSE
  /\ chClosed = 0
  /\ call = [e \in Events |-> "none"]
  /\ closer = [c \in Closers |-> "idle"]
  /\ worker = "receiving"
  /\ held = << >>
  /\ answer = FALSE
  /\ res = << >>
  /\ upstream = TRUE

\* Who is inside OnEvent holds the mutex; CloseChannel takes it for one step.
MutexFree == \A e \in Events : call[e] \notin {"entered", "handed"}

Current == held[Len(held)]
Forwarded(e) ==
  \E i \in DOMAIN held :
    held[i] = e /\ (i = Len(held) => worker # "forwarding")

(***************************************************************************)
(* OnEvent.                                                                *)
(***************************************************************************)
\* Mutant of Enter: without the first select on done.
EnterUnchecked(e) ==
  /\ call[e] = "none" /\ MutexFree
  /\ call' = [call EXCEPT ![e] = "entered"]
  /\ UNCHANGED <<done, chClosed, closer, worker, held, answer, res, upstream>>

Enter(e) ==
  /\ call[e] = "none" /\ MutexFree
  /\ call' = [call EXCEPT ![e] = IF done THEN "false" ELSE "entered"]
  /\ UNCHANGED <<done, chClosed, closer, worker, held, answer, res, upstream>>

\* Mutant of Give: the caller does not wait for the answer.
GiveAtOnce(e) ==
  /\ call[e] = "entered" /\ worker = "receiving"
  /\ call' = [call EXCEPT ![e] = "true"]
  /\ worker' = "forwarding"
  /\ held' = Append(held, e)
  /\ UNCHANGED <<done, chClosed, closer, answer, res, upstream>>

Give(e) ==
  /\ call[e] = "entered" /\ worker = "receiving"
  /\ call' = [call EXCEPT ![e] = "handed"]
  /\ worker' = "forwarding"
  /\ held' = Append(held, e)
  /\ UNCHANGED <<done, chClosed, closer, answer, res, upstream>>

GiveUp(e) ==
  /\ call[e] = "entered" /\ done
  /\ call' = [call EXCEPT ![e] = "false"]
  /\ UNCHANGED <<done, chClosed, closer, worker, held, answer, res, upstream>>

\* The worker has the event: true without waiting for its answer.
LeaveEarly(e) ==
  /\ call[e] = "handed" /\ done
  /\ call' = [call EXCEPT ![e] = "true"]
  /\ UNCHANGED <<done, chClosed, closer, worker, held, answer, res, upstream>>

TakeAnswer(e) ==
  /\ call[e] = "handed" /\ res # << >>
  /\ call' = [call EXCEPT ![e] = IF Head(res).ok THEN "true" ELSE "false"]
  /\ res' = Tail(res)
  /\ UNCHANGED <<done, chClosed, closer, worker, held, answer, upstream>>

(***************************************************************************)
(* The worker.                                                             *)
(***************************************************************************)
Forward ==
  /\ worker = "forwarding"
  /\ worker' = "answering"
  /\ answer' = upstream
  /\ UNCHANGED <<done, chClosed, call, closer, held, res, upstream>>

\* Mutant of PutAnswer: res without its slot.
PutAnswerUnbuffered ==
  /\ worker = "answering" /\ call[Current] = "handed"
  /\ res' = <<[event |-> Current, ok |-> answer]>>
  /\ worker' = "receiving"
  /\ UNCHANGED <<done, chClosed, call, closer, held, answer, upstream>>

\* Mutant of PutAnswer: only a positive answer is sent.
PutAnswerIfTrue ==
  /\ worker = "answering" /\ res = << >>
  /\ res' = IF answer THEN <<[event |-> Current, ok |-> TRUE]>> ELSE res
  /\ worker' = "receiving"
  /\ UNCHANGED <<done, chClosed, call, closer, held, answer, upstream>>

PutAnswer ==
  /\ worker = "answering" /\ res = << >>
  /\ res' = <<[event |-> Current, ok |-> answer]>>
  /\ worker' = "receiving"
  /\ UNCHANGED <<done, chClosed, call, closer, held, answer, upstream>>

WorkerEnd ==
  /\ worker = "receiving" /\ chClosed > 0
  /\ worker' = "ended"
  /\ UNCHANGED <<done, chClosed, call, closer, held, answer, res, upstream>>

CloseUpstream ==
  /\ upstream
  /\ upstream' = FALSE
  /\ UNCHANGED <<done, chClosed, call, closer, worker, held, answer, res>>

(***************************************************************************)
(* Close, inside sync.Once: a second caller waits for the first.           *)
(***************************************************************************)
\* Mutant of CloseBegin: without sync.Once.
CloseBeginEach(c) ==
  /\ closer[c] = "idle"
  /\ done' = TRUE
  /\ closer' = [closer EXCEPT ![c] = "locking"]
  /\ UNCHANGED <<chClosed, call, worker, held, answer, res, upstream>>

CloseBegin(c) ==
  /\ closer[c] = "idle"
  /\ done' = TRUE
  /\ closer' = [closer EXCEPT ![c] = IF done THEN "waiting" ELSE "locking"]
  /\ UNCHANGED <<chClosed, call, worker, held, answer, res, upstream>>

\* Mutant of CloseChannel: the mutex is not taken.
CloseChannelUnlocked(c) ==
  /\ closer[c] = "locking"
  /\ chClosed' = chClosed + 1
  /\ closer' = [closer EXCEPT ![c] = "returned"]
  /\ UNCHANGED <<done, call, worker, held, answer, res, upstream>>

CloseChannel(c) ==
  /\ closer[c] = "locking" /\ MutexFree
  /\ chClosed' = chClosed + 1
  /\ closer' = [closer EXCEPT ![c] = "returned"]
  /\ UNCHANGED <<done, call, worker, held, answer, res, upstream>>

CloseWaits(c) ==
  /\ closer[c] = "waiting" /\ chClosed > 0
  /\ closer' = [closer EXCEPT ![c] = "returned"]
  /\ UNCHANGED <<done, chClosed, call, worker, held, answer, res, upstream>>

InCall(e) == Give(e) \/ GiveUp(e) \/ LeaveEarly(e) \/ TakeAnswer(e)
Worker == Forward \/ PutAnswer \/ WorkerEnd

Next ==
  \/ \E e \in Events : Enter(e) \/ InCall(e)
  \/ Worker
  \/ CloseUpstream
  \/ \E c \in Closers : CloseBegin(c) \/ CloseChannel(c) \/ CloseWaits(c)

\* Statements are executed and the underlying OnEvent returns; nobody has to
\* call OnEvent or Close.  Weak fairness is enough for the mutex: after done
\* only the call that holds it then can keep it for more than a step.
Fairness ==
  /\ \A e \in Events : WF_vars(InCall(e))
  /\ WF_vars(Worker)
  /\ \A c \in Closers : WF_vars(CloseChannel(c) \/ CloseWaits(c))

Spec == Init /\ [][Next]_vars /\ Fairness

-----------------------------------------------------------------------------

\* The answer in the slot belongs to the call that will take it: the one of
\* a call that left early is never mistaken for the next one's.
AnswerIsOwn ==
  \A e \in Events :
    call[e] = "handed" /\ res # << >> => Head(res).event = e

\* The channel is closed once, however many close the sub-outlet.
ClosedOnce == chClosed <= 1

\* Nobody can send on the closed channel, which would panic.
NothingSentOnClosed == chClosed > 0 => MutexFree

\* A closed outlet leaves no worker behind, whatever calls were under way.
WorkerEnds == done ~> worker = "ended"

Promise == INSTANCE Outleter WITH
  closed <- done,
  call <- [e \in Events |-> IF call[e] = "handed" THEN "entered" ELSE call[e]]

\* Two channels, a mutex and a worker keep the promise of an Outleter: no
\* call enters a closed outlet, none is refused by an open one, all return.
ImplementsOutleter == Promise!Spec

=============================================================================
