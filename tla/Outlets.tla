------------------------------ MODULE Outlets ------------------------------
(***************************************************************************)
(* A sub-outlet over an outlet, as SubOutlet(connector.ConnectWith(...))   *)
(* builds it: the sub-outlet's worker calls OnEvent of the outlet, and both *)
(* can be closed at any time.                                              *)
(***************************************************************************)
EXTENDS Naturals, Sequences

CONSTANTS
  Events,    \* each is passed to OnEvent of the sub-outlet once
  Closers    \* goroutines that close the sub-outlet

VARIABLES
  isOpen, outDone, outClient, outCall, fate, outCloser, signal,        \* Outlet
  done, chClosed, call, closer, worker, held, answer, res           \* SubOutlet

outVars == <<isOpen, outDone, outClient, outCall, fate, outCloser, signal>>
subVars == <<done, chClosed, call, closer, worker, held, answer, res>>
vars == <<outVars, subVars>>

Out == INSTANCE Outlet WITH
  done <- outDone, client <- outClient, call <- outCall, closer <- outCloser

\* What the sub-outlet sees of the outlet is whether it is open.
Sub == INSTANCE SubOutlet WITH upstream <- isOpen

Init == Out!Init /\ Sub!Init

\* The worker's call of out.OnEvent: its answer is the last step of the call.
WorkerCall ==
  /\ worker = "forwarding"
  /\ \/ Out!Load(Sub!Current) /\ isOpen /\ UNCHANGED subVars
     \/ Out!Load(Sub!Current) /\ ~isOpen /\ Sub!Forward
     \/ Out!PublishBegin(Sub!Current) /\ UNCHANGED subVars
     \/ Out!PublishEnd(Sub!Current) /\ UNCHANGED subVars
     \/ Out!Answer(Sub!Current) /\ Sub!Forward

CloseOutlet(c) ==
  /\ Out!Swap(c) \/ Out!CloseDone(c) \/ Out!CloseClient(c)
  /\ UNCHANGED subVars

Signal == (Out!Signal \/ Out!SignalNotNeeded) /\ UNCHANGED subVars

SubCall(e) == Sub!InCall(e) /\ UNCHANGED outVars
SubEnter(e) == Sub!Enter(e) /\ UNCHANGED outVars
SubWorker == (Sub!PutAnswer \/ Sub!WorkerEnd) /\ UNCHANGED outVars
CloseSub(c) == Sub!CloseBegin(c) /\ UNCHANGED outVars
EndCloseSub(c) == (Sub!CloseChannel(c) \/ Sub!CloseWaits(c)) /\ UNCHANGED outVars

Next ==
  \/ WorkerCall \/ SubWorker
  \/ \E e \in Events : SubEnter(e) \/ SubCall(e)
  \/ \E c \in Out!ClosingParties : CloseOutlet(c)
  \/ Signal
  \/ \E c \in Closers : CloseSub(c) \/ EndCloseSub(c)

\* That of the two parts: statements are executed and Publish returns.
Fairness ==
  /\ WF_vars(WorkerCall \/ SubWorker)
  /\ \A e \in Events : WF_vars(SubCall(e))
  /\ \A c \in Out!ClosingParties : WF_vars(outCloser[c] # "idle" /\ CloseOutlet(c))
  /\ WF_vars(CloseOutlet("onSignal") \/ (signal /\ Signal))
  /\ \A c \in Closers : WF_vars(EndCloseSub(c))

Spec == Init /\ [][Next]_vars /\ Fairness

-----------------------------------------------------------------------------

\* The factory's signal always ends with the client closed.
SignalClosesClient == Out!SignalClosesClient

\* The flag alone makes the outlet an Outleter.
OutletImplements == Out!ImplementsOutleter

\* The answer in the sub-outlet's slot belongs to the call that takes it.
AnswerIsOwn == Sub!AnswerIsOwn

\* No party closes a channel that is closed, or sends on one: whichever of the
\* owner, the signal and the callers of OnEvent come first, none panics.
ChannelsNeverPanic == Out!ClosedOnce /\ Sub!ClosedOnce /\ Sub!NothingSentOnClosed

\* Closing the sub-outlet ends its worker, whatever the outlet does.
WorkerEnds == Sub!WorkerEnds

\* Two channels, a mutex and a worker make the sub-outlet an Outleter.
SubOutletImplements == Sub!ImplementsOutleter

\* A true answer of an open sub-outlet has come all the way from the pipeline:
\* only the early return of a closed one can be true for a dropped event.
TrueThroughBoth ==
  \A e \in Events : call[e] = "true" /\ ~done => fate[e] = "taken"

=============================================================================
