---------------------------- MODULE MCAssetbeat ----------------------------
(***************************************************************************)
(* Small instances of the composed beater.  The configured inputs have     *)
(* hashes of their own, and at most the second one is broken.  An instance *)
(* is a choice of cases, each with the options that matter to it.          *)
(***************************************************************************)
EXTENDS Assetbeat, TLC

CONSTANTS e1, e2, e3, h1, h2

Inputs(enabled, brokens, reloads, onces) ==
  {[enabled |-> enabled, broken |-> b, id |-> [i \in Index |-> IF i = 1 THEN h1 ELSE h2],
    reload |-> r, once |-> o] : b \in brokens, r \in reloads, o \in onces}

MCIds == {h1, h2}

\* Two configured inputs, of which the second may be broken, so that Start
\* fails with the first one running.
BothRun == Inputs(1..2, {{}}, {FALSE}, {FALSE})
SecondBroken == Inputs(1..2, {{2}}, {FALSE}, BOOLEAN)

\* The first input alone, which has two events; the second one alone, with
\* and without the crawler's reloader.
FirstAlone == Inputs({1}, {{}}, {FALSE}, BOOLEAN)
SecondAlone == Inputs({2}, {{}}, {FALSE}, BOOLEAN) \cup Inputs({2}, {{}}, {TRUE}, {FALSE})

AllInputs == BothRun \cup SecondBroken \cup FirstAlone \cup SecondAlone
AllOptions == {o \in OptionType : o.detached \in {{}, {1}}}
EventsOfAll == (e1 :> 1) @@ (e2 :> 1) @@ (e3 :> Discovered)

\* The lists of the agent and of autodiscover go with the second input; the
\* events of a collection that may outlive its input are the first one's.
NoLists == ~options.discover /\ ~options.agent
MCInit ==
  /\ Init
  /\ \/ config \in SecondBroken \cup FirstAlone /\ NoLists
     \/ config \in BothRun /\ NoLists /\ options.detached = {}
     \/ config \in SecondAlone /\ options.detached = {}
MCSpec == MCInit /\ [][Next]_vars /\ Fairness

\* One configured input with two events, whose collection may outlive it; and
\* one that waits for its collection, without a timeout.
EventsOfOne == (e1 :> 1) @@ (e2 :> 1)
OneInput == Inputs({1}, {{}}, {FALSE}, BOOLEAN)
NoListsOne == {o \in OptionType : ~o.discover /\ ~o.agent /\ o.detached \in {{}, {1}}}
AttachedOnce == {o \in NoListsOne : o.detached = {} /\ ~o.timeout}
=============================================================================
