---------------------------- MODULE MCSignalWait ----------------------------
(***************************************************************************)
(* Three functions on one signalWait: one more than the channel and the    *)
(* waiter can take together, so that a send blocks.                        *)
(***************************************************************************)
EXTENDS SignalWait

CONSTANTS f1, f2, f3

MCSignalers == {f1, f2, f3}

=============================================================================
