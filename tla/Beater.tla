------------------------------- MODULE Beater -------------------------------
(***************************************************************************)
(* What libbeat may expect of the beater (beat.Beater: Run and Stop).      *)
(* Run comes to service or returns an error; once in service it returns    *)
(* without error, and only after Stop was called or because it was asked   *)
(* to run once.  A call of Stop is answered: Run returns, unless the       *)
(* process has panicked.  beater/assetbeat.go implements this with the     *)
(* parts that Assetbeat composes.                                          *)
(***************************************************************************)
VARIABLES
  once,      \* the -once flag
  stopped,   \* Stop was called
  phase      \* "starting", "serving", "ok", "error", "panicked"

vars == <<once, stopped, phase>>

Init ==
  /\ once \in BOOLEAN
  /\ stopped = FALSE
  /\ phase = "starting"

Stop ==
  /\ phase \in {"starting", "serving"}
  /\ stopped' = TRUE
  /\ UNCHANGED <<once, phase>>

Serve ==
  /\ phase = "starting"
  /\ phase' = "serving"
  /\ UNCHANGED <<once, stopped>>

ReturnError ==
  /\ phase = "starting"
  /\ phase' = "error"
  /\ UNCHANGED <<once, stopped>>

Return ==
  /\ phase = "serving"
  /\ stopped \/ once
  /\ phase' = "ok"
  /\ UNCHANGED <<once, stopped>>

Panic ==
  /\ phase \in {"starting", "serving"}
  /\ phase' = "panicked"
  /\ UNCHANGED <<once, stopped>>

Run == Serve \/ ReturnError \/ Return \/ Panic

Next == Stop \/ Run

Spec == Init /\ [][Next]_vars /\ WF_vars(stopped /\ Run)

=============================================================================
