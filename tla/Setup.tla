-------------------------------- MODULE Setup -------------------------------
(***************************************************************************)
(* From the configuration to connected clients: newBeater accepts the      *)
(* configuration, the crawler creates a runner for each enabled input, in  *)
(* order, and the inputs connect their clients.  (Crawler has what happens *)
(* to the runners, and the reloader.)                                      *)
(***************************************************************************)
EXTENDS Config, CommonSettings

setupVars == <<configVars, commonVars>>

SetupInit == ConfigInit /\ CommonInit

ToCreate == {r \in DOMAIN config.inputs : config.inputs[r].enabled /\ editor[r] = Unset}

CreateNext ==
  /\ phase = "accepted"
  /\ \E r \in ToCreate :
       /\ \A q \in ToCreate : r <= q
       /\ config.inputs[r].type # NoType
       /\ Create(r, config.inputs[r].type)
  /\ UNCHANGED configVars

\* The settings, the index or the processors are wrong, or no plugin has the
\* type: crawler.Start returns an error.
CreateFails ==
  /\ phase = "accepted" /\ ToCreate # {}
  /\ phase' = "failed"
  /\ UNCHANGED <<config, t, listed, next, wanted, commonVars>>

\* An input that was started connects while others are still to be created.
ConnectSome ==
  /\ phase \in {"accepted", "failed"}
  /\ \E r \in Runners, c \in Clients : Connect(r, c)
  /\ UNCHANGED configVars

SetupNext ==
  \/ ConfigNext /\ UNCHANGED commonVars
  \/ CreateNext \/ CreateFails \/ ConnectSome

SetupSpec == SetupInit /\ [][SetupNext]_setupVars
=============================================================================
