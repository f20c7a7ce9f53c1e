----------------------------- MODULE HostInput ------------------------------
(***************************************************************************)
(* input/hostdata: a report about the host at each tick, put together in   *)
(* Run's goroutine from what was read once at the start, the network       *)
(* addresses of the moment and the metadata of the cloud provider.         *)
(***************************************************************************)
EXTENDS Pager

CONSTANTS
  Addresses    \* the addresses the host may have

ASSUME HostAssumption == "hostdata" \in Inputs

VARIABLES
  hostInfo,    \* the hostInfo of the input, its host.id and host.ip
  cloudId,     \* the cloud.instance.id the processor adds, or None
  addresses,   \* those the host has now
  hostReport   \* the last report, or None

hostVars == <<hostInfo, cloudId, addresses, hostReport>>

HostInit ==
  /\ addresses = Addresses
  /\ hostReport = None

\* Mutant of SameInfo: the report is written into hostInfo itself.
SharedInfo(data) == hostInfo' = data
\* What is put into a clone is gone with the report.
SameInfo(data) == UNCHANGED hostInfo

\* reportHostDataAssets.  GetNetInfo may fail half-way, which is only logged;
\* the cloud processor may fail, which ends it.
Report ==
  /\ AtSelect("hostdata")
  /\ pc' = [pc EXCEPT !["hostdata"] = "loop"]
  /\ \E ipList \in SUBSET addresses :
       LET data == [id |-> IF cloudId # None THEN cloudId ELSE hostInfo.id,
                    ip |-> IF ipList # {} THEN ipList ELSE hostInfo.ip]
       IN  \/ hostReport' = (IF data.id # None THEN data ELSE hostReport) /\ SameInfo(data)
           \/ UNCHANGED hostReport /\ SameInfo([data EXCEPT !.id = hostInfo.id])
  /\ UNCHANGED <<cloudId, addresses, up, lists>>

ChangeAddress(a) ==
  /\ Alive /\ pc["hostdata"] # "off"
  /\ addresses' = IF a \in addresses THEN addresses \ {a} ELSE addresses \cup {a}
  /\ UNCHANGED <<hostInfo, cloudId, hostReport, pc, up, lists>>

HostNext == Report \/ \E a \in Addresses : ChangeAddress(a)

-----------------------------------------------------------------------------

\* A report carries no address of an earlier one: they are the host's when
\* the report is made, some or all missing if they could not be read.
AddressesCurrent ==
  [][hostReport' \notin {hostReport, None} => hostReport'.ip \subseteq addresses]_hostVars
=============================================================================
