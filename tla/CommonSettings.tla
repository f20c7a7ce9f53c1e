--------------------------- MODULE CommonSettings ---------------------------
(***************************************************************************)
(* channel/runner.go: the factory that gives the runner of each input an   *)
(* editor made of the input's common settings, and what the editor makes   *)
(* of the ClientConfig of each client the runner connects.                 *)
(***************************************************************************)
EXTENDS TLC, Sequences

CONSTANTS
  Runners,    \* positions of inputs
  Clients,
  Settings,   \* common settings: [service, module, fileset, pipeline, index, processors]
  Given,      \* what inputs pass with a client: [fields, meta, procs]
  Unset       \* a setting that is not set, and what does not exist yet

ASSUME GivenIsNoClient == "given" \notin Clients

VARIABLES
  editor,    \* per runner, the type and the settings in its editor, or Unset
  memory,    \* the fields, meta and processors of the clients, and the given ones
  client     \* per client [runner, at], its runner and where its fields are, or Unset

commonVars == <<editor, memory, client>>

CommonInit ==
  /\ editor = [r \in Runners |-> Unset]
  /\ memory = [x \in Clients \cup {"given"} |-> IF x = "given" THEN Given ELSE Unset]
  /\ client = [c \in Clients |-> Unset]

\* newCommonConfigEditor.
Create(r, type) ==
  /\ editor[r] = Unset
  /\ \E s \in Settings : editor' = [editor EXCEPT ![r] = [type |-> type, settings |-> s]]
  /\ UNCHANGED <<memory, client>>

Put(m, key, value) == (key :> value) @@ m

setOptional(m, key, value) == IF value = Unset THEN m ELSE Put(m, key, value)

ServiceType(s) == IF s.service # Unset THEN s.service ELSE s.module

EventFields(m, s) ==
  IF s.module = Unset THEN m ELSE Put(m, "event", <<s.module, s.fileset>>)

\* The index first, then what the input brings, then the local processors.
Processors(s, procs) ==
  (IF s.index = Unset THEN << >> ELSE <<s.index>>) \o procs \o s.processors

\* The function that newCommonConfigEditor returns.
Edit(e, p) ==
  LET s       == e.settings
      named   == setOptional(p.fields, "fileset.name", s.fileset)
      serving == setOptional(named, "service.type", ServiceType(s))
      typed   == setOptional(serving, "input.type", e.type)
  IN  [fields |-> EventFields(typed, s),
       meta |-> setOptional(p.meta, "pipeline", s.pipeline),
       procs |-> Processors(s, p.procs)]

\* Where the editor writes.
\* Mutant of Clone: into the maps the input passed.
NoClone(c) == "given"
Clone(c) == c

\* ConnectWith, through the editor of the runner.
Connect(r, c) ==
  /\ editor[r] # Unset
  /\ client[c] = Unset
  /\ memory' = [memory EXCEPT ![Clone(c)] = Edit(editor[r], memory["given"])]
  /\ client' = [client EXCEPT ![c] = [runner |-> r, at |-> Clone(c)]]
  /\ UNCHANGED editor

-----------------------------------------------------------------------------

\* A client keeps what its own input's settings made of the given fields and
\* processors, whichever inputs connect after it; and each starts from the
\* given ones, though all inputs may have passed the same maps.
ClientIsolated ==
  \A c \in Clients :
    client[c] # Unset =>
      memory[client[c].at] = Edit(editor[client[c].runner], Given)
=============================================================================
