------------------------------- MODULE Config -------------------------------
(***************************************************************************)
(* newBeater: unpack the configuration, append the inputs of the files in  *)
(* config_dir, list the enabled inputs, and refuse what cannot be run.     *)
(***************************************************************************)
EXTENDS Integers, Sequences, FiniteSets, SequencesExt

CONSTANTS
  Configs,     \* configurations
  InputTypes,  \* what an input may give as its type
  NoType       \* of an input whose type is absent or no string

Input == [enabled : BOOLEAN, type : InputTypes \cup {NoType}]
ConfigType ==
  [inputs : Seq(Input), files : Seq(Seq(Input)), dir : {"unset", "ok", "broken"},
   other : BOOLEAN, setup : BOOLEAN]

ASSUME ConfigsType == Configs \subseteq ConfigType

VARIABLES
  config,    \* the configuration, files still to be merged in it
  phase,     \* "unpack", "fetch", "list", "check", then "accepted", "refused",
             \* "exited" or, for an input that cannot be created, "failed"
  t,         \* the variable of ListEnabledInputs that every input is unpacked to
  listed,    \* enabledInputs; its order, sorted or not, is only seen in a message
  next,      \* the input the loop of ListEnabledInputs is at
  wanted     \* for the properties, all inputs that are configured, by place

configVars == <<config, phase, t, listed, next, wanted>>

\* What Unpack leaves in t before it was ever given a type.
Empty == ""

\* A place is a file, 0 for the main one, and a position in it.
Places(c) ==
  ({0} \X DOMAIN c.inputs) \cup
    IF c.dir = "ok" THEN UNION {{f} \X DOMAIN c.files[f] : f \in DOMAIN c.files} ELSE {}
Configured(c) ==
  [p \in Places(c) |-> IF p[1] = 0 THEN c.inputs[p[2]] ELSE c.files[p[1]][p[2]]]

ConfigInit ==
  /\ config \in Configs
  /\ phase = "unpack"
  /\ t = Empty /\ listed = << >> /\ next = 1
  /\ wanted = Configured(config)

Unpack ==
  /\ phase = "unpack"
  /\ phase' \in {"fetch", "refused"}
  /\ UNCHANGED <<config, t, listed, next, wanted>>

\* FetchConfigs and getConfigFiles.  A path that is neither file nor directory
\* ends the process: the error is never returned.
FetchConfigs ==
  /\ phase = "fetch"
  /\ \/ config.dir = "unset" /\ phase' = "list"
     \/ config.dir = "broken" /\ phase' = "exited"
     \/ config.dir = "ok" /\ config.files = << >> /\ phase' = "list"
  /\ UNCHANGED <<config, t, listed, next, wanted>>

\* Mutant of Merge: the inputs of a file replace those there were.
MergeOver(inputs, more) == more
Merge(inputs, more) == inputs \o more

\* mergeConfigFiles; a file that cannot be read ends the process.
MergeFile ==
  /\ phase = "fetch" /\ config.dir = "ok" /\ config.files # << >>
  /\ \/ phase' = "exited" /\ UNCHANGED config
     \/ /\ config' = [config EXCEPT !.inputs = Merge(@, Head(config.files)), !.files = Tail(@)]
        /\ UNCHANGED phase
  /\ UNCHANGED <<t, listed, next, wanted>>

\* Mutant of ListInput: a disabled input is unpacked before it is skipped.
UnpackFirst(input) ==
  /\ t' = IF input.type = NoType THEN t ELSE input.type
  /\ listed' = IF input.enabled THEN Append(listed, t') ELSE listed

\* An input without a type leaves t as the one before has set it.
ListInput(input) ==
  IF input.enabled
    THEN /\ t' = IF input.type = NoType THEN t ELSE input.type
         /\ listed' = Append(listed, t')
    ELSE UNCHANGED <<t, listed>>

ListEnabledInputs ==
  /\ phase = "list"
  /\ IF next > Len(config.inputs)
       THEN phase' = "check" /\ UNCHANGED <<t, listed, next>>
       ELSE ListInput(config.inputs[next]) /\ next' = next + 1 /\ UNCHANGED phase
  /\ UNCHANGED <<config, wanted>>

IsInputEnabled(name) == name \in Range(listed)

\* other: the reloader, autodiscover or the manager may start inputs later.
Refused ==
  \/ listed = << >> /\ ~config.other /\ ~config.setup
  \/ IsInputEnabled("stdin") /\ Len(listed) > 1

Check ==
  /\ phase = "check"
  /\ phase' = IF Refused THEN "refused" ELSE "accepted"
  /\ UNCHANGED <<config, t, listed, next, wanted>>

ConfigNext == Unpack \/ FetchConfigs \/ MergeFile \/ ListEnabledInputs \/ Check

-----------------------------------------------------------------------------

EnabledAt == {p \in DOMAIN wanted : wanted[p].enabled}
TypesWanted == {wanted[p].type : p \in EnabledAt} \ {NoType}

\* What is accepted, whichever file it comes from, has something to run or may
\* get it later, and an enabled stdin input is the only enabled one.
AcceptedConfig ==
  phase = "accepted" =>
    /\ EnabledAt # {} \/ config.other \/ config.setup
    /\ "stdin" \in TypesWanted => Cardinality(EnabledAt) = 1

EnabledUpTo(n) == {m \in 1..n : config.inputs[m].enabled}

\* Before it is sorted, the list has the n-th input at this place.
ListPlace(n) == Cardinality(EnabledUpTo(n))

\* What the n-th input may be listed as: the type of the last enabled one up to
\* there that has a type, or the empty one.
ListedAs(n, x) ==
  LET typed == {m \in EnabledUpTo(n) : config.inputs[m].type # NoType}
  IN  \/ typed = {} /\ x = Empty
      \/ \E m \in typed : (\A l \in typed : l <= m) /\ x = config.inputs[m].type

\* The variable that is shared by all inputs makes up no type and mixes none up:
\* the enabled inputs, and only they, are listed, each in its place under its own
\* type, and one without a type under that of the last one before it.
NoInventedType ==
  phase \in {"check", "accepted", "failed"} =>
    /\ Range(listed) \ {Empty} = TypesWanted \ {Empty}
    /\ Len(listed) = Cardinality(EnabledAt)
    /\ \A n \in EnabledUpTo(Len(config.inputs)) : ListedAs(n, listed[ListPlace(n)])
=============================================================================
