------------------------------ MODULE MCSetup -------------------------------
(***************************************************************************)
(* Up to two inputs in the main file and one more in a file of config_dir, *)
(* enabled or not, with and without a type; two settings that differ in    *)
(* every field, and two clients.                                           *)
(***************************************************************************)
EXTENDS Setup

CONSTANTS c1, c2

MCInput == [enabled : BOOLEAN, type : InputTypes \cup {NoType}]
MCMain == {<< >>} \cup {<<i>> : i \in MCInput} \cup {<<i, j>> : i \in MCInput, j \in MCInput}
MCConfigs ==
  [inputs : MCMain, files : {<<<<i>>>> : i \in MCInput} \cup {<< >>},
   dir : {"unset", "ok", "broken"}, other : BOOLEAN, setup : BOOLEAN]
MCRunners == 1..3
MCClients == {c1, c2}
MCPlain == [service |-> Unset, module |-> Unset, fileset |-> Unset,
            pipeline |-> Unset, index |-> Unset, processors |-> << >>]
MCRich == [service |-> Unset, module |-> "mod", fileset |-> "set",
           pipeline |-> "pipe", index |-> "index", processors |-> <<"local">>]
MCSettings == {MCPlain, MCRich, [MCRich EXCEPT !.service = "svc", !.fileset = Unset]}
MCGiven == [fields |-> "event" :> "given", meta |-> << >>, procs |-> <<"input">>]
=============================================================================
