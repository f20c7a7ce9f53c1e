----------------------------- MODULE MCCrawler -----------------------------
(***************************************************************************)
(* Two configured inputs: every choice of disabled, broken and identical   *)
(* inputs, with and without the reloader and the -once flag.               *)
(***************************************************************************)
EXTENDS Crawler

CONSTANTS h1, h2

MCIds == {h1, h2}
MCSettings == {s \in SettingType : s.broken \subseteq s.enabled}
=============================================================================
