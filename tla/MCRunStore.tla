----------------------------- MODULE MCRunStore -------------------------------
(***************************************************************************)
(* Instances of RunStore for TLC.                                          *)
(***************************************************************************)
EXTENDS RunStore

OneCase == {"c1"}
OneCode == {"RUN_TIMEOUT"}
===============================================================================
