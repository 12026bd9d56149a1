----------------------------- MODULE MCRunServer ------------------------------
(***************************************************************************)
(* Instances of RunServer for TLC.                                         *)
(***************************************************************************)
EXTENDS RunServer

Cases == {"c1", "c2"}
Codes == {"RUN_TIMEOUT_EXCEEDED", "RUN_CASE_FAILED", "ENGINE_START_FAILED",
          "ENGINE_EXECUTION_FAILED"}
OneCase == <<"c1">>
TwoCases == <<"c1", "c2">>
===============================================================================
