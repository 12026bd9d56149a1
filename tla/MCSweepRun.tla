------------------------------ MODULE MCSweepRun ------------------------------
(***************************************************************************)
(* Instances of SweepRun for TLC.                                          *)
(***************************************************************************)
EXTENDS SweepRun

Cases == {"c1", "c2"}
Codes == {"RUN_TIMEOUT_EXCEEDED", "RUN_CASE_FAILED", "ENGINE_START_FAILED",
          "ENGINE_NOT_SUPPORTED"}
\* The second axis of two lists its value twice.
FourCases == <<"c1", "c1", "c2", "c2">>
===============================================================================
