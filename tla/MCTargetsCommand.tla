--------------------------- MODULE MCTargetsCommand ---------------------------
(***************************************************************************)
(* The instance of TargetsCommand for TLC.                                 *)
(***************************************************************************)
EXTENDS TargetsCommand
===============================================================================
