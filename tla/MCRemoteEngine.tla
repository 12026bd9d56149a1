---------------------------- MODULE MCRemoteEngine ----------------------------
(***************************************************************************)
(* Instances of RemoteEngine for TLC.                                      *)
(***************************************************************************)
EXTENDS RemoteEngine
===============================================================================
