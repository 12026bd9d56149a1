----------------------------- MODULE MCAuthLimiter ----------------------------
(***************************************************************************)
(* Instances of AuthLimiter for TLC.                                       *)
(***************************************************************************)
EXTENDS AuthLimiter

ThreeClients == {"a", "b", "c"}
===============================================================================
