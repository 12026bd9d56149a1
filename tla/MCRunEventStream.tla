--------------------------- MODULE MCRunEventStream ---------------------------
(***************************************************************************)
(* Instances of RunEventStream for TLC.                                    *)
(***************************************************************************)
EXTENDS RunEventStream, TLC

OneCase == {"c1"}
OneCode == {"RUN_TIMEOUT"}

\* Streams are told apart by nothing.
StreamSymmetry == Permutations(Streams)
===============================================================================
