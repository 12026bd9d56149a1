--------------------------- MODULE MCTargetProfiles ---------------------------
(***************************************************************************)
(* Instances of TargetProfiles for TLC.                                    *)
(***************************************************************************)
EXTENDS TargetProfiles, TLC

\* Nothing tells two clients, two ids or two profiles apart.
TargetSymmetry == Permutations(Clients) \cup Permutations(Ids) \cup Permutations(Profiles)
===============================================================================
