----------------------------- MODULE MCDiscovery -----------------------------
(***************************************************************************)
(* Instances of Discovery for TLC.                                         *)
(***************************************************************************)
EXTENDS Discovery

CONSTANTS r1, r2

TwoRemotes == {r1, r2}

\* One binary with the flag, one with a second GPU and without it.
TwoBinaries == {[flags |-> {"--f"}, gpus |-> 1], [flags |-> {}, gpus |-> 2], Unusable}

\* Every machine starts with the binary a strict request accepts.
AllInstalled ==
    {[m \in TwoRemotes \cup {Local} |-> [flags |-> {"--f"}, gpus |-> 1]]}

Plain(target) == [target |-> target, mode |-> "strict", candidates |-> {"--f"},
                  selectsGpu |-> FALSE, profileFound |-> TRUE, refused |-> FALSE]

SomeRequests == {Plain(r1), Plain(r2), Plain(Local),
                 [Plain(r1) EXCEPT !.selectsGpu = TRUE, !.mode = "permissive"],
                 [Plain(r1) EXCEPT !.profileFound = FALSE, !.refused = TRUE]}
===============================================================================
