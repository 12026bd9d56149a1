----------------------------- MODULE RunLifecycle -----------------------------
(***************************************************************************)
(* What the server promises about runs, whatever the orchestration does:   *)
(* runs are created one after the other, one at a time; a run is queued,   *)
(* may run, and ends once, in one of three ways; once it has ended it may  *)
(* only be forgotten.  RunStore implements this specification.             *)
(***************************************************************************)
EXTENDS Naturals

CONSTANT MaxRuns        \* bound: the runs ever created

RunIds == 1 .. MaxRuns

Ended == {"completed", "failed", "cancelled"}
Active == {"queued", "running"}

VARIABLES
    status,     \* where each run is in its life; "untracked" before and after
    created     \* how many runs have been created

vars == <<status, created>>

Init ==
    /\ status = [r \in RunIds |-> "untracked"]
    /\ created = 0

\* Runs that have ended may be forgotten at any time, any of them at once.
Forgotten(gone) ==
    [r \in RunIds |-> IF r \in gone THEN "untracked" ELSE status[r]]

MayForget == SUBSET {r \in RunIds : status[r] \in Ended}

Forget(gone) ==
    /\ status' = Forgotten(gone)
    /\ UNCHANGED created

\* A run is created only while no other is active; making room for it may
\* forget others.
Create(gone) ==
    /\ created < MaxRuns
    /\ \A r \in RunIds : status[r] \notin Active
    /\ created' = created + 1
    /\ status' = [Forgotten(gone) EXCEPT ![created + 1] = "queued"]

Start(r) ==
    /\ status[r] = "queued"
    /\ status' = [status EXCEPT ![r] = "running"]
    /\ UNCHANGED created

\* A run may end before it ever ran.
End(r, how) ==
    /\ status[r] \in Active
    /\ status' = [status EXCEPT ![r] = how]
    /\ UNCHANGED created

Next ==
    \/ \E gone \in MayForget : Forget(gone) \/ Create(gone)
    \/ \E r \in RunIds : Start(r) \/ \E how \in Ended : End(r, how)

Spec == Init /\ [][Next]_vars

===============================================================================
