------------------------------ MODULE ProfileMap ------------------------------
(***************************************************************************)
(* What the target profile store promises the callers of /targets: the     *)
(* profiles are one map.  An upsert or a delete takes effect at one        *)
(* instant between the request and its answer; a get answers what the map  *)
(* holds at one instant; a list looks at every id once, though not at all  *)
(* of them at the same instant.  Only a call that met an I/O error, or     *)
(* whose profile was deleted under its hands, or that read a damaged file  *)
(* fails - and it may have taken effect all the same.  A crash ends every  *)
(* call and leaves the map as it is.                                       *)
(***************************************************************************)
EXTENDS Naturals

CONSTANTS Clients, Ids, Profiles,
          Missing,      \* no profile under the id
          Damaged,      \* something under the id that is no profile of it
          Unseen        \* the call has not looked at the id

VARIABLES map,
          calls,        \* per client its last call
          faults        \* I/O errors that may still happen

mapVars == <<map, calls, faults>>

Contents == Profiles \cup {Missing, Damaged}

Nothing == [i \in Ids |-> Unseen]

\* hit: an error was met; applied: the map shows the call; saw: the content
\* of each id when it was looked at (Damaged also when it was unreadable).
Call == [op : {"upsert", "delete", "get", "list"},
         id : Ids \cup {Unseen}, profile : Profiles \cup {Unseen},
         hit : BOOLEAN, applied : BOOLEAN, saw : [Ids -> Contents \cup {Unseen}],
         answer : {"none", "pending", "created", "updated", "deleted", "found",
                   "listed", "not found", "invalid", "failed"}]

Pending(c) == calls[c].answer = "pending"

Fresh(call) == ~call.hit /\ ~call.applied /\ call.saw = Nothing

MapInit == /\ map \in [Ids -> Contents]
           /\ calls \in [Clients -> Call]
           /\ \A c \in Clients : Fresh(calls[c]) /\ calls[c].answer = "none"
           /\ faults \in Nat

\* Only the call of c changes, and what it asks for stays.
OnlyCall(c) == calls' = [calls EXCEPT ![c] = calls'[c]]

SameRequest(c) == \A f \in {"op", "id", "profile"} : calls'[c][f] = calls[c][f]

Ask(c) == /\ ~Pending(c)
          /\ OnlyCall(c)
          /\ calls'[c] \in Call
          /\ Fresh(calls'[c])
          /\ calls'[c].answer \in {"pending", "invalid"}
          /\ UNCHANGED <<map, faults>>

\* The answers a call deserves for what it has met, done and seen.
Deserved(call) ==
    {"pending"}
    \cup {a \in {"failed"} : call.hit \/ (call.op = "get" /\ call.saw[call.id] = Damaged)}
    \cup {a \in {"invalid"} : call.op = "upsert" /\ Fresh(call)}
    \cup {a \in {"created"} : call.applied /\ call.saw[call.id] = Missing}
    \cup {a \in {"updated"} : call.applied /\ call.saw[call.id] \in Profiles \cup {Damaged}}
    \cup {a \in {"not found"} : call.op \in {"get", "delete"} /\ call.saw[call.id] = Missing}
    \cup {a \in {"found"} : call.op = "get" /\ call.saw[call.id] \in Profiles}
    \cup {a \in {"listed"} : call.op = "list" /\ \A i \in Ids : call.saw[i] # Unseen}

\* A call looks at some ids, may meet an error, and may be answered.
Serve(c) ==
    LET old == calls[c]
        new == calls'[c]
    IN  /\ Pending(c)
        /\ OnlyCall(c) /\ SameRequest(c) /\ new.applied = old.applied
        /\ \A i \in Ids : \/ new.saw[i] = old.saw[i]
                          \/ old.saw[i] = Unseen /\ new.saw[i] = map[i]
                          \/ old.saw[i] = Unseen /\ new.saw[i] = Damaged /\ faults' < faults
        /\ \/ new.hit = old.hit /\ faults' \in {faults, faults - 1}
           \/ new.hit /\ faults' = faults - 1
           \/ new.hit /\ old.applied /\ map[old.id] = Missing /\ faults' = faults
        /\ new.answer \in Deserved(new)
        /\ UNCHANGED map

Put(c) == /\ Pending(c) /\ calls[c].op = "upsert" /\ ~calls[c].applied
          /\ map' = [map EXCEPT ![calls[c].id] = calls[c].profile]
          /\ calls' = [calls EXCEPT ![c].applied = TRUE]
          /\ UNCHANGED faults

Take(c) == /\ Pending(c) /\ calls[c].op = "delete" /\ map[calls[c].id] # Missing
           /\ map' = [map EXCEPT ![calls[c].id] = Missing]
           /\ calls' = [calls EXCEPT ![c].applied = TRUE, ![c].answer = "deleted"]
           /\ UNCHANGED faults

Crash == /\ calls' = [c \in Clients |-> IF Pending(c)
                                        THEN [calls[c] EXCEPT !.answer = "none"]
                                        ELSE calls[c]]
         /\ UNCHANGED <<map, faults>>

MapNext == Crash \/ \E c \in Clients : Ask(c) \/ Serve(c) \/ Put(c) \/ Take(c)

MapSpec == MapInit /\ [][MapNext]_mapVars
===============================================================================
