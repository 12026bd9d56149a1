---------------------------- MODULE TargetProfiles ----------------------------
(***************************************************************************)
(* The target profile store (src/server/targets/target-profile-store.ts)   *)
(* behind its routes (src/server/routes/target-routes.ts): one JSON file   *)
(* per profile, written to a temporary file and renamed over the old one.  *)
(* Every await on the file system is a state of the call, so the calls of  *)
(* several clients interleave between any two of them.  An I/O operation   *)
(* may fail (MaxFaults) and the server may crash and start again           *)
(* (MaxCrashes); a clean-up is an I/O operation too.                       *)
(*                                                                         *)
(* Ids are those TargetProfileIdParamsSchema admits, so none resolves      *)
(* outside the directory.  Profiles are the bodies that pass the schema.   *)
(***************************************************************************)
EXTENDS Naturals, FiniteSets

CONSTANTS Clients, Ids, Profiles,
          Missing, Damaged, Unseen,     \* see ProfileMap
          MaxCalls, MaxFaults, MaxCrashes

ASSUME TargetAssumption ==
    /\ MaxCalls \in Nat /\ MaxFaults \in Nat /\ MaxCrashes \in Nat
    /\ Missing \notin Profiles /\ Damaged \notin Profiles /\ Unseen \notin Profiles
    /\ Cardinality({Missing, Damaged, Unseen}) = 3

VARIABLES
    files,      \* per id what <id>.json holds
    temps,      \* the temporary files: what each of them holds
    calls,      \* per client its last request
    asked,      \* requests made so far: the next randomUUID()
    faults,     \* I/O errors that may still happen
    crashes,    \* crashes that may still happen
    litter      \* history variable: temporary files nobody will remove

vars == <<files, temps, calls, asked, faults, crashes, litter>>

Contents == Profiles \cup {Missing, Damaged}

Nothing == [i \in Ids |-> Unseen]

NoCall == [op |-> "list", id |-> Unseen, profile |-> Unseen, hit |-> FALSE,
           applied |-> FALSE, saw |-> Nothing, answer |-> "none",
           at |-> "idle", uuid |-> 0]

Init == /\ files \in [Ids -> Contents]
        /\ temps = [u \in 1..MaxCalls |-> Missing]
        /\ calls = [c \in Clients |-> NoCall]
        /\ asked = 0
        /\ faults = MaxFaults
        /\ crashes = MaxCrashes
        /\ litter = {}

-------------------------------------------------------------------------------
(* The steps of one call.                                                  *)

At(c, place) == calls[c].at = place

Id(c) == calls[c].id

Temp(c) == calls[c].uuid

\* The call of c goes on at another place.
Goes(c, place) == calls' = [calls EXCEPT ![c].at = place]

\* The call of c is answered.
Answers(c, answer) == calls' = [calls EXCEPT ![c].at = "idle", ![c].answer = answer]

\* The call of c has looked at its id and is answered.
SeesAndAnswers(c, answer) ==
    calls' = [calls EXCEPT ![c].at = "idle", ![c].answer = answer,
                           ![c].saw[Id(c)] = files[Id(c)]]

\* The I/O operation of c fails.
Fault == faults > 0 /\ faults' = faults - 1

FailsTo(c, place) == calls' = [calls EXCEPT ![c].at = place, ![c].hit = TRUE]

FailsWith(c) ==
    calls' = [calls EXCEPT ![c].at = "idle", ![c].hit = TRUE, ![c].answer = "failed"]

disk == <<files, temps, litter>>
world == <<asked, crashes>>

\* A request with a body or an id that the schemas refuse.
AskInvalid(c, op) ==
    /\ At(c, "idle") /\ asked < MaxCalls /\ op # "list"
    /\ calls' = [calls EXCEPT ![c] = [NoCall EXCEPT !.op = op, !.answer = "invalid"]]
    /\ asked' = asked + 1
    /\ UNCHANGED <<disk, faults, crashes>>

\* An upsert whose auth method is key-path looks at the key first.
Ask(c, op, id, profile) ==
    /\ At(c, "idle") /\ asked < MaxCalls
    /\ \E place \in IF op = "upsert" THEN {"key", "prepare"} ELSE {"prepare"} :
          calls' = [calls EXCEPT ![c] =
                      [NoCall EXCEPT !.op = op, !.id = id, !.profile = profile,
                                     !.answer = "pending", !.at = place,
                                     !.uuid = asked + 1]]
    /\ asked' = asked + 1
    /\ UNCHANGED <<disk, faults, crashes>>

ValidatePrivateKeyPath(c) ==
    /\ At(c, "key")
    /\ Goes(c, "prepare") \/ Answers(c, "invalid")
    /\ UNCHANGED <<disk, faults, world>>

FirstStep(op) == CASE op = "upsert" -> "exists"
                   [] op = "delete" -> "remove"
                   [] op = "get"    -> "read"
                   [] OTHER         -> "readdir"

\* The delete route does not know the error of a failed preparation: it is
\* answered by the application's error handler, also with a 500.
EnsureStorageDirectory(c) ==
    /\ At(c, "prepare")
    /\ \/ Goes(c, FirstStep(calls[c].op)) /\ UNCHANGED faults
       \/ Fault /\ FailsWith(c)
    /\ UNCHANGED <<disk, world>>

ProfileFileExists(c) ==
    /\ At(c, "exists")
    /\ \/ /\ calls' = [calls EXCEPT ![c].at = "write",
                                    ![c].saw[Id(c)] = files[Id(c)]]
          /\ UNCHANGED faults
       \/ Fault /\ FailsWith(c)
    /\ UNCHANGED <<disk, world>>

-------------------------------------------------------------------------------
(* writeProfileFileAtomic.                                                 *)

\* writeFile: the file is created before all of it is written.
CreateTemp(c) ==
    /\ At(c, "write")
    /\ \/ /\ Goes(c, "fill")
          /\ temps' = [temps EXCEPT ![Temp(c)] = Damaged]
          /\ UNCHANGED faults
       \/ Fault /\ FailsTo(c, "clean up") /\ UNCHANGED temps
    /\ UNCHANGED <<files, litter, world>>

FillTemp(c) ==
    /\ At(c, "fill")
    /\ \/ /\ Goes(c, "rename")
          /\ temps' = [temps EXCEPT ![Temp(c)] = calls[c].profile]
          /\ UNCHANGED faults
       \/ Fault /\ FailsTo(c, "clean up") /\ UNCHANGED temps
    /\ UNCHANGED <<files, litter, world>>

\* chmod of the temporary file, and the rename over the profile's.
Rename(c) ==
    /\ At(c, "rename")
    /\ \/ /\ calls' = [calls EXCEPT ![c].at = "chmod", ![c].applied = TRUE]
          /\ files' = [files EXCEPT ![Id(c)] = temps[Temp(c)]]
          /\ temps' = [temps EXCEPT ![Temp(c)] = Missing]
          /\ UNCHANGED faults
       \/ Fault /\ FailsTo(c, "clean up") /\ UNCHANGED <<files, temps>>
    /\ UNCHANGED <<litter, world>>

Written(call) == IF call.saw[call.id] = Missing THEN "created" ELSE "updated"

\* The chmod after the rename: the profile may have been deleted meanwhile.
ChmodProfile(c) ==
    /\ At(c, "chmod")
    /\ \/ files[Id(c)] # Missing /\ Answers(c, Written(calls[c])) /\ UNCHANGED faults
       \/ files[Id(c)] = Missing /\ FailsTo(c, "clean up") /\ UNCHANGED faults
       \/ Fault /\ FailsTo(c, "clean up")
    /\ UNCHANGED <<disk, world>>

\* Mutant of CleanUp: the catch only reports the error.
CleanUpNothing(c) ==
    /\ At(c, "clean up")
    /\ FailsWith(c)
    /\ UNCHANGED <<disk, faults, world>>

\* rm with force: true; its own failure is swallowed.
CleanUp(c) ==
    /\ At(c, "clean up")
    /\ FailsWith(c)
    /\ \/ /\ temps' = [temps EXCEPT ![Temp(c)] = Missing]
          /\ UNCHANGED <<faults, litter>>
       \/ Fault /\ litter' = litter \cup {Temp(c)} /\ UNCHANGED temps
    /\ UNCHANGED <<files, world>>

-------------------------------------------------------------------------------
(* deleteProfile, getProfile and listProfiles.                             *)

DeleteProfile(c) ==
    /\ At(c, "remove")
    /\ \/ /\ files[Id(c)] = Missing
          /\ SeesAndAnswers(c, "not found")
          /\ UNCHANGED <<files, faults>>
       \/ /\ files[Id(c)] # Missing
          /\ calls' = [calls EXCEPT ![c].at = "idle", ![c].applied = TRUE,
                                    ![c].answer = "deleted"]
          /\ files' = [files EXCEPT ![Id(c)] = Missing]
          /\ UNCHANGED faults
       \/ Fault /\ FailsWith(c) /\ UNCHANGED files
    /\ UNCHANGED <<temps, litter, world>>

GetProfile(c) ==
    /\ At(c, "read")
    /\ \/ files[Id(c)] = Missing /\ SeesAndAnswers(c, "not found") /\ UNCHANGED faults
       \/ files[Id(c)] = Damaged /\ SeesAndAnswers(c, "failed") /\ UNCHANGED faults
       \/ files[Id(c)] \in Profiles /\ SeesAndAnswers(c, "found") /\ UNCHANGED faults
       \/ Fault /\ FailsWith(c)
    /\ UNCHANGED <<disk, world>>

\* readdir: an id without a file is not listed; the others are read later.
ReadDirectory(c) ==
    /\ At(c, "readdir")
    /\ \/ /\ calls' = [calls EXCEPT ![c].at = "entries",
                         ![c].saw = [i \in Ids |-> IF files[i] = Missing
                                                   THEN Missing ELSE Unseen]]
          /\ UNCHANGED faults
       \/ Fault /\ FailsWith(c)
    /\ UNCHANGED <<disk, world>>

\* Mutant of ReadEntry: a profile deleted since the readdir fails the list.
ReadEntryOrFail(c) ==
    /\ At(c, "entries")
    /\ \E i \in Ids :
          /\ calls[c].saw[i] = Unseen
          /\ IF files[i] \in Profiles
             THEN calls' = [calls EXCEPT ![c].saw[i] = files[i]]
             ELSE Answers(c, "failed")
    /\ UNCHANGED <<disk, faults, world>>

\* The entries are read one by one, in the order of the directory; what is
\* gone, damaged or unreadable is skipped.
ReadEntry(c) ==
    /\ At(c, "entries")
    /\ \E i \in Ids :
          /\ calls[c].saw[i] = Unseen
          /\ \/ calls' = [calls EXCEPT ![c].saw[i] = files[i]] /\ UNCHANGED faults
             \/ Fault /\ calls' = [calls EXCEPT ![c].saw[i] = Damaged]
    /\ UNCHANGED <<disk, world>>

ListIsComplete(c) ==
    /\ At(c, "entries")
    /\ \A i \in Ids : calls[c].saw[i] # Unseen
    /\ Answers(c, "listed")
    /\ UNCHANGED <<disk, faults, world>>

\* The process dies and starts again: the files stay, the calls are gone.
Crash ==
    /\ crashes > 0
    /\ crashes' = crashes - 1
    /\ litter' = litter \cup {u \in DOMAIN temps : temps[u] # Missing}
    /\ calls' = [c \in Clients |->
                    IF calls[c].answer = "pending"
                    THEN [calls[c] EXCEPT !.at = "idle", !.answer = "none"]
                    ELSE calls[c]]
    /\ UNCHANGED <<files, temps, asked, faults>>

Step(c) == \/ ValidatePrivateKeyPath(c) \/ EnsureStorageDirectory(c)
           \/ ProfileFileExists(c) \/ CreateTemp(c) \/ FillTemp(c) \/ Rename(c)
           \/ ChmodProfile(c) \/ CleanUp(c)
           \/ DeleteProfile(c) \/ GetProfile(c)
           \/ ReadDirectory(c) \/ ReadEntry(c) \/ ListIsComplete(c)

Operations == {"upsert", "delete", "get", "list"}

Next == \/ \E c \in Clients, op \in Operations : AskInvalid(c, op)
        \/ \E c \in Clients, id \in Ids :
              \/ \E profile \in Profiles : Ask(c, "upsert", id, profile)
              \/ Ask(c, "delete", id, Unseen)
              \/ Ask(c, "get", id, Unseen)
        \/ \E c \in Clients : Ask(c, "list", Unseen, Unseen)
        \/ \E c \in Clients : Step(c)
        \/ Crash

Spec == Init /\ [][Next]_vars

-------------------------------------------------------------------------------
(* Properties.                                                             *)

\* agent-os/standards/server/ssh-target-profiles.md, line 9: "Write atomically
\* (temp file + rename); cleanup temp files on failure".  A temporary file in
\* the directory belongs to a write in progress; after it only a crash or a
\* failed removal can leave it there.
TempsBelongToWrites ==
    \A u \in DOMAIN temps \ litter :
        temps[u] # Missing =>
            \E c \in Clients : /\ calls[c].uuid = u
                               /\ calls[c].at \in {"fill", "rename", "clean up"}

Map == INSTANCE ProfileMap WITH
    map <- files,
    calls <- [c \in Clients |->
                [f \in DOMAIN calls[c] \ {"at", "uuid"} |-> calls[c][f]]]

\* To its callers the directory is one map: an upsert and a delete of the same
\* profile that interleave, a list that reads while profiles come and go, an
\* error and a crash between any two steps give the answers of ProfileMap.
ImplementsProfileMap == Map!MapSpec
===============================================================================
