------------------------- MODULE TargetProfilesProofs -------------------------
(***************************************************************************)
(* Proofs about TargetProfiles, for any number of clients, ids, profiles,  *)
(* calls, I/O errors and crashes: a temporary file belongs to a write, and *)
(* the directory implements ProfileMap.                                    *)
(***************************************************************************)
EXTENDS TargetProfiles, FiniteSetTheorems, TLAPS

-------------------------------------------------------------------------------
(***************************************************************************)
(* Part 1: the inductive invariant.                                        *)
(***************************************************************************)

Places == {"idle", "key", "prepare", "exists", "write", "fill", "rename",
           "chmod", "clean up", "remove", "read", "readdir", "entries"}

Answer == {"none", "pending", "created", "updated", "deleted", "found",
           "listed", "not found", "invalid", "failed"}

CallRecord == [op : Operations, id : Ids \cup {Unseen},
               profile : Profiles \cup {Unseen},
               hit : BOOLEAN, applied : BOOLEAN,
               saw : [Ids -> Contents \cup {Unseen}],
               answer : Answer, at : Places, uuid : 0 .. MaxCalls]

FreshCall(call) == ~ call.hit /\ ~ call.applied /\ call.saw = Nothing

\* Where a call can be says what it has been asked, met, done and seen.
SoundCall(call) ==
    /\ call \in CallRecord
    /\ call.at = "idle" <=> call.answer # "pending"
    /\ call.at # "idle" => call.uuid \in 1 .. asked
    /\ call.at = "key" => call.op = "upsert"
    /\ call.at \in {"exists", "write", "fill", "rename", "chmod", "clean up"}
            => call.op = "upsert"
    /\ call.at = "remove" => call.op = "delete"
    /\ call.at = "read" => call.op = "get"
    /\ call.at \in {"readdir", "entries"} => call.op = "list"
    /\ call.at # "idle" /\ call.op # "list" => call.id \in Ids
    /\ call.at # "idle" /\ call.op = "upsert" => call.profile \in Profiles
    /\ call.at \in {"key", "prepare", "exists", "remove", "read", "readdir"}
            => FreshCall(call)
    /\ call.at \in {"write", "fill", "rename"} =>
            ~ call.applied /\ call.saw[call.id] \in Contents
    /\ call.at = "chmod" => call.applied /\ call.saw[call.id] \in Contents
    /\ call.at = "clean up" => call.hit

\* No two calls in progress use the same temporary file: the uuids are drawn
\* anew.  So what a write has filled is what it will rename.
TargetInv ==
    /\ files \in [Ids -> Contents]
    /\ temps \in [1 .. MaxCalls -> Contents]
    /\ calls \in [Clients -> CallRecord]
    /\ \A c \in Clients : SoundCall(calls[c])
    /\ asked \in 0 .. MaxCalls
    /\ faults \in Nat
    /\ crashes \in Nat
    /\ litter \subseteq 1 .. MaxCalls
    /\ \A c, d \in Clients :
          c # d /\ ~ At(c, "idle") /\ ~ At(d, "idle") => Temp(c) # Temp(d)
    /\ \A c \in Clients : At(c, "rename") => temps[Temp(c)] = calls[c].profile

-------------------------------------------------------------------------------
(***************************************************************************)
(* Part 2: what a step makes of the record of its call.                    *)
(***************************************************************************)

\* The record of a call that goes on: the request and the uuid stay.
Made(call, at, hit, applied, saw, answer) ==
    [call EXCEPT !.at = at, !.hit = hit, !.applied = applied, !.saw = saw,
                 !.answer = answer]

Saw == [Ids -> Contents \cup {Unseen}]

\* The record of o goes on as new.
Becomes(c, new, at, hit, applied, saw, answer) ==
    LET o == calls[c]
    IN  /\ calls' = [calls EXCEPT ![c] = new]
        /\ new \in CallRecord
        /\ new.op = o.op /\ new.id = o.id
        /\ new.profile = o.profile /\ new.uuid = o.uuid
        /\ new.at = at /\ new.hit = hit /\ new.applied = applied
        /\ new.saw = saw /\ new.answer = answer

LEMMA MadeFields ==
  ASSUME calls \in [Clients -> CallRecord], NEW c \in Clients,
         NEW at \in Places, NEW hit \in BOOLEAN, NEW applied \in BOOLEAN,
         NEW saw \in Saw, NEW answer \in Answer,
         calls' = [calls EXCEPT ![c] =
                      Made(calls[c], at, hit, applied, saw, answer)]
  PROVE  \E new : Becomes(c, new, at, hit, applied, saw, answer)
<1> DEFINE o == calls[c]
           new == Made(o, at, hit, applied, saw, answer)
<1>1. o \in CallRecord
  OBVIOUS
<1>2. /\ new \in CallRecord
      /\ new.op = o.op /\ new.id = o.id
      /\ new.profile = o.profile /\ new.uuid = o.uuid
      /\ new.at = at /\ new.hit = hit /\ new.applied = applied
      /\ new.saw = saw /\ new.answer = answer
  <2> HIDE DEF o
  <2>1. QED
    BY <1>1 DEF Made, CallRecord, Saw
<1>3. calls' = [calls EXCEPT ![c] = new]
  OBVIOUS
<1> HIDE DEF new
<1>4. Becomes(c, new, at, hit, applied, saw, answer)
  BY <1>2, <1>3 DEF Becomes
<1>5. QED
  BY <1>4

LEMMA CallFields ==
  ASSUME NEW call \in CallRecord
  PROVE  /\ call.op \in Operations
         /\ call.id \in Ids \cup {Unseen}
         /\ call.profile \in Profiles \cup {Unseen}
         /\ call.hit \in BOOLEAN /\ call.applied \in BOOLEAN
         /\ call.saw \in Saw
         /\ call.answer \in Answer
         /\ call.at \in Places
         /\ call.uuid \in 0 .. MaxCalls
  BY DEF CallRecord, Saw

\* Every way in which a step writes the record of its call.
LEMMA Shapes ==
  ASSUME calls \in [Clients -> CallRecord], NEW c \in Clients,
         NEW place \in Places, NEW answer \in Answer
  PROVE  LET o == calls[c]
         IN  /\ Goes(c, place) =>
                \E new : Becomes(c, new, place, o.hit, o.applied, o.saw, o.answer)
             /\ Answers(c, answer) =>
                \E new : Becomes(c, new, "idle", o.hit, o.applied, o.saw, answer)
             /\ SeesAndAnswers(c, answer) /\ o.id \in Ids
                    /\ files \in [Ids -> Contents] =>
                \E new : Becomes(c, new, "idle", o.hit, o.applied,
                                [o.saw EXCEPT ![o.id] = files[o.id]], answer)
             /\ FailsTo(c, place) =>
                \E new : Becomes(c, new, place, TRUE, o.applied, o.saw, o.answer)
             /\ FailsWith(c) =>
                \E new : Becomes(c, new, "idle", TRUE, o.applied, o.saw, "failed")
<1> DEFINE o == calls[c]
<1>1. o \in CallRecord
  OBVIOUS
<1>2. Goes(c, place) =>
        calls' = [calls EXCEPT ![c] =
                    Made(o, place, o.hit, o.applied, o.saw, o.answer)]
  BY <1>1 DEF Goes, Made, CallRecord
<1>3. Answers(c, answer) =>
        calls' = [calls EXCEPT ![c] =
                    Made(o, "idle", o.hit, o.applied, o.saw, answer)]
  BY <1>1 DEF Answers, Made, CallRecord
<1>4. SeesAndAnswers(c, answer) =>
        calls' = [calls EXCEPT ![c] =
                    Made(o, "idle", o.hit, o.applied,
                         [o.saw EXCEPT ![o.id] = files[o.id]], answer)]
  BY ZenonT(60), <1>1 DEF SeesAndAnswers, Made, CallRecord, Id
<1>5. FailsTo(c, place) =>
        calls' = [calls EXCEPT ![c] =
                    Made(o, place, TRUE, o.applied, o.saw, o.answer)]
  BY <1>1 DEF FailsTo, Made, CallRecord
<1>6. FailsWith(c) =>
        calls' = [calls EXCEPT ![c] =
                    Made(o, "idle", TRUE, o.applied, o.saw, "failed")]
  BY <1>1 DEF FailsWith, Made, CallRecord
<1>7. /\ o.hit \in BOOLEAN /\ o.applied \in BOOLEAN
      /\ o.saw \in Saw /\ o.answer \in Answer
      /\ TRUE \in BOOLEAN /\ "idle" \in Places /\ "failed" \in Answer
  BY <1>1, CallFields DEF Places, Answer
<1>8. o.id \in Ids /\ files \in [Ids -> Contents] =>
          [o.saw EXCEPT ![o.id] = files[o.id]] \in Saw
  BY <1>7 DEF Saw
<1>9. ASSUME Goes(c, place)
      PROVE  \E new : Becomes(c, new, place, o.hit, o.applied, o.saw, o.answer)
  BY <1>2, <1>7, <1>9, MadeFields
<1>10. ASSUME Answers(c, answer)
       PROVE  \E new : Becomes(c, new, "idle", o.hit, o.applied, o.saw, answer)
  BY <1>3, <1>7, <1>10, MadeFields
<1>11. ASSUME SeesAndAnswers(c, answer), o.id \in Ids,
              files \in [Ids -> Contents]
       PROVE  \E new : Becomes(c, new, "idle", o.hit, o.applied,
                              [o.saw EXCEPT ![o.id] = files[o.id]], answer)
  BY <1>4, <1>7, <1>8, <1>11, MadeFields
<1>12. ASSUME FailsTo(c, place)
       PROVE  \E new : Becomes(c, new, place, TRUE, o.applied, o.saw, o.answer)
  BY <1>5, <1>7, <1>12, MadeFields
<1>13. ASSUME FailsWith(c)
       PROVE  \E new : Becomes(c, new, "idle", TRUE, o.applied, o.saw, "failed")
  BY <1>6, <1>7, <1>13, MadeFields
<1>14. QED
  BY <1>9, <1>10, <1>11, <1>12, <1>13

-------------------------------------------------------------------------------
(***************************************************************************)
(* Part 3: a step of one call, seen from the invariant and from the map.   *)
(***************************************************************************)

Holding == {"fill", "rename", "clean up"}

\* What a step that turns the record of c into new keeps: the call stays
\* sound, it touches no temporary file but its own, and lets go of that one
\* only by removing it or by failing to.
KeepsInv(c, new) ==
    /\ calls' = [calls EXCEPT ![c] = new]
    /\ SoundCall(new)
    /\ ~ At(c, "idle") /\ new.uuid = Temp(c)
    /\ UNCHANGED world
    /\ faults' \in Nat
    /\ files' \in [Ids -> Contents]
    /\ \E x \in Contents :
          /\ temps' = [temps EXCEPT ![Temp(c)] = x]
          /\ new.at = "rename" => x = new.profile
          /\ x # Missing /\ calls[c].at \in Holding /\ new.at \notin Holding
                => Temp(c) \in litter'
          /\ x # Missing /\ x # temps[Temp(c)] => new.at \in Holding
    /\ litter' \in {litter, litter \cup {Temp(c)}}

\* The same request, seen and answered as Serve of ProfileMap allows.
Serves(old, new) ==
    /\ new.applied = old.applied
    /\ \A i \in Ids :
          \/ new.saw[i] = old.saw[i]
          \/ old.saw[i] = Unseen /\ new.saw[i] = files[i]
          \/ old.saw[i] = Unseen /\ new.saw[i] = Damaged /\ faults' < faults
    /\ \/ new.hit = old.hit /\ faults' \in {faults, faults - 1}
       \/ new.hit /\ faults' = faults - 1
       \/ /\ new.hit /\ old.applied /\ files[old.id] = Missing
          /\ faults' = faults
    /\ new.answer \in Map!Deserved(new)
    /\ UNCHANGED files

Shown == {"op", "id", "profile", "hit", "applied", "saw", "answer"}

Unseeable(old, new) ==
    /\ \A f \in Shown : new[f] = old[f]
    /\ UNCHANGED <<files, faults>>

Puts(old, new) ==
    /\ old.op = "upsert" /\ ~ old.applied
    /\ files' = [files EXCEPT ![old.id] = old.profile]
    /\ new.applied
    /\ \A f \in Shown \ {"applied"} : new[f] = old[f]
    /\ UNCHANGED faults

Takes(old, new) ==
    /\ old.op = "delete" /\ files[old.id] # Missing
    /\ files' = [files EXCEPT ![old.id] = Missing]
    /\ new.applied /\ new.answer = "deleted"
    /\ \A f \in Shown \ {"applied", "answer"} : new[f] = old[f]
    /\ UNCHANGED faults

\* What every step of a call amounts to.
StepsAsAllowed(c) ==
    \E new \in CallRecord :
        /\ KeepsInv(c, new)
        /\ new.op = calls[c].op /\ new.id = calls[c].id
        /\ new.profile = calls[c].profile
        /\ \/ Unseeable(calls[c], new)
           \/ Serves(calls[c], new)
           \/ Puts(calls[c], new)
           \/ Takes(calls[c], new)

\* The three marks are different.
LEMMA Marks == Missing # Damaged /\ Missing # Unseen /\ Damaged # Unseen
<1>1. ASSUME NEW a, NEW b
      PROVE  Cardinality({a, b}) # 3
  <2> DEFINE S == {a}
  <2>1. IsFiniteSet(S) /\ Cardinality(S) = 1
    BY FS_Singleton
  <2>2. {a, b} = S \cup {b}
    OBVIOUS
  <2> HIDE DEF S
  <2>3. Cardinality(S \cup {b}) = IF b \in S THEN Cardinality(S)
                                            ELSE Cardinality(S) + 1
    BY <2>1, FS_AddElement
  <2>4. Cardinality(S \cup {b}) # 3
    BY <2>1, <2>3
  <2>5. QED
    BY <2>2, <2>4
<1>2. \A a, b : {a, a, b} = {a, b} /\ {a, b, a} = {a, b} /\ {a, b, b} = {a, b}
  OBVIOUS
<1>3. Cardinality({Missing, Damaged, Unseen}) = 3
  BY TargetAssumption
<1>4. QED
  BY <1>1, <1>2, <1>3

\* The facts every step starts from.
LEMMA CallFacts ==
  ASSUME TargetInv, NEW c \in Clients
  PROVE  /\ calls \in [Clients -> CallRecord]
         /\ calls[c] \in CallRecord /\ SoundCall(calls[c])
         /\ files \in [Ids -> Contents]
         /\ temps \in [1 .. MaxCalls -> Contents]
         /\ faults \in Nat
         /\ Missing # Damaged /\ Missing # Unseen /\ Damaged # Unseen
         /\ Missing \notin Profiles /\ Damaged \notin Profiles
         /\ Unseen \notin Profiles
         /\ ~ At(c, "idle") =>
                Temp(c) \in 1 .. MaxCalls /\ temps[Temp(c)] \in Contents
         /\ [temps EXCEPT ![Temp(c)] = temps[Temp(c)]] = temps
<1>1. /\ calls \in [Clients -> CallRecord]
      /\ calls[c] \in CallRecord /\ SoundCall(calls[c])
      /\ files \in [Ids -> Contents]
      /\ temps \in [1 .. MaxCalls -> Contents]
      /\ faults \in Nat
  BY DEF TargetInv, SoundCall
<1>2. ~ At(c, "idle") =>
          Temp(c) \in 1 .. MaxCalls /\ temps[Temp(c)] \in Contents
  <2>1. asked \in 0 .. MaxCalls /\ MaxCalls \in Nat
    BY TargetAssumption DEF TargetInv
  <2>2. ~ At(c, "idle") => Temp(c) \in 1 .. asked
    BY <1>1 DEF SoundCall, At, Temp
  <2>3. \A u \in 1 .. asked : u \in 1 .. MaxCalls /\ temps[u] \in Contents
    BY <1>1, <2>1
  <2>4. QED
    BY <2>2, <2>3
<1>3. [temps EXCEPT ![Temp(c)] = temps[Temp(c)]] = temps
  BY <1>1
<1>4. QED
  BY <1>1, <1>2, <1>3, Marks, TargetAssumption

\* The key of a profile is looked at before anything else happens.
LEMMA ValidateStep ==
  ASSUME TargetInv, NEW c \in Clients, ValidatePrivateKeyPath(c)
  PROVE  StepsAsAllowed(c)
<1> DEFINE o == calls[c]
<1>1. /\ o.at = "key" /\ SoundCall(o) /\ o \in CallRecord
      /\ UNCHANGED <<files, temps, litter, faults, asked, crashes>>
  BY CallFacts DEF ValidatePrivateKeyPath, At, disk, world
<1>2. /\ o.op = "upsert" /\ FreshCall(o) /\ o.answer = "pending"
      /\ o.uuid \in 1 .. asked /\ o.id \in Ids /\ o.profile \in Profiles
  BY <1>1 DEF SoundCall
<1>3. CASE Goes(c, "prepare")
  <2>1. PICK new : Becomes(c, new, "prepare", o.hit, o.applied, o.saw, o.answer)
    BY <1>3, CallFacts, Shapes, <1>1, CallFields DEF Places
  <2>2. SoundCall(new)
    BY <1>2, <2>1 DEF SoundCall, FreshCall, Becomes
  <2>3. KeepsInv(c, new)
    BY <1>1, <2>1, <2>2, CallFacts
    DEF KeepsInv, At, Temp, world, Holding, Becomes
  <2>4. Unseeable(o, new)
    BY <1>1, <2>1 DEF Unseeable, Shown, Becomes
  <2>5. QED
    BY <2>1, <2>3, <2>4 DEF StepsAsAllowed, Becomes
<1>4. CASE Answers(c, "invalid")
  <2>1. PICK new : Becomes(c, new, "idle", o.hit, o.applied, o.saw, "invalid")
    BY <1>4, CallFacts, Shapes, <1>1, CallFields DEF Places, Answer
  <2>2. SoundCall(new)
    BY <1>2, <2>1 DEF SoundCall, FreshCall, Becomes
  <2>3. KeepsInv(c, new)
    BY <1>1, <2>1, <2>2, CallFacts
    DEF KeepsInv, At, Temp, world, Holding, Becomes
  <2>4. Serves(o, new)
    BY <1>1, <1>2, <2>1, CallFacts
    DEF Serves, Map!Deserved, Map!Fresh, Map!Nothing, Nothing, FreshCall, Becomes
  <2>5. QED
    BY <2>1, <2>3, <2>4 DEF StepsAsAllowed, Becomes
<1>5. QED
  BY <1>3, <1>4 DEF ValidatePrivateKeyPath

\* One error less may happen.
LEMMA FaultCounts ==
  ASSUME TargetInv, Fault
  PROVE  faults' = faults - 1 /\ faults' \in Nat /\ faults' < faults
  BY DEF TargetInv, Fault

\* An I/O error that ends the call, before it holds a temporary file.
LEMMA FaultEnds ==
  ASSUME TargetInv, NEW c \in Clients, ~ At(c, "idle"),
         calls[c].at \notin Holding,
         Fault, FailsWith(c), UNCHANGED <<disk, world>>
  PROVE  StepsAsAllowed(c)
<1> DEFINE o == calls[c]
<1>1. /\ SoundCall(o) /\ o \in CallRecord /\ o.at # "idle"
      /\ o.at \notin Holding /\ faults' = faults - 1 /\ faults' \in Nat
      /\ UNCHANGED <<files, temps, litter, asked, crashes>>
  BY CallFacts DEF At, disk, world, Fault
<1>2. PICK new : Becomes(c, new, "idle", TRUE, o.applied, o.saw, "failed")
  BY CallFacts, Shapes DEF Places, Answer
<1>3. SoundCall(new)
  BY <1>1, <1>2 DEF SoundCall, FreshCall, Becomes
<1>4. KeepsInv(c, new)
  BY <1>1, <1>2, <1>3, CallFacts DEF KeepsInv, At, Temp, world, Becomes
<1>5. Serves(o, new)
  BY <1>1, <1>2 DEF Serves, Map!Deserved, Becomes
<1>6. QED
  BY <1>2, <1>4, <1>5 DEF StepsAsAllowed, Becomes

\* An I/O error of a write: its catch runs next.
LEMMA FaultLeadsToCleanUp ==
  ASSUME TargetInv, NEW c \in Clients,
         calls[c].at \in {"write", "fill", "rename", "chmod"},
         Fault, FailsTo(c, "clean up"), UNCHANGED <<disk, world>>
  PROVE  StepsAsAllowed(c)
<1> DEFINE o == calls[c]
<1>1. /\ SoundCall(o) /\ o \in CallRecord /\ ~ At(c, "idle")
      /\ faults' = faults - 1 /\ faults' \in Nat
      /\ UNCHANGED <<files, temps, litter, asked, crashes>>
  <2>1. ~ At(c, "idle")
    BY DEF At
  <2>2. QED
    BY <2>1, CallFacts, FaultCounts DEF disk, world
<1>2. /\ o.op = "upsert" /\ o.answer = "pending"
      /\ o.uuid \in 1 .. asked /\ o.id \in Ids /\ o.profile \in Profiles
  BY <1>1 DEF SoundCall
<1>3. PICK new : Becomes(c, new, "clean up", TRUE, o.applied, o.saw, o.answer)
  BY CallFacts, CallFields, Shapes, <1>1 DEF Places
<1>4. SoundCall(new)
  BY <1>1, <1>2, <1>3 DEF SoundCall, FreshCall, Becomes
<1>5. KeepsInv(c, new)
  BY <1>1, <1>3, <1>4, CallFacts
  DEF KeepsInv, At, Temp, world, Holding, Becomes
<1>6. Serves(o, new)
  BY <1>1, <1>2, <1>3 DEF Serves, Map!Deserved, Becomes
<1>7. QED
  BY <1>3, <1>5, <1>6 DEF StepsAsAllowed, Becomes

LEMMA EnsureStep ==
  ASSUME TargetInv, NEW c \in Clients, EnsureStorageDirectory(c)
  PROVE  StepsAsAllowed(c)
<1> DEFINE o == calls[c]
<1>1. /\ o.at = "prepare" /\ SoundCall(o) /\ o \in CallRecord
      /\ UNCHANGED <<files, temps, litter, asked, crashes>>
  BY CallFacts DEF EnsureStorageDirectory, At, disk, world
<1>2. /\ FreshCall(o) /\ o.answer = "pending" /\ o.uuid \in 1 .. asked
      /\ o.op \in Operations
      /\ o.op # "list" => o.id \in Ids
      /\ o.op = "upsert" => o.profile \in Profiles
  BY <1>1, CallFields DEF SoundCall
<1>3. CASE Goes(c, FirstStep(o.op)) /\ UNCHANGED faults
  <2> DEFINE next == FirstStep(o.op)
  <2>1. /\ next \in {"exists", "remove", "read", "readdir"}
        /\ next = "exists" => o.op = "upsert"
        /\ next = "remove" => o.op = "delete"
        /\ next = "read" => o.op = "get"
        /\ next = "readdir" => o.op = "list"
    BY <1>2 DEF FirstStep, Operations
  <2> HIDE DEF next
  <2>2. PICK new : Becomes(c, new, next, o.hit, o.applied, o.saw, o.answer)
    <3>1. next \in Places /\ o.answer \in Answer /\ Goes(c, next)
      BY <1>1, <1>3, <2>1, CallFields DEF Places, next
    <3>2. QED
      BY <3>1, CallFacts, Shapes
  <2>3. SoundCall(new)
    BY <1>2, <2>1, <2>2 DEF SoundCall, FreshCall, Becomes
  <2>4. KeepsInv(c, new)
    BY <1>1, <1>3, <2>1, <2>2, <2>3, CallFacts
    DEF KeepsInv, At, Temp, world, Holding, Becomes
  <2>5. Unseeable(o, new)
    BY <1>1, <1>3, <2>2 DEF Unseeable, Shown, Becomes
  <2>6. QED
    BY <2>2, <2>4, <2>5 DEF StepsAsAllowed, Becomes
<1>4. CASE Fault /\ FailsWith(c)
  BY <1>1, <1>4, FaultEnds DEF At, disk, world, Holding
<1>5. QED
  BY <1>3, <1>4 DEF EnsureStorageDirectory

LEMMA ExistsStep ==
  ASSUME TargetInv, NEW c \in Clients, ProfileFileExists(c)
  PROVE  StepsAsAllowed(c)
<1> DEFINE o == calls[c]
           seen == [o.saw EXCEPT ![o.id] = files[o.id]]
<1>1. /\ o.at = "exists" /\ SoundCall(o) /\ o \in CallRecord
      /\ UNCHANGED <<files, temps, litter, asked, crashes>>
  BY CallFacts DEF ProfileFileExists, At, disk, world
<1>2. /\ FreshCall(o) /\ o.answer = "pending" /\ o.uuid \in 1 .. asked
      /\ o.op = "upsert" /\ o.id \in Ids /\ o.profile \in Profiles
  BY <1>1, CallFields DEF SoundCall
<1>3. CASE /\ calls' = [calls EXCEPT ![c].at = "write",
                                    ![c].saw[Id(c)] = files[Id(c)]]
           /\ UNCHANGED faults
  <2>1. /\ seen \in Saw /\ seen[o.id] = files[o.id] /\ files[o.id] \in Contents
        /\ \A i \in Ids : i # o.id => seen[i] = o.saw[i]
        /\ o.saw[o.id] = Unseen
    <3>1. o.saw \in Saw
      BY <1>1, CallFields
    <3>2. QED
      BY <1>2, <3>1, CallFacts DEF Saw, FreshCall, Nothing
  <2>2. calls' = [calls EXCEPT ![c] =
                    Made(o, "write", o.hit, o.applied, seen, o.answer)]
    BY ZenonT(60), <1>1, <1>3, CallFacts DEF Made, CallRecord, Id
  <2> HIDE DEF seen
  <2>3. PICK new : Becomes(c, new, "write", o.hit, o.applied, seen, o.answer)
    <3>1. /\ o.hit \in BOOLEAN /\ o.applied \in BOOLEAN
          /\ o.answer \in Answer /\ "write" \in Places /\ seen \in Saw
      BY <1>1, <2>1, CallFields DEF Places
    <3>2. calls \in [Clients -> CallRecord]
      BY CallFacts
    <3>3. QED
      BY <2>2, <3>1, <3>2, MadeFields
  <2>4. SoundCall(new)
    BY <1>2, <2>1, <2>3 DEF SoundCall, FreshCall, Becomes
  <2>5. KeepsInv(c, new)
    BY <1>1, <1>3, <2>3, <2>4, CallFacts
    DEF KeepsInv, At, Temp, world, Holding, Becomes
  <2>6. Serves(o, new)
    BY <1>1, <1>2, <1>3, <2>1, <2>3 DEF Serves, Map!Deserved, Becomes
  <2>7. QED
    BY <2>3, <2>5, <2>6 DEF StepsAsAllowed, Becomes
<1>4. CASE Fault /\ FailsWith(c)
  BY <1>1, <1>4, FaultEnds DEF At, disk, world, Holding
<1>5. QED
  BY <1>3, <1>4 DEF ProfileFileExists

-------------------------------------------------------------------------------
\* writeProfileFileAtomic.

LEMMA CreateStep ==
  ASSUME TargetInv, NEW c \in Clients, CreateTemp(c)
  PROVE  StepsAsAllowed(c)
<1> DEFINE o == calls[c]
<1>1. /\ o.at = "write" /\ SoundCall(o) /\ o \in CallRecord
      /\ UNCHANGED <<files, litter, asked, crashes>>
  BY CallFacts DEF CreateTemp, At, world
<1>2. /\ ~ o.applied /\ o.saw[o.id] \in Contents
      /\ o.answer = "pending" /\ o.uuid \in 1 .. asked
      /\ o.op = "upsert" /\ o.id \in Ids /\ o.profile \in Profiles
  BY <1>1 DEF SoundCall
<1>3. CASE /\ Goes(c, "fill")
           /\ temps' = [temps EXCEPT ![Temp(c)] = Damaged]
           /\ UNCHANGED faults
  <2>1. PICK new : Becomes(c, new, "fill", o.hit, o.applied, o.saw, o.answer)
    BY <1>1, <1>3, CallFacts, CallFields, Shapes DEF Places
  <2>2. SoundCall(new)
    BY <1>2, <2>1 DEF SoundCall, FreshCall, Becomes
  <2>3. KeepsInv(c, new)
    BY <1>1, <1>3, <2>1, <2>2, CallFacts
    DEF KeepsInv, At, Temp, world, Holding, Becomes, Contents
  <2>4. Unseeable(o, new)
    BY <1>1, <1>3, <2>1 DEF Unseeable, Shown, Becomes
  <2>5. QED
    BY <2>1, <2>3, <2>4 DEF StepsAsAllowed, Becomes
<1>4. CASE Fault /\ FailsTo(c, "clean up") /\ UNCHANGED temps
  BY <1>1, <1>4, FaultLeadsToCleanUp DEF disk, world
<1>5. QED
  BY <1>3, <1>4 DEF CreateTemp

LEMMA FillStep ==
  ASSUME TargetInv, NEW c \in Clients, FillTemp(c)
  PROVE  StepsAsAllowed(c)
<1> DEFINE o == calls[c]
<1>1. /\ o.at = "fill" /\ SoundCall(o) /\ o \in CallRecord
      /\ UNCHANGED <<files, litter, asked, crashes>>
  BY CallFacts DEF FillTemp, At, world
<1>2. /\ ~ o.applied /\ o.saw[o.id] \in Contents
      /\ o.answer = "pending" /\ o.uuid \in 1 .. asked
      /\ o.op = "upsert" /\ o.id \in Ids /\ o.profile \in Profiles
  BY <1>1 DEF SoundCall
<1>3. CASE /\ Goes(c, "rename")
           /\ temps' = [temps EXCEPT ![Temp(c)] = o.profile]
           /\ UNCHANGED faults
  <2>1. PICK new : Becomes(c, new, "rename", o.hit, o.applied, o.saw, o.answer)
    BY <1>1, <1>3, CallFacts, CallFields, Shapes DEF Places
  <2>2. SoundCall(new)
    BY <1>2, <2>1 DEF SoundCall, FreshCall, Becomes
  <2>3. KeepsInv(c, new)
    BY <1>1, <1>2, <1>3, <2>1, <2>2, CallFacts
    DEF KeepsInv, At, Temp, world, Holding, Becomes, Contents
  <2>4. Unseeable(o, new)
    BY <1>1, <1>3, <2>1 DEF Unseeable, Shown, Becomes
  <2>5. QED
    BY <2>1, <2>3, <2>4 DEF StepsAsAllowed, Becomes
<1>4. CASE Fault /\ FailsTo(c, "clean up") /\ UNCHANGED temps
  BY <1>1, <1>4, FaultLeadsToCleanUp DEF disk, world
<1>5. QED
  BY <1>3, <1>4 DEF FillTemp

\* The rename is the instant at which an upsert takes effect: the temporary
\* file holds the profile the call was given.
LEMMA RenameStep ==
  ASSUME TargetInv, NEW c \in Clients, Rename(c)
  PROVE  StepsAsAllowed(c)
<1> DEFINE o == calls[c]
<1>1. /\ o.at = "rename" /\ SoundCall(o) /\ o \in CallRecord
      /\ UNCHANGED <<litter, asked, crashes>>
  BY CallFacts DEF Rename, At, world
<1>2. /\ ~ o.applied /\ o.saw[o.id] \in Contents
      /\ o.answer = "pending" /\ o.uuid \in 1 .. asked
      /\ o.op = "upsert" /\ o.id \in Ids /\ o.profile \in Profiles
  BY <1>1 DEF SoundCall
<1>3. temps[Temp(c)] = o.profile
  BY <1>1 DEF TargetInv, At
<1>4. CASE /\ calls' = [calls EXCEPT ![c].at = "chmod", ![c].applied = TRUE]
           /\ files' = [files EXCEPT ![Id(c)] = temps[Temp(c)]]
           /\ temps' = [temps EXCEPT ![Temp(c)] = Missing]
           /\ UNCHANGED faults
  <2>1. calls' = [calls EXCEPT ![c] =
                    Made(o, "chmod", o.hit, TRUE, o.saw, o.answer)]
    BY ZenonT(60), <1>1, <1>4, CallFacts DEF Made, CallRecord
  <2>2. PICK new : Becomes(c, new, "chmod", o.hit, TRUE, o.saw, o.answer)
    <3>1. /\ o.hit \in BOOLEAN /\ o.saw \in Saw
          /\ o.answer \in Answer /\ "chmod" \in Places
      BY <1>1, CallFields DEF Places
    <3>2. QED
      BY <2>1, <3>1, CallFacts, MadeFields
  <2>3. SoundCall(new)
    BY <1>2, <2>2 DEF SoundCall, FreshCall, Becomes
  <2>4. files' = [files EXCEPT ![o.id] = o.profile]
    BY <1>3, <1>4 DEF Id
  <2>5. files' \in [Ids -> Contents]
    BY <1>2, <2>4, CallFacts DEF Contents
  <2>6. KeepsInv(c, new)
    BY <1>1, <1>4, <2>2, <2>3, <2>5, CallFacts
    DEF KeepsInv, At, Temp, world, Holding, Becomes, Contents
  <2>7. Puts(o, new)
    BY <1>2, <1>4, <2>2, <2>4 DEF Puts, Shown, Becomes
  <2>8. QED
    BY <2>2, <2>6, <2>7 DEF StepsAsAllowed, Becomes
<1>5. CASE Fault /\ FailsTo(c, "clean up") /\ UNCHANGED <<files, temps>>
  BY <1>1, <1>5, FaultLeadsToCleanUp DEF disk, world
<1>6. QED
  BY <1>4, <1>5 DEF Rename

\* A profile deleted between the rename and the chmod fails the call that put
\* it there: ProfileMap lets a call fail that has already taken effect.
LEMMA ChmodStep ==
  ASSUME TargetInv, NEW c \in Clients, ChmodProfile(c)
  PROVE  StepsAsAllowed(c)
<1> DEFINE o == calls[c]
<1>1. /\ o.at = "chmod" /\ SoundCall(o) /\ o \in CallRecord
      /\ UNCHANGED <<files, temps, litter, asked, crashes>>
  BY CallFacts DEF ChmodProfile, At, disk, world
<1>2. /\ o.applied /\ o.saw[o.id] \in Contents
      /\ o.answer = "pending" /\ o.uuid \in 1 .. asked
      /\ o.op = "upsert" /\ o.id \in Ids /\ o.profile \in Profiles
  BY <1>1 DEF SoundCall
<1>3. CASE Answers(c, Written(o)) /\ UNCHANGED faults
  <2> DEFINE written == Written(o)
  <2>1. /\ written \in {"created", "updated"}
        /\ written = "created" => o.saw[o.id] = Missing
        /\ written = "updated" => o.saw[o.id] \in Profiles \cup {Damaged}
    BY <1>2 DEF Written, Contents
  <2> HIDE DEF written
  <2>2. PICK new : Becomes(c, new, "idle", o.hit, o.applied, o.saw, written)
    <3>1. written \in Answer /\ "idle" \in Places /\ Answers(c, written)
      BY <1>3, <2>1 DEF Answer, Places, written
    <3>2. QED
      BY <3>1, CallFacts, Shapes
  <2>3. SoundCall(new)
    BY <1>2, <2>1, <2>2 DEF SoundCall, FreshCall, Becomes
  <2>4. KeepsInv(c, new)
    BY <1>1, <1>3, <2>2, <2>3, CallFacts
    DEF KeepsInv, At, Temp, world, Holding, Becomes
  <2>5. Serves(o, new)
    BY <1>1, <1>2, <1>3, <2>1, <2>2 DEF Serves, Map!Deserved, Becomes
  <2>6. QED
    BY <2>2, <2>4, <2>5 DEF StepsAsAllowed, Becomes
<1>4. CASE files[Id(c)] = Missing /\ FailsTo(c, "clean up") /\ UNCHANGED faults
  <2>1. PICK new : Becomes(c, new, "clean up", TRUE, o.applied, o.saw, o.answer)
    BY <1>1, <1>4, CallFacts, CallFields, Shapes DEF Places
  <2>2. SoundCall(new)
    BY <1>2, <2>1 DEF SoundCall, FreshCall, Becomes
  <2>3. KeepsInv(c, new)
    BY <1>1, <1>4, <2>1, <2>2, CallFacts
    DEF KeepsInv, At, Temp, world, Holding, Becomes
  <2>4. Serves(o, new)
    BY <1>1, <1>2, <1>4, <2>1 DEF Serves, Map!Deserved, Becomes, Id
  <2>5. QED
    BY <2>1, <2>3, <2>4 DEF StepsAsAllowed, Becomes
<1>5. CASE Fault /\ FailsTo(c, "clean up")
  BY <1>1, <1>5, FaultLeadsToCleanUp DEF disk, world
<1>6. QED
  BY <1>3, <1>4, <1>5 DEF ChmodProfile

\* The catch removes the file, or fails to and leaves it as litter.
LEMMA CleanUpStep ==
  ASSUME TargetInv, NEW c \in Clients, CleanUp(c)
  PROVE  StepsAsAllowed(c)
<1> DEFINE o == calls[c]
<1>1. /\ o.at = "clean up" /\ SoundCall(o) /\ o \in CallRecord
      /\ FailsWith(c)
      /\ UNCHANGED <<files, asked, crashes>>
  BY CallFacts DEF CleanUp, At, world
<1>2. o.hit /\ o.answer = "pending" /\ o.uuid \in 1 .. asked
  BY <1>1 DEF SoundCall
<1>3. PICK new : Becomes(c, new, "idle", TRUE, o.applied, o.saw, "failed")
  BY <1>1, CallFacts, Shapes DEF Places, Answer
<1>4. SoundCall(new)
  BY <1>2, <1>3 DEF SoundCall, FreshCall, Becomes
<1>5. faults' \in {faults, faults - 1} /\ faults' \in Nat
  <2>1. faults' = faults \/ Fault
    BY DEF CleanUp
  <2>2. QED
    BY <2>1, CallFacts, FaultCounts
<1>6. KeepsInv(c, new)
  <2>1. /\ calls' = [calls EXCEPT ![c] = new]
        /\ ~ At(c, "idle") /\ new.uuid = Temp(c) /\ new.at = "idle"
        /\ files' \in [Ids -> Contents] /\ UNCHANGED world
        /\ temps[Temp(c)] \in Contents /\ Missing \in Contents
        /\ [temps EXCEPT ![Temp(c)] = temps[Temp(c)]] = temps
    BY <1>1, <1>3, CallFacts DEF At, Temp, world, Becomes, Contents
  <2>2. CASE /\ temps' = [temps EXCEPT ![Temp(c)] = Missing]
             /\ UNCHANGED <<faults, litter>>
    BY <1>4, <1>5, <2>1, <2>2 DEF KeepsInv
  <2>3. CASE litter' = litter \cup {Temp(c)} /\ UNCHANGED temps
    BY <1>4, <1>5, <2>1, <2>3 DEF KeepsInv
  <2>4. QED
    BY <2>2, <2>3 DEF CleanUp
<1>7. Serves(o, new)
  BY <1>1, <1>2, <1>3, <1>5 DEF Serves, Map!Deserved, Becomes
<1>8. QED
  BY <1>3, <1>6, <1>7 DEF StepsAsAllowed, Becomes

-------------------------------------------------------------------------------
\* deleteProfile, getProfile and listProfiles.

\* Looking at one's id and answering what was found there.
LEMMA SeesStep ==
  ASSUME TargetInv, NEW c \in Clients, NEW answer \in Answer \ {"pending"},
         calls[c].at \in {"remove", "read"},
         SeesAndAnswers(c, answer),
         UNCHANGED <<files, temps, litter, asked, crashes, faults>>,
         \/ answer = "not found" /\ files[Id(c)] = Missing
         \/ answer = "found" /\ files[Id(c)] \in Profiles /\ calls[c].op = "get"
         \/ answer = "failed" /\ files[Id(c)] = Damaged /\ calls[c].op = "get"
  PROVE  StepsAsAllowed(c)
<1> DEFINE o == calls[c]
           seen == [o.saw EXCEPT ![o.id] = files[o.id]]
<1>1. SoundCall(o) /\ o \in CallRecord
  BY CallFacts
<1>2. /\ FreshCall(o) /\ o.answer = "pending" /\ o.uuid \in 1 .. asked
      /\ o.op \in {"get", "delete"} /\ o.id \in Ids
  BY <1>1 DEF SoundCall
<1>3. /\ seen[o.id] = files[o.id]
      /\ \A i \in Ids : i # o.id => seen[i] = o.saw[i]
      /\ o.saw[o.id] = Unseen
  <2>1. o.saw \in Saw
    BY <1>1, CallFields
  <2>2. QED
    BY <1>2, <2>1 DEF Saw, FreshCall, Nothing
<1>4. PICK new : Becomes(c, new, "idle", o.hit, o.applied, seen, answer)
  BY <1>2, CallFacts, Shapes DEF Places
<1> HIDE DEF seen
<1>5. SoundCall(new)
  BY <1>2, <1>4 DEF SoundCall, FreshCall, Becomes
<1>6. KeepsInv(c, new)
  BY <1>1, <1>4, <1>5, CallFacts
  DEF KeepsInv, At, Temp, world, Holding, Becomes
<1>7. new.answer \in Map!Deserved(new)
  BY <1>2, <1>3, <1>4 DEF Map!Deserved, Becomes, Id
<1>8. Serves(o, new)
  BY <1>2, <1>3, <1>4, <1>7 DEF Serves, Becomes
<1>9. QED
  BY <1>4, <1>6, <1>8 DEF StepsAsAllowed, Becomes

LEMMA DeleteStep ==
  ASSUME TargetInv, NEW c \in Clients, DeleteProfile(c)
  PROVE  StepsAsAllowed(c)
<1> DEFINE o == calls[c]
<1>1. /\ o.at = "remove" /\ SoundCall(o) /\ o \in CallRecord
      /\ UNCHANGED <<temps, litter, asked, crashes>>
  BY CallFacts DEF DeleteProfile, At, world
<1>2. /\ FreshCall(o) /\ o.answer = "pending" /\ o.uuid \in 1 .. asked
      /\ o.op = "delete" /\ o.id \in Ids
  BY <1>1 DEF SoundCall
<1>3. CASE /\ files[Id(c)] = Missing
           /\ SeesAndAnswers(c, "not found")
           /\ UNCHANGED <<files, faults>>
  BY <1>1, <1>3, SeesStep DEF Answer
<1>4. CASE /\ files[Id(c)] # Missing
           /\ calls' = [calls EXCEPT ![c].at = "idle", ![c].applied = TRUE,
                                     ![c].answer = "deleted"]
           /\ files' = [files EXCEPT ![Id(c)] = Missing]
           /\ UNCHANGED faults
  <2>1. calls' = [calls EXCEPT ![c] =
                    Made(o, "idle", o.hit, TRUE, o.saw, "deleted")]
    BY ZenonT(60), <1>1, <1>4, CallFacts DEF Made, CallRecord
  <2>2. PICK new : Becomes(c, new, "idle", o.hit, TRUE, o.saw, "deleted")
    <3>1. /\ o.hit \in BOOLEAN /\ o.saw \in Saw
          /\ "deleted" \in Answer /\ "idle" \in Places
      BY <1>1, CallFields DEF Places, Answer
    <3>2. QED
      BY <2>1, <3>1, CallFacts, MadeFields
  <2>3. SoundCall(new)
    BY <1>2, <2>2 DEF SoundCall, FreshCall, Becomes
  <2>4. files' = [files EXCEPT ![o.id] = Missing] /\ files[o.id] # Missing
    BY <1>4 DEF Id
  <2>5. files' \in [Ids -> Contents]
    BY <1>2, <2>4, CallFacts DEF Contents
  <2>6. KeepsInv(c, new)
    BY ZenonT(60), <1>1, <1>4, <2>2, <2>3, <2>5, CallFacts
    DEF KeepsInv, At, Temp, world, Holding, Becomes
  <2>7. Takes(o, new)
    BY <1>2, <1>4, <2>2, <2>4 DEF Takes, Shown, Becomes
  <2>8. QED
    BY <2>2, <2>6, <2>7 DEF StepsAsAllowed, Becomes
<1>5. CASE Fault /\ FailsWith(c) /\ UNCHANGED files
  BY <1>1, <1>5, FaultEnds DEF At, disk, world, Holding
<1>6. QED
  BY <1>3, <1>4, <1>5 DEF DeleteProfile

LEMMA GetStep ==
  ASSUME TargetInv, NEW c \in Clients, GetProfile(c)
  PROVE  StepsAsAllowed(c)
<1> DEFINE o == calls[c]
<1>1. /\ o.at = "read" /\ SoundCall(o) /\ o \in CallRecord
      /\ UNCHANGED <<files, temps, litter, asked, crashes>>
  BY CallFacts DEF GetProfile, At, disk, world
<1>2. o.op = "get"
  BY <1>1 DEF SoundCall
<1>3. CASE /\ files[Id(c)] = Missing /\ SeesAndAnswers(c, "not found")
           /\ UNCHANGED faults
  BY <1>1, <1>3, SeesStep DEF Answer
<1>4. CASE /\ files[Id(c)] = Damaged /\ SeesAndAnswers(c, "failed")
           /\ UNCHANGED faults
  BY <1>1, <1>2, <1>4, SeesStep DEF Answer
<1>5. CASE /\ files[Id(c)] \in Profiles /\ SeesAndAnswers(c, "found")
           /\ UNCHANGED faults
  BY <1>1, <1>2, <1>5, SeesStep DEF Answer
<1>6. CASE Fault /\ FailsWith(c)
  BY <1>1, <1>6, FaultEnds DEF At, disk, world, Holding
<1>7. QED
  BY <1>3, <1>4, <1>5, <1>6 DEF GetProfile

LEMMA ReadDirectoryStep ==
  ASSUME TargetInv, NEW c \in Clients, ReadDirectory(c)
  PROVE  StepsAsAllowed(c)
<1> DEFINE o == calls[c]
           seen == [i \in Ids |-> IF files[i] = Missing THEN Missing ELSE Unseen]
<1>1. /\ o.at = "readdir" /\ SoundCall(o) /\ o \in CallRecord
      /\ UNCHANGED <<files, temps, litter, asked, crashes>>
  BY CallFacts DEF ReadDirectory, At, disk, world
<1>2. /\ FreshCall(o) /\ o.answer = "pending" /\ o.uuid \in 1 .. asked
      /\ o.op = "list"
  BY <1>1 DEF SoundCall
<1>3. CASE /\ calls' = [calls EXCEPT ![c].at = "entries", ![c].saw = seen]
           /\ UNCHANGED faults
  <2>1. /\ seen \in Saw
        /\ \A i \in Ids : o.saw[i] = Unseen /\ seen[i] \in {Unseen, files[i]}
    BY <1>2 DEF Saw, Contents, FreshCall, Nothing
  <2>2. calls' = [calls EXCEPT ![c] =
                    Made(o, "entries", o.hit, o.applied, seen, o.answer)]
    BY ZenonT(60), <1>1, <1>3, CallFacts DEF Made, CallRecord
  <2> HIDE DEF seen
  <2>3. PICK new : Becomes(c, new, "entries", o.hit, o.applied, seen, o.answer)
    <3>1. /\ o.hit \in BOOLEAN /\ o.applied \in BOOLEAN
          /\ o.answer \in Answer /\ "entries" \in Places /\ seen \in Saw
      BY <1>1, <2>1, CallFields DEF Places
    <3>2. calls \in [Clients -> CallRecord]
      BY CallFacts
    <3>3. QED
      BY <2>2, <3>1, <3>2, MadeFields
  <2>4. SoundCall(new)
    BY <1>2, <2>3 DEF SoundCall, FreshCall, Becomes
  <2>5. KeepsInv(c, new)
    BY <1>1, <1>3, <2>3, <2>4, CallFacts
    DEF KeepsInv, At, Temp, world, Holding, Becomes
  <2>6. Serves(o, new)
    BY <1>1, <1>2, <1>3, <2>1, <2>3 DEF Serves, Map!Deserved, Becomes
  <2>7. QED
    BY <2>3, <2>5, <2>6 DEF StepsAsAllowed, Becomes
<1>4. CASE Fault /\ FailsWith(c)
  BY <1>1, <1>4, FaultEnds DEF At, disk, world, Holding
<1>5. QED
  BY <1>3, <1>4 DEF ReadDirectory

LEMMA ReadEntryStep ==
  ASSUME TargetInv, NEW c \in Clients, ReadEntry(c)
  PROVE  StepsAsAllowed(c)
<1> DEFINE o == calls[c]
<1>1. /\ o.at = "entries" /\ SoundCall(o) /\ o \in CallRecord
      /\ UNCHANGED <<files, temps, litter, asked, crashes>>
  BY CallFacts DEF ReadEntry, At, disk, world
<1>2. o.answer = "pending" /\ o.uuid \in 1 .. asked /\ o.op = "list"
  BY <1>1 DEF SoundCall
<1> DEFINE Reads(i, x) ==
             /\ o.saw[i] = Unseen
             /\ calls' = [calls EXCEPT ![c].saw[i] = x]
             /\ \/ x = files[i] /\ UNCHANGED faults
                \/ x = Damaged /\ Fault
<1>3. \E i \in Ids, x \in Contents : Reads(i, x)
  BY CallFacts DEF ReadEntry, Contents
<1>4. PICK i \in Ids, x \in Contents : Reads(i, x)
  BY <1>3
<1> DEFINE seen == [o.saw EXCEPT ![i] = x]
<1>5. /\ seen \in Saw /\ seen[i] = x
      /\ \A j \in Ids : j # i => seen[j] = o.saw[j]
  <2>1. o.saw \in Saw
    BY <1>1, CallFields
  <2>2. QED
    BY <2>1 DEF Saw
<1>6. calls' = [calls EXCEPT ![c] =
                  Made(o, o.at, o.hit, o.applied, seen, o.answer)]
  BY ZenonT(60), <1>1, <1>4, CallFacts DEF Made, CallRecord
<1>7. /\ faults' \in Nat /\ faults' \in {faults, faults - 1}
      /\ x = files[i] \/ (x = Damaged /\ faults' < faults)
  BY <1>4, CallFacts, FaultCounts
<1>8. o.saw[i] = Unseen
  BY <1>4
<1> HIDE DEF seen, Reads
<1>9. PICK new : Becomes(c, new, o.at, o.hit, o.applied, seen, o.answer)
  <2>1. /\ o.hit \in BOOLEAN /\ o.applied \in BOOLEAN
        /\ o.answer \in Answer /\ o.at \in Places /\ seen \in Saw
    BY <1>1, <1>5, CallFields
  <2>2. calls \in [Clients -> CallRecord]
    BY CallFacts
  <2>3. QED
    BY <1>6, <2>1, <2>2, MadeFields
<1>10. SoundCall(new)
  BY <1>1, <1>2, <1>9 DEF SoundCall, FreshCall, Becomes
<1>11. KeepsInv(c, new)
  BY <1>1, <1>7, <1>9, <1>10, CallFacts
  DEF KeepsInv, At, Temp, world, Holding, Becomes
<1>12. \A j \in Ids :
          \/ new.saw[j] = o.saw[j]
          \/ o.saw[j] = Unseen /\ new.saw[j] = files[j]
          \/ o.saw[j] = Unseen /\ new.saw[j] = Damaged /\ faults' < faults
  BY <1>5, <1>7, <1>8, <1>9 DEF Becomes
<1>13. Serves(o, new)
  BY <1>1, <1>2, <1>7, <1>9, <1>12 DEF Serves, Map!Deserved, Becomes
<1>14. QED
  BY <1>9, <1>11, <1>13 DEF StepsAsAllowed, Becomes

LEMMA ListStep ==
  ASSUME TargetInv, NEW c \in Clients, ListIsComplete(c)
  PROVE  StepsAsAllowed(c)
<1> DEFINE o == calls[c]
<1>1. /\ o.at = "entries" /\ SoundCall(o) /\ o \in CallRecord
      /\ UNCHANGED <<files, temps, litter, asked, crashes, faults>>
      /\ \A i \in Ids : o.saw[i] # Unseen
      /\ Answers(c, "listed")
  BY CallFacts DEF ListIsComplete, At, disk, world
<1>2. o.answer = "pending" /\ o.uuid \in 1 .. asked /\ o.op = "list"
  BY <1>1 DEF SoundCall
<1>3. PICK new : Becomes(c, new, "idle", o.hit, o.applied, o.saw, "listed")
  BY <1>1, CallFacts, Shapes DEF Places, Answer
<1>4. SoundCall(new)
  BY <1>2, <1>3 DEF SoundCall, FreshCall, Becomes
<1>5. KeepsInv(c, new)
  BY <1>1, <1>3, <1>4, CallFacts
  DEF KeepsInv, At, Temp, world, Holding, Becomes
<1>6. Serves(o, new)
  BY <1>1, <1>2, <1>3 DEF Serves, Map!Deserved, Becomes
<1>7. QED
  BY <1>3, <1>5, <1>6 DEF StepsAsAllowed, Becomes

LEMMA StepAllowed ==
  ASSUME TargetInv, NEW c \in Clients, Step(c)
  PROVE  StepsAsAllowed(c)
  BY ValidateStep, EnsureStep, ExistsStep, CreateStep, FillStep, RenameStep,
     ChmodStep, CleanUpStep, DeleteStep, GetStep, ReadDirectoryStep,
     ReadEntryStep, ListStep DEF Step

-------------------------------------------------------------------------------
(***************************************************************************)
(* Part 4: the invariant.                                                  *)
(***************************************************************************)

LEMMA NoCallRecord == NoCall \in CallRecord
<1>1. 0 \in 0 .. MaxCalls
  BY TargetAssumption
<1>2. QED
  BY <1>1 DEF NoCall, CallRecord, Operations, Places, Answer, Nothing

LEMMA TargetInit == Init => TargetInv
<1> SUFFICES ASSUME Init
             PROVE  TargetInv
  OBVIOUS
<1>1. NoCall \in CallRecord
  BY NoCallRecord
<1>2. \A c \in Clients : calls[c] = NoCall
  BY DEF Init
<1>3. SoundCall(NoCall)
  BY <1>1 DEF SoundCall, NoCall
<1>4. \A c \in Clients : SoundCall(calls[c])
  BY <1>2, <1>3
<1>5. \A c \in Clients : calls[c].at = "idle"
  BY <1>2 DEF NoCall
<1>6. calls \in [Clients -> CallRecord]
  BY <1>1 DEF Init
<1>7. /\ files \in [Ids -> Contents]
      /\ temps \in [1 .. MaxCalls -> Contents]
      /\ asked \in 0 .. MaxCalls /\ faults \in Nat /\ crashes \in Nat
      /\ litter \subseteq 1 .. MaxCalls
  BY TargetAssumption DEF Init, Contents
<1>8. QED
  BY <1>4, <1>5, <1>6, <1>7 DEF TargetInv, At

\* A step of a call: the other calls and their temporary files are left alone.
LEMMA KeepsInvSound ==
  ASSUME TargetInv, NEW c \in Clients, NEW new \in CallRecord,
         KeepsInv(c, new), new.profile = calls[c].profile
  PROVE  TargetInv'
<1> PICK x \in Contents :
          /\ temps' = [temps EXCEPT ![Temp(c)] = x]
          /\ new.at = "rename" => x = new.profile
  BY DEF KeepsInv
<1>1. /\ calls \in [Clients -> CallRecord]
      /\ calls' = [calls EXCEPT ![c] = new]
      /\ asked' = asked /\ crashes' = crashes
      /\ new.uuid = calls[c].uuid /\ ~ At(c, "idle")
      /\ SoundCall(new)
  BY DEF KeepsInv, TargetInv, world, Temp
<1>2. /\ calls' \in [Clients -> CallRecord]
      /\ calls'[c] = new
      /\ \A d \in Clients : d # c => calls'[d] = calls[d]
  BY <1>1
<1>3. Temp(c) \in 1 .. MaxCalls
  BY <1>1, CallFacts
<1>4. \A d \in Clients : SoundCall(calls'[d])
  BY <1>1, <1>2 DEF TargetInv
<1>5. \A d \in Clients : SoundCall(calls[d])'
  BY ZenonT(60), <1>1, <1>4 DEF SoundCall
<1>6. /\ files' \in [Ids -> Contents]
      /\ temps' \in [1 .. MaxCalls -> Contents]
      /\ asked' \in 0 .. MaxCalls /\ faults' \in Nat /\ crashes' \in Nat
      /\ litter' \subseteq 1 .. MaxCalls
  BY <1>1, <1>3 DEF TargetInv, KeepsInv
<1>7. \A d, e \in Clients :
          d # e /\ ~ At(d, "idle")' /\ ~ At(e, "idle")' => Temp(d)' # Temp(e)'
  <2>1. \A d \in Clients : Temp(d)' = Temp(d)
    BY <1>1, <1>2 DEF Temp
  <2>2. \A d \in Clients : ~ At(d, "idle")' => ~ At(d, "idle")
    BY <1>1, <1>2 DEF At
  <2>3. QED
    BY <2>1, <2>2 DEF TargetInv
<1>8. ASSUME NEW d \in Clients, At(d, "rename")'
      PROVE  temps'[Temp(d)'] = calls'[d].profile
  <2>1. CASE d = c
    BY <1>1, <1>2, <1>3, <1>8, <2>1 DEF At, Temp, TargetInv
  <2>2. CASE d # c
    <3>1. /\ calls'[d] = calls[d] /\ At(d, "rename") /\ ~ At(d, "idle")
          /\ Temp(d)' = Temp(d)
      BY <1>2, <1>8, <2>2 DEF At, Temp
    <3>2. Temp(d) # Temp(c) /\ temps[Temp(d)] = calls[d].profile
      BY <1>1, <2>2, <3>1 DEF TargetInv
    <3>3. Temp(d) \in 1 .. MaxCalls
      BY <3>1, CallFacts
    <3>4. temps'[Temp(d)] = temps[Temp(d)]
      BY <3>2, <3>3 DEF TargetInv
    <3>5. QED
      BY <3>1, <3>2, <3>4
  <2>3. QED
    BY <2>1, <2>2
<1>9. QED
  BY <1>2, <1>5, <1>6, <1>7, <1>8 DEF TargetInv

\* A request of a client draws a new uuid; a refused one draws none.
LEMMA AskKeepsInv ==
  ASSUME TargetInv, NEW c \in Clients, NEW new \in CallRecord,
         At(c, "idle"), asked < MaxCalls,
         calls' = [calls EXCEPT ![c] = new],
         asked' = asked + 1,
         SoundCall(new)',
         new.at # "rename",
         new.at # "idle" => new.uuid = asked + 1,
         UNCHANGED <<disk, faults, crashes>>
  PROVE  TargetInv'
<1>1. /\ calls \in [Clients -> CallRecord]
      /\ asked \in Nat /\ asked' \in 0 .. MaxCalls
      /\ UNCHANGED <<files, temps, litter, faults, crashes>>
  BY TargetAssumption DEF TargetInv, disk
<1>2. /\ calls' \in [Clients -> CallRecord]
      /\ calls'[c] = new
      /\ \A d \in Clients : d # c => calls'[d] = calls[d]
  BY <1>1
<1>3. \A d \in Clients : d # c => SoundCall(calls[d])'
  <2>1. \A u : u \in 1 .. asked => u \in 1 .. asked'
    BY <1>1
  <2>2. QED
    BY ZenonT(60), <1>2, <2>1 DEF TargetInv, SoundCall
<1>4. \A d \in Clients : SoundCall(calls[d])'
  BY <1>2, <1>3
<1>5. \A d \in Clients :
          d # c /\ ~ At(d, "idle")' => ~ At(d, "idle") /\ Temp(d)' = Temp(d)
                                       /\ Temp(d) \in 1 .. asked
  BY <1>2 DEF At, Temp, TargetInv, SoundCall
<1>6. ~ At(c, "idle")' => Temp(c)' = asked + 1
  BY <1>2 DEF At, Temp
<1>7. \A d, e \in Clients :
          d # e /\ ~ At(d, "idle")' /\ ~ At(e, "idle")' => Temp(d)' # Temp(e)'
  <2>1. asked + 1 \notin 1 .. asked
    BY <1>1
  <2>2. QED
    BY <1>5, <1>6, <2>1 DEF TargetInv
<1>8. \A d \in Clients : At(d, "rename")' => temps'[Temp(d)'] = calls'[d].profile
  BY <1>1, <1>2 DEF At, Temp, TargetInv
<1>9. QED
  BY <1>1, <1>2, <1>4, <1>7, <1>8 DEF TargetInv

\* The record of a new request.
Asks(c, new) ==
    /\ new \in CallRecord
    /\ calls' = [calls EXCEPT ![c] = new]
    /\ SoundCall(new)'
    /\ FreshCall(new) /\ new.answer \in {"pending", "invalid"}
    /\ new.at # "rename"
    /\ new.at # "idle" => new.uuid = asked + 1

LEMMA AskInvalidAsks ==
  ASSUME TargetInv, NEW c \in Clients, NEW op \in Operations, AskInvalid(c, op)
  PROVE  \E new : Asks(c, new)
<1> DEFINE new == [NoCall EXCEPT !.op = op, !.answer = "invalid"]
<1>1. new \in CallRecord
  <2>1. 0 \in 0 .. MaxCalls
    BY TargetAssumption
  <2>2. NoCall \in CallRecord
    BY <2>1 DEF NoCall, CallRecord, Operations, Places, Answer, Nothing
  <2>3. QED
    BY <2>2 DEF CallRecord, Answer
<1>2. /\ new.at = "idle" /\ new.answer = "invalid" /\ FreshCall(new)
      /\ calls' = [calls EXCEPT ![c] = new]
  BY DEF NoCall, FreshCall, AskInvalid
<1> HIDE DEF new
<1>3. SoundCall(new)'
  BY <1>1, <1>2 DEF SoundCall
<1>4. Asks(c, new)
  BY <1>1, <1>2, <1>3 DEF Asks
<1>5. QED
  BY <1>4

LEMMA AskAsks ==
  ASSUME TargetInv, NEW c \in Clients, NEW op \in Operations, NEW id, NEW profile,
         Ask(c, op, id, profile),
         IF op = "list" THEN id = Unseen ELSE id \in Ids,
         IF op = "upsert" THEN profile \in Profiles ELSE profile = Unseen
  PROVE  \E new : Asks(c, new)
<1>1. PICK place \in {"key", "prepare"} :
          /\ place = "key" => op = "upsert"
          /\ calls' = [calls EXCEPT ![c] =
                [NoCall EXCEPT !.op = op, !.id = id, !.profile = profile,
                               !.answer = "pending", !.at = place,
                               !.uuid = asked + 1]]
  BY DEF Ask
<1>2. asked \in Nat /\ asked + 1 \in 1 .. MaxCalls /\ asked' = asked + 1
  BY TargetAssumption DEF TargetInv, Ask
<1>3. id \in Ids \cup {Unseen} /\ profile \in Profiles \cup {Unseen}
  OBVIOUS
<1>4. \E new :
          /\ calls' = [calls EXCEPT ![c] = new]
          /\ new \in CallRecord
          /\ new.op = op /\ new.id = id /\ new.profile = profile
          /\ new.at = place /\ new.answer = "pending" /\ new.uuid = asked + 1
          /\ FreshCall(new)
  <2> DEFINE u == asked + 1
             new == [NoCall EXCEPT !.op = op, !.id = id, !.profile = profile,
                                   !.answer = "pending", !.at = place, !.uuid = u]
  <2>1. u \in 0 .. MaxCalls
    BY <1>2
  <2>2. calls' = [calls EXCEPT ![c] = new]
    BY <1>1
  <2>3. u = asked + 1
    OBVIOUS
  <2> HIDE DEF u
  <2>4. new \in CallRecord
    BY <1>3, <2>1
    DEF NoCall, CallRecord, Places, Answer, Nothing
  <2>5. /\ new.op = op /\ new.id = id /\ new.profile = profile
        /\ new.at = place /\ new.answer = "pending" /\ new.uuid = u
        /\ FreshCall(new)
    BY DEF NoCall, FreshCall
  <2> HIDE DEF new
  <2>6. QED
    BY <2>2, <2>3, <2>4, <2>5
<1>5. PICK new :
          /\ calls' = [calls EXCEPT ![c] = new]
          /\ new \in CallRecord
          /\ new.op = op /\ new.id = id /\ new.profile = profile
          /\ new.at = place /\ new.answer = "pending" /\ new.uuid = asked + 1
          /\ FreshCall(new)
  BY <1>4
<1>7. SoundCall(new)'
  <2>1. new.uuid \in 1 .. asked' /\ new.at # "idle"
    BY <1>1, <1>2, <1>5
  <2>2. /\ op # "list" => new.id \in Ids
        /\ op = "upsert" => new.profile \in Profiles
    BY <1>5
  <2>3. QED
    BY <1>1, <1>5, <2>1, <2>2 DEF SoundCall
<1>8. Asks(c, new)
  BY <1>1, <1>5, <1>7 DEF Asks
<1>9. QED
  BY <1>8

\* A crash: no call is left in progress.
LEMMA CrashKeepsInv ==
  ASSUME TargetInv, Crash
  PROVE  /\ TargetInv'
         /\ \A c \in Clients : At(c, "idle")'
         /\ \A c \in Clients :
                calls'[c] = IF calls[c].answer = "pending"
                            THEN Made(calls[c], "idle", calls[c].hit,
                                      calls[c].applied, calls[c].saw, "none")
                            ELSE calls[c]
<1>1. \A c \in Clients :
          /\ calls[c] \in CallRecord /\ SoundCall(calls[c])
          /\ calls'[c] = IF calls[c].answer = "pending"
                         THEN [calls[c] EXCEPT !.at = "idle", !.answer = "none"]
                         ELSE calls[c]
  BY DEF Crash, TargetInv
<1>2. \A call \in CallRecord :
          [call EXCEPT !.at = "idle", !.answer = "none"] =
              Made(call, "idle", call.hit, call.applied, call.saw, "none")
  BY DEF Made, CallRecord
<1>3. ASSUME NEW c \in Clients
      PROVE  /\ calls'[c] \in CallRecord
             /\ calls'[c].at = "idle" /\ calls'[c].answer # "pending"
  <2>1. CASE calls[c].answer = "pending"
    <3> DEFINE o == calls[c]
    <3>1. o \in CallRecord /\ "idle" \in Places /\ "none" \in Answer
      BY <1>1 DEF Places, Answer
    <3>2. calls'[c] = [o EXCEPT !.at = "idle", !.answer = "none"]
      BY <1>1, <2>1
    <3> HIDE DEF o
    <3>3. QED
      BY <3>1, <3>2 DEF CallRecord
  <2>2. CASE calls[c].answer # "pending"
    BY <1>1, <2>2 DEF SoundCall
  <2>3. QED
    BY <2>1, <2>2
<1>4. calls' \in [Clients -> CallRecord]
  BY <1>3 DEF Crash
<1>5. \A c \in Clients : SoundCall(calls[c])' /\ At(c, "idle")'
  BY <1>3 DEF SoundCall, At
<1>6. /\ UNCHANGED <<files, temps, asked, faults>>
      /\ crashes' \in Nat
      /\ litter' \subseteq 1 .. MaxCalls
  <2>1. crashes \in Nat /\ crashes > 0 /\ crashes' = crashes - 1
    BY DEF Crash, TargetInv
  <2>2. litter' \subseteq 1 .. MaxCalls
    BY DEF Crash, TargetInv
  <2>3. UNCHANGED <<files, temps, asked, faults>>
    BY DEF Crash
  <2>4. crashes' \in Nat
    BY <2>1
  <2>5. QED
    BY <2>2, <2>3, <2>4
<1>7. TargetInv'
  BY <1>4, <1>5, <1>6 DEF TargetInv, At
<1>8. QED
  BY <1>1, <1>2, <1>5, <1>7

\* What the request of a client does, accepted or refused.
Requests(c) ==
    /\ At(c, "idle") /\ asked < MaxCalls /\ asked' = asked + 1
    /\ UNCHANGED <<disk, faults, crashes>>
    /\ \E new : Asks(c, new)

LEMMA NextCases ==
  ASSUME TargetInv, Next
  PROVE  \/ \E c \in Clients : Requests(c)
         \/ \E c \in Clients : StepsAsAllowed(c)
         \/ Crash
<1>1. ASSUME NEW c \in Clients, NEW op \in Operations, AskInvalid(c, op)
      PROVE  Requests(c)
  <2>1. \E new : Asks(c, new)
    BY <1>1, AskInvalidAsks
  <2>2. QED
    BY <1>1, <2>1 DEF Requests, AskInvalid
<1>2. ASSUME NEW c \in Clients, NEW op \in Operations, NEW id, NEW profile,
             Ask(c, op, id, profile),
             IF op = "list" THEN id = Unseen ELSE id \in Ids,
             IF op = "upsert" THEN profile \in Profiles ELSE profile = Unseen
      PROVE  Requests(c)
  <2>1. \E new : Asks(c, new)
    BY <1>2, AskAsks
  <2>2. QED
    BY <1>2, <2>1 DEF Requests, Ask
<1>3. ASSUME NEW c \in Clients, NEW id \in Ids,
             \/ \E profile \in Profiles : Ask(c, "upsert", id, profile)
             \/ Ask(c, "delete", id, Unseen)
             \/ Ask(c, "get", id, Unseen)
      PROVE  Requests(c)
  BY <1>2, <1>3 DEF Operations
<1>4. ASSUME NEW c \in Clients, Ask(c, "list", Unseen, Unseen)
      PROVE  Requests(c)
  BY <1>2, <1>4 DEF Operations
<1>5. QED
  BY <1>1, <1>3, <1>4, StepAllowed DEF Next

LEMMA TargetNext == TargetInv /\ [Next]_vars => TargetInv'
<1> SUFFICES ASSUME TargetInv, [Next]_vars
             PROVE  TargetInv'
  OBVIOUS
<1>1. CASE UNCHANGED vars
  BY ZenonT(60), <1>1 DEF vars, TargetInv, SoundCall, At, Temp
<1>2. ASSUME NEW c \in Clients, Requests(c)
      PROVE  TargetInv'
  <2>1. PICK new : Asks(c, new)
    BY <1>2 DEF Requests
  <2>2. QED
    BY <1>2, <2>1, AskKeepsInv DEF Requests, Asks
<1>3. ASSUME NEW c \in Clients, StepsAsAllowed(c)
      PROVE  TargetInv'
  BY <1>3, KeepsInvSound DEF StepsAsAllowed
<1>4. CASE Crash
  BY <1>4, CrashKeepsInv
<1>5. QED
  BY <1>1, <1>2, <1>3, <1>4, NextCases

\* A call stands where its operation takes it, and no other call writes the
\* temporary file it writes: whatever the interleaving of the awaits, and
\* whatever fails or crashes.
THEOREM TargetInvariant == Spec => []TargetInv
  BY TargetInit, TargetNext, PTL DEF Spec

-------------------------------------------------------------------------------
(***************************************************************************)
(* Part 5: a temporary file belongs to a write.                            *)
(***************************************************************************)

\* The write that the temporary file u belongs to.
Owns(c, u) == Temp(c) = u /\ calls[c].at \in Holding

\* A step of c leaves the temporary files of the others alone, and its own
\* belongs to it, is gone, or is accounted for.
LEMMA StepKeepsOwner ==
  ASSUME TargetInv, TempsBelongToWrites, NEW c \in Clients,
         NEW new \in CallRecord, KeepsInv(c, new)
  PROVE  TempsBelongToWrites'
<1> SUFFICES ASSUME NEW u \in DOMAIN temps', u \notin litter', temps'[u] # Missing
             PROVE  \E d \in Clients : Owns(d, u)'
  BY DEF TempsBelongToWrites, Owns, Temp, Holding
<1> PICK x \in Contents :
          /\ temps' = [temps EXCEPT ![Temp(c)] = x]
          /\ x # Missing /\ calls[c].at \in Holding /\ new.at \notin Holding
                => Temp(c) \in litter'
          /\ x # Missing /\ x # temps[Temp(c)] => new.at \in Holding
  BY DEF KeepsInv
<1>1. /\ calls \in [Clients -> CallRecord]
      /\ calls' = [calls EXCEPT ![c] = new]
      /\ new.uuid = Temp(c) /\ ~ At(c, "idle")
      /\ litter' \in {litter, litter \cup {Temp(c)}}
      /\ temps \in [1 .. MaxCalls -> Contents]
  BY DEF KeepsInv, TargetInv
<1>2. /\ u \in DOMAIN temps /\ u \notin litter
      /\ calls'[c] = new
      /\ \A d \in Clients : d # c => calls'[d] = calls[d]
  BY <1>1
<1>3. CASE u = Temp(c)
  <2>1. Temp(c)' = u
    BY <1>1, <1>2, <1>3 DEF Temp
  <2>2. temps'[u] = x /\ x # Missing
    BY <1>2, <1>3
  <2>3. CASE x # temps[u]
    <3>1. new.at \in Holding
      BY <1>3, <2>2, <2>3
    <3>2. QED
      BY <1>2, <2>1, <3>1 DEF Owns
  <2>4. CASE x = temps[u]
    <3>1. PICK d \in Clients : Owns(d, u)
      BY <1>2, <2>2, <2>4 DEF TempsBelongToWrites, Owns, Temp, Holding
    <3>2. d = c
      BY <1>1, <1>3, <3>1 DEF TargetInv, Owns, At, Holding
    <3>3. new.at \in Holding
      BY <1>3, <2>2, <3>1, <3>2 DEF Owns
    <3>4. QED
      BY <1>2, <2>1, <3>3 DEF Owns
  <2>5. QED
    BY <2>3, <2>4
<1>4. CASE u # Temp(c)
  <2>1. temps[u] # Missing
    BY <1>2, <1>4
  <2>2. PICK d \in Clients : Owns(d, u)
    BY <1>2, <2>1 DEF TempsBelongToWrites, Owns, Temp, Holding
  <2>3. Owns(d, u)'
    BY <1>2, <1>4, <2>2 DEF Owns, Temp
  <2>4. QED
    BY <2>3
<1>5. QED
  BY <1>3, <1>4

LEMMA TempsNext ==
  TargetInv /\ TempsBelongToWrites /\ [Next]_vars => TempsBelongToWrites'
<1> SUFFICES ASSUME TargetInv, TempsBelongToWrites, [Next]_vars
             PROVE  TempsBelongToWrites'
  OBVIOUS
<1>1. CASE UNCHANGED vars
  BY <1>1 DEF vars, TempsBelongToWrites
<1>2. ASSUME NEW c \in Clients, Requests(c)
      PROVE  TempsBelongToWrites'
  <2>1. PICK new : calls' = [calls EXCEPT ![c] = new]
    BY <1>2 DEF Requests, Asks
  <2>2. temps' = temps /\ litter' = litter /\ calls[c].at = "idle"
    BY <1>2 DEF Requests, disk, At
  <2>3. \A d \in Clients : d # c => calls'[d] = calls[d]
    BY <2>1 DEF TargetInv
  <2>4. ASSUME NEW u \in DOMAIN temps', u \notin litter', temps'[u] # Missing
        PROVE  \E d \in Clients : Owns(d, u)'
    <3>1. u \in DOMAIN temps \ litter /\ temps[u] # Missing
      BY <2>2, <2>4
    <3>2. PICK d \in Clients : Owns(d, u)
      BY <3>1 DEF TempsBelongToWrites, Owns, Temp, Holding
    <3>3. d # c /\ calls'[d] = calls[d]
      BY <2>2, <2>3, <3>2 DEF Owns, Holding
    <3>4. QED
      BY <3>2, <3>3 DEF Owns, Temp
  <2>5. QED
    BY <2>4 DEF TempsBelongToWrites, Owns, Temp, Holding
<1>3. ASSUME NEW c \in Clients, StepsAsAllowed(c)
      PROVE  TempsBelongToWrites'
  BY <1>3, StepKeepsOwner DEF StepsAsAllowed
<1>4. CASE Crash
  BY <1>4 DEF Crash, TempsBelongToWrites
<1>5. QED
  BY <1>1, <1>2, <1>3, <1>4, NextCases

\* agent-os/standards/server/ssh-target-profiles.md, line 9: "cleanup temp
\* files on failure".  Whichever write fails at whichever of its steps, while
\* others go on: what it leaves in the directory is its own, and it is still
\* there to remove it, unless the process dies or the removal itself fails.
THEOREM TempsHaveAnOwner == Spec => []TempsBelongToWrites
<1>1. Init => TempsBelongToWrites
  BY DEF Init, TempsBelongToWrites
<1>2. QED
  BY <1>1, TempsNext, TargetInvariant, PTL DEF Spec

-------------------------------------------------------------------------------
(***************************************************************************)
(* Part 6: the directory implements ProfileMap.                            *)
(***************************************************************************)

\* What ProfileMap sees of a call, and of all of them.
View(call) == [f \in DOMAIN call \ {"at", "uuid"} |-> call[f]]

Viewed == [c \in Clients |-> View(calls[c])]

LEMMA ViewFields ==
  ASSUME NEW call \in CallRecord
  PROVE  /\ DOMAIN View(call) = Shown
         /\ \A f \in Shown : View(call)[f] = call[f]
         /\ View(call) = [f \in Shown |-> View(call)[f]]
         /\ View(call) = [op |-> call.op, id |-> call.id,
                          profile |-> call.profile, hit |-> call.hit,
                          applied |-> call.applied, saw |-> call.saw,
                          answer |-> call.answer]
<1>1. DOMAIN call = Shown \cup {"at", "uuid"}
  BY DEF CallRecord, Shown
<1>2. DOMAIN call \ {"at", "uuid"} = Shown
  BY <1>1 DEF Shown
<1>3. View(call) = [f \in Shown |-> call[f]]
  BY <1>2 DEF View
<1>4. [f \in Shown |-> call[f]]
          = [op |-> call.op, id |-> call.id, profile |-> call.profile,
             hit |-> call.hit, applied |-> call.applied, saw |-> call.saw,
             answer |-> call.answer]
  BY DEF Shown
<1>5. QED
  BY <1>3, <1>4

\* The view of a call is a call of the map.
LEMMA ViewIsCall ==
  ASSUME NEW call \in CallRecord
  PROVE  View(call) \in Map!Call
<1>1. /\ call.op \in {"upsert", "delete", "get", "list"}
      /\ call.id \in Ids \cup {Unseen}
      /\ call.profile \in Profiles \cup {Unseen}
      /\ call.hit \in BOOLEAN /\ call.applied \in BOOLEAN
      /\ call.saw \in [Ids -> Map!Contents \cup {Unseen}]
      /\ call.answer \in Answer
  BY CallFields DEF Operations, Saw, Contents, Map!Contents
<1>2. [op |-> call.op, id |-> call.id, profile |-> call.profile,
       hit |-> call.hit, applied |-> call.applied, saw |-> call.saw,
       answer |-> call.answer] \in Map!Call
  BY <1>1 DEF Map!Call, Answer
<1>3. QED
  BY <1>2, ViewFields

\* Two calls with the same shown fields look the same.
LEMMA SameView ==
  ASSUME NEW old \in CallRecord, NEW new \in CallRecord,
         \A f \in Shown : new[f] = old[f]
  PROVE  View(new) = View(old)
  BY ViewFields DEF Shown

\* A step of one call changes the view of that call only.
LEMMA ViewedStep ==
  ASSUME calls \in [Clients -> CallRecord], NEW c \in Clients,
         NEW new \in CallRecord, calls' = [calls EXCEPT ![c] = new]
  PROVE  /\ Viewed[c] = View(calls[c]) /\ Viewed'[c] = View(new)
         /\ Viewed' = [Viewed EXCEPT ![c] = View(new)]
<1>1. \A d \in Clients : calls'[d] = IF d = c THEN new ELSE calls[d]
  OBVIOUS
<1>2. Viewed' = [d \in Clients |-> View(calls'[d])]
  BY DEF Viewed, View
<1>3. QED
  BY <1>1, <1>2 DEF Viewed

\* The actions of the map, said of the views.
LEMMA MapStepsOfViews ==
  ASSUME NEW c \in Clients, NEW old, NEW new,
         Viewed[c] = old, Viewed'[c] = new,
         Viewed' = [Viewed EXCEPT ![c] = new]
  PROVE  /\ (/\ old.answer # "pending" /\ new \in Map!Call
             /\ Map!Fresh(new) /\ new.answer \in {"pending", "invalid"}
             /\ UNCHANGED <<files, faults>>)
                => Map!Ask(c)
         /\ (/\ old.answer = "pending"
             /\ new.op = old.op /\ new.id = old.id /\ new.profile = old.profile
             /\ Serves(old, new))
                => Map!Serve(c)
         /\ (/\ old.answer = "pending" /\ Puts(old, new)
             /\ new = [old EXCEPT !.applied = TRUE])
                => Map!Put(c)
         /\ (/\ old.answer = "pending" /\ Takes(old, new)
             /\ new = [old EXCEPT !.applied = TRUE, !.answer = "deleted"])
                => Map!Take(c)
<1>1. Map!OnlyCall(c)
  BY DEF Map!OnlyCall, Viewed, View
<1>2. Map!Pending(c) <=> old.answer = "pending"
  BY DEF Map!Pending, Viewed, View
<1>3. ASSUME old.answer # "pending", new \in Map!Call,
             Map!Fresh(new), new.answer \in {"pending", "invalid"},
             UNCHANGED <<files, faults>>
      PROVE  Map!Ask(c)
  BY <1>1, <1>2, <1>3 DEF Map!Ask, Viewed, View
<1>4. ASSUME old.answer = "pending", new.op = old.op, new.id = old.id,
             new.profile = old.profile, Serves(old, new)
      PROVE  Map!Serve(c)
  BY <1>1, <1>2, <1>4 DEF Map!Serve, Map!SameRequest, Serves, Viewed, View
<1>5. ASSUME old.answer = "pending", Puts(old, new),
             new = [old EXCEPT !.applied = TRUE]
      PROVE  Map!Put(c)
  BY <1>1, <1>2, <1>5 DEF Map!Put, Puts, Viewed, View
<1>6. ASSUME old.answer = "pending", Takes(old, new),
             new = [old EXCEPT !.applied = TRUE, !.answer = "deleted"]
      PROVE  Map!Take(c)
  <2>1. Viewed = [d \in Clients |-> Viewed[d]]
    BY DEF Viewed
  <2>2. Viewed' = [Viewed EXCEPT ![c].applied = TRUE, ![c].answer = "deleted"]
    BY <1>6, <2>1
  <2>3. QED
    BY <1>1, <1>2, <1>6, <2>2 DEF Map!Take, Takes, Viewed, View
<1>7. QED
  BY <1>3, <1>4, <1>5, <1>6

LEMMA MapInitHolds == Init => Map!MapInit
<1> SUFFICES ASSUME Init
             PROVE  Map!MapInit
  OBVIOUS
<1>1. NoCall \in CallRecord /\ (\A c \in Clients : calls[c] = NoCall)
  BY NoCallRecord DEF Init
<1>2. View(NoCall).hit = FALSE /\ View(NoCall).applied = FALSE
      /\ View(NoCall).saw = Nothing /\ View(NoCall).answer = "none"
  BY DEF NoCall, View
<1>3. Viewed = [c \in Clients |-> View(NoCall)]
  BY <1>1 DEF Viewed
<1>4. \A c \in Clients : View(calls[c]) \in Map!Call
  BY TargetInit, ViewIsCall DEF TargetInv
<1>5. Viewed \in [Clients -> Map!Call]
  BY <1>4 DEF Viewed
<1>6. \A c \in Clients : Map!Fresh(Viewed[c]) /\ Viewed[c].answer = "none"
  BY <1>2, <1>3 DEF Map!Fresh, Map!Nothing, Nothing
<1>7. files \in [Ids -> Map!Contents] /\ faults \in Nat
  BY TargetInit DEF TargetInv, Contents, Map!Contents
<1>8. QED
  BY <1>5, <1>6, <1>7 DEF Map!MapInit, Viewed, View

\* A request is the map's Ask.
LEMMA RequestIsAsk ==
  ASSUME TargetInv, NEW c \in Clients, Requests(c)
  PROVE  Map!Ask(c)
<1>1. PICK new : Asks(c, new)
  BY DEF Requests
<1>2. /\ calls \in [Clients -> CallRecord] /\ calls[c] \in CallRecord
      /\ new \in CallRecord /\ calls' = [calls EXCEPT ![c] = new]
  BY <1>1, CallFacts DEF Asks
<1>3. /\ Viewed[c] = View(calls[c]) /\ Viewed'[c] = View(new)
      /\ Viewed' = [Viewed EXCEPT ![c] = View(new)]
  BY <1>2, ViewedStep
<1>4. View(calls[c]).answer # "pending"
  <2>1. calls[c].answer # "pending"
    BY CallFacts DEF Requests, At, SoundCall
  <2>2. QED
    BY <1>2, <2>1, ViewFields DEF Shown
<1>5. View(new) \in Map!Call
  BY <1>2, ViewIsCall
<1>6. Map!Fresh(View(new)) /\ View(new).answer \in {"pending", "invalid"}
  <2>1. FreshCall(new) /\ new.answer \in {"pending", "invalid"}
    BY <1>1 DEF Asks
  <2>2. QED
    BY <1>2, <2>1, ViewFields
    DEF Shown, FreshCall, Map!Fresh, Map!Nothing, Nothing
<1>7. UNCHANGED <<files, faults>>
  BY DEF Requests, disk
<1>8. QED
  BY <1>3, <1>4, <1>5, <1>6, <1>7, MapStepsOfViews

\* What putting a profile does to the fields of a view.
LEMMA OneField ==
  ASSUME NEW r, NEW s, r = [f \in Shown |-> r[f]], s = [f \in Shown |-> s[f]],
         s["applied"] = TRUE,
         \A f \in Shown \ {"applied"} : s[f] = r[f]
  PROVE  s = [r EXCEPT !.applied = TRUE]
<1>1. s = [f \in Shown |-> IF f = "applied" THEN TRUE ELSE r[f]]
  OBVIOUS
<1>2. QED
  BY <1>1 DEF Shown

\* What taking a profile does to the fields of a view.
LEMMA TwoFields ==
  ASSUME NEW r, NEW s, r = [f \in Shown |-> r[f]], s = [f \in Shown |-> s[f]],
         s["applied"] = TRUE, s["answer"] = "deleted",
         \A f \in Shown \ {"applied", "answer"} : s[f] = r[f]
  PROVE  s = [r EXCEPT !.applied = TRUE, !.answer = "deleted"]
<1>1. s = [f \in Shown |-> IF f = "applied" THEN TRUE
                           ELSE IF f = "answer" THEN "deleted" ELSE r[f]]
  OBVIOUS
<1>2. QED
  BY <1>1 DEF Shown

\* A call deserves the same answers as its view.
LEMMA DeservedOfView ==
  ASSUME NEW call \in CallRecord, NEW a \in Map!Deserved(call)
  PROVE  a \in Map!Deserved(View(call))
<1> DEFINE v == View(call)
<1>1. /\ v.op = call.op /\ v.id = call.id /\ v.profile = call.profile
      /\ v.hit = call.hit /\ v.applied = call.applied /\ v.saw = call.saw
  BY ViewFields DEF Shown
<1> HIDE DEF v
<1>2. Map!Fresh(call) => Map!Fresh(v)
  BY <1>1 DEF Map!Fresh
<1>3. a \in Map!Deserved(v)
  BY ZenonT(60), <1>1, <1>2 DEF Map!Deserved
<1>4. QED
  BY <1>3 DEF v

\* A step of a call is Serve, Put or Take of the map, or is not seen.
LEMMA StepIsServed ==
  ASSUME TargetInv, NEW c \in Clients, StepsAsAllowed(c)
  PROVE  \/ Map!Serve(c) \/ Map!Put(c) \/ Map!Take(c)
         \/ UNCHANGED <<files, Viewed, faults>>
<1>1. PICK new \in CallRecord :
          /\ KeepsInv(c, new)
          /\ new.op = calls[c].op /\ new.id = calls[c].id
          /\ new.profile = calls[c].profile
          /\ \/ Unseeable(calls[c], new)
             \/ Serves(calls[c], new)
             \/ Puts(calls[c], new)
             \/ Takes(calls[c], new)
  BY DEF StepsAsAllowed
<1> DEFINE o == calls[c]
<1>2. /\ calls \in [Clients -> CallRecord] /\ o \in CallRecord
      /\ calls' = [calls EXCEPT ![c] = new]
  BY <1>1, CallFacts DEF KeepsInv
<1>3. /\ Viewed[c] = View(o) /\ Viewed'[c] = View(new)
      /\ Viewed' = [Viewed EXCEPT ![c] = View(new)]
  BY <1>2, ViewedStep
<1>4. View(o).answer = "pending"
  <2>1. o.answer = "pending"
    BY <1>1, CallFacts DEF KeepsInv, At, SoundCall
  <2>2. QED
    BY <1>2, <2>1, ViewFields DEF Shown
<1>5. \A f \in Shown : View(o)[f] = o[f] /\ View(new)[f] = new[f]
  BY <1>2, ViewFields
<1>6. CASE Unseeable(o, new)
  <2>1. View(new) = View(o)
    BY <1>2, <1>6, SameView DEF Unseeable
  <2>2. Viewed' = Viewed
    BY <1>3, <2>1 DEF Viewed
  <2>3. QED
    BY <1>6, <2>2 DEF Unseeable
<1>7. CASE Serves(o, new)
  <2>1. new.answer \in Map!Deserved(View(new))
    BY <1>2, <1>7, DeservedOfView DEF Serves
  <2>2. Serves(View(o), View(new))
    BY <1>5, <1>7, <2>1 DEF Serves, Shown
  <2>3. /\ View(new).op = View(o).op /\ View(new).id = View(o).id
        /\ View(new).profile = View(o).profile
    BY <1>1, <1>5 DEF Shown
  <2>4. QED
    BY <1>3, <1>4, <2>2, <2>3, MapStepsOfViews
<1>8. CASE Puts(o, new)
  <2>1. Puts(View(o), View(new))
    BY <1>5, <1>8 DEF Puts, Shown
  <2>2. View(new) = [View(o) EXCEPT !.applied = TRUE]
    <3>1. new.applied = TRUE
      BY <1>1, <1>8, CallFields DEF Puts
    <3>2. /\ View(o) = [f \in Shown |-> View(o)[f]]
          /\ View(new) = [f \in Shown |-> View(new)[f]]
      BY <1>2, ViewFields
    <3>3. /\ View(new)["applied"] = TRUE
          /\ \A f \in Shown \ {"applied"} : View(new)[f] = View(o)[f]
      BY <1>5, <1>8, <3>1 DEF Puts, Shown
    <3>4. QED
      BY <3>2, <3>3, OneField
  <2>3. QED
    BY <1>3, <1>4, <2>1, <2>2, MapStepsOfViews
<1>9. CASE Takes(o, new)
  <2>1. Takes(View(o), View(new))
    BY <1>5, <1>9 DEF Takes, Shown
  <2>2. View(new) = [View(o) EXCEPT !.applied = TRUE, !.answer = "deleted"]
    <3>1. new.applied = TRUE
      BY <1>1, <1>9, CallFields DEF Takes
    <3>2. new.answer = "deleted"
      BY <1>9 DEF Takes
    <3>3. /\ View(o) = [f \in Shown |-> View(o)[f]]
          /\ View(new) = [f \in Shown |-> View(new)[f]]
      BY <1>2, ViewFields
    <3>4. /\ View(new)["applied"] = TRUE /\ View(new)["answer"] = "deleted"
          /\ \A f \in Shown \ {"applied", "answer"} : View(new)[f] = View(o)[f]
      BY <1>5, <1>9, <3>1, <3>2 DEF Takes, Shown
    <3>5. QED
      BY <3>3, <3>4, TwoFields
  <2>3. QED
    BY <1>3, <1>4, <2>1, <2>2, MapStepsOfViews
<1>10. QED
  BY <1>1, <1>6, <1>7, <1>8, <1>9

\* A crash is the map's crash.
LEMMA CrashIsCrash ==
  ASSUME TargetInv, Crash
  PROVE  Map!Crash
<1>1. \A c \in Clients :
          /\ calls[c] \in CallRecord /\ calls'[c] \in CallRecord
          /\ calls'[c] = IF calls[c].answer = "pending"
                         THEN Made(calls[c], "idle", calls[c].hit,
                                   calls[c].applied, calls[c].saw, "none")
                         ELSE calls[c]
  BY CrashKeepsInv DEF TargetInv
<1>2. ASSUME NEW c \in Clients, calls[c].answer = "pending"
      PROVE  View(calls'[c]) = [View(calls[c]) EXCEPT !.answer = "none"]
  <2> DEFINE o == calls[c]
             new == calls'[c]
  <2>1. o \in CallRecord /\ new \in CallRecord
    BY <1>1
  <2>2. new = Made(o, "idle", o.hit, o.applied, o.saw, "none")
    BY <1>1, <1>2
  <2>3. \A f \in Shown : View(o)[f] = o[f] /\ View(new)[f] = new[f]
    BY <2>1, ViewFields
  <2>4. /\ View(o) = [f \in Shown |-> View(o)[f]]
        /\ View(new) = [f \in Shown |-> View(new)[f]]
    BY <2>1, ViewFields
  <2> HIDE DEF o, new
  <2>5. \A f \in Shown : new[f] = IF f = "answer" THEN "none" ELSE o[f]
    BY <2>1, <2>2 DEF Made, Shown, CallRecord
  <2>6. View(new) = [f \in Shown |-> IF f = "answer" THEN "none" ELSE View(o)[f]]
    BY <2>3, <2>4, <2>5
  <2>7. View(new) = [View(o) EXCEPT !.answer = "none"]
    BY <2>4, <2>6 DEF Shown
  <2>8. QED
    BY <2>7 DEF o, new
<1>3. \A c \in Clients :
          /\ Viewed[c] = View(calls[c])
          /\ Map!Pending(c) <=> Viewed[c].answer = "pending"
          /\ View(calls[c]).answer = calls[c].answer
  BY <1>1, ViewFields DEF Viewed, Map!Pending, View, Shown
<1>4. Viewed' = [c \in Clients |-> View(calls'[c])]
  BY DEF Viewed, View
<1>5. Viewed' = [c \in Clients |-> IF Map!Pending(c)
                                   THEN [Viewed[c] EXCEPT !.answer = "none"]
                                   ELSE Viewed[c]]
  BY <1>1, <1>2, <1>3, <1>4
<1>6. UNCHANGED <<files, faults>>
  BY DEF Crash
<1>7. QED
  BY <1>5, <1>6 DEF Map!Crash, Viewed, View

LEMMA NextIsMapNext ==
  TargetInv /\ [Next]_vars => [Map!MapNext]_(Map!mapVars)
<1> SUFFICES ASSUME TargetInv, [Next]_vars
             PROVE  Map!MapNext \/ UNCHANGED <<files, Viewed, faults>>
  BY DEF Map!mapVars, Viewed, View
<1>1. CASE UNCHANGED vars
  <2>1. files' = files /\ faults' = faults /\ calls' = calls
    BY <1>1 DEF vars
  <2>2. Viewed' = Viewed
    BY <2>1 DEF Viewed, View
  <2>3. QED
    BY <2>1, <2>2
<1>2. ASSUME NEW c \in Clients, Requests(c)
      PROVE  Map!MapNext
  BY <1>2, RequestIsAsk DEF Map!MapNext
<1>3. ASSUME NEW c \in Clients, StepsAsAllowed(c)
      PROVE  Map!MapNext \/ UNCHANGED <<files, Viewed, faults>>
  BY <1>3, StepIsServed DEF Map!MapNext
<1>4. CASE Crash
  BY <1>4, CrashIsCrash DEF Map!MapNext
<1>5. QED
  BY <1>1, <1>2, <1>3, <1>4, NextCases

\* What the callers of /targets are promised: the directory of files is one
\* map.  Every answer is one that the map deserved at some instant between
\* the request and the answer, however the awaits of an upsert, a delete and
\* a list interleave, and an error or a crash changes the map either as
\* asked or not at all.
THEOREM DirectoryIsAMap == Spec => ImplementsProfileMap
<1>1. Init => Map!MapInit
  BY MapInitHolds
<1>2. TargetInv /\ [Next]_vars => [Map!MapNext]_(Map!mapVars)
  BY NextIsMapNext
<1>3. QED
  BY <1>1, <1>2, TargetInvariant, PTL DEF Spec, ImplementsProfileMap, Map!MapSpec

===============================================================================
