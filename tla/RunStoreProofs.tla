---------------------------- MODULE RunStoreProofs ----------------------------
(***************************************************************************)
(* Proofs about RunStore and the event streams over it (RunEventStream),   *)
(* for every number of runs, cases, failure codes and streams, for every   *)
(* length of the event log and every limit and retention.  Parts 1 to 7    *)
(* are about the store alone, under any caller; parts 8 to 13 about the    *)
(* streams, whose steps are those of the store and their own.              *)
(***************************************************************************)
EXTENDS RunEventStream, RunRecordsProofs, FiniteSetTheorems, SequenceTheorems,
        TLAPS

-------------------------------------------------------------------------------
(***************************************************************************)
(* Part 1: what the methods do to one run.                                 *)
(***************************************************************************)

\* What holds of every run the store keeps: its type, a result exactly when it
\* has ended, which is the snapshot of what the record still is, and counters
\* that count its outcomes.
SoundRun(run) ==
    /\ run \in RunRecord
    /\ run.result = IF IsRunStatusTerminal(run.status)
                    THEN BuildRunResult(run)
                    ELSE NoResult
    /\ run.completedCases = CountOutcomes(run, "completed")
    /\ run.failedCases = CountOutcomes(run, "failed")
    /\ run.completedCases + run.failedCases <= run.totalCases

LEMMA EmitSound ==
  ASSUME NEW run, SoundRun(run),
         NEW name \in EventNames,
         NEW c \in CaseIds \cup {NoCase}
  PROVE  /\ SoundRun(EmitRunEvent(run, name, c))
         /\ EmitRunEvent(run, name, c).status = run.status
<1> DEFINE new == EmitRunEvent(run, name, c)
<1>1. run \in RunRecord
  BY DEF SoundRun
<1>2. /\ new \in RunRecord
      /\ new.status = run.status
      /\ new.caseOutcomes = run.caseOutcomes
      /\ new.result = run.result
      /\ BuildProgress(new) = BuildProgress(run)
      /\ BuildRunResult(new) = BuildRunResult(run)
  BY <1>1, EmitFrame
<1> HIDE DEF new
<1>3. /\ new.totalCases = run.totalCases
      /\ new.completedCases = run.completedCases
      /\ new.failedCases = run.failedCases
  BY <1>2 DEF BuildProgress
<1>4. SoundRun(new)
  BY <1>2, <1>3 DEF SoundRun, CountOutcomes
<1>5. QED
  BY <1>2, <1>4 DEF new

\* Counting outcomes: none at first, and one more for the outcome appended.
LEMMA CountType ==
  ASSUME NEW run \in RunRecord, NEW status
  PROVE  /\ IsFiniteSet({i \in DOMAIN run.caseOutcomes :
                            run.caseOutcomes[i].status = status})
         /\ CountOutcomes(run, status) \in Nat
<1> DEFINE S == {i \in DOMAIN run.caseOutcomes :
                    run.caseOutcomes[i].status = status}
<1>1. S \subseteq 1 .. Len(run.caseOutcomes) /\ Len(run.caseOutcomes) \in Nat
  BY DEF RunRecord
<1>2. IsFiniteSet(S)
  BY <1>1, FS_Interval, FS_Subset
<1>3. QED
  BY <1>2, FS_CardinalityType DEF CountOutcomes

LEMMA CountPushed ==
  ASSUME NEW run \in RunRecord,
         NEW c \in CaseIds,
         NEW outcome \in {"completed", "failed"},
         NEW status
  PROVE  CountOutcomes(PushOutcome(run, c, outcome), status) =
            CountOutcomes(run, status) + IF outcome = status THEN 1 ELSE 0
<1> DEFINE s == run.caseOutcomes
           o == [caseId |-> c, status |-> outcome]
           t == Append(s, o)
           S == {i \in DOMAIN s : s[i].status = status}
           T == {i \in DOMAIN t : t[i].status = status}
<1>1. s \in Seq(CaseOutcome) /\ o \in CaseOutcome
  BY DEF RunRecord, CaseOutcome
<1>2. /\ Len(s) \in Nat
      /\ DOMAIN s = 1 .. Len(s)
      /\ DOMAIN t = 1 .. Len(s) + 1
      /\ t[Len(s) + 1] = o
      /\ \A i \in 1 .. Len(s) : t[i] = s[i]
  BY <1>1
<1>3. /\ CountOutcomes(PushOutcome(run, c, outcome), status) = Cardinality(T)
      /\ CountOutcomes(run, status) = Cardinality(S)
  <2>1. PushOutcome(run, c, outcome).caseOutcomes = t
    BY DEF PushOutcome, RunRecord
  <2>2. QED
    BY <2>1 DEF CountOutcomes
<1>4. IsFiniteSet(S) /\ Cardinality(S) \in Nat
  BY CountType DEF CountOutcomes
<1>5. Len(s) + 1 \notin S
  BY <1>2
<1>6. CASE outcome = status
  <2>1. T = S \cup {Len(s) + 1}
    BY <1>2, <1>6
  <2>2. Cardinality(T) = Cardinality(S) + 1
    BY <2>1, <1>4, <1>5, FS_AddElement
  <2>3. QED
    BY <2>2, <1>3, <1>6
<1>7. CASE outcome # status
  <2>1. T = S
    BY <1>2, <1>7
  <2> HIDE DEF S, T
  <2>2. Cardinality(T) = Cardinality(S)
    BY <2>1
  <2>3. QED
    BY <2>2, <1>3, <1>4, <1>7
<1>8. QED
  BY <1>6, <1>7

-------------------------------------------------------------------------------
(***************************************************************************)
(* Part 2: each method keeps a sound run sound, and moves its status only  *)
(* forward.                                                                *)
(***************************************************************************)

LEMMA QueuedSound ==
  ASSUME NEW n \in Nat
  PROVE  SoundRun(QueuedRun(n)) /\ QueuedRun(n).status = "queued"
<1> DEFINE q == [NoRun EXCEPT !.status = "queued", !.totalCases = n]
<1>1. q \in RunRecord
  BY NoRunType DEF NoRun, RunRecord
<1>2. /\ q.status = "queued" /\ q.result = NoResult /\ q.caseOutcomes = <<>>
      /\ q.completedCases = 0 /\ q.failedCases = 0 /\ q.totalCases = n
  BY DEF NoRun
<1> HIDE DEF q
<1>3. \A status : CountOutcomes(q, status) = 0
  BY <1>2, FS_EmptySet DEF CountOutcomes
<1>4. SoundRun(q)
  BY <1>1, <1>2, <1>3 DEF SoundRun, IsRunStatusTerminal, Terminal
<1>5. SoundRun(EmitRunEvent(q, "run.created", NoCase))
      /\ EmitRunEvent(q, "run.created", NoCase).status = "queued"
  BY <1>2, <1>4, EmitSound DEF EventNames
<1>6. QED
  BY <1>5 DEF QueuedRun, q

LEMMA MarkRunningSound ==
  ASSUME NEW run, SoundRun(run), NEW at \in Int
  PROVE  /\ SoundRun(MarkRunRunning(run, at))
         /\ \/ MarkRunRunning(run, at) = run
            \/ run.status = "queued" /\ MarkRunRunning(run, at).status = "running"
<1>1. CASE run.status # "queued"
  BY <1>1 DEF MarkRunRunning
<1>2. CASE run.status = "queued"
  <2> DEFINE new == TransitionRunStatus(run, "running", at)
  <2>1. run \in RunRecord
    BY DEF SoundRun
  <2>2. /\ new \in RunRecord /\ new.status = "running"
        /\ new.result = run.result /\ new.caseOutcomes = run.caseOutcomes
        /\ new.completedCases = run.completedCases
        /\ new.failedCases = run.failedCases
        /\ new.totalCases = run.totalCases
    BY <1>2, <2>1 DEF TransitionRunStatus, RunRecord, IsRunStatusTerminal,
                      Terminal
  <2> HIDE DEF new
  <2>3. SoundRun(new)
    BY <1>2, <2>2 DEF SoundRun, IsRunStatusTerminal, Terminal, CountOutcomes
  <2>4. SoundRun(EmitRunEvent(new, "run.started", NoCase))
        /\ EmitRunEvent(new, "run.started", NoCase).status = "running"
    BY <2>2, <2>3, EmitSound DEF EventNames
  <2>5. QED
    BY <1>2, <2>4 DEF MarkRunRunning, new
<1>3. QED
  BY <1>1, <1>2

LEMMA CaseStartedSound ==
  ASSUME NEW run, SoundRun(run), NEW c \in CaseIds
  PROVE  /\ SoundRun(RecordCaseStarted(run, c))
         /\ RecordCaseStarted(run, c).status = run.status
         /\ run.status # "running" => RecordCaseStarted(run, c) = run
  BY EmitSound DEF RecordCaseStarted, EventNames

\* Recording an outcome: one more outcome, one more on its counter, and a
\* total that is no less than both counters together.
LEMMA OutcomeSound ==
  ASSUME NEW run, SoundRun(run), run.status = "running",
         NEW c \in CaseIds
  PROVE  /\ SoundRun(RecordCompletedCaseOutcome(run, c))
         /\ RecordCompletedCaseOutcome(run, c).status = "running"
         /\ SoundRun(RecordFailedCaseOutcome(run, c))
         /\ RecordFailedCaseOutcome(run, c).status = "running"
<1>1. run \in RunRecord /\ run.result = NoResult
  BY DEF SoundRun, IsRunStatusTerminal, Terminal
<1>2. ASSUME NEW outcome \in {"completed", "failed"}
      PROVE  LET new == PushOutcome(run, c, outcome)
             IN  /\ new \in RunRecord
                 /\ new.status = "running"
                 /\ new.result = NoResult
                 /\ new.completedCases = run.completedCases
                 /\ new.failedCases = run.failedCases
                 /\ \A status : CountOutcomes(new, status) =
                        CountOutcomes(run, status)
                            + IF outcome = status THEN 1 ELSE 0
  <2>1. [caseId |-> c, status |-> outcome] \in CaseOutcome
    BY DEF CaseOutcome
  <2>2. Append(run.caseOutcomes, [caseId |-> c, status |-> outcome])
            \in Seq(CaseOutcome)
    BY <1>1, <2>1 DEF RunRecord
  <2>3. /\ PushOutcome(run, c, outcome) \in RunRecord
        /\ PushOutcome(run, c, outcome).status = "running"
        /\ PushOutcome(run, c, outcome).result = NoResult
        /\ PushOutcome(run, c, outcome).completedCases = run.completedCases
        /\ PushOutcome(run, c, outcome).failedCases = run.failedCases
    BY <1>1, <2>2 DEF PushOutcome, RunRecord
  <2>4. QED
    BY <1>1, <2>3, CountPushed
<1>3. /\ CountOutcomes(run, "completed") = run.completedCases
      /\ CountOutcomes(run, "failed") = run.failedCases
      /\ run.completedCases \in Nat /\ run.failedCases \in Nat
  BY <1>1 DEF SoundRun, RunRecord
<1>4. ASSUME NEW new \in RunRecord,
             new.status = "running", new.result = NoResult,
             new.completedCases = CountOutcomes(new, "completed"),
             new.failedCases = CountOutcomes(new, "failed")
      PROVE  /\ SoundRun(ReconcileTotalCases(new))
             /\ ReconcileTotalCases(new).status = "running"
  <2> DEFINE r == ReconcileTotalCases(new)
  <2>1. /\ r \in RunRecord /\ r.status = new.status /\ r.result = new.result
        /\ r.caseOutcomes = new.caseOutcomes
        /\ r.completedCases = new.completedCases
        /\ r.failedCases = new.failedCases
        /\ r.completedCases + r.failedCases <= r.totalCases
    BY <1>4, ReconciledTotal
  <2> HIDE DEF r
  <2>2. SoundRun(r)
    BY <2>1, <1>4 DEF SoundRun, CountOutcomes, IsRunStatusTerminal, Terminal
  <2>3. QED
    BY <2>1, <2>2, <1>4 DEF r
<1>5. /\ SoundRun(RecordCompletedCaseOutcome(run, c))
      /\ RecordCompletedCaseOutcome(run, c).status = "running"
  <2> DEFINE pushed == PushOutcome(run, c, "completed")
             new == [pushed EXCEPT !.completedCases = @ + 1]
  <2>1. /\ pushed \in RunRecord /\ pushed.status = "running"
        /\ pushed.result = NoResult
        /\ pushed.completedCases = run.completedCases
        /\ pushed.failedCases = run.failedCases
        /\ CountOutcomes(pushed, "completed") = run.completedCases + 1
        /\ CountOutcomes(pushed, "failed") = run.failedCases
    BY <1>2, <1>3
  <2> HIDE DEF pushed
  <2>2. /\ new \in RunRecord /\ new.status = "running" /\ new.result = NoResult
        /\ new.caseOutcomes = pushed.caseOutcomes
        /\ new.completedCases = run.completedCases + 1
        /\ new.failedCases = run.failedCases
    BY <2>1, RaisedCounter
  <2> HIDE DEF new
  <2>3. /\ new.completedCases = CountOutcomes(new, "completed")
        /\ new.failedCases = CountOutcomes(new, "failed")
    BY <2>1, <2>2 DEF CountOutcomes
  <2>4. QED
    BY <1>4, <2>2, <2>3 DEF RecordCompletedCaseOutcome, new, pushed
<1>6. /\ SoundRun(RecordFailedCaseOutcome(run, c))
      /\ RecordFailedCaseOutcome(run, c).status = "running"
  <2> DEFINE pushed == PushOutcome(run, c, "failed")
             new == [pushed EXCEPT !.failedCases = @ + 1]
  <2>1. /\ pushed \in RunRecord /\ pushed.status = "running"
        /\ pushed.result = NoResult
        /\ pushed.completedCases = run.completedCases
        /\ pushed.failedCases = run.failedCases
        /\ CountOutcomes(pushed, "completed") = run.completedCases
        /\ CountOutcomes(pushed, "failed") = run.failedCases + 1
    BY <1>2, <1>3
  <2> HIDE DEF pushed
  <2>2. /\ new \in RunRecord /\ new.status = "running" /\ new.result = NoResult
        /\ new.caseOutcomes = pushed.caseOutcomes
        /\ new.completedCases = run.completedCases
        /\ new.failedCases = run.failedCases + 1
    BY <2>1, RaisedCounter
  <2> HIDE DEF new
  <2>3. /\ new.completedCases = CountOutcomes(new, "completed")
        /\ new.failedCases = CountOutcomes(new, "failed")
    BY <2>1, <2>2 DEF CountOutcomes
  <2>4. QED
    BY <1>4, <2>2, <2>3 DEF RecordFailedCaseOutcome, new, pushed
<1>7. QED
  BY <1>5, <1>6

LEMMA CaseOutcomeSound ==
  ASSUME NEW run, SoundRun(run), NEW c \in CaseIds
  PROVE  /\ SoundRun(RecordCaseCompleted(run, c))
         /\ RecordCaseCompleted(run, c).status = run.status
         /\ run.status # "running" => RecordCaseCompleted(run, c) = run
         /\ SoundRun(RecordCaseFailed(run, c))
         /\ RecordCaseFailed(run, c).status = run.status
         /\ run.status # "running" => RecordCaseFailed(run, c) = run
<1>1. CASE run.status # "running"
  BY <1>1 DEF RecordCaseCompleted, RecordCaseFailed
<1>2. CASE run.status = "running"
  <2>1. /\ SoundRun(RecordCompletedCaseOutcome(run, c))
        /\ RecordCompletedCaseOutcome(run, c).status = "running"
        /\ SoundRun(RecordFailedCaseOutcome(run, c))
        /\ RecordFailedCaseOutcome(run, c).status = "running"
    BY <1>2, OutcomeSound
  <2>2. QED
    BY ZenonT(60), <1>2, <2>1, EmitSound DEF RecordCaseCompleted, RecordCaseFailed,
                                 EventNames
<1>3. QED
  BY <1>1, <1>2

\* The three endings: the run becomes terminal and its result is the snapshot.
LEMMA FinishSound ==
  ASSUME NEW run, SoundRun(run), run.status \in {"queued", "running"},
         NEW status \in Terminal,
         NEW at \in Int,
         NEW event \in EventNames,
         NEW code \in FailureCodes \cup {NoFailure}
  PROVE  LET new == Finish([run EXCEPT !.failure = code], status, at, event)
         IN  SoundRun(new) /\ new.status = status
<1> DEFINE old == [run EXCEPT !.failure = code]
           final == TransitionRunStatus(old, status, at)
           ended == [final EXCEPT !.result = BuildRunResult(final)]
<1>1. run \in RunRecord
  BY DEF SoundRun
<1>2. /\ old \in RunRecord /\ old.status = run.status
      /\ old.caseOutcomes = run.caseOutcomes
      /\ BuildProgress(old) = BuildProgress(run)
  BY <1>1 DEF RunRecord, BuildProgress
<1> HIDE DEF old
<1>3. /\ final \in RunRecord /\ final.status = status
      /\ final.caseOutcomes = run.caseOutcomes
      /\ BuildProgress(final) = BuildProgress(run)
  BY <1>2 DEF TransitionRunStatus, RunRecord, BuildProgress,
              IsRunStatusTerminal, Terminal
<1> HIDE DEF final
<1>4. BuildRunResult(final) \in RunResult
  BY <1>3, ProgressType DEF BuildRunResult, RunResult, RunRecord
<1>5. /\ ended \in RunRecord /\ ended.status = status
      /\ ended.caseOutcomes = run.caseOutcomes
      /\ BuildProgress(ended) = BuildProgress(run)
      /\ ended.result = BuildRunResult(final)
      /\ BuildRunResult(ended) = BuildRunResult(final)
  BY <1>3, <1>4 DEF RunRecord, BuildProgress, BuildRunResult
<1> HIDE DEF ended
<1>6. /\ ended.totalCases = run.totalCases
      /\ ended.completedCases = run.completedCases
      /\ ended.failedCases = run.failedCases
  BY <1>5 DEF BuildProgress
<1>7. SoundRun(ended)
  BY <1>5, <1>6 DEF SoundRun, CountOutcomes, IsRunStatusTerminal
<1>8. SoundRun(EmitRunEvent(ended, event, NoCase))
      /\ EmitRunEvent(ended, event, NoCase).status = status
  BY <1>5, <1>7, EmitSound
<1>9. QED
  BY <1>8 DEF Finish, ended, final, old

\* A call either leaves the run as it was or ends a run that was active.
Ends(run, new) ==
    \/ new = run
    \/ run.status \in {"queued", "running"} /\ new.status \in Terminal

LEMMA EndingsSound ==
  ASSUME NEW run, SoundRun(run), NEW at \in Int
  PROVE  /\ SoundRun(CompleteRun(run, at)) /\ Ends(run, CompleteRun(run, at))
         /\ SoundRun(CancelRun(run, at)) /\ Ends(run, CancelRun(run, at))
         /\ \A code \in FailureCodes :
               SoundRun(FailRun(run, at, code)) /\ Ends(run, FailRun(run, at, code))
<1>1. CASE run.status \notin {"queued", "running"}
  BY <1>1 DEF CompleteRun, FailRun, CancelRun, IsRunStatusCancellable, Ends
<1>2. CASE run.status \in {"queued", "running"}
  <2>1. run \in RunRecord /\ run.failure \in FailureCodes \cup {NoFailure}
    BY DEF SoundRun, RunRecord
  <2>2. run = [run EXCEPT !.failure = run.failure]
    BY <2>1 DEF RunRecord
  <2>3. /\ SoundRun(Finish(run, "completed", at, "run.completed"))
        /\ Finish(run, "completed", at, "run.completed").status = "completed"
    BY <1>2, <2>1, <2>2, FinishSound DEF Terminal, EventNames
  <2>4. /\ SoundRun(Finish(run, "cancelled", at, "run.cancelled"))
        /\ Finish(run, "cancelled", at, "run.cancelled").status = "cancelled"
    BY <1>2, <2>1, <2>2, FinishSound DEF Terminal, EventNames
  <2>5. \A code \in FailureCodes :
            LET new == Finish([run EXCEPT !.failure = code], "failed", at,
                              "run.failed")
            IN  SoundRun(new) /\ new.status = "failed"
    BY <1>2, FinishSound DEF Terminal, EventNames
  <2>6. QED
    BY <1>2, <2>3, <2>4, <2>5
    DEF CompleteRun, FailRun, CancelRun, IsRunStatusCancellable, Ends, Terminal
<1>3. QED
  BY <1>1, <1>2

-------------------------------------------------------------------------------
(***************************************************************************)
(* Part 3: the invariant of the store.                                     *)
(***************************************************************************)

\* Every run is sound, runs beyond the last one created have no entry, and at
\* most one run is active.
StoreInv ==
    /\ runs \in [RunIds -> RunRecord]
    /\ created \in 0 .. MaxRuns
    /\ clock \in 0 .. MaxClock
    /\ \A r \in RunIds : SoundRun(runs[r])
    /\ \A r \in RunIds : r > created => runs[r] = NoRun
    /\ AtMostOneActiveRun

LEMMA NoRunSound == SoundRun(NoRun) /\ NoRun.status = "untracked"
<1>1. \A status : CountOutcomes(NoRun, status) = 0
  BY FS_EmptySet DEF CountOutcomes, NoRun
<1>2. QED
  BY <1>1, NoRunType DEF SoundRun, NoRun, IsRunStatusTerminal, Terminal

LEMMA InitInv == Init => StoreInv
  BY NoRunSound, NoRunType, RunStoreAssumption
  DEF Init, StoreInv, AtMostOneActiveRun, Tracked

LEMMA DroppedEnded ==
  ASSUME StoreInv, NEW now
  PROVE  /\ Dropped(now) \subseteq TerminalRuns
         /\ WithoutDropped(now) \in [RunIds -> RunRecord]
  BY NoRunType
  DEF StoreInv, Dropped, Expired, Evicted, TerminalRuns, WithoutDropped

\* One run replaced by what a method made of it.
LEMMA UpdateInv ==
  ASSUME StoreInv, NEW r \in Tracked, NEW new, Update(r, new),
         SoundRun(new),
         new.status # "untracked",
         IsRunStatusCancellable(new.status)
            => IsRunStatusCancellable(runs[r].status)
  PROVE  StoreInv'
<1>1. r \in RunIds /\ r <= created /\ new \in RunRecord
  <2>1. NoRun.status = "untracked"
    BY NoRunSound
  <2>2. QED
    BY <2>1 DEF Tracked, StoreInv, SoundRun, RunIds
<1>2. /\ runs' = [runs EXCEPT ![r] = new]
      /\ created' = created /\ clock' = clock
  BY DEF Update
<1>3. \A q \in RunIds : runs'[q] = IF q = r THEN new ELSE runs[q]
  BY <1>1, <1>2 DEF StoreInv
<1>4. /\ runs' \in [RunIds -> RunRecord]
      /\ created' \in 0 .. MaxRuns
      /\ clock' \in 0 .. MaxClock
  BY <1>1, <1>2 DEF StoreInv
<1>5. \A q \in RunIds : SoundRun(runs'[q])
  BY <1>3 DEF StoreInv
<1>6. \A q \in RunIds : q > created' => runs'[q] = NoRun
  BY <1>1, <1>2, <1>3 DEF StoreInv, RunIds
<1>7. AtMostOneActiveRun'
  BY <1>3 DEF StoreInv, AtMostOneActiveRun, Tracked
<1>8. QED
  BY <1>4, <1>5, <1>6, <1>7 DEF StoreInv, SoundRun, CountOutcomes

\* Dropping runs that have ended, as ensureCapacity does.
LEMMA WithoutDroppedSound ==
  ASSUME StoreInv
  PROVE  \A r \in RunIds :
            /\ SoundRun(WithoutDropped(clock)[r])
            /\ WithoutDropped(clock)[r] \in {runs[r], NoRun}
            /\ WithoutDropped(clock)[r] # runs[r] => r \in TerminalRuns
            /\ r > created => WithoutDropped(clock)[r] = NoRun
  BY NoRunSound, DroppedEnded DEF StoreInv, WithoutDropped

LEMMA EnsureCapacityInv ==
  ASSUME StoreInv, EnsureCapacity
  PROVE  StoreInv'
<1>1. /\ runs' = WithoutDropped(clock)
      /\ created' = created /\ clock' = clock
  BY DEF EnsureCapacity
<1>2. \A r \in RunIds : SoundRun(runs'[r])
                        /\ runs'[r] \in {runs[r], NoRun}
                        /\ (r > created' => runs'[r] = NoRun)
  BY <1>1, WithoutDroppedSound
<1>3. /\ runs' \in [RunIds -> RunRecord]
      /\ created' \in 0 .. MaxRuns /\ clock' \in 0 .. MaxClock
  BY <1>1, DroppedEnded DEF StoreInv
<1>4. AtMostOneActiveRun'
  BY <1>2, NoRunSound DEF StoreInv, AtMostOneActiveRun, Tracked,
                          IsRunStatusCancellable
<1>5. QED
  BY <1>2, <1>3, <1>4 DEF StoreInv, SoundRun, CountOutcomes

LEMMA CreateInv ==
  ASSUME StoreInv, NEW n \in Nat, TryCreateQueuedRun(n)
  PROVE  StoreInv'
<1> DEFINE new == created + 1
<1>1. /\ created < MaxRuns /\ ~ HasActiveRun
      /\ created' = new /\ clock' = clock
      /\ runs' = [WithoutDropped(clock) EXCEPT ![new] = QueuedRun(n)]
  BY DEF TryCreateQueuedRun
<1>2. new \in RunIds
  BY <1>1, RunStoreAssumption DEF StoreInv, RunIds
<1>3. WithoutDropped(clock) \in [RunIds -> RunRecord]
  BY DroppedEnded
<1>4. \A r \in RunIds : runs'[r] = IF r = new THEN QueuedRun(n)
                                              ELSE WithoutDropped(clock)[r]
  BY <1>1, <1>3
<1>5. \A r \in RunIds : SoundRun(runs'[r])
  BY <1>4, QueuedSound, WithoutDroppedSound
<1>6. \A r \in RunIds : r > created' => runs'[r] = NoRun
  BY <1>1, <1>4, WithoutDroppedSound, RunStoreAssumption
  DEF StoreInv, RunIds
<1>7. \A r \in RunIds \ {new} : ~ IsRunStatusCancellable(runs'[r].status)
  BY <1>1, <1>4, WithoutDroppedSound, NoRunSound
  DEF HasActiveRun, Tracked, IsRunStatusCancellable
<1>8. AtMostOneActiveRun'
  BY <1>7 DEF AtMostOneActiveRun, Tracked
<1>9. /\ runs' \in [RunIds -> RunRecord]
      /\ created' \in 0 .. MaxRuns /\ clock' \in 0 .. MaxClock
  <2>1. QueuedRun(n) \in RunRecord
    BY QueuedSound DEF SoundRun
  <2>2. QED
    BY <1>1, <1>2, <1>3, <2>1, RunStoreAssumption DEF StoreInv
<1>10. QED
  BY <1>5, <1>6, <1>8, <1>9 DEF StoreInv, SoundRun, CountOutcomes

\* What a method makes of a run: a sound run that has moved forward or stayed,
\* and the same run if it had ended.
StepsTo(run, new) ==
    /\ SoundRun(new)
    /\ \/ new.status = run.status
       \/ run.status = "queued" /\ new.status = "running"
       \/ run.status \in {"queued", "running"} /\ new.status \in Terminal
    /\ IsRunStatusTerminal(run.status) => new = run

\* Every action on one run is an update by a method that keeps the run sound
\* and never takes it back to being active.
LEMMA MethodStep ==
  ASSUME StoreInv, NEW r \in Tracked,
         \/ MarkRunning(r)
         \/ Complete(r)
         \/ Cancel(r)
         \/ \E code \in FailureCodes : Fail(r, code)
         \/ \E c \in CaseIds :
                CaseStarted(r, c) \/ CaseCompleted(r, c) \/ CaseFailed(r, c)
  PROVE  \E new : Update(r, new) /\ StepsTo(runs[r], new)
<1>1. SoundRun(runs[r]) /\ clock \in Int
  BY RunStoreAssumption DEF StoreInv, Tracked
<1>2. CASE MarkRunning(r)
  <2>1. StepsTo(runs[r], MarkRunRunning(runs[r], clock))
    BY <1>1, MarkRunningSound DEF StepsTo, IsRunStatusTerminal, Terminal
  <2>2. QED
    BY <1>2, <2>1 DEF MarkRunning
<1>3. \A new : SoundRun(new) /\ Ends(runs[r], new) => StepsTo(runs[r], new)
  BY DEF Ends, StepsTo, IsRunStatusTerminal, Terminal
<1>4. CASE Complete(r)
  BY <1>1, <1>3, <1>4, EndingsSound DEF Complete
<1>5. CASE Cancel(r)
  BY <1>1, <1>3, <1>5, EndingsSound DEF Cancel
<1>6. CASE \E code \in FailureCodes : Fail(r, code)
  BY <1>1, <1>3, <1>6, EndingsSound DEF Fail
<1>7. \A new : /\ SoundRun(new) /\ new.status = runs[r].status
               /\ runs[r].status # "running" => new = runs[r]
               => StepsTo(runs[r], new)
  BY DEF StepsTo, IsRunStatusTerminal, Terminal
<1>8. ASSUME NEW c \in CaseIds,
             CaseStarted(r, c) \/ CaseCompleted(r, c) \/ CaseFailed(r, c)
      PROVE  \E new : Update(r, new) /\ StepsTo(runs[r], new)
  <2>1. CASE CaseStarted(r, c)
    BY <1>1, <1>7, <2>1, CaseStartedSound DEF CaseStarted
  <2>2. CASE CaseCompleted(r, c)
    BY <1>1, <1>7, <2>2, CaseOutcomeSound DEF CaseCompleted
  <2>3. CASE CaseFailed(r, c)
    BY <1>1, <1>7, <2>3, CaseOutcomeSound DEF CaseFailed
  <2>4. QED
    BY <1>8, <2>1, <2>2, <2>3
<1>9. QED
  BY <1>2, <1>4, <1>5, <1>6, <1>8

LEMMA NextInv == StoreInv /\ [Next]_vars => StoreInv'
<1> SUFFICES ASSUME StoreInv, [Next]_vars
             PROVE  StoreInv'
  OBVIOUS
<1>1. CASE UNCHANGED vars
  BY <1>1 DEF StoreInv, vars, AtMostOneActiveRun, Tracked, SoundRun,
              CountOutcomes
<1>2. CASE Tick
  <2>1. clock' \in 0 .. MaxClock
    BY <1>2, RunStoreAssumption DEF Tick, StoreInv
  <2>2. runs' = runs /\ created' = created
    BY <1>2 DEF Tick
  <2>3. QED
    BY <2>1, <2>2
    DEF StoreInv, AtMostOneActiveRun, Tracked, SoundRun, CountOutcomes
<1>3. CASE EnsureCapacity
  BY <1>3, EnsureCapacityInv
<1>4. ASSUME NEW n \in 0 .. MaxTotalCases, TryCreateQueuedRun(n)
      PROVE  StoreInv'
  BY <1>4, CreateInv, RunStoreAssumption
<1>5. ASSUME NEW r \in Tracked, NEW new,
             Update(r, new), StepsTo(runs[r], new)
      PROVE  StoreInv'
  BY <1>5, UpdateInv
  DEF StepsTo, Tracked, IsRunStatusCancellable, Terminal
<1>6. QED
  BY <1>1, <1>2, <1>3, <1>4, <1>5, MethodStep DEF Next

THEOREM StoreInvariant == Spec => []StoreInv
  BY InitInv, NextInv, PTL DEF Spec

-------------------------------------------------------------------------------
(***************************************************************************)
(* Part 4: the results.                                                    *)
(***************************************************************************)

\* The variables keep their types.
THEOREM TypeCorrect == Spec => []TypeOK
<1>1. StoreInv => TypeOK
  BY DEF StoreInv, TypeOK
<1>2. QED
  BY <1>1, StoreInvariant, PTL

\* Never two runs queued or running.
THEOREM OneActiveRun == Spec => []AtMostOneActiveRun
<1>1. StoreInv => AtMostOneActiveRun
  BY DEF StoreInv
<1>2. QED
  BY <1>1, StoreInvariant, PTL

\* A run has a result exactly when it has ended, and it is the record's.
THEOREM ResultsAreFinal == Spec => []ResultIsFinalSnapshot
<1>1. StoreInv => ResultIsFinalSnapshot
  BY DEF StoreInv, ResultIsFinalSnapshot, SoundRun
<1>2. QED
  BY <1>1, StoreInvariant, PTL

\* The counters count the outcomes and never exceed the total.
THEOREM CountersCount == Spec => []ProgressMatchesOutcomes
<1>1. StoreInv => ProgressMatchesOutcomes
  BY DEF StoreInv, ProgressMatchesOutcomes, SoundRun
<1>2. QED
  BY <1>1, StoreInvariant, PTL

\* What a step does to one run, whichever step it is.
LEMMA StepsForward ==
  ASSUME StoreInv, [Next]_vars, NEW r \in RunIds
  PROVE  IsRunStatusTerminal(runs[r].status) => runs'[r] \in {runs[r], NoRun}
<1>1. CASE UNCHANGED vars \/ Tick
  BY <1>1 DEF vars, Tick
<1>2. CASE EnsureCapacity
  BY <1>2, WithoutDroppedSound DEF EnsureCapacity
<1>3. ASSUME NEW n \in 0 .. MaxTotalCases, TryCreateQueuedRun(n),
             IsRunStatusTerminal(runs[r].status)
      PROVE  runs'[r] \in {runs[r], NoRun}
  <2>1. r # created + 1
    BY <1>3, NoRunSound, RunStoreAssumption
    DEF StoreInv, RunIds, IsRunStatusTerminal, Terminal
  <2>2. runs'[r] = WithoutDropped(clock)[r]
    BY <1>3, <2>1, DroppedEnded DEF TryCreateQueuedRun
  <2>3. QED
    BY <2>2, WithoutDroppedSound
<1>4. ASSUME NEW q \in Tracked, NEW new,
             Update(q, new), StepsTo(runs[q], new),
             IsRunStatusTerminal(runs[r].status)
      PROVE  runs'[r] \in {runs[r], NoRun}
  BY <1>4 DEF Update, StepsTo, StoreInv
<1>5. QED
  BY <1>1, <1>2, <1>3, <1>4, MethodStep DEF Next

\* A run that has ended is never changed, only forgotten.
THEOREM EndedRunsAreFrozen == Spec => EndedRunsNeverChange
<1>1. StoreInv /\ [Next]_vars
        => [\A r \in RunIds : IsRunStatusTerminal(runs[r].status)
                => runs'[r] \in {runs[r], NoRun}]_vars
  BY StepsForward
<1>2. QED
  BY <1>1, StoreInvariant, PTL DEF Spec, EndedRunsNeverChange

-------------------------------------------------------------------------------
(***************************************************************************)
(* Part 5: the store implements the lifecycle.                             *)
(***************************************************************************)

LEMMA SameRunIds == Lifecycle!RunIds = RunIds
  BY DEF Lifecycle!RunIds, RunIds

LEMMA LifecycleInit == Init => Lifecycle!Init
  BY NoRunSound, SameRunIds DEF Init, Lifecycle!Init

\* Forgetting the dropped runs is forgetting runs that have ended.
LEMMA DroppedForgotten ==
  ASSUME StoreInv
  PROVE  /\ Dropped(clock) \in Lifecycle!MayForget
         /\ Lifecycle!Forgotten(Dropped(clock)) =
                [r \in RunIds |-> WithoutDropped(clock)[r].status]
<1>1. Dropped(clock) \in Lifecycle!MayForget
  BY DroppedEnded, SameRunIds
  DEF TerminalRuns, Lifecycle!MayForget, Lifecycle!Ended,
      IsRunStatusTerminal, Terminal
<1>2. Lifecycle!Forgotten(Dropped(clock)) =
         [r \in RunIds |-> WithoutDropped(clock)[r].status]
  BY NoRunSound, SameRunIds DEF Lifecycle!Forgotten, WithoutDropped
<1>3. QED
  BY <1>1, <1>2

LEMMA LifecycleStep ==
  ASSUME StoreInv, [Next]_vars
  PROVE  [Lifecycle!Next]_(Lifecycle!vars)
<1>1. CASE UNCHANGED vars \/ Tick
  BY <1>1 DEF vars, Tick, Lifecycle!vars
<1>2. CASE EnsureCapacity
  <2>1. PICK gone \in Lifecycle!MayForget : gone = Dropped(clock)
    BY DroppedForgotten
  <2>2. Lifecycle!Forget(gone)
    BY <1>2, <2>1, DroppedForgotten DEF EnsureCapacity, Lifecycle!Forget
  <2>3. QED
    BY <2>2 DEF Lifecycle!Next
<1>3. ASSUME NEW n \in 0 .. MaxTotalCases, TryCreateQueuedRun(n)
      PROVE  Lifecycle!Next
  <2>1. \A r \in RunIds : runs[r].status \notin {"queued", "running"}
    BY <1>3 DEF TryCreateQueuedRun, HasActiveRun, Tracked
  <2>2. runs' = [WithoutDropped(clock) EXCEPT ![created + 1] = QueuedRun(n)]
    BY <1>3 DEF TryCreateQueuedRun
  <2>3. QueuedRun(n).status = "queued"
    BY <1>3, QueuedSound, RunStoreAssumption
  <2>4. [r \in RunIds |-> runs'[r].status] =
           [[r \in RunIds |-> WithoutDropped(clock)[r].status]
                EXCEPT ![created + 1] = "queued"]
    BY <2>2, <2>3, DroppedEnded
  <2>5. PICK gone \in Lifecycle!MayForget : gone = Dropped(clock)
    BY DroppedForgotten
  <2>6. Lifecycle!Create(gone)
    BY <1>3, <2>1, <2>4, <2>5, DroppedForgotten, SameRunIds
    DEF TryCreateQueuedRun, Lifecycle!Create, Lifecycle!Active
  <2>7. QED
    BY <2>6 DEF Lifecycle!Next
<1>4. ASSUME NEW r \in Tracked, NEW new,
             Update(r, new), StepsTo(runs[r], new)
      PROVE  [Lifecycle!Next]_(Lifecycle!vars)
  <2>1. /\ runs' = [runs EXCEPT ![r] = new]
        /\ created' = created
    BY <1>4 DEF Update
  <2>2. [q \in RunIds |-> runs'[q].status] =
            [[q \in RunIds |-> runs[q].status] EXCEPT ![r] = new.status]
    BY <2>1 DEF StoreInv, Tracked
  <2>3. CASE new.status = runs[r].status
    BY <2>1, <2>2, <2>3 DEF Lifecycle!vars, Tracked
  <2>4. CASE runs[r].status = "queued" /\ new.status = "running"
    <3>1. Lifecycle!Start(r)
      BY <2>1, <2>2, <2>4 DEF Lifecycle!Start, Tracked
    <3>2. QED
      BY <3>1, SameRunIds DEF Lifecycle!Next, Tracked
  <2>5. CASE /\ runs[r].status \in {"queued", "running"}
             /\ new.status \in Terminal
    <3>1. Lifecycle!End(r, new.status)
      BY <2>1, <2>2, <2>5 DEF Lifecycle!End, Lifecycle!Active, Tracked
    <3>2. QED
      BY <2>5, <3>1, SameRunIds
      DEF Lifecycle!Next, Lifecycle!Ended, Terminal, Tracked
  <2>6. QED
    BY <1>4, <2>3, <2>4, <2>5 DEF StepsTo
<1>5. QED
  BY <1>1, <1>2, <1>3, <1>4, MethodStep DEF Next

\* Seen through its statuses the store behaves as RunLifecycle allows.
THEOREM StoreImplementsLifecycle == Spec => ImplementsLifecycle
  BY LifecycleInit, LifecycleStep, StoreInvariant, PTL
  DEF Spec, ImplementsLifecycle, Lifecycle!Spec

-------------------------------------------------------------------------------
(***************************************************************************)
(* Part 6: the event log.  EmitRunEvent is the only method that writes it, *)
(* so the argument is about a log that is still open when it is called.    *)
(***************************************************************************)

NoMoreThan(p, q) ==
    /\ p.totalCases <= q.totalCases
    /\ p.completedCases <= q.completedCases
    /\ p.failedCases <= q.failedCases

Grows(log) ==
    \A i \in 1 .. Len(log) - 1 : NoMoreThan(log[i].progress, log[i + 1].progress)

\* The log a run has when it is about to emit: nothing has closed it, and no
\* event is ahead of the progress the next one will carry.
OpenLog(log, progress) ==
    /\ Grows(log)
    /\ \A i \in 1 .. Len(log) : log[i].event \notin TerminalEvents
    /\ log # <<>> => NoMoreThan(log[Len(log)].progress, progress)

\* The log a client may read at any time.
TrueLog(run) ==
    LET log == run.events
    IN  /\ Grows(log)
        /\ \A i \in 1 .. Len(log) :
                (log[i].event \in TerminalEvents)
                    <=> (i = Len(log) /\ IsRunStatusTerminal(run.status))
        /\ run.status # "untracked" =>
                log # <<>> /\ log[Len(log)].progress = BuildProgress(run)

\* The ring keeps the newest events: what is left of the log with the new event
\* appended is that log from some place on.
LEMMA EmitAppends ==
  ASSUME NEW run \in RunRecord,
         NEW name \in EventNames,
         NEW c \in CaseIds \cup {NoCase}
  PROVE  LET e   == [event |-> name, caseId |-> c,
                     progress |-> BuildProgress(run)]
             old == run.events
             new == EmitRunEvent(run, name, c).events
         IN  /\ Len(new) \in Nat \ {0} /\ new[Len(new)] = e
             /\ new # <<>>
             /\ \E d \in Nat :
                   /\ Len(new) + d = Len(old) + 1
                   /\ \A i \in 1 .. Len(new) - 1 : new[i] = old[i + d]
<1> DEFINE e == [event |-> name, caseId |-> c, progress |-> BuildProgress(run)]
           old == run.events
           log == Append(old, e)
           kept == SubSeq(log, Len(log) - MaxEventsPerRun + 1, Len(log))
           new == EmitRunEvent(run, name, c).events
<1>1. e \in RunEvent /\ old \in Seq(RunEvent)
  BY ProgressType DEF RunEvent, RunRecord
<1> HIDE DEF e, old
<1>2. /\ log \in Seq(RunEvent) /\ Len(log) = Len(old) + 1
      /\ Len(old) \in Nat /\ log[Len(log)] = e
      /\ \A i \in 1 .. Len(old) : log[i] = old[i]
  BY <1>1
<1>3. new = IF Len(log) > MaxEventsPerRun THEN kept ELSE log
  <2>1. EmitRunEvent(run, name, c) =
            [run EXCEPT !.events = IF Len(log) > MaxEventsPerRun
                                   THEN kept ELSE log]
    BY DEF EmitRunEvent, e, old
  <2>2. QED
    BY <2>1 DEF RunRecord
<1> HIDE DEF new, log
<1>4. CASE Len(log) > MaxEventsPerRun
  <2> DEFINE d == Len(log) - MaxEventsPerRun
  <2>1. d \in Nat \ {0}
    BY <1>2, <1>4, RunRecordsAssumption
  <2>2. /\ Len(kept) = MaxEventsPerRun
        /\ \A i \in 1 .. MaxEventsPerRun : kept[i] = log[i + d]
    <3> DEFINE n == Len(log)
               m == n - MaxEventsPerRun + 1
    <3>1. n \in Nat /\ m \in 1 .. n + 1 /\ n - m + 1 = MaxEventsPerRun
      BY <1>2, <2>1, RunRecordsAssumption
    <3>2. /\ Len(SubSeq(log, m, n)) = n - m + 1
          /\ \A i \in 1 .. n - m + 1 : SubSeq(log, m, n)[i] = log[m + i - 1]
      <4> HIDE DEF m
      <4>1. /\ log \in Seq(RunEvent)
            /\ m \in 1 .. Len(log) + 1 /\ Len(log) \in m - 1 .. Len(log)
        BY <1>2, <3>1
      <4>2. QED
        BY <3>1, <4>1, SubSeqProperties
    <3>3. \A i \in 1 .. MaxEventsPerRun : m + i - 1 = i + d
      BY <3>1, RunRecordsAssumption
    <3>4. QED
      BY <3>1, <3>2, <3>3
  <2>3. kept # <<>>
    BY <2>2, RunRecordsAssumption
  <2> HIDE DEF kept
  <2>4. new = kept /\ Len(new) = MaxEventsPerRun
    BY <1>3, <1>4, <2>2
  <2>5. new[Len(new)] = e
    BY <1>2, <2>1, <2>2, <2>4, RunRecordsAssumption
  <2>6. Len(new) + d = Len(old) + 1
    BY <1>2, <2>4, RunRecordsAssumption
  <2>7. \A i \in 1 .. Len(new) - 1 : new[i] = old[i + d]
    <3>1. \A i \in 1 .. Len(new) - 1 :
              i \in 1 .. MaxEventsPerRun /\ i + d \in 1 .. Len(old)
      BY <1>2, <2>1, <2>4, <2>6, RunRecordsAssumption
    <3> HIDE DEF d
    <3>2. QED
      BY <1>2, <2>2, <2>4, <3>1
  <2> HIDE DEF d
  <2>8. QED
    BY <2>1, <2>3, <2>4, <2>5, <2>6, <2>7, RunRecordsAssumption
    DEF e, old, new
<1>5. CASE ~ (Len(log) > MaxEventsPerRun)
  <2>1. new = log
    BY <1>3, <1>5
  <2>2. /\ Len(new) + 0 = Len(old) + 1
        /\ \A i \in 1 .. Len(new) - 1 : new[i] = old[i + 0]
    BY <1>2, <2>1
  <2>3. new # <<>> /\ Len(new) \in Nat \ {0} /\ new[Len(new)] = e
    BY <1>2, <2>1
  <2>4. QED
    BY <2>2, <2>3 DEF e, old, new
<1>6. QED
  BY <1>4, <1>5

\* Emitting into an open log: the event carries the run's progress, and closes
\* the log if and only if it is a terminal event of a run that has ended.
LEMMA EmitTrue ==
  ASSUME NEW run \in RunRecord,
         NEW name \in EventNames,
         NEW c \in CaseIds \cup {NoCase},
         OpenLog(run.events, BuildProgress(run)),
         name \in TerminalEvents <=> IsRunStatusTerminal(run.status)
  PROVE  TrueLog(EmitRunEvent(run, name, c))
<1> DEFINE after == EmitRunEvent(run, name, c)
           old == run.events
           new == after.events
           p == BuildProgress(run)
<1>1. /\ after \in RunRecord
      /\ after.status = run.status
      /\ BuildProgress(after) = p
  BY EmitFrame
<1>2. /\ Len(new) \in Nat \ {0} /\ new # <<>>
      /\ new[Len(new)] = [event |-> name, caseId |-> c, progress |-> p]
  BY EmitAppends
<1>3. PICK d \in Nat : /\ Len(new) + d = Len(old) + 1
                       /\ \A i \in 1 .. Len(new) - 1 : new[i] = old[i + d]
  BY EmitAppends
<1>4. old \in Seq(RunEvent) /\ Len(old) \in Nat
  BY DEF RunRecord
<1>5. OpenLog(old, p)
  OBVIOUS
<1> HIDE DEF after, old, new, p
<1>6. new[Len(new)].progress = p /\ new[Len(new)].event = name
  BY <1>2
<1>7. ASSUME NEW i \in 1 .. Len(new) - 1
      PROVE  /\ new[i].event \notin TerminalEvents
             /\ NoMoreThan(new[i].progress, new[i + 1].progress)
  <2>1. new[i] = old[i + d] /\ i + d \in 1 .. Len(old)
    BY <1>2, <1>3, <1>4
  <2>2. new[i].event \notin TerminalEvents
    BY <1>5, <2>1 DEF OpenLog
  <2>3. CASE i < Len(new) - 1
    <3>1. i + 1 \in 1 .. Len(new) - 1 /\ i + d \in 1 .. Len(old) - 1
      BY <1>2, <1>3, <1>4, <2>3
    <3>2. new[i + 1] = old[(i + d) + 1]
      <4>1. new[i + 1] = old[(i + 1) + d]
        BY <1>3, <3>1
      <4>2. (i + 1) + d = (i + d) + 1
        BY <1>3
      <4>3. QED
        BY <4>1, <4>2
    <3>3. NoMoreThan(old[i + d].progress, old[(i + d) + 1].progress)
      BY <1>5, <3>1 DEF OpenLog, Grows
    <3>4. QED
      BY <2>1, <2>2, <3>2, <3>3
  <2>4. CASE i = Len(new) - 1
    <3>1. i + d = Len(old) /\ i + 1 = Len(new) /\ old # <<>>
      BY <1>2, <1>3, <1>4, <2>1, <2>4
    <3>2. QED
      BY <1>5, <1>6, <2>1, <2>2, <3>1 DEF OpenLog
  <2>5. QED
    BY <1>2, <2>3, <2>4
<1>8. Grows(new)
  BY <1>7 DEF Grows
<1>9. \A i \in 1 .. Len(new) :
          (new[i].event \in TerminalEvents)
              <=> (i = Len(new) /\ IsRunStatusTerminal(run.status))
  <2>1. \A i \in 1 .. Len(new) : i \in 1 .. Len(new) - 1 \/ i = Len(new)
    BY <1>2
  <2>2. \A i \in 1 .. Len(new) - 1 : i # Len(new)
    BY <1>2
  <2>3. QED
    BY <1>6, <1>7, <2>1, <2>2
<1>10. TrueLog(after)
  BY <1>1, <1>2, <1>6, <1>8, <1>9 DEF TrueLog, new
<1>11. QED
  BY <1>10 DEF after

\* The log of a run that has not ended is open.
LEMMA TrueOpen ==
  ASSUME NEW run \in RunRecord, TrueLog(run),
         ~ IsRunStatusTerminal(run.status), run.status # "untracked"
  PROVE  OpenLog(run.events, BuildProgress(run))
<1>1. NoMoreThan(BuildProgress(run), BuildProgress(run))
  BY DEF NoMoreThan, BuildProgress, RunRecord
<1>2. QED
  BY <1>1 DEF TrueLog, OpenLog

\* The methods one by one.  Creating a run opens its log; starting it and
\* starting a case add to it.
LEMMA QueuedTrue ==
  ASSUME NEW n \in Nat
  PROVE  TrueLog(QueuedRun(n))
<1> DEFINE q == [NoRun EXCEPT !.status = "queued", !.totalCases = n]
<1>1. q \in RunRecord
  BY NoRunType DEF NoRun, RunRecord
<1>2. q.events = <<>> /\ q.status = "queued"
  BY DEF NoRun
<1> HIDE DEF q
<1>3. OpenLog(q.events, BuildProgress(q))
  BY <1>2 DEF OpenLog, Grows
<1>4. TrueLog(EmitRunEvent(q, "run.created", NoCase))
  BY <1>1, <1>2, <1>3, EmitTrue
  DEF EventNames, TerminalEvents, IsRunStatusTerminal, Terminal
<1>5. QED
  BY <1>4 DEF QueuedRun, q

LEMMA MarkRunningTrue ==
  ASSUME NEW run \in RunRecord, TrueLog(run), NEW at \in Int
  PROVE  TrueLog(MarkRunRunning(run, at))
<1>1. CASE run.status # "queued"
  BY <1>1 DEF MarkRunRunning
<1>2. CASE run.status = "queued"
  <2> DEFINE new == TransitionRunStatus(run, "running", at)
  <2>1. /\ new \in RunRecord /\ new.status = "running"
        /\ new.events = run.events
        /\ BuildProgress(new) = BuildProgress(run)
    BY <1>2 DEF TransitionRunStatus, RunRecord, IsRunStatusTerminal,
                Terminal, BuildProgress
  <2> HIDE DEF new
  <2>2. OpenLog(new.events, BuildProgress(new))
    BY <1>2, <2>1, TrueOpen DEF IsRunStatusTerminal, Terminal
  <2>3. TrueLog(EmitRunEvent(new, "run.started", NoCase))
    BY <2>1, <2>2, EmitTrue
    DEF EventNames, TerminalEvents, IsRunStatusTerminal, Terminal
  <2>4. QED
    BY <1>2, <2>3 DEF MarkRunRunning, new
<1>3. QED
  BY <1>1, <1>2

LEMMA CaseStartedTrue ==
  ASSUME NEW run \in RunRecord, TrueLog(run), NEW c \in CaseIds
  PROVE  TrueLog(RecordCaseStarted(run, c))
<1>1. CASE run.status # "running"
  BY <1>1 DEF RecordCaseStarted
<1>2. CASE run.status = "running"
  <2>1. OpenLog(run.events, BuildProgress(run))
    BY <1>2, TrueOpen DEF IsRunStatusTerminal, Terminal
  <2>2. TrueLog(EmitRunEvent(run, "run.case.started", c))
    BY <1>2, <2>1, EmitTrue
    DEF EventNames, TerminalEvents, IsRunStatusTerminal, Terminal
  <2>3. QED
    BY <1>2, <2>2 DEF RecordCaseStarted
<1>3. QED
  BY <1>1, <1>2

\* Comparing the progress of two runs is comparing their counters.
LEMMA ProgressOrder ==
  ASSUME NEW a, NEW b
  PROVE  NoMoreThan(BuildProgress(a), BuildProgress(b))
            <=> /\ a.totalCases <= b.totalCases
                /\ a.completedCases <= b.completedCases
                /\ a.failedCases <= b.failedCases
  BY DEF NoMoreThan, BuildProgress

\* An outcome is counted before it is announced, and no counter goes down.
LEMMA CountedBeforeAnnounced ==
  ASSUME NEW run \in RunRecord, NEW c \in CaseIds
  PROVE  \A new \in {RecordCompletedCaseOutcome(run, c),
                     RecordFailedCaseOutcome(run, c)} :
            /\ new \in RunRecord
            /\ new.status = run.status
            /\ new.events = run.events
            /\ NoMoreThan(BuildProgress(run), BuildProgress(new))
<1>1. ASSUME NEW r \in RunRecord
      PROVE  /\ ReconcileTotalCases(r) \in RunRecord
             /\ ReconcileTotalCases(r).status = r.status
             /\ ReconcileTotalCases(r).events = r.events
             /\ NoMoreThan(BuildProgress(r), BuildProgress(ReconcileTotalCases(r)))
  <2> DEFINE observed == r.completedCases + r.failedCases
             total == IF observed > r.totalCases
                      THEN observed ELSE r.totalCases
  <2>1. /\ r.completedCases \in Nat /\ r.failedCases \in Nat
        /\ r.totalCases \in Nat
    BY DEF RunRecord
  <2>2. total \in Nat /\ r.totalCases <= total
    BY <2>1
  <2>3. ReconcileTotalCases(r) = [r EXCEPT !.totalCases = total]
    BY DEF ReconcileTotalCases, RunRecord
  <2> HIDE DEF total
  <2> DEFINE new == [r EXCEPT !.totalCases = total]
  <2>4. /\ new \in RunRecord /\ new.status = r.status
        /\ new.events = r.events /\ new.totalCases = total
        /\ new.completedCases = r.completedCases
        /\ new.failedCases = r.failedCases
    BY <2>2 DEF RunRecord
  <2> HIDE DEF new
  <2>5. NoMoreThan(BuildProgress(r), BuildProgress(new))
    BY <2>1, <2>2, <2>4, ProgressOrder
  <2>6. QED
    BY <2>3, <2>4, <2>5 DEF new
<1>2. ASSUME NEW outcome \in {"completed", "failed"}
      PROVE  /\ PushOutcome(run, c, outcome) \in RunRecord
             /\ PushOutcome(run, c, outcome).status = run.status
             /\ PushOutcome(run, c, outcome).events = run.events
             /\ BuildProgress(PushOutcome(run, c, outcome)) = BuildProgress(run)
  <2>1. [caseId |-> c, status |-> outcome] \in CaseOutcome
    BY DEF CaseOutcome
  <2>2. Append(run.caseOutcomes, [caseId |-> c, status |-> outcome])
            \in Seq(CaseOutcome)
    BY <2>1 DEF RunRecord
  <2>3. QED
    BY <2>2 DEF PushOutcome, RunRecord, BuildProgress
<1>3. ASSUME NEW r \in RunRecord,
             NEW up \in {[r EXCEPT !.completedCases = @ + 1],
                         [r EXCEPT !.failedCases = @ + 1]}
      PROVE  /\ up \in RunRecord
             /\ up.status = r.status
             /\ up.events = r.events
             /\ NoMoreThan(BuildProgress(r), BuildProgress(up))
  <2>1. /\ r.completedCases \in Nat /\ r.failedCases \in Nat
        /\ r.totalCases \in Nat
        /\ r.completedCases + 1 \in Nat /\ r.failedCases + 1 \in Nat
    BY SMTT(30) DEF RunRecord
  <2>2. CASE up = [r EXCEPT !.completedCases = r.completedCases + 1]
    <3> DEFINE n == r.completedCases + 1
    <3>1. n \in Nat /\ r.completedCases <= n
      BY <2>1
    <3>2. up = [r EXCEPT !.completedCases = n]
      BY <2>2
    <3> HIDE DEF n
    <3>3. /\ up \in RunRecord /\ up.status = r.status
          /\ up.events = r.events /\ up.completedCases = n
          /\ up.totalCases = r.totalCases
          /\ up.failedCases = r.failedCases
      BY <3>1, <3>2 DEF RunRecord
    <3>4. QED
      BY <2>1, <3>1, <3>3, ProgressOrder
  <2>3. CASE up = [r EXCEPT !.failedCases = r.failedCases + 1]
    <3> DEFINE n == r.failedCases + 1
    <3>1. n \in Nat /\ r.failedCases <= n
      BY <2>1
    <3>2. up = [r EXCEPT !.failedCases = n]
      BY <2>3
    <3> HIDE DEF n
    <3>3. /\ up \in RunRecord /\ up.status = r.status
          /\ up.events = r.events /\ up.failedCases = n
          /\ up.totalCases = r.totalCases
          /\ up.completedCases = r.completedCases
      BY <3>1, <3>2 DEF RunRecord
    <3>4. QED
      BY <2>1, <3>1, <3>3, ProgressOrder
  <2>4. QED
    BY <1>3, <2>2, <2>3 DEF RunRecord
<1>4. \A a, b, d \in RunRecord :
         /\ NoMoreThan(BuildProgress(a), BuildProgress(b))
         /\ NoMoreThan(BuildProgress(b), BuildProgress(d))
         => NoMoreThan(BuildProgress(a), BuildProgress(d))
  <2>1. \A r \in RunRecord : /\ r.completedCases \in Nat
                             /\ r.failedCases \in Nat /\ r.totalCases \in Nat
    BY DEF RunRecord
  <2>2. QED
    BY <2>1, ProgressOrder
<1>5. ASSUME NEW pushed \in RunRecord,
             pushed.status = run.status, pushed.events = run.events,
             BuildProgress(pushed) = BuildProgress(run),
             NEW up \in {[pushed EXCEPT !.completedCases = @ + 1],
                         [pushed EXCEPT !.failedCases = @ + 1]}
      PROVE  /\ ReconcileTotalCases(up) \in RunRecord
             /\ ReconcileTotalCases(up).status = run.status
             /\ ReconcileTotalCases(up).events = run.events
             /\ NoMoreThan(BuildProgress(run),
                           BuildProgress(ReconcileTotalCases(up)))
  <2>1. /\ up \in RunRecord
        /\ up.status = run.status
        /\ up.events = run.events
        /\ NoMoreThan(BuildProgress(pushed), BuildProgress(up))
    BY <1>3, <1>5
  <2>2. QED
    BY <1>1, <1>4, <1>5, <2>1
<1>6. ASSUME NEW new, new = RecordCompletedCaseOutcome(run, c)
      PROVE  /\ new \in RunRecord /\ new.status = run.status
             /\ new.events = run.events
             /\ NoMoreThan(BuildProgress(run), BuildProgress(new))
  <2> DEFINE pushed == PushOutcome(run, c, "completed")
             up == [pushed EXCEPT !.completedCases = @ + 1]
  <2>1. /\ pushed \in RunRecord /\ pushed.status = run.status
        /\ pushed.events = run.events
        /\ BuildProgress(pushed) = BuildProgress(run)
    BY <1>2
  <2>2. new = ReconcileTotalCases(up)
    BY <1>6 DEF RecordCompletedCaseOutcome
  <2> HIDE DEF pushed
  <2>3. QED
    BY <1>5, <2>1, <2>2
<1>7. ASSUME NEW new, new = RecordFailedCaseOutcome(run, c)
      PROVE  /\ new \in RunRecord /\ new.status = run.status
             /\ new.events = run.events
             /\ NoMoreThan(BuildProgress(run), BuildProgress(new))
  <2> DEFINE pushed == PushOutcome(run, c, "failed")
             up == [pushed EXCEPT !.failedCases = @ + 1]
  <2>1. /\ pushed \in RunRecord /\ pushed.status = run.status
        /\ pushed.events = run.events
        /\ BuildProgress(pushed) = BuildProgress(run)
    BY <1>2
  <2>2. new = ReconcileTotalCases(up)
    BY <1>7 DEF RecordFailedCaseOutcome
  <2> HIDE DEF pushed
  <2>3. QED
    BY <1>5, <2>1, <2>2
<1>8. QED
  BY <1>6, <1>7

LEMMA CaseOutcomeTrue ==
  ASSUME NEW run \in RunRecord, TrueLog(run), NEW c \in CaseIds
  PROVE  /\ TrueLog(RecordCaseCompleted(run, c))
         /\ TrueLog(RecordCaseFailed(run, c))
<1>1. CASE run.status # "running"
  BY <1>1 DEF RecordCaseCompleted, RecordCaseFailed
<1>2. CASE run.status = "running"
  <2>1. run.events # <<>> /\ OpenLog(run.events, BuildProgress(run))
    BY <1>2, TrueOpen DEF IsRunStatusTerminal, Terminal, TrueLog
  <2>2. ASSUME NEW new \in {RecordCompletedCaseOutcome(run, c),
                            RecordFailedCaseOutcome(run, c)},
               NEW name \in {"run.case.completed", "run.case.failed"}
        PROVE  TrueLog(EmitRunEvent(new, name, c))
    <3>1. /\ new \in RunRecord
          /\ new.status = "running"
          /\ new.events = run.events
          /\ NoMoreThan(BuildProgress(run), BuildProgress(new))
      BY <1>2, CountedBeforeAnnounced
    <3>2. run.events[Len(run.events)].progress = BuildProgress(run)
      BY <1>2 DEF TrueLog
    <3>3. OpenLog(new.events, BuildProgress(new))
      BY <2>1, <3>1, <3>2 DEF OpenLog
    <3>4. QED
      BY <3>1, <3>3, EmitTrue
      DEF EventNames, TerminalEvents, IsRunStatusTerminal, Terminal
  <2>3. QED
    BY <1>2, <2>2 DEF RecordCaseCompleted, RecordCaseFailed
<1>3. QED
  BY <1>1, <1>2

\* The endings close the log, because the transition comes before the event.
LEMMA FinishTrue ==
  ASSUME NEW run \in RunRecord, TrueLog(run),
         run.status \in {"queued", "running"},
         NEW status \in Terminal,
         NEW at \in Int,
         NEW event \in TerminalEvents,
         NEW code \in FailureCodes \cup {NoFailure}
  PROVE  TrueLog(Finish([run EXCEPT !.failure = code], status, at, event))
<1> DEFINE old == [run EXCEPT !.failure = code]
           final == TransitionRunStatus(old, status, at)
           ended == [final EXCEPT !.result = BuildRunResult(final)]
<1>1. OpenLog(run.events, BuildProgress(run))
  BY TrueOpen DEF IsRunStatusTerminal, Terminal
<1>2. /\ old \in RunRecord /\ old.status = run.status
      /\ old.events = run.events
      /\ BuildProgress(old) = BuildProgress(run)
  BY DEF RunRecord, BuildProgress
<1> HIDE DEF old
<1>3. /\ final \in RunRecord /\ final.status = status
      /\ final.events = run.events
      /\ BuildProgress(final) = BuildProgress(run)
  BY ZenonT(60), <1>2 DEF TransitionRunStatus, RunRecord, BuildProgress,
              IsRunStatusTerminal, Terminal
<1> HIDE DEF final
<1>4. BuildRunResult(final) \in RunResult
  BY <1>3, ProgressType DEF BuildRunResult, RunResult, RunRecord
<1>5. /\ ended \in RunRecord /\ ended.status = status
      /\ ended.events = run.events
      /\ BuildProgress(ended) = BuildProgress(run)
  BY <1>3, <1>4 DEF RunRecord, BuildProgress
<1> HIDE DEF ended
<1>6. TrueLog(EmitRunEvent(ended, event, NoCase))
  BY <1>1, <1>5, EmitTrue
  DEF EventNames, TerminalEvents, IsRunStatusTerminal
<1>7. QED
  BY <1>6 DEF Finish, ended, final, old

LEMMA EndingsTrue ==
  ASSUME NEW run \in RunRecord, TrueLog(run), NEW at \in Int
  PROVE  /\ TrueLog(CompleteRun(run, at))
         /\ TrueLog(CancelRun(run, at))
         /\ \A code \in FailureCodes : TrueLog(FailRun(run, at, code))
<1>1. CASE run.status \notin {"queued", "running"}
  BY <1>1 DEF CompleteRun, FailRun, CancelRun, IsRunStatusCancellable
<1>2. CASE run.status \in {"queued", "running"}
  <2>1. run.failure \in FailureCodes \cup {NoFailure}
    BY DEF RunRecord
  <2>2. run = [run EXCEPT !.failure = run.failure]
    BY DEF RunRecord
  <2>3. TrueLog(Finish(run, "completed", at, "run.completed"))
    BY <1>2, <2>1, <2>2, FinishTrue DEF Terminal, TerminalEvents
  <2>4. TrueLog(Finish(run, "cancelled", at, "run.cancelled"))
    BY <1>2, <2>1, <2>2, FinishTrue DEF Terminal, TerminalEvents
  <2>5. \A code \in FailureCodes :
            TrueLog(Finish([run EXCEPT !.failure = code], "failed", at,
                           "run.failed"))
    BY <1>2, FinishTrue DEF Terminal, TerminalEvents
  <2>6. QED
    BY <1>2, <2>3, <2>4, <2>5
    DEF CompleteRun, FailRun, CancelRun, IsRunStatusCancellable
<1>3. QED
  BY <1>1, <1>2

\* Every log the store keeps is true.
LogInv == \A r \in RunIds : TrueLog(runs[r])

LEMMA NoRunTrue == TrueLog(NoRun)
  BY DEF NoRun, TrueLog, Grows

LEMMA MethodTrue ==
  ASSUME StoreInv, LogInv, NEW r \in Tracked,
         \/ MarkRunning(r)
         \/ Complete(r)
         \/ Cancel(r)
         \/ \E code \in FailureCodes : Fail(r, code)
         \/ \E c \in CaseIds :
                CaseStarted(r, c) \/ CaseCompleted(r, c) \/ CaseFailed(r, c)
  PROVE  LogInv'
<1>1. r \in RunIds /\ runs[r] \in RunRecord /\ TrueLog(runs[r]) /\ clock \in Int
  BY RunStoreAssumption DEF StoreInv, LogInv, Tracked
<1>2. PICK new : Update(r, new) /\ TrueLog(new)
  <2>1. CASE MarkRunning(r)
    BY <1>1, <2>1, MarkRunningTrue DEF MarkRunning
  <2>2. CASE Complete(r)
    BY <1>1, <2>2, EndingsTrue DEF Complete
  <2>3. CASE Cancel(r)
    BY <1>1, <2>3, EndingsTrue DEF Cancel
  <2>4. CASE \E code \in FailureCodes : Fail(r, code)
    BY <1>1, <2>4, EndingsTrue DEF Fail
  <2>5. ASSUME NEW c \in CaseIds,
               CaseStarted(r, c) \/ CaseCompleted(r, c) \/ CaseFailed(r, c)
        PROVE  \E new : Update(r, new) /\ TrueLog(new)
    BY <1>1, <2>5, CaseStartedTrue, CaseOutcomeTrue
    DEF CaseStarted, CaseCompleted, CaseFailed
  <2>6. QED
    BY <2>1, <2>2, <2>3, <2>4, <2>5
<1>3. \A q \in RunIds : runs'[q] = IF q = r THEN new ELSE runs[q]
  BY <1>1, <1>2 DEF Update, StoreInv
<1>4. \A q \in RunIds : TrueLog(runs'[q])
  BY <1>2, <1>3 DEF LogInv
<1>5. QED
  BY <1>4 DEF LogInv, TrueLog, Grows

LEMMA LogStep == StoreInv /\ LogInv /\ [Next]_vars => LogInv'
<1> SUFFICES ASSUME StoreInv, LogInv, [Next]_vars
             PROVE  LogInv'
  OBVIOUS
<1>1. CASE UNCHANGED vars \/ Tick
  BY <1>1 DEF LogInv, vars, Tick, TrueLog, Grows
<1>2. \A r \in RunIds : TrueLog(WithoutDropped(clock)[r])
  BY WithoutDroppedSound, NoRunTrue DEF LogInv
<1>3. CASE EnsureCapacity
  BY <1>2, <1>3 DEF EnsureCapacity, LogInv, TrueLog, Grows
<1>4. ASSUME NEW n \in 0 .. MaxTotalCases, TryCreateQueuedRun(n)
      PROVE  LogInv'
  <2>1. TrueLog(QueuedRun(n))
    BY QueuedTrue, RunStoreAssumption
  <2>2. \A r \in RunIds : runs'[r] \in {QueuedRun(n), WithoutDropped(clock)[r]}
    BY <1>4, DroppedEnded DEF TryCreateQueuedRun
  <2>3. \A r \in RunIds : TrueLog(runs'[r])
    BY <1>2, <2>1, <2>2
  <2>4. QED
    BY <2>3 DEF LogInv, TrueLog, Grows
<1>5. QED
  BY <1>1, <1>3, <1>4, MethodTrue DEF Next

\* A client that reads a run's log learns where the run stands and when to
\* stop: the newest event carries the current counters, progress never goes
\* back, and the log is closed exactly when the run has ended - for every
\* length of the ring, although it forgets the oldest events.
THEOREM LogsTellTheTruth == Spec => []LogEndsWithTheTruth
<1>1. Init => LogInv
  BY NoRunTrue DEF Init, LogInv
<1>2. LogInv => LogEndsWithTheTruth
  BY DEF LogInv, LogEndsWithTheTruth, TerminalEventClosesLog,
         ReplayEndsAtCurrentProgress, TrueLog, Grows, NoMoreThan, Tracked
<1>3. QED
  BY <1>1, <1>2, LogStep, StoreInvariant, PTL DEF Spec

-------------------------------------------------------------------------------
(***************************************************************************)
(* Part 7: eviction.                                                       *)
(***************************************************************************)

\* The runs are finitely many.
LEMMA RunsFinite ==
  ASSUME NEW S, S \subseteq RunIds
  PROVE  IsFiniteSet(S) /\ Cardinality(S) \in Nat
<1>1. IsFiniteSet(RunIds)
  BY FS_Interval, RunStoreAssumption DEF RunIds
<1>2. IsFiniteSet(S)
  BY <1>1, FS_Subset
<1>3. QED
  BY <1>2, FS_CardinalityType

\* What ensureCapacity keeps.
LEMMA TrackedAfterDropping ==
  ASSUME StoreInv, NEW now
  PROVE  {r \in RunIds : WithoutDropped(now)[r].status # "untracked"} =
            Tracked \ Dropped(now)
  BY NoRunSound DEF Tracked, WithoutDropped

\* The bound the store keeps.
RoomInv == Cardinality(Tracked) <= MaxTrackedRuns

LEMMA RoomStep == StoreInv /\ RoomInv /\ [Next]_vars => RoomInv'
<1> SUFFICES ASSUME StoreInv, RoomInv, [Next]_vars
             PROVE  RoomInv'
  OBVIOUS
<1>1. CASE UNCHANGED vars \/ Tick
  BY <1>1 DEF RoomInv, Tracked, vars, Tick
<1>2. ASSUME NEW S, S \subseteq Tracked
      PROVE  Cardinality(S) <= Cardinality(Tracked)
  BY <1>2, RunsFinite, FS_Subset DEF Tracked
<1>3. Cardinality(Tracked) \in Nat /\ MaxTrackedRuns \in Nat
  BY RunsFinite, RunStoreAssumption DEF Tracked
<1>4. CASE EnsureCapacity
  <2>1. Tracked' = Tracked \ Dropped(clock)
    BY <1>4, TrackedAfterDropping DEF EnsureCapacity, Tracked
  <2>2. Cardinality(Tracked') \in Nat
    BY RunsFinite DEF Tracked
  <2>3. QED
    BY <1>2, <1>3, <2>1, <2>2 DEF RoomInv
<1>5. ASSUME NEW n \in 0 .. MaxTotalCases, TryCreateQueuedRun(n)
      PROVE  RoomInv'
  <2> DEFINE kept == Tracked \ Dropped(clock)
  <2>1. Cardinality(kept) < MaxTrackedRuns
    BY <1>5 DEF TryCreateQueuedRun, HasCapacity
  <2>2. Tracked' \subseteq kept \cup {created + 1}
    BY <1>5, TrackedAfterDropping, DroppedEnded
    DEF TryCreateQueuedRun, Tracked
  <2>3. IsFiniteSet(kept) /\ Cardinality(kept) \in Nat
    BY RunsFinite DEF Tracked
  <2> HIDE DEF kept
  <2>4. /\ IsFiniteSet(kept \cup {created + 1})
        /\ Cardinality(kept \cup {created + 1}) <= Cardinality(kept) + 1
    <3> DEFINE new == created + 1
    <3> HIDE DEF new
    <3>1. /\ IsFiniteSet(kept \cup {new})
          /\ Cardinality(kept \cup {new}) =
                IF new \in kept THEN Cardinality(kept) ELSE Cardinality(kept) + 1
      BY <2>3, FS_AddElement
    <3>2. QED
      BY <2>3, <3>1 DEF new
  <2>5. Cardinality(Tracked') <= Cardinality(kept \cup {created + 1})
    BY <2>2, <2>4, FS_Subset
  <2>6. /\ Cardinality(Tracked') \in Nat
        /\ Cardinality(kept \cup {created + 1}) \in Nat
    BY <2>4, RunsFinite, FS_CardinalityType DEF Tracked
  <2>7. QED
    BY <1>3, <2>1, <2>3, <2>4, <2>5, <2>6 DEF RoomInv
<1>6. ASSUME NEW r \in Tracked, NEW new,
             Update(r, new), StepsTo(runs[r], new)
      PROVE  RoomInv'
  <2>1. Tracked' \subseteq Tracked
    BY <1>6 DEF Update, Tracked, StoreInv
  <2>2. Cardinality(Tracked') \in Nat
    BY RunsFinite DEF Tracked
  <2>3. QED
    BY <1>2, <1>3, <2>1, <2>2 DEF RoomInv
<1>7. QED
  BY <1>1, <1>4, <1>5, <1>6, MethodStep DEF Next

\* With no run active there is always one to evict: the oldest of those that
\* have not expired counts only itself among the older ones.
LEMMA AlwaysRoom ==
  ASSUME StoreInv, RoomInv, ~ HasActiveRun, MaxTrackedRuns > 0,
         NEW now
  PROVE  HasCapacity(now)
<1> DEFINE kept == Tracked \ Expired(now)
           surplus == Cardinality(kept) - MaxTrackedRuns + 1
           older(r) == {q \in TerminalRuns \cap kept : q <= r}
<1>1. Tracked = TerminalRuns
  BY DEF HasActiveRun, Tracked, TerminalRuns, IsRunStatusTerminal, Terminal,
         StoreInv, RunRecord
<1>2. Evicted(now) = {r \in kept : Cardinality(older(r)) <= surplus}
  BY <1>1 DEF Evicted
<1>3. Tracked \ Dropped(now) = kept \ Evicted(now)
  BY DEF Dropped
<1>4. /\ IsFiniteSet(kept) /\ Cardinality(kept) \in Nat
      /\ IsFiniteSet(kept \ Evicted(now))
      /\ Cardinality(kept \ Evicted(now)) \in Nat
  BY RunsFinite DEF Tracked
<1>5. Cardinality(kept) <= MaxTrackedRuns /\ MaxTrackedRuns \in Nat
  <2>1. IsFiniteSet(Tracked) /\ Cardinality(Tracked) \in Nat
    BY RunsFinite DEF Tracked
  <2>2. Cardinality(kept) <= Cardinality(Tracked)
    BY <2>1, FS_Subset
  <2>3. QED
    BY <1>4, <2>1, <2>2, RunStoreAssumption DEF RoomInv
<1>6. CASE Cardinality(kept) < MaxTrackedRuns
  <2> HIDE DEF kept
  <2>1. Cardinality(kept \ Evicted(now)) <= Cardinality(kept)
    BY <1>4, FS_Subset
  <2>2. QED
    BY <1>3, <1>4, <1>5, <1>6, <2>1 DEF HasCapacity
<1>7. CASE Cardinality(kept) = MaxTrackedRuns
  <2>1. surplus = 1
    BY <1>4, <1>5, <1>7
  <2>2. kept # {} /\ kept \subseteq Nat
    <3>1. kept # {}
      BY <1>7, FS_EmptySet
    <3>2. kept \subseteq Nat
      BY DEF Tracked, RunIds
    <3>3. QED
      BY <3>1, <3>2
  <2>3. PICK m \in kept : \A k \in kept : m <= k
    BY <2>2, HasLeast
  <2>4. older(m) = {m}
    BY <1>1, <2>2, <2>3
  <2>5. Cardinality(older(m)) = 1
    BY <2>4, FS_Singleton
  <2>6. m \in Evicted(now)
    BY <1>2, <2>1, <2>3, <2>5
  <2> HIDE DEF kept
  <2>7. kept \ Evicted(now) \subseteq kept \ {m}
    BY <2>6
  <2>8. /\ IsFiniteSet(kept \ {m})
        /\ Cardinality(kept \ {m}) = Cardinality(kept) - 1
    BY <1>4, <2>3, FS_RemoveElement
  <2>9. Cardinality(kept \ Evicted(now)) <= Cardinality(kept \ {m})
    BY <2>7, <2>8, FS_Subset
  <2>10. Cardinality(kept \ Evicted(now)) < MaxTrackedRuns
    BY <1>4, <1>5, <1>7, <2>8, <2>9
  <2>11. QED
    BY <1>3, <2>10 DEF HasCapacity
<1>8. QED
  BY <1>4, <1>5, <1>6, <1>7

\* A run that a step forgets has been dropped by ensureCapacity.
LEMMA ForgottenWasDropped ==
  ASSUME StoreInv, [Next]_vars, NEW r \in Tracked, runs'[r] = NoRun
  PROVE  /\ r \in Dropped(clock)
         /\ \A q \in Dropped(clock) : runs'[q] = NoRun
<1>1. r \in RunIds /\ runs[r] # NoRun /\ r <= created
  BY NoRunSound DEF Tracked, StoreInv, RunIds
<1>2. runs' \in [RunIds -> RunRecord]
  BY NextInv DEF StoreInv
<1>3. CASE UNCHANGED vars \/ Tick
  BY <1>1, <1>3 DEF vars, Tick
<1>4. Dropped(clock) \subseteq RunIds
  BY DroppedEnded DEF TerminalRuns
<1>5. CASE EnsureCapacity
  BY <1>1, <1>4, <1>5 DEF EnsureCapacity, WithoutDropped
<1>6. ASSUME NEW n \in 0 .. MaxTotalCases, TryCreateQueuedRun(n)
      PROVE  /\ r \in Dropped(clock)
             /\ \A q \in Dropped(clock) : runs'[q] = NoRun
  <2>1. created + 1 \notin TerminalRuns
    BY NoRunSound, <1>6, RunStoreAssumption
    DEF TerminalRuns, IsRunStatusTerminal, Terminal, StoreInv, RunIds
  <2>2. \A q \in RunIds : q # created + 1 => runs'[q] = WithoutDropped(clock)[q]
    BY <1>6, DroppedEnded DEF TryCreateQueuedRun
  <2>3. r # created + 1
    BY <1>1 DEF StoreInv, RunIds
  <2>4. QED
    BY <1>1, <1>4, <2>1, <2>2, <2>3, DroppedEnded DEF WithoutDropped
<1>7. ASSUME NEW q \in Tracked, NEW new,
             Update(q, new), StepsTo(runs[q], new)
      PROVE  FALSE
  <2>1. runs'[r] = IF r = q THEN new ELSE runs[r]
    BY <1>1, <1>7 DEF Update, StoreInv
  <2>2. new = NoRun /\ r = q
    BY <1>1, <2>1
  <2>3. new.status # "untracked"
    BY <1>7 DEF StepsTo, Tracked, Terminal
  <2>4. QED
    BY <2>2, <2>3, NoRunSound
<1>8. QED
  BY <1>3, <1>5, <1>6, <1>7, MethodStep DEF Next

\* An older run that has ended goes no later than a younger one.
LEMMA OlderGoesFirst ==
  ASSUME StoreInv, NEW now,
         NEW r \in Evicted(now),
         NEW q \in TerminalRuns, q < r
  PROVE  q \in Dropped(now)
<1> DEFINE kept == Tracked \ Expired(now)
           older(p) == {x \in TerminalRuns \cap kept : x <= p}
           surplus == Cardinality(kept) - MaxTrackedRuns + 1
<1>1. CASE q \in Expired(now)
  BY <1>1 DEF Dropped
<1>2. CASE q \notin Expired(now)
  <2>1. q \in kept
    BY <1>2 DEF TerminalRuns, Tracked, IsRunStatusTerminal, Terminal
  <2>2. Cardinality(older(r)) <= surplus
    BY DEF Evicted
  <2>3. older(q) \subseteq older(r)
    BY DEF TerminalRuns, RunIds, Evicted
  <2>4. /\ IsFiniteSet(older(r)) /\ Cardinality(older(r)) \in Nat
        /\ Cardinality(older(q)) \in Nat /\ Cardinality(kept) \in Nat
    <3>1. kept \subseteq RunIds /\ older(r) \subseteq RunIds /\ older(q) \subseteq RunIds
      BY DEF Tracked
    <3>2. QED
      BY <3>1, RunsFinite
  <2>5. Cardinality(older(q)) <= Cardinality(older(r))
    BY <2>3, <2>4, FS_Subset
  <2>6. Cardinality(older(q)) <= surplus
    BY <2>2, <2>4, <2>5, RunStoreAssumption
  <2>7. q \in Evicted(now)
    BY <2>1, <2>6 DEF Evicted
  <2>8. QED
    BY <2>7 DEF Dropped
<1>3. QED
  BY <1>1, <1>2

LEMMA EvictionStep ==
  ASSUME StoreInv, [Next]_vars, NEW r \in Tracked, runs'[r] = NoRun
  PROVE  /\ r \in TerminalRuns
         /\ \/ r \in Expired(clock)
            \/ \A q \in TerminalRuns : q < r => runs'[q] = NoRun
<1>1. /\ r \in Dropped(clock)
      /\ \A q \in Dropped(clock) : runs'[q] = NoRun
  BY ForgottenWasDropped
<1>2. r \in TerminalRuns
  BY <1>1, DroppedEnded
<1>3. CASE r \in Evicted(clock)
  BY <1>1, <1>2, <1>3, OlderGoesFirst
<1>4. QED
  BY <1>1, <1>2, <1>3 DEF Dropped

\* A set of naturals below a bound has a greatest element.
LEMMA HasGreatest ==
  ASSUME NEW S \in SUBSET Nat, S # {},
         NEW b \in Nat, \A s \in S : s <= b
  PROVE  \E m \in S : \A s \in S : s <= m
<1> DEFINE U == {k \in Nat : \A s \in S : s <= k}
<1>1. PICK k \in U : \A j \in U : k <= j
  BY HasLeast
<1>2. CASE k \in S
  BY <1>1, <1>2
<1>3. CASE k \notin S
  <2>1. \A s \in S : s \in Nat /\ s < k
    BY <1>1, <1>3
  <2>2. k - 1 \in Nat /\ \A s \in S : s <= k - 1
    <3>1. PICK s \in S : TRUE
      OBVIOUS
    <3>2. s \in Nat /\ s < k /\ k \in Nat
      BY <1>1, <2>1
    <3>3. QED
      BY <2>1, <3>2
  <2>3. QED
    BY <1>1, <2>2
<1>4. QED
  BY <1>2, <1>3

\* What a step that forgets an unexpired run leaves: the runs evicted are all
\* among the older ones of the youngest evicted, which are no more than the
\* surplus.
LEMMA SparingStep ==
  ASSUME StoreInv, [Next]_vars,
         NEW r \in Tracked \ Expired(clock), runs'[r] = NoRun
  PROVE  Cardinality({q \in Tracked : runs'[q] # NoRun}) >= MaxTrackedRuns - 1
<1> DEFINE kept == Tracked \ Expired(clock)
           surplus == Cardinality(kept) - MaxTrackedRuns + 1
           older(p) == {x \in TerminalRuns \cap kept : x <= p}
           left == {q \in Tracked : runs'[q] # NoRun}
<1>1. r \in Evicted(clock)
  BY ForgottenWasDropped DEF Dropped
<1>2. /\ \A p \in Evicted(clock) : p \in RunIds /\ p \in TerminalRuns \cap kept
      /\ \A p \in Evicted(clock) : Cardinality(older(p)) <= surplus
  BY DEF Evicted, TerminalRuns
<1>3. PICK m \in Evicted(clock) : \A p \in Evicted(clock) : p <= m
  <2>1. /\ Evicted(clock) \subseteq Nat /\ Evicted(clock) # {}
        /\ \A p \in Evicted(clock) : p <= MaxRuns
    BY <1>1, <1>2 DEF RunIds
  <2>2. QED
    BY <2>1, RunStoreAssumption, HasGreatest
<1>4. kept \ older(m) \subseteq left
  <2>1. SUFFICES ASSUME NEW q \in kept, q \notin older(m), runs'[q] = NoRun
                 PROVE  FALSE
    OBVIOUS
  <2>2. q \in Evicted(clock)
    BY <2>1, ForgottenWasDropped DEF Dropped
  <2>3. QED
    BY <1>2, <1>3, <2>1, <2>2
<1>5. /\ IsFiniteSet(kept) /\ Cardinality(kept) \in Nat
      /\ IsFiniteSet(older(m)) /\ Cardinality(older(m)) \in Nat
      /\ IsFiniteSet(left) /\ Cardinality(left) \in Nat
  <2>1. kept \subseteq RunIds /\ older(m) \subseteq RunIds /\ left \subseteq RunIds
    BY DEF Tracked
  <2>2. QED
    BY <2>1, RunsFinite
<1>6. Cardinality(kept \ older(m)) = Cardinality(kept) - Cardinality(older(m))
  <2>1. kept \cap older(m) = older(m)
    OBVIOUS
  <2> HIDE DEF kept, older
  <2>2. QED
    BY <1>5, <2>1, FS_Difference
<1>7. Cardinality(kept \ older(m)) <= Cardinality(left)
  <2> HIDE DEF kept, older, left
  <2>1. QED
    BY <1>4, <1>5, FS_Subset
<1>8. Cardinality(older(m)) <= surplus
  BY <1>2
<1> HIDE DEF kept, older, left
<1>9. Cardinality(left) >= MaxTrackedRuns - 1
  BY <1>5, <1>6, <1>7, <1>8, RunStoreAssumption
<1>10. QED
  BY <1>9 DEF left

\* Whatever is asked of it, the store keeps no more runs than it may, can make
\* room for a new run whenever none is active, and to do so forgets only ended
\* runs: the expired ones, and of the rest the oldest, as few as will do.
THEOREM EvictionIsFair == Spec => EvictionKeepsItsPromise
<1>1. Init => RoomInv
  <2>1. Init => Tracked = {}
    BY NoRunSound DEF Init, Tracked
  <2>2. QED
    BY <2>1, FS_EmptySet, RunStoreAssumption DEF RoomInv
<1>2. StoreInv /\ RoomInv => RoomForTheNextRun
  BY AlwaysRoom DEF RoomForTheNextRun, RoomInv
<1>3. StoreInv /\ [Next]_vars
        => [\A r \in Tracked :
                runs'[r] = NoRun
                    => /\ r \in TerminalRuns
                       /\ \/ r \in Expired(clock)
                          \/ \A q \in TerminalRuns :
                                q < r => runs'[q] = NoRun]_vars
  BY EvictionStep
<1>4. StoreInv /\ [Next]_vars
        => [(\E r \in Tracked \ Expired(clock) : runs'[r] = NoRun)
                => Cardinality({q \in Tracked : runs'[q] # NoRun})
                        >= MaxTrackedRuns - 1]_vars
  BY SparingStep
<1>5. QED
  BY <1>1, <1>2, <1>3, <1>4, RoomStep, StoreInvariant, PTL
  DEF Spec, EvictionKeepsItsPromise, ForgetsOldestFirst, SparesWhatItCan

-------------------------------------------------------------------------------
(***************************************************************************)
(* Part 8: the streams.  A step of the store does one of three things to a *)
(* run - nothing its streams could see, forgetting it once it has ended,   *)
(* or pushing one event into its log - and the log and the history of a    *)
(* run grow by the same event in the same step.                            *)
(***************************************************************************)

\* How many events of a history a log still holds.
KeptOf(past) == IF Len(past) < MaxEventsPerRun THEN Len(past)
                                               ELSE MaxEventsPerRun

\* The events of s are some of the events of past, without a gap.
IsPiece(s, past) ==
    \E i \in 0 .. Len(past) - Len(s) :
        \A j \in 1 .. Len(s) : s[j] = past[i + j]

\* The events of s are the newest events of past.
IsTail(s, past) ==
    /\ Len(s) <= Len(past)
    /\ \A j \in 1 .. Len(s) : s[j] = past[Len(past) - Len(s) + j]

\* The log of a run the store has (or has still to create) is what the ring
\* keeps of its history.
LogOfHistory(r) ==
    runs[r].status # "untracked" \/ r > created =>
        /\ Len(runs[r].events) = KeptOf(history[r])
        /\ IsTail(runs[r].events, history[r])

\* The run will emit no more.
Silent(r) == r <= created /\ runs[r].status \notin {"queued", "running"}

\* A stream, where it stands with the run it follows: an open one follows an
\* active run and has its newest events; one the end of the run has closed has
\* them for good; any other has had some, without a gap.
StreamOk(t) ==
    LET s == streams[t]
    IN  s.state # "unopened" =>
            /\ s.runId \in RunIds
            /\ IsPiece(s.sent, history[s.runId])
            /\ s.state = "open" =>
                  IsRunStatusCancellable(runs[s.runId].status)
            /\ s.state = "closed" /\ s.reason = "run-terminal" =>
                  Silent(s.runId)
            /\ s.state = "open" \/ s.reason = "run-terminal" =>
                  /\ Len(s.sent) >= KeptOf(history[s.runId])
                  /\ IsTail(s.sent, history[s.runId])

StreamTypes ==
    /\ streams \in [Streams -> Stream]
    /\ listeners \in [RunIds -> SUBSET Streams]
    /\ sseStreams \subseteq Streams
    /\ history \in [RunIds -> Seq(RunEvent)]

StreamInv ==
    /\ StreamTypes
    /\ HeldExactlyWhileOpen
    /\ \A r \in RunIds : LogOfHistory(r)
    /\ \A t \in Streams : StreamOk(t)

FullInv == StoreInv /\ LogInv /\ StreamInv

-------------------------------------------------------------------------------
(***************************************************************************)
(* Part 9: pieces and tails of a history.                                  *)
(***************************************************************************)

\* The log new is what the ring makes of the log old when one event is pushed.
Pushed(old, new) ==
    /\ new # <<>>
    /\ Len(new) = IF Len(old) + 1 > MaxEventsPerRun THEN MaxEventsPerRun
                                                    ELSE Len(old) + 1
    /\ \A i \in 1 .. Len(new) - 1 : new[i] = old[Len(old) + 1 - Len(new) + i]

\* A piece written as a subsequence, the form the property has.
LEMMA PieceIsSubSeq ==
  ASSUME NEW s \in Seq(RunEvent), NEW past \in Seq(RunEvent),
         NEW i \in 0 .. Len(past) - Len(s),
         \A j \in 1 .. Len(s) : s[j] = past[i + j]
  PROVE  s = SubSeq(past, i + 1, i + Len(s))
<1> DEFINE n == Len(s)
           m == i + 1
           q == i + n
           t == SubSeq(past, m, q)
<1>1. n \in Nat /\ Len(past) \in Nat /\ i \in Nat
  BY LenProperties
<1>2. m \in Int /\ q \in Int /\ q - m + 1 = n /\ q <= Len(past) /\ 1 <= m
      /\ (m <= q <=> n # 0)
  BY <1>1
<1>3. \A k \in 1 .. n : m + k - 1 = i + k
  BY <1>1
<1> HIDE DEF m, q
<1>4. \A k \in m .. q : past[k] \in RunEvent
  BY <1>1, <1>2, ElementOfSeq
<1>5. /\ t \in Seq(RunEvent)
      /\ Len(t) = IF m <= q THEN q - m + 1 ELSE 0
      /\ \A k \in 1 .. q - m + 1 : t[k] = past[m + k - 1]
  BY <1>2, <1>4, SubSeqProperties
<1> HIDE DEF t
<1>6. Len(t) = n /\ \A k \in 1 .. n : t[k] = s[k]
  BY <1>1, <1>2, <1>3, <1>5
<1>7. t = s
  BY <1>5, <1>6, SeqEqual
<1>8. QED
  BY <1>7 DEF t, m, q

\* A tail is a piece.
LEMMA TailIsPiece ==
  ASSUME NEW s \in Seq(RunEvent), NEW past \in Seq(RunEvent), IsTail(s, past)
  PROVE  IsPiece(s, past)
<1>1. Len(s) \in Nat /\ Len(past) \in Nat /\ Len(s) <= Len(past)
  BY LenProperties DEF IsTail
<1>2. Len(past) - Len(s) \in 0 .. Len(past) - Len(s)
  BY <1>1
<1>3. QED
  BY <1>2 DEF IsPiece, IsTail

\* A history that grows keeps its pieces.
LEMMA PieceStays ==
  ASSUME NEW s \in Seq(RunEvent), NEW past \in Seq(RunEvent),
         NEW e \in RunEvent, IsPiece(s, past)
  PROVE  IsPiece(s, Append(past, e))
<1>1. /\ Len(s) \in Nat /\ Len(past) \in Nat
      /\ Len(Append(past, e)) = Len(past) + 1
      /\ \A k \in 1 .. Len(past) : Append(past, e)[k] = past[k]
  BY LenProperties, AppendProperties
<1>2. PICK i \in 0 .. Len(past) - Len(s) :
          \A j \in 1 .. Len(s) : s[j] = past[i + j]
  BY DEF IsPiece
<1>3. /\ i \in 0 .. Len(past) + 1 - Len(s)
      /\ \A j \in 1 .. Len(s) : i + j \in 1 .. Len(past)
  BY <1>1, <1>2
<1>4. \A j \in 1 .. Len(s) : s[j] = Append(past, e)[i + j]
  BY <1>1, <1>2, <1>3
<1>5. QED
  BY <1>1, <1>3, <1>4 DEF IsPiece

\* A stream that sends what the history gains keeps the newest events of it.
LEMMA TailGrows ==
  ASSUME NEW s \in Seq(RunEvent), NEW past \in Seq(RunEvent),
         NEW e \in RunEvent, IsTail(s, past)
  PROVE  IsTail(Append(s, e), Append(past, e))
<1> DEFINE n == Len(s)
           m == Len(past)
           u == Append(s, e)
           p == Append(past, e)
<1>1. n \in Nat /\ m \in Nat /\ n <= m
  BY LenProperties DEF IsTail
<1>2. /\ Len(u) = n + 1 /\ Len(p) = m + 1
      /\ u[n + 1] = e /\ p[m + 1] = e
      /\ \A k \in 1 .. n : u[k] = s[k]
      /\ \A k \in 1 .. m : p[k] = past[k]
  BY AppendProperties
<1>3. \A j \in 1 .. n : s[j] = past[m - n + j]
  BY DEF IsTail
<1> HIDE DEF n, m, u, p
<1>4. ASSUME NEW j \in 1 .. n + 1
      PROVE  u[j] = p[m + 1 - (n + 1) + j]
  <2>1. m + 1 - (n + 1) + j = m - n + j
    BY <1>1
  <2>2. CASE j = n + 1
    <3>1. m - n + j = m + 1
      BY <1>1, <2>2
    <3>2. QED
      BY <1>2, <2>1, <2>2, <3>1
  <2>3. CASE j # n + 1
    <3>1. j \in 1 .. n /\ m - n + j \in 1 .. m
      BY <1>1, <2>3
    <3>2. QED
      BY <1>2, <1>3, <2>1, <3>1
  <2>4. QED
    BY <2>2, <2>3
<1>5. n + 1 <= m + 1
  BY <1>1
<1>6. IsTail(u, p)
  BY <1>1, <1>2, <1>4, <1>5 DEF IsTail
<1>7. QED
  BY <1>6 DEF u, p

\* The kept part grows by no more than the one event.
LEMMA KeptGrows ==
  ASSUME NEW past \in Seq(RunEvent), NEW e \in RunEvent
  PROVE  /\ KeptOf(past) \in Nat
         /\ KeptOf(Append(past, e)) =
                IF KeptOf(past) + 1 > MaxEventsPerRun THEN MaxEventsPerRun
                                                      ELSE KeptOf(past) + 1
<1>1. Len(past) \in Nat /\ Len(Append(past, e)) = Len(past) + 1
  BY LenProperties, AppendProperties
<1>2. QED
  BY <1>1, RunRecordsAssumption DEF KeptOf

\* The log the ring pushes an event into stays the newest part of the history
\* that gains this event.
LEMMA PushedIsTail ==
  ASSUME NEW old \in Seq(RunEvent), NEW new \in Seq(RunEvent),
         NEW past \in Seq(RunEvent), Pushed(old, new),
         IsTail(old, past), Len(old) = KeptOf(past)
  PROVE  LET grown == Append(past, Newest(new))
         IN  /\ Newest(new) \in RunEvent
             /\ IsTail(new, grown) /\ Len(new) = KeptOf(grown)
<1> DEFINE e == Newest(new)
           grown == Append(past, e)
           k == Len(old)
           n == Len(new)
           m == Len(past)
<1>1. n \in Nat \ {0} /\ k \in Nat /\ m \in Nat /\ k <= m
  BY EmptySeq, LenProperties DEF Pushed, IsTail
<1>2. e \in RunEvent /\ e = new[n]
  BY <1>1, ElementOfSeq DEF Newest
<1> HIDE DEF e
<1>3. Len(new) = KeptOf(grown)
  BY <1>2, KeptGrows DEF Pushed
<1>4. /\ Len(grown) = m + 1 /\ grown[m + 1] = e
      /\ \A i \in 1 .. m : grown[i] = past[i]
  BY <1>2, AppendProperties
<1>5. n = IF k + 1 > MaxEventsPerRun THEN MaxEventsPerRun ELSE k + 1
  BY DEF Pushed
<1>6. n <= k + 1 /\ n <= m + 1
  BY <1>1, <1>5, RunRecordsAssumption
<1>7. \A i \in 1 .. n - 1 : new[i] = old[k + 1 - n + i]
  BY DEF Pushed
<1>8. \A j \in 1 .. k : old[j] = past[m - k + j]
  BY DEF IsTail
<1> HIDE DEF grown, k, n, m
<1>9. ASSUME NEW j \in 1 .. n
      PROVE  new[j] = grown[m + 1 - n + j]
  <2>1. CASE j = n
    <3>1. m + 1 - n + j = m + 1
      BY <1>1, <2>1
    <3>2. QED
      BY <1>2, <1>4, <2>1, <3>1
  <2>2. CASE j # n
    <3> DEFINE i == k + 1 - n + j
    <3>1. j \in 1 .. n - 1 /\ i \in 1 .. k
      BY <1>1, <1>6, <2>2
    <3>2. m - k + i = m + 1 - n + j /\ m - k + i \in 1 .. m
      BY <1>1, <1>6, <3>1
    <3>3. new[j] = old[i]
      BY <1>7, <3>1
    <3> HIDE DEF i
    <3>4. QED
      BY <1>4, <1>8, <3>1, <3>2, <3>3
  <2>3. QED
    BY <2>1, <2>2
<1>10. IsTail(new, grown)
  <2>1. Len(new) = n
    BY DEF n
  <2>2. Len(grown) = m + 1
    BY <1>4
  <2>3. Len(new) <= Len(grown)
    BY <1>6, <2>1, <2>2
  <2>4. ASSUME NEW j \in 1 .. Len(new)
        PROVE  new[j] = grown[Len(grown) - Len(new) + j]
    <3>1. new[j] = grown[m + 1 - n + j]
      BY <1>9, <2>1
    <3>2. m + 1 - n + j = Len(grown) - Len(new) + j
      BY <1>1, <2>1, <2>2
    <3>3. QED
      BY <3>1, <3>2
  <2>5. QED
    BY <2>3, <2>4 DEF IsTail
<1>11. QED
  BY <1>2, <1>3, <1>10 DEF grown, e

-------------------------------------------------------------------------------
(***************************************************************************)
(* Part 10: what a step of the store does to one run, as its streams see   *)
(* it.                                                                     *)
(***************************************************************************)

\* A run that has not ended and keeps its log, or pushes one event into it.
Moves(old, new) ==
    \/ /\ new.events = old.events
       /\ new.status = "untracked" <=> old.status = "untracked"
    \/ /\ Pushed(old.events, new.events)
       /\ ~ IsRunStatusTerminal(old.status)
       /\ new.status # "untracked"

LEMMA EmitPushes ==
  ASSUME NEW run \in RunRecord, NEW name \in EventNames,
         NEW c \in CaseIds \cup {NoCase}
  PROVE  Pushed(run.events, EmitRunEvent(run, name, c).events)
<1> DEFINE e   == [event |-> name, caseId |-> c,
                   progress |-> BuildProgress(run)]
           old == run.events
           log == Append(old, e)
           new == EmitRunEvent(run, name, c).events
<1>1. old \in Seq(RunEvent) /\ e \in RunEvent
  BY ProgressType DEF RunRecord, RunEvent
<1>2. /\ Len(new) \in Nat \ {0} /\ new # <<>>
      /\ \E d \in Nat :
            /\ Len(new) + d = Len(old) + 1
            /\ \A i \in 1 .. Len(new) - 1 : new[i] = old[i + d]
  BY EmitAppends
<1>3. new = IF Len(log) > MaxEventsPerRun
            THEN SubSeq(log, Len(log) - MaxEventsPerRun + 1, Len(log))
            ELSE log
  <2> DEFINE kept == IF Len(log) > MaxEventsPerRun
                     THEN SubSeq(log, Len(log) - MaxEventsPerRun + 1, Len(log))
                     ELSE log
  <2>1. EmitRunEvent(run, name, c) = [run EXCEPT !.events = kept]
    BY DEF EmitRunEvent
  <2> HIDE DEF kept
  <2>2. new = kept
    BY <2>1 DEF RunRecord
  <2>3. QED
    BY <2>2 DEF kept
<1> HIDE DEF e, old, new
<1>4. log \in Seq(RunEvent) /\ Len(log) = Len(old) + 1 /\ Len(old) \in Nat
  BY <1>1, LenProperties, AppendProperties
<1> HIDE DEF log
<1>5. Len(new) = IF Len(old) + 1 > MaxEventsPerRun THEN MaxEventsPerRun
                                                   ELSE Len(old) + 1
  <2>1. CASE Len(log) > MaxEventsPerRun
    <3> DEFINE m == Len(log) - MaxEventsPerRun + 1
               n == Len(log)
    <3>1. m \in 1 .. n /\ n \in Nat /\ n - m + 1 = MaxEventsPerRun
      BY <1>4, <2>1, RunRecordsAssumption
    <3>2. \A i \in m .. n : log[i] \in RunEvent
      BY <1>4, <3>1, ElementOfSeq
    <3>3. new = SubSeq(log, m, n)
      BY <1>3, <2>1
    <3> HIDE DEF m, n
    <3>4. Len(new) = IF m <= n THEN n - m + 1 ELSE 0
      BY <3>1, <3>2, <3>3, SubSeqProperties
    <3>5. QED
      BY <1>4, <2>1, <3>1, <3>4
  <2>2. CASE ~ (Len(log) > MaxEventsPerRun)
    BY <1>3, <1>4, <2>2
  <2>3. QED
    BY <2>1, <2>2
<1>6. \A i \in 1 .. Len(new) - 1 : new[i] = old[Len(old) + 1 - Len(new) + i]
  <2>1. PICK d \in Nat : /\ Len(new) + d = Len(old) + 1
                         /\ \A i \in 1 .. Len(new) - 1 : new[i] = old[i + d]
    BY <1>2
  <2>2. Len(new) \in Nat /\ Len(old) \in Nat /\ Len(new) + d = Len(old) + 1
    BY <1>2, <1>4, <2>1
  <2>3. \A i \in 1 .. Len(new) - 1 : i + d = Len(old) + 1 - Len(new) + i
    BY <2>2
  <2>4. QED
    BY <2>1, <2>3
<1>7. Pushed(old, new)
  BY <1>2, <1>5, <1>6 DEF Pushed
<1>8. QED
  BY <1>7 DEF old, new

\* Every method of the store, on a run it has.
LEMMA MethodsMove ==
  ASSUME NEW run \in RunRecord, run.status # "untracked", NEW at \in Int
  PROVE  /\ Moves(run, MarkRunRunning(run, at))
         /\ Moves(run, CompleteRun(run, at))
         /\ Moves(run, CancelRun(run, at))
         /\ \A code \in FailureCodes : Moves(run, FailRun(run, at, code))
<1>1. ASSUME NEW mid \in RunRecord, mid.events = run.events,
             mid.status # "untracked", run.status \in {"queued", "running"},
             NEW name \in EventNames
      PROVE  Moves(run, EmitRunEvent(mid, name, NoCase))
  <2>1. Pushed(run.events, EmitRunEvent(mid, name, NoCase).events)
    BY <1>1, EmitPushes
  <2>2. EmitRunEvent(mid, name, NoCase).status = mid.status
    BY EmitFrame
  <2>3. QED
    BY <1>1, <2>1, <2>2 DEF Moves, IsRunStatusTerminal, Terminal
<1>2. ASSUME run.status \in {"queued", "running"}, NEW status \in Terminal,
             NEW event \in EventNames,
             NEW code \in FailureCodes \cup {NoFailure}
      PROVE  Moves(run, Finish([run EXCEPT !.failure = code], status, at, event))
  <2> DEFINE old == [run EXCEPT !.failure = code]
             final == TransitionRunStatus(old, status, at)
             ended == [final EXCEPT !.result = BuildRunResult(final)]
  <2>1. old \in RunRecord /\ old.status = run.status /\ old.events = run.events
    BY DEF RunRecord
  <2> HIDE DEF old
  <2>2. final \in RunRecord /\ final.status = status /\ final.events = run.events
    BY ZenonT(60), <1>2, <2>1 DEF TransitionRunStatus, RunRecord, IsRunStatusTerminal,
                      Terminal
  <2> HIDE DEF final
  <2>3. BuildRunResult(final) \in RunResult
    BY <2>2, ProgressType, <1>2 DEF BuildRunResult, RunResult, RunRecord
  <2>4. ended \in RunRecord /\ ended.status = status /\ ended.events = run.events
    BY <2>2, <2>3 DEF RunRecord
  <2> HIDE DEF ended
  <2>5. ended.status # "untracked"
    BY <2>4 DEF Terminal
  <2>6. Moves(run, EmitRunEvent(ended, event, NoCase))
    BY <1>1, <1>2, <2>4, <2>5
  <2>7. QED
    BY <2>6 DEF Finish, ended, final, old
<1>3. Moves(run, run)
  BY DEF Moves
<1>4. Moves(run, MarkRunRunning(run, at))
  <2>1. CASE run.status # "queued"
    BY <1>3, <2>1 DEF MarkRunRunning
  <2>2. CASE run.status = "queued"
    <3> DEFINE mid == TransitionRunStatus(run, "running", at)
    <3>1. mid \in RunRecord /\ mid.status = "running" /\ mid.events = run.events
      BY <2>2 DEF TransitionRunStatus, RunRecord, IsRunStatusTerminal, Terminal
    <3> HIDE DEF mid
    <3>2. Moves(run, EmitRunEvent(mid, "run.started", NoCase))
      BY <1>1, <2>2, <3>1 DEF EventNames
    <3>3. QED
      BY <2>2, <3>2 DEF MarkRunRunning, mid
  <2>3. QED
    BY <2>1, <2>2
<1>5. CASE run.status \notin {"queued", "running"}
  BY <1>3, <1>4, <1>5 DEF CompleteRun, FailRun, CancelRun, IsRunStatusCancellable
<1>6. CASE run.status \in {"queued", "running"}
  <2>1. run.failure \in FailureCodes \cup {NoFailure}
        /\ run = [run EXCEPT !.failure = run.failure]
    BY DEF RunRecord
  <2>2. Moves(run, Finish(run, "completed", at, "run.completed"))
    BY <1>2, <1>6, <2>1 DEF Terminal, EventNames
  <2>3. Moves(run, Finish(run, "cancelled", at, "run.cancelled"))
    BY <1>2, <1>6, <2>1 DEF Terminal, EventNames
  <2>4. \A code \in FailureCodes :
            Moves(run, Finish([run EXCEPT !.failure = code], "failed", at,
                              "run.failed"))
    BY <1>2, <1>6 DEF Terminal, EventNames
  <2>5. QED
    BY <1>4, <1>6, <2>2, <2>3, <2>4
    DEF CompleteRun, FailRun, CancelRun, IsRunStatusCancellable
<1>7. QED
  BY <1>5, <1>6

LEMMA CasesMove ==
  ASSUME NEW run \in RunRecord, run.status # "untracked", NEW c \in CaseIds
  PROVE  /\ Moves(run, RecordCaseStarted(run, c))
         /\ Moves(run, RecordCaseCompleted(run, c))
         /\ Moves(run, RecordCaseFailed(run, c))
<1>1. CASE run.status # "running"
  BY <1>1 DEF RecordCaseStarted, RecordCaseCompleted, RecordCaseFailed, Moves
<1>2. CASE run.status = "running"
  <2>1. ASSUME NEW mid \in RunRecord, mid.events = run.events,
               mid.status = "running", NEW name \in EventNames
        PROVE  Moves(run, EmitRunEvent(mid, name, c))
    <3>1. Pushed(run.events, EmitRunEvent(mid, name, c).events)
      BY <2>1, EmitPushes
    <3>2. EmitRunEvent(mid, name, c).status = mid.status
      BY EmitFrame
    <3>3. QED
      BY <1>2, <2>1, <3>1, <3>2 DEF Moves, IsRunStatusTerminal, Terminal
  <2>2. ASSUME NEW mid \in {RecordCompletedCaseOutcome(run, c),
                            RecordFailedCaseOutcome(run, c)}
        PROVE  mid \in RunRecord /\ mid.events = run.events
               /\ mid.status = "running"
    BY <1>2, CountedBeforeAnnounced
  <2>3. QED
    BY <1>2, <2>1, <2>2
    DEF RecordCaseStarted, RecordCaseCompleted, RecordCaseFailed, EventNames
<1>3. QED
  BY <1>1, <1>2

\* The same for every step: a run moves, or is forgotten after its end; only a
\* run never created before appears.
RunMove(r) ==
    \/ /\ Moves(runs[r], runs'[r])
       /\ runs[r].status = "untracked" /\ runs'[r].status # "untracked"
              => r > created
    \/ runs'[r] = NoRun /\ IsRunStatusTerminal(runs[r].status)

LEMMA StepMoves ==
  ASSUME StoreInv, Next, NEW r \in RunIds
  PROVE  RunMove(r) /\ created <= created'
<1>1. /\ runs[r] \in RunRecord /\ clock \in Int
      /\ runs \in [RunIds -> RunRecord] /\ created \in Nat
  BY RunStoreAssumption DEF StoreInv
<1>2. \A new : new = runs[r] => Moves(runs[r], new)
  BY DEF Moves
<1>3. \A q \in RunIds : \/ WithoutDropped(clock)[q] = runs[q]
                        \/ /\ WithoutDropped(clock)[q] = NoRun
                           /\ IsRunStatusTerminal(runs[q].status)
  BY WithoutDroppedSound DEF TerminalRuns
<1>4. CASE Tick
  <2>1. runs'[r] = runs[r] /\ created' = created
    BY <1>4 DEF Tick
  <2>2. QED
    BY <1>1, <1>2, <2>1 DEF RunMove
<1>5. CASE EnsureCapacity
  <2>1. runs'[r] = WithoutDropped(clock)[r] /\ created' = created
    BY <1>5 DEF EnsureCapacity
  <2>2. QED
    BY <1>1, <1>2, <1>3, <2>1 DEF RunMove
<1>6. ASSUME NEW n \in 0 .. MaxTotalCases, TryCreateQueuedRun(n)
      PROVE  RunMove(r) /\ created <= created'
  <2>1. created' = created + 1
        /\ runs' = [WithoutDropped(clock) EXCEPT ![created + 1] = QueuedRun(n)]
    BY <1>6 DEF TryCreateQueuedRun
  <2>2. CASE r = created + 1
    <3> DEFINE q == [NoRun EXCEPT !.status = "queued", !.totalCases = n]
    <3>1. runs'[r] = QueuedRun(n)
      BY <2>1, <2>2, DroppedEnded
    <3>2. runs[r] = NoRun /\ r > created
      BY <1>1, <2>2 DEF StoreInv
    <3>3. q \in RunRecord /\ q.events = <<>> /\ q.status = "queued"
      <4>1. n \in Nat
        BY RunStoreAssumption
      <4>2. q \in RunRecord
        BY <4>1, NoRunType DEF NoRun, RunRecord
      <4>3. q.events = <<>> /\ q.status = "queued"
        BY DEF NoRun
      <4>4. QED
        BY <4>2, <4>3
    <3> HIDE DEF q
    <3>4. /\ Pushed(<<>>, EmitRunEvent(q, "run.created", NoCase).events)
          /\ EmitRunEvent(q, "run.created", NoCase).status = "queued"
      BY <3>3, EmitPushes, EmitFrame DEF EventNames
    <3>5. QueuedRun(n) = EmitRunEvent(q, "run.created", NoCase)
      BY DEF QueuedRun, q
    <3>6. NoRun.events = <<>> /\ NoRun.status = "untracked"
      BY DEF NoRun
    <3>7. Moves(runs[r], runs'[r])
      BY <3>1, <3>2, <3>4, <3>5, <3>6
      DEF Moves, IsRunStatusTerminal, Terminal
    <3>8. QED
      BY <1>1, <2>1, <3>2, <3>7 DEF RunMove
  <2>3. CASE r # created + 1
    <3>1. runs'[r] = WithoutDropped(clock)[r]
      BY <2>1, <2>3, DroppedEnded
    <3>2. QED
      BY <1>1, <1>2, <1>3, <2>1, <3>1 DEF RunMove
  <2>4. QED
    BY <2>2, <2>3
<1>7. ASSUME NEW q \in Tracked, NEW new,
             Update(q, new), Moves(runs[q], new)
      PROVE  RunMove(r) /\ created <= created'
  <2>1. runs' = [runs EXCEPT ![q] = new] /\ created' = created /\ q \in RunIds
    BY <1>7 DEF Update, Tracked
  <2>2. runs'[r] = IF r = q THEN new ELSE runs[r]
    BY <1>1, <2>1
  <2>3. Moves(runs[r], runs'[r])
    BY <1>2, <1>7, <2>2
  <2>4. runs[r].status = "untracked" => runs'[r] = runs[r]
    BY <1>7, <2>2 DEF Tracked
  <2>5. QED
    BY <1>1, <2>1, <2>3, <2>4 DEF RunMove
<1>8. ASSUME NEW q \in Tracked,
             \/ MarkRunning(q) \/ Complete(q) \/ Cancel(q)
             \/ \E code \in FailureCodes : Fail(q, code)
             \/ \E c \in CaseIds : CaseStarted(q, c)
             \/ \E c \in CaseIds : CaseCompleted(q, c)
             \/ \E c \in CaseIds : CaseFailed(q, c)
      PROVE  \E new : Update(q, new) /\ Moves(runs[q], new)
  <2>1. runs[q] \in RunRecord /\ runs[q].status # "untracked"
    BY <1>1 DEF Tracked
  <2>2. CASE MarkRunning(q) \/ Complete(q) \/ Cancel(q)
    BY <1>1, <2>1, <2>2, MethodsMove DEF MarkRunning, Complete, Cancel
  <2>3. CASE \E code \in FailureCodes : Fail(q, code)
    BY <1>1, <2>1, <2>3, MethodsMove DEF Fail
  <2>4. ASSUME NEW c \in CaseIds,
               CaseStarted(q, c) \/ CaseCompleted(q, c) \/ CaseFailed(q, c)
        PROVE  \E new : Update(q, new) /\ Moves(runs[q], new)
    BY <2>1, <2>4, CasesMove DEF CaseStarted, CaseCompleted, CaseFailed
  <2>5. QED
    BY <1>8, <2>2, <2>3, <2>4
<1>9. QED
  BY <1>4, <1>5, <1>6, <1>7, <1>8 DEF Next

\* Whether a log is closed says whether its run has ended.
LEMMA SameLogSameEnd ==
  ASSUME NEW old \in RunRecord, NEW new \in RunRecord,
         TrueLog(old), TrueLog(new), new.events = old.events,
         old.status # "untracked", new.status # "untracked"
  PROVE  IsRunStatusTerminal(old.status) <=> IsRunStatusTerminal(new.status)
<1>1. old.events # <<>> /\ old.events \in Seq(RunEvent)
  BY DEF TrueLog, RunRecord
<1>2. Len(old.events) \in 1 .. Len(old.events)
  BY <1>1, EmptySeq
<1>3. QED
  BY <1>2 DEF TrueLog

-------------------------------------------------------------------------------
(***************************************************************************)
(* Part 11: a step of the store, with the notification of the listeners.   *)
(***************************************************************************)

\* An event enters the log and the history of an active run.
Emitted(r) ==
    LET e == Newest(runs'[r].events)
    IN  /\ Emits(r)
        /\ e \in RunEvent
        /\ Pushed(runs[r].events, runs'[r].events)
        /\ history'[r] = Append(history[r], e)
        /\ ~ IsRunStatusTerminal(runs[r].status)
        /\ runs[r].status = "untracked" => r > created
        /\ runs'[r].status # "untracked"

LEMMA Emission ==
  ASSUME StoreInv, StoreInv', StreamTypes, Next, Notify, NEW r \in RunIds
  PROVE  \/ ~ Emits(r) /\ history'[r] = history[r]
         \/ Emitted(r)
<1>1. RunMove(r)
  BY StepMoves
<1>2. runs'[r] \in RunRecord /\ runs[r] \in RunRecord
  BY DEF StoreInv
<1>3. CASE ~ Emits(r)
  BY <1>3 DEF Notify
<1>4. CASE Emits(r)
  <2>1. history'[r] = Append(history[r], Newest(runs'[r].events))
    BY <1>4 DEF Notify
  <2>2. runs'[r].events # runs[r].events /\ runs'[r].events # <<>>
    BY <1>4 DEF Emits
  <2>3. NoRun.events = <<>>
    BY DEF NoRun
  <2>4. /\ Pushed(runs[r].events, runs'[r].events)
        /\ ~ IsRunStatusTerminal(runs[r].status)
        /\ runs'[r].status # "untracked"
        /\ runs[r].status = "untracked" => r > created
    BY <1>1, <2>2, <2>3 DEF RunMove, Moves
  <2>5. Newest(runs'[r].events) \in RunEvent
    <3> DEFINE log == runs'[r].events
    <3>1. log \in Seq(RunEvent) /\ log # <<>>
      BY <1>2, <2>2 DEF RunRecord
    <3> HIDE DEF log
    <3>2. Len(log) \in 1 .. Len(log)
      BY <3>1, EmptySeq
    <3>3. log[Len(log)] \in RunEvent
      BY <3>1, <3>2, ElementOfSeq
    <3>4. QED
      BY <3>3 DEF Newest, log
  <2>6. QED
    BY <1>4, <2>1, <2>4, <2>5 DEF Emitted
<1>5. QED
  BY <1>3, <1>4

\* The log stays the newest part of the history.
LEMMA LogStaysTail ==
  ASSUME StoreInv, StoreInv', StreamTypes, Next, Notify,
         NEW r \in RunIds, LogOfHistory(r)
  PROVE  LogOfHistory(r)'
<1>1. /\ runs[r].events \in Seq(RunEvent) /\ runs'[r].events \in Seq(RunEvent)
      /\ history[r] \in Seq(RunEvent)
  BY DEF StoreInv, RunRecord, StreamTypes
<1>2. RunMove(r) /\ created <= created' /\ created \in Nat /\ created' \in Nat
      /\ r \in Nat
  BY StepMoves, RunStoreAssumption DEF StoreInv, RunIds
<1>3. CASE Emitted(r)
  <2> DEFINE e == Newest(runs'[r].events)
  <2>1. Len(runs[r].events) = KeptOf(history[r])
        /\ IsTail(runs[r].events, history[r])
    BY <1>3 DEF Emitted, LogOfHistory
  <2>2. Pushed(runs[r].events, runs'[r].events)
        /\ history'[r] = Append(history[r], e)
    BY <1>3 DEF Emitted
  <2>3. IsTail(runs'[r].events, Append(history[r], e))
        /\ Len(runs'[r].events) = KeptOf(Append(history[r], e))
    BY <1>1, <2>1, <2>2, PushedIsTail
  <2>4. QED
    BY <2>2, <2>3 DEF LogOfHistory, IsTail, KeptOf
<1>4. CASE ~ Emits(r) /\ history'[r] = history[r]
  <2>1. SUFFICES ASSUME runs'[r].status # "untracked" \/ r > created'
                 PROVE  /\ Len(runs'[r].events) = KeptOf(history[r])
                        /\ IsTail(runs'[r].events, history[r])
    BY <1>4 DEF LogOfHistory, IsTail, KeptOf
  <2>2. NoRun.status = "untracked" /\ NoRun.events = <<>>
    BY DEF NoRun
  <2>3. runs'[r] = NoRun => r > created'
    BY <2>1, <2>2
  <2>4. r > created' => runs[r] = NoRun /\ runs'[r] = NoRun
    BY <1>2 DEF StoreInv
  <2>5. runs[r].status # "untracked" \/ r > created
    BY <1>2, <2>1, <2>2, <2>3, <2>4 DEF RunMove
  <2>6. runs'[r].events = runs[r].events
    <3>1. runs'[r].events \in {runs[r].events, <<>>}
      BY <1>4 DEF Emits
    <3>2. CASE runs'[r].events = <<>> /\ runs'[r].events # runs[r].events
      <4>1. CASE runs'[r] = NoRun
        BY <2>3, <2>4, <3>2, <4>1
      <4>2. CASE Moves(runs[r], runs'[r])
        BY <3>2, <4>2 DEF Moves, Pushed
      <4>3. QED
        BY <1>2, <4>1, <4>2 DEF RunMove
    <3>3. QED
      BY <3>1, <3>2
  <2>7. QED
    BY <2>5, <2>6 DEF LogOfHistory
<1>5. QED
  BY <1>3, <1>4, Emission

\* What emitEvent does to an open stream.
LEMMA EmitEventShape ==
  ASSUME NEW s \in Stream, s.state = "open", NEW e \in RunEvent
  PROVE  LET new == EmitEvent(s, e)
         IN  /\ new \in Stream /\ new.runId = s.runId
             /\ new.sent = Append(s.sent, e)
             /\ e.event \in TerminalEvents =>
                   /\ new.state = "closed" /\ new.reason = "run-terminal"
                   /\ ~ new.heartbeat /\ ~ new.abortListener
             /\ e.event \notin TerminalEvents =>
                   /\ new.state = "open" /\ new.reason = s.reason
                   /\ new.heartbeat = s.heartbeat
                   /\ new.abortListener = s.abortListener
<1> DEFINE log == Append(s.sent, e)
           mid == [s EXCEPT !.sent = log]
<1>1. log \in Seq(RunEvent)
  BY AppendProperties DEF Stream
<1> HIDE DEF log
<1>2. /\ mid \in Stream /\ mid.runId = s.runId /\ mid.sent = log
      /\ mid.state = "open" /\ mid.reason = s.reason
      /\ mid.heartbeat = s.heartbeat /\ mid.abortListener = s.abortListener
  BY <1>1 DEF Stream
<1>3. EmitEvent(s, e) = IF e.event \in TerminalEvents
                        THEN CloseStream(mid, "run-terminal") ELSE mid
  BY DEF EmitEvent, ShouldCloseAfterEvent, log
<1> HIDE DEF mid
<1>4. LET new == CloseStream(mid, "run-terminal")
      IN  /\ new \in Stream /\ new.runId = s.runId /\ new.sent = log
          /\ new.state = "closed" /\ new.reason = "run-terminal"
          /\ ~ new.heartbeat /\ ~ new.abortListener
  BY <1>2 DEF CloseStream, Stream, Reasons
<1>5. QED
  BY <1>2, <1>3, <1>4 DEF log

\* A run that stays in the store, active and without an event, stays active.
LEMMA QuietStaysActive ==
  ASSUME StoreInv, LogInv, StoreInv', LogInv', Next, NEW r \in RunIds,
         IsRunStatusCancellable(runs[r].status), ~ Emits(r)
  PROVE  IsRunStatusCancellable(runs'[r].status)
<1>1. /\ runs[r] \in RunRecord /\ runs'[r] \in RunRecord
      /\ TrueLog(runs[r]) /\ TrueLog(runs'[r])
  <2>1. runs[r] \in RunRecord /\ runs'[r] \in RunRecord /\ TrueLog(runs[r])
    BY DEF StoreInv, LogInv
  <2>2. LogInv' => TrueLog(runs'[r])
    BY DEF LogInv, TrueLog, Grows
  <2>3. QED
    BY <2>1, <2>2
<1>2. runs[r].status # "untracked" /\ ~ IsRunStatusTerminal(runs[r].status)
  BY DEF IsRunStatusCancellable, IsRunStatusTerminal, Terminal
<1>3. Moves(runs[r], runs'[r])
  BY <1>2, StepMoves DEF RunMove
<1>4. runs'[r].status # "untracked"
  BY <1>2, <1>3 DEF Moves
<1>5. runs'[r].events = runs[r].events
  BY <1>3 DEF Moves, Pushed, Emits
<1>6. ~ IsRunStatusTerminal(runs'[r].status)
  BY <1>1, <1>2, <1>4, <1>5, SameLogSameEnd
<1>7. QED
  BY <1>1, <1>4, <1>6
  DEF RunRecord, IsRunStatusCancellable, IsRunStatusTerminal

\* A run that has gone silent stays silent.
LEMMA SilentStays ==
  ASSUME StoreInv, StoreInv', StreamTypes, Next, Notify, NEW r \in RunIds,
         Silent(r)
  PROVE  /\ r <= created' /\ runs'[r].status \notin {"queued", "running"}
         /\ history'[r] = history[r]
<1>1. /\ created \in Nat /\ created' \in Nat /\ r \in Nat /\ r <= created
      /\ runs[r].status \notin {"queued", "running"}
      /\ runs[r] \in RunRecord
  BY RunStoreAssumption DEF StoreInv, Silent, RunIds
<1>2. created <= created' /\ RunMove(r)
  BY StepMoves
<1>3. runs[r].status = "untracked" \/ IsRunStatusTerminal(runs[r].status)
  BY <1>1 DEF RunRecord, IsRunStatusTerminal
<1>4. ~ Emitted(r)
  BY <1>1, <1>3 DEF Emitted
<1>5. history'[r] = history[r]
  BY <1>4, Emission
<1>6. runs'[r].status \notin {"queued", "running"}
  <2>1. NoRun.status = "untracked"
    BY DEF NoRun
  <2>2. CASE runs[r].status = "untracked"
    <3>1. runs'[r].status = "untracked"
      BY <1>1, <1>2, <2>1, <2>2 DEF RunMove
    <3>2. QED
      BY <3>1
  <2>3. CASE IsRunStatusTerminal(runs[r].status)
    <3>1. runs'[r] \in {runs[r], NoRun}
      BY <2>3, StepsForward
    <3>2. QED
      BY <1>1, <2>1, <3>1
  <2>4. QED
    BY <1>3, <2>2, <2>3
<1>7. r <= created'
  BY <1>1, <1>2
<1>8. QED
  BY <1>5, <1>6, <1>7

\* StreamOk after the step, spelled out.
StreamOkNext(t) ==
    LET s == streams'[t]
    IN  s.state # "unopened" =>
            /\ s.runId \in RunIds
            /\ IsPiece(s.sent, history'[s.runId])
            /\ s.state = "open" =>
                  IsRunStatusCancellable(runs'[s.runId].status)
            /\ s.state = "closed" /\ s.reason = "run-terminal" =>
                  /\ s.runId <= created'
                  /\ runs'[s.runId].status \notin {"queued", "running"}
            /\ s.state = "open" \/ s.reason = "run-terminal" =>
                  /\ Len(s.sent) >= KeptOf(history'[s.runId])
                  /\ IsTail(s.sent, history'[s.runId])

LEMMA StreamOkAfter ==
  ASSUME NEW t \in Streams, StreamOkNext(t)
  PROVE  StreamOk(t)'
  BY DEF StreamOk, StreamOkNext, IsPiece, IsTail, KeptOf, Silent

\* What is left of a stream's holdings after a notification.
HoldsRight(t) ==
    LET s   == streams[t]
        new == streams'[t]
    IN  /\ new \in Stream
        /\ new.state = "open" =>
              /\ s.state = "open" /\ new.runId = s.runId
              /\ IsRunStatusCancellable(runs'[s.runId].status)
        /\ new.heartbeat <=> (new.state = "open")
        /\ new.abortListener <=> (new.state = "open")

LEMMA NotifiedStream ==
  ASSUME FullInv, StoreInv', LogInv', Next, Notify, NEW t \in Streams
  PROVE  HoldsRight(t) /\ StreamOk(t)'
<1> DEFINE s == streams[t]
           r == s.runId
           past == history[r]
           e == Newest(runs'[r].events)
<1>1. /\ StoreInv /\ LogInv /\ StreamTypes
      /\ StreamOk(t)
      /\ s \in Stream
      /\ s.heartbeat <=> (s.state = "open")
      /\ s.abortListener <=> (s.state = "open")
      /\ \A q \in RunIds :
            (t \in listeners[q]) <=> (s.state = "open" /\ s.runId = q)
  BY DEF FullInv, StreamInv, StreamTypes, HeldExactlyWhileOpen
<1>2. streams'[t] = IF r \in RunIds /\ s.state = "open" /\ Emits(r)
                    THEN EmitEvent(s, e) ELSE s
  <2>1. streams'[t] = IF r \in RunIds /\ t \in listeners[r] /\ Emits(r)
                      THEN EmitEvent(s, e) ELSE s
    BY DEF Notify
  <2>2. QED
    BY <1>1, <2>1
<1>3. s.state \in {"unopened", "open", "closed"} /\ s.sent \in Seq(RunEvent)
  BY <1>1 DEF Stream
<1>4. CASE s.state = "unopened"
  <2>1. streams'[t] = s
    BY <1>2, <1>4
  <2>2. QED
    BY <1>1, <1>4, <2>1 DEF HoldsRight, StreamOk
<1>5. ASSUME s.state # "unopened"
      PROVE  /\ r \in RunIds /\ past \in Seq(RunEvent)
             /\ IsPiece(s.sent, past)
             /\ \/ ~ Emits(r) /\ history'[r] = past
                \/ Emitted(r)
  <2>1. r \in RunIds /\ IsPiece(s.sent, past)
    BY <1>1, <1>5 DEF StreamOk
  <2>2. QED
    BY <1>1, <2>1, Emission DEF StreamTypes
<1>6. CASE s.state = "open"
  <2>1. /\ r \in RunIds /\ past \in Seq(RunEvent)
        /\ \/ ~ Emits(r) /\ history'[r] = past
           \/ Emitted(r)
    BY <1>5, <1>6
  <2>2. /\ IsRunStatusCancellable(runs[r].status)
        /\ Len(s.sent) >= KeptOf(past) /\ IsTail(s.sent, past)
    BY <1>1, <1>6 DEF StreamOk
  <2>3. CASE ~ Emits(r) /\ history'[r] = past
    <3>1. streams'[t] = s
      BY <1>2, <2>3
    <3>2. IsRunStatusCancellable(runs'[r].status)
      BY <1>1, <2>1, <2>2, <2>3, QuietStaysActive
    <3>3. IsPiece(s.sent, past)
      BY <1>5, <1>6
    <3>4. StreamOk(t)'
      BY <1>6, <2>1, <2>2, <2>3, <3>1, <3>2, <3>3, StreamOkAfter
      DEF StreamOkNext
    <3>5. HoldsRight(t)
      BY <1>1, <1>6, <3>1, <3>2 DEF HoldsRight
    <3>6. QED
      BY <3>4, <3>5
  <2>4. CASE Emitted(r)
    <3> DEFINE new == EmitEvent(s, e)
               grown == Append(past, e)
    <3>1. streams'[t] = new
      BY <1>2, <1>6, <2>1, <2>4 DEF Emitted
    <3>2. /\ e \in RunEvent /\ history'[r] = grown
          /\ runs'[r].status # "untracked"
      BY <2>4 DEF Emitted
    <3>3. (e.event \in TerminalEvents)
              <=> IsRunStatusTerminal(runs'[r].status)
      <4>1. TrueLog(runs'[r]) /\ runs'[r] \in RunRecord
        <5>1. LogInv' => TrueLog(runs'[r])
          BY <2>1 DEF LogInv, TrueLog, Grows
        <5>2. runs'[r] \in RunRecord
          BY <2>1 DEF StoreInv
        <5>3. QED
          BY <5>1, <5>2
      <4>2. runs'[r].events # <<>> /\ runs'[r].events \in Seq(RunEvent)
        BY <3>2, <4>1 DEF TrueLog, RunRecord
      <4>3. Len(runs'[r].events) \in 1 .. Len(runs'[r].events)
        BY <4>2, EmptySeq
      <4>4. QED
        BY <4>1, <4>3 DEF TrueLog, Newest
    <3>4. runs'[r] \in RunRecord /\ r <= created'
      <4>1. created' \in Nat /\ r \in Nat /\ NoRun.status = "untracked"
        BY <2>1, RunStoreAssumption DEF StoreInv, RunIds, NoRun
      <4>2. r > created' => runs'[r] = NoRun
        BY <2>1 DEF StoreInv
      <4>3. runs'[r] \in RunRecord
        BY <2>1 DEF StoreInv
      <4>4. QED
        BY <3>2, <4>1, <4>2, <4>3
    <3> HIDE DEF e
    <3>5. /\ IsTail(Append(s.sent, e), grown)
          /\ Len(Append(s.sent, e)) >= KeptOf(grown)
      <4>1. IsTail(Append(s.sent, e), grown)
        BY <1>3, <2>1, <2>2, <3>2, TailGrows
      <4>2. Len(s.sent) \in Nat /\ Len(Append(s.sent, e)) = Len(s.sent) + 1
        BY <1>3, <3>2, LenProperties, AppendProperties
      <4>3. KeptOf(past) \in Nat /\ KeptOf(grown) <= KeptOf(past) + 1
        BY <2>1, <3>2, KeptGrows, RunRecordsAssumption
      <4>4. KeptOf(grown) \in Nat
        BY <2>1, <3>2, KeptGrows, RunRecordsAssumption
      <4> HIDE DEF grown
      <4>5. QED
        BY <2>2, <4>1, <4>2, <4>3, <4>4
    <3>6. IsPiece(Append(s.sent, e), grown)
      BY <1>3, <2>1, <3>2, <3>5, TailIsPiece, AppendProperties
    <3>7. /\ new \in Stream /\ new.runId = r
          /\ new.sent = Append(s.sent, e)
          /\ e.event \in TerminalEvents =>
                /\ new.state = "closed" /\ new.reason = "run-terminal"
                /\ ~ new.heartbeat /\ ~ new.abortListener
          /\ e.event \notin TerminalEvents =>
                /\ new.state = "open" /\ new.reason = s.reason
                /\ new.heartbeat = s.heartbeat
                /\ new.abortListener = s.abortListener
      BY <1>1, <1>6, <3>2, EmitEventShape
    <3> HIDE DEF new, grown
    <3>8. e.event \in TerminalEvents =>
              r <= created' /\ runs'[r].status \notin {"queued", "running"}
      BY <3>2, <3>3, <3>4 DEF IsRunStatusTerminal, Terminal
    <3>9. e.event \notin TerminalEvents
              => IsRunStatusCancellable(runs'[r].status)
      BY <3>2, <3>3, <3>4
      DEF RunRecord, IsRunStatusTerminal, IsRunStatusCancellable
    <3>10. /\ IsPiece(new.sent, history'[r]) /\ IsTail(new.sent, history'[r])
           /\ Len(new.sent) >= KeptOf(history'[r])
      BY <3>2, <3>5, <3>6, <3>7
    <3>11. StreamOk(t)'
      BY <2>1, <3>1, <3>7, <3>8, <3>9, <3>10, StreamOkAfter
      DEF StreamOkNext
    <3>12. HoldsRight(t)
      BY <1>1, <1>6, <3>1, <3>7, <3>9 DEF HoldsRight
    <3>13. QED
      BY <3>11, <3>12
  <2>5. QED
    BY <2>1, <2>3, <2>4
<1>7. CASE s.state = "closed"
  <2>1. streams'[t] = s
    BY <1>2, <1>7
  <2>2. /\ r \in RunIds /\ past \in Seq(RunEvent) /\ IsPiece(s.sent, past)
        /\ \/ ~ Emits(r) /\ history'[r] = past
           \/ Emitted(r)
    BY <1>5, <1>7
  <2>3. IsPiece(s.sent, history'[r])
    BY <1>3, <2>2, PieceStays DEF Emitted
  <2>4. s.reason = "run-terminal" =>
            /\ r <= created' /\ runs'[r].status \notin {"queued", "running"}
            /\ history'[r] = past
            /\ Len(s.sent) >= KeptOf(past) /\ IsTail(s.sent, past)
    BY <1>1, <1>7, <2>2, SilentStays DEF StreamOk
  <2>5. StreamOk(t)'
    BY <1>7, <2>1, <2>2, <2>3, <2>4, StreamOkAfter DEF StreamOkNext
  <2>6. HoldsRight(t)
    BY <1>1, <1>7, <2>1 DEF HoldsRight
  <2>7. QED
    BY <2>5, <2>6
<1>8. QED
  BY <1>3, <1>4, <1>6, <1>7

LEMMA NotifyInv ==
  ASSUME FullInv, StoreInv', LogInv', Next, Notify
  PROVE  StreamInv'
<1>1. StoreInv /\ StreamTypes /\ \A r \in RunIds : LogOfHistory(r)
  BY DEF FullInv, StreamInv
<1>2. \A t \in Streams : HoldsRight(t)
  BY NotifiedStream
<1>3. streams' \in [Streams -> Stream]
  <2>1. streams' = [t \in Streams |-> streams'[t]]
    BY DEF Notify
  <2>2. \A t \in Streams : streams'[t] \in Stream
    BY <1>2 DEF HoldsRight
  <2>3. QED
    BY <2>1, <2>2
<1>4. /\ listeners' = [r \in RunIds |->
                          IF runs'[r] = NoRun
                          THEN {}
                          ELSE {t \in listeners[r] : streams'[t].state = "open"}]
      /\ sseStreams' = {t \in sseStreams : streams'[t].state = "open"}
  BY DEF Notify
<1>5. history' \in [RunIds -> Seq(RunEvent)]
  <2>1. history' = [r \in RunIds |-> history'[r]]
    BY DEF Notify
  <2>2. \A r \in RunIds : history'[r] \in Seq(RunEvent)
    <3>1. \A r \in RunIds : history[r] \in Seq(RunEvent)
      BY <1>1 DEF StreamTypes
    <3>2. QED
      BY SMTT(30), <1>1, <3>1, Emission, AppendProperties DEF Emitted
  <2>3. QED
    BY <2>1, <2>2
<1>6. StreamTypes'
  <2>1. \A r \in RunIds : listeners[r] \subseteq Streams
    BY <1>1 DEF StreamTypes
  <2>2. listeners' \in [RunIds -> SUBSET Streams]
    BY <1>4, <2>1
  <2>3. sseStreams' \subseteq Streams
    BY <1>1, <1>4 DEF StreamTypes
  <2>4. QED
    BY <1>3, <1>5, <2>2, <2>3 DEF StreamTypes
<1>7. HeldExactlyWhileOpen'
  <2>1. NoRun.status = "untracked"
    BY DEF NoRun
  <2>2. ASSUME NEW t \in Streams
        PROVE  /\ (t \in sseStreams) <=> (streams[t].state = "open")
               /\ \A r \in RunIds : (t \in listeners[r])
                      <=> (streams[t].state = "open" /\ streams[t].runId = r)
    BY DEF FullInv, StreamInv, HeldExactlyWhileOpen
  <2>3. ASSUME NEW t \in Streams
        PROVE  /\ (t \in sseStreams') <=> (streams'[t].state = "open")
               /\ \A r \in RunIds : (t \in listeners'[r])
                      <=> (streams'[t].state = "open" /\ streams'[t].runId = r)
               /\ streams'[t].heartbeat <=> (streams'[t].state = "open")
               /\ streams'[t].abortListener <=> (streams'[t].state = "open")
    <3>1. HoldsRight(t)
      BY <1>2
    <3>2. (t \in sseStreams') <=> (streams'[t].state = "open")
      BY <1>4, <2>2, <3>1 DEF HoldsRight
    <3>3. ASSUME NEW r \in RunIds
          PROVE  (t \in listeners'[r])
                      <=> (streams'[t].state = "open" /\ streams'[t].runId = r)
      <4>1. t \in listeners'[r] <=> /\ runs'[r] # NoRun
                                    /\ t \in listeners[r]
                                    /\ streams'[t].state = "open"
        BY <1>4
      <4>2. streams'[t].state = "open" /\ streams'[t].runId = r
                => runs'[r] # NoRun /\ streams[t].state = "open"
                   /\ streams[t].runId = r
        BY <2>1, <3>1 DEF HoldsRight, IsRunStatusCancellable
      <4>3. streams'[t].state = "open" => streams'[t].runId = streams[t].runId
        BY <3>1 DEF HoldsRight
      <4>4. QED
        BY <2>2, <4>1, <4>2, <4>3
    <3>4. QED
      BY <3>1, <3>2, <3>3 DEF HoldsRight
  <2>4. QED
    BY <2>3 DEF HeldExactlyWhileOpen
<1>8. \A r \in RunIds : LogOfHistory(r)'
  BY <1>1, LogStaysTail
<1>9. \A t \in Streams : StreamOk(t)'
  BY NotifiedStream
<1>10. QED
  BY <1>6, <1>7, <1>8, <1>9 DEF StreamInv

-------------------------------------------------------------------------------
(***************************************************************************)
(* Part 12: the steps of the streams themselves.                           *)
(***************************************************************************)

LEMMA CloseShape ==
  ASSUME NEW s \in Stream, s.state = "open", NEW why \in Reasons
  PROVE  LET new == CloseStream(s, why)
         IN  /\ new \in Stream /\ new.runId = s.runId /\ new.sent = s.sent
             /\ new.state = "closed" /\ new.reason = why
             /\ ~ new.heartbeat /\ ~ new.abortListener
  BY DEF CloseStream, Stream, Reasons

\* Some open streams are closed for a reason that is not the end of the run,
\* and let go of what they hold.
LEMMA ClosingInv ==
  ASSUME StreamInv, UNCHANGED <<vars, history>>, Released,
         streams' = [t \in Streams |-> streams'[t]],
         NEW why \in {"client-disconnect", "shutdown"},
         \A t \in Streams :
            \/ streams'[t] = streams[t]
            \/ /\ streams[t].state = "open"
               /\ streams'[t] = CloseStream(streams[t], why)
  PROVE  StreamInv'
<1>1. StreamTypes /\ \A r \in RunIds : LogOfHistory(r)
  BY DEF StreamInv
<1>2. runs' = runs /\ created' = created /\ history' = history
  BY DEF vars
<1>3. ASSUME NEW t \in Streams
      PROVE  /\ streams[t] \in Stream /\ streams'[t] \in Stream
             /\ streams'[t].runId = streams[t].runId
             /\ streams'[t].sent = streams[t].sent
             /\ \/ streams'[t] = streams[t]
                \/ /\ streams[t].state = "open"
                   /\ streams'[t].state = "closed" /\ streams'[t].reason = why
                   /\ ~ streams'[t].heartbeat /\ ~ streams'[t].abortListener
  <2>1. streams[t] \in Stream
    BY <1>1 DEF StreamTypes
  <2>2. why \in Reasons
    BY DEF Reasons
  <2>3. CASE streams'[t] = streams[t]
    BY <2>1, <2>3
  <2>4. CASE streams[t].state = "open"
             /\ streams'[t] = CloseStream(streams[t], why)
    BY <2>1, <2>2, <2>4, CloseShape
  <2>5. QED
    BY <2>3, <2>4
<1>4. /\ listeners' = [r \in RunIds |->
                          {t \in listeners[r] : streams'[t].state = "open"}]
      /\ sseStreams' = {t \in sseStreams : streams'[t].state = "open"}
  BY DEF Released
<1>5. StreamTypes'
  <2>1. streams' \in [Streams -> Stream]
    BY <1>3
  <2>2. \A r \in RunIds : listeners[r] \subseteq Streams
    BY <1>1 DEF StreamTypes
  <2>3. listeners' \in [RunIds -> SUBSET Streams]
    BY <1>4, <2>2
  <2>4. sseStreams' \subseteq Streams /\ history' \in [RunIds -> Seq(RunEvent)]
    BY <1>1, <1>2, <1>4 DEF StreamTypes
  <2>5. QED
    BY <2>1, <2>3, <2>4 DEF StreamTypes
<1>6. HeldExactlyWhileOpen'
  <2>1. ASSUME NEW t \in Streams
        PROVE  /\ (t \in sseStreams) <=> (streams[t].state = "open")
               /\ \A r \in RunIds : (t \in listeners[r])
                      <=> (streams[t].state = "open" /\ streams[t].runId = r)
               /\ streams[t].heartbeat <=> (streams[t].state = "open")
               /\ streams[t].abortListener <=> (streams[t].state = "open")
    BY DEF StreamInv, HeldExactlyWhileOpen
  <2>2. ASSUME NEW t \in Streams
        PROVE  /\ (t \in sseStreams') <=> (streams'[t].state = "open")
               /\ \A r \in RunIds : (t \in listeners'[r])
                      <=> (streams'[t].state = "open" /\ streams'[t].runId = r)
               /\ streams'[t].heartbeat <=> (streams'[t].state = "open")
               /\ streams'[t].abortListener <=> (streams'[t].state = "open")
    BY <1>3, <1>4, <2>1
  <2>3. QED
    BY <2>2 DEF HeldExactlyWhileOpen
<1>7. \A r \in RunIds : LogOfHistory(r)'
  BY <1>1, <1>2 DEF LogOfHistory, IsTail, KeptOf
<1>8. \A t \in Streams : StreamOk(t)'
  <2> SUFFICES ASSUME NEW t \in Streams
               PROVE  StreamOkNext(t)
    BY StreamOkAfter
  <2>1. StreamOk(t)
    BY DEF StreamInv
  <2>2. QED
    BY <1>2, <1>3, <2>1 DEF StreamOk, StreamOkNext, Silent
<1>9. QED
  BY <1>5, <1>6, <1>7, <1>8 DEF StreamInv

\* The replay sends the whole log: the only event that could close the stream
\* before its end is the last one, and it does if and only if the run has ended.
LEMMA ReplayShape ==
  ASSUME NEW s \in Stream, s.state = "open", NEW run \in RunRecord,
         TrueLog(run), run.status # "untracked"
  PROVE  LET new == Replay(s, run.events)
         IN  /\ new \in Stream /\ new.runId = s.runId /\ new.sent = run.events
             /\ IsRunStatusTerminal(run.status) =>
                   /\ new.state = "closed" /\ new.reason = "run-terminal"
                   /\ ~ new.heartbeat /\ ~ new.abortListener
             /\ ~ IsRunStatusTerminal(run.status) =>
                   /\ new.state = "open" /\ new.reason = s.reason
                   /\ new.heartbeat = s.heartbeat
                   /\ new.abortListener = s.abortListener
<1> DEFINE log == run.events
           sent == [s EXCEPT !.sent = log]
           closing == {i \in DOMAIN log : ShouldCloseAfterEvent(log[i].event)}
           first == CHOOSE i \in closing : \A j \in closing : i <= j
<1>1. log \in Seq(RunEvent) /\ log # <<>>
  BY DEF TrueLog, RunRecord
<1>2. Len(log) \in Nat \ {0} /\ DOMAIN log = 1 .. Len(log)
  BY <1>1, EmptySeq, LenProperties
<1>3. closing = IF IsRunStatusTerminal(run.status) THEN {Len(log)} ELSE {}
  <2>1. \A i \in 1 .. Len(log) :
            ShouldCloseAfterEvent(log[i].event)
                <=> (i = Len(log) /\ IsRunStatusTerminal(run.status))
    BY DEF TrueLog, ShouldCloseAfterEvent
  <2>2. QED
    BY <1>2, <2>1
<1>4. Replay(s, log) = IF closing = {} THEN sent
                       ELSE CloseStream([s EXCEPT !.sent = SubSeq(log, 1, first)],
                                        "run-terminal")
  BY DEF Replay
<1>5. IsRunStatusTerminal(run.status) => SubSeq(log, 1, first) = log
  <2>1. ASSUME IsRunStatusTerminal(run.status)
        PROVE  first = Len(log)
    <3>1. closing = {Len(log)}
      BY <1>3, <2>1
    <3> HIDE DEF closing
    <3>2. QED
      BY <1>2, <3>1
  <2>2. SubSeq(log, 1, Len(log)) = log
    BY <1>1, SubSeqFull
  <2>3. QED
    BY <2>1, <2>2
<1> HIDE DEF closing, first
<1>6. /\ sent \in Stream /\ sent.runId = s.runId /\ sent.sent = log
      /\ sent.state = "open" /\ sent.reason = s.reason
      /\ sent.heartbeat = s.heartbeat /\ sent.abortListener = s.abortListener
  <2> HIDE DEF log
  <2>1. QED
    BY <1>1 DEF Stream
<1>7. CASE IsRunStatusTerminal(run.status)
  <2>1. Replay(s, log) = CloseStream(sent, "run-terminal")
    BY <1>3, <1>4, <1>5, <1>7
  <2> HIDE DEF sent, log
  <2>2. "run-terminal" \in Reasons
    BY DEF Reasons
  <2>3. LET new == CloseStream(sent, "run-terminal")
        IN  /\ new \in Stream /\ new.runId = sent.runId /\ new.sent = sent.sent
            /\ new.state = "closed" /\ new.reason = "run-terminal"
            /\ ~ new.heartbeat /\ ~ new.abortListener
    BY <1>6, <2>2, CloseShape
  <2>4. QED
    BY <1>6, <1>7, <2>1, <2>3 DEF log
<1>8. CASE ~ IsRunStatusTerminal(run.status)
  <2>1. Replay(s, log) = sent
    BY <1>3, <1>4, <1>8
  <2> HIDE DEF sent
  <2>2. QED
    BY <1>6, <1>8, <2>1
<1>9. QED
  BY <1>7, <1>8

LEMMA OpenInv ==
  ASSUME FullInv, NEW t \in Streams, NEW r \in RunIds, NEW aborted \in BOOLEAN,
         Open(t, r, aborted)
  PROVE  StreamInv'
<1> DEFINE opened == [NoStream EXCEPT !.runId = r, !.state = "open"]
           armed == [opened EXCEPT !.abortListener = TRUE]
           s == IF aborted THEN CloseStream(opened, "client-disconnect")
                           ELSE Replay(armed, runs[r].events)
           new == [s EXCEPT !.heartbeat = TRUE]
<1>1. /\ StreamTypes /\ \A q \in RunIds : LogOfHistory(q)
      /\ runs[r] \in RunRecord /\ TrueLog(runs[r])
  BY DEF FullInv, StreamInv, StoreInv, LogInv
<1>2. /\ streams[t].state = "unopened" /\ runs[r].status # "untracked"
      /\ Subscribed(t, s)
      /\ runs' = runs /\ created' = created /\ history' = history
  BY DEF Open, Tracked, vars
<1>3. /\ opened \in Stream /\ opened.runId = r /\ opened.state = "open"
      /\ opened.sent = <<>> /\ opened.reason = "none"
      /\ ~ opened.heartbeat /\ ~ opened.abortListener
  <2>1. NoStream \in Stream
    <3>1. <<>> \in Seq(RunEvent)
      BY EmptySeq
    <3>2. QED
      BY <3>1 DEF NoStream, Stream
  <2>2. opened \in Stream
    BY <2>1 DEF Stream
  <2>3. QED
    BY <2>2 DEF NoStream
<1> HIDE DEF opened
<1>4. /\ armed \in Stream /\ armed.runId = r /\ armed.state = "open"
      /\ armed.sent = <<>> /\ armed.reason = "none"
      /\ ~ armed.heartbeat /\ armed.abortListener
  BY <1>3 DEF Stream
<1> HIDE DEF armed
<1>5. history[r] \in Seq(RunEvent)
  BY <1>1 DEF StreamTypes
<1>6. /\ s \in Stream /\ s.runId = r /\ IsPiece(s.sent, history[r])
      /\ \/ s.state = "closed" /\ ~ s.heartbeat /\ ~ s.abortListener
         \/ /\ s.state = "open" /\ s.abortListener
            /\ IsRunStatusCancellable(runs[r].status)
      /\ s.state = "closed" /\ s.reason = "run-terminal" => Silent(r)
      /\ s.state = "open" \/ s.reason = "run-terminal" =>
            /\ Len(s.sent) >= KeptOf(history[r]) /\ IsTail(s.sent, history[r])
  <2>1. CASE aborted
    <3>1. "client-disconnect" \in Reasons
      BY DEF Reasons
    <3>2. s = CloseStream(opened, "client-disconnect")
      BY <2>1
    <3> HIDE DEF s
    <3>3. /\ s \in Stream /\ s.runId = r /\ s.sent = <<>>
          /\ s.state = "closed" /\ s.reason = "client-disconnect"
          /\ ~ s.heartbeat /\ ~ s.abortListener
      BY <1>3, <3>1, <3>2, CloseShape
    <3>4. IsPiece(<<>>, history[r])
      <4>1. 0 \in 0 .. Len(history[r]) - Len(<<>>)
        BY <1>5, LenProperties
      <4>2. QED
        BY <4>1 DEF IsPiece
    <3>5. QED
      BY <3>3, <3>4
  <2>2. CASE ~ aborted
    <3>1. s = Replay(armed, runs[r].events)
      BY <2>2
    <3> HIDE DEF s
    <3>2. /\ s \in Stream /\ s.runId = r /\ s.sent = runs[r].events
          /\ IsRunStatusTerminal(runs[r].status) =>
                /\ s.state = "closed" /\ s.reason = "run-terminal"
                /\ ~ s.heartbeat /\ ~ s.abortListener
          /\ ~ IsRunStatusTerminal(runs[r].status) =>
                s.state = "open" /\ s.abortListener
      BY <1>1, <1>2, <1>4, <3>1, ReplayShape
    <3>3. /\ Len(s.sent) = KeptOf(history[r]) /\ IsTail(s.sent, history[r])
          /\ s.sent \in Seq(RunEvent) /\ Len(s.sent) \in Nat
      BY <1>1, <1>2, <3>2, LenProperties DEF LogOfHistory, RunRecord
    <3>4. IsPiece(s.sent, history[r])
      BY <1>5, <3>3, TailIsPiece
    <3>5. IsRunStatusTerminal(runs[r].status) => Silent(r)
      <4>1. created \in Nat /\ r \in Nat /\ r <= created
        BY <1>2, RunStoreAssumption DEF FullInv, StoreInv, RunIds, NoRun
      <4>2. QED
        BY <4>1 DEF Silent, IsRunStatusTerminal, Terminal
    <3>6. ~ IsRunStatusTerminal(runs[r].status)
              => IsRunStatusCancellable(runs[r].status)
      BY <1>1, <1>2 DEF RunRecord, IsRunStatusTerminal, IsRunStatusCancellable
    <3>7. Len(s.sent) >= KeptOf(history[r])
      BY <3>3
    <3>8. QED
      BY <3>2, <3>3, <3>4, <3>5, <3>6, <3>7
  <2>3. QED
    BY <2>1, <2>2
<1> HIDE DEF s
<1>7. /\ new \in Stream /\ new.runId = r /\ new.sent = s.sent
      /\ new.state = s.state /\ new.reason = s.reason
      /\ new.heartbeat /\ new.abortListener = s.abortListener
  BY <1>6 DEF Stream
<1> HIDE DEF new
<1>8. PICK n \in {s, new} :
          /\ streams' = [streams EXCEPT ![t] = n]
          /\ n = IF s.state = "closed" THEN s ELSE new
          /\ listeners' = IF s.state = "closed" THEN listeners
                          ELSE [listeners EXCEPT ![r] = @ \cup {t}]
          /\ sseStreams' = IF s.state = "closed" THEN sseStreams
                           ELSE sseStreams \cup {t}
  <2>1. CASE s.state = "closed"
    <3>1. streams' = [streams EXCEPT ![t] = s]
          /\ listeners' = listeners /\ sseStreams' = sseStreams
      BY <1>2, <2>1 DEF Subscribed
    <3>2. QED
      BY <2>1, <3>1
  <2>2. CASE s.state # "closed"
    <3>1. /\ streams' = [streams EXCEPT ![t] = new]
          /\ listeners' = [listeners EXCEPT ![r] = @ \cup {t}]
          /\ sseStreams' = sseStreams \cup {t}
      BY <1>2, <1>6, <2>2 DEF Subscribed, new
    <3>2. QED
      BY <2>2, <3>1
  <2>3. QED
    BY <2>1, <2>2
<1>9. /\ n \in Stream /\ n.runId = r /\ n.sent = s.sent
      /\ n.state = s.state /\ n.reason = s.reason
      /\ n.heartbeat <=> (n.state = "open")
      /\ n.abortListener <=> (n.state = "open")
      /\ n.state \in {"open", "closed"}
  BY <1>6, <1>7, <1>8
<1>10. \A u \in Streams : streams'[u] = IF u = t THEN n ELSE streams[u]
  BY <1>1, <1>8 DEF StreamTypes
<1>11. StreamTypes'
  <2>1. streams' \in [Streams -> Stream]
    BY <1>1, <1>8, <1>9 DEF StreamTypes
  <2>2. listeners' \in [RunIds -> SUBSET Streams] /\ sseStreams' \subseteq Streams
    BY <1>1, <1>8 DEF StreamTypes
  <2>3. QED
    BY <1>1, <1>2, <2>1, <2>2 DEF StreamTypes
<1>12. HeldExactlyWhileOpen'
  <2>1. ASSUME NEW u \in Streams
        PROVE  /\ (u \in sseStreams) <=> (streams[u].state = "open")
               /\ \A q \in RunIds : (u \in listeners[q])
                      <=> (streams[u].state = "open" /\ streams[u].runId = q)
               /\ streams[u].heartbeat <=> (streams[u].state = "open")
               /\ streams[u].abortListener <=> (streams[u].state = "open")
    BY DEF FullInv, StreamInv, HeldExactlyWhileOpen
  <2>2. \A u \in Streams, q \in RunIds :
            u \in listeners'[q] <=> \/ u \in listeners[q]
                                    \/ s.state # "closed" /\ u = t /\ q = r
    BY <1>1, <1>8 DEF StreamTypes
  <2>3. ASSUME NEW u \in Streams
        PROVE  /\ (u \in sseStreams') <=> (streams'[u].state = "open")
               /\ \A q \in RunIds : (u \in listeners'[q])
                      <=> (streams'[u].state = "open" /\ streams'[u].runId = q)
               /\ streams'[u].heartbeat <=> (streams'[u].state = "open")
               /\ streams'[u].abortListener <=> (streams'[u].state = "open")
    <3>1. CASE u = t
      BY <1>2, <1>8, <1>9, <1>10, <2>1, <2>2, <3>1
    <3>2. CASE u # t
      BY <1>8, <1>10, <2>1, <2>2, <3>2
    <3>3. QED
      BY <3>1, <3>2
  <2>4. QED
    BY <2>3 DEF HeldExactlyWhileOpen
<1>13. \A q \in RunIds : LogOfHistory(q)'
  BY <1>1, <1>2 DEF LogOfHistory, IsTail, KeptOf
<1>14. \A u \in Streams : StreamOk(u)'
  <2> SUFFICES ASSUME NEW u \in Streams
               PROVE  StreamOkNext(u)
    BY StreamOkAfter
  <2>1. StreamOk(u)
    BY DEF FullInv, StreamInv
  <2>2. CASE u = t
    BY <1>2, <1>6, <1>9, <1>10, <2>2 DEF StreamOkNext, Silent
  <2>3. CASE u # t
    BY <1>2, <1>10, <2>1, <2>3 DEF StreamOk, StreamOkNext, Silent
  <2>4. QED
    BY <2>2, <2>3
<1>15. QED
  BY <1>11, <1>12, <1>13, <1>14 DEF StreamInv

-------------------------------------------------------------------------------
(***************************************************************************)
(* Part 13: the invariant, and the results.                                *)
(***************************************************************************)

LEMMA StreamInitInv == StreamInit => FullInv
<1> SUFFICES ASSUME StreamInit
             PROVE  FullInv
  OBVIOUS
<1>1. StoreInv /\ LogInv
  <2>1. Init
    BY DEF StreamInit
  <2>2. StoreInv
    BY <2>1, InitInv
  <2>3. LogInv
    BY <2>1, NoRunTrue DEF Init, LogInv
  <2>4. QED
    BY <2>2, <2>3
<1>2. StreamTypes
  <2>1. <<>> \in Seq(RunEvent)
    BY EmptySeq
  <2>2. NoStream \in Stream
    BY <2>1 DEF NoStream, Stream
  <2>3. QED
    BY <2>1, <2>2 DEF StreamInit, StreamTypes
<1>3. HeldExactlyWhileOpen
  BY DEF StreamInit, HeldExactlyWhileOpen, NoStream
<1>4. \A r \in RunIds : LogOfHistory(r)
  <2>1. Len(<<>>) = 0
    BY EmptySeq
  <2>2. IsTail(<<>>, <<>>) /\ KeptOf(<<>>) = 0
    BY <2>1, RunRecordsAssumption DEF IsTail, KeptOf
  <2>3. \A r \in RunIds : runs[r].events = <<>> /\ history[r] = <<>>
    BY DEF StreamInit, Init, NoRun
  <2>4. QED
    BY <2>1, <2>2, <2>3 DEF LogOfHistory
<1>5. \A t \in Streams : StreamOk(t)
  BY DEF StreamInit, StreamOk, NoStream
<1>6. QED
  BY <1>1, <1>2, <1>3, <1>4, <1>5 DEF FullInv, StreamInv

LEMMA StreamNextInv ==
  FullInv /\ [StreamNext]_<<vars, streamVars>> => FullInv'
<1> SUFFICES ASSUME FullInv, [StreamNext]_<<vars, streamVars>>
             PROVE  FullInv'
  OBVIOUS
<1>1. StoreInv /\ LogInv /\ StreamInv
  BY DEF FullInv
<1>2. [Next]_vars
  BY DEF StreamNext, Open, Disconnect, CloseSseStreams, StopListening
<1>3. StoreInv' /\ LogInv'
  BY <1>1, <1>2, NextInv, LogStep
<1>4. /\ StreamTypes /\ streams \in [Streams -> Stream]
      /\ sseStreams \subseteq Streams
      /\ \A t \in Streams : t \in sseStreams => streams[t].state = "open"
  BY <1>1 DEF StreamInv, StreamTypes, HeldExactlyWhileOpen
<1>5. CASE Next /\ Notify
  BY <1>3, <1>5, NotifyInv DEF FullInv
<1>6. ASSUME NEW t \in Streams, NEW r \in RunIds, NEW aborted \in BOOLEAN,
             Open(t, r, aborted)
      PROVE  FullInv'
  BY <1>3, <1>6, OpenInv DEF FullInv
<1>7. ASSUME NEW t \in Streams, Disconnect(t)
      PROVE  FullInv'
  <2>1. /\ streams' = [streams EXCEPT ![t] = CloseStream(streams[t],
                                                         "client-disconnect")]
        /\ streams[t].state = "open" /\ Released
        /\ UNCHANGED <<vars, history>>
    BY <1>7 DEF Disconnect
  <2>2. streams' = [u \in Streams |-> streams'[u]]
    BY <1>4, <2>1
  <2>3. \A u \in Streams :
           \/ streams'[u] = streams[u]
           \/ /\ streams[u].state = "open"
              /\ streams'[u] = CloseStream(streams[u], "client-disconnect")
    BY <1>4, <2>1
  <2>4. StreamInv'
    BY <1>1, <2>1, <2>2, <2>3, ClosingInv
  <2>5. QED
    BY <1>3, <2>4 DEF FullInv
<1>8. CASE CloseSseStreams
  <2>1. /\ streams' = [t \in Streams |->
                          IF t \in sseStreams
                          THEN CloseStream(streams[t], "shutdown")
                          ELSE streams[t]]
        /\ Released /\ UNCHANGED <<vars, history>>
    BY <1>8 DEF CloseSseStreams
  <2>2. streams' = [u \in Streams |-> streams'[u]]
    BY <2>1
  <2>3. \A u \in Streams :
           \/ streams'[u] = streams[u]
           \/ /\ streams[u].state = "open"
              /\ streams'[u] = CloseStream(streams[u], "shutdown")
    BY <1>4, <2>1
  <2>4. StreamInv'
    BY <1>1, <2>1, <2>2, <2>3, ClosingInv
  <2>5. QED
    BY <1>3, <2>4 DEF FullInv
<1>9. CASE StopListening \/ UNCHANGED <<vars, streamVars>>
  <2>1. /\ runs' = runs /\ created' = created
        /\ streams' = streams /\ listeners' = listeners
        /\ sseStreams' = sseStreams /\ history' = history
    BY <1>9 DEF StopListening, vars, streamVars
  <2>2. StreamTypes' /\ HeldExactlyWhileOpen'
    BY <1>1, <2>1 DEF StreamInv, StreamTypes, HeldExactlyWhileOpen
  <2>3. \A r \in RunIds : LogOfHistory(r)'
    BY <1>1, <2>1 DEF StreamInv, LogOfHistory, IsTail, KeptOf
  <2>4. ASSUME NEW t \in Streams
        PROVE  StreamOk(t)'
    <3>1. StreamOkNext(t)
      BY <1>1, <2>1 DEF StreamInv, StreamOk, StreamOkNext, Silent
    <3>2. QED
      BY <3>1, StreamOkAfter
  <2>5. StreamInv'
    BY <2>2, <2>3, <2>4 DEF StreamInv
  <2>6. QED
    BY <1>3, <2>5 DEF FullInv
<1>10. QED
  BY <1>5, <1>6, <1>7, <1>8, <1>9 DEF StreamNext

\* The invariant all results about the streams rest on.
THEOREM StreamInvariant == StreamSpec => []FullInv
  BY StreamInitInv, StreamNextInv, PTL DEF StreamSpec

\* A stream holds its subscription, its heartbeat, its abort listener and its
\* place among the streams the shutdown closes exactly while it is open:
\* createSseResponse leaks none of them, whichever way the stream ends, and
\* subscribes no stream that a replayed event has closed.
THEOREM StreamsReleaseWhatTheyHold == StreamSpec => []HeldExactlyWhileOpen
<1>1. FullInv => HeldExactlyWhileOpen
  BY DEF FullInv, StreamInv
<1>2. QED
  BY <1>1, StreamInvariant, PTL

\* The run of an open stream has not ended and is still in the store, so its
\* terminal event is still to come: no client is left waiting.
THEOREM NoClientWaitsInVain == StreamSpec => []OpenStreamsFollowActiveRuns
<1>1. FullInv => OpenStreamsFollowActiveRuns
  BY DEF FullInv, StreamInv, StreamOk, OpenStreamsFollowActiveRuns
<1>2. QED
  BY <1>1, StreamInvariant, PTL

\* A client that connects at any moment gets all events the log still holds
\* and then every later one, each exactly once and in order, until its stream
\* is closed - up to the last, if the end of the run closed it.
THEOREM StreamsAreGapless == StreamSpec => []NoEventLostOrRepeated
<1>1. FullInv => NoEventLostOrRepeated
  <2> SUFFICES ASSUME FullInv, NEW t \in Streams,
                      streams[t].state # "unopened"
               PROVE  LET s    == streams[t]
                          past == history[s.runId]
                          kept == KeptOf(past)
                      IN  /\ \E i \in 0 .. Len(past) - Len(s.sent) :
                                s.sent = SubSeq(past, i + 1, i + Len(s.sent))
                          /\ s.state = "open" \/ s.reason = "run-terminal"
                                => /\ Len(s.sent) >= kept
                                   /\ s.sent = SubSeq(past,
                                                  Len(past) - Len(s.sent) + 1,
                                                  Len(past))
    BY DEF NoEventLostOrRepeated, KeptOf
  <2> DEFINE s == streams[t]
             sent == s.sent
             past == history[s.runId]
  <2>1. /\ StreamOk(t) /\ StreamTypes
        /\ sent \in Seq(RunEvent) /\ s.runId \in RunIds
    BY DEF FullInv, StreamInv, StreamTypes, StreamOk, Stream
  <2>2. past \in Seq(RunEvent)
    BY <2>1 DEF StreamTypes
  <2>3. IsPiece(sent, past)
    BY <2>1 DEF StreamOk
  <2>4. s.state = "open" \/ s.reason = "run-terminal" =>
            Len(sent) >= KeptOf(past) /\ IsTail(sent, past)
    BY <2>1 DEF StreamOk
  <2> HIDE DEF sent, past
  <2>5. Len(sent) \in Nat /\ Len(past) \in Nat
    BY <2>1, <2>2, LenProperties
  <2>6. \E i \in 0 .. Len(past) - Len(sent) :
            sent = SubSeq(past, i + 1, i + Len(sent))
    BY <2>1, <2>2, <2>3, PieceIsSubSeq DEF IsPiece
  <2>7. ASSUME IsTail(sent, past)
        PROVE  sent = SubSeq(past, Len(past) - Len(sent) + 1, Len(past))
    <3> DEFINE i == Len(past) - Len(sent)
    <3>1. i \in 0 .. Len(past) - Len(sent) /\ i + Len(sent) = Len(past)
      BY <2>5, <2>7 DEF IsTail
    <3>2. \A j \in 1 .. Len(sent) : sent[j] = past[i + j]
      BY <2>7 DEF IsTail
    <3> HIDE DEF i
    <3>3. sent = SubSeq(past, i + 1, i + Len(sent))
      BY <2>1, <2>2, <3>1, <3>2, PieceIsSubSeq
    <3>4. QED
      BY <3>1, <3>3 DEF i
  <2>8. QED
    BY <2>4, <2>6, <2>7 DEF sent, past
<1>2. QED
  BY <1>1, StreamInvariant, PTL

===============================================================================
