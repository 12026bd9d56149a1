------------------------------ MODULE RunRecords ------------------------------
(***************************************************************************)
(* What the run store keeps for one run, and what each of its mutating     *)
(* methods does to it (src/server/runs/in-memory-run-store).  The store's  *)
(* three maps - run records, results, event logs - share their keys, so a  *)
(* run is one record here: the RunRecord fields, its result and its log.   *)
(* Every method is an operator from a run to the run after the call, so    *)
(* that a module whose code calls several of them between two awaits can   *)
(* compose them in one step.  An early return is the identity.             *)
(*                                                                         *)
(* Abstracted: identifiers, model and workload names, token counts and     *)
(* texts (nothing branches on them); a failure is its code.                *)
(***************************************************************************)
EXTENDS Integers, Sequences, FiniteSets

CONSTANTS
    CaseIds,          \* the case identifiers a caller may report on
    FailureCodes,     \* the codes a run or a case may fail with
    NoResult,         \* no entry in the result map (a model value)
    MaxEventsPerRun   \* MAX_EVENTS_PER_RUN, the length of a run's event log

ASSUME RunRecordsAssumption == MaxEventsPerRun \in Nat \ {0}

Null == -1              \* a timestamp that is not set
NoCase == "no-case"     \* an event that is about the whole run
NoFailure == "no-failure"

-------------------------------------------------------------------------------
Terminal == {"completed", "failed", "cancelled"}

IsRunStatusTerminal(status) == status \in Terminal

IsRunStatusCancellable(status) == status \in {"queued", "running"}

EventNames == {"run.created", "run.started", "run.case.started",
               "run.case.completed", "run.case.failed",
               "run.completed", "run.failed", "run.cancelled"}

TerminalEvents == {"run.completed", "run.failed", "run.cancelled"}

Progress == [totalCases : Nat, completedCases : Nat, failedCases : Nat]

RunEvent == [event : EventNames, caseId : CaseIds \cup {NoCase},
             progress : Progress]

CaseOutcome == [caseId : CaseIds, status : {"completed", "failed"}]

RunResult == [status : Terminal, startedAt : Int, finishedAt : Int,
              summary : Progress, cases : Seq(CaseOutcome),
              error : FailureCodes \cup {NoFailure}]

RunRecord == [status : Terminal \cup {"untracked", "queued", "running"},
              startedAt : Int, finishedAt : Int,
              totalCases : Nat, completedCases : Nat, failedCases : Nat,
              caseOutcomes : Seq(CaseOutcome),
              failure : FailureCodes \cup {NoFailure},
              result : RunResult \cup {NoResult},
              events : Seq(RunEvent)]

\* A run the maps hold no entry for.
NoRun == [status |-> "untracked", startedAt |-> Null, finishedAt |-> Null,
          totalCases |-> 0, completedCases |-> 0, failedCases |-> 0,
          caseOutcomes |-> <<>>, failure |-> NoFailure,
          result |-> NoResult, events |-> <<>>]

-------------------------------------------------------------------------------
(* Helpers of the store.                                                   *)

BuildProgress(run) == [totalCases |-> run.totalCases,
                       completedCases |-> run.completedCases,
                       failedCases |-> run.failedCases]

\* Mutant of ReconcileTotalCases: the announced total is taken at its word.
ReconcileTotalCasesNever(run) == run

ReconcileTotalCases(run) ==
    LET observed == run.completedCases + run.failedCases
    IN  [run EXCEPT !.totalCases = IF observed > @ THEN observed ELSE @]

\* The log keeps the newest MaxEventsPerRun events.
EmitRunEvent(run, name, caseId) ==
    LET log == Append(run.events, [event |-> name, caseId |-> caseId,
                                   progress |-> BuildProgress(run)])
    IN  [run EXCEPT !.events =
            IF Len(log) > MaxEventsPerRun
            THEN SubSeq(log, Len(log) - MaxEventsPerRun + 1, Len(log))
            ELSE log]

TransitionRunStatus(run, status, at) ==
    IF run.status = status \/ IsRunStatusTerminal(run.status)
    THEN run
    ELSE [run EXCEPT
            !.status = status,
            !.startedAt = IF status = "running" /\ @ = Null THEN at ELSE @,
            !.finishedAt = IF IsRunStatusTerminal(status) THEN at ELSE @]

BuildRunResult(run) ==
    [status |-> run.status, startedAt |-> run.startedAt,
     finishedAt |-> run.finishedAt, summary |-> BuildProgress(run),
     cases |-> run.caseOutcomes, error |-> run.failure]

PushOutcome(run, caseId, status) ==
    [run EXCEPT !.caseOutcomes =
        Append(@, [caseId |-> caseId, status |-> status])]

RecordCompletedCaseOutcome(run, caseId) ==
    ReconcileTotalCases(
        [PushOutcome(run, caseId, "completed") EXCEPT !.completedCases = @ + 1])

RecordFailedCaseOutcome(run, caseId) ==
    ReconcileTotalCases(
        [PushOutcome(run, caseId, "failed") EXCEPT !.failedCases = @ + 1])

-------------------------------------------------------------------------------
(* The methods of InMemoryRunStore that change one run.                    *)

QueuedRun(totalCases) ==
    EmitRunEvent([NoRun EXCEPT !.status = "queued", !.totalCases = totalCases],
                 "run.created", NoCase)

MarkRunRunning(run, at) ==
    IF run.status # "queued"
    THEN run
    ELSE EmitRunEvent(TransitionRunStatus(run, "running", at),
                      "run.started", NoCase)

RecordCaseStarted(run, caseId) ==
    IF run.status # "running"
    THEN run
    ELSE EmitRunEvent(run, "run.case.started", caseId)

\* Mutant of RecordCaseCompleted: a late outcome is still recorded.
RecordCaseCompletedAnytime(run, caseId) ==
    IF run.status = "untracked"
    THEN run
    ELSE EmitRunEvent(RecordCompletedCaseOutcome(run, caseId),
                      "run.case.completed", caseId)

\* Mutant of RecordCaseCompleted: the event is emitted before the outcome is recorded.
RecordCaseCompletedEventFirst(run, caseId) ==
    IF run.status # "running"
    THEN run
    ELSE RecordCompletedCaseOutcome(
            EmitRunEvent(run, "run.case.completed", caseId), caseId)

RecordCaseCompleted(run, caseId) ==
    IF run.status # "running"
    THEN run
    ELSE EmitRunEvent(RecordCompletedCaseOutcome(run, caseId),
                      "run.case.completed", caseId)

RecordCaseFailed(run, caseId) ==
    IF run.status # "running"
    THEN run
    ELSE EmitRunEvent(RecordFailedCaseOutcome(run, caseId),
                      "run.case.failed", caseId)

\* The loop of the orchestrators that fails every remaining case in turn.
RecordCasesFailed(run, caseIds) ==
    LET after[n \in 0 .. Len(caseIds)] ==
            IF n = 0 THEN run ELSE RecordCaseFailed(after[n - 1], caseIds[n])
    IN  after[Len(caseIds)]

\* Mutant of Finish: the result is built before the transition.
FinishSnapshotFirst(run, status, at, event) ==
    LET kept == [run EXCEPT !.result = BuildRunResult(run)]
    IN  EmitRunEvent(TransitionRunStatus(kept, status, at), event, NoCase)

\* What completeRun, failRun and cancelRun share: the transition, the result
\* that snapshots the run after it, and the closing event.
Finish(run, status, at, event) ==
    LET final == TransitionRunStatus(run, status, at)
    IN  EmitRunEvent([final EXCEPT !.result = BuildRunResult(final)],
                     event, NoCase)

\* Mutant of CompleteRun: only a completed run is left alone.
CompleteRunUnlessCompleted(run, at) ==
    IF run.status = "completed"
    THEN run
    ELSE Finish(run, "completed", at, "run.completed")

CompleteRun(run, at) ==
    IF ~ IsRunStatusCancellable(run.status)
    THEN run
    ELSE Finish(run, "completed", at, "run.completed")

FailRun(run, at, code) ==
    IF ~ IsRunStatusCancellable(run.status)
    THEN run
    ELSE Finish([run EXCEPT !.failure = code], "failed", at, "run.failed")

CancelRun(run, at) ==
    IF ~ IsRunStatusCancellable(run.status)
    THEN run
    ELSE Finish(run, "cancelled", at, "run.cancelled")

===============================================================================
