--------------------------- MODULE RunRecordsProofs ---------------------------
(***************************************************************************)
(* What the methods of the run store do to one run: the facts that the     *)
(* proofs about RunStore, RunEventStream, SweepRun and RunServer share.    *)
(***************************************************************************)
EXTENDS RunRecords, SequenceTheorems, WellFoundedInduction, TLAPS

-------------------------------------------------------------------------------
(***************************************************************************)
(* Part 1: the type of a run and the emission of an event.                 *)
(***************************************************************************)

LEMMA NoRunType == NoRun \in RunRecord
  BY DEF NoRun, RunRecord, Null, NoCase, NoFailure, Terminal

LEMMA ProgressType ==
  ASSUME NEW run \in RunRecord
  PROVE  BuildProgress(run) \in Progress
  BY DEF BuildProgress, RunRecord, Progress

LEMMA EmitType ==
  ASSUME NEW run \in RunRecord,
         NEW name \in EventNames,
         NEW c \in CaseIds \cup {NoCase}
  PROVE  /\ EmitRunEvent(run, name, c) \in RunRecord
         /\ EmitRunEvent(run, name, c) =
                [run EXCEPT !.events = EmitRunEvent(run, name, c).events]
<1> DEFINE e == [event |-> name, caseId |-> c, progress |-> BuildProgress(run)]
           log == Append(run.events, e)
           kept == IF Len(log) > MaxEventsPerRun
                   THEN SubSeq(log, Len(log) - MaxEventsPerRun + 1, Len(log))
                   ELSE log
<1>1. e \in RunEvent
  BY ProgressType DEF RunEvent
<1>2. run.events \in Seq(RunEvent)
  BY DEF RunRecord
<1>3. log \in Seq(RunEvent)
  BY <1>1, <1>2
<1>4. kept \in Seq(RunEvent)
  <2>1. CASE Len(log) > MaxEventsPerRun
    <3>1. \A i \in Len(log) - MaxEventsPerRun + 1 .. Len(log) :
              log[i] \in RunEvent
      BY <1>3, <2>1, RunRecordsAssumption
    <3>2. SubSeq(log, Len(log) - MaxEventsPerRun + 1, Len(log)) \in Seq(RunEvent)
      BY <1>3, <2>1, <3>1, RunRecordsAssumption
    <3>3. QED BY <2>1, <3>2
  <2>2. CASE ~ (Len(log) > MaxEventsPerRun)
    BY <1>3, <2>2
  <2>3. QED BY <2>1, <2>2
<1>5. EmitRunEvent(run, name, c) = [run EXCEPT !.events = kept]
  BY DEF EmitRunEvent
<1> HIDE DEF kept
<1>6. QED
  BY <1>4, <1>5 DEF RunRecord


\* Emitting an event changes nothing but the log.
LEMMA EmitFrame ==
  ASSUME NEW run \in RunRecord,
         NEW name \in EventNames,
         NEW c \in CaseIds \cup {NoCase}
  PROVE  LET new == EmitRunEvent(run, name, c)
         IN  /\ new \in RunRecord
             /\ new.status = run.status
             /\ new.caseOutcomes = run.caseOutcomes
             /\ new.result = run.result
             /\ BuildProgress(new) = BuildProgress(run)
             /\ BuildRunResult(new) = BuildRunResult(run)
<1> DEFINE new == EmitRunEvent(run, name, c)
<1>1. new \in RunRecord /\ new = [run EXCEPT !.events = new.events]
  BY EmitType
<1> HIDE DEF new
<1>2. QED
  BY <1>1 DEF RunRecord, BuildProgress, BuildRunResult, new

-------------------------------------------------------------------------------
(***************************************************************************)
(* Part 2: what each method leaves alone.                                  *)
(***************************************************************************)

\* The cases reported of a run, in the order of the reports.
Reported(run) == [i \in DOMAIN run.caseOutcomes |-> run.caseOutcomes[i].caseId]

\* The run is where it was, and nothing is reported of it.
SameReport(new, run) ==
    /\ new \in RunRecord
    /\ new.caseOutcomes = run.caseOutcomes
    /\ new.completedCases = run.completedCases
    /\ new.failure = run.failure

LEMMA EmitReport ==
  ASSUME NEW run \in RunRecord, NEW name \in EventNames,
         NEW c \in CaseIds \cup {NoCase}
  PROVE  LET new == EmitRunEvent(run, name, c)
         IN  SameReport(new, run) /\ new.status = run.status
             /\ new.result = run.result
<1> DEFINE new == EmitRunEvent(run, name, c)
<1>1. /\ new \in RunRecord /\ new.status = run.status
      /\ new.caseOutcomes = run.caseOutcomes /\ new.result = run.result
      /\ BuildRunResult(new) = BuildRunResult(run)
  BY EmitFrame
<1> HIDE DEF new
<1>2. new.failure = run.failure /\ BuildProgress(new) = BuildProgress(run)
  BY <1>1 DEF BuildRunResult
<1>3. new.completedCases = run.completedCases
  BY <1>2 DEF BuildProgress
<1>4. QED
  BY <1>1, <1>2, <1>3 DEF SameReport, new

LEMMA QueuedReport ==
  ASSUME NEW total \in Nat
  PROVE  LET new == QueuedRun(total)
         IN  /\ new \in RunRecord /\ new.status = "queued"
             /\ new.caseOutcomes = <<>> /\ new.failure = NoFailure
             /\ new.completedCases = 0 /\ new.result = NoResult
<1> DEFINE old == [NoRun EXCEPT !.status = "queued", !.totalCases = total]
<1>1. old \in RunRecord
  BY NoRunType DEF RunRecord
<1>2. /\ old.status = "queued" /\ old.caseOutcomes = <<>>
      /\ old.failure = NoFailure /\ old.completedCases = 0
      /\ old.result = NoResult
  BY DEF NoRun
<1> HIDE DEF old
<1>3. "run.created" \in EventNames
  BY DEF EventNames
<1>4. QED
  BY ZenonT(60), <1>1, <1>2, <1>3, EmitReport DEF QueuedRun, SameReport, old

LEMMA MarkRunningReport ==
  ASSUME NEW run \in RunRecord, NEW at \in Int
  PROVE  LET new == MarkRunRunning(run, at)
         IN  /\ SameReport(new, run) /\ new.result = run.result
             /\ run.status # "queued" => new = run
             /\ run.status = "queued" => new.status = "running"
<1>1. CASE run.status # "queued"
  BY <1>1 DEF MarkRunRunning, SameReport
<1>2. CASE run.status = "queued"
  <2> DEFINE mid == TransitionRunStatus(run, "running", at)
  <2>1. /\ mid \in RunRecord /\ mid.status = "running"
        /\ mid.caseOutcomes = run.caseOutcomes
        /\ mid.completedCases = run.completedCases
        /\ mid.failure = run.failure /\ mid.result = run.result
    BY <1>2 DEF TransitionRunStatus, IsRunStatusTerminal, Terminal, RunRecord
  <2> HIDE DEF mid
  <2>2. "run.started" \in EventNames
    BY DEF EventNames
  <2>3. MarkRunRunning(run, at) = EmitRunEvent(mid, "run.started", NoCase)
    BY <1>2 DEF MarkRunRunning, mid
  <2>4. QED
    BY <1>2, <2>1, <2>2, <2>3, EmitReport DEF SameReport
<1>3. QED
  BY <1>1, <1>2

LEMMA CaseStartedReport ==
  ASSUME NEW run \in RunRecord, NEW c \in CaseIds
  PROVE  LET new == RecordCaseStarted(run, c)
         IN  SameReport(new, run) /\ new.status = run.status
             /\ new.result = run.result
<1>1. "run.case.started" \in EventNames
  BY DEF EventNames
<1>2. QED
  BY <1>1, EmitReport DEF RecordCaseStarted, SameReport

\* Raising one of the two counters leaves the rest of a record alone.
LEMMA RaisedCounter ==
  ASSUME NEW run \in RunRecord
  PROVE  /\ LET new == [run EXCEPT !.completedCases = @ + 1]
            IN  /\ new \in RunRecord
                /\ new.completedCases = run.completedCases + 1
                /\ new.status = run.status /\ new.result = run.result
                /\ new.caseOutcomes = run.caseOutcomes
                /\ new.failedCases = run.failedCases
                /\ new.failure = run.failure
         /\ LET new == [run EXCEPT !.failedCases = @ + 1]
            IN  /\ new \in RunRecord
                /\ new.failedCases = run.failedCases + 1
                /\ new.status = run.status /\ new.result = run.result
                /\ new.caseOutcomes = run.caseOutcomes
                /\ new.completedCases = run.completedCases
                /\ new.failure = run.failure
<1>1. run.completedCases + 1 \in Nat /\ run.failedCases + 1 \in Nat
  BY DEF RunRecord
<1>2. /\ [run EXCEPT !.completedCases = @ + 1] \in RunRecord
      /\ [run EXCEPT !.failedCases = @ + 1] \in RunRecord
  BY <1>1 DEF RunRecord
<1>3. QED
  BY <1>2 DEF RunRecord

\* Reconciling the total changes nothing but the total, which covers both
\* counters afterwards.
LEMMA ReconciledTotal ==
  ASSUME NEW run \in RunRecord
  PROVE  LET r == ReconcileTotalCases(run)
         IN  /\ r \in RunRecord /\ r.status = run.status
             /\ r.result = run.result
             /\ r.caseOutcomes = run.caseOutcomes
             /\ r.completedCases = run.completedCases
             /\ r.failedCases = run.failedCases
             /\ r.failure = run.failure
             /\ r.completedCases + r.failedCases <= r.totalCases
<1> DEFINE observed == run.completedCases + run.failedCases
           total == IF observed > run.totalCases
                    THEN observed ELSE run.totalCases
<1>1. /\ run.completedCases \in Nat /\ run.failedCases \in Nat
      /\ run.totalCases \in Nat
  BY DEF RunRecord
<1>2. total \in Nat /\ observed <= total
  BY <1>1
<1>3. ReconcileTotalCases(run) = [run EXCEPT !.totalCases = total]
  BY DEF ReconcileTotalCases, RunRecord
<1> HIDE DEF total
<1>4. [run EXCEPT !.totalCases = total] \in RunRecord
  BY <1>2 DEF RunRecord
<1>5. /\ [run EXCEPT !.totalCases = total].status = run.status
      /\ [run EXCEPT !.totalCases = total].result = run.result
      /\ [run EXCEPT !.totalCases = total].caseOutcomes = run.caseOutcomes
      /\ [run EXCEPT !.totalCases = total].completedCases = run.completedCases
      /\ [run EXCEPT !.totalCases = total].failedCases = run.failedCases
      /\ [run EXCEPT !.totalCases = total].failure = run.failure
      /\ [run EXCEPT !.totalCases = total].totalCases = total
  BY DEF RunRecord
<1>6. QED
  BY <1>2, <1>3, <1>4, <1>5

\* An outcome is appended to the report, and counted.
LEMMA OutcomeReport ==
  ASSUME NEW run \in RunRecord, NEW c \in CaseIds
  PROVE  /\ LET new == RecordCompletedCaseOutcome(run, c)
            IN  /\ new \in RunRecord /\ new.status = run.status
                /\ new.caseOutcomes = Append(run.caseOutcomes,
                                     [caseId |-> c, status |-> "completed"])
                /\ new.completedCases = run.completedCases + 1
                /\ new.failure = run.failure /\ new.result = run.result
         /\ LET new == RecordFailedCaseOutcome(run, c)
            IN  /\ new \in RunRecord /\ new.status = run.status
                /\ new.caseOutcomes = Append(run.caseOutcomes,
                                     [caseId |-> c, status |-> "failed"])
                /\ new.completedCases = run.completedCases
                /\ new.failure = run.failure /\ new.result = run.result
<1>1. ASSUME NEW how \in {"completed", "failed"}
      PROVE  LET p == PushOutcome(run, c, how)
             IN  /\ p \in RunRecord /\ p.status = run.status
                 /\ p.caseOutcomes = Append(run.caseOutcomes,
                                            [caseId |-> c, status |-> how])
                 /\ p.completedCases = run.completedCases
                 /\ p.failure = run.failure /\ p.result = run.result
  <2> DEFINE log == Append(run.caseOutcomes, [caseId |-> c, status |-> how])
  <2>1. log \in Seq(CaseOutcome)
    BY DEF RunRecord, CaseOutcome
  <2>2. PushOutcome(run, c, how) = [run EXCEPT !.caseOutcomes = log]
    BY DEF PushOutcome
  <2> HIDE DEF log
  <2>3. LET p == [run EXCEPT !.caseOutcomes = log]
        IN  /\ p \in RunRecord /\ p.status = run.status
            /\ p.caseOutcomes = log
            /\ p.completedCases = run.completedCases
            /\ p.failure = run.failure /\ p.result = run.result
    BY <2>1 DEF RunRecord
  <2>4. QED
    BY <2>2, <2>3 DEF log
<1>2. LET new == RecordCompletedCaseOutcome(run, c)
      IN  /\ new \in RunRecord /\ new.status = run.status
          /\ new.caseOutcomes = Append(run.caseOutcomes,
                               [caseId |-> c, status |-> "completed"])
          /\ new.completedCases = run.completedCases + 1
          /\ new.failure = run.failure /\ new.result = run.result
  <2> DEFINE p == PushOutcome(run, c, "completed")
             q == [p EXCEPT !.completedCases = @ + 1]
  <2>1. RecordCompletedCaseOutcome(run, c) = ReconcileTotalCases(q)
    BY DEF RecordCompletedCaseOutcome
  <2>2. /\ p \in RunRecord /\ p.status = run.status
        /\ p.caseOutcomes = Append(run.caseOutcomes,
                                   [caseId |-> c, status |-> "completed"])
        /\ p.completedCases = run.completedCases
        /\ p.failure = run.failure /\ p.result = run.result
    BY <1>1
  <2> HIDE DEF p
  <2>3. /\ q \in RunRecord /\ q.status = p.status
        /\ q.caseOutcomes = p.caseOutcomes
        /\ q.completedCases = p.completedCases + 1
        /\ q.failure = p.failure /\ q.result = p.result
    BY <2>2, RaisedCounter
  <2> HIDE DEF q
  <2>4. QED
    BY <2>1, <2>2, <2>3, ReconciledTotal
<1>3. LET new == RecordFailedCaseOutcome(run, c)
      IN  /\ new \in RunRecord /\ new.status = run.status
          /\ new.caseOutcomes = Append(run.caseOutcomes,
                               [caseId |-> c, status |-> "failed"])
          /\ new.completedCases = run.completedCases
          /\ new.failure = run.failure /\ new.result = run.result
  <2> DEFINE p == PushOutcome(run, c, "failed")
             q == [p EXCEPT !.failedCases = @ + 1]
  <2>1. RecordFailedCaseOutcome(run, c) = ReconcileTotalCases(q)
    BY DEF RecordFailedCaseOutcome
  <2>2. /\ p \in RunRecord /\ p.status = run.status
        /\ p.caseOutcomes = Append(run.caseOutcomes,
                                   [caseId |-> c, status |-> "failed"])
        /\ p.completedCases = run.completedCases
        /\ p.failure = run.failure /\ p.result = run.result
    BY <1>1
  <2> HIDE DEF p
  <2>3. /\ q \in RunRecord /\ q.status = p.status
        /\ q.caseOutcomes = p.caseOutcomes
        /\ q.completedCases = p.completedCases
        /\ q.failure = p.failure /\ q.result = p.result
    BY <2>2, RaisedCounter
  <2> HIDE DEF q
  <2>4. QED
    BY <2>1, <2>2, <2>3, ReconciledTotal
<1>4. QED
  BY <1>2, <1>3

LEMMA ReportedType ==
  ASSUME NEW run \in RunRecord
  PROVE  /\ Reported(run) \in Seq(CaseIds)
         /\ Len(Reported(run)) = Len(run.caseOutcomes)
<1> DEFINE s == run.caseOutcomes
<1>1. s \in Seq(CaseOutcome)
  BY DEF RunRecord
<1>2. \A i \in 1 .. Len(s) : s[i].caseId \in CaseIds
  <2>1. \A i \in 1 .. Len(s) : s[i] \in CaseOutcome
    BY <1>1
  <2>2. \A o \in CaseOutcome : o.caseId \in CaseIds
    BY DEF CaseOutcome
  <2>3. QED
    BY <2>1, <2>2
<1>3. Reported(run) \in [1 .. Len(s) -> CaseIds]
  BY <1>1, <1>2 DEF Reported
<1>4. Len(s) \in Nat
  BY <1>1
<1> HIDE DEF s
<1>5. Reported(run) \in Seq(CaseIds)
  BY <1>3, <1>4, IsASeq
<1>6. Len(Reported(run)) = Len(s)
  BY <1>3, <1>4, <1>5, LenProperties
<1>7. QED
  BY <1>5, <1>6 DEF s

\* What the recording of an outcome makes of a running run, and of any other.
LEMMA CaseReport ==
  ASSUME NEW run \in RunRecord, NEW c \in CaseIds
  PROVE  /\ LET new == RecordCaseCompleted(run, c)
            IN  /\ new \in RunRecord /\ new.status = run.status
                /\ new.failure = run.failure /\ new.result = run.result
                /\ run.status # "running" => new = run
                /\ run.status = "running"
                        => Reported(new) = Append(Reported(run), c)
         /\ LET new == RecordCaseFailed(run, c)
            IN  /\ new \in RunRecord /\ new.status = run.status
                /\ new.failure = run.failure /\ new.result = run.result
                /\ new.completedCases = run.completedCases
                /\ run.status # "running" => new = run
                /\ run.status = "running"
                        => Reported(new) = Append(Reported(run), c)
<1>1. ASSUME NEW new, NEW how,
             new.caseOutcomes = Append(run.caseOutcomes,
                                       [caseId |-> c, status |-> how])
      PROVE  Reported(new) = Append(Reported(run), c)
  <2>1. run.caseOutcomes \in Seq(CaseOutcome)
    BY DEF RunRecord
  <2>2. Reported(run) \in Seq(CaseIds)
    BY ReportedType
  <2>3. /\ Len(Append(Reported(run), c)) = Len(run.caseOutcomes) + 1
        /\ \A i \in 1 .. Len(run.caseOutcomes) + 1 :
              Append(Reported(run), c)[i] = new.caseOutcomes[i].caseId
    BY <1>1, <2>1, <2>2 DEF Reported
  <2>4. DOMAIN new.caseOutcomes = 1 .. Len(run.caseOutcomes) + 1
    BY <1>1, <2>1
  <2>5. Append(Reported(run), c) \in Seq(CaseIds)
    BY <2>2
  <2> DEFINE all == Append(Reported(run), c)
             n == Len(run.caseOutcomes) + 1
  <2>6. Reported(new) = [i \in 1 .. n |-> new.caseOutcomes[i].caseId]
    BY <2>4 DEF Reported
  <2>7. all = [i \in 1 .. n |-> all[i]]
    <3>1. Len(all) = n
      BY <2>3
    <3>2. \A q \in Seq(CaseIds) : q = [i \in 1 .. Len(q) |-> q[i]]
      OBVIOUS
    <3>3. all \in Seq(CaseIds)
      BY <2>5
    <3> HIDE DEF all
    <3>4. QED
      BY <3>1, <3>2, <3>3
  <2>8. \A i \in 1 .. n : all[i] = new.caseOutcomes[i].caseId
    BY <2>3
  <2> HIDE DEF all, n
  <2>9. QED
    BY <2>6, <2>7, <2>8 DEF all
<1>2. CASE run.status # "running"
  BY <1>2 DEF RecordCaseCompleted, RecordCaseFailed
<1>3. CASE run.status = "running"
  <2>1. "run.case.completed" \in EventNames /\ "run.case.failed" \in EventNames
    BY DEF EventNames
  <2> DEFINE x == RecordCompletedCaseOutcome(run, c)
             y == RecordFailedCaseOutcome(run, c)
  <2>2. /\ x \in RunRecord
        /\ RecordCaseCompleted(run, c)
              = EmitRunEvent(x, "run.case.completed", c)
        /\ x.status = run.status /\ x.failure = run.failure
        /\ x.result = run.result
        /\ Reported(x) = Append(Reported(run), c)
    BY <1>1, <1>3, OutcomeReport DEF RecordCaseCompleted
  <2>3. /\ y \in RunRecord
        /\ RecordCaseFailed(run, c) = EmitRunEvent(y, "run.case.failed", c)
        /\ y.status = run.status /\ y.failure = run.failure
        /\ y.result = run.result /\ y.completedCases = run.completedCases
        /\ Reported(y) = Append(Reported(run), c)
    BY <1>1, <1>3, OutcomeReport DEF RecordCaseFailed
  <2> HIDE DEF x, y
  <2>4. LET new == EmitRunEvent(x, "run.case.completed", c)
        IN  SameReport(new, x) /\ new.status = x.status
            /\ new.result = x.result
    BY <2>1, <2>2, EmitReport
  <2>5. LET new == EmitRunEvent(y, "run.case.failed", c)
        IN  SameReport(new, y) /\ new.status = y.status
            /\ new.result = y.result
    BY <2>1, <2>3, EmitReport
  <2>6. QED
    BY ZenonT(60), <1>3, <2>2, <2>3, <2>4, <2>5 DEF SameReport, Reported
<1>4. QED
  BY <1>2, <1>3

\* The end of a run: the report is closed, and says how it ended.
LEMMA EndReport ==
  ASSUME NEW run \in RunRecord, NEW at \in Int, NEW code \in FailureCodes
  PROVE  /\ LET new == CompleteRun(run, at)
            IN  /\ SameReport(new, run)
                /\ ~ IsRunStatusCancellable(run.status) => new = run
                /\ IsRunStatusCancellable(run.status)
                        => new.status = "completed" /\ new.result \in RunResult
         /\ LET new == CancelRun(run, at)
            IN  /\ SameReport(new, run)
                /\ ~ IsRunStatusCancellable(run.status) => new = run
                /\ IsRunStatusCancellable(run.status)
                        => new.status = "cancelled" /\ new.result \in RunResult
         /\ LET new == FailRun(run, at, code)
            IN  /\ new \in RunRecord
                /\ new.caseOutcomes = run.caseOutcomes
                /\ new.completedCases = run.completedCases
                /\ ~ IsRunStatusCancellable(run.status) => new = run
                /\ IsRunStatusCancellable(run.status) =>
                        /\ new.status = "failed" /\ new.result \in RunResult
                        /\ new.failure = code
<1>1. ASSUME NEW old \in RunRecord, NEW status \in Terminal,
             NEW event \in EventNames, IsRunStatusCancellable(old.status)
      PROVE  LET new == Finish(old, status, at, event)
             IN  /\ SameReport(new, old) /\ new.status = status
                 /\ new.result \in RunResult
  <2> DEFINE final == TransitionRunStatus(old, status, at)
             result == BuildRunResult(final)
             kept == [final EXCEPT !.result = result]
  <2>1. /\ final \in RunRecord /\ final.status = status
        /\ final.caseOutcomes = old.caseOutcomes
        /\ final.completedCases = old.completedCases
        /\ final.failure = old.failure
    BY ZenonT(60), <1>1
    DEF TransitionRunStatus, IsRunStatusCancellable, IsRunStatusTerminal,
        Terminal, RunRecord
  <2> HIDE DEF final
  <2>2. result \in RunResult
    BY <2>1 DEF BuildRunResult, BuildProgress, RunResult, RunRecord, Progress
  <2> HIDE DEF result
  <2>3. /\ kept \in RunRecord /\ kept.status = final.status
        /\ kept.caseOutcomes = final.caseOutcomes
        /\ kept.completedCases = final.completedCases
        /\ kept.failure = final.failure /\ kept.result = result
    BY <2>1, <2>2 DEF RunRecord
  <2> HIDE DEF kept
  <2>4. Finish(old, status, at, event) = EmitRunEvent(kept, event, NoCase)
    BY DEF Finish, kept, final, result
  <2>5. QED
    BY <2>1, <2>2, <2>3, <2>4, EmitReport DEF SameReport
<1>2. /\ {"completed", "failed", "cancelled"} \subseteq Terminal
      /\ {"run.completed", "run.failed", "run.cancelled"} \subseteq EventNames
  BY DEF Terminal, EventNames
<1>3. LET old == [run EXCEPT !.failure = code]
      IN  /\ old \in RunRecord /\ old.status = run.status
          /\ old.caseOutcomes = run.caseOutcomes /\ old.failure = code
          /\ old.completedCases = run.completedCases
  BY DEF RunRecord
<1>4. CASE ~ IsRunStatusCancellable(run.status)
  BY <1>4 DEF CompleteRun, CancelRun, FailRun, SameReport
<1>5. CASE IsRunStatusCancellable(run.status)
  <2>1. LET new == CompleteRun(run, at)
        IN  SameReport(new, run) /\ new.status = "completed"
            /\ new.result \in RunResult
    BY <1>1, <1>2, <1>5 DEF CompleteRun
  <2>2. LET new == CancelRun(run, at)
        IN  SameReport(new, run) /\ new.status = "cancelled"
            /\ new.result \in RunResult
    BY <1>1, <1>2, <1>5 DEF CancelRun
  <2>3. LET new == FailRun(run, at, code)
        IN  /\ new \in RunRecord
            /\ new.caseOutcomes = run.caseOutcomes
            /\ new.completedCases = run.completedCases
            /\ new.status = "failed" /\ new.result \in RunResult
            /\ new.failure = code
    <3> DEFINE old == [run EXCEPT !.failure = code]
    <3>1. FailRun(run, at, code) = Finish(old, "failed", at, "run.failed")
      BY <1>5 DEF FailRun
    <3>2. /\ old \in RunRecord /\ old.status = run.status
          /\ old.caseOutcomes = run.caseOutcomes /\ old.failure = code
          /\ old.completedCases = run.completedCases
      BY <1>3
    <3> HIDE DEF old
    <3>3. QED
      BY <1>1, <1>2, <1>5, <3>1, <3>2 DEF SameReport
  <2>4. QED
    BY <1>5, <2>1, <2>2, <2>3
<1>6. QED
  BY <1>4, <1>5

-------------------------------------------------------------------------------
(***************************************************************************)
(* Part 3: the loop over the remaining cases.                              *)
(***************************************************************************)

\* The least number principle, for a set of natural numbers.
LEMMA HasLeast ==
  ASSUME NEW S \in SUBSET Nat, S # {}
  PROVE  \E m \in S : \A k \in S : m <= k
<1> DEFINE R == OpToRel(<, Nat)
<1>1. IsWellFoundedOn(R, Nat)
  BY NatLessThanWellFounded
<1>2. \A k, m \in Nat : k < m => <<k, m>> \in R
  BY DEF OpToRel
<1> HIDE DEF R
<1>3. PICK m \in S : \A k \in S : ~ (<<k, m>> \in R)
  BY <1>1, WFMin
<1>4. \A k \in S : ~ (k < m)
  BY <1>2, <1>3
<1>5. \A k \in S : m <= k
  BY <1>4
<1>6. QED
  BY <1>5

\* The runs after each of the first n rounds of the loop.
Rounds(f, run, caseIds, n) ==
    f = [i \in 0 .. n |-> IF i = 0 THEN run
                          ELSE RecordCaseFailed(f[i - 1], caseIds[i])]

LEMMA RoundsExist ==
  ASSUME NEW run, NEW caseIds, NEW n \in Nat
  PROVE  \E f : Rounds(f, run, caseIds, n)
<1> DEFINE Bad == {m \in Nat : ~ \E f : Rounds(f, run, caseIds, m)}
<1>1. SUFFICES ASSUME Bad # {}
               PROVE  FALSE
  OBVIOUS
<1>2. PICK m \in Bad : \A k \in Bad : m <= k
  BY <1>1, HasLeast
<1>3. CASE m = 0
  <2> DEFINE f == [i \in 0 .. m |-> run]
  <2>1. Rounds(f, run, caseIds, m)
    BY <1>3 DEF Rounds
  <2>2. QED
    BY <2>1
<1>4. CASE m # 0
  <2>1. m - 1 \in Nat /\ m - 1 \notin Bad
    BY <1>2, <1>4
  <2>2. PICK g : Rounds(g, run, caseIds, m - 1)
    BY <2>1
  <2> DEFINE f == [i \in 0 .. m |-> IF i < m THEN g[i]
                                    ELSE RecordCaseFailed(g[m - 1], caseIds[m])]
  <2>3. \A i \in 0 .. m : f[i] = IF i = 0 THEN run
                                  ELSE RecordCaseFailed(f[i - 1], caseIds[i])
    <3>1. \A i \in 0 .. m - 1 : g[i] = IF i = 0 THEN run
                                  ELSE RecordCaseFailed(g[i - 1], caseIds[i])
      BY <2>2 DEF Rounds
    <3>2. \A i \in 0 .. m - 1 : f[i] = g[i]
      BY <2>1
    <3>3. f[m] = RecordCaseFailed(f[m - 1], caseIds[m])
      BY <2>1, <3>2
    <3> HIDE DEF f
    <3>4. QED
      BY <1>4, <2>1, <3>1, <3>2, <3>3
  <2>4. f = [i \in 0 .. m |-> f[i]]
    OBVIOUS
  <2> HIDE DEF f
  <2>5. Rounds(f, run, caseIds, m)
    BY <2>3, <2>4 DEF Rounds
  <2>6. QED
    BY <2>5
<1>5. QED
  BY <1>3, <1>4

\* Every case of the loop is reported, in turn, of a running run; nothing else
\* changes, and nothing at all if the run is not running.
LEMMA LoopReport ==
  ASSUME NEW run \in RunRecord, NEW caseIds \in Seq(CaseIds)
  PROVE  LET new == RecordCasesFailed(run, caseIds)
         IN  /\ new \in RunRecord /\ new.status = run.status
             /\ new.failure = run.failure /\ new.result = run.result
             /\ new.completedCases = run.completedCases
             /\ run.status # "running" => new = run
             /\ run.status = "running"
                    => Reported(new) = Reported(run) \o caseIds
<1>1. Len(caseIds) \in Nat
  OBVIOUS
<1> DEFINE f == CHOOSE g : Rounds(g, run, caseIds, Len(caseIds))
<1>2. Rounds(f, run, caseIds, Len(caseIds))
  BY <1>1, RoundsExist
<1>3. RecordCasesFailed(run, caseIds) = f[Len(caseIds)]
  BY DEF RecordCasesFailed, Rounds
<1> HIDE DEF f
<1>4. \A n \in 0 .. Len(caseIds) :
          f[n] = IF n = 0 THEN run ELSE RecordCaseFailed(f[n - 1], caseIds[n])
  BY <1>2 DEF Rounds
<1> DEFINE Good(n) ==
             /\ f[n] \in RunRecord /\ f[n].status = run.status
             /\ f[n].failure = run.failure /\ f[n].result = run.result
             /\ f[n].completedCases = run.completedCases
             /\ run.status # "running" => f[n] = run
             /\ run.status = "running"
                    => Reported(f[n]) = Reported(run) \o SubSeq(caseIds, 1, n)
<1>5. \A n \in 0 .. Len(caseIds) : Good(n)
  <2> DEFINE Bad == {n \in 0 .. Len(caseIds) : ~ Good(n)}
  <2>1. SUFFICES ASSUME Bad # {}
                 PROVE  FALSE
    OBVIOUS
  <2>2. Bad \in SUBSET Nat
    BY <1>1
  <2>3. PICK m \in Bad : \A k \in Bad : m <= k
    BY <2>1, <2>2, HasLeast
  <2>4. m \in 0 .. Len(caseIds) /\ ~ Good(m)
    BY <2>3
  <2>5. Reported(run) \in Seq(CaseIds)
    BY ReportedType
  <2>6. CASE m = 0
    <3>1. f[m] = run
      BY <1>4, <2>4, <2>6
    <3>2. Reported(run) = Reported(run) \o SubSeq(caseIds, 1, m)
      BY <2>5, <2>6
    <3>3. QED
      BY <2>4, <3>1, <3>2
  <2>7. CASE m # 0
    <3>1. m - 1 \in 0 .. Len(caseIds) /\ m \in 1 .. Len(caseIds)
      BY <1>1, <2>4, <2>7
    <3>2. Good(m - 1)
      BY <2>3, <3>1
    <3>3. f[m] = RecordCaseFailed(f[m - 1], caseIds[m]) /\ caseIds[m] \in CaseIds
      BY <1>4, <2>4, <2>7, <3>1
    <3> DEFINE a == f[m - 1]
               b == f[m]
               before == SubSeq(caseIds, 1, m - 1)
               after == SubSeq(caseIds, 1, m)
    <3>4. /\ a \in RunRecord /\ a.status = run.status
          /\ a.failure = run.failure /\ a.result = run.result
          /\ a.completedCases = run.completedCases
          /\ run.status # "running" => a = run
          /\ run.status = "running" => Reported(a) = Reported(run) \o before
      BY <3>2
    <3>5. b = RecordCaseFailed(a, caseIds[m])
      BY <3>3
    <3> HIDE DEF a, b
    <3>6. /\ b \in RunRecord /\ b.status = a.status
          /\ b.failure = a.failure /\ b.result = a.result
          /\ b.completedCases = a.completedCases
          /\ a.status # "running" => b = a
          /\ a.status = "running"
                 => Reported(b) = Append(Reported(a), caseIds[m])
      BY <3>3, <3>4, <3>5, CaseReport
    <3>7. Append(Reported(run) \o before, caseIds[m]) = Reported(run) \o after
      <4> DEFINE c == caseIds[m]
                 done == Reported(run)
      <4>1. /\ before \in Seq(CaseIds) /\ c \in CaseIds
            /\ done \in Seq(CaseIds) /\ <<c>> \in Seq(CaseIds)
        <5>1. m - 1 \in Nat /\ m - 1 <= Len(caseIds)
          BY <3>1
        <5>2. QED
          BY <2>5, <3>3, <5>1
      <4>2. after = Append(before, c)
        BY <1>1, <2>4, <3>1, SubSeqRecursiveSecond
      <4>3. after = before \o <<c>>
        BY <4>1, <4>2, AppendIsConcat
      <4> HIDE DEF before, after, c, done
      <4>4. Append(done \o before, c) = (done \o before) \o <<c>>
        BY <4>1, AppendIsConcat, ConcatProperties
      <4>5. (done \o before) \o <<c>> = done \o (before \o <<c>>)
        BY <4>1, ConcatAssociative
      <4>6. QED
        BY <4>3, <4>4, <4>5 DEF before, after, c, done
    <3>8. Good(m)
      BY <3>4, <3>6, <3>7 DEF b
    <3>9. QED
      BY <2>4, <3>8
  <2>8. QED
    BY <2>6, <2>7
<1>6. Good(Len(caseIds)) /\ SubSeq(caseIds, 1, Len(caseIds)) = caseIds
  BY <1>1, <1>5
<1>7. QED
  BY <1>3, <1>6

===============================================================================
