---------------------------- MODULE RunServerProofs ----------------------------
(***************************************************************************)
(* Proofs about RunServer, for every number of runs and requests, every    *)
(* workload, and plugins that listen to the abort signal or do not.        *)
(*                                                                         *)
(* Almost every action is a step of one run's session, computed by         *)
(* operators from a session to the next: the proofs follow the operators,  *)
(* and only the last parts look at the sessions together.                  *)
(***************************************************************************)
EXTENDS RunServer, RunRecordsProofs

-------------------------------------------------------------------------------
(***************************************************************************)
(* Part 1: the invariants.                                                 *)
(***************************************************************************)

Before == {"building", "starting", "readying"}

Working == Before \cup {"executing", "metrics"}

Over == {"persisting", "stopping", "done"}

\* Past plugin.start(), which registers the engine's process.
Late == {"readying", "executing", "metrics"} \cup Over

\* A run that may still be going on has reported the first k cases, and may
\* have been cancelled on the way.
Account(k, r) ==
    /\ k \in 0 .. Len(Workload)
    /\ r \in RunRecord
    /\ \/ r.status = "cancelled" /\ IsPrefix(Reported(r), Workload)
       \/ r.status \in {"queued", "running"}
          /\ Reported(r) = SubSeq(Workload, 1, k)

\* A run that has ended has reported all cases, or was cancelled on the way.
Closed(r) ==
    /\ r \in RunRecord
    /\ \/ r.status = "cancelled" /\ IsPrefix(Reported(r), Workload)
       \/ r.status \in {"completed", "failed"} /\ Reported(r) = Workload

\* The report of a run whose orchestration is at pc.
Books(pc, next, r) ==
    /\ pc = "idle" => r = NoRun
    /\ pc \in Before =>
          /\ next = 1 /\ Account(0, r)
          /\ r.status # "running" /\ r.completedCases = 0
    /\ pc = "executing" => next \in 1 .. Len(Workload)
    /\ pc = "metrics" => next = Len(Workload) + 1
    /\ pc \in {"executing", "metrics"} =>
          Account(next - 1, r) /\ r.status # "queued"
    /\ pc \in Over => Closed(r)

\* What is being written is the run's result, of a run that has ended.
WritesOk(pc, r, writes) ==
    /\ \A w \in Writers : writes[w] \in {NoResult, r.result}
    /\ writes["orchestrator"] # NoResult => pc = "persisting"
    /\ pc = "persisting" => writes["orchestrator"] = r.result
    /\ writes["route"] # NoResult => IsRunStatusTerminal(r.status)

\* execute() has stopped waiting for plugin.start(): the deadline has passed,
\* the stop that followed found nothing, and no case ever ran.
Abandoned(pc, s) ==
    /\ pc \in Over
    /\ s.expired /\ s.aborted /\ s.engineStop = "completed"
    /\ s.run.completedCases = 0

\* Where the engine of a session is when its orchestration is at pc.
EngineAt(pc, s) ==
    LET e == s.engine
    IN  /\ pc \in {"idle", "building"} =>
              e = NoEngine /\ ~ s.engineContext /\ s.engineStop = "idle"
        /\ pc = "starting" =>
              /\ s.engineContext /\ e.start = "pending"
              /\ s.engineStop = "idle" \/ s.aborted
        /\ ~ s.engineContext => e.start = "none" /\ ~ e.active
        /\ e.start # "none" => e.process # "none"
        /\ e.start = "pending" =>
              /\ ~ e.active /\ ~ e.listening
              /\ pc = "starting" \/ Abandoned(pc, s)
        /\ e.active =>
              /\ e.start = "settled"
              /\ \/ s.engineStop = "idle" /\ pc \notin {"stopping", "done"}
                 \/ ~ e.listening /\ Abandoned(pc, s)
        /\ s.engineStop = "inFlight" => e.start = "settled" /\ ~ e.active

SessionOk(s) ==
    /\ s \in Session
    /\ Books(s.pc, s.next, s.run)
    /\ EngineAt(s.pc, s)
    /\ WritesOk(s.pc, s.run, s.writes)

ServerTypes ==
    /\ sessions \in [RunIds -> Session]
    /\ created \in 0 .. MaxRuns
    /\ canceller \in 0 .. created
    /\ cancellation \in RunIds \cup {NoOne}
    /\ disk \in [RunIds -> RunResult \cup {NoResult}]

\* The result of a run whose orchestration has written it is on disk, or the
\* failure is on record.
Kept(r) ==
    sessions[r].pc \in {"stopping", "done"}
        => disk[r] = sessions[r].run.result \/ r \in writeFailures

OneActive == \A q, r \in Active : q = r

ServerInv ==
    /\ ServerTypes
    /\ \A r \in RunIds : SessionOk(sessions[r]) /\ Kept(r)
    /\ \A r \in RunIds : r > created => sessions[r] = NoSession
    /\ handles \in SUBSET RunIds /\ \A r \in handles : sessions[r].pc \in Late
    /\ OneActive

\* With a plugin that listens to the abort signal: an engine the canceller
\* could find running is gone with the signal, so that there is nothing left
\* for the canceller to wait for.
Prompt(s) == "canceller" \notin s.stopWaiters

Responsive(s) ==
    /\ s.engineStop # "inFlight"
    /\ s.engineContext /\ s.engineStop = "idle" /\ s.engine.active
          => s.engine.listening

Reachable(s) ==
    /\ Responsive(s)
    /\ s.pc = "starting" => ~ s.aborted

\* An active run that has not been told to stop is the one the canceller
\* reaches; a cancelled one has been told.
ListenInv ==
    /\ AbortListeners = {TRUE}
    /\ cancellation = NoOne
    /\ awaiting = {}
    /\ \A r \in RunIds : Prompt(sessions[r])
    /\ \A r \in RunIds : canceller = r => Reachable(sessions[r])
    /\ \A r \in Active : canceller = r \/ sessions[r].cancellationRequested
    /\ CancelReachesTheOrchestration

-------------------------------------------------------------------------------
(***************************************************************************)
(* Part 2: the report of a run, method by method.                          *)
(***************************************************************************)

LEMMA WorkloadParts ==
  /\ Workload \in Seq(CaseIds) /\ Len(Workload) \in Nat
  /\ \A n \in 1 .. Len(Workload) :
        /\ Workload[n] \in CaseIds
        /\ Append(SubSeq(Workload, 1, n - 1), Workload[n])
              = SubSeq(Workload, 1, n)
  /\ \A n \in 1 .. Len(Workload) + 1 :
        /\ SubSeq(Workload, 1, n - 1) \o SubSeq(Workload, n, Len(Workload))
              = Workload
        /\ SubSeq(Workload, n, Len(Workload)) \in Seq(CaseIds)
  /\ \A n \in 0 .. Len(Workload) : IsPrefix(SubSeq(Workload, 1, n), Workload)
  /\ SubSeq(Workload, 1, Len(Workload)) = Workload
  /\ SubSeq(Workload, 1, 0) = <<>>
<1> DEFINE W == Workload
<1>1. W \in Seq(CaseIds) /\ Len(W) \in Nat
  BY RunServerAssumption
<1> HIDE DEF W
<1>2. ASSUME NEW n \in 1 .. Len(W)
      PROVE  /\ W[n] \in CaseIds
             /\ Append(SubSeq(W, 1, n - 1), W[n]) = SubSeq(W, 1, n)
  BY <1>1
<1>3. ASSUME NEW n \in 1 .. Len(W) + 1
      PROVE  /\ SubSeq(W, 1, n - 1) \o SubSeq(W, n, Len(W)) = W
             /\ SubSeq(W, n, Len(W)) \in Seq(CaseIds)
  <2>1. /\ 1 \in 1 .. Len(W) + 1 /\ n - 1 \in 1 - 1 .. Len(W)
        /\ Len(W) \in n - 1 .. Len(W) /\ (n - 1) + 1 = n
    BY <1>1
  <2>2. SubSeq(W, 1, n - 1) \o SubSeq(W, (n - 1) + 1, Len(W)) = SubSeq(W, 1, Len(W))
    BY <1>1, <2>1, ConcatAdjacentSubSeq
  <2>3. SubSeq(W, 1, Len(W)) = W
    BY <1>1
  <2>4. SubSeq(W, n, Len(W)) \in Seq(CaseIds)
    BY <1>1
  <2>5. QED
    BY <2>1, <2>2, <2>3, <2>4
<1>4. ASSUME NEW n \in 0 .. Len(W)
      PROVE  IsPrefix(SubSeq(W, 1, n), W)
  BY <1>1 DEF IsPrefix
<1>5. SubSeq(W, 1, Len(W)) = W /\ SubSeq(W, 1, 0) = <<>>
  BY <1>1
<1>6. QED
  BY <1>1, <1>2, <1>3, <1>4, <1>5 DEF W

\* The failures execute() can report.
Codes == {"RUN_TIMEOUT_EXCEEDED", "RUN_CASE_FAILED", "ENGINE_START_FAILED",
          "ENGINE_EXECUTION_FAILED"}

LEMMA CodesFail == Codes \subseteq FailureCodes
  BY RunServerAssumption DEF Codes

\* The life of a run: a run that has ended (or is not there) does not change,
\* an active one does not go back.
RunMoves(old, new) ==
    /\ new \in RunRecord
    /\ old.status \notin {"queued", "running"} => new = old
    /\ old.status = "queued" => new.status # "untracked"
    /\ old.status = "running" => new.status \notin {"untracked", "queued"}

LEMMA MovesTrans ==
  ASSUME NEW a, NEW b, NEW c, RunMoves(a, b), RunMoves(b, c)
  PROVE  RunMoves(a, c)
<1>1. b.status \in Terminal \cup {"untracked", "queued", "running"}
  BY DEF RunMoves, RunRecord
<1>2. QED
  BY <1>1 DEF RunMoves, Terminal

LEMMA AccountReport ==
  ASSUME NEW k, NEW r, Account(k, r), NEW new,
         SameReport(new, r), new.status = r.status
  PROVE  Account(k, new)
  BY DEF Account, SameReport, Reported

\* Cancelling a run, whatever it is doing.
LEMMA CancelEnds ==
  ASSUME NEW r \in RunRecord
  PROVE  LET new == CancelRun(r, Now)
         IN  /\ RunMoves(r, new)
             /\ new.completedCases = r.completedCases
             /\ r.status \in {"queued", "running"} => new.status = "cancelled"
             /\ \A k : Account(k, r) => Account(k, new) /\ Closed(new)
             /\ Closed(r) => new = r
<1> DEFINE new == CancelRun(r, Now)
<1>1. "RUN_CASE_FAILED" \in FailureCodes /\ Now \in Int
  BY RunServerAssumption DEF Now
<1>2. /\ SameReport(new, r)
      /\ ~ IsRunStatusCancellable(r.status) => new = r
      /\ IsRunStatusCancellable(r.status) => new.status = "cancelled"
  BY <1>1, EndReport
<1> HIDE DEF new
<1>3. /\ Reported(new) = Reported(r) /\ new \in RunRecord
      /\ new.completedCases = r.completedCases
  BY <1>2 DEF SameReport, Reported
<1>4. RunMoves(r, new)
  BY <1>2, <1>3 DEF RunMoves, IsRunStatusCancellable
<1>5. ASSUME NEW k, Account(k, r)
      PROVE  Account(k, new) /\ Closed(new)
  <2>1. IsPrefix(Reported(r), Workload) /\ k \in 0 .. Len(Workload)
    BY <1>5, WorkloadParts DEF Account
  <2>2. new.status = "cancelled"
    BY <1>2, <1>5 DEF Account, IsRunStatusCancellable
  <2>3. QED
    BY <1>3, <2>1, <2>2 DEF Account, Closed
<1>6. Closed(r) => new = r
  BY <1>2 DEF Closed, IsRunStatusCancellable
<1>7. QED
  BY <1>2, <1>3, <1>4, <1>5, <1>6 DEF new, IsRunStatusCancellable

\* Failing a run with its remaining cases.
LEMMA FailEnds ==
  ASSUME NEW next \in 1 .. Len(Workload) + 1, NEW r, Account(next - 1, r),
         NEW code \in Codes
  PROVE  LET new == FailRunWithRemainingCases(r, next, code)
         IN  /\ RunMoves(r, new) /\ Closed(new)
             /\ new.completedCases = r.completedCases
<1> DEFINE rest == SubSeq(Workload, next, Len(Workload))
           marked == MarkRunRunning(r, Now)
           looped == RecordCasesFailed(marked, rest)
           new == FailRun(looped, Now, code)
<1>1. /\ r \in RunRecord /\ Now \in Int /\ rest \in Seq(CaseIds)
      /\ code \in FailureCodes
  <2>1. r \in RunRecord /\ Now \in Int
    BY DEF Account, Now
  <2>2. rest \in Seq(CaseIds)
    BY WorkloadParts
  <2>3. code \in FailureCodes
    BY CodesFail
  <2>4. QED
    BY <2>1, <2>2, <2>3
<1>2. FailRunWithRemainingCases(r, next, code) = new
  BY DEF FailRunWithRemainingCases
<1>3. /\ SameReport(marked, r)
      /\ r.status # "queued" => marked = r
      /\ r.status = "queued" => marked.status = "running"
  BY <1>1, MarkRunningReport
<1> HIDE DEF rest, marked
<1>4. /\ marked \in RunRecord /\ Reported(marked) = Reported(r)
      /\ marked.completedCases = r.completedCases
  BY <1>3 DEF SameReport, Reported
<1>5. /\ looped \in RunRecord /\ looped.status = marked.status
      /\ looped.completedCases = marked.completedCases
      /\ marked.status # "running" => looped = marked
      /\ marked.status = "running" => Reported(looped) = Reported(marked) \o rest
  BY <1>1, <1>4, LoopReport
<1> HIDE DEF looped
<1>6. /\ new \in RunRecord /\ new.caseOutcomes = looped.caseOutcomes
      /\ new.completedCases = looped.completedCases
      /\ ~ IsRunStatusCancellable(looped.status) => new = looped
      /\ IsRunStatusCancellable(looped.status) => new.status = "failed"
  BY <1>1, <1>5, EndReport
<1> HIDE DEF new
<1>7. Reported(new) = Reported(looped)
  BY <1>6 DEF Reported
<1>8. CASE r.status = "cancelled"
  <2>1. new = r
    BY <1>3, <1>5, <1>6, <1>8 DEF IsRunStatusCancellable
  <2>2. QED
    BY <1>1, <1>2, <1>8, <2>1 DEF RunMoves, Closed, Account
<1>9. CASE r.status \in {"queued", "running"}
  <2>1. /\ marked.status = "running" /\ new.status = "failed"
        /\ new.completedCases = r.completedCases
    BY <1>3, <1>4, <1>5, <1>6, <1>9 DEF IsRunStatusCancellable
  <2>2. Reported(new) = SubSeq(Workload, 1, next - 1) \o rest
    BY <1>4, <1>5, <1>7, <1>9, <2>1 DEF Account
  <2>3. Reported(new) = Workload
    BY <2>2, WorkloadParts DEF rest
  <2>4. QED
    BY <1>2, <1>6, <1>9, <2>1, <2>3 DEF RunMoves, Closed
<1>10. QED
  BY <1>8, <1>9 DEF Account

\* Completing a run after its last case.
LEMMA CompleteEnds ==
  ASSUME NEW r, Account(Len(Workload), r)
  PROVE  LET new == CompleteRun(r, Now)
         IN  RunMoves(r, new) /\ Closed(new)
             /\ new.completedCases = r.completedCases
<1> DEFINE new == CompleteRun(r, Now)
<1>1. r \in RunRecord /\ Now \in Int /\ "RUN_CASE_FAILED" \in FailureCodes
  BY RunServerAssumption DEF Account, Now
<1>2. /\ SameReport(new, r)
      /\ ~ IsRunStatusCancellable(r.status) => new = r
      /\ IsRunStatusCancellable(r.status) => new.status = "completed"
  BY <1>1, EndReport
<1> HIDE DEF new
<1>3. Reported(new) = Reported(r) /\ new \in RunRecord
      /\ new.completedCases = r.completedCases
  BY <1>2 DEF SameReport, Reported
<1>4. RunMoves(r, new)
  BY <1>2, <1>3 DEF RunMoves, IsRunStatusCancellable
<1>5. Closed(new)
  BY <1>2, <1>3, WorkloadParts DEF Account, Closed, IsRunStatusCancellable
<1>6. QED
  BY <1>3, <1>4, <1>5 DEF new

\* Starting a run, and a case; the outcome of a case.
LEMMA RunningAccount ==
  ASSUME NEW k, NEW r, Account(k, r)
  PROVE  LET new == MarkRunRunning(r, Now)
         IN  /\ RunMoves(r, new) /\ Account(k, new) /\ new.status # "queued"
             /\ new.completedCases = r.completedCases
<1> DEFINE new == MarkRunRunning(r, Now)
<1>1. r \in RunRecord /\ Now \in Int
  BY DEF Account, Now
<1>2. /\ SameReport(new, r)
      /\ r.status # "queued" => new = r
      /\ r.status = "queued" => new.status = "running"
  BY <1>1, MarkRunningReport
<1> HIDE DEF new
<1>3. Reported(new) = Reported(r) /\ new \in RunRecord
      /\ new.completedCases = r.completedCases
  BY <1>2 DEF SameReport, Reported
<1>4. QED
  BY <1>2, <1>3 DEF RunMoves, Account, new

LEMMA StartedAccount ==
  ASSUME NEW n \in 1 .. Len(Workload), NEW r, Account(n - 1, r),
         r.status # "queued"
  PROVE  LET new == RecordCaseStarted(r, Workload[n])
         IN  /\ RunMoves(r, new) /\ Account(n - 1, new)
             /\ new.status # "queued"
<1> DEFINE new == RecordCaseStarted(r, Workload[n])
<1>1. r \in RunRecord /\ Workload[n] \in CaseIds
  BY WorkloadParts DEF Account
<1>2. SameReport(new, r) /\ new.status = r.status
  BY <1>1, CaseStartedReport
<1>3. r.status # "running" => new = r
  BY DEF RecordCaseStarted
<1> HIDE DEF new
<1>4. Account(n - 1, new) /\ new \in RunRecord
  BY <1>2, AccountReport DEF Account
<1>5. QED
  BY <1>2, <1>3, <1>4 DEF RunMoves, new

LEMMA OutcomeAccount ==
  ASSUME NEW n \in 1 .. Len(Workload), NEW r, Account(n - 1, r),
         r.status # "queued",
         NEW new \in {RecordCaseFailed(r, Workload[n]),
                      RecordCaseCompleted(r, Workload[n])}
  PROVE  RunMoves(r, new) /\ Account(n, new) /\ new.status # "queued"
<1>1. r \in RunRecord /\ Workload[n] \in CaseIds
  BY WorkloadParts DEF Account
<1>2. /\ new \in RunRecord /\ new.status = r.status
      /\ r.status # "running" => new = r
      /\ r.status = "running" => Reported(new) = Append(Reported(r), Workload[n])
  BY <1>1, CaseReport
<1>3. Append(SubSeq(Workload, 1, n - 1), Workload[n]) = SubSeq(Workload, 1, n)
      /\ n \in 0 .. Len(Workload)
  <2>1. Append(SubSeq(Workload, 1, n - 1), Workload[n]) = SubSeq(Workload, 1, n)
    BY WorkloadParts
  <2>2. Len(Workload) \in Nat
    BY WorkloadParts
  <2>3. n \in 0 .. Len(Workload)
    BY <2>2
  <2>4. QED
    BY <2>1, <2>3
<1>4. Account(n, new)
  BY <1>1, <1>2, <1>3 DEF Account
<1>5. QED
  BY <1>2, <1>4 DEF RunMoves

-------------------------------------------------------------------------------
(***************************************************************************)
(* Part 3: from a session to the next, operator by operator.               *)
(***************************************************************************)

\* The flags of a session and its engine: all but its report and its writes.
SameControl(n, s) ==
    /\ n.cancellationRequested = s.cancellationRequested
    /\ n.aborted = s.aborted /\ n.expired = s.expired
    /\ n.engineContext = s.engineContext /\ n.engineStop = s.engineStop
    /\ n.stopWaiters = s.stopWaiters /\ n.engine = s.engine

\* The report of a session, how far its orchestration is, and its writes.
SameWork(n, s) ==
    n.run = s.run /\ n.pc = s.pc /\ n.next = s.next /\ n.writes = s.writes

\* A session the catch of execute() may take over.
Catchable(s) ==
    /\ s \in Session
    /\ s.next \in 1 .. Len(Workload) + 1 /\ Account(s.next - 1, s.run)
    /\ EngineAt("persisting", s)
    /\ WritesOk("executing", s.run, s.writes)

\* A session at the head of the case loop.
AtLoop(s) ==
    /\ Catchable(s)
    /\ EngineAt("executing", s)
    /\ s.run.status # "queued"

\* What the steps of execute() between two awaits do to a session.
Proceeds(s, n) ==
    /\ SessionOk(n)
    /\ RunMoves(s.run, n.run)
    /\ SameControl(n, s)
    /\ n.pc \in {"executing", "metrics", "persisting"}
    /\ n.pc # "persisting" => n.next = s.next /\ n.run.status = s.run.status
    /\ s.aborted \/ s.cancellationRequested => n.pc = "persisting"

LEMMA EngineFrame ==
  ASSUME NEW p, NEW s, NEW n, EngineAt(p, s), SameControl(n, s),
         p \in Over => n.run.completedCases = s.run.completedCases
  PROVE  EngineAt(p, n)
  BY DEF EngineAt, Abandoned, SameControl

\* Between start() and the end of the work the engine's part is the same.
LEMMA EngineForward ==
  ASSUME NEW s, NEW p \in {"readying", "executing", "metrics"}, EngineAt(p, s),
         NEW q \in {"executing", "metrics", "persisting"}
  PROVE  EngineAt(q, s)
  BY DEF EngineAt, Abandoned, Over

LEMMA PersistParts ==
  ASSUME NEW s \in Session, NEW w \in Writers
  PROVE  LET n == Persist(s, w)
         IN  /\ n \in Session /\ SameControl(n, s)
             /\ n.run = s.run /\ n.pc = s.pc /\ n.next = s.next
             /\ n.writes[w] = s.run.result
             /\ \A v \in Writers \ {w} : n.writes[v] = s.writes[v]
<1> DEFINE kept == [s.writes EXCEPT ![w] = s.run.result]
           n == [s EXCEPT !.writes = kept]
<1>1. Persist(s, w) = n
  BY DEF Persist
<1>2. s.run.result \in RunResult \cup {NoResult}
  BY DEF Session, RunRecord
<1>3. s.writes \in [Writers -> RunResult \cup {NoResult}]
  BY DEF Session
<1>4. /\ kept \in [Writers -> RunResult \cup {NoResult}]
      /\ kept[w] = s.run.result
      /\ \A v \in Writers \ {w} : kept[v] = s.writes[v]
  BY <1>2, <1>3
<1> HIDE DEF kept
<1>5. /\ n \in Session /\ SameControl(n, s)
      /\ n.run = s.run /\ n.pc = s.pc /\ n.next = s.next /\ n.writes = kept
  BY <1>4 DEF Session, SameControl
<1>6. QED
  BY <1>1, <1>4, <1>5

\* What a writer persists of a run that has ended is in order.
LEMMA PersistOk ==
  ASSUME NEW s \in Session, NEW w \in Writers, NEW old,
         WritesOk("executing", old, s.writes), RunMoves(old, s.run),
         IsRunStatusTerminal(s.run.status),
         s.pc = "persisting" <=> w = "orchestrator"
  PROVE  LET n == Persist(s, w) IN WritesOk(n.pc, n.run, n.writes)
<1> DEFINE n == Persist(s, w)
<1>1. /\ n.run = s.run /\ n.pc = s.pc
      /\ n.writes[w] = s.run.result
      /\ \A v \in Writers \ {w} : n.writes[v] = s.writes[v]
  BY PersistParts
<1> HIDE DEF n
<1>2. /\ s.writes["orchestrator"] = NoResult
      /\ s.writes["route"] \in {NoResult, old.result}
      /\ s.writes["route"] # NoResult => s.run = old
  BY DEF WritesOk, RunMoves, Writers, IsRunStatusTerminal, Terminal
<1>3. WritesOk(n.pc, n.run, n.writes)
  BY <1>1, <1>2 DEF WritesOk, Writers
<1>4. QED
  BY <1>3 DEF n

\* execute() ends the run and persists its result.
LEMMA EndProceeds ==
  ASSUME NEW s, Catchable(s), NEW run, RunMoves(s.run, run), Closed(run),
         run.completedCases = s.run.completedCases
  PROVE  LET n == Persist([s EXCEPT !.pc = "persisting", !.run = run],
                          "orchestrator")
         IN  Proceeds(s, n) /\ n.pc = "persisting"
<1> DEFINE mid == [s EXCEPT !.pc = "persisting", !.run = run]
           n == Persist(mid, "orchestrator")
<1>1. /\ mid \in Session /\ SameControl(mid, s) /\ mid.writes = s.writes
      /\ mid.run = run /\ mid.pc = "persisting" /\ mid.next = s.next
  <2>1. run \in RunRecord /\ s \in Session
    BY DEF Closed, Catchable
  <2>2. QED
    BY <2>1 DEF Session, SameControl
<1> HIDE DEF mid
<1>2. "orchestrator" \in Writers
  BY DEF Writers
<1>3. /\ n \in Session /\ SameControl(n, mid)
      /\ n.run = run /\ n.pc = "persisting" /\ n.next = s.next
  BY <1>1, <1>2, PersistParts
<1>4. IsRunStatusTerminal(run.status)
  BY DEF Closed, IsRunStatusTerminal, Terminal
<1>5. WritesOk(n.pc, n.run, n.writes)
  BY <1>1, <1>2, <1>4, PersistOk DEF Catchable
<1> HIDE DEF n
<1>6. SameControl(n, s)
  BY <1>1, <1>3 DEF SameControl
<1>7. EngineAt(n.pc, n)
  BY <1>3, <1>6, EngineFrame DEF Catchable
<1>8. Books(n.pc, n.next, n.run)
  BY <1>3 DEF Books, Before, Over
<1>9. SessionOk(n)
  BY <1>3, <1>5, <1>7, <1>8 DEF SessionOk
<1>10. Proceeds(s, n) /\ n.pc = "persisting"
  BY <1>3, <1>6, <1>9 DEF Proceeds
<1>11. QED
  BY <1>10 DEF n, mid

LEMMA CaughtProceeds ==
  ASSUME NEW s, Catchable(s), NEW code \in Codes \cup {Cancelled}
  PROVE  LET n == Caught(s, code) IN Proceeds(s, n) /\ n.pc = "persisting"
<1> DEFINE run == IF code = Cancelled \/ s.cancellationRequested
                  THEN CancelRun(s.run, Now)
                  ELSE FailRunWithRemainingCases(s.run, s.next, code)
           n == Persist([s EXCEPT !.pc = "persisting", !.run = run],
                        "orchestrator")
<1>1. Caught(s, code) = n
  BY DEF Caught
<1>2. /\ RunMoves(s.run, run) /\ Closed(run)
      /\ run.completedCases = s.run.completedCases
  <2>1. CASE code = Cancelled \/ s.cancellationRequested
    <3>1. s.run \in RunRecord /\ Account(s.next - 1, s.run)
      BY DEF Catchable, Account
    <3>2. QED
      BY <2>1, <3>1, CancelEnds
  <2>2. CASE ~ (code = Cancelled \/ s.cancellationRequested)
    <3>1. /\ s.next \in 1 .. Len(Workload) + 1 /\ Account(s.next - 1, s.run)
          /\ code \in Codes
      BY <2>2 DEF Catchable
    <3>2. QED
      BY <2>2, <3>1, FailEnds
  <2>3. QED
    BY <2>1, <2>2
<1> HIDE DEF run
<1>3. Proceeds(s, n) /\ n.pc = "persisting"
  BY <1>2, EndProceeds
<1>4. QED
  BY <1>1, <1>3

LEMMA CaseLoopProceeds ==
  ASSUME NEW s, AtLoop(s)
  PROVE  Proceeds(s, CaseLoop(s))
<1>1. Catchable(s) /\ s \in Session /\ EngineAt("executing", s)
      /\ s.run.status # "queued" /\ WritesOk("executing", s.run, s.writes)
      /\ s.next \in 1 .. Len(Workload) + 1 /\ Account(s.next - 1, s.run)
  BY DEF AtLoop, Catchable
<1>2. CASE s.cancellationRequested \/ s.aborted
  <2>1. CaseLoop(s) = Caught(s, Cancelled)
    BY <1>2 DEF CaseLoop
  <2>2. QED
    BY <1>1, <2>1, CaughtProceeds
<1>3. CASE ~ (s.cancellationRequested \/ s.aborted) /\ s.expired
  <2>1. CaseLoop(s) = Caught(s, "RUN_TIMEOUT_EXCEEDED")
    BY <1>3 DEF CaseLoop
  <2>2. QED
    BY <1>1, <2>1, CaughtProceeds DEF Codes
<1>4. CASE /\ ~ (s.cancellationRequested \/ s.aborted) /\ ~ s.expired
           /\ s.next > Len(Workload)
  <2> DEFINE n == [s EXCEPT !.pc = "metrics"]
  <2>1. CaseLoop(s) = n
    BY <1>4 DEF CaseLoop
  <2>2. /\ n \in Session /\ SameControl(n, s) /\ n.writes = s.writes
        /\ n.run = s.run /\ n.pc = "metrics" /\ n.next = s.next
    BY <1>1 DEF Session, SameControl
  <2> HIDE DEF n
  <2>3. EngineAt(n.pc, n)
    <3>1. EngineAt("metrics", s)
      BY <1>1, EngineForward
    <3>2. QED
      BY <2>2, <3>1, EngineFrame DEF Over
  <2>4. Len(Workload) \in Nat
    BY WorkloadParts
  <2>5. Books(n.pc, n.next, n.run)
    BY <1>1, <1>4, <2>2, <2>4 DEF Books, Before, Over
  <2>6. SessionOk(n)
    BY <1>1, <2>2, <2>3, <2>5 DEF SessionOk, WritesOk
  <2>7. RunMoves(s.run, n.run)
    BY <2>2 DEF RunMoves, Session
  <2>8. QED
    BY <1>4, <2>1, <2>2, <2>6, <2>7 DEF Proceeds
<1>5. CASE /\ ~ (s.cancellationRequested \/ s.aborted) /\ ~ s.expired
           /\ ~ s.next > Len(Workload)
  <2> DEFINE run == RecordCaseStarted(s.run, Workload[s.next])
             n == [s EXCEPT !.pc = "executing", !.run = run]
  <2>1. CaseLoop(s) = n
    BY <1>5 DEF CaseLoop
  <2>2. Len(Workload) \in Nat
    BY WorkloadParts
  <2>3. s.next \in 1 .. Len(Workload)
    BY <1>1, <1>5, <2>2
  <2>4. /\ RunMoves(s.run, run) /\ Account(s.next - 1, run)
        /\ run.status # "queued"
    BY <1>1, <2>3, StartedAccount
  <2>5. run.status = s.run.status
    <3>1. s.run \in RunRecord /\ Workload[s.next] \in CaseIds
      BY <1>1, <2>3, WorkloadParts DEF Account
    <3>2. QED
      BY <3>1, CaseStartedReport
  <2>6. run \in RunRecord
    BY <2>4 DEF Account
  <2> HIDE DEF run
  <2>7. /\ n \in Session /\ SameControl(n, s) /\ n.writes = s.writes
        /\ n.run = run /\ n.pc = "executing" /\ n.next = s.next
    BY <1>1, <2>6 DEF Session, SameControl
  <2> HIDE DEF n
  <2>8. EngineAt(n.pc, n)
    BY <1>1, <2>7, EngineFrame DEF Over
  <2>9. Books(n.pc, n.next, n.run)
    BY <2>3, <2>4, <2>7 DEF Books, Before, Over
  <2>10. WritesOk(n.pc, n.run, n.writes)
    <3>1. /\ s.writes["orchestrator"] = NoResult
          /\ s.writes["route"] \in {NoResult, s.run.result}
          /\ s.writes["route"] # NoResult => IsRunStatusTerminal(s.run.status)
      BY <1>1 DEF WritesOk, Writers
    <3>2. s.writes["route"] # NoResult => run = s.run
      BY <2>4, <3>1 DEF RunMoves, IsRunStatusTerminal, Terminal
    <3>3. QED
      BY <2>7, <3>1, <3>2 DEF WritesOk, Writers
  <2>11. SessionOk(n)
    BY <2>7, <2>8, <2>9, <2>10 DEF SessionOk
  <2>12. QED
    BY <1>5, <2>1, <2>4, <2>5, <2>7, <2>11 DEF Proceeds
<1>6. QED
  BY <1>2, <1>3, <1>4, <1>5

\* The flags of a session a stop leaves alone, and what it cannot do to the
\* engine.
SameFlags(n, s) ==
    /\ n.cancellationRequested = s.cancellationRequested
    /\ n.expired = s.expired /\ n.engineContext = s.engineContext
    /\ n.engine.process = s.engine.process /\ n.engine.start = s.engine.start

\* What stopEngine() does to a session, on behalf of waiters.
Stops(s, waiters, n) ==
    /\ n \in Session /\ SameWork(n, s) /\ SameFlags(n, s)
    /\ n.aborted = s.aborted
    /\ n.engineContext => n.engineStop # "idle"
    /\ ~ s.engineContext \/ s.engineStop = "completed" => n = s
    /\ s.engineContext /\ s.engineStop # "inFlight" /\ ~ s.engine.active
          => n.engineStop = "completed" /\ n.stopWaiters = s.stopWaiters
    /\ Prompt(s) /\ "canceller" \notin waiters => Prompt(n)

LEMMA StopEngineParts ==
  ASSUME NEW s \in Session, NEW waiters \in SUBSET Waiters
  PROVE  Stops(s, waiters, StopEngine(s, waiters))
<1> DEFINE n == StopEngine(s, waiters)
<1>1. CASE ~ s.engineContext \/ s.engineStop = "completed"
  <2>1. n = s
    BY <1>1 DEF StopEngine
  <2> HIDE DEF n
  <2>2. Stops(s, waiters, n)
    BY <1>1, <2>1 DEF Stops, SameWork, SameFlags
  <2>3. QED
    BY <2>2 DEF n
<1>2. CASE /\ s.engineContext /\ s.engineStop = "inFlight"
  <2> DEFINE all == s.stopWaiters \cup waiters
  <2>1. n = [s EXCEPT !.stopWaiters = all]
    BY <1>2 DEF StopEngine
  <2>2. all \in SUBSET Waiters
    BY DEF Session
  <2>3. Prompt(s) /\ "canceller" \notin waiters => "canceller" \notin all
    BY DEF Prompt
  <2> HIDE DEF n, all
  <2>4. /\ n \in Session /\ SameWork(n, s) /\ SameFlags(n, s)
        /\ n.aborted = s.aborted /\ n.engineStop = s.engineStop
        /\ n.stopWaiters = all
    BY <2>1, <2>2 DEF Session, SameWork, SameFlags
  <2>5. Stops(s, waiters, n)
    BY <1>2, <2>3, <2>4 DEF Stops, Prompt
  <2>6. QED
    BY <2>5 DEF n
<1>3. CASE /\ s.engineContext /\ s.engineStop = "idle" /\ s.engine.active
  <2> DEFINE e == StopRunState(s.engine)
  <2>1. n = [s EXCEPT !.engineStop = "inFlight", !.stopWaiters = waiters,
                      !.engine = e]
    BY <1>3 DEF StopEngine
  <2>2. s.engine \in Engine
    BY DEF Session
  <2>3. e \in Engine /\ e.process = s.engine.process /\ e.start = s.engine.start
    BY <2>2 DEF Engine, StopRunState
  <2> HIDE DEF n, e
  <2>4. /\ n \in Session /\ SameWork(n, s)
        /\ n.aborted = s.aborted /\ n.engineStop = "inFlight"
        /\ n.cancellationRequested = s.cancellationRequested
        /\ n.expired = s.expired /\ n.engineContext = s.engineContext
        /\ n.stopWaiters = waiters /\ n.engine = e
    BY <2>1, <2>3 DEF Session, SameWork
  <2>5. Stops(s, waiters, n)
    BY <1>3, <2>3, <2>4 DEF Stops, Prompt, SameFlags
  <2>6. QED
    BY <2>5 DEF n
<1>4. CASE /\ s.engineContext /\ s.engineStop = "idle" /\ ~ s.engine.active
  <2>1. n = [s EXCEPT !.engineStop = "completed"]
    BY <1>4 DEF StopEngine
  <2> HIDE DEF n
  <2>2. /\ n \in Session /\ SameWork(n, s) /\ SameFlags(n, s)
        /\ n.aborted = s.aborted /\ n.engineStop = "completed"
        /\ n.stopWaiters = s.stopWaiters
    BY <2>1 DEF Session, SameWork, SameFlags
  <2>3. Stops(s, waiters, n)
    BY <1>4, <2>2 DEF Stops, Prompt
  <2>4. QED
    BY <2>3 DEF n
<1>5. QED
  BY <1>1, <1>2, <1>3, <1>4 DEF Session

\* Wherever the orchestration is, stopping the engine keeps it in order, and
\* afterwards only an abandoned start can still have an engine.
LEMMA StopEngineAt ==
  ASSUME NEW s \in Session, NEW waiters \in SUBSET Waiters, NEW p,
         EngineAt(p, s), p = "starting" => s.aborted
  PROVE  LET n == StopEngine(s, waiters)
         IN  /\ EngineAt(p, n)
             /\ n.engine.active => ~ n.engine.listening /\ Abandoned(p, n)
<1> DEFINE n == StopEngine(s, waiters)
<1>1. s.engine \in Engine /\ s.engineStop \in {"idle", "inFlight", "completed"}
  BY DEF Session
<1>2. CASE n = s /\ (~ s.engineContext \/ s.engineStop = "completed")
  <2> HIDE DEF n
  <2>1. EngineAt(p, n) /\ (n.engine.active
                             => ~ n.engine.listening /\ Abandoned(p, n))
    BY <1>2 DEF EngineAt
  <2>2. QED
    BY <2>1 DEF n
<1>3. CASE s.engineContext /\ s.engineStop # "completed"
  <2>1. /\ n.engineContext = s.engineContext /\ n.engine.start = s.engine.start
        /\ ~ n.engine.active /\ n.engine.process = s.engine.process
        /\ n.aborted = s.aborted
    BY <1>1, <1>3 DEF StopEngine, StopRunState, EngineAt, Session, Engine
  <2>2. /\ p \notin {"idle", "building"}
        /\ p = "starting" => s.engine.start = "pending"
        /\ s.engine.start = "pending" => p = "starting" /\ ~ s.engine.active
                                         /\ ~ s.engine.listening
    BY <1>3 DEF EngineAt, Abandoned
  <2>3. s.engine.start = "pending" => ~ n.engine.listening
    BY <1>1, <1>3, <2>2 DEF StopEngine, StopRunState, Session, Engine
  <2>4. n.engineStop = "inFlight" => s.engine.start = "settled"
    BY <1>1, <1>3 DEF StopEngine, EngineAt, Session
  <2> HIDE DEF n
  <2>5. EngineAt(p, n)
    BY <1>3, <2>1, <2>2, <2>3, <2>4 DEF EngineAt
  <2>6. QED
    BY <2>1, <2>5 DEF n
<1>4. QED
  BY <1>1, <1>2, <1>3 DEF StopEngine

\* The abort signal: a listener that is installed takes the engine away.
LEMMA AbortParts ==
  ASSUME NEW s \in Session
  PROVE  LET n == Abort(s)
         IN  /\ n \in Session /\ SameWork(n, s) /\ SameFlags(n, s)
             /\ n.aborted /\ n.engineStop = s.engineStop
             /\ n.stopWaiters = s.stopWaiters
             /\ n.engine.active
                   => s.engine.active /\ ~ s.engine.listening
                      /\ n.engine.listening = s.engine.listening
             /\ n.engine.listening => s.engine.listening
             /\ ~ s.engine.active => n.engine = s.engine
             /\ \A p : EngineAt(p, s) => EngineAt(p, n)
<1> DEFINE e == OnAbort(s.engine)
           n == [s EXCEPT !.aborted = TRUE, !.engine = e]
<1>1. Abort(s) = n
  BY DEF Abort
<1>2. s.engine \in Engine
  BY DEF Session
<1>3. /\ e \in Engine /\ e.process = s.engine.process
      /\ e.start = s.engine.start
      /\ e.active => s.engine.active /\ ~ s.engine.listening
                     /\ e.listening = s.engine.listening
      /\ e.listening => s.engine.listening
      /\ ~ s.engine.active => e = s.engine
  BY <1>2 DEF OnAbort, StopRunState, Engine
<1> HIDE DEF e
<1>4. /\ n \in Session /\ SameWork(n, s)
      /\ n.aborted = TRUE /\ n.engineStop = s.engineStop
      /\ n.cancellationRequested = s.cancellationRequested
      /\ n.expired = s.expired /\ n.engineContext = s.engineContext
      /\ n.stopWaiters = s.stopWaiters /\ n.engine = e
  BY <1>3 DEF Session, SameWork
<1> HIDE DEF n
<1>5. SameFlags(n, s)
  BY <1>3, <1>4 DEF SameFlags
<1>6. ASSUME NEW p, EngineAt(p, s) PROVE EngineAt(p, n)
  <2>1. p \in {"idle", "building"} => e = NoEngine
    BY <1>3, <1>6 DEF EngineAt, NoEngine
  <2>2. Abandoned(p, s) => Abandoned(p, n)
    BY <1>4 DEF Abandoned, SameWork
  <2>3. QED
    BY <1>3, <1>4, <1>6, <2>1, <2>2 DEF EngineAt
<1>7. QED
  BY <1>1, <1>3, <1>4, <1>5, <1>6

\* The stop attempt in flight is over, or there is none.
LEMMA StopSettledParts ==
  ASSUME NEW s \in Session, NEW how \in {"idle", "completed"}
  PROVE  LET n == StopSettled(s, how)
         IN  /\ n \in Session /\ SameWork(n, s) /\ SameFlags(n, s)
             /\ n.aborted = s.aborted /\ n.engine = s.engine
             /\ s.engineStop # "inFlight" => n.engineStop = s.engineStop
             /\ n.engineStop # "inFlight"
             /\ Prompt(s) => Prompt(n)
             /\ \A p : EngineAt(p, s) => EngineAt(p, n)
<1> DEFINE n == StopSettled(s, how)
<1>1. CASE s.engineStop # "inFlight"
  <2>1. n = s
    BY <1>1 DEF StopSettled
  <2> HIDE DEF n
  <2>2. n \in Session /\ SameWork(n, s) /\ SameFlags(n, s)
    BY <2>1 DEF SameWork, SameFlags
  <2>3. QED
    BY <1>1, <2>1, <2>2 DEF n
<1>2. CASE s.engineStop = "inFlight"
  <2>1. n = [s EXCEPT !.engineStop = how, !.stopWaiters = {}]
    BY <1>2 DEF StopSettled
  <2> HIDE DEF n
  <2>2. /\ n \in Session /\ SameWork(n, s)
        /\ n.cancellationRequested = s.cancellationRequested
        /\ n.aborted = s.aborted /\ n.expired = s.expired
        /\ n.engineContext = s.engineContext /\ n.engineStop = how
        /\ n.stopWaiters = {} /\ n.engine = s.engine
    BY <2>1 DEF Session, SameWork
  <2>3. SameFlags(n, s) /\ Prompt(n)
    BY <2>2 DEF SameFlags, Prompt
  <2>4. ASSUME NEW p, EngineAt(p, s) PROVE EngineAt(p, n)
    BY <1>2, <2>2, <2>4 DEF EngineAt, Abandoned
  <2>5. QED
    BY <1>2, <2>2, <2>3, <2>4 DEF n
<1>3. QED
  BY <1>1, <1>2

\* A step of the server as one session sees it.
Onward(s, n) ==
    /\ SessionOk(n)
    /\ RunMoves(s.run, n.run)
    /\ s.pc \in Over => n.pc \in Over
    /\ s.pc \in Late => n.pc \in Late
    /\ s.cancellationRequested => n.cancellationRequested
    /\ s.aborted => n.aborted
    /\ s.aborted /\ n.pc = "executing"
          => s.pc = "executing" /\ n.next = s.next
    /\ s.aborted /\ s.engine.process = "none" => n.engine.process = "none"

\* A step of the session's own orchestration or engine.
OwnStep(s, n) ==
    /\ Onward(s, n)
    /\ s.pc # "idle"
    /\ n.pc \in {"stopping", "done"} => s.pc \in {"stopping", "done"}
    /\ n.run.status = "cancelled"
          => \/ s.run.status = "cancelled"
             \/ n.cancellationRequested \/ n.pc \in Over
    /\ Prompt(s) => Prompt(n)
    /\ AbortListeners = {TRUE} /\ Reachable(s) => Reachable(n)

LEMMA OnwardRefl ==
  ASSUME NEW s, SessionOk(s)
  PROVE  Onward(s, s)
  BY DEF Onward, SessionOk, RunMoves, Session

LEMMA NoSessionOk == SessionOk(NoSession)
<1>1. NoRun \in RunRecord
  BY NoRunType
<1>2. NoEngine \in Engine
  BY DEF NoEngine, Engine
<1>3. NoSession \in Session
  BY <1>1, <1>2 DEF NoSession, Session
<1>4. EngineAt(NoSession.pc, NoSession)
  BY DEF NoSession, EngineAt, NoEngine
<1>5. Books(NoSession.pc, NoSession.next, NoSession.run)
  BY DEF NoSession, Books, Before, Over
<1>6. WritesOk(NoSession.pc, NoSession.run, NoSession.writes)
  BY DEF NoSession, WritesOk, Writers
<1>7. QED
  BY <1>3, <1>4, <1>5, <1>6 DEF SessionOk

\* A session whose engine or flags changed, and nothing else.
LEMMA SameWorkOk ==
  ASSUME NEW s, SessionOk(s), NEW n \in Session, SameWork(n, s),
         EngineAt(s.pc, n)
  PROVE  SessionOk(n)
  BY DEF SessionOk, SameWork

\* The function handed to setActiveRunCanceller.
LEMMA CancelSessionParts ==
  ASSUME NEW s, SessionOk(s)
  PROVE  LET n == CancelSession(s)
         IN  /\ Onward(s, n) /\ n.run = s.run /\ n.pc = s.pc
             /\ n.cancellationRequested
             /\ Prompt(s) /\ Reachable(s) => Prompt(n)
<1> DEFINE asked == [s EXCEPT !.cancellationRequested = TRUE]
           aborted == Abort(asked)
           n == StopEngine(aborted, {"canceller"})
<1>1. CancelSession(s) = n
  BY DEF CancelSession
<1>2. s \in Session /\ EngineAt(s.pc, s)
  BY DEF SessionOk
<1>3. /\ asked \in Session /\ SameWork(asked, s)
      /\ asked.cancellationRequested = TRUE
      /\ asked.aborted = s.aborted /\ asked.expired = s.expired
      /\ asked.engineContext = s.engineContext
      /\ asked.engineStop = s.engineStop
      /\ asked.stopWaiters = s.stopWaiters /\ asked.engine = s.engine
  BY <1>2 DEF Session, SameWork
<1> HIDE DEF asked
<1>4. EngineAt(s.pc, asked)
  BY <1>2, <1>3 DEF EngineAt, Abandoned, SameWork
<1>5. /\ aborted \in Session /\ SameWork(aborted, asked)
      /\ SameFlags(aborted, asked)
      /\ aborted.aborted /\ aborted.engineStop = asked.engineStop
      /\ aborted.stopWaiters = asked.stopWaiters
      /\ aborted.engine.active => asked.engine.active /\ ~ asked.engine.listening
      /\ EngineAt(s.pc, aborted)
  BY <1>3, <1>4, AbortParts
<1> HIDE DEF aborted
<1>6. {"canceller"} \in SUBSET Waiters
  BY DEF Waiters
<1>7. Stops(aborted, {"canceller"}, n) /\ EngineAt(s.pc, n)
  BY <1>5, <1>6, StopEngineParts, StopEngineAt
<1> HIDE DEF n
<1>8. SameWork(n, s) /\ n \in Session
  BY <1>3, <1>5, <1>7 DEF SameWork, Stops
<1>9. SessionOk(n)
  BY <1>7, <1>8, SameWorkOk
<1>10. /\ n.cancellationRequested /\ n.aborted
       /\ n.engine.process = s.engine.process
  BY <1>3, <1>5, <1>7 DEF Stops, SameFlags
<1>11. Onward(s, n)
  BY <1>2, <1>8, <1>9, <1>10 DEF Onward, SameWork, RunMoves, Session
<1>12. ASSUME Prompt(s), Reachable(s) PROVE Prompt(n)
  <2>1. CASE ~ s.engineContext \/ s.engineStop = "completed"
    <3>1. n = aborted
      BY <1>3, <1>5, <1>7, <2>1 DEF Stops, SameFlags
    <3>2. QED
      BY <1>3, <1>5, <1>12, <3>1 DEF Prompt
  <2>2. CASE s.engineContext /\ s.engineStop # "completed"
    <3>1. s.engineStop = "idle"
      BY <1>2, <1>12, <2>2 DEF Reachable, Responsive, Session
    <3>2. ~ aborted.engine.active
      BY <1>3, <1>5, <1>12, <2>2, <3>1 DEF Reachable, Responsive
    <3>3. n.stopWaiters = aborted.stopWaiters
      BY <1>3, <1>5, <1>7, <2>2, <3>1, <3>2 DEF Stops, SameFlags
    <3>4. QED
      BY <1>3, <1>5, <1>12, <3>3 DEF Prompt
  <2>3. QED
    BY <2>1, <2>2
<1>13. QED
  BY <1>1, <1>8, <1>10, <1>11, <1>12 DEF SameWork

\* Wherever the orchestration is, cancelling the run keeps its report in order.
LEMMA CancelBooks ==
  ASSUME NEW pc, NEW next, NEW r \in RunRecord, Books(pc, next, r)
  PROVE  Books(pc, next, CancelRun(r, Now))
<1> DEFINE new == CancelRun(r, Now)
<1>1. /\ new.completedCases = r.completedCases
      /\ r.status \in {"queued", "running"} => new.status = "cancelled"
      /\ RunMoves(r, new)
      /\ \A k : Account(k, r) => Account(k, new)
      /\ Closed(r) => new = r
  BY CancelEnds
<1> HIDE DEF new
<1>2. pc = "idle" => new = NoRun
  BY <1>1 DEF Books, RunMoves, NoRun
<1>3. r.status \notin {"queued", "running"} => new = r
  BY <1>1 DEF RunMoves
<1>4. Books(pc, next, new)
  BY <1>1, <1>2, <1>3 DEF Books
<1>5. QED
  BY <1>4 DEF new

\* cancelRun and the persisting of a result, by the cancel route.
LEMMA CancelledByRouteParts ==
  ASSUME NEW s, SessionOk(s)
  PROVE  LET n == CancelledByRoute(s)
         IN  /\ Onward(s, n) /\ SameControl(n, s) /\ n.pc = s.pc
             /\ s.run.status = "queued" \/ s.run.status = "running"
                   => n.run.status = "cancelled"
<1> DEFINE run == CancelRun(s.run, Now)
           mid == [s EXCEPT !.run = run]
           n == CancelledByRoute(s)
<1>1. /\ s \in Session /\ s.run \in RunRecord
      /\ Books(s.pc, s.next, s.run) /\ EngineAt(s.pc, s)
      /\ WritesOk(s.pc, s.run, s.writes)
  BY DEF SessionOk, Session
<1>2. /\ RunMoves(s.run, run)
      /\ run.completedCases = s.run.completedCases
      /\ s.run.status \in {"queued", "running"} => run.status = "cancelled"
      /\ Closed(s.run) => run = s.run
  BY <1>1, CancelEnds
<1>3. Books(s.pc, s.next, run)
  BY <1>1, CancelBooks
<1>4. n = IF mid.run.status = "cancelled" THEN Persist(mid, "route") ELSE mid
  BY DEF CancelledByRoute
<1> HIDE DEF run, n
<1>5. /\ mid \in Session /\ SameControl(mid, s) /\ mid.run = run
      /\ mid.pc = s.pc /\ mid.next = s.next /\ mid.writes = s.writes
  BY <1>1, <1>2 DEF Session, SameControl, RunMoves
<1> HIDE DEF mid
<1>6. /\ s.writes["orchestrator"] \in {NoResult, s.run.result}
      /\ s.writes["orchestrator"] # NoResult => s.pc = "persisting"
      /\ s.writes["route"] \in {NoResult, s.run.result}
      /\ s.writes["route"] # NoResult => IsRunStatusTerminal(s.run.status)
      /\ s.pc = "persisting" => s.writes["orchestrator"] = s.run.result
      /\ s.pc = "persisting" => run = s.run
  <2>1. "orchestrator" \in Writers /\ "route" \in Writers
    BY DEF Writers
  <2>2. s.pc = "persisting" => run = s.run
    BY <1>1, <1>2 DEF Books, Over
  <2>3. QED
    BY <1>1, <2>1, <2>2 DEF WritesOk
<1>7. IsRunStatusTerminal(s.run.status) => run = s.run
  BY <1>2 DEF RunMoves, IsRunStatusTerminal, Terminal
<1>8. /\ n \in Session /\ SameControl(n, s) /\ n.run = run
      /\ n.pc = s.pc /\ n.next = s.next
      /\ WritesOk(n.pc, n.run, n.writes)
  <2>1. CASE run.status = "cancelled"
    <3>1. "route" \in Writers /\ n = Persist(mid, "route")
      BY <1>4, <1>5, <2>1 DEF Writers
    <3>2. /\ n \in Session /\ SameControl(n, mid)
          /\ n.run = run /\ n.pc = s.pc /\ n.next = s.next
          /\ n.writes["route"] = run.result
          /\ n.writes["orchestrator"] = s.writes["orchestrator"]
      <4>1. "orchestrator" \in Writers \ {"route"}
        BY DEF Writers
      <4>2. QED
        BY <1>5, <3>1, <4>1, PersistParts
    <3>3. WritesOk(n.pc, n.run, n.writes)
      BY <1>6, <2>1, <3>2 DEF WritesOk, Writers, IsRunStatusTerminal, Terminal
    <3>4. SameControl(n, s)
      BY <1>5, <3>2 DEF SameControl
    <3>5. QED
      BY <3>2, <3>3, <3>4
  <2>2. CASE run.status # "cancelled"
    <3>1. n = mid
      BY <1>4, <1>5, <2>2
    <3>2. run = s.run
      BY <1>2, <2>2 DEF RunMoves
    <3>3. QED
      BY <1>1, <1>5, <3>1, <3>2
  <2>3. QED
    BY <2>1, <2>2
<1>9. EngineAt(n.pc, n)
  BY <1>1, <1>2, <1>8, EngineFrame
<1>10. SessionOk(n)
  BY <1>3, <1>8, <1>9 DEF SessionOk
<1>11. Onward(s, n)
  BY <1>2, <1>8, <1>10 DEF Onward, SameControl
<1>12. QED
  BY <1>2, <1>8, <1>11 DEF n

-------------------------------------------------------------------------------
(***************************************************************************)
(* Part 4: the steps of one run's orchestration and engine.                *)
(***************************************************************************)

\* What an action does to a session before execute() goes on.
Toward(s, m) ==
    /\ m \in Session
    /\ RunMoves(s.run, m.run)
    /\ m.run.status = "cancelled" => s.run.status = "cancelled"
    /\ s.cancellationRequested => m.cancellationRequested
    /\ s.aborted => m.aborted
    /\ s.engine.process = "none" => m.engine.process = "none"
    /\ Prompt(s) => Prompt(m)
    /\ AbortListeners = {TRUE} /\ Reachable(s) => Responsive(m)

LEMMA ProceedsOwn ==
  ASSUME NEW s, SessionOk(s), s.pc \in Working,
         NEW m, Toward(s, m), NEW n, Proceeds(m, n)
  PROVE  OwnStep(s, n)
<1>1. /\ RunMoves(s.run, m.run) /\ RunMoves(m.run, n.run)
      /\ SameControl(n, m) /\ SessionOk(n)
      /\ n.pc \in {"executing", "metrics", "persisting"}
  BY DEF Toward, Proceeds
<1>2. RunMoves(s.run, n.run)
  BY <1>1, MovesTrans
<1>3. s.aborted => n.pc = "persisting"
  BY DEF Toward, Proceeds
<1>4. /\ s.cancellationRequested => n.cancellationRequested
      /\ s.aborted => n.aborted
      /\ s.engine.process = "none" => n.engine.process = "none"
      /\ Prompt(s) => Prompt(n)
  BY <1>1 DEF Toward, SameControl, Prompt
<1>5. AbortListeners = {TRUE} /\ Reachable(s) => Reachable(n)
  BY <1>1 DEF Toward, SameControl, Reachable, Responsive
<1>6. n.run.status = "cancelled"
         => s.run.status = "cancelled" \/ n.pc \in Over
  BY <1>1 DEF Toward, Proceeds, Over
<1>7. s.pc \notin Over /\ s.pc # "idle"
  BY DEF Working, Before, Over
<1>8. Onward(s, n)
  BY <1>1, <1>2, <1>3, <1>4, <1>7 DEF Onward, Late, Over
<1>9. QED
  BY <1>1, <1>4, <1>5, <1>6, <1>7, <1>8 DEF OwnStep

\* The catch of execute(), from wherever it was.
LEMMA CaughtOwn ==
  ASSUME NEW s, SessionOk(s), s.pc \in Working,
         NEW m, Toward(s, m), SameWork(m, s), EngineAt("persisting", m),
         NEW code \in Codes \cup {Cancelled}
  PROVE  OwnStep(s, Caught(m, code))
<1>1. s \in Session /\ Books(s.pc, s.next, s.run)
      /\ WritesOk(s.pc, s.run, s.writes)
  BY DEF SessionOk
<1>2. Len(Workload) \in Nat
  BY WorkloadParts
<1>3. s.next \in 1 .. Len(Workload) + 1 /\ Account(s.next - 1, s.run)
  <2>1. CASE s.pc \in Before
    <3>1. s.next = 1 /\ Account(0, s.run)
      BY <1>1, <2>1 DEF Books
    <3>2. 1 \in 1 .. Len(Workload) + 1 /\ 1 - 1 = 0
      BY <1>2
    <3>3. QED
      BY <3>1, <3>2
  <2>2. CASE s.pc = "executing"
    <3>1. s.next \in 1 .. Len(Workload) /\ Account(s.next - 1, s.run)
      BY <1>1, <2>2 DEF Books
    <3>2. QED
      BY <1>2, <3>1
  <2>3. CASE s.pc = "metrics"
    <3>1. s.next = Len(Workload) + 1 /\ Account(s.next - 1, s.run)
      BY <1>1, <2>3 DEF Books
    <3>2. QED
      BY <1>2, <3>1
  <2>4. QED
    BY <2>1, <2>2, <2>3 DEF Working
<1>4. WritesOk("executing", s.run, s.writes)
  BY <1>1 DEF WritesOk, Working, Before
<1>5. Catchable(m)
  BY <1>3, <1>4 DEF Catchable, SameWork, Toward
<1>6. Proceeds(m, Caught(m, code))
  BY <1>5, CaughtProceeds
<1>7. QED
  BY <1>6, ProceedsOwn

\* Nothing but the engine, or a flag, has changed.
EngineStep(s, n) ==
    /\ n \in Session /\ SameWork(n, s) /\ EngineAt(s.pc, n)
    /\ n.cancellationRequested = s.cancellationRequested
    /\ n.aborted = s.aborted
    /\ s.engine.process = "none" => n.engine.process = "none"
    /\ Prompt(s) => Prompt(n)
    /\ AbortListeners = {TRUE} /\ Reachable(s) => Reachable(n)
    /\ s.pc # "idle"

LEMMA EngineStepOwn ==
  ASSUME NEW s, SessionOk(s), NEW n, EngineStep(s, n)
  PROVE  OwnStep(s, n)
<1>1. SessionOk(n)
  BY SameWorkOk DEF EngineStep
<1>2. Onward(s, n)
  BY <1>1 DEF Onward, EngineStep, SameWork, RunMoves, SessionOk, Session
<1>3. QED
  BY <1>2 DEF OwnStep, EngineStep, SameWork

LEMMA SetEngine ==
  ASSUME NEW s \in Session, NEW e \in Engine
  PROVE  LET n == [s EXCEPT !.engine = e]
         IN  /\ n \in Session /\ SameWork(n, s)
             /\ n.cancellationRequested = s.cancellationRequested
             /\ n.aborted = s.aborted /\ n.expired = s.expired
             /\ n.engineContext = s.engineContext
             /\ n.engineStop = s.engineStop
             /\ n.stopWaiters = s.stopWaiters /\ n.engine = e
  BY DEF Session, SameWork

\* What a step of one run's own leaves alone.
LocalStep(r) ==
    \E n : /\ OwnStep(sessions[r], n) /\ Becomes(r, n)
           /\ UNCHANGED <<created, canceller, cancellation, awaiting, disk,
                          writeFailures>>
           /\ \A q \in handles' : q \in handles \/ (q = r /\ n.pc \in Late)

LEMMA LocalOwn ==
  ASSUME NEW r, NEW n, OwnStep(sessions[r], n), Local(r, n)
  PROVE  LocalStep(r)
<1>1. /\ Becomes(r, n) /\ handles' = handles
      /\ UNCHANGED <<created, canceller, cancellation, awaiting, disk,
                     writeFailures>>
  BY DEF Local, controlVars, unchangedOutside
<1>2. \A q \in handles' : q \in handles \/ (q = r /\ n.pc \in Late)
  BY <1>1
<1>3. QED
  BY <1>1, <1>2 DEF LocalStep

\* The facts about a session every one of the following proofs starts from.
LEMMA SessionParts ==
  ASSUME NEW s, SessionOk(s)
  PROVE  /\ s \in Session /\ s.engine \in Engine /\ s.run \in RunRecord
         /\ s.engineStop \in {"idle", "inFlight", "completed"}
         /\ Books(s.pc, s.next, s.run) /\ EngineAt(s.pc, s)
         /\ WritesOk(s.pc, s.run, s.writes)
         /\ s.pc = "idle" => s.engine = NoEngine /\ s.engineStop = "idle"
  BY DEF SessionOk, Session, EngineAt

LEMMA DeadlinePassesOwn ==
  ASSUME NEW r \in RunIds, SessionOk(sessions[r]), DeadlinePasses(r)
  PROVE  LocalStep(r)
<1> DEFINE s == sessions[r]
           n == [s EXCEPT !.expired = TRUE]
<1>1. Local(r, n) /\ s.pc # "idle"
  BY DEF DeadlinePasses, Deadline
<1>2. SessionOk(s)
  OBVIOUS
<1> HIDE DEF s
<1>3. s \in Session /\ EngineAt(s.pc, s)
  BY <1>2, SessionParts
<1>4. /\ n \in Session /\ SameWork(n, s)
      /\ n.cancellationRequested = s.cancellationRequested
      /\ n.aborted = s.aborted /\ n.expired = TRUE
      /\ n.engineContext = s.engineContext
      /\ n.engineStop = s.engineStop
      /\ n.stopWaiters = s.stopWaiters /\ n.engine = s.engine
  BY <1>3 DEF Session, SameWork
<1> HIDE DEF n
<1>5. EngineAt(s.pc, n)
  BY <1>3, <1>4 DEF EngineAt, Abandoned, SameWork
<1>6. Prompt(s) => Prompt(n)
  BY <1>4 DEF Prompt
<1>7. Reachable(s) => Reachable(n)
  BY <1>4 DEF Reachable, Responsive, SameWork
<1>8. EngineStep(s, n)
  BY <1>1, <1>4, <1>5, <1>6, <1>7 DEF EngineStep
<1>9. OwnStep(s, n)
  BY <1>2, <1>8, EngineStepOwn
<1>10. QED
  BY <1>1, <1>9, LocalOwn DEF s

\* An engine that has changed into e, as far as the session is concerned.
EngineChange(s, e) ==
    /\ e \in Engine
    /\ s.engine.process = "none" <=> e.process = "none"
    /\ e.start = s.engine.start
    /\ s.engine # NoEngine
    /\ e.active => s.engine.active /\ e.listening = s.engine.listening
    /\ e.listening => s.engine.listening

\* Such a change is a step of its own.
LEMMA EngineChangeStep ==
  ASSUME NEW s, SessionOk(s), NEW e, EngineChange(s, e)
  PROVE  LET n == [s EXCEPT !.engine = e] IN EngineStep(s, n)
<1> DEFINE n == [s EXCEPT !.engine = e]
<1>1. s \in Session /\ s.engine \in Engine /\ EngineAt(s.pc, s) /\ e \in Engine
  BY SessionParts DEF EngineChange
<1>2. /\ n \in Session /\ SameWork(n, s)
      /\ n.cancellationRequested = s.cancellationRequested
      /\ n.aborted = s.aborted /\ n.expired = s.expired
      /\ n.engineContext = s.engineContext
      /\ n.engineStop = s.engineStop
      /\ n.stopWaiters = s.stopWaiters /\ n.engine = e
  BY <1>1, SetEngine
<1> HIDE DEF n
<1>3. Abandoned(s.pc, s) => Abandoned(s.pc, n)
  BY <1>2 DEF Abandoned, SameWork
<1>4. s.pc \notin {"idle", "building"}
  BY <1>1 DEF EngineAt, EngineChange
<1>5. EngineAt(s.pc, n)
  BY <1>1, <1>2, <1>3, <1>4 DEF EngineAt, EngineChange
<1>6. Prompt(s) => Prompt(n)
  BY <1>2 DEF Prompt
<1>7. Reachable(s) => Reachable(n)
  BY <1>2 DEF Reachable, Responsive, SameWork, EngineChange
<1>8. EngineStep(s, n)
  BY <1>2, <1>4, <1>5, <1>6, <1>7 DEF EngineStep, EngineChange
<1>9. QED
  BY <1>8 DEF n

LEMMA FailReadinessParts ==
  ASSUME NEW e \in Engine
  PROVE  LET f == FailReadiness(e)
         IN  /\ f \in Engine /\ f.process = e.process /\ f.start = e.start
             /\ ~ f.active /\ ~ f.listening
<1> DEFINE g == StopRunState(e)
           f == [g EXCEPT !.probe = "failing"]
<1>1. FailReadiness(e) = f
  BY DEF FailReadiness
<1>2. /\ g \in Engine /\ g.process = e.process /\ g.start = e.start
      /\ ~ g.active /\ ~ g.listening
  BY DEF StopRunState, Engine
<1> HIDE DEF g
<1>3. /\ f \in Engine /\ f.process = g.process /\ f.start = g.start
      /\ f.active = g.active /\ f.listening = g.listening
  BY <1>2 DEF Engine
<1>4. QED
  BY <1>1, <1>2, <1>3

LEMMA ReadinessFailsOwn ==
  ASSUME NEW r \in RunIds, SessionOk(sessions[r]), ReadinessFails(r)
  PROVE  LocalStep(r)
<1> DEFINE s == sessions[r]
           e == FailReadiness(s.engine)
           n == [s EXCEPT !.engine = e]
<1>1. Local(r, n) /\ s.engine.probe = "probing" /\ SessionOk(s)
  BY DEF ReadinessFails
<1> HIDE DEF s
<1>2. s.engine \in Engine /\ EngineAt(s.pc, s)
  BY <1>1, SessionParts
<1>3. EngineChange(s, e)
  <2>1. s.engine # NoEngine
    BY <1>1 DEF NoEngine
  <2>2. /\ e \in Engine /\ e.process = s.engine.process
        /\ e.start = s.engine.start /\ ~ e.active /\ ~ e.listening
    BY <1>2, FailReadinessParts
  <2>3. QED
    BY <2>1, <2>2 DEF EngineChange
<1> HIDE DEF e
<1>4. EngineStep(s, n)
  BY <1>1, <1>3, EngineChangeStep
<1> HIDE DEF n
<1>5. OwnStep(s, n)
  BY <1>1, <1>4, EngineStepOwn
<1>6. QED
  BY <1>1, <1>5, LocalOwn DEF s

\* The stop in flight, if there is one, is over with a change of the engine.
LEMMA StopSettledStep ==
  ASSUME NEW s, SessionOk(s), NEW e, EngineChange(s, e),
         NEW how \in {"idle", "completed"}
  PROVE  EngineStep(s, StopSettled([s EXCEPT !.engine = e], how))
<1> DEFINE m == [s EXCEPT !.engine = e]
           n == StopSettled(m, how)
<1>1. EngineStep(s, m)
  BY EngineChangeStep
<1>2. /\ m.engineStop = s.engineStop /\ m.engineContext = s.engineContext
      /\ m.aborted = s.aborted
  BY SessionParts, SetEngine DEF EngineChange
<1> HIDE DEF m
<1>3. m \in Session
  BY <1>1 DEF EngineStep
<1>4. /\ n \in Session /\ SameWork(n, m) /\ SameFlags(n, m)
      /\ n.aborted = m.aborted /\ n.engine = m.engine
      /\ m.engineStop # "inFlight" => n.engineStop = m.engineStop
      /\ n.engineStop # "inFlight"
      /\ Prompt(m) => Prompt(n)
      /\ \A p : EngineAt(p, m) => EngineAt(p, n)
  BY <1>3, StopSettledParts
<1> HIDE DEF n
<1>5. AbortListeners = {TRUE} /\ Reachable(s) => Reachable(n)
  BY <1>1, <1>2, <1>4 DEF EngineStep, Reachable, Responsive, SameWork, SameFlags
<1>6. QED
  BY <1>1, <1>4, <1>5 DEF EngineStep, SameWork, SameFlags, m, n

LEMMA EngineExitsOwn ==
  ASSUME NEW r \in RunIds, SessionOk(sessions[r]), EngineExits(r)
  PROVE  LocalStep(r)
<1> DEFINE s == sessions[r]
           e == Exit(s.engine)
           n == StopSettled([s EXCEPT !.engine = e], "completed")
<1>1. Local(r, n) /\ s.engine.process = "alive" /\ SessionOk(s)
  BY DEF EngineExits
<1> HIDE DEF s
<1>2. s.engine \in Engine
  BY <1>1, SessionParts
<1>3. EngineChange(s, e)
  <2>1. s.engine # NoEngine
    BY <1>1 DEF NoEngine
  <2>2. /\ e \in Engine /\ e.process = "exited"
        /\ e.start = s.engine.start /\ ~ e.active /\ ~ e.listening
    BY <1>2 DEF Exit, Engine
  <2>3. QED
    BY <1>1, <2>1, <2>2 DEF EngineChange
<1> HIDE DEF e
<1>4. EngineStep(s, n)
  BY <1>1, <1>3, StopSettledStep
<1> HIDE DEF n
<1>5. OwnStep(s, n)
  BY <1>1, <1>4, EngineStepOwn
<1>6. QED
  BY <1>1, <1>5, LocalOwn DEF s

LEMMA StopGivesUpOwn ==
  ASSUME NEW r \in RunIds, SessionOk(sessions[r]), StopGivesUp(r)
  PROVE  LocalStep(r)
<1> DEFINE s == sessions[r]
           e == GiveUpStop(s.engine)
           n == StopSettled([s EXCEPT !.engine = e], "idle")
<1>1. Local(r, n) /\ s.engine.stopping /\ SessionOk(s)
  BY DEF StopGivesUp
<1> HIDE DEF s
<1>2. s.engine \in Engine
  BY <1>1, SessionParts
<1>3. s.engine # NoEngine
  BY <1>1 DEF NoEngine
<1>4. EngineChange(s, e)
  BY <1>2, <1>3 DEF EngineChange, GiveUpStop, Engine
<1> HIDE DEF e
<1>5. EngineStep(s, n)
  BY <1>1, <1>4, StopSettledStep
<1> HIDE DEF n
<1>6. OwnStep(s, n)
  BY <1>1, <1>5, EngineStepOwn
<1>7. QED
  BY <1>1, <1>6, LocalOwn DEF s

LEMMA StopTimesOutOwn ==
  ASSUME NEW r \in RunIds, SessionOk(sessions[r]), StopTimesOut(r)
  PROVE  LocalStep(r)
<1> DEFINE s == sessions[r]
           n == StopSettled(s, "idle")
<1>1. Local(r, n) /\ s.engineStop = "inFlight" /\ SessionOk(s)
  BY DEF StopTimesOut, StopTimerArmed
<1> HIDE DEF s
<1>2. s \in Session /\ EngineAt(s.pc, s) /\ s.pc # "idle"
  BY <1>1, SessionParts
<1>3. /\ n \in Session /\ SameWork(n, s) /\ SameFlags(n, s)
      /\ n.aborted = s.aborted /\ n.engine = s.engine
      /\ Prompt(s) => Prompt(n)
      /\ EngineAt(s.pc, n)
  BY <1>2, StopSettledParts
<1> HIDE DEF n
<1>4. EngineStep(s, n)
  BY <1>1, <1>2, <1>3 DEF EngineStep, SameFlags, Reachable, Responsive
<1>5. OwnStep(s, n)
  BY <1>1, <1>4, EngineStepOwn
<1>6. QED
  BY <1>1, <1>5, LocalOwn DEF s

LEMMA EngineStepToward ==
  ASSUME NEW s, SessionOk(s), NEW m, EngineStep(s, m)
  PROVE  Toward(s, m) /\ SameWork(m, s)
  BY DEF EngineStep, Toward, SameWork, RunMoves, Reachable, SessionOk, Session

LEMMA EngineStepRefl ==
  ASSUME NEW s, SessionOk(s), s.pc # "idle"
  PROVE  EngineStep(s, s)
  BY DEF EngineStep, SameWork, SessionOk

\* Wherever the work is interrupted but in plugin.start(), the engine's part is
\* that of a run that is being persisted.
LEMMA EngineAtEnd ==
  ASSUME NEW s, NEW p \in {"building", "readying", "executing", "metrics"},
         EngineAt(p, s)
  PROVE  EngineAt("persisting", s)
  BY DEF EngineAt, Abandoned, Over, NoEngine

LEMMA BuildRejectsOwn ==
  ASSUME NEW r \in RunIds, SessionOk(sessions[r]),
         NEW code \in Codes \cup {Cancelled}, BuildRejects(r, code)
  PROVE  LocalStep(r)
<1> DEFINE s == sessions[r]
           n == Caught(s, code)
<1>1. Local(r, n) /\ s.pc = "building" /\ SessionOk(s)
  BY DEF BuildRejects, Is
<1> HIDE DEF s
<1>2. Toward(s, s) /\ SameWork(s, s)
  BY <1>1, EngineStepRefl, EngineStepToward
<1>3. EngineAt("persisting", s)
  BY <1>1, SessionParts, EngineAtEnd
<1>4. s.pc \in Working
  BY <1>1 DEF Working, Before
<1>5. OwnStep(s, n)
  BY <1>1, <1>2, <1>3, <1>4, CaughtOwn
<1> HIDE DEF n
<1>6. QED
  BY <1>1, <1>5, LocalOwn DEF s

LEMMA BuildResolvesOwn ==
  ASSUME NEW r \in RunIds, SessionOk(sessions[r]), BuildResolves(r)
  PROVE  LocalStep(r)
<1> DEFINE s == sessions[r]
           m == [s EXCEPT !.engineContext = TRUE]
           caught == Caught(m, "RUN_CASE_FAILED")
           e == Spawn(m.engine)
           spawned == [m EXCEPT !.pc = "starting", !.engine = e]
<1>1. /\ Local(r, IF m.aborted THEN caught ELSE spawned)
      /\ s.pc = "building" /\ SessionOk(s)
  BY DEF BuildResolves, Is
<1> HIDE DEF s
<1>2. /\ s \in Session /\ s.engine = NoEngine /\ EngineAt(s.pc, s)
      /\ s.engineStop = "idle" /\ Books(s.pc, s.next, s.run)
      /\ WritesOk(s.pc, s.run, s.writes)
  BY <1>1, SessionParts DEF EngineAt
<1>3. /\ m \in Session /\ SameWork(m, s)
      /\ m.cancellationRequested = s.cancellationRequested
      /\ m.aborted = s.aborted /\ m.expired = s.expired
      /\ m.engineContext = TRUE /\ m.engineStop = "idle"
      /\ m.stopWaiters = s.stopWaiters /\ m.engine = NoEngine
  BY <1>2 DEF Session, SameWork
<1> HIDE DEF m
<1>4. CASE m.aborted
  <2>1. EngineAt("persisting", m)
    BY <1>3 DEF EngineAt, NoEngine
  <2>2. Toward(s, m)
    <3>1. RunMoves(s.run, m.run)
      BY <1>2, <1>3 DEF RunMoves, SameWork, Session
    <3>2. Responsive(m)
      BY <1>3 DEF Responsive, NoEngine
    <3>3. QED
      BY <1>2, <1>3, <3>1, <3>2 DEF Toward, SameWork, Prompt
  <2>3. "RUN_CASE_FAILED" \in Codes \cup {Cancelled} /\ s.pc \in Working
    BY <1>1 DEF Codes, Working, Before
  <2>4. OwnStep(s, caught)
    BY <1>1, <1>3, <2>1, <2>2, <2>3, CaughtOwn
  <2> HIDE DEF caught
  <2>5. Local(r, caught)
    BY <1>1, <1>4
  <2>6. QED
    BY <2>4, <2>5, LocalOwn DEF s
<1>5. CASE ~ m.aborted
  <2>1. /\ e \in Engine /\ e.start = "pending" /\ e.process = "alive"
        /\ ~ e.active /\ ~ e.listening
    <3>1. NoEngine \in Engine /\ ~ NoEngine.active /\ ~ NoEngine.listening
      BY DEF NoEngine, Engine
    <3>2. LET f == Spawn(NoEngine)
          IN  /\ f \in Engine /\ f.start = "pending" /\ f.process = "alive"
              /\ f.active = NoEngine.active /\ f.listening = NoEngine.listening
      BY <3>1 DEF Spawn, Engine
    <3>3. QED
      BY <1>3, <3>1, <3>2
  <2> HIDE DEF e
  <2>2. /\ spawned \in Session /\ spawned.pc = "starting"
        /\ spawned.next = s.next /\ spawned.run = s.run
        /\ spawned.writes = s.writes
        /\ spawned.cancellationRequested = s.cancellationRequested
        /\ spawned.aborted = s.aborted /\ spawned.expired = s.expired
        /\ spawned.engineContext = TRUE /\ spawned.engineStop = "idle"
        /\ spawned.stopWaiters = s.stopWaiters /\ spawned.engine = e
    BY <1>3, <2>1 DEF Session, SameWork
  <2>3. Local(r, spawned)
    BY <1>1, <1>5
  <2> HIDE DEF spawned
  <2>4. EngineAt("starting", spawned)
    BY <2>1, <2>2 DEF EngineAt
  <2>5. Books("starting", s.next, s.run)
    BY <1>1, <1>2 DEF Books, Before, Over
  <2>6. WritesOk("starting", s.run, s.writes)
    BY <1>1, <1>2 DEF WritesOk
  <2>7. SessionOk(spawned)
    BY <2>2, <2>4, <2>5, <2>6 DEF SessionOk
  <2>8. Onward(s, spawned)
    <3>1. RunMoves(s.run, spawned.run)
      BY <1>2, <2>2 DEF RunMoves, Session
    <3>2. s.pc \notin Over /\ s.pc \notin Late
      BY <1>1 DEF Over, Late
    <3>3. ~ s.aborted
      BY <1>3, <1>5
    <3>4. QED
      BY <2>2, <2>7, <3>1, <3>2, <3>3 DEF Onward
  <2>9. Prompt(s) => Prompt(spawned)
    BY <2>2 DEF Prompt
  <2>10. Reachable(spawned)
    BY <1>3, <1>5, <2>1, <2>2 DEF Reachable, Responsive
  <2>11. OwnStep(s, spawned)
    BY <1>1, <2>2, <2>8, <2>9, <2>10 DEF OwnStep
  <2>12. QED
    BY <2>3, <2>11, LocalOwn DEF s
<1>6. QED
  BY <1>4, <1>5

\* The abort signal leaves a listening engine nothing to be waited for, with
\* or without the stop that follows it.
LEMMA AbortResponsive ==
  ASSUME NEW s \in Session, Responsive(s), NEW waiters \in SUBSET Waiters
  PROVE  Responsive(Abort(s)) /\ Responsive(StopEngine(Abort(s), waiters))
<1> DEFINE a == Abort(s)
           n == StopEngine(a, waiters)
<1>1. /\ a \in Session /\ SameFlags(a, s) /\ a.engineStop = s.engineStop
      /\ a.engine.active => s.engine.active /\ ~ s.engine.listening
  BY AbortParts
<1> HIDE DEF a
<1>2. Stops(a, waiters, n)
  BY <1>1, StopEngineParts
<1> HIDE DEF n
<1>3. Responsive(a) /\ a.engineStop \in {"idle", "completed"}
  BY <1>1 DEF Responsive, SameFlags, Session
<1>4. CASE ~ a.engineContext \/ a.engineStop = "completed"
  BY <1>2, <1>3, <1>4 DEF Stops, a, n
<1>5. CASE a.engineContext /\ a.engineStop = "idle"
  <2>1. ~ a.engine.active
    BY <1>1, <1>5 DEF Responsive, SameFlags
  <2>2. n.engineStop = "completed"
    BY <1>2, <1>5, <2>1 DEF Stops
  <2>3. Responsive(n)
    BY <2>2 DEF Responsive
  <2>4. QED
    BY <1>3, <2>3 DEF a, n
<1>6. QED
  BY <1>3, <1>4, <1>5

LEMMA RunTimerOwn ==
  ASSUME NEW r \in RunIds, SessionOk(sessions[r]), RunTimer(r)
  PROVE  LocalStep(r)
<1> DEFINE s == sessions[r]
           a == Abort(s)
           b == StopEngine(a, {})
           m == IF s.pc \in {"starting", "readying"} THEN b ELSE a
           n == Caught(m, "RUN_TIMEOUT_EXCEEDED")
<1>1. /\ Local(r, n) /\ s.expired /\ SessionOk(s)
      /\ s.pc \in {"building", "starting", "readying", "metrics"}
  BY DEF RunTimer, RunTimerArmed
<1> HIDE DEF s
<1>2. /\ s \in Session /\ EngineAt(s.pc, s) /\ Books(s.pc, s.next, s.run)
      /\ s.run \in RunRecord
  BY <1>1, SessionParts
<1>3. /\ a \in Session /\ SameWork(a, s) /\ SameFlags(a, s)
      /\ a.aborted /\ a.engineStop = s.engineStop
      /\ a.stopWaiters = s.stopWaiters /\ EngineAt(s.pc, a)
      /\ ~ s.engine.active => a.engine = s.engine
  BY <1>2, AbortParts
<1>4. {} \in SUBSET Waiters
  OBVIOUS
<1>5. Responsive(s) => Responsive(a) /\ Responsive(b)
  BY <1>2, <1>4, AbortResponsive
<1> HIDE DEF a
<1>6. Stops(a, {}, b) /\ EngineAt(s.pc, b)
  BY <1>3, <1>4, StopEngineParts, StopEngineAt
<1> HIDE DEF b
<1>7. /\ b \in Session /\ SameWork(b, s) /\ SameFlags(b, s) /\ b.aborted
      /\ Prompt(a) => Prompt(b)
  BY <1>3, <1>6 DEF Stops, SameWork, SameFlags
<1>8. /\ m \in Session /\ SameWork(m, s) /\ SameFlags(m, s) /\ m.aborted
      /\ Prompt(s) => Prompt(m)
      /\ Responsive(s) => Responsive(m)
      /\ EngineAt(s.pc, m)
  BY <1>3, <1>5, <1>6, <1>7 DEF Prompt
<1>9. EngineAt("persisting", m)
  <2>1. CASE s.pc # "starting"
    BY <1>1, <1>8, <2>1, EngineAtEnd
  <2>2. CASE s.pc = "starting"
    <3>1. /\ s.engineContext /\ s.engine.start = "pending"
          /\ ~ s.engine.active /\ s.engineStop # "inFlight"
      BY <1>2, <2>2 DEF EngineAt
    <3>2. a.engineContext /\ ~ a.engine.active /\ a.engineStop # "inFlight"
      BY <1>3, <3>1 DEF SameFlags
    <3>3. b.engineStop = "completed"
      BY <1>6, <3>2 DEF Stops
    <3>4. s.run.completedCases = 0
      BY <1>2, <2>2 DEF Books, Before
    <3>5. m = b
      BY <2>2
    <3>6. Abandoned("persisting", m)
      BY <1>1, <1>8, <3>3, <3>4, <3>5 DEF Abandoned, Over, SameWork, SameFlags
    <3> HIDE DEF m
    <3>7. QED
      BY <1>8, <2>2, <3>6 DEF EngineAt
  <2>3. QED
    BY <2>1, <2>2
<1> HIDE DEF m
<1>10. RunMoves(s.run, m.run)
  BY <1>2, <1>8 DEF RunMoves, SameWork
<1>11. Toward(s, m)
  BY <1>8, <1>10 DEF Toward, SameWork, SameFlags, Reachable
<1>12. "RUN_TIMEOUT_EXCEEDED" \in Codes \cup {Cancelled} /\ s.pc \in Working
  BY <1>1 DEF Codes, Working, Before
<1>13. OwnStep(s, n)
  BY <1>1, <1>8, <1>9, <1>11, <1>12, CaughtOwn
<1> HIDE DEF n
<1>14. QED
  BY <1>1, <1>13, LocalOwn DEF s

LEMMA StartRejectsOwn ==
  ASSUME NEW r \in RunIds, SessionOk(sessions[r]),
         NEW code \in Codes \cup {Cancelled}, StartRejects(r, code)
  PROVE  LocalStep(r)
<1> DEFINE s == sessions[r]
           e == FailStart(s.engine)
           m == [s EXCEPT !.engine = e]
           caught == Caught(m, code)
<1>1. /\ Local(r, IF m.pc = "starting" THEN caught ELSE m)
      /\ s.engine.start = "pending" /\ SessionOk(s)
  BY DEF StartRejects
<1> HIDE DEF s
<1>2. s \in Session /\ s.engine \in Engine /\ EngineAt(s.pc, s)
      /\ s.run \in RunRecord
  BY <1>1, SessionParts
<1>3. /\ ~ s.engine.active /\ ~ s.engine.listening /\ s.engineContext
      /\ s.engineStop # "inFlight"
      /\ s.pc = "starting" \/ s.pc \in Over
      /\ s.pc # "idle"
  BY <1>1, <1>2 DEF EngineAt, Abandoned, NoEngine, Over
<1>4. /\ e \in Engine /\ e.start = "settled" /\ e.process = "exited"
      /\ e.active = s.engine.active /\ e.listening = s.engine.listening
  BY <1>2 DEF FailStart, Engine
<1> HIDE DEF e
<1>5. /\ m \in Session /\ SameWork(m, s)
      /\ m.cancellationRequested = s.cancellationRequested
      /\ m.aborted = s.aborted /\ m.expired = s.expired
      /\ m.engineContext = s.engineContext
      /\ m.engineStop = s.engineStop
      /\ m.stopWaiters = s.stopWaiters /\ m.engine = e
  BY <1>2, <1>4, SetEngine
<1> HIDE DEF m
<1>6. s.engine.process # "none"
  BY <1>1, <1>2 DEF EngineAt
<1>7. ASSUME NEW p \in Over PROVE EngineAt(p, m)
  BY <1>3, <1>4, <1>5, <1>7 DEF EngineAt, Over
<1>8. Prompt(s) => Prompt(m)
  BY <1>5 DEF Prompt
<1>9. Responsive(m)
  BY <1>3, <1>4, <1>5 DEF Responsive
<1>10. RunMoves(s.run, m.run)
  BY <1>2, <1>5 DEF RunMoves, SameWork
<1>11. Toward(s, m)
  BY <1>5, <1>6, <1>8, <1>9, <1>10 DEF Toward, SameWork
<1>12. CASE s.pc = "starting"
  <2>1. s.pc \in Working
    BY <1>12 DEF Working, Before
  <2>2. EngineAt("persisting", m)
    BY <1>7 DEF Over
  <2>3. OwnStep(s, caught)
    BY <1>1, <1>5, <1>11, <2>1, <2>2, CaughtOwn
  <2> HIDE DEF caught
  <2>4. Local(r, caught)
    BY <1>1, <1>5, <1>12 DEF SameWork
  <2>5. QED
    BY <2>3, <2>4, LocalOwn DEF s
<1>13. CASE s.pc \in Over
  <2>1. EngineAt(s.pc, m) /\ Reachable(m)
    BY <1>5, <1>7, <1>9, <1>13 DEF Reachable, SameWork, Over
  <2>2. EngineStep(s, m)
    BY <1>3, <1>5, <1>6, <1>8, <2>1 DEF EngineStep
  <2>3. OwnStep(s, m)
    BY <1>1, <2>2, EngineStepOwn
  <2>4. Local(r, m)
    BY <1>1, <1>5, <1>13 DEF SameWork, Over
  <2>5. QED
    BY <2>3, <2>4, LocalOwn DEF s
<1>14. QED
  BY <1>3, <1>12, <1>13

LEMMA StartResolvesOwn ==
  ASSUME NEW r \in RunIds, SessionOk(sessions[r]),
         NEW listens \in AbortListeners, StartResolves(r, listens)
  PROVE  LocalStep(r)
<1> DEFINE s == sessions[r]
           e == Activate(s.engine, s.aborted, listens)
           late == [s EXCEPT !.engine = e]
           f == WaitUntilReady(e, s.aborted)
           ready == [late EXCEPT !.pc = "readying", !.engine = f]
<1>1. /\ s.engine.start = "pending" /\ SessionOk(s)
      /\ s.pc = "starting" => Becomes(r, ready)
      /\ s.pc # "starting" => Local(r, late)
      /\ UNCHANGED <<created, canceller, cancellation, awaiting, disk,
                     writeFailures>>
      /\ \A q \in handles' : q \in handles \/ q = r
  <2> DEFINE awaited == [late EXCEPT !.pc = "readying",
                                     !.engine = WaitUntilReady(@, s.aborted)]
  <2>1. s \in Session /\ e \in Engine
    <3>1. s \in Session /\ s.engine \in Engine /\ listens \in BOOLEAN
      BY SessionParts, AbortListenersAssumption
    <3>2. s.aborted \in BOOLEAN
      BY <3>1 DEF Session
    <3> HIDE DEF s
    <3>3. QED
      BY <3>1, <3>2 DEF Activate, Engine
  <2> HIDE DEF e
  <2>2. late.engine = e
    BY <2>1, SetEngine
  <2>3. awaited = ready
    BY <2>2
  <2>4. QED
    BY <2>3 DEF StartResolves, Local, unchangedOutside, controlVars, e,
                RegisterEngineProcess
<1>2. listens \in BOOLEAN /\ (AbortListeners = {TRUE} => listens = TRUE)
  BY AbortListenersAssumption
<1> HIDE DEF s
<1>3. /\ s \in Session /\ s.engine \in Engine /\ EngineAt(s.pc, s)
      /\ s.run \in RunRecord /\ Books(s.pc, s.next, s.run)
      /\ WritesOk(s.pc, s.run, s.writes) /\ s.aborted \in BOOLEAN
  BY <1>1, SessionParts DEF Session
<1>4. /\ ~ s.engine.active /\ ~ s.engine.listening /\ s.engineContext
      /\ s.engineStop # "inFlight" /\ s.engine.process # "none"
      /\ s.pc = "starting" \/ Abandoned(s.pc, s)
      /\ s.pc # "idle"
  BY <1>1, <1>3 DEF EngineAt, Abandoned, NoEngine, Over
<1>5. /\ e \in Engine /\ e.start = "settled" /\ e.active = TRUE
      /\ e.process = s.engine.process
      /\ e.listening = (listens /\ ~ s.aborted)
  BY <1>2, <1>3 DEF Activate, Engine
<1> HIDE DEF e
<1>6. /\ late \in Session /\ SameWork(late, s)
      /\ late.cancellationRequested = s.cancellationRequested
      /\ late.aborted = s.aborted /\ late.expired = s.expired
      /\ late.engineContext = s.engineContext
      /\ late.engineStop = s.engineStop
      /\ late.stopWaiters = s.stopWaiters /\ late.engine = e
  BY <1>3, <1>5, SetEngine
<1> HIDE DEF late
<1>7. CASE s.pc # "starting"
  <2>1. Abandoned(s.pc, late)
    BY <1>4, <1>6, <1>7 DEF Abandoned, SameWork
  <2>2. ~ e.listening
    BY <1>4, <1>5, <1>7 DEF Abandoned
  <2>3. EngineAt(s.pc, late)
    BY <1>3, <1>4, <1>5, <1>6, <2>1, <2>2 DEF EngineAt, Abandoned, Over
  <2>4. Reachable(late) /\ (Prompt(s) => Prompt(late))
    BY <1>6, <2>1 DEF Reachable, Responsive, Prompt, Abandoned, SameWork, Over
  <2>5. EngineStep(s, late)
    BY <1>4, <1>5, <1>6, <2>3, <2>4 DEF EngineStep
  <2>6. OwnStep(s, late)
    BY <1>1, <2>5, EngineStepOwn
  <2>7. QED
    BY <1>1, <1>7, <2>6, LocalOwn DEF s
<1>8. CASE s.pc = "starting"
  <2>1. /\ f \in Engine /\ f.start = "settled" /\ f.process = e.process
        /\ s.aborted => ~ f.active /\ ~ f.listening
        /\ ~ s.aborted => f.active = TRUE /\ f.listening = listens
    <3>1. CASE s.aborted
      <4>1. f = FailReadiness(e)
        BY <3>1 DEF WaitUntilReady
      <4>2. QED
        BY <1>5, <3>1, <4>1, FailReadinessParts
    <3>2. CASE ~ s.aborted
      <4>1. f = [e EXCEPT !.probe = "probing"]
        BY <3>2 DEF WaitUntilReady
      <4>2. /\ f \in Engine /\ f.start = e.start /\ f.process = e.process
            /\ f.active = e.active /\ f.listening = e.listening
        BY <1>5, <4>1 DEF Engine
      <4>3. QED
        BY <1>2, <1>5, <3>2, <4>2
    <3>3. QED
      BY <3>1, <3>2
  <2> HIDE DEF f
  <2>2. /\ ready \in Session /\ ready.pc = "readying"
        /\ ready.run = s.run /\ ready.next = s.next /\ ready.writes = s.writes
        /\ ready.cancellationRequested = s.cancellationRequested
        /\ ready.aborted = s.aborted /\ ready.expired = s.expired
        /\ ready.engineContext = s.engineContext
        /\ ready.engineStop = s.engineStop
        /\ ready.stopWaiters = s.stopWaiters /\ ready.engine = f
    BY <1>6, <2>1 DEF Session, SameWork
  <2> HIDE DEF ready
  <2>3. s.engineStop = "idle" \/ s.aborted
    BY <1>3, <1>8 DEF EngineAt
  <2>4. EngineAt("readying", ready)
    BY <1>4, <1>5, <2>1, <2>2, <2>3 DEF EngineAt
  <2>5. Books("readying", s.next, s.run)
    BY <1>3, <1>8 DEF Books, Before, Over
  <2>6. WritesOk("readying", s.run, s.writes)
    BY <1>3, <1>8 DEF WritesOk
  <2>7. SessionOk(ready)
    BY <2>2, <2>4, <2>5, <2>6 DEF SessionOk
  <2>8. RunMoves(s.run, ready.run)
    BY <1>3, <2>2 DEF RunMoves
  <2>9. Onward(s, ready)
    BY <1>4, <1>8, <2>2, <2>7, <2>8 DEF Onward, Over, Late
  <2>10. Prompt(s) => Prompt(ready)
    BY <2>2 DEF Prompt
  <2>11. AbortListeners = {TRUE} /\ Reachable(s) => Reachable(ready)
    BY <1>2, <1>4, <1>8, <2>1, <2>2 DEF Reachable, Responsive
  <2>12. OwnStep(s, ready)
    BY <1>4, <2>2, <2>9, <2>10, <2>11 DEF OwnStep
  <2>13. QED
    BY <1>1, <1>8, <2>2, <2>12 DEF LocalStep, Late, s
<1>9. QED
  BY <1>7, <1>8

\* The case loop, from wherever execute() entered it.
LEMMA LoopOwn ==
  ASSUME NEW s, SessionOk(s), s.pc \in Working,
         NEW m, Toward(s, m), AtLoop(m)
  PROVE  OwnStep(s, CaseLoop(m))
  BY CaseLoopProceeds, ProceedsOwn

\* A write of the route goes on whatever the orchestration does with the run.
LEMMA WritesMove ==
  ASSUME NEW pc, NEW old, NEW new, NEW writes, WritesOk(pc, old, writes),
         pc # "persisting", RunMoves(old, new)
  PROVE  WritesOk("executing", new, writes)
<1>1. writes["route"] # NoResult => new = old
  BY DEF WritesOk, RunMoves, IsRunStatusTerminal, Terminal
<1>2. writes["orchestrator"] = NoResult
  BY DEF WritesOk
<1>3. writes["route"] \in {NoResult, old.result}
  BY DEF WritesOk, Writers
<1>4. QED
  BY <1>1, <1>2, <1>3 DEF WritesOk, Writers

LEMMA ReadyResolvesOwn ==
  ASSUME NEW r \in RunIds, SessionOk(sessions[r]), ReadyResolves(r)
  PROVE  LocalStep(r)
<1> DEFINE s == sessions[r]
           e == [s.engine EXCEPT !.probe = "none"]
           m == [s EXCEPT !.engine = e]
           run == MarkRunRunning(m.run, Now)
           marked == [m EXCEPT !.run = run]
           caught == Caught(m, Cancelled)
           loop == CaseLoop(marked)
<1>1. /\ Local(r, IF m.pc # "readying" THEN m
                  ELSE IF m.cancellationRequested \/ m.aborted
                  THEN caught ELSE loop)
      /\ s.engine.probe = "probing" /\ SessionOk(s)
  BY DEF ReadyResolves
<1> HIDE DEF s
<1>2. /\ s \in Session /\ s.engine \in Engine /\ EngineAt(s.pc, s)
      /\ Books(s.pc, s.next, s.run) /\ s.run \in RunRecord
      /\ WritesOk(s.pc, s.run, s.writes)
  BY <1>1, SessionParts
<1>3. EngineChange(s, e)
  <2>1. s.engine # NoEngine
    BY <1>1 DEF NoEngine
  <2>2. /\ e \in Engine /\ e.process = s.engine.process
        /\ e.start = s.engine.start /\ e.active = s.engine.active
        /\ e.listening = s.engine.listening
    BY <1>2 DEF Engine
  <2>3. QED
    BY <2>1, <2>2 DEF EngineChange
<1> HIDE DEF e
<1>4. EngineStep(s, m)
  BY <1>1, <1>3, EngineChangeStep
<1> HIDE DEF m
<1>5. m \in Session /\ SameWork(m, s) /\ Toward(s, m) /\ EngineAt(s.pc, m)
  BY <1>1, <1>4, EngineStepToward DEF EngineStep
<1>6. CASE s.pc # "readying"
  <2>1. Local(r, m)
    BY <1>1, <1>5, <1>6 DEF SameWork
  <2>2. OwnStep(s, m)
    BY <1>1, <1>4, EngineStepOwn
  <2>3. QED
    BY <2>1, <2>2, LocalOwn DEF s
<1>7. CASE s.pc = "readying" /\ (m.cancellationRequested \/ m.aborted)
  <2>1. EngineAt("persisting", m)
    BY <1>5, <1>7, EngineForward
  <2>2. Cancelled \in Codes \cup {Cancelled} /\ s.pc \in Working
    BY <1>7 DEF Working, Before
  <2>3. OwnStep(s, caught)
    BY <1>1, <1>5, <2>1, <2>2, CaughtOwn
  <2> HIDE DEF caught
  <2>4. Local(r, caught)
    BY <1>1, <1>5, <1>7 DEF SameWork
  <2>5. QED
    BY <2>3, <2>4, LocalOwn DEF s
<1>8. CASE s.pc = "readying" /\ ~ (m.cancellationRequested \/ m.aborted)
  <2>1. m.run = s.run /\ m.next = s.next /\ m.writes = s.writes
    BY <1>5 DEF SameWork
  <2>2. /\ s.next = 1 /\ Account(0, s.run)
    BY <1>2, <1>8 DEF Books, Before
  <2>3. /\ RunMoves(s.run, run) /\ Account(0, run) /\ run.status # "queued"
    BY <2>1, <2>2, RunningAccount
  <2>4. run.status = "cancelled" => s.run.status = "cancelled"
    BY <1>2, <2>1, MarkRunningReport DEF Now
  <2>5. run \in RunRecord
    BY <2>3 DEF Account
  <2> HIDE DEF run
  <2>6. /\ marked \in Session /\ SameControl(marked, m)
        /\ marked.run = run /\ marked.next = 1 /\ marked.writes = s.writes
    BY <1>5, <2>1, <2>2, <2>5 DEF Session, SameControl
  <2> HIDE DEF marked
  <2>7. WritesOk("executing", run, s.writes)
    BY <1>2, <1>8, <2>3, WritesMove
  <2>8. EngineAt("executing", marked) /\ EngineAt("persisting", marked)
    <3>1. EngineAt("executing", m)
      BY <1>5, <1>8, EngineForward
    <3>2. EngineAt("executing", marked)
      BY <2>6, <3>1, EngineFrame DEF Over
    <3>3. QED
      BY <3>2, EngineForward
  <2>9. Len(Workload) \in Nat
    BY WorkloadParts
  <2>10. 1 \in 1 .. Len(Workload) + 1 /\ 1 - 1 = 0
    BY <2>9
  <2>11. AtLoop(marked)
    BY <2>3, <2>6, <2>7, <2>8, <2>10 DEF AtLoop, Catchable
  <2>12. Toward(s, marked)
    BY <1>5, <2>3, <2>4, <2>6 DEF Toward, SameControl, Prompt, Responsive
  <2>13. OwnStep(s, loop)
    BY <1>1, <1>8, <2>11, <2>12, LoopOwn DEF Working, Before
  <2> HIDE DEF loop
  <2>14. Local(r, loop)
    BY <1>1, <1>5, <1>8 DEF SameWork
  <2>15. QED
    BY <2>13, <2>14, LocalOwn DEF s
<1>9. QED
  BY <1>6, <1>7, <1>8

LEMMA ReadyRejectsOwn ==
  ASSUME NEW r \in RunIds, SessionOk(sessions[r]),
         NEW code \in Codes \cup {Cancelled}, ReadyRejects(r, code)
  PROVE  LocalStep(r)
<1> DEFINE s == sessions[r]
           e == [s.engine EXCEPT !.probe = "none"]
           m == [s EXCEPT !.engine = e]
           caught == Caught(m, code)
<1>1. /\ Local(r, IF m.pc = "readying" THEN caught ELSE m)
      /\ s.engine.probe = "failing" /\ SessionOk(s)
  BY DEF ReadyRejects
<1> HIDE DEF s
<1>2. /\ s \in Session /\ s.engine \in Engine
  BY <1>1, SessionParts
<1>3. EngineChange(s, e)
  <2>1. s.engine # NoEngine
    BY <1>1 DEF NoEngine
  <2>2. /\ e \in Engine /\ e.process = s.engine.process
        /\ e.start = s.engine.start /\ e.active = s.engine.active
        /\ e.listening = s.engine.listening
    BY <1>2 DEF Engine
  <2>3. QED
    BY <2>1, <2>2 DEF EngineChange
<1> HIDE DEF e
<1>4. EngineStep(s, m)
  BY <1>1, <1>3, EngineChangeStep
<1> HIDE DEF m
<1>5. m \in Session /\ SameWork(m, s) /\ Toward(s, m) /\ EngineAt(s.pc, m)
  BY <1>1, <1>4, EngineStepToward DEF EngineStep
<1>6. CASE s.pc # "readying"
  <2>1. Local(r, m)
    BY <1>1, <1>5, <1>6 DEF SameWork
  <2>2. OwnStep(s, m)
    BY <1>1, <1>4, EngineStepOwn
  <2>3. QED
    BY <2>1, <2>2, LocalOwn DEF s
<1>7. CASE s.pc = "readying"
  <2>1. EngineAt("persisting", m)
    BY <1>5, <1>7, EngineForward
  <2>2. s.pc \in Working
    BY <1>7 DEF Working, Before
  <2>3. OwnStep(s, caught)
    BY <1>1, <1>5, <2>1, <2>2, CaughtOwn
  <2> HIDE DEF caught
  <2>4. Local(r, caught)
    BY <1>1, <1>5, <1>7 DEF SameWork
  <2>5. QED
    BY <2>3, <2>4, LocalOwn DEF s
<1>8. QED
  BY <1>6, <1>7

\* A case is over: its outcome is recorded and nextCaseIndex moves on.
LEMMA OutcomeToward ==
  ASSUME NEW s, SessionOk(s), s.pc = "executing",
         NEW run \in {RecordCaseFailed(s.run, Workload[s.next]),
                      RecordCaseCompleted(s.run, Workload[s.next])}
  PROVE  LET m == [s EXCEPT !.run = run, !.next = s.next + 1]
         IN  Toward(s, m) /\ AtLoop(m)
<1> DEFINE next == s.next + 1
           m == [s EXCEPT !.run = run, !.next = next]
<1>1. /\ s \in Session /\ EngineAt("executing", s) /\ s.run \in RunRecord
      /\ Books("executing", s.next, s.run)
      /\ WritesOk("executing", s.run, s.writes)
  BY SessionParts
<1>2. /\ s.next \in 1 .. Len(Workload) /\ Account(s.next - 1, s.run)
      /\ s.run.status # "queued"
  BY <1>1 DEF Books
<1>3. RunMoves(s.run, run) /\ Account(s.next, run) /\ run.status # "queued"
  BY <1>2, OutcomeAccount
<1>4. run.status = s.run.status
  <2>1. Workload[s.next] \in CaseIds
    BY <1>2, WorkloadParts
  <2>2. QED
    BY <1>1, <2>1, CaseReport
<1>5. Len(Workload) \in Nat
  BY WorkloadParts
<1>6. /\ next \in 1 .. Len(Workload) + 1 /\ next - 1 = s.next
      /\ next \in Nat \ {0}
  BY <1>2, <1>5
<1>7. run \in RunRecord
  BY <1>3 DEF Account
<1> HIDE DEF next
<1>8. /\ m \in Session /\ SameControl(m, s)
      /\ m.run = run /\ m.next = next /\ m.writes = s.writes
  BY <1>1, <1>6, <1>7 DEF Session, SameControl
<1> HIDE DEF m
<1>9. EngineAt("executing", m) /\ EngineAt("persisting", m)
  <2>1. EngineAt("executing", m)
    BY <1>1, <1>8, EngineFrame DEF Over
  <2>2. QED
    BY <2>1, EngineForward
<1>10. WritesOk("executing", run, s.writes)
  BY <1>1, <1>3, WritesMove
<1>11. AtLoop(m)
  BY <1>3, <1>6, <1>8, <1>9, <1>10 DEF AtLoop, Catchable
<1>12. Toward(s, m)
  BY <1>3, <1>4, <1>8 DEF Toward, SameControl, Prompt, Responsive, Reachable
<1>13. QED
  BY <1>11, <1>12 DEF m, next

LEMMA CaseResolvesOwn ==
  ASSUME NEW r \in RunIds, SessionOk(sessions[r]), CaseResolves(r)
  PROVE  LocalStep(r)
<1> DEFINE s == sessions[r]
           run == RecordCaseCompleted(s.run, Workload[s.next])
           m == [s EXCEPT !.run = run, !.next = s.next + 1]
           n == CaseLoop(m)
<1>1. Local(r, n) /\ s.pc = "executing" /\ SessionOk(s)
  BY DEF CaseResolves
<1> HIDE DEF s
<1>2. run \in {RecordCaseFailed(s.run, Workload[s.next]),
               RecordCaseCompleted(s.run, Workload[s.next])}
  OBVIOUS
<1> HIDE DEF run
<1>3. Toward(s, m) /\ AtLoop(m)
  BY <1>1, <1>2, OutcomeToward DEF run
<1> HIDE DEF m
<1>4. s.pc \in Working
  BY <1>1 DEF Working
<1>5. OwnStep(s, n)
  BY <1>1, <1>3, <1>4, LoopOwn
<1> HIDE DEF n
<1>6. QED
  BY <1>1, <1>5, LocalOwn DEF s

\* A case fails, whatever the reason.
LEMMA CaseFailedOwn ==
  ASSUME NEW s, SessionOk(s), s.pc = "executing", NEW code
  PROVE  OwnStep(s, CaseFailed(s, code))
<1> DEFINE run == RecordCaseFailed(s.run, Workload[s.next])
           m == [s EXCEPT !.run = run, !.next = s.next + 1]
<1>1. CaseFailed(s, code)
        = IF code = Cancelled \/ s.cancellationRequested \/ s.aborted
          THEN Caught(s, Cancelled)
          ELSE IF code = "ENGINE_EXECUTION_FAILED"
          THEN Caught(m, code)
          ELSE CaseLoop(m)
  BY DEF CaseFailed
<1>2. run \in {RecordCaseFailed(s.run, Workload[s.next]),
               RecordCaseCompleted(s.run, Workload[s.next])}
  OBVIOUS
<1> HIDE DEF run
<1>3. Toward(s, m) /\ AtLoop(m)
  BY <1>2, OutcomeToward DEF run
<1> HIDE DEF m
<1>4. s.pc \in Working
  BY DEF Working
<1>5. CASE code = Cancelled \/ s.cancellationRequested \/ s.aborted
  <2>1. Toward(s, s) /\ SameWork(s, s)
    BY EngineStepRefl, EngineStepToward
  <2>2. EngineAt("persisting", s)
    BY SessionParts, EngineAtEnd
  <2>3. Cancelled \in Codes \cup {Cancelled}
    OBVIOUS
  <2>4. OwnStep(s, Caught(s, Cancelled))
    BY <1>4, <2>1, <2>2, <2>3, CaughtOwn
  <2>5. QED
    BY <1>1, <1>5, <2>4
<1>6. CASE /\ ~ (code = Cancelled \/ s.cancellationRequested \/ s.aborted)
           /\ code = "ENGINE_EXECUTION_FAILED"
  <2>1. Catchable(m) /\ code \in Codes \cup {Cancelled}
    BY <1>3, <1>6 DEF AtLoop, Codes
  <2>2. OwnStep(s, Caught(m, code))
    BY <1>3, <1>4, <2>1, CaughtProceeds, ProceedsOwn
  <2>3. QED
    BY <1>1, <1>6, <2>2
<1>7. CASE /\ ~ (code = Cancelled \/ s.cancellationRequested \/ s.aborted)
           /\ code # "ENGINE_EXECUTION_FAILED"
  <2>1. OwnStep(s, CaseLoop(m))
    BY <1>3, <1>4, LoopOwn
  <2>2. QED
    BY <1>1, <1>7, <2>1
<1>8. QED
  BY <1>5, <1>6, <1>7

LEMMA CaseFailureOwn ==
  ASSUME NEW r \in RunIds, SessionOk(sessions[r]),
         CaseTimer(r) \/ \E code : CaseRejects(r, code)
  PROVE  LocalStep(r)
<1>1. PICK code : Is(r, "executing") /\ Local(r, CaseFailed(sessions[r], code))
  BY DEF CaseTimer, CaseTimerArmed, CaseRejects
<1>2. OwnStep(sessions[r], CaseFailed(sessions[r], code))
  BY <1>1, CaseFailedOwn DEF Is
<1>3. QED
  BY <1>1, <1>2, LocalOwn

LEMMA MetricsSettleOwn ==
  ASSUME NEW r \in RunIds, SessionOk(sessions[r]), MetricsSettle(r)
  PROVE  LocalStep(r)
<1> DEFINE s == sessions[r]
           run == CompleteRun(s.run, Now)
           n == Persist([s EXCEPT !.pc = "persisting", !.run = run],
                        "orchestrator")
<1>1. Local(r, n) /\ s.pc = "metrics" /\ SessionOk(s)
  BY DEF MetricsSettle, Is
<1> HIDE DEF s
<1>2. /\ s \in Session /\ EngineAt("metrics", s)
      /\ Books("metrics", s.next, s.run)
      /\ WritesOk("metrics", s.run, s.writes)
  BY <1>1, SessionParts
<1>3. Len(Workload) \in Nat
  BY WorkloadParts
<1>4. s.next = Len(Workload) + 1 /\ Account(s.next - 1, s.run)
  BY <1>2 DEF Books
<1>5. s.next - 1 = Len(Workload) /\ s.next \in 1 .. Len(Workload) + 1
  BY <1>3, <1>4
<1>6. /\ RunMoves(s.run, run) /\ Closed(run)
      /\ run.completedCases = s.run.completedCases
  BY <1>4, <1>5, CompleteEnds
<1>7. Catchable(s)
  <2>1. EngineAt("persisting", s)
    BY <1>2, EngineForward
  <2>2. WritesOk("executing", s.run, s.writes)
    BY <1>2 DEF WritesOk
  <2>3. QED
    BY <1>2, <1>4, <1>5, <2>1, <2>2 DEF Catchable
<1> HIDE DEF run
<1>8. Proceeds(s, n)
  BY <1>6, <1>7, EndProceeds
<1> HIDE DEF n
<1>9. Toward(s, s)
  BY <1>1, EngineStepRefl, EngineStepToward
<1>10. OwnStep(s, n)
  BY <1>1, <1>8, <1>9, ProceedsOwn DEF Working
<1>11. QED
  BY <1>1, <1>10, LocalOwn DEF s

LEMMA ExecuteReturnsOwn ==
  ASSUME NEW r \in RunIds, SessionOk(sessions[r]), ExecuteReturns(r)
  PROVE  LocalStep(r)
<1> DEFINE s == sessions[r]
           n == [s EXCEPT !.pc = "done"]
<1>1. /\ Becomes(r, n) /\ s.pc = "stopping" /\ SessionOk(s)
      /\ UNCHANGED <<created, canceller, cancellation, awaiting, disk,
                     writeFailures>>
      /\ handles' = handles \ {r}
  BY DEF ExecuteReturns, FinalStopIsOver, Is, unchangedOutside,
         UnregisterEngineProcess
<1>2. \A q \in handles' : q \in handles
  BY <1>1
<1> HIDE DEF s
<1>3. /\ s \in Session /\ EngineAt("stopping", s) /\ s.run \in RunRecord
      /\ Books("stopping", s.next, s.run)
      /\ WritesOk("stopping", s.run, s.writes)
  BY <1>1, SessionParts
<1>4. /\ n \in Session /\ SameControl(n, s) /\ n.pc = "done"
      /\ n.run = s.run /\ n.next = s.next /\ n.writes = s.writes
  BY <1>3 DEF Session, SameControl
<1> HIDE DEF n
<1>5. EngineAt("done", n)
  <2>1. EngineAt("stopping", n)
    BY <1>3, <1>4, EngineFrame
  <2>2. QED
    BY <2>1 DEF EngineAt, Abandoned, Over
<1>6. Books("done", n.next, n.run) /\ WritesOk("done", n.run, n.writes)
  BY <1>3, <1>4 DEF Books, Before, Over, WritesOk
<1>7. SessionOk(n)
  BY <1>4, <1>5, <1>6 DEF SessionOk
<1>8. RunMoves(s.run, n.run)
  BY <1>3, <1>4 DEF RunMoves
<1>9. Onward(s, n)
  BY <1>1, <1>4, <1>7, <1>8 DEF Onward, SameControl, Over, Late
<1>10. OwnStep(s, n)
  BY <1>1, <1>4, <1>9 DEF OwnStep, SameControl, Prompt, Reachable, Responsive
<1>11. QED
  BY <1>1, <1>2, <1>10 DEF LocalStep, s

\* Every step of a run's own, but for the settling of its writes.
LEMMA OwnSteps ==
  ASSUME NEW r \in RunIds, SessionOk(sessions[r]),
         PluginStep(r) \/ Timers(r) \/ ExecuteReturns(r)
  PROVE  LocalStep(r)
<1>1. CASE PluginStep(r)
  <2> DEFINE builds == {"RUN_CASE_FAILED", Cancelled}
             starts == {"ENGINE_START_FAILED", Cancelled}
             cases  == {"ENGINE_EXECUTION_FAILED", "VALIDATION_PROMPT_TOO_LARGE",
                        Cancelled}
  <2>0. /\ \A code \in builds : code \in Codes \cup {Cancelled}
        /\ \A code \in starts : code \in Codes \cup {Cancelled}
    BY DEF Codes
  <2>1. CASE BuildResolves(r) \/ \E code \in builds : BuildRejects(r, code)
    BY <2>0, <2>1, BuildResolvesOwn, BuildRejectsOwn
  <2>2. CASE \E listens \in AbortListeners : StartResolves(r, listens)
    BY <2>2, StartResolvesOwn
  <2>3. CASE \E code \in starts : StartRejects(r, code) \/ ReadyRejects(r, code)
    BY <2>0, <2>3, StartRejectsOwn, ReadyRejectsOwn
  <2>4. CASE ReadyResolves(r) \/ ReadinessFails(r)
    BY <2>4, ReadyResolvesOwn, ReadinessFailsOwn
  <2>5. CASE EngineExits(r) \/ StopGivesUp(r)
    BY <2>5, EngineExitsOwn, StopGivesUpOwn
  <2>6. CASE CaseResolves(r)
    BY <2>6, CaseResolvesOwn
  <2>7. CASE \E code \in cases : CaseRejects(r, code)
    BY <2>7, CaseFailureOwn
  <2>8. CASE MetricsSettle(r)
    BY <2>8, MetricsSettleOwn
  <2>9. QED
    BY <1>1, <2>1, <2>2, <2>3, <2>4, <2>5, <2>6, <2>7, <2>8 DEF PluginStep
<1>2. CASE Timers(r)
  BY <1>2, DeadlinePassesOwn, RunTimerOwn, CaseFailureOwn, StopTimesOutOwn
     DEF Timers
<1>3. QED
  BY <1>1, <1>2, ExecuteReturnsOwn

-------------------------------------------------------------------------------
(***************************************************************************)
(* Part 5: the sessions together.                                          *)
(***************************************************************************)

\* Every step of the server but the creation of a run.
Advance ==
    /\ sessions' = [q \in RunIds |-> sessions'[q]]
    /\ \A q \in RunIds : Onward(sessions[q], sessions'[q])
    /\ \A q \in RunIds : q > created => sessions'[q] = NoSession
    /\ created' = created
    /\ canceller' \in 0 .. created
    /\ cancellation' \in RunIds \cup {NoOne}
    /\ disk' \in [RunIds -> RunResult \cup {NoResult}]
    /\ \A q \in handles' : q \in RunIds /\ sessions'[q].pc \in Late

\* Nothing has been written, and no run has finished persisting.
SameFiles ==
    /\ disk' = disk /\ writeFailures' = writeFailures
    /\ \A q \in RunIds : sessions'[q].pc \in {"stopping", "done"}
                            => sessions[q].pc \in {"stopping", "done"}

LEMMA OnwardTrans ==
  ASSUME NEW a, NEW b, NEW c, Onward(a, b), Onward(b, c)
  PROVE  Onward(a, c)
<1>1. RunMoves(a.run, c.run)
  BY MovesTrans DEF Onward
<1>2. QED
  BY <1>1 DEF Onward

\* A run that has ended does not change any more.
LEMMA EndedStays ==
  ASSUME NEW s, NEW n, Onward(s, n), SessionOk(s), s.pc \in Over
  PROVE  n.run = s.run
  BY DEF Onward, SessionOk, Books, Closed, RunMoves

LEMMA SameFilesKept ==
  ASSUME ServerInv, Advance, SameFiles
  PROVE  \A q \in RunIds : Kept(q)'
<1>1. ASSUME NEW q \in RunIds, sessions'[q].pc \in {"stopping", "done"}
      PROVE  disk'[q] = sessions'[q].run.result \/ q \in writeFailures'
  <2>1. sessions[q].pc \in {"stopping", "done"} /\ disk' = disk
        /\ writeFailures' = writeFailures
    BY <1>1 DEF SameFiles
  <2>2. SessionOk(sessions[q]) /\ Kept(q) /\ Onward(sessions[q], sessions'[q])
    BY DEF ServerInv, Advance
  <2>3. sessions'[q].run = sessions[q].run
    BY <2>1, <2>2, EndedStays DEF Over
  <2>4. QED
    BY <2>1, <2>2, <2>3 DEF Kept
<1>2. QED
  BY <1>1 DEF Kept

\* At most one run is active, and a step makes none active again.
LEMMA AdvanceActive ==
  ASSUME ServerInv, Advance
  PROVE  Active' \subseteq Active
<1>1. ASSUME NEW q \in RunIds, IsRunStatusCancellable(sessions'[q].run.status)
      PROVE  IsRunStatusCancellable(sessions[q].run.status)
  BY <1>1 DEF Advance, Onward, RunMoves, IsRunStatusCancellable
<1>2. QED
  BY <1>1 DEF Active

LEMMA AdvanceInv ==
  ASSUME ServerInv, Advance, \A q \in RunIds : Kept(q)'
  PROVE  ServerInv'
<1>1. ServerTypes'
  <2>1. \A q \in RunIds : sessions'[q] \in Session
    BY DEF Advance, Onward, SessionOk
  <2>2. sessions' \in [RunIds -> Session]
    BY <2>1 DEF Advance
  <2>3. created' \in 0 .. MaxRuns /\ canceller' \in 0 .. created'
    BY DEF ServerInv, ServerTypes, Advance
  <2>4. QED
    BY <2>2, <2>3 DEF ServerTypes, Advance
<1>2. \A q \in RunIds : SessionOk(sessions'[q])
  BY DEF Advance, Onward
<1>3. \A q \in RunIds : q > created' => sessions'[q] = NoSession
  BY DEF Advance
<1>4. handles' \in SUBSET RunIds /\ \A q \in handles' : sessions'[q].pc \in Late
  BY DEF Advance
<1>5. OneActive'
  BY AdvanceActive DEF ServerInv, OneActive
<1>6. QED
  BY <1>1, <1>2, <1>3, <1>4, <1>5 DEF ServerInv

LEMMA InvParts ==
  ASSUME ServerInv
  PROVE  /\ sessions \in [RunIds -> Session]
         /\ created \in Nat /\ created \in 0 .. MaxRuns /\ MaxRuns \in Nat
         /\ canceller \in 0 .. created
         /\ cancellation \in RunIds \cup {NoOne}
         /\ disk \in [RunIds -> RunResult \cup {NoResult}]
         /\ \A q \in RunIds : SessionOk(sessions[q]) /\ Kept(q)
         /\ \A q \in RunIds : q > created => sessions[q] = NoSession
         /\ \A q \in handles : q \in RunIds /\ sessions[q].pc \in Late
<1>1. MaxRuns \in Nat
  BY RunServerAssumption
<1>2. QED
  BY <1>1 DEF ServerInv, ServerTypes

LEMMA LocalAdvances ==
  ASSUME ServerInv, NEW r \in RunIds, LocalStep(r)
  PROVE  Advance /\ SameFiles
<1>1. PICK n : /\ OwnStep(sessions[r], n)
               /\ sessions' = [sessions EXCEPT ![r] = n]
               /\ UNCHANGED <<created, canceller, cancellation, awaiting, disk,
                              writeFailures>>
               /\ \A q \in handles' : \/ q \in handles
                                      \/ (q = r /\ n.pc \in Late)
  BY DEF LocalStep, Becomes
<1>2. /\ sessions \in [RunIds -> Session]
      /\ canceller \in 0 .. created
      /\ cancellation \in RunIds \cup {NoOne}
      /\ disk \in [RunIds -> RunResult \cup {NoResult}]
      /\ \A q \in RunIds : SessionOk(sessions[q])
      /\ \A q \in RunIds : q > created => sessions[q] = NoSession
      /\ \A q \in handles : q \in RunIds /\ sessions[q].pc \in Late
  BY InvParts
<1>3. /\ sessions'[r] = n
      /\ \A q \in RunIds \ {r} : sessions'[q] = sessions[q]
      /\ sessions' = [q \in RunIds |-> sessions'[q]]
  BY <1>1, <1>2
<1>4. \A q \in RunIds : Onward(sessions[q], sessions'[q])
  <2>1. Onward(sessions[r], n)
    BY <1>1 DEF OwnStep
  <2>2. \A q \in RunIds \ {r} : Onward(sessions[q], sessions[q])
    BY <1>2, OnwardRefl
  <2>3. QED
    BY <1>3, <2>1, <2>2
<1>5. \A q \in RunIds : q > created => sessions'[q] = NoSession
  <2>1. sessions[r] # NoSession
    BY <1>1 DEF OwnStep, NoSession
  <2>2. QED
    BY <1>2, <1>3, <2>1
<1>6. \A q \in handles' : q \in RunIds /\ sessions'[q].pc \in Late
  <2>1. ASSUME NEW q \in handles', q \in handles
        PROVE  q \in RunIds /\ sessions'[q].pc \in Late
    BY <1>2, <1>4, <2>1 DEF Onward
  <2>2. QED
    BY <1>1, <1>3, <2>1
<1>7. Advance
  BY <1>1, <1>2, <1>3, <1>4, <1>5, <1>6 DEF Advance
<1>8. SameFiles
  BY <1>1, <1>3 DEF SameFiles, OwnStep
<1>9. QED
  BY <1>7, <1>8

\* What the settling of a write does to its session.
LEMMA WriteOnward ==
  ASSUME NEW s, SessionOk(s), NEW writer \in Writers,
         s.writes[writer] # NoResult
  PROVE  LET after == [s EXCEPT !.writes[writer] = NoResult]
             n == IF writer = "orchestrator"
                  THEN [StopEngine(after, {"final"}) EXCEPT !.pc = "stopping"]
                  ELSE after
         IN  /\ Onward(s, n) /\ s.pc # "idle"
             /\ s.writes[writer] = s.run.result /\ n.run = s.run
             /\ writer = "orchestrator" => s.pc = "persisting"
             /\ writer = "route" => SameControl(n, s) /\ n.pc = s.pc
             /\ Prompt(s) => Prompt(n)
<1> DEFINE kept == [s.writes EXCEPT ![writer] = NoResult]
           after == [s EXCEPT !.writes = kept]
           b == StopEngine(after, {"final"})
           stopped == [b EXCEPT !.pc = "stopping"]
           n == IF writer = "orchestrator" THEN stopped ELSE after
<1>1. /\ s \in Session /\ s.run \in RunRecord /\ EngineAt(s.pc, s)
      /\ Books(s.pc, s.next, s.run) /\ WritesOk(s.pc, s.run, s.writes)
  BY SessionParts
<1>2. s.writes \in [Writers -> RunResult \cup {NoResult}]
  BY <1>1 DEF Session
<1>3. /\ kept \in [Writers -> RunResult \cup {NoResult}]
      /\ kept[writer] = NoResult
      /\ \A w \in Writers \ {writer} : kept[w] = s.writes[w]
  BY <1>2
<1> HIDE DEF kept
<1>4. /\ after \in Session /\ SameControl(after, s)
      /\ after.run = s.run /\ after.pc = s.pc /\ after.next = s.next
      /\ after.writes = kept
  BY <1>1, <1>3 DEF Session, SameControl
<1> HIDE DEF after
<1>5. s.writes[writer] = s.run.result
  BY <1>1 DEF WritesOk
<1>6. s.pc # "idle"
  BY <1>1 DEF WritesOk, Writers, Books, NoRun, IsRunStatusTerminal, Terminal
<1>7. RunMoves(s.run, s.run)
  BY <1>1 DEF RunMoves
<1>8. EngineAt(s.pc, after)
  BY <1>1, <1>4, EngineFrame
<1>9. CASE writer = "route"
  <2>1. WritesOk(s.pc, s.run, kept)
    BY <1>1, <1>3, <1>9 DEF WritesOk, Writers
  <2>2. SessionOk(after)
    BY <1>1, <1>4, <1>8, <2>1 DEF SessionOk
  <2>3. Onward(s, after) /\ (Prompt(s) => Prompt(after))
    BY <1>4, <1>7, <2>2 DEF Onward, SameControl, Prompt
  <2>4. n = after
    BY <1>9
  <2>5. QED
    BY <1>4, <1>5, <1>6, <1>9, <2>3, <2>4 DEF after, kept
<1>10. CASE writer = "orchestrator"
  <2>1. s.pc = "persisting"
    BY <1>1, <1>10 DEF WritesOk
  <2>2. {"final"} \in SUBSET Waiters
    BY DEF Waiters
  <2>3. Stops(after, {"final"}, b)
    BY <1>4, <2>2, StopEngineParts
  <2>4. /\ EngineAt("persisting", b)
        /\ b.engine.active => ~ b.engine.listening /\ Abandoned("persisting", b)
    BY <1>4, <1>8, <2>1, <2>2, StopEngineAt
  <2> HIDE DEF b
  <2>5. /\ b \in Session /\ b.run = s.run /\ b.next = s.next
        /\ b.writes = kept
        /\ b.cancellationRequested = s.cancellationRequested
        /\ b.aborted = s.aborted
        /\ b.engine.process = s.engine.process
        /\ Prompt(s) => Prompt(b)
    BY <1>4, <2>3 DEF Stops, SameWork, SameFlags, SameControl, Prompt
  <2>6. /\ stopped \in Session /\ SameControl(stopped, b)
        /\ stopped.pc = "stopping" /\ stopped.run = s.run
        /\ stopped.next = s.next /\ stopped.writes = kept
    BY <2>5 DEF Session, SameControl
  <2>7. n = stopped
    BY <1>10
  <2> HIDE DEF stopped
  <2>8. EngineAt("stopping", stopped)
    <3>1. EngineAt("stopping", b)
      BY <2>4 DEF EngineAt, Abandoned, Over
    <3>2. QED
      BY <2>5, <2>6, <3>1, EngineFrame
  <2>9. Books("stopping", s.next, s.run)
    BY <1>1, <2>1 DEF Books, Before, Over
  <2>10. WritesOk("stopping", s.run, kept)
    BY <1>1, <1>3, <1>10 DEF WritesOk, Writers
  <2>11. SessionOk(stopped)
    BY <2>6, <2>8, <2>9, <2>10 DEF SessionOk
  <2>12. Onward(s, stopped) /\ (Prompt(s) => Prompt(stopped))
    BY <1>7, <2>1, <2>5, <2>6, <2>11
       DEF Onward, SameControl, Prompt, Over, Late
  <2>13. QED
    BY <1>5, <1>6, <1>10, <2>1, <2>6, <2>7, <2>12 DEF stopped, b, after, kept
<1>11. QED
  BY <1>9, <1>10 DEF Writers

LEMMA WriteAdvances ==
  ASSUME ServerInv, NEW r \in RunIds, NEW writer \in Writers,
         NEW written \in BOOLEAN, WriteSettles(r, writer, written)
  PROVE  /\ Advance /\ \A q \in RunIds : Kept(q)'
         /\ canceller' # canceller => sessions[r].pc = "persisting"
                                      /\ canceller = r
         /\ \A q \in RunIds : Prompt(sessions[q]) => Prompt(sessions'[q])
         /\ \A q \in RunIds : sessions'[q].run = sessions[q].run
         /\ \A q \in RunIds : canceller' = q /\ Reachable(sessions[q])
                                 => Reachable(sessions'[q])
<1> DEFINE s == sessions[r]
           after == [s EXCEPT !.writes[writer] = NoResult]
           stopped == [StopEngine(after, {"final"}) EXCEPT !.pc = "stopping"]
           n == IF writer = "orchestrator" THEN stopped ELSE after
<1>1. /\ s.writes[writer] # NoResult
      /\ RecordWrite(r, s.writes[writer], written)
      /\ writer = "orchestrator" => Becomes(r, stopped) /\ UnregisterCanceller(r)
      /\ writer # "orchestrator" => Becomes(r, after) /\ canceller' = canceller
      /\ UNCHANGED <<cancellation, handles, created, awaiting>>
  BY DEF WriteSettles
<1>2. Becomes(r, n)
  BY <1>1
<1>3. SessionOk(s)
  BY InvParts
<1> HIDE DEF s
<1>4. /\ Onward(s, n) /\ s.pc # "idle"
      /\ s.writes[writer] = s.run.result /\ n.run = s.run
      /\ writer = "orchestrator" => s.pc = "persisting"
      /\ writer = "route" => SameControl(n, s) /\ n.pc = s.pc
      /\ Prompt(s) => Prompt(n)
  BY <1>1, <1>3, WriteOnward
<1> HIDE DEF n
<1>5. /\ sessions \in [RunIds -> Session] /\ created \in Nat
      /\ canceller \in 0 .. created
      /\ cancellation \in RunIds \cup {NoOne}
      /\ disk \in [RunIds -> RunResult \cup {NoResult}]
      /\ \A q \in RunIds : SessionOk(sessions[q]) /\ Kept(q)
      /\ \A q \in RunIds : q > created => sessions[q] = NoSession
      /\ \A q \in handles : q \in RunIds /\ sessions[q].pc \in Late
  BY InvParts
<1>6. /\ sessions'[r] = n
      /\ \A q \in RunIds \ {r} : sessions'[q] = sessions[q]
      /\ sessions' = [q \in RunIds |-> sessions'[q]]
  BY <1>2, <1>5 DEF Becomes
<1>7. \A q \in RunIds : Onward(sessions[q], sessions'[q])
  <2>1. \A q \in RunIds \ {r} : Onward(sessions[q], sessions[q])
    BY <1>5, OnwardRefl
  <2>2. QED
    BY <1>4, <1>6, <2>1 DEF s
<1>8. \A q \in RunIds : q > created => sessions'[q] = NoSession
  <2>1. s # NoSession
    BY <1>4 DEF NoSession
  <2>2. QED
    BY <1>5, <1>6, <2>1 DEF s
<1>9. \A q \in handles' : q \in RunIds /\ sessions'[q].pc \in Late
  BY <1>1, <1>5, <1>7 DEF Onward
<1>10. /\ canceller' \in 0 .. created
       /\ canceller' # canceller => /\ writer = "orchestrator"
                                    /\ canceller = r /\ canceller' = NoOne
  BY <1>1, <1>5 DEF UnregisterCanceller, NoOne
<1>11. /\ disk' = IF written THEN [disk EXCEPT ![r] = s.run.result] ELSE disk
       /\ writeFailures' = IF written THEN writeFailures \ {r}
                                      ELSE writeFailures \cup {r}
  BY <1>1, <1>4 DEF RecordWrite
<1>12. s.run.result \in RunResult \cup {NoResult}
  BY <1>3 DEF SessionOk, Session, RunRecord
<1>13. disk' \in [RunIds -> RunResult \cup {NoResult}]
  BY <1>5, <1>11, <1>12
<1>14. Advance
  BY <1>1, <1>5, <1>6, <1>7, <1>8, <1>9, <1>10, <1>13 DEF Advance
<1>15. ASSUME NEW q \in RunIds, sessions'[q].pc \in {"stopping", "done"}
       PROVE  disk'[q] = sessions'[q].run.result \/ q \in writeFailures'
  <2>1. CASE q = r
    BY <1>4, <1>5, <1>6, <1>11, <2>1
  <2>2. CASE q # r
    <3>1. sessions'[q] = sessions[q] /\ Kept(q)
      BY <1>5, <1>6, <2>2
    <3>2. disk'[q] = disk[q] /\ (q \in writeFailures <=> q \in writeFailures')
      BY <1>5, <1>11, <2>2
    <3>3. QED
      BY <1>15, <3>1, <3>2 DEF Kept
  <2>3. QED
    BY <2>1, <2>2
<1>16. \A q \in RunIds : Kept(q)'
  BY <1>15 DEF Kept
<1>17. \A q \in RunIds : Prompt(sessions[q]) => Prompt(sessions'[q])
  BY <1>4, <1>6 DEF s
<1>18. \A q \in RunIds : sessions'[q].run = sessions[q].run
  BY <1>4, <1>6 DEF s
<1>19. ASSUME NEW q \in RunIds, canceller' = q, Reachable(sessions[q])
       PROVE  Reachable(sessions'[q])
  <2>1. CASE q # r
    BY <1>6, <1>19, <2>1
  <2>2. CASE q = r
    <3>1. writer = "route"
      <4>1. SUFFICES ASSUME writer = "orchestrator" PROVE FALSE
        BY DEF Writers
      <4>2. canceller' = NoOne \/ canceller' # r
        BY <1>1, <4>1 DEF UnregisterCanceller
      <4>3. QED
        BY <1>19, <2>2, <4>2 DEF RunIds, NoOne
    <3>2. QED
      BY <1>4, <1>6, <1>19, <2>2, <3>1
         DEF Reachable, Responsive, SameControl, s
  <2>3. QED
    BY <2>1, <2>2
<1>20. canceller' # canceller => sessions[r].pc = "persisting" /\ canceller = r
  BY <1>4, <1>10 DEF s
<1>21. QED
  BY <1>14, <1>16, <1>17, <1>18, <1>19, <1>20

\* Calling the active run's canceller.
LEMMA AfterCancellerParts ==
  ASSUME ServerInv
  PROVE  /\ AfterCanceller = [q \in RunIds |-> AfterCanceller[q]]
         /\ \A q \in RunIds : /\ Onward(sessions[q], AfterCanceller[q])
                              /\ AfterCanceller[q].pc = sessions[q].pc
                              /\ AfterCanceller[q].run = sessions[q].run
         /\ \A q \in RunIds : q > created => AfterCanceller[q] = NoSession
         /\ \A q \in RunIds : q # canceller => AfterCanceller[q] = sessions[q]
         /\ CallsCanceller => /\ canceller \in RunIds
                              /\ AfterCanceller[canceller]
                                    = CancelSession(sessions[canceller])
         /\ ~ CallsCanceller => AfterCanceller = sessions
<1>1. /\ sessions \in [RunIds -> Session] /\ created \in Nat
      /\ created \in 0 .. MaxRuns /\ MaxRuns \in Nat
      /\ canceller \in 0 .. created
      /\ \A q \in RunIds : SessionOk(sessions[q])
      /\ \A q \in RunIds : q > created => sessions[q] = NoSession
  BY InvParts
<1>2. ASSUME NEW q \in RunIds
      PROVE  /\ Onward(sessions[q], sessions[q])
             /\ sessions[q].pc = sessions[q].pc
             /\ sessions[q].run = sessions[q].run
  BY <1>1, OnwardRefl
<1>3. CASE CallsCanceller
  <2> DEFINE n == CancelSession(sessions[canceller])
  <2>1. canceller \in RunIds
    BY <1>1, <1>3 DEF CallsCanceller, NoOne, RunIds
  <2>2. /\ Onward(sessions[canceller], n)
        /\ n.run = sessions[canceller].run /\ n.pc = sessions[canceller].pc
    BY <1>1, <2>1, CancelSessionParts
  <2>3. AfterCanceller = [sessions EXCEPT ![canceller] = n]
    BY <1>3 DEF AfterCanceller
  <2> HIDE DEF n
  <2>4. /\ AfterCanceller[canceller] = n
        /\ \A q \in RunIds \ {canceller} : AfterCanceller[q] = sessions[q]
        /\ AfterCanceller = [q \in RunIds |-> AfterCanceller[q]]
    BY <1>1, <2>1, <2>3
  <2>5. \A q \in RunIds : /\ Onward(sessions[q], AfterCanceller[q])
                          /\ AfterCanceller[q].pc = sessions[q].pc
                          /\ AfterCanceller[q].run = sessions[q].run
    BY <1>2, <2>2, <2>4
  <2>6. \A q \in RunIds : q > created => AfterCanceller[q] = NoSession
    <3>1. ~ canceller > created
      BY <1>1
    <3>2. QED
      BY <1>1, <2>4, <3>1
  <2>7. QED
    BY <1>3, <2>1, <2>4, <2>5, <2>6 DEF n
<1>4. CASE ~ CallsCanceller
  <2>1. AfterCanceller = sessions
    BY <1>4 DEF AfterCanceller
  <2>2. QED
    BY <1>1, <1>2, <1>4, <2>1
<1>5. QED
  BY <1>3, <1>4

\* The control the cancellation of a run changes.
LEMMA BeginParts ==
  ASSUME ServerInv, BeginCancellation(CancellationWaits)
  PROVE  canceller' \in 0 .. created /\ cancellation' \in RunIds \cup {NoOne}
<1>1. /\ canceller \in 0 .. created /\ created \in Nat
      /\ cancellation \in RunIds \cup {NoOne}
      /\ created \in 0 .. MaxRuns /\ MaxRuns \in Nat
  BY InvParts
<1>2. CallsCanceller => canceller \in RunIds
  BY AfterCancellerParts
<1>3. QED
  BY <1>1, <1>2 DEF BeginCancellation, NoOne

LEMMA CancelledNoSession == CancelledByRoute(NoSession) = NoSession
<1>1. NoSession.run = NoRun /\ NoRun.status = "untracked"
  BY DEF NoSession, NoRun
<1>2. CancelRun(NoRun, Now) = NoRun
  BY <1>1 DEF CancelRun, IsRunStatusCancellable
<1>3. [NoSession EXCEPT !.run = NoRun] = NoSession
  <2> DEFINE s == NoSession
  <2>1. s \in Session /\ s.run = NoRun
    BY <1>1, NoSessionOk DEF SessionOk
  <2> HIDE DEF s
  <2>2. [s EXCEPT !.run = NoRun] = s
    BY <2>1 DEF Session
  <2>3. QED
    BY <2>2 DEF s
<1>4. QED
  BY <1>1, <1>2, <1>3 DEF CancelledByRoute

LEMMA CancelAdvances ==
  ASSUME ServerInv, NEW r \in RunIds, CancelRequest(r)
  PROVE  Advance /\ SameFiles
<1> DEFINE n == CancelledByRoute(AfterCanceller[r])
<1>1. /\ BeginCancellation(CancellationWaits)
      /\ IsRunStatusCancellable(sessions[r].run.status)
      /\ \/ sessions' = AfterCanceller
         \/ sessions' = [AfterCanceller EXCEPT ![r] = n]
      /\ UNCHANGED <<handles, created, disk, writeFailures>>
  BY DEF CancelRequest, Active
<1>2. /\ AfterCanceller = [q \in RunIds |-> AfterCanceller[q]]
      /\ \A q \in RunIds : /\ Onward(sessions[q], AfterCanceller[q])
                           /\ AfterCanceller[q].pc = sessions[q].pc
                           /\ AfterCanceller[q].run = sessions[q].run
      /\ \A q \in RunIds : q > created => AfterCanceller[q] = NoSession
  BY AfterCancellerParts
<1>3. SessionOk(AfterCanceller[r])
  BY <1>2 DEF Onward
<1> HIDE DEF AfterCanceller
<1>4. Onward(AfterCanceller[r], n) /\ n.pc = AfterCanceller[r].pc
  BY <1>3, CancelledByRouteParts
<1>5. Onward(sessions[r], n) /\ n.pc = sessions[r].pc
  BY <1>2, <1>4, OnwardTrans
<1> HIDE DEF n
<1>6. ~ r > created
  <2>1. NoSession.run = NoRun /\ NoRun.status = "untracked"
    BY DEF NoSession, NoRun
  <2>2. QED
    BY <1>1, <2>1, InvParts DEF IsRunStatusCancellable
<1>7. /\ sessions' = [q \in RunIds |-> sessions'[q]]
      /\ \A q \in RunIds : sessions'[q] = AfterCanceller[q]
                           \/ (q = r /\ sessions'[q] = n)
  <2>1. CASE sessions' = AfterCanceller
    BY <1>2, <2>1
  <2>2. CASE sessions' = [AfterCanceller EXCEPT ![r] = n]
    BY <1>2, <2>2
  <2>3. QED
    BY <1>1, <2>1, <2>2
<1>8. \A q \in RunIds : /\ Onward(sessions[q], sessions'[q])
                        /\ sessions'[q].pc = sessions[q].pc
                        /\ q > created => sessions'[q] = NoSession
  BY <1>2, <1>5, <1>6, <1>7
<1>9. /\ \A q \in handles : q \in RunIds /\ sessions[q].pc \in Late
      /\ disk \in [RunIds -> RunResult \cup {NoResult}]
  BY InvParts
<1>10. canceller' \in 0 .. created /\ cancellation' \in RunIds \cup {NoOne}
  BY <1>1, BeginParts
<1>11. Advance
  BY <1>1, <1>7, <1>8, <1>9, <1>10 DEF Advance
<1>12. SameFiles
  BY <1>1, <1>8 DEF SameFiles
<1>13. QED
  BY <1>11, <1>12

LEMMA SettlesAdvances ==
  ASSUME ServerInv, CancellationSettles
  PROVE  Advance /\ SameFiles
<1>1. /\ sessions' = [q \in RunIds |-> IF q \in awaiting
                                       THEN CancelledByRoute(sessions[q])
                                       ELSE sessions[q]]
      /\ EndCancellation
      /\ UNCHANGED <<handles, created, disk, writeFailures>>
  BY DEF CancellationSettles
<1>2. /\ created \in 0 .. MaxRuns /\ MaxRuns \in Nat
      /\ canceller \in 0 .. created
      /\ \A q \in RunIds : SessionOk(sessions[q])
      /\ \A q \in RunIds : q > created => sessions[q] = NoSession
      /\ \A q \in handles : q \in RunIds /\ sessions[q].pc \in Late
      /\ disk \in [RunIds -> RunResult \cup {NoResult}]
  BY InvParts
<1>3. ASSUME NEW q \in RunIds
      PROVE  /\ Onward(sessions[q], sessions'[q])
             /\ sessions'[q].pc = sessions[q].pc
             /\ q > created => sessions'[q] = NoSession
  <2>1. CASE q \in awaiting
    <3>1. sessions'[q] = CancelledByRoute(sessions[q])
      BY <1>1, <2>1
    <3>2. Onward(sessions[q], sessions'[q]) /\ sessions'[q].pc = sessions[q].pc
      BY <1>2, <3>1, CancelledByRouteParts
    <3>3. q > created => sessions'[q] = NoSession
      BY <1>2, <3>1, CancelledNoSession
    <3>4. QED
      BY <3>2, <3>3
  <2>2. CASE q \notin awaiting
    BY <1>1, <1>2, <2>2, OnwardRefl
  <2>3. QED
    BY <2>1, <2>2
<1>4. sessions' = [q \in RunIds |-> sessions'[q]]
  BY <1>1
<1>5. canceller' \in 0 .. created /\ cancellation' \in RunIds \cup {NoOne}
  BY <1>1, <1>2 DEF EndCancellation, UnregisterCanceller, NoOne
<1>6. Advance
  BY <1>1, <1>2, <1>3, <1>4, <1>5 DEF Advance, Onward
<1>7. SameFiles
  BY <1>1, <1>3 DEF SameFiles
<1>8. QED
  BY <1>6, <1>7

\* A shutdown's stop of an engine, on top of the cancellation.
LEMMA CleanupOnward ==
  ASSUME NEW s, SessionOk(s), s.pc \in Late
  PROVE  LET n == StopEngine(s, {"cleanup"})
         IN  /\ Onward(s, n) /\ n.pc = s.pc /\ n.run = s.run
             /\ n.cancellationRequested = s.cancellationRequested
             /\ Prompt(s) => Prompt(n)
<1> DEFINE n == StopEngine(s, {"cleanup"})
<1>1. s \in Session /\ EngineAt(s.pc, s) /\ s.run \in RunRecord
  BY SessionParts
<1>2. {"cleanup"} \in SUBSET Waiters
  BY DEF Waiters
<1>3. s.pc # "starting"
  BY DEF Late, Over
<1>4. Stops(s, {"cleanup"}, n) /\ EngineAt(s.pc, n)
  BY <1>1, <1>2, <1>3, StopEngineParts, StopEngineAt
<1> HIDE DEF n
<1>5. n \in Session /\ SameWork(n, s) /\ SameFlags(n, s)
      /\ n.aborted = s.aborted /\ (Prompt(s) => Prompt(n))
  BY <1>4 DEF Stops
<1>6. SessionOk(n)
  BY <1>4, <1>5, SameWorkOk
<1>7. RunMoves(s.run, n.run)
  BY <1>1, <1>5 DEF RunMoves, SameWork
<1>8. Onward(s, n)
  BY <1>5, <1>6, <1>7 DEF Onward, SameWork, SameFlags
<1>9. QED
  BY <1>5, <1>8 DEF n, SameWork, SameFlags

LEMMA StopAdvances ==
  ASSUME ServerInv, StopServer
  PROVE  Advance /\ SameFiles
<1>1. /\ BeginCancellation(CancellationWaits)
      /\ sessions' = [q \in RunIds |->
                        IF q \in handles
                        THEN StopEngine(AfterCanceller[q], {"cleanup"})
                        ELSE AfterCanceller[q]]
      /\ handles' = {}
      /\ UNCHANGED <<created, disk, writeFailures>>
  BY DEF StopServer
<1>2. \A q \in RunIds : /\ Onward(sessions[q], AfterCanceller[q])
                        /\ AfterCanceller[q].pc = sessions[q].pc
                        /\ q > created => AfterCanceller[q] = NoSession
  BY AfterCancellerParts
<1> HIDE DEF AfterCanceller
<1>3. /\ \A q \in handles : q \in RunIds /\ sessions[q].pc \in Late
      /\ disk \in [RunIds -> RunResult \cup {NoResult}]
  BY InvParts
<1>4. ASSUME NEW q \in RunIds
      PROVE  /\ Onward(sessions[q], sessions'[q])
             /\ sessions'[q].pc = sessions[q].pc
             /\ q > created => sessions'[q] = NoSession
  <2>1. CASE q \in handles
    <3>1. sessions'[q] = StopEngine(AfterCanceller[q], {"cleanup"})
      BY <1>1, <2>1
    <3>2. SessionOk(AfterCanceller[q]) /\ AfterCanceller[q].pc \in Late
      BY <1>2, <1>3, <2>1 DEF Onward
    <3>3. /\ Onward(AfterCanceller[q], sessions'[q])
          /\ sessions'[q].pc = AfterCanceller[q].pc
      BY <3>1, <3>2, CleanupOnward
    <3>4. Onward(sessions[q], sessions'[q]) /\ sessions'[q].pc = sessions[q].pc
      BY <1>2, <3>3, OnwardTrans
    <3>5. ~ q > created
      BY <1>2, <3>2 DEF NoSession, Late, Over
    <3>6. QED
      BY <3>4, <3>5
  <2>2. CASE q \notin handles
    BY <1>1, <1>2, <2>2
  <2>3. QED
    BY <2>1, <2>2
<1>5. sessions' = [q \in RunIds |-> sessions'[q]]
  BY <1>1
<1>6. canceller' \in 0 .. created /\ cancellation' \in RunIds \cup {NoOne}
  BY <1>1, BeginParts
<1>7. Advance
  BY <1>1, <1>3, <1>4, <1>5, <1>6 DEF Advance
<1>8. SameFiles
  BY <1>1, <1>4 DEF SameFiles
<1>9. QED
  BY <1>7, <1>8

\* What leaves the sessions, the control and the files alone.
LEMMA QuietAdvances ==
  ASSUME ServerInv,
         UNCHANGED <<sessions, created, canceller, cancellation, handles,
                     disk, writeFailures>>
  PROVE  Advance /\ SameFiles
<1>1. /\ sessions \in [RunIds -> Session] /\ canceller \in 0 .. created
      /\ cancellation \in RunIds \cup {NoOne}
      /\ \A q \in RunIds : SessionOk(sessions[q])
      /\ \A q \in RunIds : q > created => sessions[q] = NoSession
      /\ \A q \in handles : q \in RunIds /\ sessions[q].pc \in Late
      /\ disk \in [RunIds -> RunResult \cup {NoResult}]
  BY InvParts
<1>2. /\ sessions' = sessions /\ created' = created /\ canceller' = canceller
      /\ cancellation' = cancellation /\ handles' = handles
      /\ disk' = disk /\ writeFailures' = writeFailures
  OBVIOUS
<1>3. \A q \in RunIds : Onward(sessions[q], sessions[q])
  BY <1>1, OnwardRefl
<1>4. sessions' = [q \in RunIds |-> sessions'[q]]
  BY <1>1, <1>2
<1>5. QED
  BY <1>1, <1>2, <1>3, <1>4 DEF Advance, SameFiles

\* Every step moves the sessions on, or creates a run.
Moves == Advance /\ \A q \in RunIds : Kept(q)'

Creates == CreateRun /\ Active = {}

LEMMA MovesOrCreates ==
  ASSUME ServerInv, [Next]_vars
  PROVE  Moves \/ Creates
<1>1. ASSUME Advance, SameFiles PROVE Moves
  BY <1>1, SameFilesKept DEF Moves
<1>2. ASSUME NEW r \in RunIds, LocalStep(r) PROVE Moves
  BY <1>1, <1>2, LocalAdvances
<1>3. \A r \in RunIds : SessionOk(sessions[r])
  BY InvParts
<1>4. CASE Microtask
  <2>1. CASE CancellationSettles
    BY <1>1, <2>1, SettlesAdvances
  <2>2. CASE \E r \in RunIds : ExecuteReturns(r)
    BY <1>2, <1>3, <2>2, OwnSteps
  <2>3. QED
    BY <1>4, <2>1, <2>2 DEF Microtask
<1>5. CASE Macrotask
  <2>1. CASE PostRun \/ ServerStops
    <3>1. UNCHANGED <<sessions, created, canceller, cancellation, handles,
                      disk, writeFailures>>
      BY <2>1 DEF PostRun, ServerStops, controlVars
    <3>2. QED
      BY <1>1, <3>1, QuietAdvances
  <2>2. CASE CreateRun
    <3>1. CASE Active # {}
      <4>1. UNCHANGED <<sessions, created, canceller, cancellation, handles,
                        disk, writeFailures>>
        BY <2>2, <3>1 DEF CreateRun
      <4>2. QED
        BY <1>1, <4>1, QuietAdvances
    <3>2. QED
      BY <2>2, <3>1 DEF Creates
  <2>3. CASE StopServer
    BY <1>1, <2>3, StopAdvances
  <2>4. CASE \E r \in RunIds : CancelRequest(r)
    BY <1>1, <2>4, CancelAdvances
  <2>5. CASE \E r \in RunIds : PluginStep(r) \/ Timers(r)
    BY <1>2, <1>3, <2>5, OwnSteps
  <2>6. CASE \E r \in RunIds : Write(r)
    BY <2>6, WriteAdvances DEF Write, Moves
  <2>7. QED
    BY <1>5, <2>1, <2>2, <2>3, <2>4, <2>5, <2>6 DEF Macrotask
<1>6. CASE UNCHANGED vars
  <2>1. UNCHANGED <<sessions, created, canceller, cancellation, handles,
                    disk, writeFailures>>
    BY <1>6 DEF vars, controlVars
  <2>2. QED
    BY <1>1, <2>1, QuietAdvances
<1>7. QED
  BY <1>4, <1>5, <1>6 DEF Next

\* The session of a run that has just been created.
LEMMA NewSession ==
  LET new == [NoSession EXCEPT !.run = QueuedRun(Len(Workload)),
                               !.pc = "building"]
  IN  /\ SessionOk(new) /\ new.pc = "building" /\ new.run.status = "queued"
      /\ new.stopWaiters = {} /\ new.engineStop = "idle"
      /\ new.engine = NoEngine
<1> DEFINE run == QueuedRun(Len(Workload))
           s == NoSession
           new == [s EXCEPT !.run = run, !.pc = "building"]
<1>1. Len(Workload) \in Nat
  BY WorkloadParts
<1>2. /\ run \in RunRecord /\ run.status = "queued"
      /\ run.caseOutcomes = <<>> /\ run.completedCases = 0
  BY <1>1, QueuedReport
<1> HIDE DEF run
<1>3. Account(0, run)
  <2>1. /\ Reported(run) \in Seq(CaseIds) /\ Len(Reported(run)) = 0
    BY <1>2, ReportedType
  <2>2. Reported(run) = <<>>
    BY <2>1, EmptySeq
  <2>3. SubSeq(Workload, 1, 0) = <<>>
    BY WorkloadParts
  <2>4. 0 \in 0 .. Len(Workload)
    BY <1>1
  <2>5. QED
    BY <1>2, <2>2, <2>3, <2>4 DEF Account
<1>4. s \in Session
  BY NoSessionOk DEF SessionOk
<1>5. /\ s.next = 1 /\ s.engine = NoEngine /\ s.engineContext = FALSE
      /\ s.engineStop = "idle" /\ s.stopWaiters = {}
      /\ s.writes = [w \in Writers |-> NoResult]
  BY DEF NoSession
<1> HIDE DEF s
<1>6. /\ new \in Session /\ new.run = run /\ new.pc = "building"
      /\ new.next = 1 /\ new.engine = NoEngine
      /\ new.engineContext = FALSE /\ new.engineStop = "idle"
      /\ new.stopWaiters = {} /\ new.writes = [w \in Writers |-> NoResult]
  BY <1>2, <1>4, <1>5 DEF Session
<1> HIDE DEF new
<1>7. EngineAt("building", new)
  BY <1>6 DEF EngineAt, NoEngine
<1>8. Books("building", new.next, new.run)
  BY <1>2, <1>3, <1>6 DEF Books, Before, Over
<1>9. WritesOk("building", new.run, new.writes)
  BY <1>6 DEF WritesOk, Writers
<1>10. SessionOk(new)
  BY <1>6, <1>7, <1>8, <1>9 DEF SessionOk
<1>11. QED
  BY <1>2, <1>6, <1>10 DEF new, s, run

LEMMA CreatesParts ==
  ASSUME ServerInv, Creates
  PROVE  /\ created + 1 \in RunIds /\ created' = created + 1
         /\ canceller' = created + 1
         /\ UNCHANGED <<cancellation, awaiting, handles, disk, writeFailures>>
         /\ sessions' = [q \in RunIds |-> sessions'[q]]
         /\ sessions[created + 1] = NoSession
         /\ \A q \in RunIds \ {created + 1} : sessions'[q] = sessions[q]
         /\ LET new == sessions'[created + 1]
            IN  /\ SessionOk(new) /\ new.pc = "building"
                /\ new.run.status = "queued" /\ new.stopWaiters = {}
                /\ new.engineStop = "idle" /\ new.engine = NoEngine
<1> DEFINE new == [NoSession EXCEPT !.run = QueuedRun(Len(Workload)),
                                    !.pc = "building"]
<1>1. /\ created < MaxRuns /\ created' = created + 1
      /\ sessions' = [sessions EXCEPT ![created + 1] = new]
      /\ canceller' = created + 1
      /\ UNCHANGED <<cancellation, awaiting, handles, disk, writeFailures>>
  BY DEF Creates, CreateRun, Becomes, SetActiveRunCanceller
<1>2. /\ SessionOk(new) /\ new.pc = "building"
      /\ new.run.status = "queued" /\ new.stopWaiters = {}
      /\ new.engineStop = "idle" /\ new.engine = NoEngine
  BY NewSession
<1> HIDE DEF new
<1>3. /\ sessions \in [RunIds -> Session] /\ created \in Nat /\ MaxRuns \in Nat
      /\ \A q \in RunIds : q > created => sessions[q] = NoSession
  BY InvParts
<1>4. created + 1 \in RunIds /\ created + 1 > created
  BY <1>1, <1>3 DEF RunIds
<1>5. sessions[created + 1] = NoSession
  BY <1>3, <1>4
<1>6. QED
  BY <1>1, <1>2, <1>3, <1>4, <1>5

LEMMA CreatesInv ==
  ASSUME ServerInv, Creates
  PROVE  ServerInv'
<1> DEFINE c == created + 1
<1>1. /\ c \in RunIds /\ created' = c /\ canceller' = c
      /\ cancellation' = cancellation /\ handles' = handles
      /\ disk' = disk /\ writeFailures' = writeFailures
      /\ sessions' = [q \in RunIds |-> sessions'[q]]
      /\ sessions[c] = NoSession
      /\ \A q \in RunIds \ {c} : sessions'[q] = sessions[q]
      /\ SessionOk(sessions'[c]) /\ sessions'[c].pc = "building"
  BY CreatesParts
<1>2. /\ created \in Nat /\ created \in 0 .. MaxRuns /\ MaxRuns \in Nat
      /\ cancellation \in RunIds \cup {NoOne}
      /\ disk \in [RunIds -> RunResult \cup {NoResult}]
      /\ \A q \in RunIds : SessionOk(sessions[q]) /\ Kept(q)
      /\ \A q \in RunIds : q > created => sessions[q] = NoSession
      /\ \A q \in handles : q \in RunIds /\ sessions[q].pc \in Late
  BY InvParts
<1>3. c \in 0 .. MaxRuns /\ c \in 0 .. c /\ c > created
  BY <1>1, <1>2 DEF RunIds
<1>4. \A q \in RunIds : q > c => q > created /\ q # c
  BY <1>2 DEF RunIds
<1> HIDE DEF c
<1>5. \A q \in RunIds : SessionOk(sessions'[q])
  BY <1>1, <1>2
<1>6. ServerTypes'
  <2>1. \A q \in RunIds : sessions'[q] \in Session
    BY <1>5 DEF SessionOk
  <2>2. sessions' \in [RunIds -> Session]
    BY <1>1, <2>1
  <2>3. created' \in 0 .. MaxRuns /\ canceller' \in 0 .. created'
    BY <1>1, <1>3
  <2>4. QED
    BY <1>1, <1>2, <2>2, <2>3 DEF ServerTypes
<1>7. \A q \in RunIds : q > created' => sessions'[q] = NoSession
  BY <1>1, <1>2, <1>4
<1>8. \A q \in RunIds : Kept(q)'
  <2>1. ASSUME NEW q \in RunIds, sessions'[q].pc \in {"stopping", "done"}
        PROVE  disk'[q] = sessions'[q].run.result \/ q \in writeFailures'
    <3>1. q # c
      BY <1>1, <2>1
    <3>2. sessions'[q] = sessions[q] /\ Kept(q)
      BY <1>1, <1>2, <3>1
    <3>3. QED
      BY <1>1, <2>1, <3>2 DEF Kept
  <2>2. QED
    BY <2>1 DEF Kept
<1>9. handles' \in SUBSET RunIds /\ \A q \in handles' : sessions'[q].pc \in Late
  <2>1. c \notin handles
    BY <1>1, <1>2 DEF NoSession, Late, Over
  <2>2. QED
    BY <1>1, <1>2, <2>1
<1>10. OneActive'
  <2>1. ASSUME NEW q \in RunIds, q # c
        PROVE  ~ IsRunStatusCancellable(sessions'[q].run.status)
    <3>1. q \notin Active
      BY DEF Creates
    <3>2. QED
      BY <1>1, <2>1, <3>1 DEF Active
  <2>2. QED
    BY <2>1 DEF OneActive, Active
<1>11. QED
  BY <1>5, <1>6, <1>7, <1>8, <1>9, <1>10 DEF ServerInv

LEMMA InitServerInv == Init => ServerInv
<1> SUFFICES ASSUME Init PROVE ServerInv
  OBVIOUS
<1>1. /\ sessions = [r \in RunIds |-> NoSession] /\ created = 0
      /\ canceller = NoOne /\ cancellation = NoOne /\ handles = {}
      /\ disk = [r \in RunIds |-> NoResult] /\ MaxRuns \in Nat
  BY RunServerAssumption DEF Init, ControlInit
<1>2. SessionOk(NoSession) /\ NoSession \in Session
  BY NoSessionOk DEF SessionOk
<1>3. ServerTypes
  BY <1>1, <1>2 DEF ServerTypes, NoOne
<1>4. \A r \in RunIds : SessionOk(sessions[r]) /\ Kept(r)
  <2>1. NoSession.pc = "idle"
    BY DEF NoSession
  <2>2. QED
    BY <1>1, <1>2, <2>1 DEF Kept
<1>5. Active = {}
  <2>1. NoSession.run = NoRun /\ NoRun.status = "untracked"
    BY DEF NoSession, NoRun
  <2>2. QED
    BY <1>1, <2>1 DEF Active, IsRunStatusCancellable
<1>6. QED
  BY <1>1, <1>3, <1>4, <1>5 DEF ServerInv, OneActive

LEMMA ServerInductive == ServerInv /\ [Next]_vars => ServerInv'
<1> SUFFICES ASSUME ServerInv, [Next]_vars PROVE ServerInv'
  OBVIOUS
<1>1. Moves \/ Creates
  BY MovesOrCreates
<1>2. QED
  BY <1>1, AdvanceInv, CreatesInv DEF Moves

\* The invariant of the server, for plugins that listen and plugins that do
\* not: every session's report, engine and writes agree with where execute()
\* is, what execute() has finished persisting is kept, and at most one run is
\* active.
THEOREM ServerInvariant == Spec => []ServerInv
  BY InitServerInv, ServerInductive, PTL DEF Spec

-------------------------------------------------------------------------------
(***************************************************************************)
(* Part 6: what the invariant says.                                        *)
(***************************************************************************)

\* However a run goes its outcomes follow the workload, and a run that ends
\* other than by cancellation reports every case once (run-orchestrator's
\* execute(), its catch and failRunWithRemainingCases).
THEOREM EveryCaseIsAccountedFor == Spec => []EveryCaseAccountedFor
<1>1. ServerInv => EveryCaseAccountedFor
  <2> SUFFICES ASSUME ServerInv, NEW r \in RunIds
               PROVE  LET run == sessions[r].run
                      IN  /\ IsPrefix(CasesOf(run), Workload)
                          /\ run.status \in {"completed", "failed"}
                                => CasesOf(run) = Workload
    BY DEF EveryCaseAccountedFor
  <2> DEFINE s == sessions[r]
  <2>1. Books(s.pc, s.next, s.run) /\ s \in Session
    BY InvParts, SessionParts
  <2>2. CasesOf(s.run) = Reported(s.run)
    BY DEF CasesOf, Reported
  <2> HIDE DEF s
  <2>3. Workload \in Seq(CaseIds) /\ Len(Workload) \in Nat
    BY WorkloadParts
  <2>4. CASE s.pc = "idle"
    <3>1. s.run.status = "untracked" /\ s.run.caseOutcomes = <<>>
          /\ s.run \in RunRecord
      BY <2>1, <2>4, NoRunType DEF Books, NoRun
    <3>2. Reported(s.run) \in Seq(CaseIds) /\ Len(Reported(s.run)) = 0
      BY <3>1, ReportedType
    <3>3. Reported(s.run) = <<>>
      BY <3>2, EmptySeq
    <3>4. SubSeq(Workload, 1, 0) = <<>>
      BY WorkloadParts
    <3>5. 0 \in 0 .. Len(Workload)
      BY <2>3
    <3>6. IsPrefix(Reported(s.run), Workload)
      BY <3>3, <3>4, <3>5, WorkloadParts
    <3>7. QED
      BY <2>2, <3>1, <3>6 DEF s
  <2>5. CASE s.pc \in Over
    <3>1. Closed(s.run)
      BY <2>1, <2>5 DEF Books
    <3>2. IsPrefix(Workload, Workload)
      <4>1. SubSeq(Workload, 1, Len(Workload)) = Workload
        BY WorkloadParts
      <4>2. Len(Workload) \in 0 .. Len(Workload)
        BY <2>3
      <4>3. QED
        BY <4>1, <4>2, WorkloadParts
    <3>3. QED
      BY <2>2, <3>1, <3>2 DEF Closed, s
  <2>6. CASE s.pc \notin Over /\ s.pc # "idle"
    <3>1. \E k : Account(k, s.run)
      BY <2>1, <2>6 DEF Books, Before, Over, Session
    <3>2. PICK k : Account(k, s.run)
      BY <3>1
    <3>3. k \in 0 .. Len(Workload)
      BY <3>2 DEF Account
    <3>4. IsPrefix(Reported(s.run), Workload)
      BY <3>2, <3>3, WorkloadParts DEF Account
    <3>5. s.run.status \notin {"completed", "failed"}
      BY <3>2 DEF Account
    <3>6. QED
      BY <2>2, <3>4, <3>5 DEF s
  <2>7. QED
    BY <2>4, <2>5, <2>6
<1>2. QED
  BY <1>1, ServerInvariant, PTL

\* Once execute() has returned, only a start() it stopped waiting for can have
\* left an engine behind (run-orchestrator's deadline around plugin.start()).
THEOREM OnlyAbandonedStartsLeak == Spec => []OnlyAnAbandonedStartOutlivesItsRun
<1>1. ServerInv => OnlyAnAbandonedStartOutlivesItsRun
  <2> SUFFICES ASSUME ServerInv, NEW r \in RunIds, Is(r, "done"),
                      sessions[r].engine.active
                         \/ sessions[r].engine.start = "pending"
               PROVE  LET s == sessions[r]
                      IN  /\ s.expired /\ s.aborted
                          /\ ~ s.engine.listening
                          /\ s.run.completedCases = 0
    BY DEF OnlyAnAbandonedStartOutlivesItsRun
  <2>1. EngineAt("done", sessions[r])
    BY InvParts, SessionParts DEF Is
  <2>2. QED
    BY <2>1 DEF EngineAt, Abandoned
<1>2. QED
  BY <1>1, ServerInvariant, PTL

\* When execute() has returned and nothing is being written, the run's result
\* is on disk as the store has it, or the failed write is on record
\* (RunArtifactStore.writeResult after completeRun, failRun or cancelRun).
THEOREM ResultsArePersistedOrFlagged == Spec => []PersistedOrFlagged
<1>1. ServerInv => PersistedOrFlagged
  BY InvParts DEF PersistedOrFlagged, Kept, Is
<1>2. QED
  BY <1>1, ServerInvariant, PTL

\* Once a run has been cancelled or has timed out no further case is started
\* for it and no engine is spawned (execute()'s checks of the signal, and
\* plugin.start()'s).
THEOREM AbortEndsTheWork == Spec => NoWorkAfterAbort
<1>1. ASSUME ServerInv, [Next]_vars, NEW r \in RunIds, sessions[r].aborted
      PROVE  /\ sessions'[r].pc = "executing"
                    => /\ Is(r, "executing")
                       /\ sessions'[r].next = sessions[r].next
             /\ sessions[r].engine.process = "none"
                    => sessions'[r].engine.process = "none"
  <2>1. CASE Moves
    BY <1>1, <2>1 DEF Moves, Advance, Onward, Is
  <2>2. CASE Creates
    <3>1. r # created + 1
      BY <1>1, <2>2, CreatesParts DEF NoSession
    <3>2. sessions'[r] = sessions[r]
      BY <1>1, <2>2, <3>1, CreatesParts
    <3>3. QED
      BY <3>2 DEF Is
  <2>3. QED
    BY <1>1, <2>1, <2>2, MovesOrCreates
<1>2. ServerInv /\ [Next]_vars
         => [\A r \in RunIds :
                sessions[r].aborted
                    => /\ sessions'[r].pc = "executing"
                            => /\ Is(r, "executing")
                               /\ sessions'[r].next = sessions[r].next
                       /\ sessions[r].engine.process = "none"
                            => sessions'[r].engine.process = "none"]_vars
  BY <1>1
<1>3. QED
  BY <1>2, ServerInvariant, PTL DEF Spec, NoWorkAfterAbort

-------------------------------------------------------------------------------
(***************************************************************************)
(* Part 7: the refinement.  A run moves as RunLifecycle allows because no  *)
(* other run is active while it does.                                      *)
(***************************************************************************)

LEMMA SameRunIds == Lifecycle!RunIds = RunIds
  BY DEF Lifecycle!RunIds, RunIds

LEMMA LifecycleInit == Init => Lifecycle!Init
<1> SUFFICES ASSUME Init PROVE Lifecycle!Init
  OBVIOUS
<1>1. sessions = [r \in RunIds |-> NoSession] /\ created = 0
  BY DEF Init
<1>2. NoSession.run.status = "untracked"
  BY DEF NoSession, NoRun
<1>3. QED
  BY <1>1, <1>2, SameRunIds DEF Lifecycle!Init

LEMMA LifecycleStep ==
  ASSUME ServerInv, [Next]_vars
  PROVE  [Lifecycle!Next]_(Lifecycle!vars)
<1> DEFINE S == [q \in RunIds |-> sessions[q].run.status]
           T == [q \in RunIds |-> sessions'[q].run.status]
<1>1. CASE Moves
  <2>1. \A q \in RunIds : RunMoves(sessions[q].run, sessions'[q].run)
    BY <1>1 DEF Moves, Advance, Onward
  <2>2. created' = created
    BY <1>1 DEF Moves, Advance
  <2>3. \A q \in RunIds \ Active :
            sessions'[q].run.status = sessions[q].run.status
    BY <2>1 DEF Active, RunMoves, IsRunStatusCancellable
  <2>4. CASE Active = {}
    <3>1. T = S
      BY <2>3, <2>4
    <3>2. QED
      BY <2>2, <3>1 DEF Lifecycle!vars
  <2>5. CASE Active # {}
    <3>1. PICK r : r \in Active
      BY <2>5
    <3>2. r \in RunIds /\ sessions[r].run.status \in {"queued", "running"}
      BY <3>1 DEF Active, IsRunStatusCancellable
    <3>3. \A q \in RunIds \ {r} :
              sessions'[q].run.status = sessions[q].run.status
      BY <2>3, <3>1 DEF ServerInv, OneActive
    <3> DEFINE how == sessions'[r].run.status
    <3>4. /\ T = [S EXCEPT ![r] = how] /\ S[r] = sessions[r].run.status
      BY <3>2, <3>3
    <3>5. /\ how \in Terminal \cup {"queued", "running"}
          /\ S[r] = "running" => how # "queued"
      <4>1. sessions'[r].run \in RunRecord
        BY <2>1, <3>2 DEF RunMoves
      <4>2. how \in Terminal \cup {"untracked", "queued", "running"}
        BY <4>1 DEF RunRecord
      <4>3. QED
        BY <2>1, <3>2, <3>4, <4>2 DEF RunMoves
    <3> HIDE DEF how
    <3>6. CASE how = S[r]
      <4>1. T = S
        BY <3>2, <3>4, <3>6
      <4>2. QED
        BY <2>2, <4>1 DEF Lifecycle!vars
    <3>7. CASE S[r] = "queued" /\ how = "running"
      <4>1. Lifecycle!Start(r)
        BY <2>2, <3>4, <3>7 DEF Lifecycle!Start
      <4>2. QED
        BY <3>2, <4>1, SameRunIds DEF Lifecycle!Next
    <3>8. CASE how \in Terminal
      <4>1. PICK h \in Terminal : h = how
        BY <3>8
      <4>2. Lifecycle!End(r, h)
        BY <2>2, <3>2, <3>4, <4>1 DEF Lifecycle!End, Lifecycle!Active
      <4>3. h \in Lifecycle!Ended /\ r \in Lifecycle!RunIds
        BY <3>2, SameRunIds DEF Lifecycle!Ended, Terminal
      <4>4. QED
        BY <4>2, <4>3 DEF Lifecycle!Next
    <3>9. QED
      BY <3>2, <3>4, <3>5, <3>6, <3>7, <3>8
  <2>6. QED
    BY <2>4, <2>5
<1>2. CASE Creates
  <2>1. /\ created + 1 \in RunIds /\ created' = created + 1
        /\ \A q \in RunIds \ {created + 1} : sessions'[q] = sessions[q]
        /\ sessions'[created + 1].run.status = "queued"
    BY <1>2, CreatesParts
  <2>2. T = [S EXCEPT ![created + 1] = "queued"]
    BY <2>1
  <2>3. \A q \in RunIds : sessions[q].run.status \notin {"queued", "running"}
    BY <1>2 DEF Creates, Active, IsRunStatusCancellable
  <2>4. created < MaxRuns
    BY <1>2 DEF Creates, CreateRun
  <2>5. Lifecycle!Forgotten({}) = S
    BY SameRunIds DEF Lifecycle!Forgotten
  <2>6. Lifecycle!Create({})
    BY <2>1, <2>2, <2>3, <2>4, <2>5, SameRunIds
       DEF Lifecycle!Create, Lifecycle!Active
  <2>7. {} \in Lifecycle!MayForget
    BY DEF Lifecycle!MayForget
  <2>8. QED
    BY <2>6, <2>7 DEF Lifecycle!Next
<1>3. QED
  BY <1>1, <1>2, MovesOrCreates

\* Seen through the statuses of its runs the server is RunLifecycle: one run
\* at a time, each ending once, whatever the orchestration, the routes and the
\* shutdown do.
THEOREM ServerImplementsLifecycle == Spec => ImplementsLifecycle
  BY LifecycleInit, LifecycleStep, ServerInvariant, PTL
     DEF Spec, ImplementsLifecycle, Lifecycle!Spec

-------------------------------------------------------------------------------
(***************************************************************************)
(* Part 8: with a plugin that listens to the abort signal, as llama.cpp    *)
(* does, nobody ever waits for a canceller, so that no cancel request ever *)
(* shares the cancellation of another run.                                 *)
(***************************************************************************)

Told(s) ==
    s.run.status = "cancelled" => s.cancellationRequested \/ s.pc \in Over

LEMMA ToldIsReached ==
  CancelReachesTheOrchestration <=> \A r \in RunIds : Told(sessions[r])
  BY DEF CancelReachesTheOrchestration, Told, Over

LEMMA ListenParts ==
  ASSUME ListenInv
  PROVE  /\ AbortListeners = {TRUE} /\ cancellation = NoOne /\ awaiting = {}
         /\ \A q \in RunIds : Prompt(sessions[q]) /\ Told(sessions[q])
         /\ \A q \in RunIds : canceller = q => Reachable(sessions[q])
         /\ \A q \in Active : canceller = q \/ sessions[q].cancellationRequested
  BY ToldIsReached DEF ListenInv

\* The same of the next state.
ListenNext ==
    /\ AbortListeners = {TRUE} /\ cancellation' = NoOne /\ awaiting' = {}
    /\ \A q \in RunIds : Prompt(sessions'[q]) /\ Told(sessions'[q])
    /\ \A q \in RunIds : canceller' = q => Reachable(sessions'[q])
    /\ \A q \in RunIds :
          IsRunStatusCancellable(sessions'[q].run.status)
             => canceller' = q \/ sessions'[q].cancellationRequested

LEMMA ListenPrimed == ASSUME ListenNext PROVE ListenInv'
  BY DEF ListenNext, ListenInv, Active, CancelReachesTheOrchestration, Told, Over

LEMMA LocalListens ==
  ASSUME ServerInv, ListenInv, NEW r \in RunIds, LocalStep(r)
  PROVE  ListenNext
<1>1. PICK n : /\ OwnStep(sessions[r], n)
               /\ sessions' = [sessions EXCEPT ![r] = n]
               /\ UNCHANGED <<canceller, cancellation, awaiting>>
  BY DEF LocalStep, Becomes
<1>2. sessions \in [RunIds -> Session]
  BY InvParts
<1>3. /\ sessions'[r] = n
      /\ \A q \in RunIds \ {r} : sessions'[q] = sessions[q]
  BY <1>1, <1>2
<1>4. /\ Told(sessions[r]) => Told(n)
      /\ Prompt(sessions[r]) => Prompt(n)
      /\ AbortListeners = {TRUE} /\ Reachable(sessions[r]) => Reachable(n)
      /\ sessions[r].cancellationRequested => n.cancellationRequested
      /\ IsRunStatusCancellable(n.run.status)
            => IsRunStatusCancellable(sessions[r].run.status)
  BY <1>1 DEF OwnStep, Onward, Told, RunMoves, IsRunStatusCancellable
<1>5. /\ AbortListeners = {TRUE} /\ cancellation = NoOne /\ awaiting = {}
      /\ \A q \in RunIds : Prompt(sessions[q]) /\ Told(sessions[q])
      /\ \A q \in RunIds : canceller = q => Reachable(sessions[q])
      /\ \A q \in RunIds :
            IsRunStatusCancellable(sessions[q].run.status)
               => canceller = q \/ sessions[q].cancellationRequested
  BY ListenParts DEF Active
<1>6. canceller' = canceller /\ cancellation' = cancellation
      /\ awaiting' = awaiting
  BY <1>1
<1>7. ASSUME NEW q \in RunIds
      PROVE  /\ Prompt(sessions'[q]) /\ Told(sessions'[q])
             /\ canceller' = q => Reachable(sessions'[q])
             /\ IsRunStatusCancellable(sessions'[q].run.status)
                   => canceller' = q \/ sessions'[q].cancellationRequested
  <2>1. CASE q = r
    BY <1>3, <1>4, <1>5, <1>6, <2>1
  <2>2. CASE q # r
    BY <1>3, <1>5, <1>6, <2>2
  <2>3. QED
    BY <2>1, <2>2
<1>8. QED
  BY <1>5, <1>6, <1>7 DEF ListenNext

LEMMA WriteListens ==
  ASSUME ServerInv, ListenInv, NEW r \in RunIds, NEW writer \in Writers,
         NEW written \in BOOLEAN, WriteSettles(r, writer, written)
  PROVE  ListenNext
<1>1. /\ Advance
      /\ canceller' # canceller => sessions[r].pc = "persisting" /\ canceller = r
      /\ \A q \in RunIds : Prompt(sessions[q]) => Prompt(sessions'[q])
      /\ \A q \in RunIds : sessions'[q].run = sessions[q].run
      /\ \A q \in RunIds : canceller' = q /\ Reachable(sessions[q])
                              => Reachable(sessions'[q])
  BY WriteAdvances
<1>2. UNCHANGED <<cancellation, awaiting>>
  BY DEF WriteSettles
<1>3. canceller' = canceller \/ canceller' = NoOne
  BY DEF WriteSettles, UnregisterCanceller
<1>4. \A q \in RunIds : Onward(sessions[q], sessions'[q])
  BY <1>1 DEF Advance
<1>5. \A q \in RunIds : q # NoOne
  BY DEF RunIds, NoOne
<1>6. ASSUME NEW q \in RunIds
      PROVE  /\ Prompt(sessions'[q]) /\ Told(sessions'[q])
             /\ canceller' = q => Reachable(sessions'[q])
  BY <1>1, <1>3, <1>4, <1>5, ListenParts DEF Onward, Told
<1>7. ASSUME NEW q \in RunIds, IsRunStatusCancellable(sessions'[q].run.status)
      PROVE  canceller' = q \/ sessions'[q].cancellationRequested
  <2>1. q \in Active
    BY <1>1, <1>7 DEF Active
  <2>2. CASE sessions[q].cancellationRequested
    BY <1>4, <2>2 DEF Onward
  <2>3. CASE ~ sessions[q].cancellationRequested
    <3>1. canceller = q
      BY <2>1, <2>3, ListenParts
    <3>2. canceller' = canceller
      <4>1. SUFFICES ASSUME canceller' # canceller PROVE FALSE
        OBVIOUS
      <4>2. sessions[q].pc = "persisting"
        BY <1>1, <3>1, <4>1
      <4>3. Closed(sessions[q].run)
        BY <4>2, InvParts DEF SessionOk, Books, Over
      <4>4. QED
        BY <1>1, <1>7, <4>3 DEF Closed, IsRunStatusCancellable
    <3>3. QED
      BY <3>1, <3>2
  <2>4. QED
    BY <2>2, <2>3
<1>8. QED
  BY <1>2, <1>6, <1>7, ListenParts DEF ListenNext

LEMMA CreatesListens ==
  ASSUME ServerInv, ListenInv, Creates
  PROVE  ListenNext
<1> DEFINE c == created + 1
           new == sessions'[c]
<1>1. /\ c \in RunIds /\ canceller' = c
      /\ UNCHANGED <<cancellation, awaiting>>
      /\ \A q \in RunIds \ {c} : sessions'[q] = sessions[q]
      /\ new.run.status = "queued" /\ new.stopWaiters = {}
      /\ new.engineStop = "idle" /\ new.engine = NoEngine
      /\ new.pc = "building"
  BY CreatesParts
<1>2. Prompt(new) /\ Told(new) /\ Reachable(new)
  BY <1>1 DEF Prompt, Told, Reachable, Responsive, NoEngine
<1> HIDE DEF c
<1>3. \A q \in RunIds \ {c} :
          ~ IsRunStatusCancellable(sessions'[q].run.status)
  BY <1>1 DEF Creates, Active
<1>4. QED
  BY <1>1, <1>2, <1>3, ListenParts DEF ListenNext

\* Nobody waits for the canceller, and the active run is told.
LEMMA AfterCancellerListens ==
  ASSUME ServerInv, ListenInv
  PROVE  /\ ~ CancellationWaits
         /\ \A q \in RunIds : /\ Prompt(AfterCanceller[q])
                              /\ Told(AfterCanceller[q])
         /\ \A q \in Active : AfterCanceller[q].cancellationRequested
         /\ BeginCancellation(CancellationWaits)
               => canceller' = NoOne /\ cancellation' = NoOne
<1>1. /\ cancellation = NoOne
      /\ \A q \in RunIds : Prompt(sessions[q]) /\ Told(sessions[q])
      /\ \A q \in RunIds : canceller = q => Reachable(sessions[q])
      /\ \A q \in Active : canceller = q \/ sessions[q].cancellationRequested
  BY ListenParts
<1>2. /\ \A q \in RunIds : Onward(sessions[q], AfterCanceller[q])
      /\ \A q \in RunIds : AfterCanceller[q].run = sessions[q].run
      /\ \A q \in RunIds : q # canceller => AfterCanceller[q] = sessions[q]
      /\ CallsCanceller => /\ canceller \in RunIds
                           /\ AfterCanceller[canceller]
                                 = CancelSession(sessions[canceller])
      /\ ~ CallsCanceller => AfterCanceller = sessions
      /\ \A q \in RunIds : SessionOk(sessions[q])
  BY AfterCancellerParts, InvParts
<1>3. ~ CallsCanceller => canceller = NoOne
  BY <1>1 DEF CallsCanceller
<1>4. CallsCanceller => /\ Prompt(AfterCanceller[canceller])
                        /\ AfterCanceller[canceller].cancellationRequested
  BY <1>1, <1>2, CancelSessionParts
<1> HIDE DEF AfterCanceller
<1>5. \A q \in RunIds : q # NoOne
  BY DEF RunIds, NoOne
<1>6. \A q \in RunIds : Prompt(AfterCanceller[q])
  BY <1>1, <1>2, <1>4
<1>7. ~ CancellationWaits
  BY <1>1, <1>4 DEF CancellationWaits, Prompt
<1>8. \A q \in RunIds : Told(AfterCanceller[q])
  BY <1>1, <1>2 DEF Told, Onward
<1>9. ASSUME NEW q \in Active PROVE AfterCanceller[q].cancellationRequested
  <2>1. q \in RunIds
    BY DEF Active
  <2>2. CASE canceller = q
    BY <1>3, <1>4, <1>5, <2>1, <2>2
  <2>3. CASE canceller # q
    BY <1>1, <1>2, <2>1, <2>3
  <2>4. QED
    BY <2>2, <2>3
<1>10. BeginCancellation(CancellationWaits)
          => canceller' = NoOne /\ cancellation' = NoOne
  BY <1>1, <1>3, <1>7 DEF BeginCancellation
<1>11. QED
  BY <1>6, <1>7, <1>8, <1>9, <1>10

LEMMA CancelListens ==
  ASSUME ServerInv, ListenInv, NEW r \in RunIds, CancelRequest(r)
  PROVE  ListenNext
<1> DEFINE n == CancelledByRoute(AfterCanceller[r])
<1>1. /\ ~ CancellationWaits
      /\ \A q \in RunIds : Prompt(AfterCanceller[q]) /\ Told(AfterCanceller[q])
      /\ \A q \in Active : AfterCanceller[q].cancellationRequested
      /\ BeginCancellation(CancellationWaits)
            => canceller' = NoOne /\ cancellation' = NoOne
  BY AfterCancellerListens
<1>2. /\ BeginCancellation(CancellationWaits)
      /\ sessions' = [AfterCanceller EXCEPT ![r] = n]
      /\ awaiting' = awaiting /\ r \in Active
  BY <1>1 DEF CancelRequest
<1>3. /\ AfterCanceller = [q \in RunIds |-> AfterCanceller[q]]
      /\ \A q \in RunIds : Onward(sessions[q], AfterCanceller[q])
      /\ \A q \in RunIds : AfterCanceller[q].run = sessions[q].run
  BY AfterCancellerParts
<1> HIDE DEF AfterCanceller
<1>4. Onward(AfterCanceller[r], n) /\ SameControl(n, AfterCanceller[r])
  BY <1>3, CancelledByRouteParts DEF Onward
<1> HIDE DEF n
<1>5. /\ sessions'[r] = n
      /\ \A q \in RunIds \ {r} : sessions'[q] = AfterCanceller[q]
  BY <1>2, <1>3
<1>6. n.cancellationRequested /\ Prompt(n) /\ Told(n)
  BY <1>1, <1>2, <1>4 DEF SameControl, Prompt, Told
<1>7. ASSUME NEW q \in RunIds, IsRunStatusCancellable(sessions'[q].run.status)
      PROVE  sessions'[q].cancellationRequested
  <2>1. CASE q = r
    BY <1>5, <1>6, <2>1
  <2>2. CASE q # r
    <3>1. sessions'[q] = AfterCanceller[q] /\ q \in Active
      BY <1>3, <1>5, <1>7, <2>2 DEF Active
    <3>2. QED
      BY <1>1, <3>1
  <2>3. QED
    BY <2>1, <2>2
<1>8. \A q \in RunIds : q # NoOne
  BY DEF RunIds, NoOne
<1>9. QED
  BY <1>1, <1>2, <1>5, <1>6, <1>7, <1>8, ListenParts DEF ListenNext

LEMMA StopListens ==
  ASSUME ServerInv, ListenInv, StopServer
  PROVE  ListenNext
<1>1. /\ \A q \in RunIds : Prompt(AfterCanceller[q]) /\ Told(AfterCanceller[q])
      /\ \A q \in Active : AfterCanceller[q].cancellationRequested
      /\ BeginCancellation(CancellationWaits)
            => canceller' = NoOne /\ cancellation' = NoOne
  BY AfterCancellerListens
<1>2. /\ BeginCancellation(CancellationWaits)
      /\ sessions' = [q \in RunIds |->
                        IF q \in handles
                        THEN StopEngine(AfterCanceller[q], {"cleanup"})
                        ELSE AfterCanceller[q]]
      /\ awaiting' = awaiting
  BY DEF StopServer
<1>3. /\ \A q \in RunIds : Onward(sessions[q], AfterCanceller[q])
      /\ \A q \in RunIds : AfterCanceller[q].run = sessions[q].run
      /\ \A q \in handles : sessions[q].pc \in Late
  BY AfterCancellerParts, InvParts
<1> HIDE DEF AfterCanceller
<1>4. ASSUME NEW q \in RunIds
      PROVE  /\ Prompt(sessions'[q]) /\ Told(sessions'[q])
             /\ sessions'[q].run = AfterCanceller[q].run
             /\ sessions'[q].cancellationRequested
                   = AfterCanceller[q].cancellationRequested
  <2>1. CASE q \in handles
    <3>1. sessions'[q] = StopEngine(AfterCanceller[q], {"cleanup"})
      BY <1>2, <2>1
    <3>2. SessionOk(AfterCanceller[q]) /\ AfterCanceller[q].pc \in Late
      BY <1>3, <2>1 DEF Onward
    <3>3. /\ sessions'[q].pc = AfterCanceller[q].pc
          /\ sessions'[q].run = AfterCanceller[q].run
          /\ sessions'[q].cancellationRequested
                = AfterCanceller[q].cancellationRequested
          /\ Prompt(AfterCanceller[q]) => Prompt(sessions'[q])
      BY <3>1, <3>2, CleanupOnward
    <3>4. QED
      BY <1>1, <3>3 DEF Told
  <2>2. CASE q \notin handles
    BY <1>1, <1>2, <2>2
  <2>3. QED
    BY <2>1, <2>2
<1>5. ASSUME NEW q \in RunIds, IsRunStatusCancellable(sessions'[q].run.status)
      PROVE  sessions'[q].cancellationRequested
  BY <1>1, <1>3, <1>4, <1>5 DEF Active
<1>6. \A q \in RunIds : q # NoOne
  BY DEF RunIds, NoOne
<1>7. QED
  BY <1>1, <1>2, <1>4, <1>5, <1>6, ListenParts DEF ListenNext

LEMMA ListenStep ==
  ASSUME ServerInv, ListenInv, [Next]_vars
  PROVE  ListenInv'
<1>1. \A r \in RunIds : SessionOk(sessions[r])
  BY InvParts
<1>2. ASSUME NEW r \in RunIds,
             PluginStep(r) \/ Timers(r) \/ ExecuteReturns(r)
      PROVE  ListenNext
  BY <1>1, <1>2, OwnSteps, LocalListens
<1>3. ASSUME UNCHANGED <<sessions, canceller, cancellation, awaiting>>
      PROVE  ListenNext
  BY <1>3, ListenParts DEF ListenNext, Active
<1>4. CASE Microtask
  <2>1. ~ CancellationSettles
    BY ListenParts DEF CancellationSettles, CancellationIsOver
  <2>2. QED
    BY <1>2, <1>4, <2>1, ListenPrimed DEF Microtask
<1>5. CASE Macrotask
  <2>1. CASE PostRun \/ ServerStops
    <3>1. UNCHANGED <<sessions, canceller, cancellation, awaiting>>
      BY <2>1 DEF PostRun, ServerStops, controlVars
    <3>2. QED
      BY <1>3, <3>1, ListenPrimed
  <2>2. CASE CreateRun
    <3>1. CASE Active # {}
      <4>1. UNCHANGED <<sessions, canceller, cancellation, awaiting>>
        BY <2>2, <3>1 DEF CreateRun
      <4>2. QED
        BY <1>3, <4>1, ListenPrimed
    <3>2. CASE Active = {}
      BY <2>2, <3>2, CreatesListens, ListenPrimed DEF Creates
    <3>3. QED
      BY <3>1, <3>2
  <2>3. CASE StopServer
    BY <2>3, StopListens, ListenPrimed
  <2>4. CASE \E r \in RunIds : CancelRequest(r)
    BY <2>4, CancelListens, ListenPrimed
  <2>5. CASE \E r \in RunIds : PluginStep(r) \/ Timers(r)
    BY <1>2, <2>5, ListenPrimed
  <2>6. CASE \E r \in RunIds : Write(r)
    BY <2>6, WriteListens, ListenPrimed DEF Write
  <2>7. QED
    BY <1>5, <2>1, <2>2, <2>3, <2>4, <2>5, <2>6 DEF Macrotask
<1>6. CASE UNCHANGED vars
  <2>1. UNCHANGED <<sessions, canceller, cancellation, awaiting>>
    BY <1>6 DEF vars, controlVars
  <2>2. QED
    BY <1>3, <2>1, ListenPrimed
<1>7. QED
  BY <1>4, <1>5, <1>6 DEF Next

LEMMA ListenInit == Init /\ AbortListeners = {TRUE} => ListenInv
<1> SUFFICES ASSUME Init, AbortListeners = {TRUE} PROVE ListenInv
  OBVIOUS
<1>1. /\ sessions = [r \in RunIds |-> NoSession] /\ canceller = NoOne
      /\ cancellation = NoOne /\ awaiting = {}
  BY DEF Init, ControlInit
<1>2. \A r \in RunIds : r # NoOne
  BY DEF RunIds, NoOne
<1>3. /\ NoSession.run.status = "untracked" /\ NoSession.stopWaiters = {}
  BY DEF NoSession, NoRun
<1>4. Active = {} /\ \A r \in RunIds : Prompt(sessions[r])
  BY <1>1, <1>3 DEF Active, IsRunStatusCancellable, Prompt
<1>5. CancelReachesTheOrchestration
  BY <1>1, <1>3 DEF CancelReachesTheOrchestration
<1>6. QED
  BY <1>1, <1>2, <1>4, <1>5 DEF ListenInv

\* With llama.cpp, or any plugin whose engines listen to the abort signal, a
\* run the store calls cancelled has an orchestration that has been told to
\* stop (the cancel route's cancelActiveRun before cancelRun).
THEOREM CancelIsHeard ==
  Spec /\ AbortListeners = {TRUE} => []CancelReachesTheOrchestration
<1>1. ServerInv /\ ListenInv /\ [Next]_vars => ListenInv'
  BY ListenStep
<1>2. ListenInv => CancelReachesTheOrchestration
  BY DEF ListenInv
<1>3. QED
  BY <1>1, <1>2, ListenInit, ServerInvariant, PTL DEF Spec

===============================================================================
