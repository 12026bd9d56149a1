------------------------------- MODULE RunServer -------------------------------
(***************************************************************************)
(* The server around its runs: POST /runs and POST /runs/:id/cancel        *)
(* (src/server/routes/run-routes), the orchestration of a plain run        *)
(* (src/server/runs/run-orchestrator), the artifact store, RuntimeControl, *)
(* the engine plugin and stopServer, interleaved as the event loop may.    *)
(*                                                                         *)
(* What runs between two awaits is one action.  execute() is, per run, a   *)
(* program counter that names the await it sits at:                        *)
(*   building   plugin.buildLaunchConfig   executing   plugin.executeCase  *)
(*   starting   plugin.start               metrics     collectMetrics      *)
(*   readying   plugin.waitUntilReady      persisting  writeResult         *)
(*   stopping   the final stopEngine       done        execute() returned  *)
(*                                                                         *)
(* Abstracted: time.  The run deadline is a flag that may rise at any      *)
(* moment, a run's timer fires once it has, a case's timer at any moment.  *)
(* Every run executes Workload; runs are few enough to be retained.        *)
(***************************************************************************)
EXTENDS RunRecords, RuntimeControl, EngineSession, SequencesExt

CONSTANTS
    Workload,       \* the case identifiers of the workload, in order
    MaxPosts,       \* bound: the POST /runs requests being handled at once
    MaxWriteFailures    \* bound: the runs a write has failed for

\* How many failed writes the store remembers.  Beyond that it forgets the
\* oldest; the model stays within.
MAX_WRITE_FAILURES == 1000

ASSUME RunServerAssumption ==
    /\ MaxRuns \in Nat
    /\ MaxPosts \in Nat
    /\ MaxWriteFailures \in 0 .. MAX_WRITE_FAILURES
    /\ Workload \in Seq(CaseIds)
    /\ {"RUN_TIMEOUT_EXCEEDED", "RUN_CASE_FAILED", "ENGINE_START_FAILED",
        "ENGINE_EXECUTION_FAILED"} \subseteq FailureCodes

Now == 0            \* time is abstracted: every instant is this one

\* A RunCancelledError or an AbortError; not a failure code.  The catches take
\* the plugin's AbortError for a cancellation whether or not the run is being
\* cancelled.
Cancelled == "cancelled"

VARIABLES
    sessions,       \* per run: its record, its orchestration, its engine
    created,        \* how many runs have been created
    posting,        \* POST /runs requests past the check of accepting
    awaiting,       \* the runs whose cancel request awaits cancelActiveRun
    shutdown,       \* where stopServer is
    disk,           \* runs/{runId}/result.json
    writeFailures   \* RunArtifactStore.writeFailures

vars == <<controlVars, sessions, created, posting, awaiting, shutdown,
          disk, writeFailures>>

Writers == {"orchestrator", "route"}
Waiters == {"canceller", "final", "cleanup"}

\* execute()'s local variables, and the writes of the run's result in flight.
Session == [run : RunRecord,
            pc : {"idle", "building", "starting", "readying", "executing",
                  "metrics", "persisting", "stopping", "done"},
            next : Nat \ {0},               \* nextCaseIndex, from one
            cancellationRequested : BOOLEAN,
            aborted : BOOLEAN,              \* abortController.signal.aborted
            expired : BOOLEAN,              \* now() >= runDeadlineMs
            engineContext : BOOLEAN,        \* engineContext is set
            engineStop : {"idle", "inFlight", "completed"},
            stopWaiters : SUBSET Waiters,   \* who awaits the stop in flight
            engine : Engine,
            writes : [Writers -> RunResult \cup {NoResult}]]

NoSession == [run |-> NoRun, pc |-> "idle", next |-> 1,
              cancellationRequested |-> FALSE, aborted |-> FALSE,
              expired |-> FALSE, engineContext |-> FALSE,
              engineStop |-> "idle", stopWaiters |-> {},
              engine |-> NoEngine, writes |-> [w \in Writers |-> NoResult]]

-------------------------------------------------------------------------------
(* The pieces of execute().                                                *)

Abort(s) == [s EXCEPT !.aborted = TRUE, !.engine = OnAbort(@)]

\* stopEngine(), with those who will wait for it.  plugin.stop() is over at
\* once when the plugin has no entry for the run.
StopEngine(s, waiters) ==
    IF ~ s.engineContext \/ s.engineStop = "completed"
    THEN s
    ELSE IF s.engineStop = "inFlight"
    THEN [s EXCEPT !.stopWaiters = @ \cup waiters]
    ELSE IF s.engine.active
    THEN [s EXCEPT !.engineStop = "inFlight", !.stopWaiters = waiters,
                   !.engine = StopRunState(@)]
    ELSE [s EXCEPT !.engineStop = "completed"]

\* The stop attempt in flight, if there is one, is over.
StopSettled(s, engineStop) ==
    IF s.engineStop # "inFlight"
    THEN s
    ELSE [s EXCEPT !.engineStop = engineStop, !.stopWaiters = {}]

\* Mutant of CancelSession: the engine is stopped, execute() is not told.
CancelSessionEngineOnly(s) == StopEngine(s, {"canceller"})

\* The function execute() hands to setActiveRunCanceller.
CancelSession(s) ==
    StopEngine(Abort([s EXCEPT !.cancellationRequested = TRUE]), {"canceller"})

\* persistRunArtifact up to its await: the result as it is now.
Persist(s, writer) == [s EXCEPT !.writes[writer] = s.run.result]

FailRunWithRemainingCases(run, next, code) ==
    LET remaining == SubSeq(Workload, next, Len(Workload))
        failed    == RecordCasesFailed(MarkRunRunning(run, Now), remaining)
    IN  FailRun(failed, Now, code)

\* The catch of execute().
Caught(s, code) ==
    Persist([s EXCEPT
                !.pc = "persisting",
                !.run = IF code = Cancelled \/ s.cancellationRequested
                        THEN CancelRun(@, Now)
                        ELSE FailRunWithRemainingCases(@, s.next, code)],
            "orchestrator")

\* The head of the case loop, and what follows the loop: the same two checks,
\* then the next case or the metrics.
CaseLoop(s) ==
    IF s.cancellationRequested \/ s.aborted
    THEN Caught(s, Cancelled)
    ELSE IF s.expired
    THEN Caught(s, "RUN_TIMEOUT_EXCEEDED")
    ELSE IF s.next > Len(Workload)
    THEN [s EXCEPT !.pc = "metrics"]
    ELSE [s EXCEPT !.pc = "executing",
                   !.run = RecordCaseStarted(@, Workload[s.next])]

\* Mutant of CaseFailed: a fatal failure leaves nextCaseIndex at its case.
CaseFailedNotAdvanced(s, code) ==
    LET failed == [s EXCEPT !.run = RecordCaseFailed(@, Workload[s.next])]
    IN  IF code = Cancelled \/ s.cancellationRequested \/ s.aborted
        THEN Caught(s, Cancelled)
        ELSE IF code = "ENGINE_EXECUTION_FAILED"
        THEN Caught(failed, code)
        ELSE CaseLoop([failed EXCEPT !.next = @ + 1])

\* A case is recorded as failed; ENGINE_* codes end the run.
CaseFailed(s, code) ==
    LET recorded == [s EXCEPT !.run = RecordCaseFailed(@, Workload[s.next]),
                              !.next = @ + 1]
    IN  IF code = Cancelled \/ s.cancellationRequested \/ s.aborted
        THEN Caught(s, Cancelled)
        ELSE IF code = "ENGINE_EXECUTION_FAILED"
        THEN Caught(recorded, code)
        ELSE CaseLoop(recorded)

-------------------------------------------------------------------------------
(* Steps of one run's orchestration and engine.                            *)

Active == {r \in RunIds : IsRunStatusCancellable(sessions[r].run.status)}

Is(r, pc) == sessions[r].pc = pc

Becomes(r, s) == sessions' = [sessions EXCEPT ![r] = s]

unchangedOutside == <<created, posting, awaiting, shutdown, disk, writeFailures>>

\* A step that touches nothing but the run's session.
Local(r, s) ==
    /\ Becomes(r, s)
    /\ UNCHANGED <<controlVars, unchangedOutside>>

Deadline(r) ==
    /\ sessions[r].pc \notin {"idle", "persisting", "stopping", "done"}
    /\ ~ sessions[r].expired

DeadlinePasses(r) ==
    /\ Deadline(r)
    /\ Local(r, [sessions[r] EXCEPT !.expired = TRUE])

\* Mutant of BuildResolves: start() does not look at the signal.
BuildResolvesRegardless(r) ==
    /\ Is(r, "building")
    /\ Local(r, [sessions[r] EXCEPT !.engineContext = TRUE, !.pc = "starting",
                                    !.engine = Spawn(@)])

\* buildLaunchConfig() settles; with a config plugin.start() is called, which
\* rejects when the run has been aborted meanwhile.
BuildResolves(r) ==
    LET s == [sessions[r] EXCEPT !.engineContext = TRUE]
    IN  /\ Is(r, "building")
        /\ Local(r, IF s.aborted
                    THEN Caught(s, "RUN_CASE_FAILED")
                    ELSE [s EXCEPT !.pc = "starting", !.engine = Spawn(@)])

BuildRejects(r, code) ==
    /\ Is(r, "building")
    /\ Local(r, Caught(sessions[r], code))

\* Mutant of RunTimerArmed: buildLaunchConfig() is awaited without a timer.
RunTimerArmedFromStart(r) ==
    /\ sessions[r].expired
    /\ sessions[r].pc \in {"starting", "readying", "metrics"}

\* The timer of a withTimeout that spends the run's budget fires.
RunTimerArmed(r) ==
    /\ sessions[r].expired
    /\ sessions[r].pc \in {"building", "starting", "readying", "metrics"}

RunTimer(r) ==
    LET s       == sessions[r]
        aborted == Abort(s)
        stopped == IF s.pc \in {"starting", "readying"}
                   THEN StopEngine(aborted, {})
                   ELSE aborted
    IN  /\ RunTimerArmed(r)
        /\ Local(r, Caught(stopped, "RUN_TIMEOUT_EXCEEDED"))

\* plugin.start() settles, awaited or, after the run's timer, not any more.
StartResolves(r, listens) ==
    LET s       == sessions[r]
        started == [s EXCEPT !.engine = Activate(@, s.aborted, listens)]
    IN  /\ s.engine.start = "pending"
        /\ s.engine.process = "alive"
        /\ IF s.pc = "starting"
           THEN /\ Becomes(r, [started EXCEPT
                                  !.pc = "readying",
                                  !.engine = WaitUntilReady(@, s.aborted)])
                /\ RegisterEngineProcess(r)
                /\ UNCHANGED <<accepting, canceller, cancellation,
                               unchangedOutside>>
           ELSE Local(r, started)

StartRejects(r, code) ==
    LET s == [sessions[r] EXCEPT !.engine = FailStart(@)]
    IN  /\ sessions[r].engine.start = "pending"
        /\ Local(r, IF s.pc = "starting"
                    THEN Caught(s, code)
                    ELSE s)

ReadyResolves(r) ==
    LET s == [sessions[r] EXCEPT !.engine.probe = "none"]
    IN  /\ sessions[r].engine.probe = "probing"
        /\ s.engine.process = "alive"
        /\ Local(r, IF s.pc # "readying"
                    THEN s
                    ELSE IF s.cancellationRequested \/ s.aborted
                    THEN Caught(s, Cancelled)
                    ELSE CaseLoop([s EXCEPT !.run = MarkRunRunning(@, Now)]))

\* The probe fails, times out, sees the abort or the exit of the process.
ReadinessFails(r) ==
    /\ sessions[r].engine.probe = "probing"
    /\ Local(r, [sessions[r] EXCEPT !.engine = FailReadiness(@)])

ReadyRejects(r, code) ==
    LET s == [sessions[r] EXCEPT !.engine.probe = "none"]
    IN  /\ sessions[r].engine.probe = "failing"
        /\ ~ s.engine.stopping
        /\ Local(r, IF s.pc = "readying"
                    THEN Caught(s, code)
                    ELSE s)

EngineExits(r) ==
    LET s == [sessions[r] EXCEPT !.engine = Exit(@)]
    IN  /\ sessions[r].engine.process = "alive"
        /\ sessions[r].engine.start = "settled"
        /\ Local(r, StopSettled(s, "completed"))

StopGivesUp(r) ==
    LET s == [sessions[r] EXCEPT !.engine = GiveUpStop(@)]
    IN  /\ sessions[r].engine.stopping
        /\ Local(r, StopSettled(s, "idle"))

\* Mutant of StopTimerArmed: a stop the canceller awaits is not bounded.
StopTimerArmedUnlessCancelled(r) ==
    /\ sessions[r].engineStop = "inFlight"
    /\ "canceller" \notin sessions[r].stopWaiters

\* ENGINE_STOP_TIMEOUT_MS.
StopTimerArmed(r) == sessions[r].engineStop = "inFlight"

StopTimesOut(r) ==
    /\ StopTimerArmed(r)
    /\ Local(r, StopSettled(sessions[r], "idle"))

CaseResolves(r) ==
    LET s == sessions[r]
    IN  /\ s.pc = "executing"
        /\ s.engine.process = "alive"
        /\ Local(r, CaseLoop([s EXCEPT
                        !.run = RecordCaseCompleted(@, Workload[s.next]),
                        !.next = @ + 1]))

CaseRejects(r, code) ==
    /\ Is(r, "executing")
    /\ Local(r, CaseFailed(sessions[r], code))

CaseTimerArmed(r) == Is(r, "executing")

CaseTimer(r) ==
    /\ CaseTimerArmed(r)
    /\ Local(r, CaseFailed(sessions[r], "RUN_CASE_TIMEOUT"))

\* collectMetrics() settles; a rejection is swallowed.
MetricsSettle(r) ==
    /\ Is(r, "metrics")
    /\ Local(r, Persist([sessions[r] EXCEPT !.pc = "persisting",
                                            !.run = CompleteRun(@, Now)],
                        "orchestrator"))

\* Mutant of RecordWrite: a failed write leaves no trace.
RecordWriteOptimist(r, result, written) ==
    /\ disk' = IF written THEN [disk EXCEPT ![r] = result] ELSE disk
    /\ writeFailures' = writeFailures \ {r}

\* writeResult once its file operations have settled: the rename replaced the
\* file as a whole, or the failure is noted.
RecordWrite(r, result, written) ==
    /\ disk' = IF written THEN [disk EXCEPT ![r] = result] ELSE disk
    /\ writeFailures' = IF written
                        THEN writeFailures \ {r}
                        ELSE writeFailures \cup {r}

\* A writeResult settles.  The orchestrator's is followed by the finally of
\* execute() up to its await.
WriteSettles(r, writer, written) ==
    LET s       == [sessions[r] EXCEPT !.writes[writer] = NoResult]
        result  == sessions[r].writes[writer]
        stopped == [StopEngine(s, {"final"}) EXCEPT !.pc = "stopping"]
    IN  /\ result # NoResult
        /\ written \/ Cardinality(writeFailures \cup {r}) <= MaxWriteFailures
        /\ RecordWrite(r, result, written)
        /\ IF writer = "orchestrator"
           THEN Becomes(r, stopped) /\ UnregisterCanceller(r)
           ELSE Becomes(r, s) /\ UNCHANGED canceller
        /\ UNCHANGED <<accepting, cancellation, handles, created, posting,
                       awaiting, shutdown>>

FinalStopIsOver(r) ==
    /\ Is(r, "stopping")
    /\ "final" \notin sessions[r].stopWaiters

ExecuteReturns(r) ==
    /\ FinalStopIsOver(r)
    /\ Becomes(r, [sessions[r] EXCEPT !.pc = "done"])
    /\ UnregisterEngineProcess(r)
    /\ UNCHANGED <<accepting, canceller, cancellation, unchangedOutside>>

-------------------------------------------------------------------------------
(* The routes and the shutdown.                                            *)

\* POST /runs, up to its first await: reading and validating the body.
PostRun ==
    /\ accepting
    /\ posting < MaxPosts
    /\ posting' = posting + 1
    /\ UNCHANGED <<controlVars, sessions, created, awaiting, shutdown, disk,
                   writeFailures>>

\* Mutant of CreateRun: the check for an active run is left to the caller.
CreateRunUnchecked ==
    /\ posting > 0
    /\ posting' = posting - 1
    /\ created < MaxRuns
    /\ created' = created + 1
    /\ Becomes(created + 1,
               [NoSession EXCEPT !.run = QueuedRun(Len(Workload)),
                                 !.pc = "building"])
    /\ SetActiveRunCanceller(created + 1)
    /\ UNCHANGED <<accepting, cancellation, handles, awaiting, shutdown, disk,
                   writeFailures>>

\* POST /runs after its last await: the run is created, and execute() runs up
\* to its first await, or the request is refused.
CreateRun ==
    /\ posting > 0
    /\ posting' = posting - 1
    /\ Active = {} => created < MaxRuns
    /\ IF Active = {}
       THEN /\ created' = created + 1
            /\ Becomes(created + 1,
                       [NoSession EXCEPT !.run = QueuedRun(Len(Workload)),
                                         !.pc = "building"])
            /\ SetActiveRunCanceller(created + 1)
       ELSE UNCHANGED <<created, sessions, canceller>>
    /\ UNCHANGED <<accepting, cancellation, handles, awaiting, shutdown, disk,
                   writeFailures>>

\* The cancel route after cancelActiveRun: cancelRun, and persist a result
\* without waiting for it.
CancelledByRoute(s) ==
    LET cancelled == [s EXCEPT !.run = CancelRun(@, Now)]
    IN  IF cancelled.run.status = "cancelled"
        THEN Persist(cancelled, "route")
        ELSE cancelled

\* The sessions after the first part of cancelActiveRun, and whether its
\* caller has to wait.
AfterCanceller ==
    IF CallsCanceller
    THEN [sessions EXCEPT ![canceller] = CancelSession(@)]
    ELSE sessions

CancellationWaits ==
    \/ cancellation # NoOne
    \/ CallsCanceller /\ "canceller" \in AfterCanceller[canceller].stopWaiters

CancelRequest(r) ==
    /\ r \in Active \ awaiting
    /\ BeginCancellation(CancellationWaits)
    /\ IF CancellationWaits
       THEN /\ sessions' = AfterCanceller
            /\ awaiting' = awaiting \cup {r}
       ELSE /\ sessions' = [AfterCanceller EXCEPT ![r] = CancelledByRoute(@)]
            /\ UNCHANGED awaiting
    /\ UNCHANGED <<accepting, handles, created, posting, shutdown, disk,
                   writeFailures>>

\* activeRunCancellation settles, and with it everyone who shares it.
CancellationIsOver ==
    /\ cancellation # NoOne
    /\ "canceller" \notin sessions[cancellation].stopWaiters

CancellationSettles ==
    /\ CancellationIsOver
    /\ EndCancellation
    /\ sessions' = [r \in RunIds |-> IF r \in awaiting
                                     THEN CancelledByRoute(sessions[r])
                                     ELSE sessions[r]]
    /\ awaiting' = {}
    /\ shutdown' = IF shutdown = "cancelling" THEN "cleaning" ELSE shutdown
    /\ UNCHANGED <<accepting, handles, created, posting, disk, writeFailures>>

\* stopServer up to its await: cancelActiveRun and cleanupEngineSubprocesses.
StopServer ==
    /\ shutdown = "no"
    /\ accepting' = FALSE
    /\ BeginCancellation(CancellationWaits)
    /\ sessions' = [r \in RunIds |-> IF r \in handles
                                     THEN StopEngine(AfterCanceller[r], {"cleanup"})
                                     ELSE AfterCanceller[r]]
    /\ handles' = {}
    /\ shutdown' = IF CancellationWaits THEN "cancelling" ELSE "cleaning"
    /\ UNCHANGED <<created, posting, awaiting, disk, writeFailures>>

\* Every shutdown step has settled: stopServer stops listening, its caller
\* exits the process.
ShutdownIsOver ==
    /\ shutdown = "cleaning"
    /\ \A r \in RunIds : "cleanup" \notin sessions[r].stopWaiters

ServerStops ==
    /\ ShutdownIsOver
    /\ shutdown' = "stopped"
    /\ UNCHANGED <<controlVars, sessions, created, posting, awaiting, disk,
                   writeFailures>>

-------------------------------------------------------------------------------
Init ==
    /\ ControlInit
    /\ sessions = [r \in RunIds |-> NoSession]
    /\ created = 0
    /\ posting = 0
    /\ awaiting = {}
    /\ shutdown = "no"
    /\ disk = [r \in RunIds |-> NoResult]
    /\ writeFailures = {}

PluginStep(r) ==
    \/ BuildResolves(r)
    \/ \E code \in {"RUN_CASE_FAILED", Cancelled} : BuildRejects(r, code)
    \/ \E listens \in AbortListeners : StartResolves(r, listens)
    \/ ReadyResolves(r) \/ ReadinessFails(r)
    \/ \E code \in {"ENGINE_START_FAILED", Cancelled} :
          StartRejects(r, code) \/ ReadyRejects(r, code)
    \/ EngineExits(r) \/ StopGivesUp(r)
    \/ CaseResolves(r)
    \/ \E code \in {"ENGINE_EXECUTION_FAILED", "VALIDATION_PROMPT_TOO_LARGE",
                   Cancelled} : CaseRejects(r, code)
    \/ MetricsSettle(r)

Timers(r) ==
    DeadlinePasses(r) \/ RunTimer(r) \/ CaseTimer(r) \/ StopTimesOut(r)

Write(r) ==
    \E writer \in Writers, written \in BOOLEAN : WriteSettles(r, writer, written)

\* The process exits once stopServer has returned.
Up == shutdown # "stopped"

\* What waits for nothing but promises that are already settled goes on before
\* the event loop takes up anything else.
MicrotaskPending == CancellationIsOver \/ \E r \in RunIds : FinalStopIsOver(r)

Microtask == CancellationSettles \/ \E r \in RunIds : ExecuteReturns(r)

Macrotask ==
    \/ PostRun \/ CreateRun
    \/ StopServer \/ ServerStops
    \/ \E r \in RunIds :
        \/ CancelRequest(r)
        \/ PluginStep(r)
        \/ Timers(r)
        \/ Write(r)

Next ==
    /\ Up
    /\ \/ Microtask
       \/ ~ MicrotaskPending /\ Macrotask

\* What the event loop owes: a deadline passes, an armed timer fires, a file
\* operation settles, a function whose await is over goes on.  Nothing is owed
\* by a plugin.  Each action makes its own condition false, so that weak
\* fairness of the action is to say that its condition is infinitely often
\* false; said of states it costs TLC no ENABLED.
Fairness ==
    /\ \A r \in RunIds :
        /\ []<> ~ (Up /\ Deadline(r))
        /\ []<> ~ (Up /\ RunTimerArmed(r))
        /\ \A n \in DOMAIN Workload :
            []<> ~ (Up /\ CaseTimerArmed(r) /\ sessions[r].next = n)
        /\ []<> ~ (Up /\ StopTimerArmed(r))
        /\ \A w \in Writers : []<> ~ (Up /\ sessions[r].writes[w] # NoResult)
        /\ []<> ~ (Up /\ FinalStopIsOver(r))
    /\ []<> ~ (Up /\ CancellationIsOver)
    /\ []<> ~ (Up /\ ShutdownIsOver)

Spec == Init /\ [][Next]_vars

FairSpec == Spec /\ Fairness

-------------------------------------------------------------------------------
(***************************************************************************)
(* Properties.                                                             *)
(***************************************************************************)

CasesOf(run) == [i \in DOMAIN run.caseOutcomes |-> run.caseOutcomes[i].caseId]

\* However a run goes - timeouts, engine failures, cancellation between any two
\* awaits - its outcomes follow the workload, no case is reported twice or
\* skipped, and a run that ends other than by cancellation reports them all.
EveryCaseAccountedFor ==
    \A r \in RunIds :
        LET run == sessions[r].run
        IN  /\ IsPrefix(CasesOf(run), Workload)
            /\ run.status \in {"completed", "failed"} => CasesOf(run) = Workload

\* A cancelled run does not go on behind the client's back: once the store
\* says "cancelled" the orchestration of the run has been told to stop (or is
\* past its work).
CancelReachesTheOrchestration ==
    \A r \in RunIds :
        sessions[r].run.status = "cancelled"
            => \/ sessions[r].cancellationRequested
               \/ sessions[r].pc \in {"persisting", "stopping", "done"}

\* Once execute() has returned the plugin holds no engine for the run.
NoEngineOutlivesItsRun ==
    \A r \in RunIds : Is(r, "done") => ~ sessions[r].engine.active

\* The one way an engine outlives its run: the run's deadline passed while
\* plugin.start() was pending and execute() stopped waiting for it, so that
\* the stop that followed found nothing to stop.  Whatever else happens -
\* cancellation or shutdown included - the entry is gone when execute()
\* returns.
OnlyAnAbandonedStartOutlivesItsRun ==
    \A r \in RunIds :
        LET s == sessions[r]
        IN  Is(r, "done") /\ (s.engine.active \/ s.engine.start = "pending")
                => /\ s.expired /\ s.aborted
                   /\ ~ s.engine.listening
                   /\ s.run.completedCases = 0

\* When execute() has returned and no write is in flight the run's result is
\* on disk, the very result the store keeps, or a write failure is on record.
PersistedOrFlagged ==
    \A r \in RunIds :
        LET s == sessions[r]
        IN  Is(r, "done") /\ (\A w \in Writers : s.writes[w] = NoResult)
                => \/ disk[r] = s.run.result
                   \/ r \in writeFailures

\* No case is started on behalf of a run that has been cancelled or has timed
\* out, and no further engine is spawned for it.
NoWorkAfterAbort ==
    [][\A r \in RunIds :
            sessions[r].aborted
                => /\ sessions'[r].pc = "executing"
                        => /\ Is(r, "executing")
                           /\ sessions'[r].next = sessions[r].next
                   /\ sessions[r].engine.process = "none"
                        => sessions'[r].engine.process = "none"]_vars

\* Every run ends, whatever the plugin does or fails to do, unless the process
\* exits first.
EveryRunEnds ==
    \A r \in RunIds : r \in Active ~> (r \notin Active \/ ~ Up)

\* Every cancel request is answered and the shutdown completes, even when no
\* engine ever stops.
EveryRequestIsAnswered ==
    /\ \A r \in RunIds : r \in awaiting ~> (r \notin awaiting \/ ~ Up)
    /\ (shutdown # "no") ~> (shutdown = "stopped")

\* Seen through the statuses of its runs the server implements RunLifecycle:
\* one run at a time, each ending once.
Lifecycle == INSTANCE RunLifecycle
                 WITH status <- [r \in RunIds |-> sessions[r].run.status]

ImplementsLifecycle == Lifecycle!Spec

===============================================================================
