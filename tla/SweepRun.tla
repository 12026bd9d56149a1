------------------------------- MODULE SweepRun -------------------------------
(***************************************************************************)
(* One sweep run (src/server/runs/run-orchestrator/sweep-execution): the   *)
(* cases of the expanded sweep one after the other, each with an engine of *)
(* its own, interleaved with the run's deadline, the engine plugin and the *)
(* cancel route.  As in RunServer a program counter names the await the    *)
(* orchestration sits at:                                                  *)
(*   validating  validateRunConfig      metrics       collectMetrics       *)
(*   building    buildLaunchConfig      caseStopping  the case's finally   *)
(*   starting    plugin.start           persisting    writeResult          *)
(*   readying    plugin.waitUntilReady  stopping      the run's finally    *)
(*   executing   plugin.executeCase     done          returned             *)
(*                                                                         *)
(* The shutdown, the artifact on disk and the rivalry of several runs are  *)
(* RunServer's subject and are left out here; the canceller is called at   *)
(* most once.  Time is abstracted as in RunServer.                         *)
(***************************************************************************)
EXTENDS RunRecords, EngineSession, SequencesExt

\* The case identifiers of the expanded sweep, in order.  Two cases may share
\* one: a value listed twice on an axis yields the same configuration twice.
CONSTANT Sweep

ASSUME SweepRunAssumption ==
    /\ Sweep \in Seq(CaseIds)
    /\ {"RUN_TIMEOUT_EXCEEDED", "RUN_CASE_FAILED", "ENGINE_START_FAILED",
        "ENGINE_NOT_SUPPORTED"} \subseteq FailureCodes

MaxConsecutiveEngineLifecycleFailures == 3

Now == 0            \* time is abstracted: every instant is this one

\* A RunCancelledError or an AbortError; not a failure code.  The catches take
\* the plugin's AbortError for a cancellation whether or not the run is being
\* cancelled.
Cancelled == "cancelled"

VARIABLES
    run,            \* the run's record in the store
    s,              \* the local variables of executeSweepRun, see Session
    engine,         \* what the plugin holds for the run
    awaiting        \* a cancel request awaits the canceller

vars == <<run, s, engine, awaiting>>

\* How a case went.  "stopFailed": the stop in its finally failed, whatever
\* came before.
Verdicts == {"completed", "execution", "lifecycle", "validation",
             "cancelled", "timeout", "stopFailed"}

Session == [pc : {"idle", "validating", "building", "starting", "readying",
                  "executing", "metrics", "caseStopping", "persisting",
                  "stopping", "done"},
            next : Nat \ {0},               \* nextCaseIndex, from one
            consecutive : 0 .. MaxConsecutiveEngineLifecycleFailures,
            verdicts : Seq(Verdicts),       \* of the cases that ended
            cancellationRequested : BOOLEAN,
            aborted : BOOLEAN,              \* abortController.signal.aborted
            expired : BOOLEAN,              \* now() >= runDeadlineMs
            engineContext : BOOLEAN,        \* engineContext is set
            engineStop : {"idle", "inFlight", "completed"},
            stopWaiters : SUBSET {"canceller", "case", "final"}]

-------------------------------------------------------------------------------
(* The engine and its stop.  An operator maps a pair of session and engine *)
(* to the pair after the call.                                             *)

Pair(session, e) == [s |-> session, e |-> e]

\* stopEngine(), with those who will wait for it.  plugin.stop() is over at
\* once when the plugin has no entry for the run; a completed stop clears the
\* engine context.
StopEngine(p, waiters) ==
    IF ~ p.s.engineContext \/ p.s.engineStop = "completed"
    THEN p
    ELSE IF p.s.engineStop = "inFlight"
    THEN [p EXCEPT !.s.stopWaiters = @ \cup waiters]
    ELSE IF p.e.active
    THEN [p EXCEPT !.s.engineStop = "inFlight", !.s.stopWaiters = waiters,
                   !.e = StopRunState(@)]
    ELSE [p EXCEPT !.s.engineStop = "completed", !.s.engineContext = FALSE]

Stopped(session) ==
    IF session.engineStop # "inFlight"
    THEN session
    ELSE [session EXCEPT !.engineStop = "completed", !.engineContext = FALSE,
                         !.stopWaiters = {}]

\* The verdicts a failed stop does not replace (preservePrimaryFailure).
Preserved == {"cancelled", "timeout"}

\* The stop in flight rejects: every waiter learns of it, and a case in its
\* finally throws a FatalRunExecutionError unless it is throwing already.
StopFailed(session) ==
    LET told == [session EXCEPT !.engineStop = "idle", !.stopWaiters = {}]
    IN  IF session.engineStop # "inFlight"
        THEN session
        ELSE IF "case" \in session.stopWaiters
                /\ Last(session.verdicts) \notin Preserved
        THEN [told EXCEPT !.verdicts[Len(told.verdicts)] = "stopFailed"]
        ELSE told

-------------------------------------------------------------------------------
(* The ends of a case and of the run.                                      *)

FailSweepRunWithRemainingCases(r, next, code) ==
    LET remaining == SubSeq(Sweep, next, Len(Sweep))
        started   == IF next = 1 THEN MarkRunRunning(r, Now) ELSE r
    IN  FailRun(RecordCasesFailed(started, remaining), Now, code)

\* The catch of executeSweepRun.
Caught(session, r, code) ==
    /\ s' = [session EXCEPT !.pc = "persisting"]
    /\ run' = IF code = Cancelled \/ session.cancellationRequested
              THEN CancelRun(r, Now)
              ELSE FailSweepRunWithRemainingCases(r, session.next, code)

\* The head of the loop and what follows it, with the same two checks.
CaseLoop(session, r) ==
    IF session.cancellationRequested \/ session.aborted
    THEN Caught(session, r, Cancelled)
    ELSE IF session.expired
    THEN Caught(session, r, "RUN_TIMEOUT_EXCEEDED")
    ELSE IF session.next <= Len(Sweep)
    THEN /\ s' = [session EXCEPT !.pc = "validating"]
         /\ run' = RecordCaseStarted(r, Sweep[session.next])
    ELSE /\ s' = [session EXCEPT !.pc = "persisting"]
         /\ run' = CompleteRun(r, Now)

\* Mutant of FinishCase: the case does not wait for its engine's stop.
FinishCaseWithoutWaiting(verdict, r, session, e) ==
    LET p == StopEngine(Pair([session EXCEPT
                                 !.pc = "caseStopping",
                                 !.verdicts = Append(@, verdict)], e),
                        {})
    IN  /\ run' = r
        /\ s' = p.s
        /\ engine' = p.e

\* The case's outcome is on record; its finally calls stopEngine.
FinishCase(verdict, r, session, e) ==
    LET p == StopEngine(Pair([session EXCEPT
                                 !.pc = "caseStopping",
                                 !.verdicts = Append(@, verdict)], e),
                        {"case"})
    IN  /\ run' = r
        /\ s' = p.s
        /\ engine' = p.e

\* The catch of executeSweepCase, for an error that is not a run timeout; the
\* verdict of an AbortError is "cancelled".
CaseThrows(verdict, session, e) ==
    IF verdict = "cancelled" \/ session.cancellationRequested \/ session.aborted
    THEN FinishCase("cancelled", run, session, e)
    ELSE FinishCase(verdict, RecordCaseFailed(run, Sweep[session.next]),
                    session, e)

-------------------------------------------------------------------------------
(* The steps of the orchestration and of the engine.                       *)

At(pc) == s.pc = pc

\* executeSweepRun up to its first await.
Begin ==
    /\ At("idle")
    /\ CaseLoop(s, MarkRunRunning(run, Now))
    /\ UNCHANGED <<engine, awaiting>>

\* executeSweepRunOrFailMissingPlugin finds no plugin; nothing is persisted.
MissingPlugin ==
    /\ At("idle")
    /\ s' = [s EXCEPT !.pc = "done"]
    /\ run' = FailSweepRunWithRemainingCases(run, 1, "ENGINE_NOT_SUPPORTED")
    /\ UNCHANGED <<engine, awaiting>>

Deadline == s.pc \notin {"idle", "persisting", "stopping", "done"} /\ ~ s.expired

DeadlinePasses ==
    /\ Deadline
    /\ s' = [s EXCEPT !.expired = TRUE]
    /\ UNCHANGED <<run, engine, awaiting>>

ValidationAccepts ==
    /\ At("validating")
    /\ s' = [s EXCEPT !.pc = "building"]
    /\ UNCHANGED <<run, engine, awaiting>>

\* validateRunConfig() answers that the case is not valid, or rejects, with an
\* AbortError or another.
ValidationRefuses(answer) ==
    LET failed == [s EXCEPT !.verdicts = Append(@, "validation"),
                            !.next = @ + 1]
    IN  /\ At("validating")
        /\ IF \/ answer = "abortError"
              \/ answer = "error" /\ (s.cancellationRequested \/ s.aborted)
           THEN Caught(s, run, Cancelled)
           ELSE CaseLoop(failed, RecordCaseFailed(run, Sweep[s.next]))
        /\ UNCHANGED <<engine, awaiting>>

\* Mutant of BuildResolves: start() does not look at the signal.
BuildResolvesRegardless ==
    /\ At("building")
    /\ s' = [s EXCEPT !.engineContext = TRUE, !.engineStop = "idle",
                      !.pc = "starting"]
    /\ engine' = Spawn(NoEngine)
    /\ UNCHANGED <<run, awaiting>>

\* buildLaunchConfig() settles; setEngineContext opens the engine's window for
\* stopEngine, and plugin.start() is called, which rejects when aborted.
BuildResolves ==
    LET opened == [s EXCEPT !.engineContext = TRUE, !.engineStop = "idle"]
    IN  /\ At("building")
        /\ IF s.aborted
           THEN CaseThrows("lifecycle", opened, engine)
           ELSE /\ s' = [opened EXCEPT !.pc = "starting"]
                /\ engine' = Spawn(NoEngine)
                /\ UNCHANGED run
        /\ UNCHANGED awaiting

BuildRejects(verdict) ==
    /\ At("building")
    /\ CaseThrows(verdict, s, engine)
    /\ UNCHANGED awaiting

\* Mutant of RunTimerArmed: validateRunConfig() is awaited without a timer.
RunTimerArmedFromBuild ==
    /\ s.expired
    /\ s.pc \in {"building", "starting", "readying", "metrics"}

RunTimerArmed ==
    /\ s.expired
    /\ s.pc \in {"validating", "building", "starting", "readying", "metrics"}

\* The run timer aborts the run; the engine is left to the case's finally.
RunTimer ==
    LET aborted == [s EXCEPT !.aborted = TRUE]
    IN  /\ RunTimerArmed
        /\ IF s.pc = "validating"
           THEN /\ Caught(aborted, run, "RUN_TIMEOUT_EXCEEDED")
                /\ engine' = OnAbort(engine)
           ELSE FinishCase("timeout", run, aborted, OnAbort(engine))
        /\ UNCHANGED awaiting

\* plugin.start() settles, awaited or, after the run's timer, not any more.
StartResolves(listens) ==
    LET started == Activate(engine, s.aborted, listens)
    IN  /\ engine.start = "pending"
        /\ engine.process = "alive"
        /\ IF At("starting")
           THEN /\ s' = [s EXCEPT !.pc = "readying"]
                /\ engine' = WaitUntilReady(started, s.aborted)
           ELSE engine' = started /\ UNCHANGED s
        /\ UNCHANGED <<run, awaiting>>

StartRejects(verdict) ==
    /\ engine.start = "pending"
    /\ IF At("starting")
       THEN CaseThrows(verdict, s, FailStart(engine))
       ELSE engine' = FailStart(engine) /\ UNCHANGED <<run, s>>
    /\ UNCHANGED awaiting

ReadyResolves ==
    LET ready == [engine EXCEPT !.probe = "none"]
    IN  /\ engine.probe = "probing"
        /\ engine.process = "alive"
        /\ IF ~ At("readying")
           THEN engine' = ready /\ UNCHANGED <<run, s>>
           ELSE IF s.cancellationRequested \/ s.aborted
           THEN FinishCase("cancelled", run, s, ready)
           ELSE /\ s' = [s EXCEPT !.pc = "executing"]
                /\ engine' = ready
                /\ UNCHANGED run
        /\ UNCHANGED awaiting

ReadinessFails ==
    /\ engine.probe = "probing"
    /\ engine' = FailReadiness(engine)
    /\ UNCHANGED <<run, s, awaiting>>

ReadyRejects(verdict) ==
    LET failed == [engine EXCEPT !.probe = "none"]
    IN  /\ engine.probe = "failing"
        /\ ~ engine.stopping
        /\ IF At("readying")
           THEN CaseThrows(verdict, s, failed)
           ELSE engine' = failed /\ UNCHANGED <<run, s>>
        /\ UNCHANGED awaiting

EngineExits ==
    /\ engine.process = "alive"
    /\ engine.start = "settled"
    /\ engine' = Exit(engine)
    /\ s' = Stopped(s)
    /\ UNCHANGED <<run, awaiting>>

StopGivesUp ==
    /\ engine.stopping
    /\ engine' = GiveUpStop(engine)
    /\ s' = StopFailed(s)
    /\ UNCHANGED <<run, awaiting>>

\* ENGINE_STOP_TIMEOUT_MS.
StopTimerArmed == s.engineStop = "inFlight"

StopTimesOut ==
    /\ StopTimerArmed
    /\ s' = StopFailed(s)
    /\ UNCHANGED <<run, engine, awaiting>>

CaseResolves ==
    /\ At("executing")
    /\ engine.process = "alive"
    /\ s' = [s EXCEPT !.pc = "metrics"]
    /\ UNCHANGED <<run, engine, awaiting>>

CaseRejects(verdict) ==
    /\ At("executing")
    /\ CaseThrows(verdict, s, engine)
    /\ UNCHANGED awaiting

\* The timer of executeCase(): past the run's deadline it is the run's.
CaseTimer ==
    /\ At("executing")
    /\ IF s.expired
       THEN FinishCase("timeout", run, s, engine)
       ELSE CaseThrows("execution", s, engine)
    /\ UNCHANGED awaiting

\* collectMetrics() settles; a rejection is swallowed.
MetricsSettle ==
    /\ At("metrics")
    /\ FinishCase("completed", RecordCaseCompleted(run, Sweep[s.next]), s, engine)
    /\ UNCHANGED awaiting

CaseStopIsOver == At("caseStopping") /\ "case" \notin s.stopWaiters

\* Mutant of ConsecutiveFailures: an engine that came up does not reset it.
ConsecutiveFailuresNeverReset(verdict) ==
    s.consecutive + (IF verdict = "lifecycle" THEN 1 ELSE 0)

\* consecutiveEngineLifecycleFailures once a case that reached the engine has
\* returned; both other verdicts say that the engine came up.
ConsecutiveFailures(verdict) ==
    IF verdict = "lifecycle" THEN s.consecutive + 1 ELSE 0

\* Mutant of CaseReturns: the third lifecycle failure leaves nextCaseIndex at
\* its case.
CaseReturnsNotAdvanced ==
    LET verdict == Last(s.verdicts)
        counted == [s EXCEPT !.consecutive = ConsecutiveFailures(verdict)]
    IN  /\ CaseStopIsOver
        /\ IF verdict = "cancelled"
           THEN Caught(s, run, Cancelled)
           ELSE IF verdict = "timeout"
           THEN Caught(s, run, "RUN_TIMEOUT_EXCEEDED")
           ELSE IF verdict = "stopFailed"
           THEN Caught(s, run, "RUN_CASE_FAILED")
           ELSE IF counted.consecutive >= MaxConsecutiveEngineLifecycleFailures
           THEN Caught(counted, run, "ENGINE_START_FAILED")
           ELSE CaseLoop([counted EXCEPT !.next = @ + 1], run)
        /\ UNCHANGED <<engine, awaiting>>

\* executeSweepCase returns to the loop, or throws into its catch.  A run
\* timeout, a cancellation and a failed stop leave nextCaseIndex where it is.
CaseReturns ==
    LET verdict == Last(s.verdicts)
        counted == [s EXCEPT !.consecutive = ConsecutiveFailures(verdict),
                             !.next = @ + 1]
    IN  /\ CaseStopIsOver
        /\ IF verdict = "cancelled"
           THEN Caught(s, run, Cancelled)
           ELSE IF verdict = "timeout"
           THEN Caught(s, run, "RUN_TIMEOUT_EXCEEDED")
           ELSE IF verdict = "stopFailed"
           THEN Caught(s, run, "RUN_CASE_FAILED")
           ELSE IF counted.consecutive >= MaxConsecutiveEngineLifecycleFailures
           THEN Caught(counted, run, "ENGINE_START_FAILED")
           ELSE CaseLoop(counted, run)
        /\ UNCHANGED <<engine, awaiting>>

\* persistRunArtifact settles, and the finally of executeSweepRun begins.
Persisted ==
    LET p == StopEngine(Pair(s, engine), {"final"})
    IN  /\ At("persisting")
        /\ s' = [p.s EXCEPT !.pc = "stopping"]
        /\ engine' = p.e
        /\ UNCHANGED <<run, awaiting>>

FinalStopIsOver == At("stopping") /\ "final" \notin s.stopWaiters

ExecuteReturns ==
    /\ FinalStopIsOver
    /\ s' = [s EXCEPT !.pc = "done"]
    /\ UNCHANGED <<run, engine, awaiting>>

-------------------------------------------------------------------------------
(* Cancellation.                                                           *)

\* The canceller of the run: called by the cancel route, or (byRoute = FALSE)
\* by the shutdown, which does not call cancelRun.
CancelRequest(byRoute) ==
    LET told  == [s EXCEPT !.cancellationRequested = TRUE, !.aborted = TRUE]
        p     == StopEngine(Pair(told, OnAbort(engine)), {"canceller"})
        waits == "canceller" \in p.s.stopWaiters
    IN  /\ IsRunStatusCancellable(run.status)
        /\ s.pc # "idle"
        /\ ~ s.cancellationRequested
        /\ s' = p.s
        /\ engine' = p.e
        /\ awaiting' = (byRoute /\ waits)
        /\ run' = IF byRoute /\ ~ waits THEN CancelRun(run, Now) ELSE run

CancellationIsOver == awaiting /\ "canceller" \notin s.stopWaiters

CancellationSettles ==
    /\ CancellationIsOver
    /\ awaiting' = FALSE
    /\ run' = CancelRun(run, Now)
    /\ UNCHANGED <<s, engine>>

-------------------------------------------------------------------------------
Init ==
    /\ run = QueuedRun(Len(Sweep))
    /\ s = [pc |-> "idle", next |-> 1, consecutive |-> 0, verdicts |-> <<>>,
            cancellationRequested |-> FALSE, aborted |-> FALSE,
            expired |-> FALSE, engineContext |-> FALSE, engineStop |-> "idle",
            stopWaiters |-> {}]
    /\ engine = NoEngine
    /\ awaiting = FALSE

PluginStep ==
    \/ ValidationAccepts
    \/ \E answer \in {"invalid", "error", "abortError"} : ValidationRefuses(answer)
    \/ BuildResolves
    \/ \E listens \in AbortListeners : StartResolves(listens)
    \/ ReadyResolves \/ ReadinessFails
    \/ \E verdict \in {"lifecycle", "cancelled"} :
          BuildRejects(verdict) \/ StartRejects(verdict) \/ ReadyRejects(verdict)
    \/ EngineExits \/ StopGivesUp
    \/ CaseResolves
    \/ \E verdict \in {"execution", "cancelled"} : CaseRejects(verdict)
    \/ MetricsSettle

\* What waits for nothing but settled promises goes on before anything else.
MicrotaskPending == CaseStopIsOver \/ FinalStopIsOver \/ CancellationIsOver

Microtask == CaseReturns \/ ExecuteReturns \/ CancellationSettles

Macrotask ==
    \/ Begin \/ MissingPlugin
    \/ PluginStep
    \/ DeadlinePasses \/ RunTimer \/ CaseTimer \/ StopTimesOut
    \/ Persisted
    \/ \E byRoute \in BOOLEAN : CancelRequest(byRoute)

Next == Microtask \/ (~ MicrotaskPending /\ Macrotask)

\* What the event loop owes, as in RunServer: a deadline passes, an armed timer
\* fires, a write settles, a function whose await is over goes on.  Nothing is
\* owed by the plugin.
Fairness ==
    /\ []<> ~ At("idle")
    /\ []<> ~ Deadline
    /\ []<> ~ RunTimerArmed
    /\ \A n \in DOMAIN Sweep : []<> ~ (At("executing") /\ s.next = n)
    /\ []<> ~ StopTimerArmed
    /\ []<> ~ At("persisting")
    /\ []<> ~ CaseStopIsOver
    /\ []<> ~ FinalStopIsOver
    /\ []<> ~ CancellationIsOver

Spec == Init /\ [][Next]_vars

FairSpec == Spec /\ Fairness

-------------------------------------------------------------------------------
(***************************************************************************)
(* Properties.                                                             *)
(***************************************************************************)

Outcomes == [i \in DOMAIN run.caseOutcomes |-> run.caseOutcomes[i].caseId]

StopHasFailed == s.verdicts # <<>> /\ Last(s.verdicts) = "stopFailed"

\* The sweep with its current case recorded twice.
Twice == SubSeq(Sweep, 1, s.next) \o SubSeq(Sweep, s.next, Len(Sweep))

\* However a sweep goes, its outcomes follow the expanded sweep place by place,
\* and a sweep that ends other than by cancellation has one for every case, no
\* matter which cases share an identity - except that the case whose engine
\* could not be stopped has two.
EverySweepCaseAccountedFor ==
    /\ IsPrefix(Outcomes, Sweep) \/ (StopHasFailed /\ Outcomes = Twice)
    /\ run.status \in {"completed", "failed"} =>
          Outcomes = IF StopHasFailed THEN Twice ELSE Sweep

\* The lifecycle failures since an engine last came up.
Streak(verdicts) ==
    Cardinality({i \in DOMAIN verdicts :
        /\ verdicts[i] = "lifecycle"
        /\ \A j \in DOMAIN verdicts :
            j > i => verdicts[j] \notin {"completed", "execution"}})

\* "MAX_CONSECUTIVE_ENGINE_LIFECYCLE_FAILURES = 3", and pure validation
\* failures neither count nor break the row: no case is begun after the third,
\* and no sweep is given up for fewer.
GivesUpAfterThreeInARow ==
    /\ \A n \in 0 .. Len(s.verdicts) - 1 :
        Streak(SubSeq(s.verdicts, 1, n)) < MaxConsecutiveEngineLifecycleFailures
    /\ run.failure = "ENGINE_START_FAILED"
        => Streak(s.verdicts) = MaxConsecutiveEngineLifecycleFailures

\* An engine is spawned only once the plugin has let go of the engine of the
\* case before: it holds no entry and has no stop in flight.  Its process is
\* gone, too, if that engine ever came up: only after a lifecycle failure, when
\* the stop of waitUntilReady itself gave up, can it still be there.
NextEngineWaitsForTheLast ==
    [][engine.start # "pending" /\ engine'.start = "pending"
        => /\ ~ engine.active /\ ~ engine.stopping
           /\ engine.process = "alive" => Streak(s.verdicts) > 0]_vars

\* Once a sweep is cancelled or its run timer has fired no case begins and no
\* engine is spawned, whatever phase the current case is in.
NoSweepWorkAfterAbort ==
    [][s.aborted =>
        /\ s'.pc = "validating" => s.pc = "validating"
        /\ engine.start # "pending" => engine'.start # "pending"]_vars

\* Every sweep ends and returns, whatever the plugin does or fails to do.
EverySweepReturns == <> At("done")

===============================================================================
