------------------------------- MODULE RunStore -------------------------------
(***************************************************************************)
(* InMemoryRunStore (src/server/runs/in-memory-run-store/index.ts) under   *)
(* any caller: every public mutating method, in any order, on any run, at  *)
(* any time.  The methods are synchronous, so each is one step.            *)
(*                                                                         *)
(* Run identifiers are random UUIDs the store draws itself, never used     *)
(* twice; here the n-th run created is run n, and the insertion order of   *)
(* the Map, which eviction follows, is the order of the numbers.           *)
(***************************************************************************)
EXTENDS RunRecords

CONSTANTS
    MaxRuns,            \* bound: the runs ever created
    MaxOutcomes,        \* bound: the outcomes callers record for one run
    MaxTotalCases,      \* bound: the number of cases a run is created with
    MaxClock,           \* bound: the last instant of the clock
    MaxTrackedRuns,     \* maxTrackedRuns
    RetentionMs         \* terminalRunRetentionMs

ASSUME RunStoreAssumption ==
    /\ MaxRuns \in Nat
    /\ MaxOutcomes \in Nat
    /\ MaxTotalCases \in Nat
    /\ MaxClock \in Nat
    /\ MaxTrackedRuns \in Nat
    /\ RetentionMs \in Nat

RunIds == 1 .. MaxRuns

VARIABLES
    runs,       \* the three maps, by run
    created,    \* how many runs have been created
    clock       \* Date.now()

vars == <<runs, created, clock>>

-------------------------------------------------------------------------------
Tracked == {r \in RunIds : runs[r].status # "untracked"}

TerminalRuns == {r \in RunIds : IsRunStatusTerminal(runs[r].status)}

\* Mutant of HasActiveRun: a queued run does not count.
HasActiveRunRunningOnly == \E r \in Tracked : runs[r].status = "running"

HasActiveRun == \E r \in Tracked : runs[r].status \in {"queued", "running"}

\* pruneExpiredTerminalRuns: the terminal runs past their retention.
Expired(now) ==
    {r \in TerminalRuns : now - runs[r].finishedAt >= RetentionMs}

\* Mutant of Evicted: the newest ended run goes first.
EvictedNewestFirst(now) ==
    LET kept    == Tracked \ Expired(now)
        surplus == Cardinality(kept) - MaxTrackedRuns + 1
        newer(r) == {q \in TerminalRuns \cap kept : q >= r}
    IN  {r \in TerminalRuns \cap kept : Cardinality(newer(r)) <= surplus}

\* Mutant of Evicted: the loop runs once more than it has to.
EvictedOneTooMany(now) ==
    LET kept    == Tracked \ Expired(now)
        surplus == Cardinality(kept) - MaxTrackedRuns + 2
        older(r) == {q \in TerminalRuns \cap kept : q <= r}
    IN  {r \in TerminalRuns \cap kept : Cardinality(older(r)) <= surplus}

\* ensureCapacity's loop: with the expired runs gone it drops the oldest
\* terminal run until fewer than MaxTrackedRuns runs are left, or no
\* terminal run is.
Evicted(now) ==
    LET kept    == Tracked \ Expired(now)
        surplus == Cardinality(kept) - MaxTrackedRuns + 1
        older(r) == {q \in TerminalRuns \cap kept : q <= r}
    IN  {r \in TerminalRuns \cap kept : Cardinality(older(r)) <= surplus}

Dropped(now) == Expired(now) \cup Evicted(now)

\* Whether ensureCapacity(now) returns true.
HasCapacity(now) == Cardinality(Tracked \ Dropped(now)) < MaxTrackedRuns

\* deleteRun for every dropped run.
WithoutDropped(now) ==
    [r \in RunIds |-> IF r \in Dropped(now) THEN NoRun ELSE runs[r]]

-------------------------------------------------------------------------------
Init ==
    /\ runs = [r \in RunIds |-> NoRun]
    /\ created = 0
    /\ clock = 0

Tick ==
    /\ clock < MaxClock
    /\ clock' = clock + 1
    /\ UNCHANGED <<runs, created>>

\* tryCreateQueuedRunDetailed, when it succeeds.
TryCreateQueuedRun(totalCases) ==
    /\ created < MaxRuns
    /\ ~ HasActiveRun
    /\ HasCapacity(clock)
    /\ created' = created + 1
    /\ runs' = [WithoutDropped(clock) EXCEPT ![created + 1] =
                    QueuedRun(totalCases)]
    /\ UNCHANGED clock

\* ensureCapacity on its own (it is public), and what it has already done when
\* tryCreateQueuedRunDetailed answers "capacity": it prunes even if it then
\* finds no room.
EnsureCapacity ==
    /\ runs' = WithoutDropped(clock)
    /\ UNCHANGED <<created, clock>>

\* The methods that change one run.
Update(r, run) ==
    /\ runs' = [runs EXCEPT ![r] = run]
    /\ UNCHANGED <<created, clock>>

MarkRunning(r) == Update(r, MarkRunRunning(runs[r], clock))

CaseStarted(r, c) == Update(r, RecordCaseStarted(runs[r], c))

CaseCompleted(r, c) ==
    /\ Len(runs[r].caseOutcomes) < MaxOutcomes
    /\ Update(r, RecordCaseCompleted(runs[r], c))

CaseFailed(r, c) ==
    /\ Len(runs[r].caseOutcomes) < MaxOutcomes
    /\ Update(r, RecordCaseFailed(runs[r], c))

Complete(r) == Update(r, CompleteRun(runs[r], clock))

Fail(r, code) == Update(r, FailRun(runs[r], clock, code))

Cancel(r) == Update(r, CancelRun(runs[r], clock))

Next ==
    \/ Tick
    \/ EnsureCapacity
    \/ \E n \in 0 .. MaxTotalCases : TryCreateQueuedRun(n)
    \/ \E r \in Tracked :
        \/ MarkRunning(r)
        \/ Complete(r)
        \/ Cancel(r)
        \/ \E code \in FailureCodes : Fail(r, code)
        \/ \E c \in CaseIds : CaseStarted(r, c)
        \/ \E c \in CaseIds : CaseCompleted(r, c)
        \/ \E c \in CaseIds : CaseFailed(r, c)

Spec == Init /\ [][Next]_vars

-------------------------------------------------------------------------------
(***************************************************************************)
(* Properties.                                                             *)
(***************************************************************************)

\* Every variable stays in its type; a run not yet created has no entry.
TypeOK ==
    /\ runs \in [RunIds -> RunRecord]
    /\ created \in 0 .. MaxRuns
    /\ clock \in 0 .. MaxClock
    /\ \A r \in RunIds : r > created => runs[r] = NoRun

\* At most one run is queued or running at any time, whatever the callers do:
\* tryCreateQueuedRunDetailed checks and inserts with no await in between.
AtMostOneActiveRun ==
    \A q, r \in Tracked :
        /\ IsRunStatusCancellable(runs[q].status)
        /\ IsRunStatusCancellable(runs[r].status)
        => q = r

\* The result kept for a run is the final word on it: a run has a result
\* exactly from the call that ends it, and the result still equals what would
\* be built from the record now - no late case or second ending has moved the
\* record away from the snapshot.
ResultIsFinalSnapshot ==
    \A r \in RunIds :
        runs[r].result = IF IsRunStatusTerminal(runs[r].status)
                         THEN BuildRunResult(runs[r])
                         ELSE NoResult

CountOutcomes(run, status) ==
    Cardinality({i \in DOMAIN run.caseOutcomes :
                    run.caseOutcomes[i].status = status})

\* The counters a client polls agree with the outcomes the result will list,
\* and never claim more finished cases than cases (reconcileTotalCases raises
\* the total when a caller reports more than it announced).
ProgressMatchesOutcomes ==
    \A r \in RunIds :
        /\ runs[r].completedCases = CountOutcomes(runs[r], "completed")
        /\ runs[r].failedCases = CountOutcomes(runs[r], "failed")
        /\ runs[r].completedCases + runs[r].failedCases <= runs[r].totalCases

\* A subscriber closes its stream on the terminal event: the log of a run
\* holds one exactly when the run has ended, as the log's last event, and the
\* ring never drops it.
TerminalEventClosesLog ==
    \A r \in Tracked :
        LET log == runs[r].events
        IN  \A i \in 1 .. Len(log) :
                (log[i].event \in TerminalEvents)
                    <=> (i = Len(log) /\ IsRunStatusTerminal(runs[r].status))

\* Replayed progress only grows, and the newest event carries the run's
\* current counters, so a client that connects late ends with the truth.
ReplayEndsAtCurrentProgress ==
    \A r \in Tracked :
        LET log == runs[r].events
        IN  /\ log # <<>>
            /\ log[Len(log)].progress = BuildProgress(runs[r])
            /\ \A i \in 1 .. Len(log) - 1 :
                  /\ log[i].progress.totalCases <= log[i + 1].progress.totalCases
                  /\ log[i].progress.completedCases
                        <= log[i + 1].progress.completedCases
                  /\ log[i].progress.failedCases
                        <= log[i + 1].progress.failedCases

\* The store never holds more runs than it may, and with no run active it can
\* always make room for the next one: the "capacity" refusal of
\* tryCreateQueuedRunDetailed (and the 409 the route derives from it) needs a
\* limit of zero.
RoomForTheNextRun ==
    /\ Cardinality(Tracked) <= MaxTrackedRuns
    /\ (~ HasActiveRun /\ MaxTrackedRuns > 0) => HasCapacity(clock)

\* What a client reads from the log is the whole truth: where the run stands,
\* and when to stop reading.
LogEndsWithTheTruth == TerminalEventClosesLog /\ ReplayEndsAtCurrentProgress

\* A run that has ended is history: no call changes any part of it, until the
\* store forgets it as a whole.
EndedRunsNeverChange ==
    [][\A r \in RunIds :
            IsRunStatusTerminal(runs[r].status)
                => runs'[r] \in {runs[r], NoRun}]_vars

\* The store forgets a run only after it has ended, and one still within its
\* retention only together with every older run that has ended.
ForgetsOldestFirst ==
    [][\A r \in Tracked :
            runs'[r] = NoRun
                => /\ r \in TerminalRuns
                   /\ \/ r \in Expired(clock)
                      \/ \A q \in TerminalRuns : q < r => runs'[q] = NoRun]_vars

\* The store forgets a run that is still within its retention only to bring the
\* runs it keeps down to one below its limit, and no further.
SparesWhatItCan ==
    [][(\E r \in Tracked \ Expired(clock) : runs'[r] = NoRun)
            => Cardinality({q \in Tracked : runs'[q] # NoRun})
                    >= MaxTrackedRuns - 1]_vars

\* Eviction forgets neither too little nor too much, and in the right order: it
\* makes room for the next run, takes the oldest of the ended runs first, and
\* takes no run once there is room.
EvictionKeepsItsPromise ==
    []RoomForTheNextRun /\ ForgetsOldestFirst /\ SparesWhatItCan

\* Seen through its statuses alone the store implements RunLifecycle.
Lifecycle == INSTANCE RunLifecycle
                 WITH status <- [r \in RunIds |-> runs[r].status]

ImplementsLifecycle == Lifecycle!Spec

===============================================================================
