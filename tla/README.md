# Chimera Bench: specifications of the run server

Chimera Bench is a server that benchmarks inference engines.  A client posts a
run; the server starts an engine (llama.cpp's `llama-server`), sends it the cases
of a workload or of an expanded sweep, records the outcomes, streams progress and
writes a result.  One run at a time; everything lives in one process and one event
loop, so "concurrency" means: what runs between two `await`s is atomic, and
everything else may interleave.

A command line beside the server runs ssh on the machines the server knows as targets.

These modules model the part of that program whose mistakes a unit test would hardly
reach.  Paths below are relative to the repository's `src/src/server/`, those that begin
with `cli/` to `src/src/`.

## 1. Inventory

| Component | State | Operations | Interacts with |
| --- | --- | --- | --- |
| Run store (`runs/in-memory-run-store`) | maps of run records, results, event logs, listeners | create, mark running, case started/completed/failed, complete/fail/cancel, prune and evict, subscribe | called by the routes and the orchestrator; calls SSE listeners |
| Runtime control (`runtime-control.ts`) | accepting flag, the active run's canceller, the cancellation in flight, engine handles, SSE streams | set/unset canceller, cancel the active run, register/clean up engines and streams | shared by routes, orchestrator and shutdown |
| Run orchestrator (`runs/run-orchestrator`) | per run: abort controller, engine context, stop promise, next case | `execute()` | engine plugin, store, artifacts, runtime control |
| Sweep execution (`runs/run-orchestrator/sweep-execution`) | as above, and the count of consecutive lifecycle failures | `executeSweepRun`, `executeSweepCase` | as above, one engine per case |
| Engine plugin (`engines/starter-engine`) | `runStates`: process, abort listener, stop promise | build, start, wait until ready, execute, stop | child process, SSH |
| Artifact store (`runs/run-artifact-store.ts`) | files, write failures | write, read | orchestrator, cancel route, result route |
| Run routes (`routes/run-routes`) | none | POST /runs, cancel, status, result, events | everything above |
| Shutdown (`start-server.ts`) | memoised stop promise | cancel, clean up, close streams, stop listening | runtime control |
| SSE (`sse/sse-response.ts`) | stream, subscription, heartbeat | replay, subscribe, close | store, runtime control |
| Sweep planning (`runs/sweep-validation`, `runs/sweep-expansion.ts`) | none | validate, count, expand | POST /runs |
| Sweep ranking (`in-memory-run-store/results.ts`) | none | rank | result building |
| Auth limiter (`middleware/basic-auth.ts`) | failure records by client | blocked?, record, clear, prune, evict | every request |
| Target profiles (`targets/`, `routes/target-routes.ts`) | one JSON file per profile | list, get, upsert, delete | target routes, SSH mode, command line |
| Discovery (`engines/starter-engine/dependencies.ts`, `run-config-validation.ts`, `mixed-gpu-guard.ts`) | TTL cache of remote summaries, discoveries in flight, promise of the local flags | discover, validate | POST /runs, ssh |
| SSH mode of the plugin (`engines/starter-engine/startup.ts`, `run-state.ts`, `run-state/remote-cleanup.ts`) | reserved remote ports, local ssh processes, remote servers | start with retries, stop, clean up | ssh, the remote machine |
| `targets` subcommands (`cli/targets-command/`, `ssh/`) | one ssh process, its timers, signal handlers | check, exec, forward | ssh, signals |
| Engine environment memo (`routes/engine-routes.ts`) | one status per plugin | load | GET /engines |
| Application, schemas, OpenAPI, configuration, mDNS, packaging | none that changes | | everything above |

What makes each correct:

* Store: one active run; a result is the final word; counters agree with outcomes;
  the bounded log still ends with the truth; eviction forgets oldest ended runs first,
  always leaves room, and forgets no more than it takes for that.
* Runtime control and routes: a cancel request reaches the run it names; a run that is
  over does not take its successor's canceller with it; nothing starts once the
  shutdown has begun.
* Orchestrators: every case has exactly one outcome however the run goes; no work after
  an abort; no engine outlives its run; the run ends whatever the plugin does.
* Artifacts: what is on disk is what the store keeps, or a failure is on record.
* Event streams: a client sees the events of its run without gap or repetition, and its
  stream ends with the run; a stream that is closed holds on to nothing.
* Auth limiter: a client is blocked for its own recent failures only, until the window of
  the first of them ends; what must be forgotten at the limit is the client seen least
  recently, after everything that has expired.
* Sweep planning: the number of cases computed without building them is the number built,
  at every limit; the order of the cases does not depend on the order of the request; a
  rank counts the outcomes that are better, and the ranking does not depend on the order of
  execution.
* Target profiles: to its callers the directory is one map, whatever interleaves, fails or
  crashes; a temporary file belongs to a write in progress.
* Discovery: a verdict rests on what the machine has, or had within a summary's lifetime;
  guard and strict check share one probe; a failed discovery is told to all who wait.
* SSH mode: a port reservation has one holder and comes back; a cleanup leaves no server of
  its run and takes none of another's.
* Subcommands: the first signal ends them, and none leaves an ssh behind.

What is hard: cancellation, timeouts, shutdown and the final cleanup converge on one
stop; answers come after their timer has fired; a new run may be created while the old
one is still cleaning up; a step of several fails; a remote command may be lost while what
it started lives on; files are shared by calls that interleave.  `PROJECT.json` lists the hazards at
their lines, with the properties that would catch them.

## 2. Modules

| Module | Models |
| --- | --- |
| `RunRecords` | a run in the store (record, result, log) and every store method as an operator from a run to the run after the call |
| `RunRecordsProofs` | lemmas about those operators: what a method reports, and the loop that fails the remaining cases |
| `RunStore` | the store under any caller: one action per public mutating method, eviction, retention |
| `RunLifecycle` | the abstract promise: runs are created one at a time, each ends once, then may be forgotten |
| `RunStoreProofs` | theorems about `RunStore`, and on top of them about `RunEventStream` |
| `RuntimeControl` | the canceller, the shared cancellation, the engine handles |
| `EngineSession` | what the engine plugin holds for one run, and what its calls do to it |
| `RunServer` | the composition: routes, plain-run orchestration, artifacts, runtime control, plugin, shutdown |
| `RunServerProofs` | theorems about `RunServer` |
| `SweepRun` | one sweep run with its cases, engines, timers and cancellation |
| `SweepRunProofs` | theorems about `SweepRun` |
| `RunEventStream` | clients following runs over SSE: replay, subscription, every way a stream closes; composes `RunStore` |
| `MapEntries` | the entries of a `Map` in iteration order, some of them deleted: `KeepOnly` |
| `AuthLimiter` | the failure limiter and the middleware around it |
| `AuthPromise` | the abstract promise: windows that vanish at their end, of the clients seen last |
| `SweepPlan` | validation, bounded count, argument limit and expansion of a sweep in POST /runs, and the ranking of its outcomes |
| `TargetProfiles` | the profile store and its routes, one step per file operation |
| `TargetProfilesProofs` | theorems about `TargetProfiles` |
| `ProfileMap` | the abstract promise: one map, each call at one instant |
| `RemoteEngine` | start, stop and cleanup of engines on a remote machine, and the port reservations |
| `RemoteEngineProofs` | theorems about `RemoteEngine` |
| `Discovery` | concurrent `validateRunConfig` over the discovery cache |
| `AdmissionProofs` | theorems about what a request passes on its way to a run: `AuthLimiter`, `Discovery`, `SweepPlan` |
| `TargetsCommand` | one `targets check`, `exec` or `forward` with its ssh and its signals |
| `TargetsCommandProofs` | theorems about `TargetsCommand` |
| `MC*` | instances for TLC |

`RunServer` and `SweepRun` extend `RunRecords` and `EngineSession`, so the store calls
the orchestrators make between two awaits are composed in one action, exactly as the
code makes them.  `RunStore` and `RunServer` both implement `RunLifecycle`, through
`INSTANCE ... WITH status <- ...`; `AuthLimiter` implements `AuthPromise` and
`TargetProfiles` implements `ProfileMap`.  The last four components meet the others through
one promise each - a plugin call that resolves, rejects or never settles, a profile that is
found or not - which is how `EngineSession` and `SweepPlan` see them.

### State and code

`RunStore`: `runs[r]` gathers what the three maps hold for run `r`; `created` counts the
runs, so that insertion order is numeric order; `clock` is `Date.now()`.  Run
identifiers are fresh random UUIDs in the code, never reused.

`RunServer`: `sessions[r]` holds the run's record, the local variables of `execute()`
and its engine.  `pc` names the `await` the function sits at (`building`, `starting`,
`readying`, `executing`, `metrics`, `persisting`, `stopping`).  `next` is
`nextCaseIndex` plus one.  `stopWaiters` says who awaits the stop in flight: the
canceller, the final cleanup, or the shutdown.  `awaiting` are the runs whose cancel
request awaits `cancelActiveRun`; `posting` counts POST requests past the shutdown
check; `shutdown` is where `stopServer` is; `disk` and `writeFailures` are the
artifact store's.

`SweepRun`: the same for one sweep; `s.verdicts` records how each case went (it drives
what `executeSweepCase` returns or throws and is the history `GivesUpAfterThreeInARow`
looks at).  `Sweep` is the sequence of the identities of its cases, and may repeat one.

In both, an `AbortError` the plugin rejects with is taken for a cancellation, whether or not
anyone cancelled: the catches of the code test `isAbortError`, and so the failure codes of a
rejection include the one for it (`Cancelled`).

`RunEventStream` extends `RunStore` with the other side of its events: `streams[t]` are the
local variables of one `createSseResponse`, `listeners` is the store's
`runEventListeners`, `sseStreams` the registry of `RuntimeControl`, `serving` is where
`stopServer` is.  A store method calls its listeners before it returns, so every step of
the store is taken together with `Notify`; the handler of GET `/runs/:runId/event` reads,
replays and subscribes without an `await`, so `Open` is one step.  `history` is a history
variable: every event emitted, also those the log has dropped.

`AuthLimiter`: `limiter.records` is the `Map` in its iteration order (a `set` of a key that
is there keeps its place, `delete` and `set` moves it last), `limiter.operations` the
operation counter modulo the cleanup interval.  The middleware reaches its first `await`
only after all it does to the limiter, so a request is one step.  `attempts` is a history
variable.  Under `windows <- PruneExpired(limiter.records, clock)` it implements
`AuthPromise`.

`SweepPlan`: one request from the schema's output to the list of cases; `planned` and
`cases` are `plannedSweepCases` and `sweepCases` of the route, `response` is what it has
answered or how far it has come.  Between the two the engine
plugin may refuse the run or rewrite its base arguments.  What the code computes in loops is
written as recursive functions of the position; the two sorts are the sorted sequence.  `outcomes` and `ranking` are
those of the run that follows.  Nothing removes a value listed twice on an axis, so two
cases may be equal and share an identity (`Identities`), and a case whose engine could not be
stopped is recorded twice (`Execute`): the ranking has ties, which the code's stable sorts
leave as they were recorded (`Precedes`).

`TargetProfiles`: `files` and `temps` are the directory; `calls[c]` is the request of client
`c`, `at` the file operation its handler awaits, `saw` what it has read of each id.  Every
operation may fail, and `Crash` ends all calls and leaves the files.  `hit`, `applied` and
`litter` are history variables.  A file may be damaged from the start.

`RemoteEngine`: `session[s]` is one `plugin.start()` with what follows it; `at` is the await
of the start (`reserve`, `window`) or of the stop (`term`, `kill`, then the remote commands,
then `release`), `port` the `remotePortReservation` of the attempt or the run state.
`reserved` is `reservedRemotePortsByDestination`, `servers` the processes on the remote
machine, which may outlive their ssh.  A remote command may go unanswered (`answered`), and
may have had its effect all the same.

`Discovery`: `cache` is the `Map` in insertion order, `probes` the discoveries in flight,
`localFlags` the cached promise, `validation[v]` one handler.  A probe reads the binary at
one moment and answers at a later one.  `changedAt` is a history variable.

`TargetsCommand`: `ssh[i]` and `port[i]` belong to attempt `i`; `at` is where the handler
waits; `life` tells `exited` (the process is gone) from `closed` (its pipes too, which is
what the code waits for); `killTimers` are the escalations not cleared yet.

A step that waits only for promises already settled is a *microtask* and goes before
any other step.  Timers, I/O, plugin answers and requests are *macrotasks* in any order.

`EngineSession.AbortListeners` selects the plugin: with `{TRUE}` it is llama.cpp, which
stops its engine by itself when the run's signal fires; with `{FALSE}` a plugin that relies
on `stop()`, which the `EnginePlugin` interface admits; with both, each engine is either.

## 3. Runs

| Run | Instance | Shows |
| --- | --- | --- |
| `store` | 3 runs, store of 2, log of 3 | the store's types, safety and action properties; it implements `RunLifecycle` |
| `server` | 2 runs of one case, llama.cpp | cancellation reaches the run; no work or engine left behind; refinement |
| `server_cases` | 1 run of two cases, a failing disk, either kind of plugin, fairness | one outcome per case; the artifact is the final result; the run ends, cancels are answered, the shutdown completes |
| `sweep` | 4 cases with 2 identities, either kind of plugin, fairness | one outcome per case, three failures in a row, one engine at a time, no work after an abort; the sweep returns |
| `event_stream` | 2 clients, 2 runs, store of 1, log of 2 | no event lost or repeated; nothing held by a closed stream; open streams follow active runs |
| `auth_limiter` | 3 clients, room for 2, 1 failure allowed, windows of 2 of 5 instants | blocked for cause only; refinement of `AuthPromise` |
| `sweep_plan` | up to 2 + 2 axes of up to 3 values, 7 repetitions, limits 2, 6, 7; 3 outcomes ranked | the count, the limits and the expansion agree; the cases follow the sorted axes; a rank counts the better outcomes, ties included; the ranking does not depend on the order of execution |
| `targets` | 2 clients, 2 ids, 2 profiles, 3 calls, 1 I/O error, 1 crash | refinement of `ProfileMap`; temporary files are cleaned up |
| `remote_engine` | 2 sessions of 2 attempts, 2 ports, fairness | reservations have one holder and come back; cleanups are complete and spare others |
| `discovery` | 2 validations at a time and 3 in all, 2 remotes, room for 1 summary, 1 change of a binary, fairness | verdicts rest on fresh knowledge; one probe serves both checks; every validation is answered |
| `targets_cli` | a check, or a forward of 3 attempts, fairness | no ssh left behind; the signal reaches ssh; every subcommand settles |
| `server_leak` | | a disagreement between the code and what the repository says of it, below |

**Bounds.**  `MaxRuns`: two runs are enough for one to meet its predecessor's leftovers;
three in the store, so that a store of two must evict, some by age and some for
room.  `MaxEventsPerRun` is 256 in the code; a log of 3 drops events in every run, and where
the log is not the subject 1 keeps states few.  With `RunEventStream`, a log of 2 drops what
a late client would need, a store of 1 forgets a run at the creation of the next, and no
outcomes are recorded (`MaxOutcomes` 0), the events being many enough without them; its two
clients are interchangeable (symmetry).
`MaxOutcomes`, `MaxTotalCases`: a caller may report more outcomes than it announced
(`reconcileTotalCases`).  `MaxClock`, `RetentionMs`: retention both holds and runs out.
`MaxPosts`: one request in flight is enough to meet a shutdown or an active run.
`MaxWriteFailures`: one run whose artifact cannot be written, or none.  The code forgets the
oldest of more than `MAX_WRITE_FAILURES`, 1000; the models stay within, an assumption the
proofs use too.  Sweeps of four:
the third lifecycle failure in a row has a case after it and may have a success or a
validation failure before it; the four share two identities, as an axis that lists its value
twice makes them.  `AuthLimiter`: three clients over room for two meet eviction, with an interval of 3 the
cleanup falls on every kind of operation, and five instants hold two windows in a row and
a bit.  `SweepPlan`: the number of cases may be one less than, equal to and above each
limit, and every kind of bad axis may stand beside good ones; of three outcomes two may be
equal to the thousandth, or equal altogether, or some failed (`MaxRanked`); an axis lists its
value twice, and a failed stop adds a fourth outcome.  `TargetProfiles`: two calls may meet
over one id and a third find what they left; one error and one crash (`MaxFaults`,
`MaxCrashes`) fall on any operation, the clean-up included.  `RemoteEngine`: one port less
than two sessions of two attempts would like, so that a retry meets the other's
reservation; `Attempts` 2 gives a first, failed attempt and a last one.  `Discovery`: time
is counted in probes (`ProbeMs` 1, a summary lives as long); `MaxClock` 6 is the first
instant that matters (3) and three more, which hold a lifetime and two probes, the longest
wait a verdict may rest on; all machines start with a binary a strict request accepts
(`Installed`), and one of them changes.  `TargetsCommand`:
`AUTO_LOCAL_PORT_ATTEMPTS` is the code's 3.  Every constant but these is
a set of model-level values.

**Fairness.**  Only the event loop is trusted: a deadline passes, an armed timer fires, a
file operation settles, a function whose await is over goes on.  The plugin owes
nothing: it may never answer, and an engine may never stop.  Each fair action makes its
own condition false, so that fairness is written as "the condition is infinitely often
false".  No fairness of requests is assumed.  The modules of the SSH side use weak fairness
of single actions: in `RemoteEngine` every wait of a start or a stop has a timer
(the startup window, two grace periods, `overallTimeoutMs` of each remote command), so its
steps are fair, while nobody owes a stop to a session that is up; in `Discovery` a
continuation runs, and a probe settles because its ssh or process has a timeout, but it may
always reject; in `TargetsCommand` timers fire, a probe of the local port has a timeout, and
SIGKILL kills.  That the pipes of a dead ssh are closed is assumed there: a program that
inherited them would hold up the settlement as long as it lives.

`CHECK_DEADLOCK FALSE` stands in the configurations of `RunServer`, `SweepRun`,
`SweepPlan`, `TargetsCommand`, `TargetProfiles`, `RemoteEngine` and `Discovery`, whose
programs do stop: the process exits, the run has returned, the request is answered, and
clients need not ask again (they may ask `MaxCalls` or `MaxRequests` times, sessions start
once).

### Disagreements found

The run `server_leak` shows one:

*Leaked engine* (`runs/run-orchestrator/index.ts:203`).  The run's deadline passes during
`plugin.start()`; stop finds nothing; the engine that starts later is never stopped.
`OnlyAnAbandonedStartOutlivesItsRun` shows that this is the only way.

These came up while modelling; no run is kept for them:

* *Shared cancellation* (`runtime-control.ts:39`).  A cancel request for run 2 that
  arrives while the cancellation of run 1 still waits for its engine shares that
  promise; run 2 is then marked cancelled and keeps executing.  It needs a plugin without an
  abort listener; with llama.cpp `CancelReachesTheOrchestration` holds (`server`).
* *Stopped twice* (`runs/run-orchestrator/index.ts:135`).  "plugin.stop() runs at most once
  per run" holds only while no stop attempt has failed.
* *Late run* (`routes/run-routes/index.ts:85`).  The shutdown check is not repeated at
  creation, so a POST that passed it creates a run after the shutdown has begun.
* *Sweep totals* (`runs/run-orchestrator/sweep-execution/case-execution.ts:367`).  A failed
  stop after a recorded case records the case again, and `totalCases` exceeds
  `plannedCases`.  `EverySweepCaseAccountedFor` shows that nothing else repeats or skips a
  case: it compares the outcomes with the expansion place by place, so that cases that share
  an identity are not taken for one another.  In the ranking such a case has two ranks.
* *Mixed-GPU guard* (`engines/starter-engine/mixed-gpu-guard.ts`).  When its discovery fails
  the guard reports no issue and a run in permissive mode is admitted;
  `agent-os/standards/plugins/llama-cpp-mixed-gpu-guard.md` says "fail validation
  (fail-closed)".  `Issues` of `Discovery` is the code's.

Three observations about `TargetsCommand`, none against a statement of the repository: the
readiness probe of a forward asks whether someone listens on the local port, which another
program may have taken since it was reserved; the second signal ends the command line at
once, before the SIGKILL its first one has scheduled; and a check whose ssh is dead but
whose pipes are open does not settle at its timeout.

## 4. Proofs

Every theorem below holds for all values of the constants that satisfy the named assumptions
of the modules, which only say that bounds are natural numbers (and the runs whose writes fail
no more than the flags there is room for), that values which stand for "none" are no others,
that the axes of a request come from the entries of an object and so have different keys, and
that the failure codes of an orchestration are among those the store accepts.  The inductive invariants hold on the instances of section 3, where TLC evaluates them in every state.

**`RunStoreProofs`** (`RunRecordsAssumption`: the event log has room for one event;
`RunStoreAssumption`: the bounds are natural numbers):

* `StoreInvariant`, the inductive invariant `StoreInv`: type correctness, every run
  *sound* (`SoundRun`: a result exactly when terminal and equal to the record's snapshot,
  counters equal to the number of outcomes of each kind, sum below the total), at most one
  active run, no record beyond `created`.  The properties are not inductive one by one:
  that a result stays the snapshot needs that no method touches a terminal record, that
  counters count needs the types, that a new run is the only active one needs that what
  eviction drops has ended;
* `TypeCorrect`, `OneActiveRun`, `ResultsAreFinal`, `CountersCount`, from it;
* `EndedRunsAreFrozen`, an action property, from the lemma that every store method is the
  identity on an ended run (`StepsForward`);
* `StoreImplementsLifecycle`: initial states map to initial states and every step to a
  step of `RunLifecycle` or a stutter (`LifecycleStep`);
* `LogsTellTheTruth`, with `LogInv`: a log grows in progress, is closed by its last event
  alone and exactly when the run has ended, and its newest event carries the counters.  A
  step of a method is first brought to "the log with one event appended, from some place
  on" (`EmitAppends`), after which the length of the ring no longer matters;
* `EvictionIsFair`, an action property, with `RoomInv`: what eviction drops is finite,
  ended, and older than what it keeps, and it stops at one below the limit: the newest run it
  drops for room (`HasGreatest`) has no more older ones than must go (`SparingStep`).

The argument is by method first, then by action, so that the modules that compose the same
operators can use the lemmas too.  `RunRecordsProofs` has those lemmas that speak of no
variable: how each method changes the list of reported cases (`Reported`), and that
`RecordCasesFailed`, the loop that fails the cases not yet run, appends exactly those
(`LoopReport`, by induction on the rounds of that one loop).

The second half of the module is about `RunEventStream`, which composes the store, for any
clients and any length of the ring:

* `StreamInvariant`, with `FullInv`: the invariants of the store and its logs, that the log of
  a run the store has is the tail of the run's history (`LogOfHistory`), and where each
  stream stands with its run (`StreamOk`);
* `StreamsReleaseWhatTheyHold`, `NoClientWaitsInVain` and `StreamsAreGapless` from it.  The
  last needs all of them: a replay is a tail of the history only because the log is, a later
  event continues it only because the stream was still subscribed, and the end of the run
  is the last event only because an ended run is silent.

**`RunServerProofs`** (`RunServerAssumption`), for any number of runs, cases, requests and
write failures, and for either kind of plugin unless said otherwise:

* `ServerInvariant`, the inductive invariant `ServerInv`: for every session, where
  `execute()` stands says what has been reported (`Books`), what the engine is like
  (`EngineAt`) and what is being written (`WritesOk`); what `execute()` has finished
  persisting is kept (`Kept`); engine handles belong to sessions past their start; at
  most one run is active.  `EngineAt` is the heart of it: that a settled engine is active
  only while no stop was asked for, except one whose start was abandoned, needs to know
  for each await whether a stop may be in flight, who has been told, and what the deadline
  implies - none of it can be left out;
* `EveryCaseIsAccountedFor`, `OnlyAbandonedStartsLeak`, `ResultsArePersistedOrFlagged` from
  it.  The third is where the cancel route and the orchestration write the same file: both
  write the result of a run that has ended, and that no longer changes;
* `AbortEndsTheWork`, an action property, action by action;
* `ServerImplementsLifecycle`: every step of the server is a step of `RunLifecycle` or a
  stutter.  A session's steps are shown to move its run forward only (`Onward`), and a
  creation needs that no run is active;
* `CancelIsHeard`, under `AbortListeners = {TRUE}`: engines listen, as llama.cpp's do.  The
  hypothesis is needed - with a plugin that does not listen and two runs TLC finds
  the shared cancellation of section 3.  `ListenInv` says why it suffices: an engine the
  canceller could find is gone with the signal, so the canceller never waits, and no
  later request can share its promise.

The proof follows the model: operators on one session first (`Proceeds...`, `...Own`), what a
session step means for the rest of the server once (`AdvanceInv`), then the actions that
touch several sessions.

**`SweepRunProofs`** (`SweepRunAssumption`), for any sweep and either kind of plugin:

* `SweepInvariant`, the inductive invariant `SweepInv`: `EngineInv` for the engine of the
  case at hand, and `BooksInv`, which relates the case counter, the verdicts, the
  consecutive failures and the outcomes in the run's record;
* `EnginesDoNotOverlap` and `AbortStopsTheSweep`, action properties: a case that is over has
  waited for its stop, or the run is aborted and begins no other.  That the process is gone
  with the engine has one exception, the stop `waitUntilReady` gives up by itself, and it
  leaves a mark: a lifecycle failure no engine has come up after (`LeftAlive`);
* `EverySweepIsAccountedFor` and `ThreeFailuresEndASweep`: the counter is the length of the
  last streak of lifecycle failures (`Streak`), and the cases reported are those begun, in
  their places, the one of a failed stop twice (`Twice`).  No case needs an identity of its
  own for that.

**`TargetProfilesProofs`** (`TargetAssumption`), for any clients, profiles, errors and
crashes:

* `TargetInvariant`, the inductive invariant `TargetInv`: a call stands where its operation
  takes it, and no two calls in progress share a temporary name, so that what a write has
  filled is what it renames;
* `TempsHaveAnOwner` from it;
* `DirectoryIsAMap`: the directory implements `ProfileMap`.  Every step of a call is one of
  four (`StepsAsAllowed`): invisible, a read served, the rename that puts, the unlink that
  takes; each is a step of the abstract map or a stutter.

**`RemoteEngineProofs`**, for any set of sessions and ports and any number of attempts
(`RemoteAssumption`: `NoPort` is no port, there is an attempt):

* `RemoteInvariant`, the inductive invariant `IInv`.  That a reservation has one holder is
  nearly inductive by itself; that a cleanup is complete and spares others is not.  It needs
  where a session may hold a port, and that it is the one its ssh was spawned with
  (`Holding`), that an attempt begins only while there are attempts left (`Retrying`), how
  far a stop has come - a stop that will succeed has seen its ssh go, so that no server can
  be launched any more (`Stopping`) - and what an answered cleanup has achieved
  (`CleanedUp`);
* `PortsAreNotLeaked`, `StopsCleanUp` and `CleanupsSpareOthers` from it.  The last, an action
  property, is where `PortsHaveOneHolder` pays: a session at pkill still holds its port, so no
  other does.

The argument is by session: `Moved` says what a step of one session has to show (its own
parts of the invariant, and that the reservations follow its port) for `IInv` to hold after
it, and one lemma per action shows that.

**`TargetsCommandProofs`** proves, for any number of local port attempts
(`TargetsCommandAssumption`: there is one), `CommandInvariant`, and from it
`SignalsReachSsh` and `NoSshIsLeftBehind`.  The invariant adds that every ssh but that of the
current attempt is over, and that one too when the handler has nothing to wait for
(`OthersAreOver`): without it a signal, which cancels the current ssh only, could miss
another.  `Changed` and `Quiet` are what a step that changes one ssh, or none, has to show.

**`AdmissionProofs`** proves about `Discovery` (`DiscoveryAssumption`: there is a request,
requests name a target the server knows, and what stands for "not read", "unknown" and "not
needed" is none of the binaries), `AuthLimiter` (`AuthLimiterAssumption`: the limits are
natural numbers) and `SweepPlan` (`SweepPlanAssumption`: sweeps as the schema lets them
pass, arguments are strings, tokens and latencies natural numbers), each with its own
variables.  The first two keep a `Map` they delete expired
entries from.  `KeepOnly` is that deletion, a recursive function; what it does to a sequence
of any length (`KeptElements`, `KeepOnlyAppend`, `KeepOnlyTwice` and others) follows from
`ClosedUnderAppend`: a set that has the empty sequence and with a sequence every one longer
by an element has them all - an induction over a set, where one over a predicate is out of
the provers' reach.

* `DiscoveryInvariant`, with `DiscoveryInv`: the types; every probe is younger than `ProbeMs`
  and what it has read was true when it began or later (`ProbesAreFresh`); every cache entry
  tells what its machine has, or had within a probe's time of being cached
  (`CacheIsHonest`); a validation that waits has someone to wait for, and how often it has
  waited fits where it stands (`Accounted`); what a validation has been told was true late
  enough (`Informed`).
* `KnowledgeIsFresh` and `OneProbeIsEnough` from it.  The second rests on an argument about
  time: what the guard was told settles the strict check in the same turn of the event loop,
  before any other validation or probe can sweep, trim or replace it.  The first showed that
  the bound first stated for the flags, two probes, was loose by one, and the property now has
  the tight one.
* `LimiterInvariant`, with `AuthInv`: at most one record per client and no more than there is
  room for (`Kempt`), and behind each record in force the recent failures it counts, all
  within its window (`HasCause`); `NoClientIsBlockedWithoutCause` from it.
* `LimiterKeepsItsPromise`: under `windows <- InForce`, the records not yet expired, every
  request is a step of `AuthPromise`.  Each method is followed by what it does to `InForce`
  (`...View`): that the periodic cleanup and the look for expired records before an eviction
  change nothing there, that a full map of records some of which have expired has room, and
  that the one evicted otherwise is the first in force.

The part about `SweepPlan` proves all its properties for every sweep: any number of axes, of
values, of repetitions, any limits, any base arguments.  Its invariants are plain
(`PlanInv`: each answer rests on the verdict, the plan and the expansion; `RankingInv`); the
work is in what the operators compute, by induction over positions (`UpTo`, a set of the
numbers up to n that has 0 and with i - 1 also i).

* `PlanInvariant`, and `PlanKept` from it.  The validation walks the axes in the order of the
  request and stops multiplying at the limit, the expansion builds the selections in the order
  of the sorted keys.  They agree because the test before each multiplication is exact
  (`BoundedStep`, `CountIsBounded`), because a total does not depend on the order of its
  numbers (`OrderDoesNotMatter`, with the operation as a function of pairs, so that it serves
  sums and products), because sorting rearranges (`AxesAreSorted`, `WalkedIsRearranged`) and
  because every axis multiplies the selections by its length (`WalkLength`,
  `ExpandedLength`).  That the limit on merged arguments is tight (`MergedArgs`) needs more:
  that the walk has every selection, the one of the longest fragments too
  (`EverySelection`), and that none is longer (`SumsCompare`).
* `OdometerFollowed`: where the walk has which value (`WalkDigits`) - an axis moves on each
  time the axes behind it have been through, a quotient of quotients - and that the axis of
  each rank is the one the sort puts there (`RankedAreWalked`).
* `RanksAreCounts`: a finite set under an order like that of the ranking can be sorted
  (`Sortable`), and whatever is sorted stands behind what is below it (`SortedRanks`), so the
  `CHOOSE` of the model is one sequence.  The order is strict on places, not on outcomes: equal
  outcomes have the ranks after the better ones between them.  The proof showed that the
  property, first written with a CASE whose guards overlapped, could be read two ways for
  outcomes that failed; it is a chain of IFs now.
* `RankingDetermined`: outcomes the comparison cannot tell apart are equal in all the ranking
  publishes, so that how ties stand does not show.  It rests on identities being the last word
  for completed and failed outcomes alike.
* `RankingIsKept`: the two together, the property `RankingKeepsItsPromise` of the run.

**Only model-checked.**

* All liveness (`EveryRunEnds`, `EveryRequestIsAnswered`, `EverySweepReturns`,
  `EverySessionSettles`, `EveryValidationIsAnswered`, `EverySubcommandSettles`): the prover
  does not handle fairness and ENABLED.
* `server_leak` is a violation: there is nothing to prove, but `OnlyAbandonedStartsLeak` proves
  that it shows the only case.

## 5. Not modelled, and why

* Token counts but for the ranking, latencies, model names, prompts and texts: nothing
  branches on them.  Request and response schemas, argument parsing, the parsing of help texts
  and model answers, quoting, redaction, output buffers: stateless text handling unit tests
  reach.
* Retries of a failed local spawn (no process survives a failed attempt).  Read-only routes
  but the event stream, and `readResult`: they change nothing.
* Frames for a client that does not read are buffered by the runtime without bound; the
  models deliver at once.
* The engine environment memo: GET /engines shows it and nothing else reads it; its lifetime
  and sharing are the pattern `Discovery` models where a verdict depends on it.
* The HTTP application, the OpenAPI document, configuration, mDNS, `serve`, packaging and the
  release scripts: wiring and I/O.

Not claimed: that the process of a stop that gave up is gone; that a remote server started by
an attempt that failed is gone (the code sends no cleanup for it, only its ssh ends); anything
about a remote command that takes effect after its timeout; that an event stream opened between
`closeSseStreams` and the end of listening is closed by the shutdown (it is registered, but
nobody closes what is registered then).  `NextEngineWaitsForTheLast` says that the process of a
former engine is there at a spawn only within a row of lifecycle failures.  `RemoteEngine` has one remote
machine and one reservation key, the case in which sessions meet.

## 6. Plan

Done: all modules above, with a proof of every safety property, action property and
refinement the passing runs check.

Left: liveness, which stays with TLC, and the hazards without a property (`PROJECT.json`
says why).  `routes/engine-routes.ts` would be the next component.
