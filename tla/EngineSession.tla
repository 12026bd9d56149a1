----------------------------- MODULE EngineSession -----------------------------
(***************************************************************************)
(* What an engine plugin holds for one run, and what its calls do to it.   *)
(* Translated from the plugin this build registers, llama.cpp              *)
(* (src/server/engines/starter-engine): the llama-server process, the      *)
(* entry in the plugin's runStates map, the abort listener that entry      *)
(* installs, the stop escalation (SIGTERM, grace, SIGKILL, wait) and the   *)
(* readiness probe.  Operators from an engine to the engine after the      *)
(* call, like those of RunRecords.                                         *)
(*                                                                         *)
(* Abstracted: ports, API keys, the retries of a failed spawn (no process  *)
(* survives a failed attempt), request and response bodies, the SSH mode.  *)
(*                                                                         *)
(* The EnginePlugin interface does not ask a plugin to listen to the run's *)
(* abort signal once start() has returned: AbortListeners = {TRUE} is      *)
(* llama.cpp, FALSE a plugin that relies on stop().                        *)
(***************************************************************************)

CONSTANT AbortListeners     \* whether engines may, or may not, listen

ASSUME AbortListenersAssumption ==
    AbortListeners \subseteq BOOLEAN /\ AbortListeners # {}

Engine == [start : {"none", "pending", "settled"},   \* the call of start()
           process : {"none", "alive", "exited"},    \* llama-server
           active : BOOLEAN,      \* runStates has an entry for the run
           listening : BOOLEAN,   \* its abort listener is installed
           stopping : BOOLEAN,    \* stopRunState is in flight
           probe : {"none", "probing", "failing"}]   \* waitUntilReady()

NoEngine == [start |-> "none", process |-> "none", active |-> FALSE,
             listening |-> FALSE, stopping |-> FALSE, probe |-> "none"]

\* start() past its check of the signal: the process is spawned, and the call
\* waits out the startup probe window.
Spawn(e) == [e EXCEPT !.start = "pending", !.process = "alive"]

\* activateRunState.  A listener added to a signal that has already fired
\* never runs; the signal is not looked at again.
Activate(e, aborted, listens) ==
    [e EXCEPT !.start = "settled", !.active = TRUE,
              !.listening = listens /\ ~ aborted]

FailStart(e) == [e EXCEPT !.start = "settled", !.process = "exited"]

\* stopRunState, once the entry is gone from runStates: a process that has
\* exited needs no waiting for.
StopRunState(e) ==
    [e EXCEPT !.active = FALSE, !.listening = FALSE,
              !.stopping = (e.process = "alive")]

\* The abort listener of activateRunState.
OnAbort(e) == IF e.listening /\ e.active THEN StopRunState(e) ELSE e

\* The process goes, by itself or because of a signal: the stop in flight is
\* over, and the termination observer clears the entry.
Exit(e) == [e EXCEPT !.process = "exited", !.active = FALSE,
                     !.listening = FALSE, !.stopping = FALSE]

\* stopRunStateInternal throws: a signal could not be sent, or the process
\* group outlived SIGKILL's wait.
GiveUpStop(e) == [e EXCEPT !.stopping = FALSE]

\* waitUntilReady's catch: it drops the entry, then waits for the stop before
\* it throws.
FailReadiness(e) == [StopRunState(e) EXCEPT !.probe = "failing"]

\* Mutant of WaitUntilReady: the signal is not looked at.
WaitUntilReadyRegardless(e, aborted) == [e EXCEPT !.probe = "probing"]

\* waitUntilReady() at its call: the probe loop looks at the signal first, and
\* not again while a request is under way.
WaitUntilReady(e, aborted) ==
    IF aborted THEN FailReadiness(e) ELSE [e EXCEPT !.probe = "probing"]

===============================================================================
