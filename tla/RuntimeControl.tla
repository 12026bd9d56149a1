---------------------------- MODULE RuntimeControl ----------------------------
(***************************************************************************)
(* RuntimeControl (src/server/runtime-control.ts): the one object the      *)
(* routes, the orchestrator and the shutdown share.  A canceller and an    *)
(* engine handle are known by the run they belong to.  The SSE streams it  *)
(* also keeps are left to a module of their own.                           *)
(***************************************************************************)
EXTENDS Naturals

CONSTANT MaxRuns        \* bound: the runs ever created

RunIds == 1 .. MaxRuns

NoOne == 0              \* null

VARIABLES
    accepting,      \* acceptingNewRuns
    canceller,      \* activeRunCanceller
    cancellation,   \* activeRunCancellation: whose canceller is in flight
    handles         \* engineProcesses

controlVars == <<accepting, canceller, cancellation, handles>>

ControlInit ==
    /\ accepting = TRUE
    /\ canceller = NoOne
    /\ cancellation = NoOne
    /\ handles = {}

SetActiveRunCanceller(r) == canceller' = r

\* The function setActiveRunCanceller returns: it leaves a canceller that has
\* replaced its own alone.
UnregisterCanceller(r) ==
    canceller' = IF canceller = r THEN NoOne ELSE canceller

RegisterEngineProcess(r) == handles' = handles \cup {r}

UnregisterEngineProcess(r) == handles' = handles \ {r}

\* cancelActiveRun up to its await.  While a cancellation is in flight a
\* second caller shares its promise, whichever run it is for.
CallsCanceller == cancellation = NoOne /\ canceller # NoOne

\* The callers of cancelActiveRun wait if a canceller is in flight: an earlier
\* one, or the one this call has called and that waits for an engine.
BeginCancellation(waits) ==
    /\ cancellation' = IF CallsCanceller /\ waits THEN canceller ELSE cancellation
    /\ canceller' = IF CallsCanceller /\ ~ waits THEN NoOne ELSE canceller

\* What follows cancelActiveRun's await.
EndCancellation ==
    /\ cancellation # NoOne
    /\ cancellation' = NoOne
    /\ UnregisterCanceller(cancellation)

===============================================================================
