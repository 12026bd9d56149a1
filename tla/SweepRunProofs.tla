---------------------------- MODULE SweepRunProofs ----------------------------
(***************************************************************************)
(* Proofs about SweepRun, for every sweep, cases that share an identity    *)
(* included: no engine is spawned while the plugin still holds the one     *)
(* before it, nothing is begun once the run is aborted, a sweep is given   *)
(* up after three lifecycle failures in a row, and every case is accounted *)
(* for, place by place.                                                    *)
(***************************************************************************)
EXTENDS SweepRun, RunRecordsProofs, FiniteSetTheorems

-------------------------------------------------------------------------------
(***************************************************************************)
(* Part 1: the invariants.                                                 *)
(***************************************************************************)

Working == {"validating", "building", "starting", "readying", "executing",
            "metrics"}

Over == {"persisting", "stopping", "done"}

\* The verdicts of a case that ran to its own end.
Ordinary == {"completed", "execution", "lifecycle"}

\* The verdicts of a case that reached its finally.
CaseVerdicts == Verdicts \ {"validation"}

\* How validateRunConfig() may refuse a case, and how a plugin's call rejects.
Answers == {"invalid", "error", "abortError"}

StartErrors == {"lifecycle", "cancelled"}

CaseErrors == {"execution", "cancelled"}

\* The plugin holds nothing and owes nothing.
Quiet(e) == /\ e.start # "pending" /\ e.probe = "none"
            /\ ~ e.active /\ ~ e.stopping

\* Where a process is still alive it is the plugin's, or a case has waited for
\* its stop in vain since an engine last came up.
LeftAlive(session, e) ==
    e.process = "alive" =>
        /\ session.pc \in {"idle", "validating", "building"} =>
              session.consecutive > 0
        /\ session.pc = "readying" /\ e.probe = "probing" => e.active
        /\ session.pc \in {"executing", "metrics"} => e.active
        /\ session.pc = "caseStopping"
           /\ Last(session.verdicts) \in {"completed", "execution"} =>
              "case" \in session.stopWaiters

\* Where a sweep that has not been aborted has its engine.
EngineAt(session, e) ==
    LET ready == session.engineContext /\ session.engineStop = "idle"
    IN  /\ LeftAlive(session, e)
        /\ session.pc \in {"idle", "validating", "building"} => Quiet(e)
        /\ session.pc = "starting" =>
              /\ ready /\ e.start = "pending" /\ e.probe = "none"
              /\ ~ e.active /\ ~ e.stopping
        /\ session.pc = "readying" =>
              /\ ready /\ e.start = "settled"
              /\ \/ e.probe = "probing" /\ ~ e.stopping
                 \/ e.probe = "failing" /\ ~ e.active
        /\ session.pc \in {"executing", "metrics"} =>
              ready /\ e.start = "settled" /\ e.probe = "none" /\ ~ e.stopping
        /\ session.pc = "caseStopping" /\ Last(session.verdicts) \in Ordinary =>
              /\ e.start # "pending" /\ e.probe = "none" /\ ~ e.active
              /\ e.stopping => "case" \in session.stopWaiters
              /\ \/ session.stopWaiters = {} /\ ~ session.engineContext
                 \/ "case" \in session.stopWaiters

\* A cancellation aborts, and who waits waits for a stop in flight.
SessionOk(session) ==
    /\ session \in Session
    /\ session.cancellationRequested => session.aborted
    /\ session.stopWaiters # {} => session.engineStop = "inFlight"

\* The session and its engine; a case waits only in its finally.
EngineOk(session, e) ==
    /\ SessionOk(session)
    /\ e \in Engine
    /\ "case" \in session.stopWaiters => session.pc = "caseStopping"
    /\ session.pc = "caseStopping" =>
          session.verdicts # <<>> /\ Last(session.verdicts) # "validation"
    /\ session.pc \in {"idle", "validating", "building"} =>
          ~ session.engineContext /\ session.stopWaiters = {}
    /\ ~ session.aborted => EngineAt(session, e)

EngineInv == EngineOk(s, engine)

\* A run that has reported the first k cases, or was cancelled on the way.
SoFar(k, r) ==
    \/ r.status = "cancelled" /\ IsPrefix(Reported(r), Sweep)
    \/ r.status = "running" /\ Reported(r) = SubSeq(Sweep, 1, k)

\* How many cases have an outcome when the case at next is under way, or its
\* verdict is in.
CasesReported(pc, next, verdicts) ==
    IF pc = "caseStopping" /\ Last(verdicts) \in Ordinary \cup {"stopFailed"}
    THEN next
    ELSE next - 1

EndsInFailedStop(verdicts) == verdicts # <<>> /\ Last(verdicts) = "stopFailed"

\* What it has reported when the sweep is over: each case, or the cases up to
\* a cancellation, and again the one whose engine could not be stopped.
ReportedInTheEnd(next, verdicts, r) ==
    \/ r.status = "cancelled" /\ IsPrefix(Reported(r), Sweep)
    \/ /\ r.status \in {"completed", "failed"}
       /\ ~ EndsInFailedStop(verdicts)
       /\ Reported(r) = Sweep
    \/ /\ r.status = "failed"
       /\ EndsInFailedStop(verdicts)
       /\ next \in 1 .. Len(Sweep)
       /\ Reported(r) = SubSeq(Sweep, 1, next) \o SubSeq(Sweep, next, Len(Sweep))

\* No prefix short of the whole held three in a row.
NoThreeBefore(list) ==
    \A n \in 0 .. Len(list) - 1 : Streak(SubSeq(list, 1, n)) < 3

\* The books of a sweep at pc: its verdicts, its count of lifecycle failures,
\* and its report.
Books(pc, next, consecutive, verdicts, r) ==
    /\ r \in RunRecord
    /\ verdicts \in Seq(Verdicts)
    /\ next \in Nat \ {0} /\ consecutive \in Nat
    /\ NoThreeBefore(verdicts)
    /\ pc = "idle" =>
          /\ r.status = "queued" /\ Reported(r) = <<>>
          /\ verdicts = <<>> /\ next = 1 /\ consecutive = 0
    /\ pc \in Working =>
          /\ consecutive = Streak(verdicts) /\ consecutive < 3
          /\ ~ EndsInFailedStop(verdicts)
    /\ pc = "caseStopping" =>
          /\ verdicts # <<>> /\ consecutive < 3
          /\ consecutive = Streak(SubSeq(verdicts, 1, Len(verdicts) - 1))
    /\ pc \in Working \cup {"caseStopping"} =>
          /\ next <= Len(Sweep)
          /\ SoFar(CasesReported(pc, next, verdicts), r)
    /\ pc \in Over => ReportedInTheEnd(next, verdicts, r)
    /\ pc \notin Over => r.failure = NoFailure
    /\ r.failure = "ENGINE_START_FAILED" => Streak(verdicts) = 3

BooksInv ==
    /\ Books(s.pc, s.next, s.consecutive, s.verdicts, run)
    /\ awaiting => s.pc # "idle"

-------------------------------------------------------------------------------
(***************************************************************************)
(* Part 2: the stop of an engine.                                          *)
(***************************************************************************)

\* What stopEngine() makes of a session and its engine.
AfterStopEngine(session, e, waiters, p) ==
    \/ /\ ~ session.engineContext \/ session.engineStop = "completed"
       /\ p.s = session /\ p.e = e
    \/ /\ session.engineContext /\ session.engineStop = "inFlight"
       /\ p.s = [session EXCEPT !.stopWaiters =
                                    session.stopWaiters \cup waiters]
       /\ p.e = e
    \/ /\ session.engineContext /\ session.engineStop = "idle" /\ e.active
       /\ p.s = [session EXCEPT !.engineStop = "inFlight",
                                !.stopWaiters = waiters]
       /\ p.e = StopRunState(e)
    \/ /\ session.engineContext /\ session.engineStop = "idle" /\ ~ e.active
       /\ p.s = [session EXCEPT !.engineStop = "completed",
                                !.engineContext = FALSE]
       /\ p.e = e

LEMMA StopEngineCases ==
  ASSUME NEW session \in Session, NEW e \in Engine,
         NEW waiters \in SUBSET {"canceller", "case", "final"}
  PROVE  AfterStopEngine(session, e, waiters,
                         StopEngine(Pair(session, e), waiters))
<1> USE DEF AfterStopEngine
<1>1. session.engineStop \in {"idle", "inFlight", "completed"}
  BY DEF Session
<1> DEFINE p == StopEngine(Pair(session, e), waiters)
<1>2. CASE ~ session.engineContext \/ session.engineStop = "completed"
  BY <1>2 DEF StopEngine, Pair
<1>3. CASE session.engineContext /\ session.engineStop = "inFlight"
  BY <1>3 DEF StopEngine, Pair
<1>4. CASE session.engineContext /\ session.engineStop = "idle" /\ e.active
  BY <1>4 DEF StopEngine, Pair
<1>5. CASE session.engineContext /\ session.engineStop = "idle" /\ ~ e.active
  BY <1>5 DEF StopEngine, Pair
<1>6. QED
  BY <1>1, <1>2, <1>3, <1>4, <1>5

LEMMA StopRunStateType ==
  ASSUME NEW e \in Engine
  PROVE  LET new == StopRunState(e)
         IN  /\ new \in Engine
             /\ new.start = e.start /\ new.probe = e.probe
             /\ ~ new.active
  BY DEF StopRunState, Engine

\* The session moves in what concerns the stop alone, and waits only for a
\* stop in flight.
StopFrame(session, e, waiters, p) ==
    /\ p.s \in Session /\ p.s.pc = session.pc /\ p.s.next = session.next
    /\ p.s.consecutive = session.consecutive
    /\ p.s.verdicts = session.verdicts
    /\ p.s.aborted = session.aborted
    /\ p.s.cancellationRequested = session.cancellationRequested
    /\ p.s.stopWaiters # {} => p.s.engineStop = "inFlight"
    /\ p.s.stopWaiters \subseteq session.stopWaiters \cup waiters
    /\ p.e \in Engine /\ p.e.start = e.start /\ p.e.probe = e.probe

LEMMA StopEngineFrame ==
  ASSUME NEW session \in Session, NEW e \in Engine,
         NEW waiters \in SUBSET {"canceller", "case", "final"}, NEW p,
         AfterStopEngine(session, e, waiters, p),
         session.stopWaiters # {} => session.engineStop = "inFlight"
  PROVE  StopFrame(session, e, waiters, p)
<1> USE DEF StopFrame
<1> DEFINE joined == session.stopWaiters \cup waiters
<1>1. joined \in SUBSET {"canceller", "case", "final"}
  BY DEF Session
<1> HIDE DEF joined
<1>2. CASE p.s = session /\ p.e = e
  BY <1>2 DEF joined
<1>3. CASE /\ p.s = [session EXCEPT !.stopWaiters = joined] /\ p.e = e
           /\ session.engineStop = "inFlight"
  <2>1. p.s.stopWaiters = joined
    BY <1>3 DEF Session
  <2>2. QED
    BY <1>1, <1>3, <2>1 DEF Session, joined
<1>4. CASE /\ p.s = [session EXCEPT !.engineStop = "inFlight",
                                    !.stopWaiters = waiters]
           /\ p.e = StopRunState(e)
  <2>1. /\ p.s \in Session /\ p.s.pc = session.pc /\ p.s.next = session.next
        /\ p.s.consecutive = session.consecutive
        /\ p.s.verdicts = session.verdicts
        /\ p.s.aborted = session.aborted
        /\ p.s.cancellationRequested = session.cancellationRequested
        /\ p.s.engineStop = "inFlight" /\ p.s.stopWaiters = waiters
    BY ZenonT(60), <1>4 DEF Session
  <2>2. p.e \in Engine /\ p.e.start = e.start /\ p.e.probe = e.probe
    BY <1>4, StopRunStateType
  <2>3. QED
    BY <2>1, <2>2
<1>5. CASE /\ p.s = [session EXCEPT !.engineStop = "completed",
                                    !.engineContext = FALSE]
           /\ p.e = e /\ session.engineStop = "idle"
  BY <1>5 DEF Session
<1>6. QED
  BY <1>2, <1>3, <1>4, <1>5 DEF AfterStopEngine, joined

\* The end of a case, whatever the engine does: its verdict is on record.
LEMMA FinishCaseFrame ==
  ASSUME NEW verdict \in CaseVerdicts, NEW r,
         NEW session, SessionOk(session), NEW e \in Engine,
         FinishCase(verdict, r, session, e)
  PROVE  /\ run' = r /\ s'.pc = "caseStopping"
         /\ s'.next = session.next /\ s'.consecutive = session.consecutive
         /\ s'.verdicts = Append(session.verdicts, verdict)
<1> DEFINE list == Append(session.verdicts, verdict)
           ended == [session EXCEPT !.pc = "caseStopping", !.verdicts = list]
           who == {"case"}
           p == StopEngine(Pair(ended, e), who)
<1>1. list \in Seq(Verdicts)
  BY DEF Session, SessionOk, CaseVerdicts
<1>2. run' = r /\ s' = p.s
  BY DEF FinishCase
<1>3. who \in SUBSET {"canceller", "case", "final"}
  OBVIOUS
<1> HIDE DEF list, who
<1>4. /\ ended \in Session /\ ended.pc = "caseStopping" /\ ended.next = session.next
      /\ ended.consecutive = session.consecutive /\ ended.verdicts = list
      /\ ended.stopWaiters # {} => ended.engineStop = "inFlight"
  BY <1>1 DEF Session, SessionOk
<1> HIDE DEF ended
<1>5. AfterStopEngine(ended, e, who, p)
  BY <1>3, <1>4, StopEngineCases
<1> HIDE DEF p
<1>6. StopFrame(ended, e, who, p)
  BY <1>3, <1>4, <1>5, StopEngineFrame
<1>7. QED
  BY <1>2, <1>4, <1>6 DEF StopFrame, list

\* The end of a case: its verdict is on record, and if the run goes on, what
\* the plugin may still owe is the stop the case waits for.
LEMMA FinishCaseEngine ==
  ASSUME NEW verdict \in CaseVerdicts, NEW r,
         NEW session, SessionOk(session), NEW e \in Engine,
         FinishCase(verdict, r, session, e),
         (~ session.aborted /\ verdict \in Ordinary) =>
            /\ e.start # "pending" /\ e.probe = "none" /\ ~ e.stopping
            /\ e.active => session.engineContext
            /\ session.engineContext => session.engineStop = "idle"
            /\ session.stopWaiters = {}
            /\ verdict \in {"completed", "execution"} /\ e.process = "alive"
                  => e.active
  PROVE  /\ EngineInv'
         /\ run' = r
         /\ s'.pc = "caseStopping" /\ s'.aborted = session.aborted
         /\ s'.next = session.next /\ s'.consecutive = session.consecutive
         /\ s'.verdicts = Append(session.verdicts, verdict)
         /\ engine'.start = e.start
<1> DEFINE list == Append(session.verdicts, verdict)
           ended == [session EXCEPT !.pc = "caseStopping", !.verdicts = list]
           who == {"case"}
           p == StopEngine(Pair(ended, e), who)
<1>1. list \in Seq(Verdicts) /\ list # <<>> /\ Last(list) = verdict
      /\ verdict # "validation"
  BY DEF Session, Last, SessionOk, CaseVerdicts
<1>2. who \in SUBSET {"canceller", "case", "final"} /\ "case" \in who
  OBVIOUS
<1>3. run' = r /\ s' = p.s /\ engine' = p.e
  BY DEF FinishCase
<1> HIDE DEF list, who
<1>4. /\ session \in Session
      /\ session.cancellationRequested => session.aborted
      /\ session.stopWaiters # {} => session.engineStop = "inFlight"
  BY DEF SessionOk
<1>5. /\ ended \in Session /\ ended.pc = "caseStopping" /\ ended.next = session.next
      /\ ended.consecutive = session.consecutive /\ ended.verdicts = list
      /\ ended.aborted = session.aborted
      /\ ended.cancellationRequested = session.cancellationRequested
      /\ ended.stopWaiters = session.stopWaiters
      /\ ended.engineStop = session.engineStop
      /\ ended.engineContext = session.engineContext
  BY <1>1, <1>4 DEF Session
<1> HIDE DEF ended
<1>6. AfterStopEngine(ended, e, who, p)
  BY <1>2, <1>5, StopEngineCases
<1> HIDE DEF p
<1>7. StopFrame(ended, e, who, p)
  <2>1. ended.stopWaiters # {} => ended.engineStop = "inFlight"
    BY <1>5, <1>4
  <2>2. ended \in Session
    BY <1>5
  <2>3. QED
    BY <1>2, <1>6, <2>1, <2>2, StopEngineFrame
<1>8. /\ p.e \in Engine /\ p.e.start = e.start
      /\ ~ session.aborted /\ verdict \in Ordinary
            => /\ p.e.start # "pending" /\ p.e.probe = "none" /\ ~ p.e.active
               /\ p.e.stopping => "case" \in p.s.stopWaiters
               /\ \/ p.s.stopWaiters = {} /\ ~ p.s.engineContext
                  \/ "case" \in p.s.stopWaiters
               /\ verdict \in {"completed", "execution"} /\ p.e.process = "alive"
                     => "case" \in p.s.stopWaiters
  <2>1. CASE p.s = ended /\ p.e = e
             /\ (~ ended.engineContext \/ ended.engineStop = "completed")
    BY <1>5, <2>1
  <2>2. CASE p.e = e /\ ended.engineContext /\ ended.engineStop = "inFlight"
    BY <1>5, <2>2
  <2>3. CASE /\ p.s = [ended EXCEPT !.engineStop = "completed",
                                    !.engineContext = FALSE]
             /\ p.e = e /\ ~ e.active
    <3>1. p.s.stopWaiters = ended.stopWaiters /\ ~ p.s.engineContext
      BY <1>5, <2>3 DEF Session
    <3>2. QED
      BY <1>5, <2>3, <3>1
  <2>4. CASE /\ p.s = [ended EXCEPT !.engineStop = "inFlight",
                                    !.stopWaiters = who]
             /\ p.e = StopRunState(e)
    <3>1. "case" \in p.s.stopWaiters
      BY <1>5, <1>2, <2>4 DEF Session
    <3>2. QED
      BY <2>4, <3>1, StopRunStateType
  <2>5. QED
    BY <1>5, <1>6, <1>7, <2>1, <2>2, <2>3, <2>4 DEF AfterStopEngine, StopFrame
<1>9. EngineOk(p.s, p.e)
  <2>1. /\ p.s \in Session /\ p.s.pc = "caseStopping" /\ p.s.verdicts = list
        /\ p.s.aborted = session.aborted
        /\ p.s.cancellationRequested = session.cancellationRequested
        /\ p.s.stopWaiters # {} => p.s.engineStop = "inFlight"
    BY <1>5, <1>7 DEF StopFrame
  <2>2. SessionOk(p.s)
    BY <1>4, <2>1 DEF SessionOk
  <2>3. ~ session.aborted => LeftAlive(p.s, p.e)
    BY <1>1, <1>8, <2>1 DEF LeftAlive, Ordinary
  <2>4. ~ session.aborted => EngineAt(p.s, p.e)
    BY <1>1, <1>8, <2>1, <2>3 DEF EngineAt
  <2>5. QED
    BY <1>1, <1>8, <2>1, <2>2, <2>4 DEF EngineOk
<1>10. QED
  BY <1>1, <1>3, <1>5, <1>7, <1>8, <1>9
  DEF EngineInv, list, StopFrame

LEMMA CaughtEngine ==
  ASSUME NEW session, SessionOk(session), NEW r, NEW code,
         Caught(session, r, code),
         "case" \notin session.stopWaiters, engine' \in Engine
  PROVE  EngineInv' /\ s'.pc = "persisting"
<1>1. s' = [session EXCEPT !.pc = "persisting"]
  BY DEF Caught
<1>2. /\ s' \in Session /\ s'.pc = "persisting"
      /\ s'.stopWaiters = session.stopWaiters
      /\ s'.engineStop = session.engineStop
      /\ s'.aborted = session.aborted
      /\ s'.cancellationRequested = session.cancellationRequested
  BY <1>1 DEF SessionOk, Session
<1>3. QED
  BY <1>2 DEF EngineInv, EngineOk, SessionOk, EngineAt, LeftAlive

\* The loop goes on to a case only if the run is not aborted and the plugin
\* holds nothing.
LEMMA CaseLoopEngine ==
  ASSUME NEW session, SessionOk(session), NEW r,
         CaseLoop(session, r),
         "case" \notin session.stopWaiters, engine' \in Engine,
         ~ session.aborted =>
            /\ Quiet(engine') /\ ~ session.engineContext
            /\ session.stopWaiters = {}
            /\ engine'.process = "alive" => session.consecutive > 0
  PROVE  /\ EngineInv'
         /\ s'.pc \in {"validating", "persisting"}
         /\ session.aborted => s'.pc = "persisting"
<1>1. CASE s' = [session EXCEPT !.pc = "validating"] /\ ~ session.aborted
  <2>1. /\ s' \in Session /\ s'.pc = "validating"
        /\ s'.stopWaiters = session.stopWaiters
        /\ s'.engineContext = session.engineContext
        /\ s'.engineStop = session.engineStop
        /\ s'.aborted = session.aborted
        /\ s'.cancellationRequested = session.cancellationRequested
        /\ s'.consecutive = session.consecutive
    BY <1>1 DEF SessionOk, Session
  <2>2. QED
    BY <1>1, <2>1 DEF EngineInv, EngineOk, SessionOk, EngineAt, LeftAlive
<1>2. CASE s' = [session EXCEPT !.pc = "persisting"]
  <2>1. /\ s' \in Session /\ s'.pc = "persisting"
        /\ s'.stopWaiters = session.stopWaiters
        /\ s'.engineStop = session.engineStop
        /\ s'.aborted = session.aborted
        /\ s'.cancellationRequested = session.cancellationRequested
    BY <1>2 DEF SessionOk, Session
  <2>2. QED
    BY <1>2, <2>1 DEF EngineInv, EngineOk, SessionOk, EngineAt, LeftAlive
<1>3. QED
  BY <1>1, <1>2 DEF CaseLoop, Caught

LEMMA CaseThrowsEngine ==
  ASSUME NEW session, SessionOk(session), NEW e \in Engine,
         NEW verdict \in CaseVerdicts,
         CaseThrows(verdict, session, e),
         ~ session.aborted =>
            /\ e.start # "pending" /\ e.probe = "none" /\ ~ e.stopping
            /\ e.active => session.engineContext
            /\ session.engineContext => session.engineStop = "idle"
            /\ session.stopWaiters = {}
            /\ verdict = "execution" /\ e.process = "alive" => e.active,
         verdict # "completed"
  PROVE  /\ EngineInv' /\ s'.pc = "caseStopping"
         /\ s'.aborted = session.aborted
         /\ engine'.start = e.start
<1>1. PICK v \in CaseVerdicts : /\ \E r : FinishCase(v, r, session, e)
                              /\ v \in {verdict, "cancelled"}
  BY DEF CaseThrows, CaseVerdicts, Verdicts
<1>2. QED
  BY <1>1, FinishCaseEngine

-------------------------------------------------------------------------------
(***************************************************************************)
(* Part 3: the engine invariant, action by action.                         *)
(***************************************************************************)

\* An engine is spawned only when the plugin has let go of the last one.
SpawnsWhenQuiet ==
    engine.start # "pending" /\ engine'.start = "pending"
        => /\ ~ engine.active /\ ~ engine.stopping
           /\ s.pc = "building"
           /\ engine.process = "alive" => s.consecutive > 0

\* Nothing is begun once the run is aborted.
BeginsNothing ==
    s.aborted =>
        /\ s'.pc = "validating" => s.pc = "validating"
        /\ engine.start # "pending" => engine'.start # "pending"

EngineStepOk == EngineInv' /\ SpawnsWhenQuiet /\ BeginsNothing

LEMMA BeginEngine ==
  ASSUME EngineInv, Begin \/ MissingPlugin
  PROVE  EngineStepOk
<1>1. /\ SessionOk(s) /\ engine \in Engine /\ s.pc = "idle"
      /\ "case" \notin s.stopWaiters /\ ~ s.engineContext /\ s.stopWaiters = {}
      /\ ~ s.aborted =>
            Quiet(engine) /\ (engine.process = "alive" => s.consecutive > 0)
  BY DEF EngineInv, EngineOk, EngineAt, LeftAlive, Begin, MissingPlugin, At
<1>2. engine' = engine
  BY DEF Begin, MissingPlugin
<1>3. CASE Begin
  <2>1. PICK r : CaseLoop(s, r)
    BY <1>3 DEF Begin
  <2>2. QED
    BY <1>1, <1>2, <2>1, CaseLoopEngine
    DEF EngineStepOk, SpawnsWhenQuiet, BeginsNothing
<1>4. CASE MissingPlugin
  <2>1. s' = [s EXCEPT !.pc = "done"]
    BY <1>4 DEF MissingPlugin
  <2>2. /\ s' \in Session /\ s'.pc = "done" /\ s'.stopWaiters = s.stopWaiters
        /\ s'.engineStop = s.engineStop /\ s'.aborted = s.aborted
        /\ s'.cancellationRequested = s.cancellationRequested
    BY <1>1, <2>1 DEF SessionOk, Session
  <2>3. EngineInv'
    BY <1>1, <1>2, <2>2 DEF EngineInv, EngineOk, SessionOk, EngineAt, LeftAlive
  <2>4. QED
    BY <1>2, <2>2, <2>3 DEF EngineStepOk, SpawnsWhenQuiet, BeginsNothing
<1>5. QED
  BY <1>3, <1>4

LEMMA ValidationEngine ==
  ASSUME EngineInv,
         DeadlinePasses \/ ValidationAccepts
            \/ \E answer \in Answers : ValidationRefuses(answer)
  PROVE  EngineStepOk
<1>1. /\ SessionOk(s) /\ engine \in Engine
      /\ "case" \in s.stopWaiters => s.pc = "caseStopping"
      /\ ~ s.aborted => EngineAt(s, engine)
  BY DEF EngineInv, EngineOk
<1>2. engine' = engine
  BY DEF DeadlinePasses, ValidationAccepts, ValidationRefuses
<1>3. CASE DeadlinePasses
  <2>1. s' = [s EXCEPT !.expired = TRUE]
    BY <1>3 DEF DeadlinePasses
  <2>2. /\ s' \in Session /\ s'.pc = s.pc /\ s'.stopWaiters = s.stopWaiters
        /\ s'.engineStop = s.engineStop /\ s'.aborted = s.aborted
        /\ s'.cancellationRequested = s.cancellationRequested
        /\ s'.verdicts = s.verdicts /\ s'.engineContext = s.engineContext
        /\ s'.consecutive = s.consecutive
    BY <1>1, <2>1 DEF SessionOk, Session
  <2>3. EngineInv'
    BY <1>2, <2>2 DEF EngineInv, EngineOk, SessionOk, EngineAt, LeftAlive
  <2>4. QED
    BY <1>2, <2>2, <2>3 DEF EngineStepOk, SpawnsWhenQuiet, BeginsNothing
<1>4. CASE ValidationAccepts
  <2>1. s' = [s EXCEPT !.pc = "building"] /\ s.pc = "validating"
    BY <1>4 DEF ValidationAccepts, At
  <2>2. /\ s' \in Session /\ s'.pc = "building" /\ s'.stopWaiters = s.stopWaiters
        /\ s'.engineStop = s.engineStop /\ s'.aborted = s.aborted
        /\ s'.cancellationRequested = s.cancellationRequested
        /\ s'.verdicts = s.verdicts /\ s'.engineContext = s.engineContext
        /\ s'.consecutive = s.consecutive
    BY <1>1, <2>1 DEF SessionOk, Session
  <2>3. EngineInv'
    BY <1>2, <2>1, <2>2 DEF EngineInv, EngineOk, SessionOk, EngineAt, LeftAlive
  <2>4. QED
    BY <1>2, <2>2, <2>3 DEF EngineStepOk, SpawnsWhenQuiet, BeginsNothing
<1>5. CASE \E answer \in Answers : ValidationRefuses(answer)
  <2> DEFINE list == Append(s.verdicts, "validation")
             following == s.next + 1
             failed == [s EXCEPT !.verdicts = list, !.next = following]
  <2>1. s.pc = "validating" /\ "case" \notin s.stopWaiters
        /\ ~ s.engineContext /\ s.stopWaiters = {}
        /\ (~ s.aborted =>
              Quiet(engine) /\ (engine.process = "alive" => s.consecutive > 0))
    BY <1>5 DEF ValidationRefuses, At, EngineInv, EngineOk, EngineAt, LeftAlive
  <2>2. \E r : Caught(s, r, Cancelled) \/ CaseLoop(failed, r)
    BY <1>5 DEF ValidationRefuses
  <2>3. list \in Seq(Verdicts) /\ following \in Nat \ {0}
    BY <1>1 DEF SessionOk, Session, Verdicts
  <2> HIDE DEF list, following
  <2>4. /\ SessionOk(failed) /\ failed.stopWaiters = s.stopWaiters
        /\ failed.aborted = s.aborted /\ failed.engineContext = s.engineContext
        /\ failed.consecutive = s.consecutive
    BY <1>1, <2>3 DEF SessionOk, Session
  <2> HIDE DEF failed
  <2>5. EngineInv' /\ s'.pc \in {"validating", "persisting"}
    BY <1>1, <1>2, <2>1, <2>2, <2>4, CaughtEngine, CaseLoopEngine
  <2>6. QED
    BY <1>2, <2>1, <2>5 DEF EngineStepOk, SpawnsWhenQuiet, BeginsNothing
<1>6. QED
  BY <1>3, <1>4, <1>5

LEMMA BuildEngine ==
  ASSUME EngineInv, NEW verdict \in StartErrors,
         BuildResolves \/ BuildRejects(verdict)
  PROVE  EngineStepOk
<1>1. /\ SessionOk(s) /\ engine \in Engine /\ s.pc = "building"
      /\ ~ s.engineContext /\ s.stopWaiters = {}
      /\ ~ s.aborted =>
            Quiet(engine) /\ (engine.process = "alive" => s.consecutive > 0)
  BY DEF EngineInv, EngineOk, EngineAt, LeftAlive, BuildResolves, BuildRejects, At
<1> DEFINE opened == [s EXCEPT !.engineContext = TRUE, !.engineStop = "idle"]
<1>2. /\ SessionOk(opened) /\ opened.aborted = s.aborted
      /\ opened.engineStop = "idle" /\ opened.stopWaiters = {}
      /\ opened.engineContext
  BY <1>1 DEF SessionOk, Session
<1>3. CASE BuildRejects(verdict) \/ s.aborted
  <2>1. \/ CaseThrows("lifecycle", opened, engine) /\ s.aborted
        \/ CaseThrows(verdict, s, engine)
    BY <1>3 DEF BuildRejects, BuildResolves
  <2> HIDE DEF opened
  <2>2. /\ "lifecycle" \in CaseVerdicts /\ verdict \in CaseVerdicts
        /\ verdict \notin {"completed", "execution"}
    BY DEF CaseVerdicts, Verdicts, StartErrors
  <2>3. CASE CaseThrows("lifecycle", opened, engine) /\ s.aborted
    <3>1. EngineInv' /\ s'.pc = "caseStopping" /\ engine'.start = engine.start
      BY <1>1, <1>2, <2>2, <2>3, CaseThrowsEngine
    <3>2. QED
      BY <3>1 DEF EngineStepOk, SpawnsWhenQuiet, BeginsNothing
  <2>4. CASE CaseThrows(verdict, s, engine)
    <3>1. EngineInv' /\ s'.pc = "caseStopping" /\ engine'.start = engine.start
      BY <1>1, <2>2, <2>4, CaseThrowsEngine DEF Quiet
    <3>2. QED
      BY <3>1 DEF EngineStepOk, SpawnsWhenQuiet, BeginsNothing
  <2>5. QED
    BY <2>1, <2>3, <2>4
<1>4. CASE BuildResolves /\ ~ s.aborted
  <2>1. s' = [opened EXCEPT !.pc = "starting"] /\ engine' = Spawn(NoEngine)
    BY <1>4 DEF BuildResolves
  <2> HIDE DEF opened
  <2>2. /\ s' \in Session /\ s'.pc = "starting" /\ s'.stopWaiters = {}
        /\ s'.engineStop = "idle" /\ s'.aborted = s.aborted
        /\ s'.cancellationRequested = opened.cancellationRequested
        /\ s'.engineContext
    BY <1>2, <2>1 DEF SessionOk, Session
  <2>3. /\ engine' \in Engine /\ engine'.start = "pending"
        /\ engine'.probe = "none" /\ ~ engine'.active /\ ~ engine'.stopping
    BY <2>1 DEF Spawn, NoEngine, Engine
  <2>4. s'.cancellationRequested => s'.aborted
    BY <1>2, <2>2 DEF SessionOk
  <2>5. EngineInv'
    BY <2>2, <2>3, <2>4 DEF EngineInv, EngineOk, SessionOk, EngineAt, LeftAlive
  <2>6. QED
    BY <1>1, <1>4, <2>5 DEF EngineStepOk, SpawnsWhenQuiet, BeginsNothing, Quiet
<1>5. QED
  BY <1>3, <1>4

LEMMA OnAbortType ==
  ASSUME NEW e \in Engine
  PROVE  OnAbort(e) \in Engine /\ OnAbort(e).start = e.start
  BY StopRunStateType DEF OnAbort

LEMMA TimerEngine ==
  ASSUME EngineInv, RunTimer
  PROVE  EngineStepOk
<1> DEFINE aborted == [s EXCEPT !.aborted = TRUE]
<1>1. /\ SessionOk(s) /\ engine \in Engine /\ "case" \notin s.stopWaiters
      /\ s.pc \in {"validating", "building", "starting", "readying", "metrics"}
  BY DEF EngineInv, EngineOk, RunTimer, RunTimerArmed
<1>2. /\ SessionOk(aborted) /\ aborted.aborted
      /\ aborted.stopWaiters = s.stopWaiters
  BY <1>1 DEF SessionOk, Session
<1>3. OnAbort(engine) \in Engine /\ OnAbort(engine).start = engine.start
  BY <1>1, OnAbortType
<1>4. \/ Caught(aborted, run, "RUN_TIMEOUT_EXCEEDED")
         /\ engine' = OnAbort(engine)
      \/ FinishCase("timeout", run, aborted, OnAbort(engine))
  BY DEF RunTimer
<1> HIDE DEF aborted
<1>5. CASE Caught(aborted, run, "RUN_TIMEOUT_EXCEEDED")
           /\ engine' = OnAbort(engine)
  <2>1. EngineInv' /\ s'.pc = "persisting"
    BY <1>1, <1>2, <1>3, <1>5, CaughtEngine
  <2>2. QED
    BY <1>3, <1>5, <2>1 DEF EngineStepOk, SpawnsWhenQuiet, BeginsNothing
<1>6. CASE FinishCase("timeout", run, aborted, OnAbort(engine))
  <2>1. "timeout" \in CaseVerdicts
    BY DEF CaseVerdicts, Verdicts
  <2>2. EngineInv' /\ s'.pc = "caseStopping" /\ engine'.start = engine.start
    BY <1>1, <1>2, <1>3, <1>6, <2>1, FinishCaseEngine
  <2>3. QED
    BY <2>2 DEF EngineStepOk, SpawnsWhenQuiet, BeginsNothing
<1>7. QED
  BY <1>4, <1>5, <1>6

\* A step of the plugin that the orchestration does not await.
LEMMA EngineMoves ==
  ASSUME EngineInv, s' = s, engine' \in Engine,
         engine.start # "pending" => engine'.start # "pending",
         ~ s.aborted => EngineAt(s, engine')
  PROVE  EngineStepOk
  BY DEF EngineInv, EngineOk, EngineStepOk, SpawnsWhenQuiet, BeginsNothing

\* A step to the next await of a case.
LEMMA CaseMoves ==
  ASSUME EngineInv, "case" \notin s.stopWaiters,
         NEW pc \in {"readying", "executing", "metrics", "done"},
         s' = [s EXCEPT !.pc = pc], engine' \in Engine,
         engine.start # "pending" => engine'.start # "pending",
         (~ s.aborted /\ s.engineContext = s'.engineContext
            /\ s.engineStop = s'.engineStop /\ s'.pc = pc)
            => EngineAt(s', engine')
  PROVE  EngineStepOk
<1>1. /\ s' \in Session /\ s'.pc = pc /\ s'.stopWaiters = s.stopWaiters
      /\ s'.engineStop = s.engineStop /\ s'.aborted = s.aborted
      /\ s'.cancellationRequested = s.cancellationRequested
      /\ s'.engineContext = s.engineContext
  BY DEF EngineInv, EngineOk, SessionOk, Session
<1>2. EngineInv'
  BY <1>1 DEF EngineInv, EngineOk, SessionOk
<1>3. QED
  BY <1>1, <1>2 DEF EngineStepOk, SpawnsWhenQuiet, BeginsNothing

LEMMA StartEngine ==
  ASSUME EngineInv, NEW verdict \in StartErrors,
         (\E listens \in AbortListeners : StartResolves(listens)) \/ StartRejects(verdict)
  PROVE  EngineStepOk
<1>1. /\ SessionOk(s) /\ engine \in Engine /\ engine.start = "pending"
      /\ "case" \in s.stopWaiters => s.pc = "caseStopping"
      /\ ~ s.aborted => EngineAt(s, engine)
  BY DEF EngineInv, EngineOk, StartResolves, StartRejects
<1>2. s.aborted \in BOOLEAN
  BY <1>1 DEF SessionOk, Session
<1>3. ASSUME s.pc # "starting", NEW e \in Engine, ~ s.aborted
      PROVE  EngineAt(s, e)
  BY <1>1, <1>3 DEF EngineAt, LeftAlive, Quiet, Ordinary
<1>4. CASE \E listens \in AbortListeners : StartResolves(listens)
  <2>1. PICK listens \in AbortListeners : StartResolves(listens)
    BY <1>4
  <2> DEFINE started == Activate(engine, s.aborted, listens)
  <2>2. listens \in BOOLEAN
    BY AbortListenersAssumption
  <2>3. (listens /\ ~ s.aborted) \in BOOLEAN
    BY <1>2, <2>2
  <2>4. /\ started \in Engine /\ started.start = "settled"
        /\ started.stopping = engine.stopping /\ started.probe = engine.probe
        /\ started.active
    BY <1>1, <2>3 DEF Activate, Engine
  <2>5. CASE s.pc = "starting"
    <3>1. s' = [s EXCEPT !.pc = "readying"]
          /\ engine' = WaitUntilReady(started, s.aborted)
      BY <2>1, <2>5 DEF StartResolves, At
    <3> HIDE DEF started
    <3>2. engine' \in Engine /\ engine'.start = "settled"
          /\ (~ s.aborted => engine'.probe = "probing" /\ engine'.active
                             /\ engine'.stopping = started.stopping)
      BY <2>4, <3>1, StopRunStateType DEF WaitUntilReady, FailReadiness, Engine
    <3>3. ~ s.aborted => s.engineContext /\ s.engineStop = "idle" /\ ~ engine.stopping
      BY <1>1, <2>5 DEF EngineAt
    <3>4. (~ s.aborted /\ s.engineContext = s'.engineContext
            /\ s.engineStop = s'.engineStop /\ s'.pc = "readying")
            => EngineAt(s', engine')
      BY <2>4, <3>2, <3>3 DEF EngineAt, LeftAlive
    <3>5. QED
      BY <1>1, <2>5, <3>1, <3>2, <3>4, CaseMoves
  <2>6. CASE s.pc # "starting"
    <3>1. s' = s /\ engine' = started
      BY <2>1, <2>6 DEF StartResolves, At
    <3>2. QED
      BY <1>3, <2>4, <2>6, <3>1, EngineMoves
  <2>7. QED
    BY <2>5, <2>6
<1>5. CASE StartRejects(verdict)
  <2>1. /\ FailStart(engine) \in Engine /\ FailStart(engine).start = "settled"
        /\ FailStart(engine).probe = engine.probe
        /\ FailStart(engine).active = engine.active
        /\ FailStart(engine).stopping = engine.stopping
    BY <1>1 DEF FailStart, Engine
  <2>2. CASE s.pc = "starting"
    <3>1. CaseThrows(verdict, s, FailStart(engine))
      BY <1>5, <2>2 DEF StartRejects, At
    <3>2. verdict \in CaseVerdicts /\ verdict \notin {"completed", "execution"}
      BY DEF CaseVerdicts, Verdicts, StartErrors
    <3>3. ~ s.aborted => /\ engine.probe = "none" /\ ~ engine.stopping
                         /\ ~ engine.active /\ s.engineStop = "idle"
      BY <1>1, <2>2 DEF EngineAt
    <3>4. ~ s.aborted => s.stopWaiters = {}
      BY <1>1, <3>3 DEF SessionOk
    <3>5. EngineInv' /\ s'.pc = "caseStopping"
          /\ engine'.start = FailStart(engine).start
      BY <1>1, <2>1, <3>1, <3>2, <3>3, <3>4, CaseThrowsEngine
    <3>6. QED
      BY <1>1, <3>5 DEF EngineStepOk, SpawnsWhenQuiet, BeginsNothing
  <2>3. CASE s.pc # "starting"
    <3>1. s' = s /\ engine' = FailStart(engine)
      BY <1>5, <2>3 DEF StartRejects, At
    <3>2. QED
      BY <1>3, <2>1, <2>3, <3>1, EngineMoves
  <2>4. QED
    BY <2>2, <2>3
<1>6. QED
  BY <1>4, <1>5

LEMMA ReadyEngine ==
  ASSUME EngineInv, NEW verdict \in StartErrors,
         ReadyResolves \/ ReadinessFails \/ ReadyRejects(verdict)
  PROVE  EngineStepOk
<1>1. /\ SessionOk(s) /\ engine \in Engine
      /\ "case" \in s.stopWaiters => s.pc = "caseStopping"
      /\ ~ s.aborted => EngineAt(s, engine)
  BY DEF EngineInv, EngineOk
<1>2. engine.probe \in {"probing", "failing"}
  BY DEF ReadyResolves, ReadinessFails, ReadyRejects
<1>3. ASSUME s.pc # "readying", NEW e \in Engine, ~ s.aborted
      PROVE  EngineAt(s, e)
  BY <1>1, <1>2, <1>3 DEF EngineAt, LeftAlive, Quiet, Ordinary
<1>4. ~ s.aborted /\ s.pc = "readying" =>
        /\ s.engineContext /\ s.engineStop = "idle" /\ s.stopWaiters = {}
        /\ engine.start = "settled"
        /\ \/ engine.probe = "probing" /\ ~ engine.stopping
           \/ engine.probe = "failing" /\ ~ engine.active
        /\ engine.probe = "probing" /\ engine.process = "alive" => engine.active
  BY <1>1 DEF EngineAt, LeftAlive, SessionOk
<1> DEFINE e == [engine EXCEPT !.probe = "none"]
<1>5. /\ e \in Engine /\ e.start = engine.start /\ e.probe = "none"
      /\ e.active = engine.active /\ e.stopping = engine.stopping
      /\ e.process = engine.process
  BY <1>1 DEF Engine
<1>6. CASE ReadyResolves
  <2>1. engine.probe = "probing"
    BY <1>6 DEF ReadyResolves
  <2>2. CASE s.pc # "readying"
    <3>1. s' = s /\ engine' = e
      BY <1>6, <2>2 DEF ReadyResolves, At
    <3>2. QED
      BY <1>3, <1>5, <2>2, <3>1, EngineMoves
  <2>3. CASE s.pc = "readying" /\ (s.cancellationRequested \/ s.aborted)
    <3>1. FinishCase("cancelled", run, s, e)
      BY <1>6, <2>3 DEF ReadyResolves, At
    <3>2. "cancelled" \in CaseVerdicts /\ "cancelled" \notin Ordinary
      BY DEF CaseVerdicts, Verdicts, Ordinary
    <3> HIDE DEF e
    <3>3. EngineInv' /\ s'.pc = "caseStopping" /\ engine'.start = e.start
      BY <1>1, <1>5, <3>1, <3>2, FinishCaseEngine
    <3>4. QED
      BY <1>5, <3>3 DEF EngineStepOk, SpawnsWhenQuiet, BeginsNothing
  <2>4. CASE s.pc = "readying" /\ ~ s.cancellationRequested /\ ~ s.aborted
    <3>1. s' = [s EXCEPT !.pc = "executing"] /\ engine' = e
      BY <1>6, <2>4 DEF ReadyResolves, At
    <3> HIDE DEF e
    <3>2. (~ s.aborted /\ s.engineContext = s'.engineContext
            /\ s.engineStop = s'.engineStop /\ s'.pc = "executing")
            => EngineAt(s', engine')
      BY <1>4, <1>5, <2>1, <2>4, <3>1 DEF EngineAt, LeftAlive
    <3>3. QED
      BY <1>1, <1>5, <2>4, <3>1, <3>2, CaseMoves
  <2>5. QED
    BY <2>2, <2>3, <2>4
<1>7. CASE ReadinessFails
  <2>1. s' = s /\ engine' = FailReadiness(engine)
    BY <1>7 DEF ReadinessFails
  <2>2. /\ engine' \in Engine /\ engine'.start = engine.start
        /\ engine'.probe = "failing" /\ ~ engine'.active
    BY <1>1, <2>1, StopRunStateType DEF FailReadiness, Engine
  <2>3. ~ s.aborted /\ s.pc = "readying" => EngineAt(s, engine')
    BY <1>4, <2>2 DEF EngineAt, LeftAlive
  <2>4. QED
    BY <1>3, <2>1, <2>2, <2>3, EngineMoves
<1>8. CASE ReadyRejects(verdict)
  <2>1. engine.probe = "failing" /\ ~ engine.stopping
    BY <1>8 DEF ReadyRejects
  <2>2. CASE s.pc # "readying"
    <3>1. s' = s /\ engine' = e
      BY <1>8, <2>2 DEF ReadyRejects, At
    <3>2. QED
      BY <1>3, <1>5, <2>2, <3>1, EngineMoves
  <2>3. CASE s.pc = "readying"
    <3>1. CaseThrows(verdict, s, e)
      BY <1>8, <2>3 DEF ReadyRejects, At
    <3>2. verdict \in CaseVerdicts /\ verdict \notin {"completed", "execution"}
      BY DEF CaseVerdicts, Verdicts, StartErrors
    <3> HIDE DEF e
    <3>3. EngineInv' /\ s'.pc = "caseStopping" /\ engine'.start = e.start
      BY <1>1, <1>4, <1>5, <2>1, <2>3, <3>1, <3>2, CaseThrowsEngine
    <3>4. QED
      BY <1>5, <3>3 DEF EngineStepOk, SpawnsWhenQuiet, BeginsNothing
  <2>4. QED
    BY <2>2, <2>3
<1>9. QED
  BY <1>6, <1>7, <1>8

\* What the end of a stop, or its failure, makes of a session.
LEMMA StoppedSession ==
  ASSUME NEW session, SessionOk(session)
  PROVE  LET new == Stopped(session)
         IN  /\ SessionOk(new) /\ new.pc = session.pc /\ new.next = session.next
             /\ new.aborted = session.aborted
             /\ new.verdicts = session.verdicts
             /\ new.consecutive = session.consecutive
             /\ new.stopWaiters = {}
             /\ session.engineStop # "inFlight" => new = session
             /\ session.engineStop = "inFlight" => ~ new.engineContext
  BY ZenonT(60) DEF Stopped, SessionOk, Session

LEMMA StopFailedSession ==
  ASSUME NEW session, SessionOk(session),
         "case" \in session.stopWaiters => session.verdicts # <<>>
  PROVE  LET new == StopFailed(session)
             replaced == "case" \in session.stopWaiters
                            /\ Last(session.verdicts) \notin Preserved
         IN  /\ SessionOk(new) /\ new.pc = session.pc /\ new.next = session.next
             /\ new.aborted = session.aborted
             /\ new.consecutive = session.consecutive
             /\ new.engineContext = session.engineContext
             /\ new.stopWaiters = {}
             /\ session.engineStop # "inFlight" => new = session
             /\ new.verdicts = IF replaced
                               THEN [session.verdicts EXCEPT
                                        ![Len(session.verdicts)] = "stopFailed"]
                               ELSE session.verdicts
<1>1. CASE session.engineStop # "inFlight"
  BY <1>1 DEF StopFailed, SessionOk, Session
<1>2. CASE session.engineStop = "inFlight"
  <2> DEFINE told == [session EXCEPT !.engineStop = "idle", !.stopWaiters = {}]
             replaced == "case" \in session.stopWaiters
                            /\ Last(session.verdicts) \notin Preserved
             list == [told.verdicts EXCEPT ![Len(told.verdicts)] = "stopFailed"]
  <2>1. /\ SessionOk(told) /\ told.pc = session.pc /\ told.next = session.next
        /\ told.aborted = session.aborted
        /\ told.consecutive = session.consecutive
        /\ told.engineContext = session.engineContext
        /\ told.stopWaiters = {} /\ told.verdicts = session.verdicts
    BY DEF SessionOk, Session
  <2>2. CASE ~ replaced
    <3>1. StopFailed(session) = told
      BY <1>2, <2>2 DEF StopFailed
    <3>2. QED
      BY <1>2, <2>1, <2>2, <3>1
  <2>3. CASE replaced
    <3>1. StopFailed(session) = [told EXCEPT !.verdicts = list]
      BY <1>2, <2>3 DEF StopFailed
    <3>2. list \in Seq(Verdicts)
      <4>1. told.verdicts \in Seq(Verdicts) /\ told.verdicts # <<>>
        BY <2>1, <2>3 DEF SessionOk, Session
      <4> HIDE DEF told
      <4>2. "stopFailed" \in Verdicts
        BY DEF CaseVerdicts, Verdicts
      <4>3. QED
        BY <4>1, <4>2
    <3>3. list = [session.verdicts EXCEPT ![Len(session.verdicts)] = "stopFailed"]
      BY <2>1
    <3> HIDE DEF told, list
    <3> DEFINE new == [told EXCEPT !.verdicts = list]
    <3>4. /\ SessionOk(new) /\ new.pc = told.pc /\ new.next = told.next
          /\ new.aborted = told.aborted
          /\ new.consecutive = told.consecutive
          /\ new.engineContext = told.engineContext
          /\ new.stopWaiters = told.stopWaiters /\ new.verdicts = list
      BY <2>1, <3>2 DEF SessionOk, Session
    <3>5. QED
      BY <1>2, <2>1, <2>3, <3>1, <3>3, <3>4
  <2>4. QED
    BY <2>2, <2>3
<1>3. QED
  BY <1>1, <1>2

LEMMA StopEndsEngine ==
  ASSUME EngineInv, EngineExits \/ StopGivesUp \/ StopTimesOut
  PROVE  EngineStepOk
<1>1. /\ SessionOk(s) /\ engine \in Engine
      /\ "case" \in s.stopWaiters => s.pc = "caseStopping" /\ s.verdicts # <<>>
      /\ s.pc = "caseStopping" => s.verdicts # <<>>
      /\ s.pc \in {"idle", "validating", "building"} =>
            ~ s.engineContext /\ s.stopWaiters = {}
      /\ s.stopWaiters # {} => s.engineStop = "inFlight"
      /\ ~ s.aborted => EngineAt(s, engine)
  BY DEF EngineInv, EngineOk, SessionOk
<1>2. CASE EngineExits
  <2>1. engine' = Exit(engine) /\ s' = Stopped(s) /\ engine.start = "settled"
    BY <1>2 DEF EngineExits
  <2>2. /\ engine' \in Engine /\ engine'.start = engine.start
        /\ engine'.probe = engine.probe /\ ~ engine'.active /\ ~ engine'.stopping
        /\ engine'.process # "alive"
    BY <1>1, <2>1 DEF Exit, Engine
  <2>3. /\ SessionOk(s') /\ s'.pc = s.pc /\ s'.aborted = s.aborted
        /\ s'.verdicts = s.verdicts /\ s'.stopWaiters = {}
        /\ s.engineStop # "inFlight" => s' = s
        /\ s.engineStop = "inFlight" => ~ s'.engineContext
    BY <1>1, <2>1, StoppedSession
  <2>4. ~ s'.aborted => EngineAt(s', engine')
    BY <1>1, <2>2, <2>3 DEF EngineAt, LeftAlive, Quiet
  <2>5. EngineInv'
    BY <1>1, <2>2, <2>3, <2>4 DEF EngineInv, EngineOk
  <2>6. QED
    BY <2>2, <2>3, <2>5 DEF EngineStepOk, SpawnsWhenQuiet, BeginsNothing
<1>3. CASE StopGivesUp \/ StopTimesOut
  <2> DEFINE replaced == "case" \in s.stopWaiters
                            /\ Last(s.verdicts) \notin Preserved
  <2>1. s' = StopFailed(s)
    BY <1>3 DEF StopGivesUp, StopTimesOut
  <2>2. /\ SessionOk(s') /\ s'.pc = s.pc /\ s'.aborted = s.aborted
        /\ s'.engineContext = s.engineContext /\ s'.stopWaiters = {}
        /\ s'.consecutive = s.consecutive
        /\ s.engineStop # "inFlight" => s' = s
        /\ s'.verdicts = IF replaced
                         THEN [s.verdicts EXCEPT ![Len(s.verdicts)] = "stopFailed"]
                         ELSE s.verdicts
    BY <1>1, <2>1, StopFailedSession
  <2>3. s.verdicts \in Seq(Verdicts)
    BY <1>1 DEF SessionOk, Session
  <2>4. /\ s.pc = "caseStopping" => s'.verdicts # <<>>
        /\ replaced => Last(s'.verdicts) = "stopFailed"
    <3>1. s.verdicts # <<>> =>
            LET list == [s.verdicts EXCEPT ![Len(s.verdicts)] = "stopFailed"]
            IN  list # <<>> /\ Last(list) = "stopFailed"
      BY <2>3 DEF Last
    <3>2. QED
      BY <1>1, <2>2, <3>1
  <2>5. /\ engine' \in Engine /\ engine'.start = engine.start
        /\ engine'.probe = engine.probe /\ engine'.active = engine.active
        /\ engine'.process = engine.process
        /\ \/ engine' = engine /\ s.engineStop = "inFlight"
           \/ engine.stopping /\ ~ engine'.stopping
    <3>1. CASE StopGivesUp
      BY <1>1, <3>1 DEF StopGivesUp, GiveUpStop, Engine
    <3>2. CASE StopTimesOut
      BY <1>1, <3>2 DEF StopTimesOut, StopTimerArmed
    <3>3. QED
      BY <1>3, <3>1, <3>2
  <2>6. ~ s'.aborted => EngineAt(s', engine')
    <3>1. SUFFICES ASSUME ~ s.aborted
                   PROVE  EngineAt(s', engine')
      BY <2>2
    <3>2. CASE s.pc = "caseStopping" /\ Last(s'.verdicts) \in Ordinary
      <4>1. ~ replaced /\ s'.verdicts = s.verdicts
        BY <2>2, <2>4, <3>2 DEF Ordinary
      <4>2. "case" \notin s.stopWaiters
        BY <3>2, <4>1 DEF Ordinary, Preserved
      <4>3. QED
        BY <1>1, <2>2, <2>5, <3>1, <3>2, <4>1, <4>2 DEF EngineAt, LeftAlive
    <3>3. CASE ~ (s.pc = "caseStopping" /\ Last(s'.verdicts) \in Ordinary)
      BY <1>1, <2>2, <2>5, <3>1, <3>3 DEF EngineAt, LeftAlive, Quiet, Ordinary
    <3>4. QED
      BY <3>2, <3>3
  <2>7. EngineInv'
    BY <1>1, <2>2, <2>4, <2>5, <2>6 DEF EngineInv, EngineOk
  <2>8. QED
    BY <2>2, <2>5, <2>7 DEF EngineStepOk, SpawnsWhenQuiet, BeginsNothing
<1>4. QED
  BY <1>2, <1>3

LEMMA CaseEngine ==
  ASSUME EngineInv, NEW verdict \in CaseErrors,
         CaseResolves \/ CaseRejects(verdict) \/ CaseTimer \/ MetricsSettle
  PROVE  EngineStepOk
<1>1. /\ SessionOk(s) /\ engine \in Engine /\ "case" \notin s.stopWaiters
      /\ s.pc \in {"executing", "metrics"}
      /\ ~ s.aborted => EngineAt(s, engine)
  BY DEF EngineInv, EngineOk, CaseResolves, CaseRejects, CaseTimer,
         MetricsSettle, At
<1>2. ~ s.aborted =>
        /\ s.engineContext /\ s.engineStop = "idle" /\ s.stopWaiters = {}
        /\ engine.start = "settled" /\ engine.probe = "none" /\ ~ engine.stopping
        /\ engine.process = "alive" => engine.active
  BY <1>1 DEF EngineAt, LeftAlive, SessionOk
<1>3. CASE CaseResolves
  <2>1. s' = [s EXCEPT !.pc = "metrics"] /\ engine' = engine
    BY <1>3 DEF CaseResolves
  <2>2. (~ s.aborted /\ s.engineContext = s'.engineContext
          /\ s.engineStop = s'.engineStop /\ s'.pc = "metrics")
          => EngineAt(s', engine')
    BY <1>2, <2>1 DEF EngineAt, LeftAlive
  <2>3. QED
    BY <1>1, <2>1, <2>2, CaseMoves
<1>4. CASE \E v \in CaseVerdicts, r \in {run, RecordCaseCompleted(run, Sweep[s.next])} :
                FinishCase(v, r, s, engine)
  <2>1. PICK v \in CaseVerdicts, r \in {run, RecordCaseCompleted(run, Sweep[s.next])} :
                FinishCase(v, r, s, engine)
    BY <1>4
  <2>2. EngineInv' /\ s'.pc = "caseStopping" /\ engine'.start = engine.start
    BY <1>1, <1>2, <2>1, FinishCaseEngine
  <2>3. QED
    BY <2>2 DEF EngineStepOk, SpawnsWhenQuiet, BeginsNothing
<1>5. CASE \E v \in CaseErrors : CaseThrows(v, s, engine)
  <2>1. PICK v \in CaseVerdicts : CaseThrows(v, s, engine) /\ v # "completed"
    BY <1>5 DEF CaseVerdicts, Verdicts, CaseErrors
  <2>2. EngineInv' /\ s'.pc = "caseStopping" /\ engine'.start = engine.start
    BY <1>1, <1>2, <1>5, <2>1, CaseThrowsEngine
  <2>3. QED
    BY <2>2 DEF EngineStepOk, SpawnsWhenQuiet, BeginsNothing
<1>6. QED
  <2>1. /\ "timeout" \in CaseVerdicts /\ "completed" \in CaseVerdicts
        /\ "execution" \in CaseErrors
    BY DEF CaseVerdicts, Verdicts, CaseErrors
  <2>2. QED
    BY <1>3, <1>4, <1>5, <2>1 DEF CaseRejects, CaseTimer, MetricsSettle

\* The third lifecycle failure is the last, so the count stays in its range.
LEMMA CaseReturnsEngine ==
  ASSUME EngineInv, CaseReturns,
         s.consecutive < MaxConsecutiveEngineLifecycleFailures
  PROVE  EngineStepOk
<1>1. /\ SessionOk(s) /\ engine \in Engine /\ "case" \notin s.stopWaiters
      /\ s.pc = "caseStopping" /\ s.verdicts # <<>>
      /\ Last(s.verdicts) # "validation"
      /\ ~ s.aborted => EngineAt(s, engine)
  BY DEF EngineInv, EngineOk, CaseReturns, CaseStopIsOver, At
<1> DEFINE verdict == Last(s.verdicts)
           count == ConsecutiveFailures(verdict)
           following == s.next + 1
           counted == [s EXCEPT !.consecutive = count, !.next = following]
<1>2. count \in 0 .. MaxConsecutiveEngineLifecycleFailures /\ following \in Nat \ {0}
  BY <1>1 DEF SessionOk, Session, MaxConsecutiveEngineLifecycleFailures,
              ConsecutiveFailures
<1>3. verdict \in Verdicts
  BY <1>1 DEF SessionOk, Session, Last
<1>4. engine' = engine
        /\ \/ \E code : Caught(s, run, code)
           \/ Caught(counted, run, "ENGINE_START_FAILED")
           \/ verdict \notin {"cancelled", "timeout", "stopFailed"}
                /\ CaseLoop(counted, run)
  BY DEF CaseReturns
<1>4a. verdict = "lifecycle" => count > 0
  BY <1>1 DEF ConsecutiveFailures, SessionOk, Session
<1> HIDE DEF count, following
<1>5. /\ SessionOk(counted) /\ counted.stopWaiters = s.stopWaiters
      /\ counted.aborted = s.aborted /\ counted.engineContext = s.engineContext
      /\ counted.consecutive = count
  BY <1>1, <1>2 DEF SessionOk, Session
<1> HIDE DEF counted, verdict
<1>6. CASE \/ \E code : Caught(s, run, code)
           \/ Caught(counted, run, "ENGINE_START_FAILED")
  <2>1. EngineInv' /\ s'.pc = "persisting"
    BY <1>1, <1>4, <1>5, <1>6, CaughtEngine
  <2>2. QED
    BY <1>4, <2>1 DEF EngineStepOk, SpawnsWhenQuiet, BeginsNothing
<1>7. CASE verdict \notin {"cancelled", "timeout", "stopFailed"}
                /\ CaseLoop(counted, run)
  <2>1. verdict \in Ordinary
    BY <1>1, <1>3, <1>7 DEF Verdicts, Ordinary, verdict
  <2>2. ~ s.aborted =>
          /\ Quiet(engine) /\ ~ s.engineContext /\ s.stopWaiters = {}
          /\ verdict # "lifecycle" => engine.process # "alive"
    BY <1>1, <2>1 DEF EngineAt, LeftAlive, Quiet, Ordinary, verdict
  <2>3. /\ EngineInv' /\ s'.pc \in {"validating", "persisting"}
        /\ s.aborted => s'.pc = "persisting"
    BY <1>1, <1>4, <1>5, <1>7, <1>4a, <2>2, CaseLoopEngine
  <2>4. QED
    BY <1>4, <2>3 DEF EngineStepOk, SpawnsWhenQuiet, BeginsNothing
<1>8. QED
  BY <1>4, <1>6, <1>7

LEMMA EndEngine ==
  ASSUME EngineInv, Persisted \/ ExecuteReturns \/ CancellationSettles
  PROVE  EngineStepOk
<1>1. /\ SessionOk(s) /\ engine \in Engine
      /\ "case" \in s.stopWaiters => s.pc = "caseStopping"
      /\ ~ s.aborted => EngineAt(s, engine)
  BY DEF EngineInv, EngineOk
<1>2. CASE Persisted
  <2> DEFINE who == {"final"}
             p == StopEngine(Pair(s, engine), who)
  <2>1. s' = [p.s EXCEPT !.pc = "stopping"] /\ engine' = p.e
        /\ s.pc = "persisting"
    BY <1>2 DEF Persisted, At
  <2>2. who \in SUBSET {"canceller", "case", "final"} /\ "case" \notin who
    OBVIOUS
  <2> HIDE DEF who
  <2>3. s \in Session /\ (s.stopWaiters # {} => s.engineStop = "inFlight")
        /\ (s.cancellationRequested => s.aborted)
    BY <1>1 DEF SessionOk
  <2>4. AfterStopEngine(s, engine, who, p)
    BY <1>1, <2>2, <2>3, StopEngineCases
  <2> HIDE DEF p
  <2>5. StopFrame(s, engine, who, p)
    BY <1>1, <2>2, <2>3, <2>4, StopEngineFrame
  <2>6. /\ p.s \in Session /\ p.s.stopWaiters \subseteq s.stopWaiters \cup who
        /\ p.s.stopWaiters # {} => p.s.engineStop = "inFlight"
        /\ p.s.aborted = s.aborted
        /\ p.s.cancellationRequested = s.cancellationRequested
        /\ engine' \in Engine /\ engine'.start = engine.start
    BY <2>1, <2>5 DEF StopFrame
  <2>7. /\ s' \in Session /\ s'.pc = "stopping" /\ s'.stopWaiters = p.s.stopWaiters
        /\ s'.engineStop = p.s.engineStop /\ s'.aborted = s.aborted
        /\ s'.cancellationRequested = s.cancellationRequested
    BY <2>1, <2>6 DEF Session
  <2>8. "case" \notin s'.stopWaiters
    BY <1>1, <2>1, <2>2, <2>6, <2>7
  <2>9. EngineInv'
    BY <2>3, <2>6, <2>7, <2>8
    DEF EngineInv, EngineOk, SessionOk, EngineAt, LeftAlive
  <2>10. QED
    BY <2>6, <2>7, <2>9 DEF EngineStepOk, SpawnsWhenQuiet, BeginsNothing
<1>3. CASE ExecuteReturns
  <2>1. s' = [s EXCEPT !.pc = "done"] /\ engine' = engine /\ s.pc = "stopping"
    BY <1>3 DEF ExecuteReturns, FinalStopIsOver, At
  <2>2. (~ s.aborted /\ s.engineContext = s'.engineContext
          /\ s.engineStop = s'.engineStop /\ s'.pc = "done")
          => EngineAt(s', engine')
    BY DEF EngineAt, LeftAlive
  <2>3. QED
    BY <1>1, <2>1, <2>2, CaseMoves
<1>4. CASE CancellationSettles
  BY <1>1, <1>4, EngineMoves DEF CancellationSettles
<1>5. QED
  BY <1>2, <1>3, <1>4

LEMMA CancelEngine ==
  ASSUME EngineInv, NEW byRoute \in BOOLEAN, CancelRequest(byRoute)
  PROVE  EngineStepOk
<1> DEFINE told == [s EXCEPT !.cancellationRequested = TRUE, !.aborted = TRUE]
           e == OnAbort(engine)
           who == {"canceller"}
           p == StopEngine(Pair(told, e), who)
<1>1. /\ SessionOk(s) /\ engine \in Engine
      /\ "case" \in s.stopWaiters => s.pc = "caseStopping"
      /\ s.pc = "caseStopping" => s.verdicts # <<>> /\ Last(s.verdicts) # "validation"
      /\ s.pc \in {"idle", "validating", "building"} =>
            ~ s.engineContext /\ s.stopWaiters = {}
  BY DEF EngineInv, EngineOk
<1>2. s' = p.s /\ engine' = p.e
  BY DEF CancelRequest
<1>3. who \in SUBSET {"canceller", "case", "final"} /\ "case" \notin who
  OBVIOUS
<1>4. e \in Engine /\ e.start = engine.start
  BY <1>1, OnAbortType
<1>5. /\ told \in Session /\ (told.stopWaiters # {} => told.engineStop = "inFlight")
      /\ told.aborted /\ told.pc = s.pc /\ told.stopWaiters = s.stopWaiters
      /\ told.verdicts = s.verdicts /\ told.engineContext = s.engineContext
  BY <1>1 DEF SessionOk, Session
<1> HIDE DEF told, e, who
<1>6. AfterStopEngine(told, e, who, p)
  BY <1>3, <1>4, <1>5, StopEngineCases
<1> HIDE DEF p
<1>7. StopFrame(told, e, who, p)
  BY <1>3, <1>4, <1>5, <1>6, StopEngineFrame
<1>8. /\ s' \in Session /\ s'.pc = s.pc /\ s'.aborted /\ s'.verdicts = s.verdicts
      /\ s'.stopWaiters # {} => s'.engineStop = "inFlight"
      /\ s'.stopWaiters \subseteq s.stopWaiters \cup who
      /\ engine' \in Engine /\ engine'.start = engine.start
  BY <1>2, <1>4, <1>5, <1>7 DEF StopFrame
<1>9. s.pc \in {"idle", "validating", "building"} => s' = told
  BY <1>1, <1>2, <1>5, <1>6 DEF AfterStopEngine
<1>10. "case" \in s'.stopWaiters => s.pc = "caseStopping"
  BY <1>1, <1>3, <1>8
<1>11. EngineInv'
  BY <1>1, <1>5, <1>8, <1>9, <1>10 DEF EngineInv, EngineOk, SessionOk
<1>12. QED
  BY <1>8, <1>11 DEF EngineStepOk, SpawnsWhenQuiet, BeginsNothing

LEMMA EngineStep ==
  ASSUME EngineInv, [Next]_vars,
         s.pc = "caseStopping" => s.consecutive < MaxConsecutiveEngineLifecycleFailures
  PROVE  EngineStepOk
<1>1. CASE UNCHANGED vars
  BY <1>1 DEF vars, EngineInv, EngineStepOk, SpawnsWhenQuiet, BeginsNothing
<1>2. CASE Microtask
  BY <1>2, CaseReturnsEngine, EndEngine DEF Microtask, CaseReturns, CaseStopIsOver, At
<1>3. CASE PluginStep
  <2>1. "lifecycle" \in StartErrors /\ "execution" \in CaseErrors
    BY DEF StartErrors, CaseErrors
  <2>2. ASSUME NEW verdict \in StartErrors,
               BuildRejects(verdict) \/ StartRejects(verdict) \/ ReadyRejects(verdict)
        PROVE  EngineStepOk
    BY <2>2, BuildEngine, StartEngine, ReadyEngine
  <2>3. ASSUME NEW verdict \in CaseErrors, CaseRejects(verdict)
        PROVE  EngineStepOk
    BY <2>3, CaseEngine
  <2>4. QED
    BY <1>3, <2>1, <2>2, <2>3, ValidationEngine, BuildEngine, StartEngine,
       ReadyEngine, StopEndsEngine, CaseEngine
    DEF PluginStep, Answers, StartErrors, CaseErrors
<1>4. CASE Macrotask /\ ~ PluginStep
  <2>1. "execution" \in CaseErrors
    BY DEF CaseErrors
  <2>2. QED
    BY <1>4, <2>1, BeginEngine, ValidationEngine, TimerEngine, CaseEngine,
       StopEndsEngine, EndEngine, CancelEngine DEF Macrotask
<1>5. QED
  BY <1>1, <1>2, <1>3, <1>4 DEF Next

-------------------------------------------------------------------------------
(***************************************************************************)
(* Part 4: lifecycle failures in a row.                                    *)
(***************************************************************************)

\* The failures Streak counts.
InARow(verdicts) ==
    {i \in DOMAIN verdicts :
        /\ verdicts[i] = "lifecycle"
        /\ \A j \in DOMAIN verdicts :
            j > i => verdicts[j] \notin {"completed", "execution"}}

LEMMA InARowFinite ==
  ASSUME NEW list \in Seq(Verdicts)
  PROVE  /\ IsFiniteSet(InARow(list)) /\ Streak(list) \in Nat
         /\ Streak(list) = Cardinality(InARow(list))
         /\ InARow(list) \subseteq 1 .. Len(list)
<1>1. Len(list) \in Int /\ InARow(list) \subseteq 1 .. Len(list)
  BY DEF InARow
<1>2. IsFiniteSet(1 .. Len(list))
  BY <1>1, FS_Interval
<1>3. IsFiniteSet(InARow(list))
  BY <1>1, <1>2, FS_Subset
<1>4. Streak(list) = Cardinality(InARow(list))
  BY DEF Streak, InARow
<1>5. QED
  BY <1>1, <1>3, <1>4, FS_CardinalityType

LEMMA StreakEmpty == Streak(<<>>) = 0
<1>1. <<>> \in Seq(Verdicts) /\ InARow(<<>>) = {}
  BY DEF InARow
<1>2. QED
  BY <1>1, InARowFinite, FS_EmptySet

\* A lifecycle failure makes the row longer by one, an engine that came up
\* ends it, and anything else leaves it alone.
LEMMA StreakAppend ==
  ASSUME NEW list \in Seq(Verdicts), NEW v \in Verdicts
  PROVE  Streak(Append(list, v)) =
            IF v = "lifecycle" THEN Streak(list) + 1
            ELSE IF v \in {"completed", "execution"} THEN 0
            ELSE Streak(list)
<1> DEFINE new == Append(list, v)
           n == Len(list)
<1>1. /\ new \in Seq(Verdicts) /\ DOMAIN new = 1 .. n + 1 /\ n \in Nat
      /\ new[n + 1] = v /\ \A i \in 1 .. n : new[i] = list[i]
      /\ DOMAIN list = 1 .. n
  OBVIOUS
<1> HIDE DEF new, n
<1>2. CASE v = "lifecycle"
  <2>1. InARow(new) = InARow(list) \cup {n + 1}
    BY <1>1, <1>2 DEF InARow
  <2>2. n + 1 \notin InARow(list)
    BY <1>1 DEF InARow
  <2>3. IsFiniteSet(InARow(list)) /\ Streak(list) = Cardinality(InARow(list))
    BY InARowFinite
  <2>4. Cardinality(InARow(new)) = Cardinality(InARow(list)) + 1
    BY <2>1, <2>2, <2>3, FS_AddElement
  <2>5. Streak(new) = Cardinality(InARow(new))
    BY <1>1, InARowFinite
  <2>6. QED
    BY <1>2, <2>3, <2>4, <2>5 DEF new
<1>3. CASE v \in {"completed", "execution"}
  <2>1. InARow(new) = {}
    BY <1>1, <1>3 DEF InARow
  <2>2. QED
    BY <1>1, <1>3, <2>1, InARowFinite, FS_EmptySet DEF new
<1>4. CASE v \notin {"lifecycle", "completed", "execution"}
  <2>1. InARow(new) = InARow(list)
    BY <1>1, <1>4 DEF InARow
  <2>2. QED
    BY <1>1, <1>4, <2>1, InARowFinite DEF new
<1>5. QED
  BY <1>2, <1>3, <1>4

LEMMA NoThreeAppend ==
  ASSUME NEW list \in Seq(Verdicts), NEW v \in Verdicts,
         NoThreeBefore(list), Streak(list) < 3
  PROVE  NoThreeBefore(Append(list, v))
<1> DEFINE new == Append(list, v)
<1>1. Len(new) - 1 = Len(list) /\ Len(list) \in Nat
  OBVIOUS
<1>2. \A n \in 0 .. Len(list) : SubSeq(new, 1, n) = SubSeq(list, 1, n)
  OBVIOUS
<1>3. SubSeq(list, 1, Len(list)) = list
  OBVIOUS
<1> HIDE DEF new
<1>4. ASSUME NEW n \in 0 .. Len(list)
      PROVE  Streak(SubSeq(new, 1, n)) < 3
  <2>1. CASE n = Len(list)
    BY <1>2, <1>3, <2>1
  <2>2. CASE n # Len(list)
    <3>1. n \in 0 .. Len(list) - 1
      BY <1>1, <2>2
    <3>2. QED
      BY <1>2, <3>1 DEF NoThreeBefore
  <2>3. QED
    BY <2>1, <2>2
<1>5. QED
  BY <1>1, <1>4 DEF NoThreeBefore, new

\* Replacing the last verdict leaves what came before it alone.
LEMMA ReplaceLast ==
  ASSUME NEW list \in Seq(Verdicts), list # <<>>, NEW v \in Verdicts
  PROVE  LET new == [list EXCEPT ![Len(list)] = v]
         IN  /\ new \in Seq(Verdicts) /\ new # <<>> /\ Last(new) = v
             /\ Len(new) = Len(list)
             /\ \A n \in 0 .. Len(list) - 1 :
                    SubSeq(new, 1, n) = SubSeq(list, 1, n)
  BY DEF Last

-------------------------------------------------------------------------------
(***************************************************************************)
(* Part 5: the report, against the sweep.                                  *)
(***************************************************************************)

\* The sweep in its parts.
LEMMA SweepParts ==
  /\ Sweep \in Seq(CaseIds) /\ Len(Sweep) \in Nat
  /\ \A n \in 1 .. Len(Sweep) :
        /\ Sweep[n] \in CaseIds
        /\ Append(SubSeq(Sweep, 1, n - 1), Sweep[n]) = SubSeq(Sweep, 1, n)
  /\ \A n \in 1 .. Len(Sweep) + 1 :
        /\ SubSeq(Sweep, 1, n - 1) \o SubSeq(Sweep, n, Len(Sweep)) = Sweep
        /\ SubSeq(Sweep, n, Len(Sweep)) \in Seq(CaseIds)
  /\ \A n \in 0 .. Len(Sweep) : IsPrefix(SubSeq(Sweep, 1, n), Sweep)
  /\ SubSeq(Sweep, 1, Len(Sweep)) = Sweep /\ SubSeq(Sweep, 1, 0) = <<>>
<1>1. Sweep \in Seq(CaseIds) /\ Len(Sweep) \in Nat
  BY SweepRunAssumption
<1> DEFINE S == Sweep
<1>2. S \in Seq(CaseIds) /\ Len(S) \in Nat
  BY <1>1
<1> HIDE DEF S
<1>3. ASSUME NEW n \in 1 .. Len(S)
      PROVE  /\ S[n] \in CaseIds
             /\ Append(SubSeq(S, 1, n - 1), S[n]) = SubSeq(S, 1, n)
  BY <1>2
<1>4. ASSUME NEW n \in 1 .. Len(S) + 1
      PROVE  /\ SubSeq(S, 1, n - 1) \o SubSeq(S, n, Len(S)) = S
             /\ SubSeq(S, n, Len(S)) \in Seq(CaseIds)
  <2>1. /\ 1 \in 1 .. Len(S) + 1 /\ n - 1 \in 1 - 1 .. Len(S)
        /\ Len(S) \in n - 1 .. Len(S) /\ (n - 1) + 1 = n
    BY <1>2
  <2>2. SubSeq(S, 1, n - 1) \o SubSeq(S, (n - 1) + 1, Len(S)) = SubSeq(S, 1, Len(S))
    BY <1>2, <2>1, ConcatAdjacentSubSeq
  <2>3. SubSeq(S, 1, Len(S)) = S
    BY <1>2
  <2>4. SubSeq(S, n, Len(S)) \in Seq(CaseIds)
    BY <1>2
  <2>5. QED
    BY <2>1, <2>2, <2>3, <2>4
<1>5. ASSUME NEW n \in 0 .. Len(S)
      PROVE  IsPrefix(SubSeq(S, 1, n), S)
  BY <1>2 DEF IsPrefix
<1>6. SubSeq(S, 1, Len(S)) = S /\ SubSeq(S, 1, 0) = <<>>
  BY <1>2
<1>7. QED
  BY <1>2, <1>3, <1>4, <1>5, <1>6 DEF S

LEMMA SweepEnds ==
  /\ Len(Sweep) \in Nat /\ 0 \in 0 .. Len(Sweep) /\ 1 \in 1 .. Len(Sweep) + 1
  /\ SubSeq(Sweep, 1, 0) = <<>>
  /\ SubSeq(Sweep, 1, 0) \o SubSeq(Sweep, 1, Len(Sweep)) = Sweep
<1>1. Len(Sweep) \in Nat /\ SubSeq(Sweep, 1, 0) = <<>>
  BY SweepParts
<1>2. \A n \in 1 .. Len(Sweep) + 1 :
          SubSeq(Sweep, 1, n - 1) \o SubSeq(Sweep, n, Len(Sweep)) = Sweep
  BY SweepParts
<1> DEFINE length == Len(Sweep)
<1>3. 0 \in 0 .. length /\ 1 \in 1 .. length + 1
  <2> HIDE DEF length
  <2>1. length \in Nat
    BY <1>1 DEF length
  <2>2. QED
    BY <2>1
<1>4. SubSeq(Sweep, 1, 1 - 1) \o SubSeq(Sweep, 1, Len(Sweep)) = Sweep
  BY <1>2, <1>3
<1>5. QED
  BY <1>1, <1>3, <1>4

\* The account of a run under way: the first k cases, and no failure.
Account(k, r) ==
    /\ k \in 0 .. Len(Sweep)
    /\ r \in RunRecord /\ r.failure = NoFailure
    /\ SoFar(k, r)

LEMMA SameAccount ==
  ASSUME NEW k, NEW r, Account(k, r), NEW new,
         SameReport(new, r), new.status = r.status
  PROVE  Account(k, new)
  BY DEF Account, SoFar, SameReport, Reported

\* The report on the next case.
LEMMA CaseAccount ==
  ASSUME NEW n \in 1 .. Len(Sweep), NEW r, Account(n - 1, r),
         NEW new \in {RecordCaseFailed(r, Sweep[n]),
                      RecordCaseCompleted(r, Sweep[n])}
  PROVE  Account(n, new)
<1>1. r \in RunRecord /\ Sweep[n] \in CaseIds /\ SoFar(n - 1, r)
  BY SweepParts DEF Account
<1>2. /\ new \in RunRecord /\ new.status = r.status /\ new.failure = r.failure
      /\ r.status # "running" => new = r
      /\ r.status = "running" => Reported(new) = Append(Reported(r), Sweep[n])
  BY <1>1, CaseReport
<1>3. SoFar(n, new)
  BY <1>1, <1>2, SweepParts DEF SoFar
<1>4. n \in 0 .. Len(Sweep) /\ r.failure = NoFailure
  BY DEF Account
<1>5. QED
  BY <1>2, <1>3, <1>4 DEF Account

\* A cancelled run has reported a prefix of the sweep.
CancelledOnTheWay(r) == r.status = "cancelled" /\ IsPrefix(Reported(r), Sweep)

LEMMA CancelAccount ==
  ASSUME NEW k, NEW r, Account(k, r)
  PROVE  /\ Account(k, CancelRun(r, Now))
         /\ CancelledOnTheWay(CancelRun(r, Now))
<1> DEFINE new == CancelRun(r, Now)
<1>1. r \in RunRecord /\ Now \in Int /\ k \in 0 .. Len(Sweep)
  BY DEF Account, Now
<1>2. "ENGINE_NOT_SUPPORTED" \in FailureCodes
  BY SweepRunAssumption
<1>3. /\ SameReport(new, r)
      /\ ~ IsRunStatusCancellable(r.status) => new = r
      /\ IsRunStatusCancellable(r.status) => new.status = "cancelled"
  BY <1>1, <1>2, EndReport
<1> HIDE DEF new
<1>4. Reported(new) = Reported(r) /\ new.failure = r.failure /\ new \in RunRecord
  BY <1>3 DEF SameReport, Reported
<1>5. CancelledOnTheWay(new)
  BY <1>1, <1>3, <1>4, SweepParts
  DEF Account, SoFar, CancelledOnTheWay, IsRunStatusCancellable
<1>6. QED
  BY <1>1, <1>4, <1>5 DEF Account, SoFar, CancelledOnTheWay, new

\* A failure closes the account with the cases from next on.
Closed(k, next, code, new) ==
    /\ new \in RunRecord
    /\ \/ CancelledOnTheWay(new) /\ new.failure = NoFailure
       \/ /\ new.status = "failed" /\ new.failure = code
          /\ Reported(new) = SubSeq(Sweep, 1, k)
                               \o SubSeq(Sweep, next, Len(Sweep))

LEMMA FailAccount ==
  ASSUME NEW k, NEW r, Account(k, r), NEW next \in 1 .. Len(Sweep) + 1,
         NEW code \in FailureCodes
  PROVE  Closed(k, next, code, FailSweepRunWithRemainingCases(r, next, code))
<1> DEFINE rest == SubSeq(Sweep, next, Len(Sweep))
           looped == RecordCasesFailed(r, rest)
           new == FailRun(looped, Now, code)
<1>1. r \in RunRecord /\ r.status # "queued" /\ Now \in Int /\ rest \in Seq(CaseIds)
  <2>1. r \in RunRecord /\ r.status # "queued" /\ Now \in Int
    BY DEF Account, SoFar, Now
  <2>2. QED
    BY <2>1, SweepParts
<1>2. FailSweepRunWithRemainingCases(r, next, code) = new
  BY <1>1, MarkRunningReport DEF FailSweepRunWithRemainingCases, Now
<1> HIDE DEF rest
<1>3. /\ looped \in RunRecord /\ looped.status = r.status
      /\ looped.failure = r.failure
      /\ r.status # "running" => looped = r
      /\ r.status = "running" => Reported(looped) = Reported(r) \o rest
  BY <1>1, LoopReport
<1> HIDE DEF looped
<1>4. /\ new \in RunRecord /\ new.caseOutcomes = looped.caseOutcomes
      /\ ~ IsRunStatusCancellable(looped.status) => new = looped
      /\ IsRunStatusCancellable(looped.status)
            => new.status = "failed" /\ new.failure = code
  BY <1>1, <1>3, EndReport
<1> HIDE DEF new
<1>5. Reported(new) = Reported(looped)
  BY <1>4 DEF Reported
<1>6. CASE r.status = "cancelled"
  BY <1>2, <1>3, <1>4, <1>6
  DEF Account, SoFar, CancelledOnTheWay, IsRunStatusCancellable, Closed
<1>7. CASE r.status = "running"
  BY <1>2, <1>3, <1>4, <1>5, <1>7
  DEF Account, SoFar, IsRunStatusCancellable, rest, Closed
<1>8. QED
  BY <1>6, <1>7 DEF Account, SoFar

LEMMA CompleteAccount ==
  ASSUME NEW r, Account(Len(Sweep), r)
  PROVE  LET new == CompleteRun(r, Now)
         IN  /\ new \in RunRecord /\ new.failure = NoFailure
             /\ \/ CancelledOnTheWay(new)
                \/ new.status = "completed" /\ Reported(new) = Sweep
<1> DEFINE new == CompleteRun(r, Now)
<1>1. r \in RunRecord /\ Now \in Int
  BY DEF Account, Now
<1>2. "ENGINE_NOT_SUPPORTED" \in FailureCodes
  BY SweepRunAssumption
<1>3. /\ SameReport(new, r)
      /\ ~ IsRunStatusCancellable(r.status) => new = r
      /\ IsRunStatusCancellable(r.status) => new.status = "completed"
  BY <1>1, <1>2, EndReport
<1> HIDE DEF new
<1>4. Reported(new) = Reported(r) /\ new.failure = r.failure /\ new \in RunRecord
  BY <1>3 DEF SameReport, Reported
<1>5. QED
  BY <1>3, <1>4, SweepParts
  DEF Account, SoFar, CancelledOnTheWay, IsRunStatusCancellable, new

-------------------------------------------------------------------------------
(***************************************************************************)
(* Part 6: the books, action by action.                                    *)
(***************************************************************************)

\* The books after a step into persisting, with the run's end on record.
LEMMA CaughtBooks ==
  ASSUME NEW session \in Session, NEW r, NEW code, Caught(session, r, code),
         NoThreeBefore(session.verdicts),
         NEW k, Account(k, r), session.next \in 1 .. Len(Sweep) + 1,
         code # Cancelled =>
            /\ code \in FailureCodes
            /\ \/ k = session.next - 1 /\ ~ EndsInFailedStop(session.verdicts)
               \/ /\ k = session.next /\ session.next \in 1 .. Len(Sweep)
                  /\ EndsInFailedStop(session.verdicts),
         code = "ENGINE_START_FAILED" => Streak(session.verdicts) = 3
  PROVE  /\ Books(s'.pc, s'.next, s'.consecutive, s'.verdicts, run')
         /\ s'.pc # "idle"
<1>1. s' = [session EXCEPT !.pc = "persisting"]
      /\ run' = IF code = Cancelled \/ session.cancellationRequested
                THEN CancelRun(r, Now)
                ELSE FailSweepRunWithRemainingCases(r, session.next, code)
  BY DEF Caught
<1>2. /\ s'.pc = "persisting" /\ s'.next = session.next
      /\ s'.verdicts = session.verdicts /\ s'.consecutive = session.consecutive
      /\ session.next \in Nat \ {0} /\ session.consecutive \in Nat
      /\ session.verdicts \in Seq(Verdicts)
  BY <1>1 DEF Session
<1>3. SUFFICES /\ run' \in RunRecord
               /\ ReportedInTheEnd(s'.next, s'.verdicts, run')
               /\ run'.failure = "ENGINE_START_FAILED"
                     => Streak(session.verdicts) = 3
  BY <1>2 DEF Books, Working, Over
<1>4. CASE code = Cancelled \/ session.cancellationRequested
  <2>1. Account(k, run') /\ CancelledOnTheWay(run')
    BY <1>1, <1>4, CancelAccount
  <2>2. QED
    BY <2>1 DEF Account, CancelledOnTheWay, ReportedInTheEnd, NoFailure
<1>5. CASE code # Cancelled /\ ~ session.cancellationRequested
  <2>1. /\ run' \in RunRecord
        /\ \/ CancelledOnTheWay(run') /\ run'.failure = NoFailure
           \/ /\ run'.status = "failed" /\ run'.failure = code
              /\ Reported(run') = SubSeq(Sweep, 1, k)
                                  \o SubSeq(Sweep, session.next, Len(Sweep))
    <3>1. code \in FailureCodes
          /\ run' = FailSweepRunWithRemainingCases(r, session.next, code)
      BY <1>1, <1>5
    <3>2. Closed(k, session.next, code, run')
      BY <3>1, FailAccount
    <3>3. QED
      BY <3>2 DEF Closed
  <2>2. k = session.next - 1
          => SubSeq(Sweep, 1, k) \o SubSeq(Sweep, session.next, Len(Sweep)) = Sweep
    BY SweepParts
  <2>3. QED
    BY <1>2, <1>5, <2>1, <2>2 DEF CancelledOnTheWay, ReportedInTheEnd, NoFailure
<1>6. QED
  BY <1>4, <1>5

LEMMA CaseLoopBooks ==
  ASSUME NEW session \in Session, NEW r, CaseLoop(session, r),
         NoThreeBefore(session.verdicts),
         session.next \in 1 .. Len(Sweep) + 1, Account(session.next - 1, r),
         session.consecutive = Streak(session.verdicts), session.consecutive < 3,
         ~ EndsInFailedStop(session.verdicts)
  PROVE  /\ Books(s'.pc, s'.next, s'.consecutive, s'.verdicts, run')
         /\ s'.pc # "idle"
<1>1. CASE \E code \in {Cancelled, "RUN_TIMEOUT_EXCEEDED"} :
               Caught(session, r, code)
  <2>1. /\ "RUN_TIMEOUT_EXCEEDED" \in FailureCodes
        /\ "RUN_TIMEOUT_EXCEEDED" # "ENGINE_START_FAILED"
        /\ Cancelled # "ENGINE_START_FAILED"
    BY SweepRunAssumption DEF Cancelled
  <2>2. QED
    BY <1>1, <2>1, CaughtBooks
<1>2. CASE /\ session.next <= Len(Sweep)
           /\ s' = [session EXCEPT !.pc = "validating"]
           /\ run' = RecordCaseStarted(r, Sweep[session.next])
  <2>1. /\ s'.pc = "validating" /\ s'.next = session.next
        /\ s'.verdicts = session.verdicts /\ s'.consecutive = session.consecutive
        /\ session.next \in Nat \ {0} /\ session.consecutive \in Nat
        /\ session.verdicts \in Seq(Verdicts)
    BY <1>2 DEF Session
  <2>2. r \in RunRecord /\ Sweep[session.next] \in CaseIds
    BY <1>2, SweepParts DEF Account
  <2>3. SameReport(run', r) /\ run'.status = r.status
    BY <1>2, <2>2, CaseStartedReport
  <2>4. Account(session.next - 1, run')
    BY <2>3, SameAccount
  <2>5. QED
    BY <1>2, <2>1, <2>4 DEF Books, Account, Working, Over, CasesReported, NoFailure
<1>3. CASE /\ session.next > Len(Sweep)
           /\ s' = [session EXCEPT !.pc = "persisting"]
           /\ run' = CompleteRun(r, Now)
  <2>1. /\ s'.pc = "persisting" /\ s'.next = session.next
        /\ s'.verdicts = session.verdicts /\ s'.consecutive = session.consecutive
        /\ session.next \in Nat \ {0} /\ session.consecutive \in Nat
        /\ session.verdicts \in Seq(Verdicts)
    BY <1>3 DEF Session
  <2>2. session.next - 1 = Len(Sweep)
    BY <1>3, SweepParts
  <2>3. /\ run' \in RunRecord /\ run'.failure = NoFailure
        /\ \/ CancelledOnTheWay(run')
           \/ run'.status = "completed" /\ Reported(run') = Sweep
    BY <1>3, <2>2, CompleteAccount
  <2>4. QED
    BY <2>1, <2>3
    DEF Books, ReportedInTheEnd, CancelledOnTheWay, Working, Over, NoFailure
<1>4. QED
  <2>1. session.next \in Nat /\ Len(Sweep) \in Nat
    BY SweepParts DEF Session
  <2>2. QED
    BY <1>1, <1>2, <1>3, <2>1 DEF CaseLoop

\* The books after the end of a case, from those of the case under way.
LEMMA FinishBooks ==
  ASSUME BooksInv, s.pc \in Working, NEW v \in CaseVerdicts, v # "stopFailed",
         NEW r, Account(IF v \in Ordinary THEN s.next ELSE s.next - 1, r),
         NEW session, SessionOk(session), NEW e \in Engine,
         session.next = s.next, session.consecutive = s.consecutive,
         session.verdicts = s.verdicts,
         FinishCase(v, r, session, e)
  PROVE  /\ Books(s'.pc, s'.next, s'.consecutive, s'.verdicts, run')
         /\ s'.pc # "idle"
<1> DEFINE list == s.verdicts
           new == Append(list, v)
<1>1. /\ run' = r /\ s'.pc = "caseStopping" /\ s'.next = s.next
      /\ s'.consecutive = s.consecutive /\ s'.verdicts = new
  BY FinishCaseFrame
<1>2. /\ list \in Seq(Verdicts) /\ v \in Verdicts /\ NoThreeBefore(list)
      /\ s.consecutive = Streak(list) /\ s.consecutive < 3
      /\ s.next \in Nat \ {0} /\ s.consecutive \in Nat /\ s.next <= Len(Sweep)
  BY DEF BooksInv, Books, Working, CaseVerdicts
<1>3. /\ new \in Seq(Verdicts) /\ new # <<>> /\ Last(new) = v
      /\ SubSeq(new, 1, Len(new) - 1) = list
  BY <1>2 DEF Last
<1>4. NoThreeBefore(new)
  BY <1>2, NoThreeAppend
<1> HIDE DEF new
<1>5. CasesReported("caseStopping", s.next, new)
        = IF v \in Ordinary THEN s.next ELSE s.next - 1
  BY <1>3 DEF CasesReported
<1>6. r \in RunRecord /\ r.failure = NoFailure
      /\ SoFar(CasesReported("caseStopping", s.next, new), r)
  BY <1>5 DEF Account
<1>7. QED
  BY <1>1, <1>2, <1>3, <1>4, <1>6 DEF Books, Working, Over, NoFailure

\* The account of the case under way.
LEMMA CaseUnderWay ==
  ASSUME BooksInv, s.pc \in Working
  PROVE  /\ s.next \in 1 .. Len(Sweep) /\ s.next \in 1 .. Len(Sweep) + 1
         /\ Account(s.next - 1, run)
         /\ NoThreeBefore(s.verdicts) /\ s.verdicts \in Seq(Verdicts)
         /\ s.consecutive = Streak(s.verdicts) /\ s.consecutive < 3
         /\ ~ EndsInFailedStop(s.verdicts)
<1>1. /\ s.next \in Nat \ {0} /\ s.next <= Len(Sweep) /\ Len(Sweep) \in Nat
      /\ ~ EndsInFailedStop(s.verdicts)
      /\ run \in RunRecord /\ run.failure = NoFailure
      /\ NoThreeBefore(s.verdicts) /\ s.verdicts \in Seq(Verdicts)
      /\ s.consecutive = Streak(s.verdicts) /\ s.consecutive < 3
  BY SweepParts DEF BooksInv, Books, Working, Over
<1>2. SoFar(s.next - 1, run)
  BY DEF BooksInv, Books, Working, CasesReported
<1>3. QED
  BY <1>1, <1>2 DEF Account

LEMMA CaseThrowsBooks ==
  ASSUME BooksInv, s.pc \in Working, NEW verdict \in StartErrors \cup CaseErrors,
         NEW session, SessionOk(session), NEW e \in Engine,
         session.next = s.next, session.consecutive = s.consecutive,
         session.verdicts = s.verdicts,
         CaseThrows(verdict, session, e)
  PROVE  /\ Books(s'.pc, s'.next, s'.consecutive, s'.verdicts, run')
         /\ s'.pc # "idle"
<1>1. s.next \in 1 .. Len(Sweep) /\ Account(s.next - 1, run)
  BY CaseUnderWay
<1>2. CASE FinishCase("cancelled", run, session, e)
  <2>1. /\ "cancelled" \in CaseVerdicts /\ "cancelled" # "stopFailed"
        /\ "cancelled" \notin Ordinary
    BY DEF CaseVerdicts, Verdicts, Ordinary
  <2>2. Account(IF "cancelled" \in Ordinary THEN s.next ELSE s.next - 1, run)
    BY <1>1, <2>1
  <2>3. QED
    BY <1>2, <2>1, <2>2, FinishBooks
<1>3. CASE /\ verdict # "cancelled"
           /\ FinishCase(verdict, RecordCaseFailed(run, Sweep[s.next]), session, e)
  <2>1. /\ verdict \in CaseVerdicts /\ verdict # "stopFailed"
        /\ verdict \in Ordinary
    BY <1>3 DEF CaseVerdicts, Verdicts, Ordinary, StartErrors, CaseErrors
  <2>2. Account(s.next, RecordCaseFailed(run, Sweep[s.next]))
    BY <1>1, CaseAccount
  <2>3. QED
    BY <1>3, <2>1, <2>2, FinishBooks
<1>4. QED
  BY <1>2, <1>3 DEF CaseThrows

\* A step from one await of a case to the next, or none at all.
LEMMA SameBooks ==
  ASSUME BooksInv, s'.next = s.next, s'.consecutive = s.consecutive,
         s'.verdicts = s.verdicts, run' = run,
         \/ s'.pc = s.pc
         \/ s.pc \in Working /\ s'.pc \in Working
         \/ s.pc \in Over /\ s'.pc \in Over
  PROVE  /\ Books(s'.pc, s'.next, s'.consecutive, s'.verdicts, run')
         /\ s'.pc # s.pc => s'.pc # "idle"
  BY DEF BooksInv, Books, Working, Over, CasesReported

BooksStepOk ==
    /\ Books(s'.pc, s'.next, s'.consecutive, s'.verdicts, run')
    /\ s'.pc # "idle" \/ s'.pc = s.pc

LEMMA BeginBooks ==
  ASSUME EngineInv, BooksInv, Begin \/ MissingPlugin
  PROVE  BooksStepOk
<1> DEFINE r == MarkRunRunning(run, Now)
<1>1. /\ s \in Session /\ s.pc = "idle" /\ run \in RunRecord
      /\ run.status = "queued" /\ Reported(run) = <<>> /\ run.failure = NoFailure
      /\ s.verdicts = <<>> /\ s.next = 1 /\ s.consecutive = 0
      /\ NoThreeBefore(s.verdicts) /\ Now \in Int
  BY DEF EngineInv, EngineOk, SessionOk, BooksInv, Books, Begin, MissingPlugin,
         At, Over, Now
<1>2. SameReport(r, run) /\ r.status = "running"
  BY <1>1, MarkRunningReport
<1>3. MarkRunRunning(r, Now) = r
  BY <1>2 DEF MarkRunRunning
<1> HIDE DEF r
<1>4. Reported(r) = <<>> /\ r \in RunRecord /\ r.failure = NoFailure
  BY <1>1, <1>2 DEF SameReport, Reported
<1>5. Account(0, r)
  BY <1>2, <1>4, SweepEnds DEF Account, SoFar
<1>6. 1 \in 1 .. Len(Sweep) + 1
  BY SweepEnds
<1>7. CASE Begin
  <2>1. CaseLoop(s, r)
    BY <1>7 DEF Begin, r
  <2>2. /\ s.next \in 1 .. Len(Sweep) + 1 /\ Account(s.next - 1, r)
        /\ s.consecutive = Streak(s.verdicts) /\ s.consecutive < 3
        /\ ~ EndsInFailedStop(s.verdicts)
    BY <1>1, <1>5, <1>6, StreakEmpty DEF EndsInFailedStop
  <2>3. QED
    BY <1>1, <2>1, <2>2, CaseLoopBooks DEF BooksStepOk
<1>8. CASE MissingPlugin
  <2>1. /\ s' = [s EXCEPT !.pc = "done"]
        /\ run' = FailSweepRunWithRemainingCases(run, 1, "ENGINE_NOT_SUPPORTED")
    BY <1>8 DEF MissingPlugin
  <2>2. run' = FailSweepRunWithRemainingCases(r, 1, "ENGINE_NOT_SUPPORTED")
    BY <2>1, <1>3 DEF FailSweepRunWithRemainingCases, r
  <2>3. Closed(0, 1, "ENGINE_NOT_SUPPORTED", run')
    BY <1>5, <1>6, <2>2, FailAccount, SweepRunAssumption
  <2>4. SubSeq(Sweep, 1, 0) \o SubSeq(Sweep, 1, Len(Sweep)) = Sweep
    BY SweepEnds
  <2>5. /\ s'.pc = "done" /\ s'.next = 1 /\ s'.consecutive = 0
        /\ s'.verdicts = <<>> /\ <<>> \in Seq(Verdicts)
    BY <1>1, <2>1 DEF Session
  <2>6. QED
    BY <1>1, <2>3, <2>4, <2>5
    DEF BooksStepOk, Books, Closed, CancelledOnTheWay, ReportedInTheEnd,
        EndsInFailedStop, Working, Over, NoFailure
<1>9. QED
  BY <1>7, <1>8

LEMMA ValidationBooks ==
  ASSUME EngineInv, BooksInv,
         DeadlinePasses \/ ValidationAccepts
            \/ \E answer \in Answers : ValidationRefuses(answer)
  PROVE  BooksStepOk
<1>1. s \in Session
  BY DEF EngineInv, EngineOk, SessionOk
<1>2. CASE DeadlinePasses
  <2>1. /\ s'.pc = s.pc /\ s'.next = s.next /\ s'.consecutive = s.consecutive
        /\ s'.verdicts = s.verdicts /\ run' = run
    BY <1>1, <1>2 DEF DeadlinePasses, Session
  <2>2. QED
    BY <2>1, SameBooks DEF BooksStepOk
<1>3. CASE ValidationAccepts
  <2>1. /\ s.pc = "validating" /\ s'.pc = "building" /\ s'.next = s.next
        /\ s'.consecutive = s.consecutive
        /\ s'.verdicts = s.verdicts /\ run' = run
    BY <1>1, <1>3 DEF ValidationAccepts, At, Session
  <2>2. QED
    BY <2>1, SameBooks DEF BooksStepOk, Working
<1>4. CASE \E answer \in Answers : ValidationRefuses(answer)
  <2> DEFINE list == Append(s.verdicts, "validation")
             following == s.next + 1
             failed == [s EXCEPT !.verdicts = list, !.next = following]
             r == RecordCaseFailed(run, Sweep[s.next])
  <2>1. s.pc \in Working
    BY <1>4 DEF ValidationRefuses, At, Working
  <2>2. /\ s.next \in 1 .. Len(Sweep) /\ s.next \in 1 .. Len(Sweep) + 1
        /\ Account(s.next - 1, run)
        /\ NoThreeBefore(s.verdicts) /\ s.verdicts \in Seq(Verdicts)
        /\ s.consecutive = Streak(s.verdicts) /\ s.consecutive < 3
    BY <2>1, CaseUnderWay
  <2>3. Caught(s, run, Cancelled) \/ CaseLoop(failed, r)
    BY <1>4 DEF ValidationRefuses
  <2>4. CASE Caught(s, run, Cancelled)
    <3>1. Cancelled # "ENGINE_START_FAILED"
      BY DEF Cancelled
    <3>2. QED
      BY <1>1, <2>2, <2>4, <3>1, CaughtBooks DEF BooksStepOk
  <2>5. CASE CaseLoop(failed, r)
    <3>1. Account(s.next, r)
      BY <2>2, CaseAccount
    <3>2. "validation" \in Verdicts
      BY DEF Verdicts
    <3>3. /\ list \in Seq(Verdicts) /\ NoThreeBefore(list)
          /\ Streak(list) = Streak(s.verdicts)
          /\ ~ EndsInFailedStop(list)
      BY <2>2, <3>2, NoThreeAppend, StreakAppend DEF EndsInFailedStop, Last
    <3>4. following \in Nat \ {0} /\ following - 1 = s.next
          /\ following \in 1 .. Len(Sweep) + 1
      BY <2>2, SweepEnds
    <3> HIDE DEF list, following, r
    <3>5. /\ failed \in Session /\ failed.verdicts = list
          /\ failed.next = following /\ failed.consecutive = s.consecutive
      BY <1>1, <3>3, <3>4 DEF Session
    <3> HIDE DEF failed
    <3>6. Account(failed.next - 1, r)
      BY <3>1, <3>4, <3>5
    <3>7. QED
      BY <2>2, <2>5, <3>3, <3>4, <3>5, <3>6, CaseLoopBooks DEF BooksStepOk
  <2>6. QED
    BY <2>3, <2>4, <2>5
<1>5. QED
  BY <1>2, <1>3, <1>4

LEMMA BuildBooks ==
  ASSUME EngineInv, BooksInv, NEW verdict \in StartErrors,
         BuildResolves \/ BuildRejects(verdict)
  PROVE  BooksStepOk
<1> DEFINE opened == [s EXCEPT !.engineContext = TRUE, !.engineStop = "idle"]
<1>1. /\ SessionOk(s) /\ s \in Session /\ engine \in Engine /\ s.pc = "building"
      /\ s.stopWaiters = {} /\ s.pc \in Working
  BY DEF EngineInv, EngineOk, SessionOk, BuildResolves, BuildRejects, At, Working
<1>2. /\ SessionOk(opened) /\ opened.next = s.next
      /\ opened.consecutive = s.consecutive /\ opened.verdicts = s.verdicts
  BY <1>1 DEF SessionOk, Session
<1>3. CASE \E session \in {s, opened}, v \in StartErrors :
               CaseThrows(v, session, engine)
  <2> HIDE DEF opened
  <2>1. PICK session \in {s, opened}, v \in StartErrors \cup CaseErrors :
               CaseThrows(v, session, engine)
    BY <1>3
  <2>2. /\ SessionOk(session) /\ session.next = s.next
        /\ session.consecutive = s.consecutive /\ session.verdicts = s.verdicts
    BY <1>1, <1>2
  <2>3. QED
    BY <1>1, <2>1, <2>2, CaseThrowsBooks DEF BooksStepOk
<1>4. CASE s' = [opened EXCEPT !.pc = "starting"] /\ run' = run
  <2>1. /\ s'.pc = "starting" /\ s'.next = s.next
        /\ s'.consecutive = s.consecutive /\ s'.verdicts = s.verdicts
    BY <1>1, <1>4 DEF Session
  <2>2. QED
    BY <1>1, <1>4, <2>1, SameBooks DEF BooksStepOk, Working
<1>5. QED
  <2>1. "lifecycle" \in StartErrors
    BY DEF StartErrors
  <2>2. QED
    BY <1>3, <1>4, <2>1 DEF BuildResolves, BuildRejects

LEMMA TimerBooks ==
  ASSUME EngineInv, BooksInv, RunTimer
  PROVE  BooksStepOk
<1> DEFINE aborted == [s EXCEPT !.aborted = TRUE]
<1>1. /\ SessionOk(s) /\ engine \in Engine /\ s.pc \in Working
  BY DEF EngineInv, EngineOk, RunTimer, RunTimerArmed, Working
<1>2. /\ SessionOk(aborted) /\ aborted \in Session /\ aborted.next = s.next
      /\ aborted.consecutive = s.consecutive /\ aborted.verdicts = s.verdicts
  BY <1>1 DEF SessionOk, Session
<1>3. \/ Caught(aborted, run, "RUN_TIMEOUT_EXCEEDED")
      \/ FinishCase("timeout", run, aborted, OnAbort(engine))
  BY DEF RunTimer
<1> HIDE DEF aborted
<1>4. /\ s.next \in 1 .. Len(Sweep) + 1 /\ Account(s.next - 1, run)
      /\ NoThreeBefore(s.verdicts) /\ ~ EndsInFailedStop(s.verdicts)
  BY <1>1, CaseUnderWay
<1>5. CASE Caught(aborted, run, "RUN_TIMEOUT_EXCEEDED")
  <2>1. "RUN_TIMEOUT_EXCEEDED" \in FailureCodes
    BY SweepRunAssumption
  <2>2. QED
    BY <1>2, <1>4, <1>5, <2>1, CaughtBooks DEF BooksStepOk
<1>6. CASE FinishCase("timeout", run, aborted, OnAbort(engine))
  <2>1. /\ "timeout" \in CaseVerdicts /\ "timeout" # "stopFailed"
        /\ "timeout" \notin Ordinary
    BY DEF CaseVerdicts, Verdicts, Ordinary
  <2>2. Account(IF "timeout" \in Ordinary THEN s.next ELSE s.next - 1, run)
    BY <1>4, <2>1
  <2>3. OnAbort(engine) \in Engine
    BY <1>1, OnAbortType
  <2>4. QED
    BY <1>1, <1>2, <1>6, <2>1, <2>2, <2>3, FinishBooks DEF BooksStepOk
<1>7. QED
  BY <1>3, <1>5, <1>6

LEMMA StartBooks ==
  ASSUME EngineInv, BooksInv, NEW verdict \in StartErrors,
         (\E listens \in AbortListeners : StartResolves(listens)) \/ StartRejects(verdict)
  PROVE  BooksStepOk
<1>1. SessionOk(s) /\ s \in Session /\ engine \in Engine
  BY DEF EngineInv, EngineOk, SessionOk
<1>2. CASE s' = s /\ run' = run
  BY <1>2, SameBooks DEF BooksStepOk
<1>3. CASE s.pc = "starting" /\ s' = [s EXCEPT !.pc = "readying"] /\ run' = run
  <2>1. /\ s'.pc = "readying" /\ s'.next = s.next
        /\ s'.consecutive = s.consecutive /\ s'.verdicts = s.verdicts
    BY <1>1, <1>3 DEF Session
  <2>2. QED
    BY <1>3, <2>1, SameBooks DEF BooksStepOk, Working
<1>4. CASE s.pc = "starting" /\ CaseThrows(verdict, s, FailStart(engine))
  <2>1. FailStart(engine) \in Engine
    BY <1>1 DEF FailStart, Engine
  <2>2. s.pc \in Working
    BY <1>4 DEF Working
  <2>3. QED
    BY <1>1, <1>4, <2>1, <2>2, CaseThrowsBooks DEF BooksStepOk
<1>5. QED
  BY <1>2, <1>3, <1>4 DEF StartResolves, StartRejects, At

LEMMA ReadyBooks ==
  ASSUME EngineInv, BooksInv, NEW verdict \in StartErrors,
         ReadyResolves \/ ReadinessFails \/ ReadyRejects(verdict)
  PROVE  BooksStepOk
<1> DEFINE e == [engine EXCEPT !.probe = "none"]
<1>1. SessionOk(s) /\ s \in Session /\ e \in Engine
  BY DEF EngineInv, EngineOk, SessionOk, Engine
<1>2. \/ s' = s /\ run' = run
      \/ s.pc = "readying" /\ s' = [s EXCEPT !.pc = "executing"] /\ run' = run
      \/ s.pc = "readying" /\ FinishCase("cancelled", run, s, e)
      \/ s.pc = "readying" /\ CaseThrows(verdict, s, e)
  BY DEF ReadyResolves, ReadinessFails, ReadyRejects, At
<1> HIDE DEF e
<1>3. CASE s' = s /\ run' = run
  BY <1>3, SameBooks DEF BooksStepOk
<1>4. CASE s.pc = "readying" /\ s' = [s EXCEPT !.pc = "executing"] /\ run' = run
  <2>1. /\ s'.pc = "executing" /\ s'.next = s.next
        /\ s'.consecutive = s.consecutive /\ s'.verdicts = s.verdicts
    BY <1>1, <1>4 DEF Session
  <2>2. QED
    BY <1>4, <2>1, SameBooks DEF BooksStepOk, Working
<1>5. CASE s.pc = "readying" /\ FinishCase("cancelled", run, s, e)
  <2>1. /\ "cancelled" \in CaseVerdicts /\ "cancelled" # "stopFailed"
        /\ "cancelled" \notin Ordinary
    BY DEF CaseVerdicts, Verdicts, Ordinary
  <2>2. s.pc \in Working
    BY <1>5 DEF Working
  <2>3. Account(IF "cancelled" \in Ordinary THEN s.next ELSE s.next - 1, run)
    BY <2>1, <2>2, CaseUnderWay
  <2>4. QED
    BY <1>1, <1>5, <2>1, <2>2, <2>3, FinishBooks DEF BooksStepOk
<1>6. CASE s.pc = "readying" /\ CaseThrows(verdict, s, e)
  <2>1. s.pc \in Working
    BY <1>6 DEF Working
  <2>2. QED
    BY <1>1, <1>6, <2>1, CaseThrowsBooks DEF BooksStepOk
<1>7. QED
  BY <1>2, <1>3, <1>4, <1>5, <1>6

LEMMA CaseBooks ==
  ASSUME EngineInv, BooksInv, NEW verdict \in CaseErrors,
         CaseResolves \/ CaseRejects(verdict) \/ CaseTimer \/ MetricsSettle
  PROVE  BooksStepOk
<1>1. /\ SessionOk(s) /\ s \in Session /\ engine \in Engine /\ s.pc \in Working
      /\ s.next \in 1 .. Len(Sweep) /\ Account(s.next - 1, run)
  <2>1. s.pc \in Working
    BY DEF CaseResolves, CaseRejects, CaseTimer, MetricsSettle, At, Working
  <2>2. QED
    BY <2>1, CaseUnderWay DEF EngineInv, EngineOk, SessionOk
<1>2. CASE CaseResolves
  <2>1. /\ s'.pc = "metrics" /\ s'.next = s.next /\ run' = run
        /\ s'.consecutive = s.consecutive /\ s'.verdicts = s.verdicts
    BY <1>1, <1>2 DEF CaseResolves, Session
  <2>2. QED
    BY <1>1, <2>1, SameBooks DEF BooksStepOk, Working
<1>3. CASE \E v \in CaseErrors : CaseThrows(v, s, engine)
  BY <1>1, <1>3, CaseThrowsBooks DEF BooksStepOk
<1>4. CASE FinishCase("timeout", run, s, engine)
  <2>1. /\ "timeout" \in CaseVerdicts /\ "timeout" # "stopFailed"
        /\ "timeout" \notin Ordinary
    BY DEF CaseVerdicts, Verdicts, Ordinary
  <2>2. Account(IF "timeout" \in Ordinary THEN s.next ELSE s.next - 1, run)
    BY <1>1, <2>1
  <2>3. QED
    BY <1>1, <1>4, <2>1, <2>2, FinishBooks DEF BooksStepOk
<1>5. CASE FinishCase("completed", RecordCaseCompleted(run, Sweep[s.next]), s, engine)
  <2>1. /\ "completed" \in CaseVerdicts /\ "completed" # "stopFailed"
        /\ "completed" \in Ordinary
    BY DEF CaseVerdicts, Verdicts, Ordinary
  <2>2. Account(s.next, RecordCaseCompleted(run, Sweep[s.next]))
    BY <1>1, CaseAccount
  <2>3. QED
    BY <1>1, <1>5, <2>1, <2>2, FinishBooks DEF BooksStepOk
<1>6. QED
  <2>1. "execution" \in CaseErrors
    BY DEF CaseErrors
  <2>2. QED
    BY <1>2, <1>3, <1>4, <1>5, <2>1 DEF CaseRejects, CaseTimer, MetricsSettle

LEMMA StopEndsBooks ==
  ASSUME EngineInv, BooksInv, EngineExits \/ StopGivesUp \/ StopTimesOut
  PROVE  BooksStepOk
<1>1. /\ SessionOk(s)
      /\ "case" \in s.stopWaiters => s.pc = "caseStopping"
      /\ s.pc = "caseStopping" =>
            s.verdicts # <<>> /\ Last(s.verdicts) # "validation"
      /\ s.verdicts \in Seq(Verdicts)
  BY DEF EngineInv, EngineOk, SessionOk, Session
<1>2. run' = run /\ (s' = Stopped(s) \/ s' = StopFailed(s))
  BY DEF EngineExits, StopGivesUp, StopTimesOut
<1>3. CASE s' = Stopped(s)
  <2>1. /\ s'.pc = s.pc /\ s'.next = s.next /\ s'.verdicts = s.verdicts
        /\ s'.consecutive = s.consecutive
    BY <1>1, <1>3, StoppedSession
  <2>2. QED
    BY <1>2, <2>1, SameBooks DEF BooksStepOk
<1>4. CASE s' = StopFailed(s)
  <2> DEFINE new == [s.verdicts EXCEPT ![Len(s.verdicts)] = "stopFailed"]
             replaced == "case" \in s.stopWaiters
                            /\ Last(s.verdicts) \notin Preserved
  <2>1. /\ s'.pc = s.pc /\ s'.next = s.next /\ s'.consecutive = s.consecutive
        /\ s'.verdicts = IF replaced THEN new ELSE s.verdicts
    BY <1>1, <1>4, StopFailedSession
  <2>2. CASE ~ replaced
    BY <1>2, <2>1, <2>2, SameBooks DEF BooksStepOk
  <2>3. CASE replaced
    <3>1. s.pc = "caseStopping" /\ s.verdicts # <<>>
      BY <1>1, <2>3
    <3>2. Last(s.verdicts) \in Ordinary \cup {"stopFailed"}
      <4>1. Last(s.verdicts) \in Verdicts
        BY <1>1, <3>1 DEF Last
      <4>2. QED
        BY <1>1, <2>3, <3>1, <4>1 DEF Verdicts, Ordinary, Preserved
    <3>3. "stopFailed" \in Verdicts
      BY DEF Verdicts
    <3>4. /\ new \in Seq(Verdicts) /\ new # <<>> /\ Last(new) = "stopFailed"
          /\ Len(new) = Len(s.verdicts)
          /\ \A n \in 0 .. Len(s.verdicts) - 1 :
                SubSeq(new, 1, n) = SubSeq(s.verdicts, 1, n)
      BY <1>1, <3>1, <3>3, ReplaceLast
    <3>5. Len(s.verdicts) - 1 \in 0 .. Len(s.verdicts) - 1
      BY <1>1, <3>1
    <3> HIDE DEF new
    <3>6. /\ NoThreeBefore(new)
          /\ s.consecutive = Streak(SubSeq(new, 1, Len(new) - 1))
      BY <3>1, <3>4, <3>5 DEF BooksInv, Books, NoThreeBefore
    <3>7. CasesReported("caseStopping", s.next, new)
            = CasesReported("caseStopping", s.next, s.verdicts)
      BY <3>2, <3>4 DEF CasesReported
    <3>8. Books("caseStopping", s.next, s.consecutive, new, run)
      BY <3>1, <3>4, <3>6, <3>7 DEF BooksInv, Books, Working, Over, NoFailure
    <3>9. QED
      BY <1>2, <2>1, <2>3, <3>1, <3>8 DEF BooksStepOk
  <2>4. QED
    BY <2>2, <2>3
<1>5. QED
  BY <1>2, <1>3, <1>4

LEMMA CaseReturnsBooks ==
  ASSUME EngineInv, BooksInv, CaseReturns
  PROVE  BooksStepOk
<1> DEFINE verdict == Last(s.verdicts)
           front == SubSeq(s.verdicts, 1, Len(s.verdicts) - 1)
           count == ConsecutiveFailures(verdict)
           following == s.next + 1
           counted == [s EXCEPT !.consecutive = count, !.next = following]
<1>1. /\ s \in Session /\ s.pc = "caseStopping" /\ s.verdicts # <<>>
      /\ verdict # "validation" /\ s.verdicts \in Seq(Verdicts)
      /\ s.next \in Nat \ {0}
  BY DEF EngineInv, EngineOk, SessionOk, Session, CaseReturns, CaseStopIsOver, At
<1>2. /\ s.consecutive = Streak(front) /\ s.consecutive < 3
      /\ NoThreeBefore(s.verdicts) /\ run \in RunRecord
      /\ run.failure = NoFailure /\ s.next <= Len(Sweep)
      /\ SoFar(CasesReported("caseStopping", s.next, s.verdicts), run)
      /\ s.consecutive \in Nat
  BY <1>1 DEF BooksInv, Books, Over
<1>3. /\ front \in Seq(Verdicts) /\ verdict \in Verdicts
      /\ s.verdicts = Append(front, verdict)
  BY <1>1 DEF Last
<1>4. Streak(s.verdicts) = IF verdict = "lifecycle" THEN Streak(front) + 1
                           ELSE IF verdict \in {"completed", "execution"} THEN 0
                           ELSE Streak(front)
  <2> HIDE DEF front, verdict
  <2>1. QED
    BY <1>3, StreakAppend
<1>5. /\ Len(Sweep) \in Nat /\ s.next \in 1 .. Len(Sweep)
      /\ s.next \in 1 .. Len(Sweep) + 1 /\ s.next - 1 \in 0 .. Len(Sweep)
      /\ s.next \in 0 .. Len(Sweep) /\ following \in 1 .. Len(Sweep) + 1
      /\ following \in Nat \ {0} /\ following - 1 = s.next
  BY SMTT(30), <1>1, <1>2, SweepEnds
<1>6. count = (IF verdict = "lifecycle" THEN s.consecutive + 1 ELSE 0)
  BY DEF ConsecutiveFailures
<1>7. count \in 0 .. 3
  BY <1>2, <1>6
<1>8. \/ verdict = "cancelled" /\ Caught(s, run, Cancelled)
      \/ verdict = "timeout" /\ Caught(s, run, "RUN_TIMEOUT_EXCEEDED")
      \/ verdict = "stopFailed" /\ Caught(s, run, "RUN_CASE_FAILED")
      \/ /\ verdict \in Ordinary /\ counted.consecutive >= 3
         /\ Caught(counted, run, "ENGINE_START_FAILED")
      \/ /\ verdict \in Ordinary /\ ~ (counted.consecutive >= 3)
         /\ CaseLoop(counted, run)
  <2>1. verdict \in Ordinary \cup {"cancelled", "timeout", "stopFailed"}
    BY <1>1, <1>3 DEF Verdicts, Ordinary
  <2>2. QED
    BY <2>1 DEF CaseReturns, MaxConsecutiveEngineLifecycleFailures
<1> HIDE DEF following, count, front
<1>9. /\ counted \in Session /\ counted.consecutive = count
      /\ counted.next = following /\ counted.verdicts = s.verdicts
  BY <1>1, <1>5, <1>7 DEF Session, MaxConsecutiveEngineLifecycleFailures
<1> HIDE DEF counted
<1>10. /\ {"RUN_TIMEOUT_EXCEEDED", "RUN_CASE_FAILED", "ENGINE_START_FAILED"}
             \subseteq FailureCodes
       /\ Cancelled # "ENGINE_START_FAILED"
  BY SweepRunAssumption DEF Cancelled
<1>10a. EndsInFailedStop(s.verdicts) <=> verdict = "stopFailed"
  BY <1>1 DEF EndsInFailedStop
<1>11. CASE verdict = "cancelled" /\ Caught(s, run, Cancelled)
  <2>1. Account(s.next - 1, run)
    BY <1>2, <1>5, <1>11 DEF Account, CasesReported, Ordinary
  <2>2. QED
    BY <1>1, <1>2, <1>5, <1>10, <1>11, <1>10a, <2>1, CaughtBooks DEF BooksStepOk
<1>12. CASE verdict = "timeout" /\ Caught(s, run, "RUN_TIMEOUT_EXCEEDED")
  <2>1. Account(s.next - 1, run)
    BY <1>2, <1>5, <1>12 DEF Account, CasesReported, Ordinary
  <2>2. QED
    BY <1>1, <1>2, <1>5, <1>10, <1>12, <1>10a, <2>1, CaughtBooks DEF BooksStepOk
<1>13. CASE verdict = "stopFailed" /\ Caught(s, run, "RUN_CASE_FAILED")
  <2>1. Account(s.next, run)
    BY <1>2, <1>5, <1>13 DEF Account, CasesReported
  <2>2. QED
    BY <1>1, <1>2, <1>5, <1>10, <1>13, <1>10a, <2>1, CaughtBooks DEF BooksStepOk
<1>14. ASSUME verdict \in Ordinary
       PROVE  /\ Account(counted.next - 1, run) /\ Streak(s.verdicts) = count
              /\ counted.next \in 1 .. Len(Sweep) + 1
              /\ ~ EndsInFailedStop(counted.verdicts)
  <2>1. Account(s.next, run)
    BY <1>2, <1>5, <1>14 DEF Account, CasesReported
  <2>2. Streak(s.verdicts) = count
    BY <1>2, <1>4, <1>6, <1>14 DEF Ordinary
  <2>3. ~ EndsInFailedStop(counted.verdicts)
    BY <1>9, <1>14, <1>10a DEF Ordinary
  <2>4. QED
    BY <1>5, <1>9, <2>1, <2>2, <2>3
<1>15. CASE /\ verdict \in Ordinary /\ counted.consecutive >= 3
            /\ Caught(counted, run, "ENGINE_START_FAILED")
  <2>1. Streak(counted.verdicts) = 3
    BY <1>7, <1>9, <1>14, <1>15
  <2>2. NoThreeBefore(counted.verdicts)
    BY <1>2, <1>9
  <2>3. QED
    BY <1>9, <1>10, <1>14, <1>15, <2>1, <2>2, CaughtBooks DEF BooksStepOk
<1>16. CASE /\ verdict \in Ordinary /\ ~ (counted.consecutive >= 3)
            /\ CaseLoop(counted, run)
  <2>1. /\ NoThreeBefore(counted.verdicts) /\ counted.consecutive < 3
        /\ counted.consecutive = Streak(counted.verdicts)
    BY <1>2, <1>7, <1>9, <1>14, <1>16
  <2>2. QED
    BY <1>9, <1>14, <1>16, <2>1, CaseLoopBooks DEF BooksStepOk
<1>17. QED
  BY <1>8, <1>11, <1>12, <1>13, <1>15, <1>16

LEMMA EndBooks ==
  ASSUME EngineInv, BooksInv, Persisted \/ ExecuteReturns
  PROVE  BooksStepOk
<1>1. SessionOk(s) /\ s \in Session /\ engine \in Engine
  BY DEF EngineInv, EngineOk, SessionOk
<1>2. CASE Persisted
  <2> DEFINE who == {"final"}
             p == StopEngine(Pair(s, engine), who)
  <2>1. s' = [p.s EXCEPT !.pc = "stopping"] /\ run' = run /\ s.pc \in Over
    BY <1>2 DEF Persisted, At, Over
  <2>2. who \in SUBSET {"canceller", "case", "final"}
    OBVIOUS
  <2> HIDE DEF who
  <2>3. AfterStopEngine(s, engine, who, p)
    BY <1>1, <2>2, StopEngineCases
  <2> HIDE DEF p
  <2>4. StopFrame(s, engine, who, p)
    BY <1>1, <2>2, <2>3, StopEngineFrame DEF SessionOk
  <2>5. /\ p.s \in Session /\ p.s.next = s.next
        /\ p.s.consecutive = s.consecutive /\ p.s.verdicts = s.verdicts
    BY <2>4 DEF StopFrame
  <2>6. /\ s'.pc = "stopping" /\ s'.next = s.next
        /\ s'.consecutive = s.consecutive /\ s'.verdicts = s.verdicts
    BY <2>1, <2>5 DEF Session
  <2>7. QED
    BY <2>1, <2>6, SameBooks DEF BooksStepOk, Over
<1>3. CASE ExecuteReturns
  <2>1. /\ s.pc = "stopping" /\ s'.pc = "done" /\ s'.next = s.next /\ run' = run
        /\ s'.consecutive = s.consecutive /\ s'.verdicts = s.verdicts
    BY <1>1, <1>3 DEF ExecuteReturns, FinalStopIsOver, At, Session
  <2>2. QED
    BY <2>1, SameBooks DEF BooksStepOk, Over
<1>4. QED
  BY <1>2, <1>3

\* A cancellation ends the account where it stands, or finds it closed.
LEMMA CancelRunBooks ==
  ASSUME EngineInv, BooksInv, s.pc # "idle"
  PROVE  Books(s.pc, s.next, s.consecutive, s.verdicts, CancelRun(run, Now))
<1> DEFINE new == CancelRun(run, Now)
           k == CasesReported(s.pc, s.next, s.verdicts)
<1>1. s.pc \in Working \cup Over \cup {"caseStopping"}
  BY DEF EngineInv, EngineOk, SessionOk, Session, Working, Over
<1>2. CASE s.pc \in Over
  <2>1. run.status \in {"completed", "failed", "cancelled"}
    BY <1>2 DEF BooksInv, Books, ReportedInTheEnd
  <2>2. new = run
    BY <2>1 DEF CancelRun, IsRunStatusCancellable
  <2>3. QED
    BY <2>2 DEF BooksInv
<1>3. CASE s.pc \in Working \cup {"caseStopping"}
  <2>1. /\ s.next \in Nat \ {0} /\ s.next <= Len(Sweep) /\ Len(Sweep) \in Nat
        /\ SoFar(k, run) /\ run \in RunRecord /\ run.failure = NoFailure
    BY <1>3, SweepEnds DEF BooksInv, Books, Working, Over
  <2>2. k \in 0 .. Len(Sweep)
    BY <2>1 DEF CasesReported
  <2> HIDE DEF k
  <2>3. Account(k, new)
    BY <2>1, <2>2, CancelAccount DEF Account
  <2>4. new \in RunRecord /\ new.failure = NoFailure /\ SoFar(k, new)
    BY <2>3 DEF Account
  <2> HIDE DEF new
  <2>5. Books(s.pc, s.next, s.consecutive, s.verdicts, new)
    BY <1>3, <2>4 DEF BooksInv, Books, Working, Over, NoFailure, k
  <2>6. QED
    BY <2>5 DEF new
<1>4. QED
  BY <1>1, <1>2, <1>3

LEMMA CancelBooks ==
  ASSUME EngineInv, BooksInv,
         CancellationSettles \/ \E byRoute \in BOOLEAN : CancelRequest(byRoute)
  PROVE  BooksStepOk /\ s.pc # "idle"
<1>1. SessionOk(s) /\ s \in Session /\ engine \in Engine
  BY DEF EngineInv, EngineOk, SessionOk
<1>2. CASE CancellationSettles
  <2>1. s' = s /\ run' = CancelRun(run, Now) /\ s.pc # "idle"
    BY <1>2 DEF CancellationSettles, CancellationIsOver, BooksInv
  <2>2. QED
    BY <2>1, CancelRunBooks DEF BooksStepOk
<1>3. CASE \E byRoute \in BOOLEAN : CancelRequest(byRoute)
  <2>1. PICK byRoute \in BOOLEAN : CancelRequest(byRoute)
    BY <1>3
  <2> DEFINE told == [s EXCEPT !.cancellationRequested = TRUE, !.aborted = TRUE]
             e == OnAbort(engine)
             who == {"canceller"}
             p == StopEngine(Pair(told, e), who)
  <2>2. s' = p.s /\ s.pc # "idle" /\ run' \in {run, CancelRun(run, Now)}
    BY <2>1 DEF CancelRequest
  <2>3. who \in SUBSET {"canceller", "case", "final"} /\ e \in Engine
    BY <1>1, OnAbortType
  <2>4. /\ told \in Session /\ (told.stopWaiters # {} => told.engineStop = "inFlight")
        /\ told.pc = s.pc /\ told.next = s.next
        /\ told.verdicts = s.verdicts /\ told.consecutive = s.consecutive
    BY <1>1 DEF SessionOk, Session
  <2> HIDE DEF told, e, who
  <2>5. AfterStopEngine(told, e, who, p)
    BY <2>3, <2>4, StopEngineCases
  <2> HIDE DEF p
  <2>6. StopFrame(told, e, who, p)
    BY <2>3, <2>4, <2>5, StopEngineFrame
  <2>7. /\ s'.pc = s.pc /\ s'.next = s.next /\ s'.verdicts = s.verdicts
        /\ s'.consecutive = s.consecutive
    BY <2>2, <2>4, <2>6 DEF StopFrame
  <2>8. Books(s.pc, s.next, s.consecutive, s.verdicts, run')
    BY <2>2, CancelRunBooks DEF BooksInv
  <2>9. QED
    BY <2>2, <2>7, <2>8 DEF BooksStepOk
<1>4. QED
  BY <1>2, <1>3

LEMMA BooksStep ==
  ASSUME EngineInv, BooksInv, [Next]_vars
  PROVE  BooksInv'
<1>1. CASE UNCHANGED vars
  BY <1>1 DEF vars, BooksInv
<1>2. CASE BooksStepOk /\ awaiting' = awaiting
  BY <1>2 DEF BooksStepOk, BooksInv
<1>3. CASE CancellationSettles \/ \E byRoute \in BOOLEAN : CancelRequest(byRoute)
  <2>1. BooksStepOk /\ s.pc # "idle"
    BY <1>3, CancelBooks
  <2>2. QED
    BY <2>1 DEF BooksStepOk, BooksInv
<1>4. CASE CaseReturns \/ ExecuteReturns \/ Persisted
  BY <1>2, <1>4, CaseReturnsBooks, EndBooks
  DEF CaseReturns, ExecuteReturns, Persisted
<1>5. CASE PluginStep
  <2>0. "lifecycle" \in StartErrors /\ "execution" \in CaseErrors
    BY DEF StartErrors, CaseErrors
  <2>1. CASE ValidationAccepts \/ \E answer \in Answers : ValidationRefuses(answer)
    BY <1>2, <2>1, ValidationBooks DEF ValidationAccepts, ValidationRefuses
  <2>2. CASE BuildResolves \/ \E verdict \in StartErrors : BuildRejects(verdict)
    BY <1>2, <2>2, <2>0, BuildBooks DEF BuildResolves, BuildRejects
  <2>3. CASE \/ \E listens \in AbortListeners : StartResolves(listens)
             \/ \E verdict \in StartErrors : StartRejects(verdict)
    BY <1>2, <2>3, <2>0, StartBooks DEF StartResolves, StartRejects
  <2>4. CASE ReadyResolves \/ ReadinessFails \/ \E verdict \in StartErrors : ReadyRejects(verdict)
    BY <1>2, <2>4, <2>0, ReadyBooks DEF ReadyResolves, ReadinessFails, ReadyRejects
  <2>5. CASE EngineExits \/ StopGivesUp
    BY <1>2, <2>5, StopEndsBooks DEF EngineExits, StopGivesUp
  <2>6. CASE CaseResolves \/ (\E verdict \in CaseErrors : CaseRejects(verdict)) \/ MetricsSettle
    BY <1>2, <2>6, <2>0, CaseBooks DEF CaseResolves, CaseRejects, MetricsSettle
  <2>7. QED
    BY <1>5, <2>1, <2>2, <2>3, <2>4, <2>5, <2>6
    DEF PluginStep, Answers, StartErrors, CaseErrors
<1>6. CASE Begin \/ MissingPlugin
  BY <1>2, <1>6, BeginBooks DEF Begin, MissingPlugin
<1>7. CASE DeadlinePasses \/ RunTimer \/ CaseTimer \/ StopTimesOut
  <2>1. "execution" \in CaseErrors
    BY DEF CaseErrors
  <2>2. QED
    BY <1>2, <1>7, <2>1, ValidationBooks, TimerBooks, CaseBooks, StopEndsBooks
    DEF DeadlinePasses, RunTimer, CaseTimer, StopTimesOut
<1>8. QED
  BY <1>1, <1>3, <1>4, <1>5, <1>6, <1>7 DEF Next, Microtask, Macrotask

-------------------------------------------------------------------------------
(***************************************************************************)
(* Part 7: the theorems.                                                   *)
(***************************************************************************)

SweepInv == EngineInv /\ BooksInv

LEMMA SweepInitially ==
  ASSUME Init
  PROVE  SweepInv
<1>1. /\ s \in Session /\ s.pc = "idle" /\ s.next = 1 /\ s.consecutive = 0
      /\ s.verdicts = <<>> /\ ~ s.cancellationRequested /\ s.stopWaiters = {}
      /\ ~ s.engineContext
  BY DEF Init, Session, MaxConsecutiveEngineLifecycleFailures
<1>2. engine \in Engine /\ Quiet(engine) /\ engine.process # "alive"
  BY DEF Init, NoEngine, Engine, Quiet
<1>3. EngineInv
  BY <1>1, <1>2 DEF EngineInv, EngineOk, SessionOk, EngineAt, LeftAlive
<1>4. /\ run \in RunRecord /\ run.status = "queued" /\ run.caseOutcomes = <<>>
      /\ run.failure = NoFailure
  BY QueuedReport, SweepEnds DEF Init
<1>5. Reported(run) = <<>>
  BY <1>4 DEF Reported
<1>6. NoThreeBefore(<<>>) /\ <<>> \in Seq(Verdicts)
  BY DEF NoThreeBefore
<1>7. Books(s.pc, s.next, s.consecutive, s.verdicts, run)
  BY <1>1, <1>4, <1>5, <1>6 DEF Books, Working, Over, NoFailure
<1>8. QED
  BY <1>3, <1>7 DEF SweepInv, BooksInv, Init

LEMMA SweepSteps ==
  ASSUME SweepInv, [Next]_vars
  PROVE  SweepInv' /\ SpawnsWhenQuiet /\ BeginsNothing
<1>1. s.pc = "caseStopping" => s.consecutive < MaxConsecutiveEngineLifecycleFailures
  BY DEF SweepInv, BooksInv, Books, MaxConsecutiveEngineLifecycleFailures
<1>2. EngineStepOk
  BY <1>1, EngineStep DEF SweepInv
<1>3. BooksInv'
  BY BooksStep DEF SweepInv
<1>4. QED
  BY <1>2, <1>3 DEF SweepInv, EngineStepOk

\* Both invariants hold of every sweep.
THEOREM SweepInvariant == Spec => []SweepInv
<1>1. Init => SweepInv
  BY SweepInitially
<1>2. SweepInv /\ [Next]_vars => SweepInv'
  BY SweepSteps
<1>3. QED
  BY <1>1, <1>2, PTL DEF Spec

\* An engine is spawned only once the plugin has let go of the engine of the
\* case before: buildLaunchConfig() is awaited with no entry and no stop left,
\* and no process either unless the row of lifecycle failures has begun.
THEOREM EnginesDoNotOverlap == Spec => NextEngineWaitsForTheLast
<1>1. ASSUME SweepInv, [Next]_vars
      PROVE  [engine.start # "pending" /\ engine'.start = "pending"
                => /\ ~ engine.active /\ ~ engine.stopping
                   /\ engine.process = "alive" => Streak(s.verdicts) > 0]_vars
  <2>1. s.pc = "building" => s.consecutive = Streak(s.verdicts)
    BY <1>1 DEF SweepInv, BooksInv, Books, Working
  <2>2. QED
    BY <1>1, <2>1, SweepSteps DEF SpawnsWhenQuiet
<1>2. QED
  BY <1>1, SweepInvariant, PTL DEF Spec, NextEngineWaitsForTheLast

\* Once a sweep is cancelled or its run timer has fired, no case begins and no
\* engine is spawned.
THEOREM AbortStopsTheSweep == Spec => NoSweepWorkAfterAbort
<1>1. SweepInv /\ [Next]_vars =>
        [s.aborted =>
            /\ s'.pc = "validating" => s.pc = "validating"
            /\ engine.start # "pending" => engine'.start # "pending"]_vars
  BY SweepSteps DEF BeginsNothing
<1>2. QED
  BY <1>1, SweepInvariant, PTL DEF Spec, NoSweepWorkAfterAbort

LEMMA SweepAccounts ==
  ASSUME SweepInv
  PROVE  EverySweepCaseAccountedFor
<1>1. /\ Outcomes = Reported(run)
      /\ StopHasFailed <=> EndsInFailedStop(s.verdicts)
  BY DEF Outcomes, Reported, StopHasFailed, EndsInFailedStop
<1>2. /\ \A n \in 0 .. Len(Sweep) : IsPrefix(SubSeq(Sweep, 1, n), Sweep)
      /\ Len(Sweep) \in Nat /\ SubSeq(Sweep, 1, 0) = <<>>
      /\ SubSeq(Sweep, 1, Len(Sweep)) = Sweep
  BY SweepParts
<1>3. IsPrefix(Sweep, Sweep) /\ IsPrefix(<<>>, Sweep)
  <2>1. 0 \in 0 .. Len(Sweep) /\ Len(Sweep) \in 0 .. Len(Sweep)
    BY <1>2
  <2>2. QED
    BY <1>2, <2>1
<1>4. s.pc \in Working \cup Over \cup {"caseStopping", "idle"}
  BY DEF SweepInv, EngineInv, EngineOk, SessionOk, Session, Working, Over
<1>5. CASE s.pc = "idle"
  BY <1>1, <1>3, <1>5
  DEF SweepInv, BooksInv, Books, EverySweepCaseAccountedFor
<1>6. CASE s.pc \in Working \cup {"caseStopping"}
  <2> DEFINE k == CasesReported(s.pc, s.next, s.verdicts)
  <2>1. /\ s.next \in Nat \ {0} /\ s.next <= Len(Sweep) /\ SoFar(k, run)
    BY <1>6 DEF SweepInv, BooksInv, Books
  <2>2. k \in 0 .. Len(Sweep)
    BY <1>2, <2>1 DEF CasesReported
  <2> HIDE DEF k
  <2>3. IsPrefix(Reported(run), Sweep) /\ run.status \in {"cancelled", "running"}
    BY <1>2, <2>1, <2>2 DEF SoFar
  <2>4. QED
    BY <1>1, <2>3 DEF EverySweepCaseAccountedFor
<1>7. CASE s.pc \in Over
  <2>1. ReportedInTheEnd(s.next, s.verdicts, run)
    BY <1>7 DEF SweepInv, BooksInv, Books
  <2>2. CASE run.status = "cancelled" /\ IsPrefix(Reported(run), Sweep)
    BY <1>1, <2>2 DEF EverySweepCaseAccountedFor
  <2>3. CASE ~ EndsInFailedStop(s.verdicts) /\ Reported(run) = Sweep
    BY <1>1, <1>3, <2>3 DEF EverySweepCaseAccountedFor
  <2>4. CASE EndsInFailedStop(s.verdicts) /\ Reported(run) = Twice
    BY <1>1, <2>4 DEF EverySweepCaseAccountedFor
  <2>5. QED
    BY <2>1, <2>2, <2>3, <2>4 DEF ReportedInTheEnd, Twice
<1>8. QED
  BY <1>4, <1>5, <1>6, <1>7

\* However a sweep goes, its outcomes follow the expanded sweep place by place,
\* and a sweep that completed or failed has one for every place - two for the
\* case whose engine could not be stopped.
THEOREM EverySweepIsAccountedFor == Spec => []EverySweepCaseAccountedFor
  BY SweepInvariant, SweepAccounts, PTL

\* No case is begun after the third engine lifecycle failure in a row, and no
\* sweep is given up for fewer.
THEOREM ThreeFailuresEndASweep == Spec => []GivesUpAfterThreeInARow
<1>1. SweepInv => GivesUpAfterThreeInARow
  BY DEF SweepInv, BooksInv, Books, NoThreeBefore, GivesUpAfterThreeInARow,
         MaxConsecutiveEngineLifecycleFailures
<1>2. QED
  BY <1>1, SweepInvariant, PTL

===============================================================================
