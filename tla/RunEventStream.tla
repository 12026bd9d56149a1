---------------------------- MODULE RunEventStream ----------------------------
(***************************************************************************)
(* GET /runs/:runId/event (src/server/routes/run-routes/supplemental.ts):  *)
(* clients following the runs of a RunStore over server-sent events        *)
(* (src/server/sse/sse-response.ts), the listeners the store keeps for     *)
(* them, and the streams RuntimeControl keeps for the shutdown.            *)
(*                                                                         *)
(* The handler reads the log, replays it and subscribes without an await,  *)
(* and the store calls its listeners before its method returns: both are   *)
(* one step.  Any caller may use the store, as in RunStore.                *)
(*                                                                         *)
(* Abstracted: the frames connected, heartbeat and disconnected that every *)
(* stream sends, and the buffer between enqueue and a slow client.         *)
(***************************************************************************)
EXTENDS RunStore

CONSTANT Streams        \* the streams clients ever open

VARIABLES
    streams,        \* per stream: the local variables of createSseResponse
    listeners,      \* runEventListeners: the streams subscribed to a run
    sseStreams,     \* RuntimeControl.sseStreams
    serving,        \* where stopServer is with the streams and the listener
    history         \* history variable: all events emitted for a run

streamVars == <<streams, listeners, sseStreams, serving, history>>

NoRunId == 0

Reasons == {"client-disconnect", "run-terminal", "shutdown"}

Stream == [runId : RunIds \cup {NoRunId},
           state : {"unopened", "open", "closed"},
           reason : Reasons \cup {"none"},      \* of closeStream
           abortListener : BOOLEAN,             \* abortListenerRegistered
           heartbeat : BOOLEAN,                 \* heartbeatInterval is set
           sent : Seq(RunEvent)]

NoStream == [runId |-> NoRunId, state |-> "unopened", reason |-> "none",
             abortListener |-> FALSE, heartbeat |-> FALSE, sent |-> <<>>]

-------------------------------------------------------------------------------
(* The functions of createSseResponse, on one stream.                      *)

\* Mutant of ShouldCloseAfterEvent: a cancelled run does not end its streams.
ShouldCloseUnlessCancelled(event) == event \in {"run.completed", "run.failed"}

ShouldCloseAfterEvent(event) == event \in TerminalEvents

\* That the stream leaves listeners and sseStreams is in Released, below.
CloseStream(s, reason) ==
    IF s.state = "closed"
    THEN s
    ELSE [s EXCEPT !.state = "closed", !.reason = reason,
                   !.heartbeat = FALSE, !.abortListener = FALSE]

EmitEvent(s, e) ==
    IF s.state = "closed"
    THEN s
    ELSE LET sent == [s EXCEPT !.sent = Append(@, e)]
         IN  IF ShouldCloseAfterEvent(e.event)
             THEN CloseStream(sent, "run-terminal")
             ELSE sent

\* Mutant of Replay: nothing is replayed.
ReplayNothing(s, log) == s

\* emitEvent for every event of the log: after one that closes the stream
\* nothing more is sent.
Replay(s, log) ==
    LET closing == {i \in DOMAIN log : ShouldCloseAfterEvent(log[i].event)}
        first   == CHOOSE i \in closing : \A j \in closing : i <= j
    IN  IF closing = {}
        THEN [s EXCEPT !.sent = log]
        ELSE CloseStream([s EXCEPT !.sent = SubSeq(log, 1, first)],
                         "run-terminal")

-------------------------------------------------------------------------------
StreamInit ==
    /\ Init
    /\ streams = [t \in Streams |-> NoStream]
    /\ listeners = [r \in RunIds |-> {}]
    /\ sseStreams = {}
    /\ serving = "yes"
    /\ history = [r \in RunIds |-> <<>>]

\* Mutant of Subscribed: start() subscribes a stream the replay has closed.
SubscribedAnyway(t, s) ==
    /\ streams' = [streams EXCEPT ![t] = [s EXCEPT !.heartbeat = TRUE]]
    /\ listeners' = [listeners EXCEPT ![s.runId] = @ \cup {t}]
    /\ sseStreams' = sseStreams \cup {t}

\* The end of start(): a stream that is still open subscribes, starts its
\* heartbeat and registers for the shutdown.
Subscribed(t, s) ==
    IF s.state = "closed"
    THEN /\ streams' = [streams EXCEPT ![t] = s]
         /\ UNCHANGED <<listeners, sseStreams>>
    ELSE /\ streams' = [streams EXCEPT ![t] = [s EXCEPT !.heartbeat = TRUE]]
         /\ listeners' = [listeners EXCEPT ![s.runId] = @ \cup {t}]
         /\ sseStreams' = sseStreams \cup {t}

\* The handler of GET /runs/:runId/event on a run the store has, for a client
\* that may have gone away already.
Open(t, r, aborted) ==
    LET opened == [NoStream EXCEPT !.runId = r, !.state = "open"]
    IN  /\ serving # "stopped"
        /\ streams[t].state = "unopened"
        /\ r \in Tracked
        /\ Subscribed(t,
              IF aborted
              THEN CloseStream(opened, "client-disconnect")
              ELSE Replay([opened EXCEPT !.abortListener = TRUE],
                          runs[r].events))
        /\ UNCHANGED <<vars, serving, history>>

\* What closeStream takes away from a stream it has closed.
Released ==
    /\ listeners' = [r \in RunIds |->
                        {t \in listeners[r] : streams'[t].state = "open"}]
    /\ sseStreams' = {t \in sseStreams : streams'[t].state = "open"}

\* The request's signal fires, or the body of the response is cancelled.
Disconnect(t) ==
    /\ streams[t].state = "open"
    /\ streams' = [streams EXCEPT ![t] = CloseStream(@, "client-disconnect")]
    /\ Released
    /\ UNCHANGED <<vars, serving, history>>

\* stopServer: closeSseStreams closes what is registered, whatever the state
\* of the runs; requests are taken until the other phases have settled.
CloseSseStreams ==
    /\ serving = "yes"
    /\ serving' = "stopping"
    /\ streams' = [t \in Streams |-> IF t \in sseStreams
                                     THEN CloseStream(streams[t], "shutdown")
                                     ELSE streams[t]]
    /\ Released
    /\ UNCHANGED <<vars, history>>

StopListening ==
    /\ serving = "stopping"
    /\ serving' = "stopped"
    /\ UNCHANGED <<vars, streams, listeners, sseStreams, history>>

\* Whether the step emits an event for run r: the methods that emit change
\* the log, the others leave it alone or, forgetting the run, empty it.  (A
\* case started again with a log full of that very event would go unseen; it
\* would take a caller that starts one case more than MaxEventsPerRun times,
\* and not looking at it keeps the histories finite.)
Emits(r) == runs'[r].events \notin {runs[r].events, <<>>}

Newest(log) == log[Len(log)]

\* emitRunEvent calls the listeners of the run; deleteRun drops them.
Notify ==
    /\ history' = [r \in RunIds |-> IF Emits(r)
                                    THEN Append(history[r], Newest(runs'[r].events))
                                    ELSE history[r]]
    /\ streams' = [t \in Streams |->
            LET r == streams[t].runId
            IN  IF r \in RunIds /\ t \in listeners[r] /\ Emits(r)
                THEN EmitEvent(streams[t], Newest(runs'[r].events))
                ELSE streams[t]]
    /\ listeners' = [r \in RunIds |->
            IF runs'[r] = NoRun
            THEN {}
            ELSE {t \in listeners[r] : streams'[t].state = "open"}]
    /\ sseStreams' = {t \in sseStreams : streams'[t].state = "open"}
    /\ UNCHANGED serving

StreamNext ==
    \/ Next /\ Notify
    \/ \E t \in Streams, r \in RunIds, aborted \in BOOLEAN : Open(t, r, aborted)
    \/ \E t \in Streams : Disconnect(t)
    \/ CloseSseStreams
    \/ StopListening

StreamSpec == StreamInit /\ [][StreamNext]_<<vars, streamVars>>

-------------------------------------------------------------------------------
(***************************************************************************)
(* Properties.                                                             *)
(***************************************************************************)

\* A client that connects while the run goes on sees its events without a gap
\* or a repetition: all that is still in the log, then every later one up to
\* the moment its stream is closed - and up to the last, if the end of the run
\* closed it.  Between the replay and the subscription nothing slips through.
NoEventLostOrRepeated ==
    \A t \in Streams :
        LET s    == streams[t]
            past == history[s.runId]
            kept == IF Len(past) < MaxEventsPerRun THEN Len(past)
                                                   ELSE MaxEventsPerRun
        IN  s.state # "unopened" =>
                /\ \E i \in 0 .. Len(past) - Len(s.sent) :
                      s.sent = SubSeq(past, i + 1, i + Len(s.sent))
                /\ s.state = "open" \/ s.reason = "run-terminal"
                      => /\ Len(s.sent) >= kept
                         /\ s.sent = SubSeq(past, Len(past) - Len(s.sent) + 1,
                                            Len(past))

\* A stream holds on to its subscription, its heartbeat, its abort listener
\* and its place among the streams the shutdown closes exactly while it is
\* open: nothing is left behind by one that a replayed event closed at once,
\* and closeSseStreams finds every stream that is open when it is called.  One
\* opened later, before the server stops listening, is registered as well, but
\* the shutdown does not look again.
HeldExactlyWhileOpen ==
    \A t \in Streams :
        LET s == streams[t]
        IN  /\ (t \in sseStreams) <=> (s.state = "open")
            /\ \A r \in RunIds :
                  (t \in listeners[r]) <=> (s.state = "open" /\ s.runId = r)
            /\ s.heartbeat <=> (s.state = "open")
            /\ s.abortListener <=> (s.state = "open")

\* No client waits for events that cannot come: the run of an open stream has
\* not ended, so that its last event is still to be sent, and the store has
\* not forgotten it and its listeners.
OpenStreamsFollowActiveRuns ==
    \A t \in Streams :
        streams[t].state = "open"
            => IsRunStatusCancellable(runs[streams[t].runId].status)

===============================================================================
