----------------------------- MODULE RemoteEngine -----------------------------
(***************************************************************************)
(* llama.cpp over SSH (src/server/engines/starter-engine): runs whose      *)
(* llama-server runs on the same remote machine, behind a port the server  *)
(* reserves in its own memory, and a local ssh process that forwards it.   *)
(* A session is one plugin.start() with what follows it: the attempts, the *)
(* run state, its stop and the clean-up on the remote machine.  Sessions   *)
(* overlap: the next run may start while the stop of the last is awaited.  *)
(*                                                                         *)
(* The remote machine starts the command of an ssh only while that ssh     *)
(* lives, and a llama-server may survive its ssh.  A port has room for one *)
(* server: the second cannot bind it and its ssh exits.  All profiles here *)
(* have the same host, port and user, hence one reservation key.  The 256  *)
(* draws of a port are enough to meet one that is free, if there is one.   *)
(***************************************************************************)
EXTENDS Naturals, FiniteSets

CONSTANTS Sessions, Ports, NoPort,
          Attempts      \* sshStartupRetryAttempts

ASSUME RemoteAssumption == NoPort \notin Ports /\ Attempts \in Nat \ {0}

VARIABLES
    session,    \* per session its start attempt and its run state
    reserved,   \* reservedRemotePortsByDestination, for the one destination
    servers     \* the llama-server processes on the remote machine

vars == <<session, reserved, servers>>

StartPlaces == {"reserve", "window"}
StopPlaces == {"term", "kill", "pkill -TERM", "grace", "pgrep", "pkill -KILL", "release"}

Session == [at : {"idle", "up", "failed", "ended"} \cup StartPlaces \cup StopPlaces,
            port : Ports \cup {NoPort},     \* reserved for the attempt or run state
            tried : SUBSET Ports,           \* attemptedRemotePorts
            attempt : 0..Attempts,
            ssh : {"none", "alive", "gone"},
            forward : Ports \cup {NoPort},  \* the port ssh was spawned with
            launched : BOOLEAN,             \* ssh's command has been started
            bind : BOOLEAN,                 \* ssh reported a bind failure in its window
            stop : {"none", "failing", "failed", "again", "failing again",
                    "failed again", "completed"},
            answered : BOOLEAN]             \* each clean-up command so far was

NoSession == [at |-> "idle", port |-> NoPort, tried |-> {}, attempt |-> 0,
              ssh |-> "none", forward |-> NoPort, launched |-> FALSE,
              bind |-> FALSE, stop |-> "none", answered |-> TRUE]

Server == [by : Sessions, port : Ports]

TypeOK == /\ session \in [Sessions -> Session]
          /\ reserved \subseteq Ports
          /\ servers \subseteq Server

Init == /\ session = [s \in Sessions |-> NoSession]
        /\ reserved = {}
        /\ servers = {}

At(s, place) == session[s].at = place

\* The servers that pattern of the port matches.
Matching(port) == {v \in servers : v.port = port}

Own(s) == {v \in Matching(session[s].forward) : v.by = s}

-------------------------------------------------------------------------------
(* The remote machine and the ssh processes.                               *)

SshGone(s, bind) == session' = [session EXCEPT ![s].ssh = "gone", ![s].bind = bind]

\* The remote shell executes llama-server, which binds its port or exits: a
\* server or another program has it, or someone the local port ssh forwards.
RemoteLaunch(s) ==
    /\ session[s].ssh = "alive" /\ ~session[s].launched
    /\ \/ /\ Matching(session[s].forward) = {}
          /\ session' = [session EXCEPT ![s].launched = TRUE]
          /\ servers' = servers \cup {[by |-> s, port |-> session[s].forward]}
       \/ SshGone(s, At(s, "window")) /\ UNCHANGED servers
    /\ UNCHANGED reserved

\* The connection breaks or ssh fails; a server survives it or not.
SshDies(s) ==
    /\ session[s].ssh = "alive"
    /\ SshGone(s, FALSE)
    /\ servers' \in {servers, servers \ Own(s)}
    /\ UNCHANGED reserved

\* A server exits, and the ssh that runs it with it.
ServerExits(v) ==
    /\ v \in servers
    /\ servers' = servers \ {v}
    /\ IF session[v.by].ssh = "alive" /\ session[v.by].forward = v.port
       THEN SshGone(v.by, FALSE)
       ELSE UNCHANGED session
    /\ UNCHANGED reserved

-------------------------------------------------------------------------------
(* plugin.start(): startSshLlamaServerWithRetries.                         *)

Start(s) ==
    /\ At(s, "idle")
    /\ session' = [session EXCEPT ![s].at = "reserve"]
    /\ UNCHANGED <<reserved, servers>>

\* reserveUniqueRemoteSshPort draws ports it has not tried; those that other
\* sessions hold are tried in vain.
ReserveUniqueRemoteSshPort(s, p, vain) ==
    /\ p \in Ports \ (reserved \cup session[s].tried)
    /\ vain \subseteq reserved
    /\ reserved' = reserved \cup {p}

\* The reservation and the spawn are one step of the event loop.
SpawnAttempt(s) ==
    /\ At(s, "reserve")
    /\ \E p \in Ports, vain \in SUBSET Ports :
          /\ ReserveUniqueRemoteSshPort(s, p, vain)
          /\ session' = [session EXCEPT
                ![s].at = "window", ![s].port = p, ![s].forward = p,
                ![s].tried = @ \cup {p} \cup vain, ![s].attempt = @ + 1,
                ![s].ssh = "alive", ![s].launched = FALSE, ![s].bind = FALSE]
    /\ UNCHANGED servers

NoPortLeft(s) ==
    /\ At(s, "reserve")
    /\ Ports \subseteq reserved \cup session[s].tried
    /\ session' = [session EXCEPT ![s].at = "failed"]
    /\ UNCHANGED <<reserved, servers>>

\* Mutant of AttemptSucceeds: the finally releases the port all the same.
AttemptSucceedsAndReleases(s) ==
    /\ At(s, "window") /\ session[s].ssh = "alive"
    /\ session' = [session EXCEPT ![s].at = "up"]
    /\ reserved' = reserved \ {session[s].port}
    /\ UNCHANGED servers

\* ssh has survived the startup window: the run state takes the reservation
\* and activateRunState makes it known to stop() and to the abort signal.
AttemptSucceeds(s) ==
    /\ At(s, "window") /\ session[s].ssh = "alive"
    /\ session' = [session EXCEPT ![s].at = "up"]
    /\ UNCHANGED <<reserved, servers>>

\* ssh has exited in the window, or could not be spawned (it never launched).
AttemptFails(s) ==
    /\ At(s, "window") /\ session[s].ssh = "gone"
    /\ reserved' = reserved \ {session[s].port}
    /\ session' = [session EXCEPT
          ![s].port = NoPort,
          ![s].at = IF session[s].attempt < Attempts /\ session[s].bind
                    THEN "reserve" ELSE "failed"]
    /\ UNCHANGED servers

-------------------------------------------------------------------------------
(* stopRunState: whoever takes the run's entry out of runStates stops it.  *)

\* plugin.stop(), the abort signal, a restart or a readiness failure.
StopRunState(s) ==
    /\ At(s, "up")
    /\ session' = [session EXCEPT ![s].at = "term"]
    /\ UNCHANGED <<reserved, servers>>

\* The observer of the termination promise.
UnexpectedExit(s) == session[s].ssh = "gone" /\ StopRunState(s)

\* After a stop that failed the readiness failure calls stopRunState again.
StopAgain(s) ==
    /\ At(s, "ended") /\ session[s].stop = "failed"
    /\ session' = [session EXCEPT ![s].at = "term", ![s].stop = "again"]
    /\ UNCHANGED <<reserved, servers>>

Failing(stop) == IF stop = "again" THEN "failing again" ELSE "failing"

\* The local process group has gone, on its own or by the signal.
LocalGone(s, place) ==
    /\ session' = [session EXCEPT ![s].at = place, ![s].ssh = "gone"]
    /\ IF session[s].ssh = "gone"
       THEN UNCHANGED servers
       ELSE servers' \in {servers, servers \ Own(s)}

\* It cannot be signalled, or is there after SIGKILL: buildStopFailureError.
LocalStays(s, place) ==
    /\ session[s].ssh = "alive"
    /\ session' = [session EXCEPT ![s].at = place, ![s].stop = Failing(@)]
    /\ UNCHANGED servers

\* Mutant of Terminate: the port is released before the clean-up.
TerminateAndRelease(s) ==
    /\ At(s, "term")
    /\ LocalGone(s, "pkill -TERM")
    /\ reserved' = reserved \ {session[s].port}

\* SIGTERM to the local group and the grace period.
Terminate(s) ==
    /\ At(s, "term")
    /\ \/ LocalGone(s, "pkill -TERM")
       \/ LocalStays(s, "pkill -TERM")
       \/ /\ session[s].ssh = "alive"
          /\ session' = [session EXCEPT ![s].at = "kill"]
          /\ UNCHANGED servers
    /\ UNCHANGED reserved

Kill(s) ==
    /\ At(s, "kill")
    /\ LocalGone(s, "pkill -TERM") \/ LocalStays(s, "pkill -TERM")
    /\ UNCHANGED reserved

-------------------------------------------------------------------------------
(* cleanupRemoteSshRuntime, in the finally of stopRunStateInternal.        *)

Goes(s, place) == session' = [session EXCEPT ![s].at = place]

\* The command failed, timed out or was ended by a signal.
Unanswered(s) ==
    session' = [session EXCEPT ![s].at = "release", ![s].answered = FALSE]

\* Without a reservation, after a stop that failed, the clean-up is skipped,
\* which leaves it as unanswered as a command that fails.
PkillTerm(s) ==
    /\ At(s, "pkill -TERM")
    /\ \/ /\ session[s].port # NoPort /\ Matching(session[s].port) = {}
          /\ Goes(s, "release") /\ UNCHANGED servers
       \/ /\ Matching(session[s].port) # {}
          /\ Goes(s, "grace")
          /\ \E dead \in SUBSET Matching(session[s].port) : servers' = servers \ dead
       \/ /\ Unanswered(s)
          /\ \E dead \in SUBSET Matching(session[s].port) : servers' = servers \ dead
    /\ UNCHANGED reserved

GracePasses(s) ==
    /\ At(s, "grace")
    /\ Goes(s, "pgrep")
    /\ UNCHANGED <<reserved, servers>>

\* Mutant of Pgrep: a server that was sent SIGTERM is taken for dead.
PgrepTrusting(s) ==
    /\ At(s, "pgrep")
    /\ Goes(s, "release")
    /\ UNCHANGED <<reserved, servers>>

\* Mutant of Pgrep: waits for a server that SIGTERM has not ended yet.
PgrepWaiting(s) ==
    /\ At(s, "pgrep")
    /\ IF Matching(session[s].port) # {} THEN Goes(s, "grace") ELSE Goes(s, "release")
    /\ UNCHANGED <<reserved, servers>>

Pgrep(s) ==
    /\ At(s, "pgrep")
    /\ \/ Matching(session[s].port) # {} /\ Goes(s, "pkill -KILL")
       \/ Matching(session[s].port) = {} /\ Goes(s, "release")
       \/ Unanswered(s)
    /\ UNCHANGED <<reserved, servers>>

PkillKill(s) ==
    /\ At(s, "pkill -KILL")
    /\ \/ /\ Goes(s, "release")
          /\ servers' = servers \ Matching(session[s].port)
       \/ /\ Unanswered(s)
          /\ servers' \in {servers, servers \ Matching(session[s].port)}
    /\ UNCHANGED reserved

StopOutcome(stop) == CASE stop = "failing"       -> "failed"
                       [] stop = "failing again" -> "failed again"
                       [] OTHER                  -> "completed"

ReleaseRemoteSshPort(s) ==
    /\ At(s, "release")
    /\ reserved' = reserved \ {session[s].port}
    /\ session' = [session EXCEPT ![s].at = "ended", ![s].port = NoPort,
                                  ![s].stop = StopOutcome(@)]
    /\ UNCHANGED servers

-------------------------------------------------------------------------------
StartStep(s) == SpawnAttempt(s) \/ NoPortLeft(s) \/ AttemptSucceeds(s) \/ AttemptFails(s)

StopStep(s) == \/ Terminate(s) \/ Kill(s)
               \/ PkillTerm(s) \/ GracePasses(s) \/ Pgrep(s) \/ PkillKill(s)
               \/ ReleaseRemoteSshPort(s)

Next == \/ \E s \in Sessions : \/ RemoteLaunch(s) \/ SshDies(s)
                               \/ Start(s) \/ StartStep(s)
                               \/ StopRunState(s) \/ UnexpectedExit(s)
                               \/ StopAgain(s) \/ StopStep(s)
        \/ \E v \in servers : ServerExits(v)

Spec == Init /\ [][Next]_vars

\* Every wait of a start or a stop has a timer (the startup window, the grace
\* periods, overallTimeoutMs of a command): its steps are fair.  Nobody owes
\* a stop to a session that is up, but the observer of an ssh that has gone.
FairSpec == /\ Spec
            /\ \A s \in Sessions : /\ WF_vars(StartStep(s))
                                   /\ WF_vars(StopStep(s))
                                   /\ WF_vars(UnexpectedExit(s))

-------------------------------------------------------------------------------
(* Properties.                                                             *)

\* A port is reserved exactly while one start attempt, run state or stop owns
\* it, and by no two: no path through retries, failures and repeated stops
\* leaks a reservation or releases that of another session.
PortsHaveOneHolder ==
    /\ reserved = {session[s].port : s \in Sessions} \ {NoPort}
    /\ \A s, t \in Sessions :
          session[s].port = session[t].port /\ session[s].port # NoPort => s = t

\* pkill matches by port only, yet a clean-up never ends the server of another
\* session that still owns its port: the reservation is released last.
CleanupSparesOthers ==
    [][\A s \in Sessions :
          /\ session[s].at \in {"pkill -TERM", "pkill -KILL"}
          /\ session'[s].at # session[s].at
          => \A v \in servers \ servers' :
                v.by = s \/ session[v.by].port # v.port]_vars

\* agent-os/standards/plugins/llama-cpp-ssh-remote-cleanup.md, line 3: "perform
\* bounded remote cleanup to prevent leaked llama-server processes".  A stop
\* that completed and whose remote commands were all answered leaves no server
\* of its run state, whatever signals and connections were lost on the way.
NoServerLeftBehind ==
    \A s \in Sessions :
        At(s, "ended") /\ session[s].stop = "completed" /\ session[s].answered
            => Own(s) = {}

\* Every start and every stop comes to an end, and an ssh that has gone is
\* noticed: the session is up with its ssh alive, or it holds no port.
EverySessionSettles ==
    \A s \in Sessions :
        session[s].at \in StartPlaces \cup StopPlaces \/ session[s].ssh = "gone"
            ~> \/ At(s, "up") /\ session[s].ssh = "alive"
               \/ session[s].port = NoPort /\ session[s].at \in {"failed", "ended"}
===============================================================================
