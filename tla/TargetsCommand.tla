---------------------------- MODULE TargetsCommand ----------------------------
(***************************************************************************)
(* The `targets` subcommands that run ssh: `check` (and `exec`, which      *)
(* takes the same path) through executeSshCommand, and `forward` through   *)
(* startSshPortForward (cli/targets-command, server/ssh).                  *)
(*                                                                         *)
(* One process serves one subcommand.  Its continuations run before the    *)
(* event loop turns to anything else: while it is Runnable no signal, no   *)
(* timer and no ssh moves.  An ssh process dies when it likes, may ignore  *)
(* SIGTERM, and has exited for a while before its pipes are closed; only   *)
(* then, at 'close', does a caller hear of it.                             *)
(***************************************************************************)
EXTENDS Naturals, FiniteSets

CONSTANT AUTO_LOCAL_PORT_ATTEMPTS

ASSUME TargetsCommandAssumption == AUTO_LOCAL_PORT_ATTEMPTS \in Nat \ {0}

VARIABLES
    command,        \* "check" or "forward"
    at,             \* where the handler of the subcommand is
    signalled,      \* cancelledBySignal, and abortSignal.aborted with it
    attempt,        \* of startSshPortForward; a check has one
    ssh,            \* per attempt the ssh process
    port,           \* per attempt who listens on the local port
    timedOut,       \* the timeout of the check, the startup deadline of a forward
    failure         \* why the ssh process is being torn down

vars == <<command, at, signalled, attempt, ssh, port, timedOut, failure>>

Attempts == 1..AUTO_LOCAL_PORT_ATTEMPTS

NoSsh == [life |-> "none", exit |-> "none", signal |-> "none", killTimers |-> 0,
          stderr |-> "none"]

\* What spawn gives: a process, or an 'error' event that is still to come.
Spawned == {[NoSsh EXCEPT !.life = "alive"],
            [NoSsh EXCEPT !.life = "exited", !.exit = "error"]}

Ended == {"returned", "failed"}

Child == ssh[attempt]

Alive(i) == ssh[i].life = "alive"

Closed == Child.life = "closed"

\* The handler waits for an ssh process that is closed.
Runnable == Closed /\ at \in {"ssh", "probe", "pause", "teardown", "forwarding"}

Init == /\ command \in {"check", "forward"}
        /\ at = "profile"
        /\ signalled = FALSE
        /\ attempt = 1
        /\ ssh = [i \in Attempts |-> NoSsh]
        /\ port = [i \in Attempts |-> "free"]
        /\ timedOut = FALSE
        /\ failure = "none"

-------------------------------------------------------------------------------
(* cancelSubprocess and the process it is applied to.                      *)

\* Mutant of Cancelled: SIGTERM is all.
CancelledOnce(child) ==
    IF child.life # "alive" THEN child
    ELSE [child EXCEPT !.signal = IF @ = "KILL" THEN @ ELSE "TERM"]

\* A process that has exited cannot be signalled, and no timer is started.
Cancelled(child) ==
    IF child.life # "alive" THEN child
    ELSE [child EXCEPT !.signal = IF @ = "KILL" THEN @ ELSE "TERM",
                       !.killTimers = @ + 1]

KillTimerFires(i) ==
    /\ ~Runnable /\ at # "killed"
    /\ ssh[i].killTimers > 0
    /\ ssh' = [ssh EXCEPT ![i].killTimers = @ - 1,
                          ![i].signal = IF Alive(i) THEN "KILL" ELSE @]
    /\ UNCHANGED <<command, at, signalled, attempt, port, timedOut, failure>>

\* ssh ends, by itself or by a signal, and gives up its local port.
SshExits(i, exit, stderr) ==
    /\ ~Runnable
    /\ Alive(i)
    /\ ssh' = [ssh EXCEPT ![i].life = "exited", ![i].exit = exit,
                          ![i].stderr = IF @ = "none" THEN stderr ELSE @]
    /\ port' = [port EXCEPT ![i] = IF @ = "ssh" THEN "free" ELSE @]
    /\ UNCHANGED <<command, at, signalled, attempt, timedOut, failure>>

SshIsKilled(i) == ssh[i].signal = "KILL" /\ SshExits(i, "signal", "none")

\* 'close' (or 'error', for what was never started) clears the kill timers and
\* settles the termination promise.
SshCloses(i) ==
    /\ ~Runnable
    /\ ssh[i].life = "exited"
    /\ ssh' = [ssh EXCEPT ![i].life = "closed", ![i].killTimers = 0]
    /\ UNCHANGED <<command, at, signalled, attempt, port, timedOut, failure>>

\* -o ExitOnForwardFailure=yes: ssh listens on the local port, or exits.
SshBinds(i) ==
    /\ command = "forward" /\ port[i] = "free"
    /\ ~Runnable /\ Alive(i)
    /\ port' = [port EXCEPT ![i] = "ssh"]
    /\ UNCHANGED <<command, at, signalled, attempt, ssh, timedOut, failure>>

SshCannotBind(i) ==
    /\ command = "forward" /\ port[i] = "other"
    /\ SshExits(i, "nonzero", "port taken")

\* The port was only reserved by a server that is closed again: another program
\* may be faster than ssh.
OtherTakesPort ==
    /\ ~Runnable /\ at \in {"probe", "pause", "teardown"} /\ port[attempt] = "free"
    /\ port' = [port EXCEPT ![attempt] = "other"]
    /\ UNCHANGED <<command, at, signalled, attempt, ssh, timedOut, failure>>

-------------------------------------------------------------------------------
(* Signals.                                                                *)

\* Outside of the handlers' lifetime a signal kills the process: before the
\* profile is read, and from the second signal on.
Killed ==
    /\ ~Runnable /\ at \notin Ended \cup {"killed"}
    /\ at = "profile" \/ signalled
    /\ at' = "killed"
    /\ UNCHANGED <<command, signalled, attempt, ssh, port, timedOut, failure>>

\* The first signal removes both handlers and aborts; the abort listener
\* cancels the ssh process there is.
Signal ==
    /\ ~Runnable /\ at \notin Ended \cup {"profile", "killed"}
    /\ ~signalled
    /\ signalled' = TRUE
    /\ ssh' = [ssh EXCEPT ![attempt] = Cancelled(@)]
    /\ UNCHANGED <<command, at, attempt, port, timedOut, failure>>

-------------------------------------------------------------------------------
(* runCheckCommand, runExecCommand: executeSshCommand.                     *)

\* The profile cannot be read, or the ssh command cannot be built.
ProfileFails ==
    /\ at = "profile"
    /\ at' = "failed"
    /\ UNCHANGED <<command, signalled, attempt, ssh, port, timedOut, failure>>

\* spawn, the timeout and the abort listener, in one turn with the handlers.
StartCheck ==
    /\ command = "check" /\ at = "profile"
    /\ at' = "ssh"
    /\ \E child \in Spawned : ssh' = [ssh EXCEPT ![1] = child]
    /\ UNCHANGED <<command, signalled, attempt, port, timedOut, failure>>

CheckTimesOut ==
    /\ ~Runnable /\ at = "ssh" /\ ~timedOut
    /\ timedOut' = TRUE
    /\ ssh' = [ssh EXCEPT ![attempt] = Cancelled(@)]
    /\ UNCHANGED <<command, at, signalled, attempt, port, failure>>

\* The verdict: timed out, cancelled, the process failed, its exit code.
CheckSettles ==
    /\ at = "ssh" /\ Closed
    /\ at' = IF ~timedOut /\ ~signalled /\ Child.exit = "zero"
             THEN "returned" ELSE "failed"
    /\ UNCHANGED <<command, signalled, attempt, ssh, port, timedOut, failure>>

-------------------------------------------------------------------------------
(* runForwardCommand: startSshPortForward.                                 *)

\* However a forward ends, after a signal it is a shutdown that completed.
ForwardEnds == IF signalled THEN "returned" ELSE "failed"

BeginForward ==
    /\ command = "forward" /\ at = "profile"
    /\ at' = "reserve"
    /\ UNCHANGED <<command, signalled, attempt, ssh, port, timedOut, failure>>

\* No local port, or spawn throws: an error without stderr is not retried.
ForwardCannotStart ==
    /\ at = "reserve"
    /\ at' = ForwardEnds
    /\ UNCHANGED <<command, signalled, attempt, ssh, port, timedOut, failure>>

\* Mutant of StartForward: an abort is left to the listener.
StartForwardListening ==
    /\ at = "reserve"
    /\ \E child \in Spawned : ssh' = [ssh EXCEPT ![attempt] = child]
    /\ at' = "probe"
    /\ timedOut' = FALSE
    /\ UNCHANGED <<command, signalled, attempt, port, failure>>

\* startSshPortForwardOnce.  The listener never hears of a signal that came
\* during the reservation: the first look at abortSignal does.
StartForward ==
    /\ at = "reserve"
    /\ \E child \in Spawned :
          ssh' = [ssh EXCEPT ![attempt] = IF signalled THEN Cancelled(child) ELSE child]
    /\ at' = IF signalled THEN "teardown" ELSE "probe"
    /\ failure' = IF signalled THEN "cancelled" ELSE "none"
    /\ timedOut' = FALSE
    /\ UNCHANGED <<command, signalled, attempt, port>>

StartupDeadline ==
    /\ ~Runnable /\ at \in {"probe", "pause"} /\ ~timedOut
    /\ command = "forward"
    /\ timedOut' = TRUE
    /\ UNCHANGED <<command, at, signalled, attempt, ssh, port, failure>>

\* Someone accepts a connection and keeps it open.
ProbeReady ==
    /\ ~Runnable /\ at = "probe" /\ port[attempt] # "free"
    /\ at' = "forwarding"
    /\ UNCHANGED <<command, signalled, attempt, ssh, port, timedOut, failure>>

\* waitForForwardReady gives up: ssh is cancelled, and its end awaited.
TearDown(reason) ==
    /\ at' = "teardown"
    /\ failure' = reason
    /\ ssh' = [ssh EXCEPT ![attempt] = Cancelled(@)]
    /\ UNCHANGED <<command, signalled, attempt, port, timedOut>>

\* ssh says that nobody listens at the remote port.
RemoteRefuses ==
    /\ ~Runnable /\ at = "probe" /\ port[attempt] = "ssh"
    /\ TearDown("remote-unreachable")

ProbeFails ==
    /\ ~Runnable /\ at = "probe"
    /\ IF timedOut THEN TearDown("timeout")
       ELSE /\ at' = "pause"
            /\ UNCHANGED <<command, signalled, attempt, ssh, port, timedOut, failure>>

PauseEnds ==
    /\ ~Runnable /\ at = "pause"
    /\ IF signalled THEN TearDown("cancelled")
       ELSE /\ at' = "probe"
            /\ UNCHANGED <<command, signalled, attempt, ssh, port, timedOut, failure>>

Terminated == at \in {"probe", "pause"} /\ Closed /\ TearDown("terminated")

\* isRetryableAutoLocalPortFailure, on what ssh has written to stderr.
IsRetryable == failure # "cancelled" /\ Child.stderr = "port taken"

\* Mutant of TornDown: the end of ssh is not awaited.
TornDownAtOnce ==
    /\ at = "teardown"
    /\ IF attempt < AUTO_LOCAL_PORT_ATTEMPTS /\ IsRetryable /\ ~signalled
       THEN at' = "reserve" /\ attempt' = attempt + 1
       ELSE at' = ForwardEnds /\ UNCHANGED attempt
    /\ UNCHANGED <<command, signalled, ssh, port, timedOut, failure>>

\* The next attempt looks at abortSignal before it reserves a port.
TornDown ==
    /\ at = "teardown" /\ Closed
    /\ IF attempt < AUTO_LOCAL_PORT_ATTEMPTS /\ IsRetryable /\ ~signalled
       THEN at' = "reserve" /\ attempt' = attempt + 1
       ELSE at' = ForwardEnds /\ UNCHANGED attempt
    /\ UNCHANGED <<command, signalled, ssh, port, timedOut, failure>>

\* waitForExit: without a signal even a clean exit is a failure.
ForwardStops ==
    /\ at = "forwarding" /\ Closed
    /\ at' = ForwardEnds
    /\ UNCHANGED <<command, signalled, attempt, ssh, port, timedOut, failure>>

-------------------------------------------------------------------------------
Handler == \/ ProfileFails \/ StartCheck \/ CheckSettles
           \/ BeginForward \/ ForwardCannotStart \/ StartForward
           \/ Terminated \/ TornDown \/ ForwardStops

Timers == \/ CheckTimesOut \/ StartupDeadline \/ PauseEnds
          \/ \E i \in Attempts : KillTimerFires(i)

Probe == ProbeReady \/ ProbeFails \/ RemoteRefuses

\* What ssh tells on stderr of an exit that is not clean.
Exits == {<<"zero", "none">>, <<"nonzero", "none">>, <<"nonzero", "guidance">>,
          <<"signal", "none">>}

Ssh == \E i \in Attempts : \/ \E e \in Exits : SshExits(i, e[1], e[2])
                           \/ SshCloses(i) \/ SshBinds(i) \/ SshCannotBind(i)

Next == Handler \/ Timers \/ Probe \/ Ssh \/ OtherTakesPort \/ Signal \/ Killed

Spec == Init /\ [][Next]_vars

\* Continuations run, timers fire, a probe is answered within its timeout,
\* SIGKILL kills, and the pipes of a dead ssh are closed.
FairSpec == /\ Spec
            /\ WF_vars(Handler) /\ WF_vars(Probe)
            /\ WF_vars(CheckTimesOut) /\ WF_vars(StartupDeadline) /\ WF_vars(PauseEnds)
            /\ \A i \in Attempts : /\ WF_vars(KillTimerFires(i))
                                   /\ WF_vars(SshIsKilled(i)) /\ WF_vars(SshCloses(i))

-------------------------------------------------------------------------------
(* Properties.                                                             *)

\* A subcommand that has returned or thrown leaves no ssh behind, and a forward
\* never has two: an attempt is over before the next one begins.
NoSshLeftBehind ==
    LET Living == {i \in Attempts : ssh[i].life \in {"alive", "exited"}}
    IN  /\ at \in Ended => Living = {}
        /\ Cardinality(Living) <= 1
        /\ at = "reserve" => Living = {}

\* agent-os/standards/server/ssh-port-forwarding.md, line 13: "cancel local
\* `ssh` promptly".  From the first signal on every ssh has been asked to end,
\* also one that was started after the signal.
SignalReachesSsh ==
    signalled => \A i \in Attempts : Alive(i) => ssh[i].signal # "none"

\* A check ends, and a forward is established or ends, on its own; and the
\* first signal ends either, whether ssh listens to SIGTERM or not.
EverySubcommandSettles ==
    /\ at \in {"ssh", "reserve"} ~> at \in Ended \cup {"forwarding", "killed"}
    /\ signalled ~> at \in Ended \cup {"killed"}
===============================================================================
