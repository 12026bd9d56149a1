------------------------- MODULE TargetsCommandProofs -------------------------
(***************************************************************************)
(* Proofs about TargetsCommand, for any number of local port attempts.     *)
(***************************************************************************)
EXTENDS TargetsCommand, FiniteSetTheorems, TLAPS

SshProcess == [life : {"none", "alive", "exited", "closed"},
               exit : {"none", "zero", "nonzero", "signal", "error"},
               signal : {"none", "TERM", "KILL"},
               killTimers : Nat,
               stderr : {"none", "guidance", "port taken"}]

TypeOK == /\ attempt \in Attempts
          /\ ssh \in [Attempts -> SshProcess]

\* An attempt begins when the ssh of the one before is closed, and a subcommand
\* ends when its last one is: only the ssh of the current attempt may be living.
OthersAreOver ==
    /\ at = "profile" => attempt = 1 /\ ~signalled
    /\ \A i \in Attempts :
          i # attempt \/ at \in {"profile", "reserve"} \cup Ended
              => ssh[i].life \in {"none", "closed"}

IInv == TypeOK /\ OthersAreOver /\ SignalReachesSsh

-------------------------------------------------------------------------------
(* What one ssh process may become.                                        *)

LEMMA AttemptsAreNumbers == 1 \in Attempts /\ Attempts \subseteq Nat
BY TargetsCommandAssumption DEF Attempts

LEMMA SpawnedType == \A child \in Spawned : child \in SshProcess
<1>1. NoSsh \in SshProcess
  BY DEF NoSsh, SshProcess
<1>2. [NoSsh EXCEPT !.life = "alive"] \in SshProcess
  BY <1>1 DEF SshProcess
<1>3. [NoSsh EXCEPT !.life = "exited", !.exit = "error"] \in SshProcess
  BY <1>1 DEF SshProcess
<1>4. QED BY <1>2, <1>3 DEF Spawned

\* cancelSubprocess changes no life, and asks a process that is alive to end.
LEMMA CancelledType ==
  ASSUME NEW child \in SshProcess
  PROVE  /\ Cancelled(child) \in SshProcess
         /\ Cancelled(child).life = child.life
         /\ child.life = "alive" => Cancelled(child).signal # "none"
<1>1. CASE child.life # "alive"
  BY <1>1 DEF Cancelled
<1>2. CASE child.life = "alive"
  <2> DEFINE sent == IF child.signal = "KILL" THEN child.signal ELSE "TERM"
             timers == child.killTimers + 1
             r == [child EXCEPT !.signal = sent, !.killTimers = timers]
  <2>1. sent \in {"TERM", "KILL"} /\ timers \in Nat
    <3>1. child.killTimers \in Nat
      BY DEF SshProcess
    <3>2. QED BY <3>1
  <2>2. Cancelled(child) = r
    BY <1>2 DEF Cancelled
  <2> HIDE DEF sent, timers
  <2>3. r \in SshProcess /\ r.life = child.life /\ r.signal = sent
    BY <2>1 DEF SshProcess
  <2>4. QED BY <2>1, <2>2, <2>3
<1>3. QED BY <1>1, <1>2

\* One process changes: it comes to life only under a handler that waits for
\* it, and, after a signal, only with a signal of its own.
Becomes(i, r) ==
    /\ ssh' = [ssh EXCEPT ![i] = r]
    /\ UNCHANGED attempt
    /\ UNCHANGED at \/ at' \in {"ssh", "probe", "teardown"}
    /\ \/ r.life \in {"none", "closed", ssh[i].life}
       \/ ssh[i].life \in {"alive", "exited"}
       \/ i = attempt /\ at' \in {"ssh", "probe", "teardown"}
    /\ \/ UNCHANGED signalled
       \/ i = attempt /\ at # "profile"
    /\ signalled' /\ r.life = "alive" => r.signal # "none"

LEMMA Changed ==
  ASSUME IInv, NEW i \in Attempts, NEW r \in SshProcess, Becomes(i, r)
  PROVE  IInv'
<1> USE DEF Becomes
<1>1. /\ ssh'[i] = r /\ \A j \in Attempts \ {i} : ssh'[j] = ssh[j]
      /\ ssh' \in [Attempts -> SshProcess]
  BY DEF IInv, TypeOK
<1>2. TypeOK'
  BY <1>1 DEF IInv, TypeOK
<1>3. OthersAreOver'
  <2>1. at' = "profile" => attempt' = 1 /\ ~signalled'
    BY DEF IInv, OthersAreOver
  <2>2. ASSUME NEW j \in Attempts,
               j # attempt' \/ at' \in {"profile", "reserve"} \cup Ended
        PROVE  ssh'[j].life \in {"none", "closed"}
    <3>1. j # attempt \/ at \in {"profile", "reserve"} \cup Ended
      BY <2>2 DEF Ended
    <3>2. ssh[j].life \in {"none", "closed"}
      BY <3>1 DEF IInv, OthersAreOver
    <3>3. CASE j = i
      BY <1>1, <2>2, <3>2, <3>3 DEF Ended
    <3>4. CASE j # i
      BY <1>1, <3>2, <3>4
    <3>5. QED BY <3>3, <3>4
  <2>3. QED BY <2>1, <2>2 DEF OthersAreOver
<1>4. SignalReachesSsh'
  BY <1>1 DEF IInv, TypeOK, OthersAreOver, SignalReachesSsh, Alive
<1>5. QED BY <1>2, <1>3, <1>4 DEF IInv

-------------------------------------------------------------------------------
(* One lemma per action, or per group of actions with the same effect.     *)

\* The handler moves on, or the process is killed, and no ssh changes.
LEMMA Quiet ==
  ASSUME IInv, UNCHANGED <<ssh, signalled>>,
         attempt' \in Attempts, at' # "profile",
         \/ UNCHANGED attempt /\ at' \notin {"reserve"} \cup Ended
         \/ ssh[attempt].life \in {"none", "closed"}
  PROVE  IInv'
<1>1. TypeOK'
  BY DEF IInv, TypeOK
<1>2. OthersAreOver'
  BY DEF IInv, TypeOK, OthersAreOver
<1>3. SignalReachesSsh'
  BY DEF IInv, SignalReachesSsh, Alive
<1>4. QED BY <1>1, <1>2, <1>3 DEF IInv

LEMMA ProfileStep ==
  ASSUME IInv, ProfileFails \/ BeginForward PROVE IInv'
<1>1. ssh[attempt].life \in {"none", "closed"} /\ attempt \in Attempts
  BY DEF IInv, TypeOK, OthersAreOver, ProfileFails, BeginForward
<1>2. QED BY <1>1, Quiet DEF ProfileFails, BeginForward

LEMMA ReserveStep ==
  ASSUME IInv, ForwardCannotStart PROVE IInv'
<1>1. ssh[attempt].life \in {"none", "closed"} /\ attempt \in Attempts
  BY DEF IInv, TypeOK, OthersAreOver, ForwardCannotStart
<1>2. QED BY <1>1, Quiet DEF ForwardCannotStart, ForwardEnds

\* What the handler does when ssh is closed.
LEMMA ClosedStep ==
  ASSUME IInv, CheckSettles \/ TornDown \/ ForwardStops PROVE IInv'
<1>1. attempt \in Attempts /\ ssh[attempt].life \in {"none", "closed"}
  BY DEF IInv, TypeOK, CheckSettles, TornDown, ForwardStops, Closed, Child
<1>2. attempt' \in Attempts
  BY <1>1, TargetsCommandAssumption DEF CheckSettles, TornDown, ForwardStops, Attempts
<1>3. UNCHANGED <<ssh, signalled>> /\ at' # "profile"
  BY DEF CheckSettles, TornDown, ForwardStops, ForwardEnds
<1>4. QED BY <1>1, <1>2, <1>3, Quiet

LEMMA WaitingStep ==
  ASSUME IInv,
         \/ ProbeReady \/ StartupDeadline \/ Killed
         \/ UNCHANGED <<ssh, signalled, attempt>> /\ at' \in {"probe", "pause"}
  PROVE  IInv'
<1>1. attempt \in Attempts /\ UNCHANGED <<ssh, signalled, attempt>>
  BY DEF IInv, TypeOK, ProbeReady, StartupDeadline, Killed
<1>2. at' \in {"probe", "pause", "forwarding", "killed"}
  BY DEF ProbeReady, StartupDeadline, Killed
<1>3. QED BY <1>1, <1>2, Quiet DEF Ended

LEMMA StartCheckStep ==
  ASSUME IInv, StartCheck PROVE IInv'
<1>1. PICK child \in Spawned : ssh' = [ssh EXCEPT ![1] = child]
  BY DEF StartCheck
<1>2. child \in SshProcess
  BY SpawnedType
<1>3. attempt = 1 /\ ~signalled /\ 1 \in Attempts
  BY AttemptsAreNumbers DEF IInv, OthersAreOver, StartCheck
<1>4. Becomes(1, child)
  BY <1>1, <1>3 DEF Becomes, StartCheck
<1>5. QED BY <1>2, <1>3, <1>4, Changed

LEMMA StartForwardStep ==
  ASSUME IInv, StartForward PROVE IInv'
<1>1. PICK child \in Spawned :
         ssh' = [ssh EXCEPT ![attempt] = IF signalled THEN Cancelled(child) ELSE child]
  BY DEF StartForward
<1> DEFINE r == IF signalled THEN Cancelled(child) ELSE child
<1>2. r \in SshProcess /\ (signalled /\ r.life = "alive" => r.signal # "none")
  BY SpawnedType, CancelledType
<1>3. /\ attempt \in Attempts /\ UNCHANGED <<attempt, signalled>>
      /\ at' \in {"ssh", "probe", "teardown"}
      /\ ssh' = [ssh EXCEPT ![attempt] = r]
  BY <1>1 DEF IInv, TypeOK, StartForward
<1> HIDE DEF r
<1>4. Becomes(attempt, r)
  BY <1>2, <1>3 DEF Becomes
<1>5. QED BY <1>2, <1>3, <1>4, Changed

\* The handler, a timer or a signal cancels the ssh of the attempt.
LEMMA CancelStep ==
  ASSUME IInv, ssh' = [ssh EXCEPT ![attempt] = Cancelled(@)],
         UNCHANGED attempt, UNCHANGED at \/ at' = "teardown",
         UNCHANGED signalled \/ at # "profile"
  PROVE  IInv'
<1> DEFINE r == Cancelled(ssh[attempt])
<1>1. attempt \in Attempts /\ ssh[attempt] \in SshProcess
  BY DEF IInv, TypeOK
<1>2. /\ r \in SshProcess /\ r.life = ssh[attempt].life
      /\ r.life = "alive" => r.signal # "none"
  BY <1>1, CancelledType
<1>3. ssh' = [ssh EXCEPT ![attempt] = r]
  OBVIOUS
<1> HIDE DEF r
<1>4. signalled' /\ r.life = "alive" => r.signal # "none"
  BY <1>2
<1>5. Becomes(attempt, r)
  BY <1>2, <1>3, <1>4 DEF Becomes
<1>6. QED BY <1>1, <1>2, <1>5, Changed

LEMMA TearDownStep ==
  ASSUME IInv, NEW reason, TearDown(reason) PROVE IInv'
BY CancelStep DEF TearDown

LEMMA KillTimerStep ==
  ASSUME IInv, NEW i \in Attempts, KillTimerFires(i) PROVE IInv'
<1> DEFINE sent == IF Alive(i) THEN "KILL" ELSE ssh[i].signal
           timers == ssh[i].killTimers - 1
           r == [ssh[i] EXCEPT !.killTimers = timers, !.signal = sent]
<1>1. ssh[i] \in SshProcess
  BY DEF IInv, TypeOK
<1>2. ssh[i].killTimers \in Nat /\ ssh[i].killTimers > 0 /\ ssh[i].signal \in {"none", "TERM", "KILL"}
  BY <1>1 DEF SshProcess, KillTimerFires
<1>3. timers \in Nat /\ sent \in {"none", "TERM", "KILL"}
  BY <1>2
<1>4. ssh' = [ssh EXCEPT ![i] = r] /\ UNCHANGED <<at, attempt, signalled>>
  BY DEF KillTimerFires
<1>5. ssh[i].life = "alive" => sent = "KILL"
  BY DEF Alive
<1> HIDE DEF sent, timers
<1>6. r \in SshProcess /\ r.life = ssh[i].life /\ r.signal = sent
  BY <1>1, <1>3 DEF SshProcess
<1> HIDE DEF r
<1>7. signalled' /\ r.life = "alive" => r.signal # "none"
  BY <1>5, <1>6
<1>8. Becomes(i, r)
  BY <1>4, <1>6, <1>7 DEF Becomes
<1>9. QED BY <1>6, <1>8, Changed

LEMMA ExitStep ==
  ASSUME IInv, NEW i \in Attempts,
         NEW exit \in {"zero", "nonzero", "signal"},
         NEW stderr \in {"none", "guidance", "port taken"}, SshExits(i, exit, stderr)
  PROVE  IInv'
<1> DEFINE said == IF ssh[i].stderr = "none" THEN stderr ELSE ssh[i].stderr
           r == [ssh[i] EXCEPT !.life = "exited", !.exit = exit, !.stderr = said]
<1>1. ssh[i] \in SshProcess /\ ssh[i].life = "alive"
  BY DEF IInv, TypeOK, SshExits, Alive
<1>2. said \in {"none", "guidance", "port taken"}
  BY <1>1 DEF SshProcess
<1>3. ssh' = [ssh EXCEPT ![i] = r] /\ UNCHANGED <<at, attempt, signalled>>
  BY DEF SshExits
<1> HIDE DEF said
<1>4. r \in SshProcess /\ r.life = "exited"
  BY <1>1, <1>2 DEF SshProcess
<1> HIDE DEF r
<1>5. Becomes(i, r)
  BY <1>1, <1>3, <1>4 DEF Becomes
<1>6. QED BY <1>4, <1>5, Changed

LEMMA CloseStep ==
  ASSUME IInv, NEW i \in Attempts, SshCloses(i) PROVE IInv'
<1> DEFINE r == [ssh[i] EXCEPT !.life = "closed", !.killTimers = 0]
<1>1. ssh[i] \in SshProcess
  BY DEF IInv, TypeOK
<1>2. ssh' = [ssh EXCEPT ![i] = r] /\ UNCHANGED <<at, attempt, signalled>>
  BY DEF SshCloses
<1>3. r \in SshProcess /\ r.life = "closed"
  BY <1>1 DEF SshProcess
<1> HIDE DEF r
<1>4. Becomes(i, r)
  BY <1>2, <1>3 DEF Becomes
<1>5. QED BY <1>3, <1>4, Changed

-------------------------------------------------------------------------------
(* The theorems.                                                           *)

LEMMA InitSound == Init => IInv
<1> SUFFICES ASSUME Init PROVE IInv
  OBVIOUS
<1>1. NoSsh \in SshProcess /\ NoSsh.life = "none"
  BY DEF NoSsh, SshProcess
<1>2. TypeOK
  BY <1>1, AttemptsAreNumbers DEF Init, TypeOK
<1>3. OthersAreOver
  BY <1>1 DEF Init, OthersAreOver
<1>4. SignalReachesSsh
  BY DEF Init, SignalReachesSsh
<1>5. QED BY <1>2, <1>3, <1>4 DEF IInv

LEMMA StepSound == IInv /\ [Next]_vars => IInv'
<1> SUFFICES ASSUME IInv, [Next]_vars PROVE IInv'
  OBVIOUS
<1>1. CASE UNCHANGED vars
  BY <1>1 DEF vars, IInv, TypeOK, OthersAreOver, SignalReachesSsh, Alive
<1>2. CASE Handler
  BY <1>2, ProfileStep, StartCheckStep, ClosedStep, ReserveStep, StartForwardStep,
     TearDownStep DEF Handler, Terminated
<1>3. CASE Timers
  <2>1. CASE CheckTimesOut
    BY <2>1, CancelStep DEF CheckTimesOut
  <2>2. CASE StartupDeadline
    BY <2>2, WaitingStep
  <2>3. CASE PauseEnds
    BY <2>3, TearDownStep, WaitingStep DEF PauseEnds
  <2>4. ASSUME NEW i \in Attempts, KillTimerFires(i) PROVE IInv'
    BY <2>4, KillTimerStep
  <2>5. QED BY <1>3, <2>1, <2>2, <2>3, <2>4 DEF Timers
<1>4. CASE Probe
  BY <1>4, WaitingStep, TearDownStep DEF Probe, ProbeFails, RemoteRefuses
<1>5. ASSUME NEW i \in Attempts,
             \/ \E e \in Exits : SshExits(i, e[1], e[2])
             \/ SshCloses(i) \/ SshBinds(i) \/ SshCannotBind(i)
      PROVE  IInv'
  <2>1. CASE \E e \in Exits : SshExits(i, e[1], e[2])
    <3>1. \/ SshExits(i, "zero", "none") \/ SshExits(i, "nonzero", "none")
          \/ SshExits(i, "nonzero", "guidance") \/ SshExits(i, "signal", "none")
      <4>1. PICK e \in Exits : SshExits(i, e[1], e[2])
        BY <2>1
      <4>2. CASE e = <<"zero", "none">>
        BY <4>1, <4>2
      <4>3. CASE e = <<"nonzero", "none">>
        BY <4>1, <4>3
      <4>4. CASE e = <<"nonzero", "guidance">>
        BY <4>1, <4>4
      <4>5. CASE e = <<"signal", "none">>
        BY <4>1, <4>5
      <4>6. QED BY <4>1, <4>2, <4>3, <4>4, <4>5 DEF Exits
    <3>2. QED BY <3>1, ExitStep
  <2>2. CASE SshCloses(i)
    BY <2>2, CloseStep
  <2>3. CASE SshBinds(i)
    BY <2>3 DEF SshBinds, IInv, TypeOK, OthersAreOver, SignalReachesSsh, Alive
  <2>4. CASE SshCannotBind(i)
    BY <2>4, ExitStep DEF SshCannotBind
  <2>5. QED BY <1>5, <2>1, <2>2, <2>3, <2>4
<1>6. CASE OtherTakesPort
  BY <1>6 DEF OtherTakesPort, IInv, TypeOK, OthersAreOver, SignalReachesSsh, Alive
<1>7. CASE Signal
  BY <1>7, CancelStep DEF Signal
<1>8. CASE Killed
  BY <1>8, WaitingStep
<1>9. QED BY <1>1, <1>2, <1>3, <1>4, <1>5, <1>6, <1>7, <1>8 DEF Next, Ssh

\* The inductive invariant holds in every reachable state.
THEOREM CommandInvariant == Spec => []IInv
BY InitSound, StepSound, PTL DEF Spec

\* Whatever ssh does and whenever a signal comes, an ssh that lives after the
\* first signal has been asked to end.
THEOREM SignalsReachSsh == Spec => []SignalReachesSsh
<1>1. IInv => SignalReachesSsh
  BY DEF IInv
<1>2. QED BY CommandInvariant, <1>1, PTL

\* A subcommand that is over has no ssh, and a forward never has two, for any
\* number of attempts.
THEOREM NoSshIsLeftBehind == Spec => []NoSshLeftBehind
<1> DEFINE Living == {i \in Attempts : ssh[i].life \in {"alive", "exited"}}
<1>1. IInv => NoSshLeftBehind
  <2> SUFFICES ASSUME IInv PROVE NoSshLeftBehind
    OBVIOUS
  <2>1. at \in Ended \cup {"reserve"} => Living = {}
    BY DEF IInv, OthersAreOver
  <2>2. Living \subseteq {attempt}
    BY DEF IInv, OthersAreOver
  <2>3. IsFiniteSet({attempt}) /\ Cardinality({attempt}) = 1
    BY FS_Singleton
  <2>4. Cardinality(Living) <= 1
    BY <2>2, <2>3, FS_Subset
  <2>5. QED BY <2>1, <2>4 DEF NoSshLeftBehind
<1>2. QED BY CommandInvariant, <1>1, PTL
===============================================================================
