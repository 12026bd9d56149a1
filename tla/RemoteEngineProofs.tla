-------------------------- MODULE RemoteEngineProofs --------------------------
(***************************************************************************)
(* Proofs about RemoteEngine, for any set of sessions, any set of remote   *)
(* ports and any number of start attempts.                                 *)
(***************************************************************************)
EXTENDS RemoteEngine, TLAPS

\* Where a session may hold a port: between two start attempts and after its
\* end it holds none, and while it looks for a server by port it does.  It holds
\* no other than the one its ssh was spawned with.
Holding(r) ==
    /\ r.port \in {NoPort, r.forward}
    /\ r.ssh = "alive" => r.forward # NoPort
    /\ r.at \in {"idle", "reserve", "failed", "ended"} => r.port = NoPort
    /\ r.at \in {"grace", "pgrep", "pkill -KILL"} => r.port # NoPort

\* An attempt begins only while there are attempts left.
Retrying(r) ==
    /\ r.at = "idle" => r.attempt = 0
    /\ r.at = "reserve" => r.attempt < Attempts

\* How far a stop has come: its outcome is open until the release, and one that
\* does not fail has seen the local ssh go, so that no server can be launched.
Stopping(r) ==
    /\ r.at \in {"idle", "reserve", "window", "up", "failed"} => r.stop = "none"
    /\ r.at \in StopPlaces => r.stop \in {"none", "again", "failing", "failing again"}
    /\ r.at = "ended" => r.stop \in {"completed", "failed", "failed again"}
    /\ r.at \in StopPlaces \ {"term", "kill"} /\ r.stop \in {"none", "again"}
          => r.ssh = "gone"
    /\ r.at = "ended" /\ r.stop = "completed" => r.ssh = "gone"

\* What an answered clean-up of a stop that does not fail has achieved.
CleanedUp(r, left) ==
    /\ \/ r.at = "release" /\ r.stop \in {"none", "again"}
       \/ r.at = "ended" /\ r.stop = "completed"
    /\ r.answered
    => left = {}

IInv == /\ TypeOK
        /\ PortsHaveOneHolder
        /\ \A s \in Sessions : /\ Holding(session[s])
                               /\ Retrying(session[s])
                               /\ Stopping(session[s])
                               /\ CleanedUp(session[s], Own(s))

-------------------------------------------------------------------------------
(* One session moves: what a step of it has to show.                       *)

\* The reservations follow the port of the session.
ReservedFollows(s, r) ==
    \/ r.port = session[s].port /\ reserved' = reserved
    \/ /\ session[s].port = NoPort /\ r.port \in Ports \ reserved
       /\ reserved' = reserved \cup {r.port}
    \/ r.port = NoPort /\ reserved' = reserved \ {session[s].port}

LEMMA Moved ==
  ASSUME IInv, NEW s \in Sessions, NEW r \in Session,
         session' = [session EXCEPT ![s] = r],
         ReservedFollows(s, r),
         servers' \subseteq Server, \A v \in servers' \ servers : v.by = s,
         Holding(r), Retrying(r), Stopping(r), CleanedUp(r, Own(s)')
  PROVE  IInv'
<1>1. /\ session \in [Sessions -> Session]
      /\ reserved \subseteq Ports
      /\ NoPort \notin Ports
  BY RemoteAssumption DEF IInv, TypeOK
<1>2. /\ session'[s] = r
      /\ \A t \in Sessions \ {s} : session'[t] = session[t]
      /\ session' \in [Sessions -> Session]
  BY <1>1
<1>3. \A t \in Sessions : session[t].port \in Ports \cup {NoPort}
  BY <1>1 DEF Session
<1>4. r.port \in Ports \cup {NoPort}
  BY DEF Session
<1>5. TypeOK'
  BY <1>1, <1>2, <1>3, <1>4 DEF TypeOK, ReservedFollows
<1>6. PortsHaveOneHolder'
  <2>1. /\ \A p \in reserved : \E t \in Sessions : session[t].port = p
        /\ \A t \in Sessions : session[t].port # NoPort => session[t].port \in reserved
        /\ NoPort \notin reserved
        /\ \A t, u \in Sessions :
              session[t].port = session[u].port /\ session[t].port # NoPort => t = u
    BY DEF IInv, PortsHaveOneHolder
  <2>2. /\ \A p \in reserved' : p # NoPort /\ \E t \in Sessions : session'[t].port = p
        /\ \A t \in Sessions : session'[t].port # NoPort => session'[t].port \in reserved'
    <3>1. CASE r.port = session[s].port /\ reserved' = reserved
      BY <1>2, <2>1, <3>1
    <3>2. CASE /\ session[s].port = NoPort /\ r.port \in Ports \ reserved
               /\ reserved' = reserved \cup {r.port}
      BY <1>1, <1>2, <2>1, <3>2
    <3>3. CASE r.port = NoPort /\ reserved' = reserved \ {session[s].port}
      BY <1>2, <2>1, <3>3
    <3>4. QED BY <3>1, <3>2, <3>3 DEF ReservedFollows
  <2>3. \A t, u \in Sessions :
           session'[t].port = session'[u].port /\ session'[t].port # NoPort => t = u
    BY <1>2, <2>1 DEF ReservedFollows
  <2>4. QED BY <2>2, <2>3 DEF PortsHaveOneHolder
<1>7. \A t \in Sessions : /\ Holding(session'[t]) /\ Retrying(session'[t])
                          /\ Stopping(session'[t])
  BY <1>2 DEF IInv
<1>8. ASSUME NEW t \in Sessions \ {s} PROVE CleanedUp(session'[t], Own(t)')
  <2>1. Own(t)' \subseteq Own(t)
    BY <1>2, <1>8 DEF Own, Matching
  <2>2. QED BY <1>2, <2>1 DEF IInv, CleanedUp
<1>9. \A t \in Sessions : CleanedUp(session'[t], Own(t)')
  BY <1>2, <1>8
<1>10. QED BY <1>5, <1>6, <1>7, <1>9 DEF IInv

-------------------------------------------------------------------------------
(* The steps of a start, one lemma per action.                             *)

LEMMA StartMoves ==
  ASSUME IInv, NEW s \in Sessions, Start(s) PROVE IInv'
<1> DEFINE r == [session[s] EXCEPT !.at = "reserve"]
<1>1. session[s] \in Session /\ servers \subseteq Server
  BY DEF IInv, TypeOK
<1>2. /\ r \in Session /\ ReservedFollows(s, r)
      /\ Holding(r) /\ Stopping(r) /\ CleanedUp(r, Own(s)')
  <2>1. r \in Session /\ ReservedFollows(s, r)
    BY <1>1 DEF Start, Session, StartPlaces, ReservedFollows
  <2>2. Holding(r)
    BY <1>1 DEF Start, At, Session, IInv, Holding
  <2>3. Stopping(r) /\ CleanedUp(r, Own(s)')
    BY <1>1 DEF Start, At, Session, StopPlaces, IInv, Stopping, CleanedUp
  <2>4. QED BY <2>1, <2>2, <2>3
<1>3. Retrying(r)
  <2>1. session[s].attempt = 0 /\ 0 < Attempts
    BY RemoteAssumption DEF Start, At, IInv, Retrying
  <2>2. r.attempt = session[s].attempt /\ r.at = "reserve"
    BY <1>1 DEF Session
  <2>3. QED BY <2>1, <2>2 DEF Retrying
<1>4. session' = [session EXCEPT ![s] = r] /\ servers' = servers
  BY DEF Start
<1>5. QED BY <1>1, <1>2, <1>3, <1>4, Moved

LEMMA SpawnAttemptMoves ==
  ASSUME IInv, NEW s \in Sessions, SpawnAttempt(s) PROVE IInv'
<1>1. session[s] \in Session /\ servers \subseteq Server
  BY DEF IInv, TypeOK
<1>2. PICK p \in Ports, vain \in SUBSET Ports :
          /\ ReserveUniqueRemoteSshPort(s, p, vain)
          /\ session' = [session EXCEPT
                ![s].at = "window", ![s].port = p, ![s].forward = p,
                ![s].tried = @ \cup {p} \cup vain, ![s].attempt = @ + 1,
                ![s].ssh = "alive", ![s].launched = FALSE, ![s].bind = FALSE]
  BY DEF SpawnAttempt
<1> DEFINE r == [session[s] EXCEPT !.at = "window", !.port = p, !.forward = p,
                     !.tried = @ \cup {p} \cup vain, !.attempt = @ + 1,
                     !.ssh = "alive", !.launched = FALSE, !.bind = FALSE]
<1>3. session[s].attempt + 1 \in 0 .. Attempts
  <2>1. session[s].attempt \in 0 .. Attempts
    BY <1>1 DEF Session
  <2>2. session[s].attempt < Attempts
    BY DEF SpawnAttempt, At, IInv, Retrying
  <2>3. QED BY <2>1, <2>2, RemoteAssumption
<1>4. r \in Session
  BY <1>1, <1>3 DEF Session, StartPlaces
<1>5. ReservedFollows(s, r)
  BY <1>1, <1>2 DEF SpawnAttempt, At, ReserveUniqueRemoteSshPort, Session,
                    ReservedFollows, IInv, Holding
<1>6. session[s].stop = "none"
  BY DEF SpawnAttempt, At, IInv, Stopping
<1>7. Holding(r) /\ Retrying(r) /\ Stopping(r) /\ CleanedUp(r, Own(s)')
  BY <1>1, <1>6, RemoteAssumption
     DEF Session, StopPlaces, Holding, Retrying, Stopping, CleanedUp
<1>8. session' = [session EXCEPT ![s] = r]
  BY <1>2, Zenon
<1>9. servers' = servers
  BY DEF SpawnAttempt
<1>10. QED BY <1>1, <1>4, <1>5, <1>7, <1>8, <1>9, Moved

LEMMA NoPortLeftMoves ==
  ASSUME IInv, NEW s \in Sessions, NoPortLeft(s) PROVE IInv'
<1> DEFINE r == [session[s] EXCEPT !.at = "failed"]
<1>1. session[s] \in Session /\ servers \subseteq Server
  BY DEF IInv, TypeOK
<1>2. r \in Session /\ ReservedFollows(s, r)
  BY <1>1 DEF NoPortLeft, At, Session, StartPlaces, StopPlaces, ReservedFollows
<1>3. Holding(r) /\ Retrying(r)
  BY <1>1 DEF NoPortLeft, At, Session, IInv, Holding, Retrying
<1>4. Stopping(r) /\ CleanedUp(r, Own(s)')
  BY <1>1 DEF NoPortLeft, At, Session, StopPlaces, IInv, Stopping, CleanedUp
<1>5. session' = [session EXCEPT ![s] = r] /\ servers' = servers
  BY DEF NoPortLeft
<1>6. QED BY <1>1, <1>2, <1>3, <1>4, <1>5, Moved

LEMMA AttemptSucceedsMoves ==
  ASSUME IInv, NEW s \in Sessions, AttemptSucceeds(s) PROVE IInv'
<1> DEFINE r == [session[s] EXCEPT !.at = "up"]
<1>1. session[s] \in Session /\ servers \subseteq Server
  BY DEF IInv, TypeOK
<1>2. r \in Session /\ ReservedFollows(s, r)
  BY <1>1 DEF AttemptSucceeds, At, Session, StartPlaces, StopPlaces, ReservedFollows
<1>3. Holding(r) /\ Retrying(r)
  BY <1>1 DEF AttemptSucceeds, At, Session, IInv, Holding, Retrying
<1>4. Stopping(r) /\ CleanedUp(r, Own(s)')
  BY <1>1 DEF AttemptSucceeds, At, Session, StopPlaces, IInv, Stopping, CleanedUp
<1>5. session' = [session EXCEPT ![s] = r] /\ servers' = servers
  BY DEF AttemptSucceeds
<1>6. QED BY <1>1, <1>2, <1>3, <1>4, <1>5, Moved

LEMMA AttemptFailsMoves ==
  ASSUME IInv, NEW s \in Sessions, AttemptFails(s) PROVE IInv'
<1> DEFINE r == [session[s] EXCEPT !.port = NoPort,
                     !.at = IF session[s].attempt < Attempts /\ session[s].bind
                            THEN "reserve" ELSE "failed"]
<1>1. session[s] \in Session /\ servers \subseteq Server
  BY DEF IInv, TypeOK
<1>2. r \in Session /\ ReservedFollows(s, r)
  BY <1>1 DEF AttemptFails, At, Session, StartPlaces, StopPlaces, ReservedFollows
<1>3. Holding(r) /\ Retrying(r)
  BY <1>1 DEF AttemptFails, At, Session, IInv, Holding, Retrying
<1>4. Stopping(r) /\ CleanedUp(r, Own(s)')
  BY <1>1 DEF AttemptFails, At, Session, StopPlaces, IInv, Stopping, CleanedUp
<1>5. session' = [session EXCEPT ![s] = r] /\ servers' = servers
  BY DEF AttemptFails
<1>6. QED BY <1>1, <1>2, <1>3, <1>4, <1>5, Moved

-------------------------------------------------------------------------------
(* The steps of a stop.                                                    *)

LEMMA StopRunStateMoves ==
  ASSUME IInv, NEW s \in Sessions, StopRunState(s) PROVE IInv'
<1> DEFINE r == [session[s] EXCEPT !.at = "term"]
<1>1. session[s] \in Session /\ servers \subseteq Server
  BY DEF IInv, TypeOK
<1>2. r \in Session /\ ReservedFollows(s, r)
  BY <1>1 DEF StopRunState, At, Session, StartPlaces, StopPlaces, ReservedFollows
<1>3. Holding(r) /\ Retrying(r)
  BY <1>1 DEF StopRunState, At, Session, IInv, Holding, Retrying
<1>4. Stopping(r) /\ CleanedUp(r, Own(s)')
  BY <1>1 DEF StopRunState, At, Session, StopPlaces, IInv, Stopping, CleanedUp
<1>5. session' = [session EXCEPT ![s] = r] /\ servers' = servers
  BY DEF StopRunState
<1>6. QED BY <1>1, <1>2, <1>3, <1>4, <1>5, Moved

LEMMA StopAgainMoves ==
  ASSUME IInv, NEW s \in Sessions, StopAgain(s) PROVE IInv'
<1> DEFINE r == [session[s] EXCEPT !.at = "term", !.stop = "again"]
<1>1. session[s] \in Session /\ servers \subseteq Server
  BY DEF IInv, TypeOK
<1>2. r \in Session /\ ReservedFollows(s, r)
  BY <1>1 DEF StopAgain, At, Session, StartPlaces, StopPlaces, ReservedFollows
<1>3. Holding(r) /\ Retrying(r)
  BY <1>1 DEF StopAgain, At, Session, IInv, Holding, Retrying
<1>4. Stopping(r) /\ CleanedUp(r, Own(s)')
  BY <1>1 DEF StopAgain, At, Session, StopPlaces, IInv, Stopping, CleanedUp
<1>5. session' = [session EXCEPT ![s] = r] /\ servers' = servers
  BY DEF StopAgain
<1>6. QED BY <1>1, <1>2, <1>3, <1>4, <1>5, Moved

\* The local process group goes, and at most servers of the session with it.
LEMMA LocalGoneMoves ==
  ASSUME IInv, NEW s \in Sessions, session[s].at \in {"term", "kill"},
         LocalGone(s, "pkill -TERM"), UNCHANGED reserved
  PROVE  IInv'
<1> DEFINE r == [session[s] EXCEPT !.at = "pkill -TERM", !.ssh = "gone"]
<1>1. session[s] \in Session /\ servers \subseteq Server
  BY DEF IInv, TypeOK
<1>2. r \in Session /\ ReservedFollows(s, r)
  BY <1>1 DEF Session, StopPlaces, ReservedFollows
<1>3. Holding(r) /\ Retrying(r)
  BY <1>1 DEF Session, IInv, Holding, Retrying
<1>4. Stopping(r) /\ CleanedUp(r, Own(s)')
  BY <1>1 DEF Session, StopPlaces, IInv, Stopping, CleanedUp
<1>5. session' = [session EXCEPT ![s] = r] /\ servers' \subseteq servers
  BY DEF LocalGone
<1>6. QED BY <1>1, <1>2, <1>3, <1>4, <1>5, Moved

LEMMA LocalStaysMoves ==
  ASSUME IInv, NEW s \in Sessions, session[s].at \in {"term", "kill"},
         LocalStays(s, "pkill -TERM"), UNCHANGED reserved
  PROVE  IInv'
<1> DEFINE stop == Failing(session[s].stop)
           r == [session[s] EXCEPT !.at = "pkill -TERM", !.stop = stop]
<1>1. session[s] \in Session /\ servers \subseteq Server
  BY DEF IInv, TypeOK
<1>2. session' = [session EXCEPT ![s] = r] /\ servers' = servers
  BY DEF LocalStays
<1>3. stop \in {"failing", "failing again"}
  BY DEF Failing
<1> HIDE DEF stop
<1>4. r \in Session /\ ReservedFollows(s, r)
  BY <1>1, <1>3 DEF Session, StopPlaces, ReservedFollows
<1>5. Holding(r) /\ Retrying(r)
  BY <1>1 DEF Session, IInv, Holding, Retrying
<1>6. Stopping(r) /\ CleanedUp(r, Own(s)')
  BY <1>1, <1>3 DEF Session, StopPlaces, Stopping, CleanedUp
<1>7. QED BY <1>1, <1>2, <1>4, <1>5, <1>6, Moved

LEMMA TerminateMoves ==
  ASSUME IInv, NEW s \in Sessions, Terminate(s) PROVE IInv'
<1>1. CASE LocalGone(s, "pkill -TERM")
  BY <1>1, LocalGoneMoves DEF Terminate, At
<1>2. CASE LocalStays(s, "pkill -TERM")
  BY <1>2, LocalStaysMoves DEF Terminate, At
<1>3. CASE session' = [session EXCEPT ![s].at = "kill"] /\ UNCHANGED servers
  <2> DEFINE r == [session[s] EXCEPT !.at = "kill"]
  <2>1. session[s] \in Session /\ servers \subseteq Server
    BY DEF IInv, TypeOK
  <2>2. r \in Session /\ ReservedFollows(s, r)
    BY <2>1 DEF Terminate, Session, StopPlaces, ReservedFollows
  <2>3. Holding(r) /\ Retrying(r)
    BY <2>1 DEF Session, IInv, Holding, Retrying
  <2>4. Stopping(r) /\ CleanedUp(r, Own(s)')
    BY <2>1 DEF Terminate, At, Session, StopPlaces, IInv, Stopping, CleanedUp
  <2>5. QED BY <1>3, <2>1, <2>2, <2>3, <2>4, Moved
<1>4. QED BY <1>1, <1>2, <1>3 DEF Terminate

LEMMA KillMoves ==
  ASSUME IInv, NEW s \in Sessions, Kill(s) PROVE IInv'
BY LocalGoneMoves, LocalStaysMoves DEF Kill, At

\* A clean-up command moves the session to another place, when it was not
\* answered to the release; servers can only die of it.
LEMMA CommandMoves ==
  ASSUME IInv, NEW s \in Sessions,
         session[s].at \in {"pkill -TERM", "grace", "pgrep", "pkill -KILL"},
         UNCHANGED reserved, servers' \subseteq servers,
         \/ Unanswered(s)
         \/ \E place \in {"grace", "pgrep", "pkill -KILL", "release"} :
                /\ Goes(s, place)
                /\ session[s].port # NoPort
                /\ place = "release" => \A v \in servers' : v.port # session[s].port
  PROVE  IInv'
<1>1. session[s] \in Session /\ servers \subseteq Server
  BY DEF IInv, TypeOK
<1>2. CASE Unanswered(s)
  <2> DEFINE r == [session[s] EXCEPT !.at = "release", !.answered = FALSE]
  <2>1. r \in Session /\ ReservedFollows(s, r)
    BY <1>1 DEF Session, StopPlaces, ReservedFollows
  <2>2. Holding(r) /\ Retrying(r)
    BY <1>1 DEF Session, IInv, Holding, Retrying
  <2>3. Stopping(r) /\ CleanedUp(r, Own(s)')
    BY <1>1 DEF Session, StopPlaces, IInv, Stopping, CleanedUp
  <2>4. session' = [session EXCEPT ![s] = r]
    BY <1>2 DEF Unanswered
  <2>5. QED BY <1>1, <2>1, <2>2, <2>3, <2>4, Moved
<1>3. ASSUME NEW place \in {"grace", "pgrep", "pkill -KILL", "release"},
             Goes(s, place), session[s].port # NoPort,
             place = "release" => \A v \in servers' : v.port # session[s].port
      PROVE  IInv'
  <2> DEFINE r == [session[s] EXCEPT !.at = place]
  <2>1. /\ r \in Session /\ ReservedFollows(s, r)
        /\ Holding(r) /\ Retrying(r) /\ Stopping(r)
    <3>1. r \in Session /\ ReservedFollows(s, r)
      BY <1>1 DEF Session, StopPlaces, ReservedFollows
    <3>2. Holding(r) /\ Retrying(r)
      BY <1>1, <1>3 DEF Session, IInv, Holding, Retrying
    <3>3. Stopping(r)
      BY <1>1 DEF Session, StopPlaces, IInv, Stopping
    <3>4. QED BY <3>1, <3>2, <3>3
  <2>2. session' = [session EXCEPT ![s] = r]
    BY <1>3 DEF Goes
  <2>3. session'[s].forward = session[s].forward
    BY <2>2 DEF IInv, TypeOK, Session
  <2>4. place = "release" => Own(s)' = {}
    BY <1>3, <2>3 DEF Own, Matching, IInv, Holding
  <2>5. CleanedUp(r, Own(s)')
    BY <1>1, <2>4 DEF CleanedUp, Session
  <2>6. QED BY <1>1, <2>1, <2>2, <2>5, Moved
<1>4. QED BY <1>2, <1>3

LEMMA PkillTermMoves ==
  ASSUME IInv, NEW s \in Sessions, PkillTerm(s) PROVE IInv'
<1>1. NoPort \notin Ports /\ \A v \in servers : v.port \in Ports
  BY RemoteAssumption DEF IInv, TypeOK, Server
<1>2. CASE /\ session[s].port # NoPort /\ Matching(session[s].port) = {}
           /\ Goes(s, "release") /\ UNCHANGED servers
  BY <1>2, CommandMoves DEF PkillTerm, At, Matching
<1>3. CASE /\ Matching(session[s].port) # {}
           /\ Goes(s, "grace")
           /\ servers' \subseteq servers
  BY <1>1, <1>3, CommandMoves DEF PkillTerm, At, Matching
<1>4. CASE Unanswered(s) /\ servers' \subseteq servers
  BY <1>4, CommandMoves DEF PkillTerm, At
<1>5. QED BY <1>2, <1>3, <1>4 DEF PkillTerm

LEMMA GracePassesMoves ==
  ASSUME IInv, NEW s \in Sessions, GracePasses(s) PROVE IInv'
BY CommandMoves DEF GracePasses, At, IInv, Holding

LEMMA PgrepMoves ==
  ASSUME IInv, NEW s \in Sessions, Pgrep(s) PROVE IInv'
<1>1. session[s].port # NoPort
  BY DEF Pgrep, At, IInv, Holding
<1>2. CASE Goes(s, "pkill -KILL")
  BY <1>1, <1>2, CommandMoves DEF Pgrep, At
<1>3. CASE Matching(session[s].port) = {} /\ Goes(s, "release")
  BY <1>1, <1>3, CommandMoves DEF Pgrep, At, Matching
<1>4. CASE Unanswered(s)
  BY <1>4, CommandMoves DEF Pgrep, At
<1>5. QED BY <1>2, <1>3, <1>4 DEF Pgrep

LEMMA PkillKillMoves ==
  ASSUME IInv, NEW s \in Sessions, PkillKill(s) PROVE IInv'
<1>1. session[s].port # NoPort
  BY DEF PkillKill, At, IInv, Holding
<1>2. CASE Goes(s, "release") /\ servers' = servers \ Matching(session[s].port)
  BY <1>1, <1>2, CommandMoves DEF PkillKill, At, Matching
<1>3. CASE Unanswered(s) /\ servers' \subseteq servers
  BY <1>3, CommandMoves DEF PkillKill, At
<1>4. QED BY <1>2, <1>3 DEF PkillKill

LEMMA ReleaseMoves ==
  ASSUME IInv, NEW s \in Sessions, ReleaseRemoteSshPort(s) PROVE IInv'
<1> DEFINE stop == StopOutcome(session[s].stop)
           r == [session[s] EXCEPT !.at = "ended", !.port = NoPort, !.stop = stop]
<1>1. session[s] \in Session /\ servers \subseteq Server
  BY DEF IInv, TypeOK
<1>2. session[s].stop \in {"none", "again", "failing", "failing again"}
  BY DEF IInv, Stopping, StopPlaces, ReleaseRemoteSshPort, At
<1>3. /\ stop \in {"completed", "failed", "failed again"}
      /\ stop = "completed" => session[s].stop \in {"none", "again"}
  BY <1>2 DEF StopOutcome
<1>4. session' = [session EXCEPT ![s] = r] /\ servers' = servers
  BY DEF ReleaseRemoteSshPort
<1> HIDE DEF stop
<1>5. /\ r \in Session /\ ReservedFollows(s, r)
      /\ Holding(r) /\ Retrying(r) /\ Stopping(r)
  BY ZenonT(60), <1>1, <1>3 DEF ReleaseRemoteSshPort, At, Session, StopPlaces, IInv, ReservedFollows,
                Holding, Retrying, Stopping, CleanedUp
<1>6. Own(s)' = Own(s)
  BY <1>1, <1>4 DEF Own, Matching, IInv, TypeOK, Session
<1>7. CleanedUp(r, Own(s)')
  BY <1>1, <1>3, <1>6 DEF ReleaseRemoteSshPort, At, IInv, CleanedUp, Session
<1>8. QED BY <1>1, <1>4, <1>5, <1>7, Moved

-------------------------------------------------------------------------------
(* The remote machine and the ssh processes.                               *)

LEMMA SshGoneMoves ==
  ASSUME IInv, NEW s \in Sessions, NEW bind \in BOOLEAN, SshGone(s, bind),
         servers' \subseteq servers, UNCHANGED reserved
  PROVE  IInv'
<1> DEFINE r == [session[s] EXCEPT !.ssh = "gone", !.bind = bind]
<1>1. session[s] \in Session /\ servers \subseteq Server
  BY DEF IInv, TypeOK
<1>2. r \in Session /\ ReservedFollows(s, r)
  BY <1>1 DEF Session, ReservedFollows
<1>3. Holding(r) /\ Retrying(r) /\ Stopping(r)
  BY ZenonT(60), <1>1 DEF Session, StopPlaces, IInv, Holding, Retrying, Stopping
<1>4. session' = [session EXCEPT ![s] = r]
  BY DEF SshGone
<1>5. Own(s)' \subseteq Own(s)
  BY <1>1, <1>4 DEF Own, Matching, IInv, TypeOK, Session
<1>6. CleanedUp(r, Own(s)')
  BY <1>1, <1>5 DEF IInv, CleanedUp, Session
<1>7. QED BY <1>1, <1>2, <1>3, <1>4, <1>6, Moved

LEMMA RemoteLaunchMoves ==
  ASSUME IInv, NEW s \in Sessions, RemoteLaunch(s) PROVE IInv'
<1>1. CASE SshGone(s, At(s, "window")) /\ UNCHANGED servers
  BY <1>1, SshGoneMoves DEF RemoteLaunch, At
<1>2. CASE /\ session' = [session EXCEPT ![s].launched = TRUE]
           /\ servers' = servers \cup {[by |-> s, port |-> session[s].forward]}
  <2> DEFINE r == [session[s] EXCEPT !.launched = TRUE]
  <2>1. session[s] \in Session /\ servers \subseteq Server
    BY DEF IInv, TypeOK
  <2>2. session[s].forward \in Ports
    BY <2>1 DEF RemoteLaunch, IInv, Holding, Session
  <2>3. /\ servers' \subseteq Server
        /\ \A v \in servers' \ servers : v.by = s
    BY <1>2, <2>1, <2>2 DEF Server
  <2>4. /\ r \in Session /\ ReservedFollows(s, r)
        /\ Holding(r) /\ Retrying(r)
    BY ZenonT(60), <2>1 DEF RemoteLaunch, Session, StopPlaces, IInv, ReservedFollows,
                Holding, Retrying, Stopping, CleanedUp
  <2>5. Stopping(r) /\ CleanedUp(r, Own(s)')
    BY <2>1 DEF RemoteLaunch, Session, StopPlaces, IInv, Stopping, CleanedUp
  <2>6. QED BY <1>2, <2>1, <2>3, <2>4, <2>5, Moved
<1>3. QED BY <1>1, <1>2 DEF RemoteLaunch

LEMMA SshDiesMoves ==
  ASSUME IInv, NEW s \in Sessions, SshDies(s) PROVE IInv'
BY SshGoneMoves DEF SshDies

LEMMA ServerExitsMoves ==
  ASSUME IInv, NEW v \in servers, ServerExits(v) PROVE IInv'
<1> DEFINE s == v.by
<1>1. s \in Sessions /\ session[s] \in Session /\ servers \subseteq Server
  BY DEF IInv, TypeOK, Server
<1>2. CASE SshGone(s, FALSE)
  BY <1>1, <1>2, SshGoneMoves DEF ServerExits
<1>3. CASE UNCHANGED session
  <2>1. ReservedFollows(s, session[s])
    BY DEF ServerExits, ReservedFollows
  <2>2. session' = [session EXCEPT ![s] = session[s]]
    BY <1>1, <1>3 DEF IInv, TypeOK
  <2>3. Own(s)' \subseteq Own(s) /\ servers' \subseteq servers
    BY <1>3 DEF ServerExits, Own, Matching
  <2>4. CleanedUp(session[s], Own(s)')
    BY <1>1, <2>3 DEF IInv, CleanedUp
  <2>5. Holding(session[s]) /\ Retrying(session[s]) /\ Stopping(session[s])
    BY <1>1 DEF IInv
  <2>6. QED BY <1>1, <2>1, <2>2, <2>3, <2>4, <2>5, Moved
<1>4. QED BY <1>2, <1>3 DEF ServerExits

-------------------------------------------------------------------------------
(* The theorems.                                                           *)

LEMMA InitSound == Init => IInv
<1> SUFFICES ASSUME Init PROVE IInv
  OBVIOUS
<1>1. NoSession \in Session
  BY RemoteAssumption DEF NoSession, Session
<1>2. TypeOK
  BY <1>1 DEF Init, TypeOK
<1>3. \A s \in Sessions : session[s] = NoSession
  BY DEF Init
<1>4. PortsHaveOneHolder
  BY <1>3 DEF Init, PortsHaveOneHolder, NoSession
<1>5. ASSUME NEW s \in Sessions
      PROVE  /\ Holding(session[s]) /\ Retrying(session[s])
             /\ Stopping(session[s]) /\ CleanedUp(session[s], Own(s))
  <2>1. Holding(NoSession) /\ Retrying(NoSession) /\ Stopping(NoSession)
    BY DEF NoSession, Holding, Retrying, Stopping, StopPlaces
  <2>2. CleanedUp(NoSession, Own(s))
    BY DEF NoSession, CleanedUp
  <2>3. QED BY <1>3, <2>1, <2>2
<1>6. QED BY <1>2, <1>4, <1>5 DEF IInv

LEMMA StepSound == IInv /\ [Next]_vars => IInv'
<1> SUFFICES ASSUME IInv, [Next]_vars PROVE IInv'
  OBVIOUS
<1>1. CASE UNCHANGED vars
  BY <1>1 DEF vars, IInv, TypeOK, PortsHaveOneHolder, Own, Matching
<1>2. ASSUME NEW s \in Sessions, RemoteLaunch(s) \/ SshDies(s) PROVE IInv'
  BY <1>2, RemoteLaunchMoves, SshDiesMoves
<1>3. ASSUME NEW s \in Sessions, Start(s) \/ StartStep(s) PROVE IInv'
  BY <1>3, StartMoves, SpawnAttemptMoves, NoPortLeftMoves, AttemptSucceedsMoves,
     AttemptFailsMoves DEF StartStep
<1>4. ASSUME NEW s \in Sessions, StopRunState(s) \/ UnexpectedExit(s) \/ StopAgain(s)
      PROVE  IInv'
  BY <1>4, StopRunStateMoves, StopAgainMoves DEF UnexpectedExit
<1>5. ASSUME NEW s \in Sessions, StopStep(s) PROVE IInv'
  BY <1>5, TerminateMoves, KillMoves, PkillTermMoves, GracePassesMoves, PgrepMoves,
     PkillKillMoves, ReleaseMoves DEF StopStep
<1>6. ASSUME NEW v \in servers, ServerExits(v) PROVE IInv'
  BY <1>6, ServerExitsMoves
<1>7. QED BY <1>1, <1>2, <1>3, <1>4, <1>5, <1>6 DEF Next

\* The reservations, the sessions and the servers stay in step for ever.
THEOREM RemoteInvariant == Spec => []IInv
BY InitSound, StepSound, PTL DEF Spec

\* However many sessions retry, fail and are stopped at the same time, a port is
\* reserved exactly while one of them owns it.
THEOREM PortsAreNotLeaked == Spec => []PortsHaveOneHolder
<1>1. IInv => PortsHaveOneHolder
  BY DEF IInv
<1>2. QED BY RemoteInvariant, <1>1, PTL

\* A stop that completed and was answered leaves no server of its run state.
THEOREM StopsCleanUp == Spec => []NoServerLeftBehind
<1>1. IInv => NoServerLeftBehind
  BY DEF IInv, NoServerLeftBehind, CleanedUp, At
<1>2. QED BY RemoteInvariant, <1>1, PTL

LEMMA SshGoneStays ==
  ASSUME session \in [Sessions -> Session], NEW s \in Sessions, NEW t \in Sessions,
         NEW bind, SshGone(t, bind)
  PROVE  session'[s].at = session[s].at
BY ZenonT(60) DEF SshGone, Session

\* A clean-up by port never ends the server of a session that owns its port.
THEOREM CleanupsSpareOthers == Spec => CleanupSparesOthers
<1> DEFINE Spares(s) ==
              /\ session[s].at \in {"pkill -TERM", "pkill -KILL"}
              /\ session'[s].at # session[s].at
              => \A v \in servers \ servers' :
                    v.by = s \/ session[v.by].port # v.port
<1>1. ASSUME IInv, [Next]_vars, NEW s \in Sessions PROVE Spares(s)
  <2> SUFFICES ASSUME session[s].at \in {"pkill -TERM", "pkill -KILL"},
                      session'[s].at # session[s].at,
                      NEW v \in servers \ servers', v.by # s
               PROVE  session[v.by].port # v.port
    OBVIOUS
  <2>1. /\ session \in [Sessions -> Session]
        /\ v.by \in Sessions /\ v.port \in Ports /\ NoPort \notin Ports
    BY <1>1, RemoteAssumption DEF IInv, TypeOK, Server
  <2>2. PkillTerm(s) \/ PkillKill(s)
    <3>1. ~ UNCHANGED vars
      BY DEF vars
    <3>2. ASSUME NEW t \in Sessions, RemoteLaunch(t) \/ SshDies(t) PROVE FALSE
      <4>1. CASE session' = [session EXCEPT ![t].launched = TRUE]
        BY <2>1, <4>1 DEF Session
      <4>2. CASE SshGone(t, At(t, "window")) \/ SshGone(t, FALSE)
        BY <2>1, <4>2, SshGoneStays
      <4>3. QED BY <3>2, <4>1, <4>2 DEF RemoteLaunch, SshDies
    <3>3. ASSUME NEW t \in Sessions, Start(t) \/ StartStep(t) PROVE FALSE
      BY <3>3 DEF Start, StartStep, SpawnAttempt, NoPortLeft, AttemptSucceeds, AttemptFails
    <3>4. ASSUME NEW t \in Sessions, StopRunState(t) \/ UnexpectedExit(t) \/ StopAgain(t)
          PROVE  FALSE
      BY <3>4 DEF UnexpectedExit, StopRunState, StopAgain
    <3>5. ASSUME NEW u \in servers, ServerExits(u) PROVE FALSE
      BY <2>1, <3>5, SshGoneStays DEF ServerExits, IInv, TypeOK, Server
    <3>6. ASSUME NEW t \in Sessions, StopStep(t) PROVE PkillTerm(s) \/ PkillKill(s)
      <4>1. CASE t = s
        BY <3>6, <4>1 DEF StopStep, At, Terminate, Kill, GracePasses, Pgrep,
                          ReleaseRemoteSshPort
      <4>2. CASE t # s
        BY <2>1, <3>6, <4>2
           DEF StopStep, Terminate, Kill, LocalGone, LocalStays, PkillTerm, GracePasses,
               Pgrep, PkillKill, Goes, Unanswered, ReleaseRemoteSshPort
      <4>3. QED BY <4>1, <4>2
    <3>7. QED BY <1>1, <3>1, <3>2, <3>3, <3>4, <3>5, <3>6 DEF Next
  <2>3. v.port = session[s].port
    BY <2>2 DEF PkillTerm, PkillKill, Matching
  <2>4. QED BY <1>1, <2>1, <2>3 DEF IInv, PortsHaveOneHolder
<1>2. IInv /\ [Next]_vars => [\A s \in Sessions : Spares(s)]_vars
  BY <1>1
<1>3. QED BY RemoteInvariant, <1>2, PTL DEF Spec, CleanupSparesOthers
===============================================================================
