------------------------------ MODULE AuthLimiter ------------------------------
(***************************************************************************)
(* basicAuthMiddleware and its AuthFailureLimiter                          *)
(* (src/server/middleware/basic-auth.ts).  The middleware does all it does *)
(* to the limiter before its only await, so that a request is one step.    *)
(*                                                                         *)
(* The Map of failure records is a sequence in the Map's iteration order,  *)
(* to which eviction looks: set of a key that is there keeps its place,    *)
(* delete and set moves it to the end.                                     *)
(*                                                                         *)
(* Abstracted: the credentials, right or wrong; a client is its key, with  *)
(* proxies not trusted the same for all (one client); updatedAt, which     *)
(* nothing reads.  A preflight request does not reach the limiter.         *)
(***************************************************************************)
EXTENDS Integers, MapEntries

CONSTANTS
    Clients,            \* the client keys
    MaxFailures,        \* AUTH_MAX_FAILURES
    WindowMs,           \* AUTH_WINDOW_MS
    MaxTrackedClients,  \* AUTH_MAX_TRACKED_CLIENTS
    CleanupInterval,    \* AUTH_CLEANUP_INTERVAL
    AuthMaxClock        \* bound: the last instant of the clock

ASSUME AuthLimiterAssumption ==
    /\ MaxFailures \in Nat
    /\ WindowMs \in Nat \ {0}
    /\ MaxTrackedClients \in Nat \ {0}
    /\ CleanupInterval \in Nat \ {0}
    /\ AuthMaxClock \in Nat

VARIABLES
    limiter,    \* records and operationCounter (modulo the interval)
    clock,      \* Date.now()
    answer,     \* of the last request
    attempts    \* history variable: when a client's last failures were recorded

authVars == <<limiter, clock, answer, attempts>>

AuthFailureRecord == [client : Clients, failures : Nat, windowEndsAt : Nat]

-------------------------------------------------------------------------------
(* The methods of AuthFailureLimiter.                                      *)

Expired(record, now) == now >= record.windowEndsAt

PruneExpired(records, now) ==
    KeepOnly(records, {e \in AuthFailureRecord : ~ Expired(e, now)})

\* The places of the record of client c: one or none.
PlacesOf(records, c) == {i \in DOMAIN records : records[i].client = c}

Without(records, c) ==
    KeepOnly(records, {e \in AuthFailureRecord : e.client # c})

MaybeCleanup(l, now) ==
    LET operations == (l.operations + 1) % CleanupInterval
    IN  [records |-> IF operations = 0 THEN PruneExpired(l.records, now)
                                       ELSE l.records,
         operations |-> operations]

TouchRecord(records, record, now) ==
    Append(Without(records, record.client), record)

\* isBlocked's answer, and the limiter after it.
IsBlocked(l, c, now) ==
    LET cleaned == MaybeCleanup(l, now)
        records == cleaned.records
    IN  IF PlacesOf(records, c) = {}
        THEN [limiter |-> cleaned, blocked |-> FALSE]
        ELSE LET record == records[CHOOSE i \in PlacesOf(records, c) : TRUE]
             IN  IF Expired(record, now)
                 THEN [limiter |-> [cleaned EXCEPT !.records = Without(@, c)],
                       blocked |-> FALSE]
                 ELSE [limiter |-> [cleaned EXCEPT !.records =
                                        TouchRecord(@, record, now)],
                       blocked |-> record.failures > MaxFailures]

\* Mutant of EnsureCapacity: room is made without a look for expired records.
EnsureCapacityUnpruned(records, c, now) ==
    IF PlacesOf(records, c) # {} \/ Len(records) < MaxTrackedClients
    THEN records
    ELSE SubSeq(records, Len(records) - MaxTrackedClients + 2, Len(records))

\* The loop deletes from the front until there is room for one more.
EnsureCapacity(records, c, now) ==
    IF PlacesOf(records, c) # {} \/ Len(records) < MaxTrackedClients
    THEN records
    ELSE LET kept    == PruneExpired(records, now)
             surplus == Len(kept) - MaxTrackedClients + 1
         IN  IF surplus <= 0 THEN kept ELSE SubSeq(kept, surplus + 1, Len(kept))

RecordFailure(l, c, now) ==
    LET cleaned == MaybeCleanup(l, now)
        live    == {i \in PlacesOf(cleaned.records, c) :
                        ~ Expired(cleaned.records[i], now)}
        first   == [client |-> c, failures |-> 1,
                    windowEndsAt |-> now + WindowMs]
        roomy   == EnsureCapacity(cleaned.records, c, now)
    IN  [cleaned EXCEPT !.records =
            IF live # {}
            THEN LET record == @[CHOOSE i \in live : TRUE]
                 IN  TouchRecord(@, [record EXCEPT !.failures = @ + 1], now)
            ELSE IF PlacesOf(roomy, c) = {}
            THEN Append(roomy, first)
            ELSE [roomy EXCEPT ![CHOOSE i \in PlacesOf(roomy, c) : TRUE] = first]]

\* Mutant of Clear: a success forgets nothing.
ClearNothing(l, c) == l

Clear(l, c) == [l EXCEPT !.records = Without(@, c)]

-------------------------------------------------------------------------------
AuthInit ==
    /\ limiter = [records |-> <<>>, operations |-> 0]
    /\ clock = 0
    /\ answer = "none"
    /\ attempts = [c \in Clients |-> <<>>]

AuthTick ==
    /\ clock < AuthMaxClock
    /\ clock' = clock + 1
    /\ UNCHANGED <<limiter, answer, attempts>>

\* A request of a client that is blocked.
RefuseBlocked(c) ==
    LET seen == IsBlocked(limiter, c, clock)
    IN  /\ seen.blocked
        /\ limiter' = seen.limiter
        /\ answer' = "rateLimited"
        /\ UNCHANGED <<clock, attempts>>

\* A request with no credentials, or with wrong ones.
Unauthorized(c) ==
    LET seen   == IsBlocked(limiter, c, clock)
        failed == IsBlocked(RecordFailure(seen.limiter, c, clock), c, clock)
        recent == Append(attempts[c], clock)
    IN  /\ ~ seen.blocked
        /\ limiter' = failed.limiter
        /\ answer' = IF failed.blocked THEN "rateLimited" ELSE "unauthorized"
        /\ attempts' = [attempts EXCEPT ![c] =
                            IF Len(recent) > MaxFailures + 1
                            THEN Tail(recent) ELSE recent]
        /\ UNCHANGED clock

\* A request with the right credentials goes on to its route.
Authorized(c) ==
    LET seen == IsBlocked(limiter, c, clock)
    IN  /\ ~ seen.blocked
        /\ limiter' = Clear(seen.limiter, c)
        /\ answer' = "ok"
        /\ attempts' = [attempts EXCEPT ![c] = <<>>]
        /\ UNCHANGED clock

AuthNext ==
    \/ AuthTick
    \/ \E c \in Clients : RefuseBlocked(c) \/ Unauthorized(c) \/ Authorized(c)

AuthSpec == AuthInit /\ [][AuthNext]_authVars

-------------------------------------------------------------------------------
(***************************************************************************)
(* Properties.                                                             *)
(***************************************************************************)

\* The record of a client that counts.
LiveRecords(c) ==
    {limiter.records[i] : i \in {j \in PlacesOf(limiter.records, c) :
                                    ~ Expired(limiter.records[j], clock)}}

\* A client is blocked only for cause: more than MaxFailures of its own
\* requests failed within the last WindowMs, with no success in between -
\* whatever was forgotten, cleaned up or evicted meanwhile.
BlockedOnlyForCause ==
    \A c \in Clients :
        (\E e \in LiveRecords(c) : e.failures > MaxFailures)
            => /\ Len(attempts[c]) = MaxFailures + 1
               /\ \A i \in DOMAIN attempts[c] :
                     attempts[c][i] > clock - WindowMs

\* Lazy expiry, the periodic cleanup and the eviction together give the
\* answers of AuthPromise, where windows vanish at their end: an expired
\* record never counts, never is kept in place of one in force, and eviction
\* takes the client not seen for the longest time.
Promise == INSTANCE AuthPromise
               WITH windows <- PruneExpired(limiter.records, clock)

KeepsThePromise == Promise!Spec

===============================================================================
