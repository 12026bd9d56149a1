------------------------------- MODULE Discovery -------------------------------
(***************************************************************************)
(* What llama.cpp learns about its binaries before a run is admitted:      *)
(* validateRunConfig of concurrent POST /runs, the mixed-GPU guard and the *)
(* strict flag check (engines/starter-engine/run-config-validation.ts,     *)
(* mixed-gpu-guard.ts), over the TTL cache of remote `--help` summaries    *)
(* with its discoveries in flight, and the promise of the local flags      *)
(* (dependencies.ts).                                                      *)
(*                                                                         *)
(* The continuations of a settled promise run before the event loop turns  *)
(* to anything else: while a validation is Runnable, no clock, no probe    *)
(* and no other machine moves.  A probe of a remote machine reads its help *)
(* text at one moment and answers later, within ProbeMs.  Each machine may *)
(* be given another llama-server at any time (MaxChanges).                 *)
(***************************************************************************)
EXTENDS MapEntries, FiniteSets, SequencesExt

CONSTANTS Validations,      \* POST /runs handlers at work at the same time
          Remotes,          \* cache keys of the SSH target profiles
          Local,            \* the target that needs no SSH
          Requests,         \* the requests clients send
          Binaries,         \* what a binary's help text tells, or Unusable
          Installed,        \* the binaries the machines may start with
          Unusable, Unread, Unknown, Unneeded,
          RemoteHelpCacheTtlMs, RemoteHelpCacheMaxEntries, ProbeMs,
          MaxClock, MaxChanges, MaxRequests

ASSUME DiscoveryAssumption ==
    /\ RemoteHelpCacheTtlMs \in Nat \ {0} /\ RemoteHelpCacheMaxEntries \in Nat \ {0}
    /\ ProbeMs \in Nat \ {0}
    /\ Requests # {} /\ \A q \in Requests : q.target \in Remotes \cup {Local}
    /\ Local \notin Remotes /\ Unusable \in Binaries
    /\ Unread # Unneeded /\ Unknown # Unneeded
    /\ {Unread, Unknown, Unneeded} \cap Binaries = {}
    /\ Installed \subseteq [Remotes \cup {Local} -> Binaries]

VARIABLES
    binary,         \* per machine the llama-server installed there
    changedAt,      \* history variable: per machine when that changed last
    cache,          \* remoteHelpSummaryCache, in insertion order
    probes,         \* remoteHelpSummaryDiscoveryInFlight
    localFlags,     \* cachedSupportedServerFlagsPromise
    validation,     \* per validation its request and its local variables
    now, requests, changes

vars == <<binary, changedAt, cache, probes, localFlags, validation, now, requests, changes>>

Machines == Remotes \cup {Local}

\* A discovery in flight: since when, and what it has read so far.
NoProbe == [since |-> 0, read |-> Unneeded]

Probing(r) == probes[r] # NoProbe

NoValidation == [at |-> "idle", request |-> CHOOSE q \in Requests : TRUE,
                 hints |-> Unneeded, flags |-> Unneeded, probed |-> 0,
                 verdict |-> "none"]

Init == /\ binary \in Installed
        /\ changedAt = [m \in Machines |-> 0]
        /\ cache = <<>>
        /\ probes = [r \in Remotes |-> NoProbe]
        /\ localFlags = Unneeded
        /\ validation = [v \in Validations |-> NoValidation]
        /\ now = RemoteHelpCacheTtlMs + 2 * ProbeMs
        /\ requests = 0
        /\ changes = 0

At(v, place) == validation[v].at = place
Request(v) == validation[v].request
Target(v) == Request(v).target

Runnable == \E v \in Validations : validation[v].at \in {"guard", "strict", "verdict"}

-------------------------------------------------------------------------------
(* discoverRemoteHelpSummaryWithCache.                                     *)

CacheEntry == [key : Remotes, value : Binaries, expiresAt : Nat]

\* Mutant of SweepExpiredCacheEntries: entries are only swept when one is added.
SweepNothing(c) == c

SweepExpiredCacheEntries(c) ==
    KeepOnly(c, {e \in CacheEntry : e.expiresAt > now})

\* Mutant of TrimCacheEntries: the newest entry makes way.
TrimNewest(c) ==
    IF Len(c) > RemoteHelpCacheMaxEntries
    THEN SubSeq(c, 1, RemoteHelpCacheMaxEntries) ELSE c

TrimCacheEntries(c) ==
    IF Len(c) > RemoteHelpCacheMaxEntries
    THEN SubSeq(c, Len(c) - RemoteHelpCacheMaxEntries + 1, Len(c)) ELSE c

\* The entries of key r that a reader finds.
Found(r) == {e \in ToSet(SweepExpiredCacheEntries(cache)) : e.key = r}

\* A fresh summary answers at once; otherwise the caller joins the discovery
\* in flight or starts one, and waits.
Discover(v, place, wait, field) ==
    LET r == Target(v)
        hit == Found(r)
    IN  /\ cache' = SweepExpiredCacheEntries(cache)
        /\ IF hit # {}
           THEN \E e \in hit :
                   /\ validation' = [validation EXCEPT ![v].at = place, ![v][field] = e.value]
                   /\ UNCHANGED probes
           ELSE IF Probing(r)
                THEN /\ validation' = [validation EXCEPT ![v].at = wait]
                     /\ UNCHANGED probes
                ELSE /\ validation' = [validation EXCEPT ![v].at = wait, ![v].probed = @ + 1]
                     /\ probes' = [probes EXCEPT ![r] = [since |-> now, read |-> Unread]]

\* What each waiting caller of machine m does with the answer.
Resumed(m, answer) ==
    [v \in Validations |->
        CASE At(v, "guard wait") /\ Target(v) = m ->
                [validation[v] EXCEPT !.at = "strict", !.hints = answer]
          [] At(v, "strict wait") /\ Target(v) = m ->
                [validation[v] EXCEPT !.at = "verdict", !.flags = answer]
          [] OTHER -> validation[v]]

\* The remote machine executes `llama-server --help`.
ProbeReads(r) ==
    /\ ~Runnable
    /\ probes[r].read = Unread
    /\ probes' = [probes EXCEPT ![r].read = binary[r]]
    /\ UNCHANGED <<binary, changedAt, cache, localFlags, validation, now, requests, changes>>

\* The summary is cached and the discovery forgotten before a caller resumes.
ProbeResolves(r) ==
    /\ ~Runnable
    /\ probes[r].read \in Binaries \ {Unusable}
    /\ cache' = TrimCacheEntries(Append(SweepExpiredCacheEntries(cache),
                    [key |-> r, value |-> probes[r].read,
                     expiresAt |-> now + RemoteHelpCacheTtlMs]))
    /\ probes' = [probes EXCEPT ![r] = NoProbe]
    /\ validation' = Resumed(r, probes[r].read)
    /\ UNCHANGED <<binary, changedAt, localFlags, now, requests, changes>>

\* Mutant of ProbeRejects: a failed discovery stays in the map.
ProbeRejectsAndStays(r) ==
    /\ ~Runnable
    /\ probes[r].read \in {Unread, Unusable}
    /\ probes' = [probes EXCEPT ![r].read = Unknown]
    /\ validation' = Resumed(r, Unknown)
    /\ UNCHANGED <<binary, changedAt, cache, localFlags, now, requests, changes>>

\* ssh failed or timed out, or the help text cannot be used: not cached, and
\* every caller that joined is told.
ProbeRejects(r) ==
    /\ ~Runnable
    /\ probes[r].read \in {Unread, Unusable}
    /\ probes' = [probes EXCEPT ![r] = NoProbe]
    /\ validation' = Resumed(r, Unknown)
    /\ UNCHANGED <<binary, changedAt, cache, localFlags, now, requests, changes>>

\* discoverSupportedServerFlagsWithCache: the promise is kept for good once it
\* has resolved, and dropped when it rejects.
LocalSettles ==
    /\ ~Runnable
    /\ localFlags = Unread
    /\ \/ /\ binary[Local] # Unusable
          /\ localFlags' = binary[Local]
          /\ validation' = Resumed(Local, binary[Local])
       \/ /\ localFlags' = Unneeded
          /\ validation' = Resumed(Local, Unknown)
    /\ UNCHANGED <<binary, changedAt, cache, probes, now, requests, changes>>

-------------------------------------------------------------------------------
(* validateRunConfig.                                                      *)

\* The profile and the model identifier have been looked up.
Ask(v, q) ==
    /\ ~Runnable
    /\ validation[v].at \in {"idle", "answered"} /\ requests < MaxRequests
    /\ validation' = [validation EXCEPT ![v] =
                        [NoValidation EXCEPT !.at = "guard", !.request = q]]
    /\ requests' = requests + 1
    /\ UNCHANGED <<binary, changedAt, cache, probes, localFlags, now, changes>>

\* enforceMixedGpuSafetyForSshTarget: not for a local target, an unknown
\* profile or arguments that select a GPU.
Guard(v) ==
    /\ At(v, "guard")
    /\ IF Target(v) = Local \/ ~Request(v).profileFound \/ Request(v).selectsGpu
       THEN /\ validation' = [validation EXCEPT ![v].at = "strict"]
            /\ UNCHANGED <<cache, probes>>
       ELSE Discover(v, "strict", "guard wait", "hints")
    /\ UNCHANGED <<binary, changedAt, localFlags, now, requests, changes>>

\* Without strict mode, or without a flag to look up, no flags are needed.
NoStrictCheck(v) ==
    /\ At(v, "strict")
    /\ Request(v).mode # "strict" \/ Request(v).candidates = {}
    /\ validation' = [validation EXCEPT ![v].at = "verdict"]
    /\ UNCHANGED <<binary, changedAt, cache, probes, localFlags, now, requests, changes>>

NeedsFlags(v) == /\ At(v, "strict")
                 /\ Request(v).mode = "strict" /\ Request(v).candidates # {}

StrictWithoutProfile(v) ==
    /\ NeedsFlags(v) /\ Target(v) # Local /\ ~Request(v).profileFound
    /\ validation' = [validation EXCEPT ![v].at = "verdict", ![v].flags = Unknown]
    /\ UNCHANGED <<binary, changedAt, cache, probes, localFlags, now, requests, changes>>

StrictRemote(v) ==
    /\ NeedsFlags(v) /\ Target(v) # Local /\ Request(v).profileFound
    /\ Discover(v, "verdict", "strict wait", "flags")
    /\ UNCHANGED <<binary, changedAt, localFlags, now, requests, changes>>

StrictLocal(v) ==
    /\ NeedsFlags(v) /\ Target(v) = Local
    /\ IF localFlags \in Binaries
       THEN /\ validation' = [validation EXCEPT ![v].at = "verdict", ![v].flags = localFlags]
            /\ UNCHANGED localFlags
       ELSE /\ validation' = [validation EXCEPT ![v].at = "strict wait"]
            /\ localFlags' = Unread
    /\ UNCHANGED <<binary, changedAt, cache, probes, now, requests, changes>>

\* The issues of a validation: refused arguments, an unknown profile, a guard
\* that saw two devices, a flag nobody reported, a discovery that failed.
Issues(v) ==
    LET q == Request(v)
        w == validation[v]
    IN  {i \in {"argument"} : q.refused}
        \cup {i \in {"profile"} : ~q.profileFound}
        \cup {i \in {"gpu selection"} : w.hints \in Binaries /\ w.hints.gpus >= 2}
        \cup {i \in {"unknown flag"} :
                 w.flags \in Binaries /\ ~(q.candidates \subseteq w.flags.flags)}
        \cup {i \in {"discovery failed"} : w.flags = Unknown}

Answer(v) ==
    /\ At(v, "verdict")
    /\ validation' = [validation EXCEPT
          ![v].at = "answered",
          ![v].verdict = IF Issues(v) = {} THEN "accepted" ELSE "refused"]
    /\ UNCHANGED <<binary, changedAt, cache, probes, localFlags, now, requests, changes>>

-------------------------------------------------------------------------------
\* Someone installs another llama-server, or breaks it.
Change(m, b) ==
    /\ ~Runnable
    /\ changes < MaxChanges /\ b # binary[m]
    /\ binary' = [binary EXCEPT ![m] = b]
    /\ changedAt' = [changedAt EXCEPT ![m] = now]
    /\ changes' = changes + 1
    /\ UNCHANGED <<cache, probes, localFlags, validation, now, requests>>

\* DEFAULT_SERVER_HELP_TIMEOUT_MS: no probe outlasts ProbeMs.
Tick ==
    /\ ~Runnable
    /\ now < MaxClock
    /\ \A r \in Remotes : Probing(r) => now - probes[r].since < ProbeMs
    /\ now' = now + 1
    /\ UNCHANGED <<binary, changedAt, cache, probes, localFlags, validation, requests, changes>>

Continue(v) == \/ Guard(v) \/ NoStrictCheck(v) \/ StrictWithoutProfile(v)
               \/ StrictRemote(v) \/ StrictLocal(v) \/ Answer(v)

Settle(r) == ProbeResolves(r) \/ ProbeRejects(r)

Next == \/ \E v \in Validations, q \in Requests : Ask(v, q)
        \/ \E v \in Validations : Continue(v)
        \/ \E r \in Remotes : ProbeReads(r) \/ Settle(r)
        \/ LocalSettles
        \/ \E m \in Machines, b \in Binaries : Change(m, b)
        \/ Tick

Spec == Init /\ [][Next]_vars

\* Continuations run, and ssh and the local process end: both have a timeout.
FairSpec == /\ Spec
            /\ \A v \in Validations : WF_vars(Continue(v))
            /\ \A r \in Remotes : WF_vars(Settle(r))
            /\ WF_vars(LocalSettles)

-------------------------------------------------------------------------------
(* Properties.                                                             *)

\* A verdict rests on what the machine says now, if its llama-server has not
\* changed for the lifetime of a summary and the time of a probe: the strict
\* check's flags and what the guard saw before it, whoever probed for them.
VerdictsRestOnFreshKnowledge ==
    \A v \in Validations :
        /\ At(v, "verdict") /\ Target(v) # Local
        /\ now >= changedAt[Target(v)] + RemoteHelpCacheTtlMs + ProbeMs
        => {validation[v].hints, validation[v].flags} \cap Binaries
                \subseteq {binary[Target(v)]}

\* agent-os/specs/2026-03-03-1200-tuning-workload-mvp/shape.md, line 20: "one
\* cold-path probe serves both" the guard and the strict check.  A validation
\* probes a second time only if its guard's discovery failed, whatever other
\* validations put into the cache or push out of it meanwhile.
OneProbeServesBoth ==
    \A v \in Validations : validation[v].probed > 1 => validation[v].hints = Unknown

\* A validation is answered, also when the discovery it joined fails.
EveryValidationIsAnswered ==
    \A v \in Validations : At(v, "guard") ~> At(v, "answered")
===============================================================================
