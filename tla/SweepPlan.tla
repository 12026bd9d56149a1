------------------------------- MODULE SweepPlan -------------------------------
(***************************************************************************)
(* How POST /runs turns a sweep into cases: validateAndPlanSweepConfig     *)
(* (src/server/runs/sweep-validation) counts them without building them,   *)
(* the engine plugin validates and may rewrite the base arguments, then    *)
(* expandSweepCases (src/server/runs/sweep-expansion.ts) builds them.      *)
(*                                                                         *)
(* The two walk the axes independently, the first in the order of the      *)
(* request, the second sorted, and a route between them relies on their    *)
(* agreement.  At the end the cases are executed and buildSweepRanking     *)
(* (runs/in-memory-run-store/results.ts) ranks what came out.              *)
(*                                                                         *)
(* Abstracted: keys are numbers, ordered as the code orders strings; an    *)
(* argument or a value is good or bad (reserved, denied, not JSON, over a  *)
(* budget); a case identity is the digest of the configuration and the     *)
(* repetition: cases that agree on both share it, as a value listed twice  *)
(* on an axis makes them, and its place among the digests is any.          *)
(***************************************************************************)
EXTENDS Integers, FiniteSets, SequencesExt

CONSTANTS
    MaxSweepCases,      \* MAX_SWEEP_CASES
    MaxServerArgs,      \* MAX_SERVER_ARGS
    BadTokens,          \* reserved and denied server flags
    BadKeys,            \* RESERVED_REQUEST_PARAM_KEYS
    BadValues,          \* values validateJsonOnlyValue or the budgets refuse
    BaseArgs,           \* base serverArgs the plugin may normalise to
    BaseParams,         \* base requestParams
    Sweeps,             \* the sweeps clients send, as the schema lets them pass
    Measurements,       \* what a case yields: output tokens and latency, or Failure
    Failure,            \* the case failed
    MaxRanked           \* sweeps of at most so many cases are executed

\* The axes of a namespace come from the entries of one object.
HaveKeys(axes) ==
    /\ axes \in Seq(ToSet(axes))
    /\ \A i \in DOMAIN axes : /\ axes[i].key \in Int
                             /\ axes[i].values \in Seq(ToSet(axes[i].values))
    /\ \A i, j \in DOMAIN axes : axes[i].key = axes[j].key => i = j

ASSUME SweepPlanAssumption ==
    /\ MaxSweepCases \in Nat \ {0}
    /\ MaxServerArgs \in Nat
    /\ BaseArgs \subseteq Seq(STRING)
    /\ \A s \in Sweeps :
          /\ s.repetitions \in Nat \ {0} /\ s.maxCases \in Nat \ {0}
          /\ HaveKeys(s.serverArgs) /\ HaveKeys(s.requestParams)
          /\ \A i \in DOMAIN s.serverArgs : s.serverArgs[i].values \in Seq(Seq(STRING))
    /\ \A m \in Measurements : m # Failure => m.tokens \in Nat /\ m.latencyMs \in Nat

VARIABLES
    sweep,      \* request.sweep
    base,       \* request.engine.serverArgs after the engine's validation
    planned,    \* plannedSweepCases
    cases,      \* sweepCases
    response,   \* of POST /runs so far
    outcomes,   \* caseOutcomes of the run
    ranking     \* of the sweep result

planVars == <<sweep, base, planned, cases, response, outcomes, ranking>>

Axes(s) == s.serverArgs \o s.requestParams

Lengths(s) == [i \in DOMAIN Axes(s) |-> Len(Axes(s)[i].values)]

-------------------------------------------------------------------------------
(* sweep-validation.                                                       *)

HasIssue(s) ==
    \/ \E i \in DOMAIN Lengths(s) : Lengths(s)[i] = 0
    \/ \E axis \in ToSet(s.serverArgs) : \E fragment \in ToSet(axis.values) :
          fragment = <<>> \/ \E token \in ToSet(fragment) : token \in BadTokens
    \/ \E axis \in ToSet(s.requestParams) :
          axis.key \in BadKeys \/ \E v \in ToSet(axis.values) : v \in BadValues

\* Mutant of ComputePlannedCases: an axis that just fits is refused.
ComputePlannedCasesStrict(lengths, repetitions, max) ==
    LET count[i \in 0 .. Len(lengths)] ==
            IF i = 0
            THEN IF repetitions > max THEN max + 1 ELSE repetitions
            ELSE IF count[i - 1] > max \/ lengths[i] >= max \div count[i - 1]
                 THEN max + 1
                 ELSE count[i - 1] * lengths[i]
    IN  count[Len(lengths)]

\* The product of the lengths and the repetitions, or max + 1 as soon as it is
\* known to be more than max: no multiplication leaves 0 .. max.
ComputePlannedCases(lengths, repetitions, max) ==
    LET count[i \in 0 .. Len(lengths)] ==
            IF i = 0
            THEN IF repetitions > max THEN max + 1 ELSE repetitions
            ELSE IF count[i - 1] > max \/ lengths[i] > max \div count[i - 1]
                 THEN max + 1
                 ELSE count[i - 1] * lengths[i]
    IN  count[Len(lengths)]

Smaller(m, n) == IF m < n THEN m ELSE n

PlanOf(s) ==
    ComputePlannedCases(Lengths(s), s.repetitions,
                        Smaller(s.maxCases, MaxSweepCases))

ValidateAndPlanSweepConfig(s) ==
    IF s.maxCases > MaxSweepCases THEN "VALIDATION_SWEEP_TOO_LARGE"
    ELSE IF Axes(s) = <<>> THEN "VALIDATION_SWEEP_EMPTY"
    ELSE IF HasIssue(s) THEN "VALIDATION_SWEEP_INVALID"
    ELSE IF PlanOf(s) > s.maxCases \/ PlanOf(s) > MaxSweepCases
    THEN "VALIDATION_SWEEP_TOO_LARGE"
    ELSE "ok"

Longest(fragments) == Max({0} \cup {Len(fragment) : fragment \in ToSet(fragments)})

ComputeMaxSweepAdditionalServerArgs(s) ==
    LET args[i \in 0 .. Len(s.serverArgs)] ==
            IF i = 0 THEN 0 ELSE args[i - 1] + Longest(s.serverArgs[i].values)
    IN  args[Len(s.serverArgs)]

-------------------------------------------------------------------------------
(* sweep-expansion.                                                        *)

\* Mutant of SortedAxes: the order of the request.
SortedAxesAsSent(axes) == axes

\* Object.keys(axes).sort(compareLexicographic).
SortedAxes(axes) ==
    CHOOSE sorted \in [DOMAIN axes -> ToSet(axes)] :
        \A i, j \in DOMAIN axes : i < j => sorted[i].key < sorted[j].key

\* walkAxes: the selections of values for the first i axes, the last of them
\* fastest, each as the walk comes to axis i + 1 with it.
WalkAxes(axes) ==
    LET walk[i \in 0 .. Len(axes)] ==
            IF i = 0
            THEN << <<>> >>
            ELSE FlattenSeq([k \in DOMAIN walk[i - 1] |->
                    [v \in DOMAIN axes[i].values |->
                        Append(walk[i - 1][k], axes[i].values[v])]])
    IN  walk[Len(axes)]

\* emitCasesForCurrentSelection for one repetition.
CaseOf(args, serverAxes, paramAxes, selection, repetition) ==
    LET n == Len(serverAxes)
        set(key) == {i \in DOMAIN paramAxes : paramAxes[i].key = key}
    IN  [engineArgs |-> args \o FlattenSeq(SubSeq(selection, 1, n)),
         requestParams |-> [key \in DOMAIN BaseParams \cup
                                    {axis.key : axis \in ToSet(paramAxes)} |->
                                IF set(key) = {}
                                THEN BaseParams[key]
                                ELSE selection[n + CHOOSE i \in set(key) : TRUE]],
         repetitionIndex |-> repetition - 1]

ExceedsCeiling(n) == n > MaxSweepCases

ExpandSweepCases(s, args) ==
    LET serverAxes == SortedAxes(s.serverArgs)
        paramAxes  == SortedAxes(s.requestParams)
        selections == WalkAxes(serverAxes \o paramAxes)
    IN  FlattenSeq([i \in DOMAIN selections |->
            [rep \in 1 .. s.repetitions |->
                CaseOf(args, serverAxes, paramAxes, selections[i], rep)]])

-------------------------------------------------------------------------------
(* buildSweepRanking.                                                      *)

\* estimateTokensPerSecond, in thousandths, to the nearest.
TokensPerSecond(tokens, latencyMs) ==
    IF tokens <= 0 \/ latencyMs <= 0
    THEN 0
    ELSE (2000000 * tokens + latencyMs) \div (2 * latencyMs)

\* What the run keeps of a case that was recorded, as far as the ranking
\* publishes it.
Outcome(caseId, measured) ==
    IF measured = Failure
    THEN [caseId |-> caseId, status |-> "failed"]
    ELSE [caseId |-> caseId, status |-> "completed",
          tokensPerSecond |->
              TokensPerSecond(measured.tokens, measured.latencyMs),
          latencyMs |-> measured.latencyMs]

Completed(outcome) == outcome.status = "completed"

\* Mutant of Before: among equally fast cases the identity alone decides.
BeforeBySpeed(a, b) ==
    \/ Completed(a) /\ ~Completed(b)
    \/ /\ Completed(a) /\ Completed(b)
       /\ \/ a.tokensPerSecond > b.tokensPerSecond
          \/ a.tokensPerSecond = b.tokensPerSecond /\ a.caseId < b.caseId
    \/ ~Completed(a) /\ ~Completed(b) /\ a.caseId < b.caseId

\* Mutant of Before: failed cases stay in the order they failed in.
BeforeAsFailed(a, b) ==
    \/ Completed(a) /\ ~Completed(b)
    \/ /\ Completed(a) /\ Completed(b)
       /\ \/ a.tokensPerSecond > b.tokensPerSecond
          \/ /\ a.tokensPerSecond = b.tokensPerSecond
             /\ \/ a.latencyMs < b.latencyMs
                \/ a.latencyMs = b.latencyMs /\ a.caseId < b.caseId

\* The two comparisons of the code in one: completed cases by speed, then
\* latency, then identity, before failed ones by identity.
Before(a, b) ==
    IF ~Completed(a) \/ ~Completed(b)
    THEN \/ Completed(a) /\ ~Completed(b)
         \/ ~Completed(a) /\ ~Completed(b) /\ a.caseId < b.caseId
    ELSE \/ a.tokensPerSecond > b.tokensPerSecond
         \/ /\ a.tokensPerSecond = b.tokensPerSecond
            /\ \/ a.latencyMs < b.latencyMs
               \/ a.latencyMs = b.latencyMs /\ a.caseId < b.caseId

\* Array.prototype.sort is stable: of two outcomes the comparison cannot tell
\* apart, the one recorded first stays first.
Precedes(caseOutcomes, p, q) ==
    \/ Before(caseOutcomes[p], caseOutcomes[q])
    \/ ~Before(caseOutcomes[q], caseOutcomes[p]) /\ p < q

\* The entries by rank: every outcome takes a rank of its own, tied or not.
BuildSweepRanking(caseOutcomes) ==
    LET order == CHOOSE f \in [DOMAIN caseOutcomes -> DOMAIN caseOutcomes] :
                    \A i, j \in DOMAIN caseOutcomes :
                        i < j => Precedes(caseOutcomes, f[i], f[j])
    IN  [rank \in DOMAIN caseOutcomes |-> caseOutcomes[order[rank]]]

-------------------------------------------------------------------------------
(* POST /runs, as far as the sweep is concerned.                           *)

PlanInit ==
    /\ sweep \in Sweeps
    /\ base = <<>>
    /\ planned = 0
    /\ cases = <<>>
    /\ response = "received"
    /\ outcomes = <<>>
    /\ ranking = <<>>

\* Up to the await of plugin.validateRunConfig, for a workload of one case.
Validate ==
    LET verdict == ValidateAndPlanSweepConfig(sweep)
    IN  /\ response = "received"
        /\ response' = IF verdict = "ok" THEN "planned" ELSE verdict
        /\ planned' = IF verdict = "ok" THEN PlanOf(sweep) ELSE planned
        /\ UNCHANGED <<sweep, base, cases, outcomes, ranking>>

\* The workload has more cases than one.
WorkloadNotSupported ==
    /\ response = "received"
    /\ ValidateAndPlanSweepConfig(sweep) = "ok"
    /\ planned' = PlanOf(sweep)
    /\ response' = "WORKLOAD_NOT_SUPPORTED"
    /\ UNCHANGED <<sweep, base, cases, outcomes, ranking>>

\* The engine refuses the run.
EngineRefuses ==
    /\ response = "planned"
    /\ response' = "VALIDATION_ENGINE"
    /\ UNCHANGED <<sweep, base, planned, cases, outcomes, ranking>>

\* The engine accepts with base arguments of its own; then the merged length,
\* the expansion, and the comparison of what was planned with what came out.
EngineAccepts(args) ==
    LET expanded == ExpandSweepCases(sweep, args)
    IN  /\ response = "planned"
        /\ base' = args
        /\ IF Len(args) + ComputeMaxSweepAdditionalServerArgs(sweep) > MaxServerArgs
           THEN response' = "MERGED_ARGS" /\ UNCHANGED cases
           ELSE IF ExceedsCeiling(Len(expanded))
           THEN response' = "CEILING" /\ UNCHANGED cases
           ELSE /\ cases' = expanded
                /\ response' = IF Len(expanded) = planned THEN "accepted"
                                                        ELSE "UNEXPECTED_NUMBER"
        /\ UNCHANGED <<sweep, planned, outcomes, ranking>>

\* The digest: equal for two cases exactly when the cases are.
Identities(expanded) ==
    {ids \in [DOMAIN expanded -> DOMAIN expanded] :
        \A i, j \in DOMAIN expanded :
            ids[i] = ids[j] <=> expanded[i] = expanded[j]}

\* The run executes n of its cases, in their order, and the result is built.
\* When the engine of the last of them could not be stopped (the finally of
\* executeSweepCase throws), that case, recorded already, is recorded as
\* failed with all that remain; otherwise the run has been cancelled, or all
\* its cases have been recorded.
Execute(n, stopFailed) ==
    LET number == IF stopFailed THEN Len(cases) + 1 ELSE n
    IN  /\ response = "accepted"
        /\ Len(cases) <= MaxRanked /\ n <= Len(cases)
        /\ stopFailed => n > 0
        /\ \E ids \in Identities(cases),
              measured \in [1 .. n -> Measurements \cup {Failure}] :
                outcomes' = [i \in 1 .. number |->
                                IF i <= n THEN Outcome(ids[i], measured[i])
                                          ELSE Outcome(ids[i - 1], Failure)]
        /\ ranking' = BuildSweepRanking(outcomes')
        /\ response' = "ranked"
        /\ UNCHANGED <<sweep, base, planned, cases>>

PlanNext ==
    \/ Validate
    \/ WorkloadNotSupported
    \/ EngineRefuses
    \/ \E args \in BaseArgs : EngineAccepts(args)
    \/ \E n \in 0 .. MaxRanked, stopFailed \in BOOLEAN : Execute(n, stopFailed)

PlanSpec == PlanInit /\ [][PlanNext]_planVars

-------------------------------------------------------------------------------
(***************************************************************************)
(* Properties.                                                             *)
(***************************************************************************)

\* The number of cases, with no bound on the way.
Times(lengths, repetitions) ==
    LET product[i \in 0 .. Len(lengths)] ==
            IF i = 0 THEN repetitions ELSE product[i - 1] * lengths[i]
    IN  product[Len(lengths)]

Product(s) == Times(Lengths(s), s.repetitions)

\* The bounded count is the true one and what was planned comes out: the plan
\* is the product of the axes and the repetitions, a sweep is refused as too
\* large exactly when that product is over the client's limit or the server's,
\* or the client's limit over the server's, and the two defensive answers after
\* the expansion, the ceiling and the unexpected number, are never given.  The
\* limit on the merged arguments is as tight: a sweep that passes has no case
\* over the limit, one that is refused for it would have had one.
ThePlanIsKept ==
    /\ response = "planned" => planned = Product(sweep)
    /\ response \in {"planned", "VALIDATION_SWEEP_TOO_LARGE"}
        => (response = "planned" <=> /\ Product(sweep) <= sweep.maxCases
                                   /\ sweep.maxCases <= MaxSweepCases)
    /\ response \notin {"CEILING", "UNEXPECTED_NUMBER"}
    /\ response = "accepted" => Len(cases) = planned
    /\ response \in {"accepted", "MERGED_ARGS"} =>
        ((response = "accepted") <=>
            \A c \in ToSet(ExpandSweepCases(sweep, base)) :
                Len(c.engineArgs) <= MaxServerArgs)

\* The digit that counts the values of axis i in case number k: the
\* repetitions turn fastest, then the axes from the last to the first.
Digit(axes, repetitions, k, i) ==
    LET faster == Times([j \in 1 .. Len(axes) - i |-> Len(axes[i + j].values)],
                        repetitions)
    IN  (((k - 1) \div faster) % Len(axes[i].values)) + 1

\* An axis of the sweep by the rank of its key.
Ranked(axes, rank) ==
    CHOOSE axis \in ToSet(axes) :
        Cardinality({a \in ToSet(axes) : a.key <= axis.key}) = rank

\* The order of the cases depends on the keys and the values alone, never on
\* the order in which the request lists its axes: case k is what an odometer
\* over the sorted axes shows, server arguments before request parameters.
CasesFollowTheOdometer ==
    response = "accepted" =>
        LET n      == Len(sweep.serverArgs)
            m      == Len(sweep.requestParams)
            axes   == [i \in 1 .. n + m |->
                          IF i <= n THEN Ranked(sweep.serverArgs, i)
                                    ELSE Ranked(sweep.requestParams, i - n)]
            shown(k, i) == axes[i].values[Digit(axes, sweep.repetitions, k, i)]
        IN  \A k \in DOMAIN cases :
                /\ cases[k].repetitionIndex = (k - 1) % sweep.repetitions
                /\ cases[k].engineArgs =
                      base \o FlattenSeq([i \in 1 .. n |-> shown(k, i)])
                /\ \A i \in n + 1 .. n + m :
                      cases[k].requestParams[axes[i].key] = shown(k, i)

\* agent-os/standards/runs/sweep-result-and-ranking.md, lines 25 to 30: every
\* recorded outcome has a rank of its own, repetitions are not aggregated, and
\* the ranks of an outcome and of those equal to it are the ones that follow
\* the outcomes better than it.  Without a tie, the rank is one more than the
\* number of the better.
RankingCountsTheBetter ==
    response = "ranked" =>
        /\ Len(ranking) = Len(outcomes)
        /\ \A rank \in DOMAIN ranking :
              LET r == ranking[rank]
                  isBetter(o) ==
                      IF ~Completed(r)
                      THEN Completed(o) \/ o.caseId < r.caseId
                      ELSE /\ Completed(o)
                           /\ IF o.tokensPerSecond # r.tokensPerSecond
                              THEN o.tokensPerSecond > r.tokensPerSecond
                              ELSE IF o.latencyMs # r.latencyMs
                              THEN o.latencyMs < r.latencyMs
                              ELSE o.caseId < r.caseId
                  better == {i \in DOMAIN outcomes : isBetter(outcomes[i])}
                  equal  == {i \in DOMAIN outcomes : outcomes[i] = r}
              IN  /\ Cardinality(better) < rank
                  /\ rank <= Cardinality(better) + Cardinality(equal)

\* The same outcomes in every order.
InAnyOrder(caseOutcomes) ==
    {[i \in DOMAIN caseOutcomes |-> caseOutcomes[f[i]]] :
        f \in {g \in [DOMAIN caseOutcomes -> DOMAIN caseOutcomes] :
                  IsInjective(g)}}

\* agent-os/standards/runs/sweep-result-and-ranking.md, line 23, and the comment
\* at results.ts:140 call the ranking deterministic: what is published depends
\* on what was recorded and not on the order it was recorded in, not even where
\* two cases share an identity or one case was recorded twice.
RankingIsDeterministic ==
    response = "ranked" =>
        \A seen \in InAnyOrder(outcomes) : BuildSweepRanking(seen) = ranking

\* What the standard promises of a ranking: it puts each outcome behind those
\* better than it, and it does not depend on the order of execution.
RankingKeepsItsPromise == RankingCountsTheBetter /\ RankingIsDeterministic

===============================================================================
