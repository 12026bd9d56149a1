SPECIFICATION Spec
CONSTANTS
    CaseIds <- OneCase
    FailureCodes <- OneCode
    NoResult = NoResult
    MaxEventsPerRun = 3
    MaxRuns = 3
    MaxOutcomes = 2
    MaxTotalCases = 1
    MaxClock = 2
    MaxTrackedRuns = 2
    RetentionMs = 2
INVARIANTS
    TypeOK
    ResultIsFinalSnapshot
    ProgressMatchesOutcomes
    LogEndsWithTheTruth
PROPERTIES
    EndedRunsNeverChange
    EvictionKeepsItsPromise
    ImplementsLifecycle
