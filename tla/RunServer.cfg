SPECIFICATION Spec
CONSTANTS
    CaseIds <- Cases
    FailureCodes <- Codes
    NoResult = NoResult
    MaxEventsPerRun = 1
    AbortListeners = {TRUE}
    MaxRuns = 2
    Workload <- OneCase
    MaxPosts = 1
    MaxWriteFailures = 0
INVARIANTS
    CancelReachesTheOrchestration
    OnlyAnAbandonedStartOutlivesItsRun
PROPERTIES
    NoWorkAfterAbort
    ImplementsLifecycle
CHECK_DEADLOCK FALSE
