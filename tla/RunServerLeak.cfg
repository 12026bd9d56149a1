SPECIFICATION Spec
CONSTANTS
    CaseIds <- Cases
    FailureCodes <- Codes
    NoResult = NoResult
    MaxEventsPerRun = 1
    AbortListeners = {TRUE}
    MaxRuns = 1
    Workload <- OneCase
    MaxPosts = 1
    MaxWriteFailures = 1
INVARIANTS
    NoEngineOutlivesItsRun
CHECK_DEADLOCK FALSE
