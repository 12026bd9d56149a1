SPECIFICATION FairSpec
CONSTANTS
    CaseIds <- Cases
    FailureCodes <- Codes
    NoResult = NoResult
    MaxEventsPerRun = 1
    AbortListeners = {TRUE, FALSE}
    MaxRuns = 1
    Workload <- TwoCases
    MaxPosts = 1
    MaxWriteFailures = 1
INVARIANTS
    PersistedOrFlagged
    EveryCaseAccountedFor
PROPERTIES
    EveryRunEnds
    EveryRequestIsAnswered
CHECK_DEADLOCK FALSE
