SPECIFICATION FairSpec
CONSTANTS
    CaseIds <- Cases
    FailureCodes <- Codes
    NoResult = NoResult
    MaxEventsPerRun = 1
    AbortListeners = {TRUE, FALSE}
    Sweep <- FourCases
INVARIANTS
    EverySweepCaseAccountedFor
    GivesUpAfterThreeInARow
PROPERTIES
    NextEngineWaitsForTheLast
    NoSweepWorkAfterAbort
    EverySweepReturns
CHECK_DEADLOCK FALSE
