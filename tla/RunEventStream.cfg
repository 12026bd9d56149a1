SPECIFICATION StreamSpec
CONSTANTS
    CaseIds <- OneCase
    FailureCodes <- OneCode
    NoResult = NoResult
    MaxEventsPerRun = 2
    MaxRuns = 2
    MaxOutcomes = 0
    MaxTotalCases = 0
    MaxClock = 0
    MaxTrackedRuns = 1
    RetentionMs = 1
    Streams = {s1, s2}
SYMMETRY StreamSymmetry
INVARIANTS
    HeldExactlyWhileOpen
    OpenStreamsFollowActiveRuns
    NoEventLostOrRepeated
