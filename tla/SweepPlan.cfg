SPECIFICATION PlanSpec
CONSTANTS
    MaxSweepCases = 6
    MaxServerArgs = 4
    BadTokens <- Denied
    BadKeys <- ReservedKeys
    BadValues <- NotJson
    BaseArgs <- SomeBaseArgs
    BaseParams <- SomeBaseParams
    Sweeps <- SmallSweeps
    None = None
    Failure = None
    Measurements <- SomeMeasurements
    MaxRanked = 3
INVARIANTS
    ThePlanIsKept
    CasesFollowTheOdometer
    RankingKeepsItsPromise
CHECK_DEADLOCK FALSE
