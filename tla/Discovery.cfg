SPECIFICATION FairSpec
CONSTANTS
    Validations = {v1, v2}
    r1 = r1
    r2 = r2
    Remotes <- TwoRemotes
    Local = Local
    Requests <- SomeRequests
    Binaries <- TwoBinaries
    Installed <- AllInstalled
    Unusable = Unusable
    Unread = Unread
    Unknown = Unknown
    Unneeded = Unneeded
    RemoteHelpCacheTtlMs = 1
    RemoteHelpCacheMaxEntries = 1
    ProbeMs = 1
    MaxClock = 6
    MaxChanges = 1
    MaxRequests = 3
INVARIANTS
    VerdictsRestOnFreshKnowledge
    OneProbeServesBoth
PROPERTIES
    EveryValidationIsAnswered
CHECK_DEADLOCK FALSE
