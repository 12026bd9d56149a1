SPECIFICATION FairSpec
CONSTANTS
    Sessions = {s1, s2}
    Ports = {p1, p2}
    NoPort = NoPort
    Attempts = 2
INVARIANTS
    PortsHaveOneHolder
    NoServerLeftBehind
PROPERTIES
    CleanupSparesOthers
    EverySessionSettles
CHECK_DEADLOCK FALSE
