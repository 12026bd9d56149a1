SPECIFICATION FairSpec
CONSTANTS
    AUTO_LOCAL_PORT_ATTEMPTS = 3
INVARIANTS
    NoSshLeftBehind
    SignalReachesSsh
PROPERTIES
    EverySubcommandSettles
CHECK_DEADLOCK FALSE
