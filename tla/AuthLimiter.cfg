SPECIFICATION AuthSpec
CONSTANTS
    Clients <- ThreeClients
    MaxFailures = 1
    WindowMs = 2
    MaxTrackedClients = 2
    CleanupInterval = 3
    AuthMaxClock = 5
INVARIANTS
    BlockedOnlyForCause
PROPERTIES
    KeepsThePromise
