SPECIFICATION FairSpec
CONSTANTS
    Order <- TwoServers
    Tools = {"t"}
    QNames = {"t"}
    Qualified <- Shared
    NoRoute = NoRoute
    MaxPages = 1
    MaxJunk = 1
    MaxFaults = 1
INVARIANTS
    CleanPipe
    RetriesBounded
    ProcessesReaped
    RoutesCurrent
PROPERTIES
    HandshakeFirst
    OperationsEnd
