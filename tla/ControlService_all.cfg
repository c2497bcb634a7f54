SPECIFICATION FairSpec
CONSTANTS
    Clients = {c1, c2}
    KeysOf <- SharedKeys
    NoKey = NoKey
    MaxJobs = 2
    MaxQueueSize = 2
    QuotaCap = 1
    DrainRequests = {TRUE, FALSE}
    Signals = {"ctrl_c"}
    Disconnects = TRUE
    Watchers = {c1}
    MaxFaults = 1
INVARIANTS
    QuotaNotUndercounted
PROPERTIES
    ReservationUntilTerminal
    ShutdownCompletes
CHECK_DEADLOCK FALSE
