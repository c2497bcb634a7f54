SPECIFICATION Spec
CONSTANTS
    Clients = {c1, c2}
    KeysOf <- OneKey
    NoKey = NoKey
    MaxJobs = 1
    MaxQueueSize = 1
    QuotaCap = 2
    DrainRequests = {}
    Signals = {}
    Disconnects = FALSE
    Watchers = {}
    MaxFaults = 0
INVARIANTS
    QuotaReturned
CHECK_DEADLOCK FALSE
