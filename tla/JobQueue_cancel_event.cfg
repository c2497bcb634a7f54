SPECIFICATION Spec
CONSTANTS
    Clients = {c1, c2}
    Workers = {w1}
    Keys = {k1}
    NoKey = NoKey
    MaxQueueSize = 1
    MaxConcurrent = 1
    Signals = {}
    MaxJobs = 1
    MaxBuffer = 1
    MaxLog = 1
    MaxFaults = 0
    MaxCrashes = 0
INVARIANTS
    NoContradictoryEvents
CHECK_DEADLOCK FALSE
