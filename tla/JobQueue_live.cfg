SPECIFICATION FairSpec
CONSTANTS
    Clients = {c1}
    Workers = {w1}
    Keys = {k1, k2}
    NoKey = NoKey
    MaxQueueSize = 2
    MaxConcurrent = 1
    Signals = {"drain", "undrain", "shutdown"}
    MaxJobs = 2
    MaxBuffer = 1
    MaxLog = 0
    MaxFaults = 0
    MaxCrashes = 0
PROPERTIES
    JobsEndAndTell
CHECK_DEADLOCK FALSE
