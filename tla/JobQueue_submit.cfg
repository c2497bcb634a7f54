SPECIFICATION Spec
CONSTANTS
    Clients = {c1, c2}
    Workers = {w1}
    Keys = {k1, k2}
    NoKey = NoKey
    MaxQueueSize = 1
    MaxConcurrent = 1
    Signals = {"drain", "undrain"}
    MaxJobs = 2
    MaxBuffer = 1
    MaxLog = 0
    MaxFaults = 0
    MaxCrashes = 1
SYMMETRY Symmetry
VIEW SubmitView
INVARIANTS
    OneJobPerKey
PROPERTIES
    ImplementsLifecycle
    RetryNeverRefused
CHECK_DEADLOCK FALSE
