SPECIFICATION Spec
CONSTANTS
    Clients = {c1}
    Workers = {w1, w2}
    Keys = {k1, k2}
    NoKey = NoKey
    MaxQueueSize = 2
    MaxConcurrent = 2
    Signals = {}
    MaxJobs = 2
    MaxBuffer = 1
    MaxLog = 1
    MaxFaults = 1
    MaxCrashes = 0
SYMMETRY Symmetry
VIEW View
INVARIANTS
    PermitsAccounted
    SingleExecution
    TerminalEventTrue
CHECK_DEADLOCK FALSE
