SPECIFICATION Spec
CONSTANTS
    EventIds = {e1, e2}
    Subscribers = {s1, s2}
    NoSubscriber = NoSubscriber
    Capacity = 2
    Outbox = 1
    MaxFaults = 1
    Callers = {c1, c2}
    Nobody = Nobody
    Requests <- UserAndTool
    Parts <- PairScopes
    Limits <- PairCaps
    Length <- ShortWindows
    TokenModulus = 8
    MaxTime = 3
    Verifiers = {v1, v2}
    MaxEvents = 3
    MaxFailures = 1
    MaxRestarts = 2
INVARIANTS
    StreamGapless
    FixedWindowCap
    ConcurrencyIsHeld
    LogKept
PROPERTIES
    DisplacedStreamEnds
    UndisturbedVerdict
CHECK_DEADLOCK FALSE
