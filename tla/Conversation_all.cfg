SPECIFICATION Spec
CONSTANTS
    Preserve = 4
    MaxUses = 2
    MaxMessages = 12
    MaxFailures = 2
INVARIANTS
    FileTracksMemory
    SavedIsOnDisk
    RequestPaired
PROPERTIES
    ImplementsHistory
CHECK_DEADLOCK FALSE
