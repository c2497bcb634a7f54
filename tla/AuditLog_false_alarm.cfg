SPECIFICATION Spec
CONSTANTS
    Verifiers = {v1}
    MaxEvents = 2
    MaxFailures = 0
    MaxRestarts = 0
PROPERTIES
    NoFalseAlarm
CHECK_DEADLOCK FALSE
