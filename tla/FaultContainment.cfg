SPECIFICATION Spec
CONSTANTS
    N <- MCN
    Required <- MCN
    StartMayFail = TRUE
    SerialCompletion = FALSE
INVARIANTS
    FaultContained
CHECK_DEADLOCK FALSE
