SPECIFICATION Spec
CONSTANTS
    N <- MCN
    Required <- MCN
    StartMayFail = TRUE
    SerialCompletion = FALSE
INVARIANTS
    NoLostUpdate
    NoPrematureReport
    TypeOK
CHECK_DEADLOCK FALSE
