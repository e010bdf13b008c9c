SPECIFICATION Spec
CONSTANTS
    N <- MCN
    Required <- MCN
    StartMayFail = FALSE
    SerialCompletion = FALSE
INVARIANTS
    AtMostOneReport
CHECK_DEADLOCK FALSE
