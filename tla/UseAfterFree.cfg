SPECIFICATION Spec
CONSTANTS
    N <- MCN
    Required <- MCN
    StartMayFail = FALSE
    SerialCompletion = FALSE
INVARIANTS
    NoUseAfterFree
CHECK_DEADLOCK FALSE
