SPECIFICATION Spec
CONSTANTS
    N <- MCN
    Required <- MCPointerAsCount
    StartMayFail = FALSE
    SerialCompletion = FALSE
PROPERTIES
    EventuallyReported
CHECK_DEADLOCK FALSE
