SPECIFICATION Spec
CONSTANTS
    N <- MCN
    Required <- MCN
    StartMayFail = FALSE
    SerialCompletion = TRUE
INVARIANTS
    AtMostOneReport
    NoUseAfterFree
PROPERTIES
    ReportByQuorumCompletion
    EventuallyReported
    ImplementsCompletionGroup
CHECK_DEADLOCK FALSE
