SPECIFICATION Spec
CONSTANTS
    NS <- MCNS
    Calls <- MCCalls
    FaultsPossible = FALSE
PROPERTY InfoLiveWhileCalled
CHECK_DEADLOCK FALSE
