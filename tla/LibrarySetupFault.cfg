SPECIFICATION Spec
CONSTANTS
    NU <- MCNU
    MaxSetups <- MCMaxSetups
    SetupMayFail = TRUE
INVARIANT GlobalsUpForTransports
CHECK_DEADLOCK FALSE
