SPECIFICATION Spec
CONSTANTS
    N <- MCServers
    Rounds <- MCRounds
    Joined = FALSE
    InitChecked = TRUE
PROPERTY ClientUsedOnlyWhileLive
CHECK_DEADLOCK FALSE
