SPECIFICATION Spec
CONSTANTS
    N <- MCServers
    Rounds <- MCRounds
    Joined = TRUE
    InitChecked = TRUE
INVARIANTS TypeOK NoReplyLostAtExit
PROPERTIES ClientUsedOnlyWhileLive Terminates
CHECK_DEADLOCK FALSE
