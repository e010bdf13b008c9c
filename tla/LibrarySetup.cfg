SPECIFICATION Spec
CONSTANTS
    NU <- MCNU
    MaxSetups <- MCMaxSetups
    SetupMayFail = FALSE
INVARIANTS SetupCountMatchesUsers GlobalsUpForTransports
