CONSTANTS
    Entries <- MCEntries
    FaultsPossible = TRUE
INIT Init
NEXT Next
INVARIANT NoHeapMisuse
CHECK_DEADLOCK FALSE
