SPECIFICATION Spec
CONSTANTS
    RECEIVE_GAP = 1
    STATUS_FRESH = 1
    STATUS_GRACE = 1
    Lifetimes = {2}
    Skews <- MCSkews
    MaxIndex = 0
    MaxOperations = 2
    MaxBusy = 3
    MaxReorgs = 1
    MaxTime = 3
INVARIANTS TypeOK OneQuoteShown
PROPERTIES  OwedNotReissued
CHECK_DEADLOCK FALSE
