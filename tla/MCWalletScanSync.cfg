SPECIFICATION FairSpec
CONSTANTS
    a1 = a1
    a2 = a2
    sapling = sapling
    orchard = orchard
    MaxHeight = 2
    Accounts = {a1}
    Pools = {sapling}
    PoolActivation <- MCPoolActivation
    SaplingActivation = 0
    PRUNING_DEPTH = 1
    VERIFY_LOOKAHEAD = 1
    RetainPriorities <- MCRetain
    RescanPriorities <- MCNoPriorities
    MaxSubtrees = 2
    StaleTip = FALSE
INVARIANT BlocksQueuedOrPruned
PROPERTIES ScannedSurvives SyncCompletes
