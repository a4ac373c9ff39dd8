SPECIFICATION Spec
CONSTANTS
    a1 = a1
    a2 = a2
    sapling = sapling
    orchard = orchard
    MaxHeight = 3
    Accounts = {a1, a2}
    Pools = {}
    PoolActivation <- MCPoolActivation
    SaplingActivation = 0
    PRUNING_DEPTH = 2
    VERIFY_LOOKAHEAD = 1
    RetainPriorities <- MCRetain
    RescanPriorities <- MCRescan
    MaxSubtrees = 1
    StaleTip = FALSE
INVARIANTS NothingSkipped FullyScannedSound
PROPERTY OnlyResumingOpensHoles
SYMMETRY Symmetry
