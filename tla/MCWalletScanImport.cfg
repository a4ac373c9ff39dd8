SPECIFICATION Spec
CONSTANTS
    a1 = a1
    a2 = a2
    sapling = sapling
    orchard = orchard
    MaxHeight = 4
    Accounts = {a1, a2}
    Pools = {sapling}
    PoolActivation <- MCPoolActivation
    SaplingActivation = 0
    PRUNING_DEPTH = 2
    VERIFY_LOOKAHEAD = 1
    RetainPriorities <- MCNoPriorities
    RescanPriorities <- MCNoPriorities
    MaxSubtrees = 1
    StaleTip = TRUE
PROPERTY TipUpdateFillsGap
SYMMETRY Symmetry
