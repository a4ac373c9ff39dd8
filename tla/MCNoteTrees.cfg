SPECIFICATION Spec
CONSTANTS
    sapling = sapling
    ironwood = ironwood
    Pools = {sapling, ironwood}
    PoolActivation <- MCActivation
    InitialPools = {sapling}
    MaxHeight = 5
    PRUNING_DEPTH = 2
    Anchors = {2, 4}
    Chains <- MCChains
INVARIANTS TypeOK PlannersAgree WitnessesKept MarksCovered
PROPERTIES TruncationRemoves RewindKeepsFloor AnchorsSurviveScans
