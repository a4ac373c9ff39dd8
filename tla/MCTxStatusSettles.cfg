CONSTANTS
    MaxHeight = 2
    MaxBlocks = 3
    PRUNING_DEPTH = 1
    EXPIRY_DELTA = 1
    Expiry = 1
    LateKey = TRUE
    Outgoing = FALSE
    AnswersAhead = FALSE
SPECIFICATION FairSpec
INVARIANT MinedMatchesBlock
PROPERTY ReconfirmationSettles
CHECK_DEADLOCK FALSE
