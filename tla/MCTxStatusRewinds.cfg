CONSTANTS
    MaxHeight = 3
    MaxBlocks = 4
    PRUNING_DEPTH = 2
    EXPIRY_DELTA = 1
    Expiry = 2
    LateKey = FALSE
    Outgoing = FALSE
    AnswersAhead = TRUE
SPECIFICATION Spec
INVARIANTS
    ConstraintsHold
    WaitingIsDue
    EvidenceConservative
PROPERTY ObligationKept
CHECK_DEADLOCK FALSE
