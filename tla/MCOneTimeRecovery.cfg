SPECIFICATION Spec
CONSTANTS
    t1 = t1
    t2 = t2
    Txs = {t1, t2}
    Pays <- MCPays
    MaxIndex = 1
    RefundKeys = {2}
    RECEIVE_GAP = 1
    STEP_BUDGET = 2
    MEMO_REFUND_WINDOW = 1
    ShardWidth = 1
    FreshLag = 1
    MaxHeight = 2
    Scenarios <- MCScenarios
INVARIANTS
    TypeOK
    
    MarkerSound
    HoldsLift
    NoStall
    
PROPERTIES
    IssuedUnpaid
CHECK_DEADLOCK FALSE
