SPECIFICATION Spec
CONSTANTS
    f1 = f1
    f2 = f2
    Flows = {f1, f2}
    o1 = o1
    o2 = o2
    Outputs = {o1, o2}
    Policies <- MCPolicies
    Requests <- MCRequests
    ExpiryDelta = 1
    MaxHeight = 2
    MaxInputs = 2
    MaxTxs = 1
    NoOwner = NoOwner
PROPERTIES NoStealing  HoldPersists
SYMMETRY AnyOutput
