SPECIFICATION Spec
CONSTANTS
    k1 = k1
    k2 = k2
    k3 = k3
    r1 = r1
    r2 = r2
    NoEntry = NoEntry
    NoKey = NoKey
    Keys <- MCKeys
    Resources <- MCResources
    Capacity = 2
    IdleTtl = 2
    SweepEvery = 2
    MaxAuthId = 3
    MaxTime = 3
SYMMETRY Symmetry
INVARIANTS IndexesAgree
PROPERTIES OverCapacityOnlyInFlight ExpiredNeverServed ImplementsFlowTable
