SPECIFICATION FairSpec
CONSTANTS
    Rpcs = {s1, s2}
    ClientCalls = {c1, c2}
    InlineCalls = {i1}
    MaxStops = 1
    Nobody = Nobody
INVARIANTS
    TypeOK
    GraphOwner
    LaneOwner
    DispatchOwnsBatch
PROPERTIES
    ImplementsLoop
    HandlersRest
    SettledBatchContinues
CHECK_DEADLOCK FALSE
