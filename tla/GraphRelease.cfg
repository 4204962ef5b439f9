SPECIFICATION Spec
CONSTANTS
    Rpcs = {s1, s2}
    ClientCalls = {c1}
    InlineCalls = {}
    MaxStops = 0
    Nobody = Nobody
INVARIANTS
    FinishedTurnsOwnNothing
CHECK_DEADLOCK FALSE
