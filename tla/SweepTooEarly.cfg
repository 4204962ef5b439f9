SPECIFICATION Spec
CONSTANTS
    Turns = {t1, t2, t3}
    Bidis = {b1}
    SpawnKinds = {"umbrella", "chat", "subagent"}
    NoTurn = NoTurn
    NoBidi = NoBidi
SYMMETRY Symmetry
INVARIANTS
    SweepAwaitsEveryRunner
CHECK_DEADLOCK FALSE
