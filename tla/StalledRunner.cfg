SPECIFICATION StalledBodySpec
CONSTANTS
    Turns = {t1, t2, t3}
    Bidis = {b1}
    SpawnKinds = {"umbrella", "chat", "subagent"}
    NoTurn = NoTurn
    NoBidi = NoBidi
PROPERTIES
    DrainTimeoutCoversStalledRunner
CHECK_DEADLOCK FALSE
