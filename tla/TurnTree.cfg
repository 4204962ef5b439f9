SPECIFICATION FairSpec
CONSTANTS
    Turns = {t1, t2, t3}
    Bidis = {b1, b2}
    SpawnKinds = {"umbrella", "chat", "subagent", "compaction", "background"}
    NoTurn = NoTurn
    NoBidi = NoBidi
INVARIANTS
    TypeOK
    AbortReachesDescendants
    LiveTurnsHangFromUmbrella
    RunningTurnsCanWrite
    CloseIsNeverForced
PROPERTIES
    AttachmentsKeepPromise
    SealCompletes
    UnwindResolves
CHECK_DEADLOCK FALSE
