SPECIFICATION AnsweredFairSpec
CONSTANTS
    Runs = {r1, r2}
    InForeground = {r1}
    InBackground = {r1, r2}
    Waits = {w1}
    NoRun = NoRun
    MaxRestarts = 1
INVARIANTS
    TypeOK
    AlwaysMountable
    OutcomeHasRoute
    WorkerOwnsRun
    OneTurnWorks
    RunningRunIsAttended
    GateHasOwner
CHECK_DEADLOCK FALSE
PROPERTIES
    ParentIsToldOnce
    HandoffsSettle
    AbortedTurnsEnd
