SPECIFICATION FairSpec
CONSTANTS
    Calls = {c1, c2}
    Epochs = {e1, e2}
    Nobody = Nobody
    MaxRestarts = 1
INVARIANTS
    TypeOK
    EnvelopeWrittenOnce
    ExecIdsUnique
    OneUnansweredFrame
    ScheduleHasHolder
PROPERTIES
    CallsKeepPromise
    ScheduledAdvances
CHECK_DEADLOCK FALSE
