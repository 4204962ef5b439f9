SPECIFICATION AnsweredFairSpec
CONSTANTS
    Chats = {m1}
    Controls = {c1}
    Tools = {t1, t2}
    DeadlinesFire = FALSE
    Nothing = Nothing
PROPERTIES
    RunReturns
    WaitingContinuationProceeds
    AnsweredCallsSettle
CHECK_DEADLOCK FALSE
