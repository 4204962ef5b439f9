SPECIFICATION FairSpec
CONSTANTS
    Chats = {m1}
    Controls = {c1}
    Tools = {t1, t2}
    DeadlinesFire = TRUE
    Nothing = Nothing
PROPERTIES
    ExpiredCallsSettle
CHECK_DEADLOCK FALSE
