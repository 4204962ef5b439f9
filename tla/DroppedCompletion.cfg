SPECIFICATION Spec
CONSTANTS
    Chats = {m1}
    Controls = {c1, c2}
    Tools = {t1, t2}
    DeadlinesFire = FALSE
    Nothing = Nothing
PROPERTIES
    TerminalOnlyAtIdleEdge
CHECK_DEADLOCK FALSE
