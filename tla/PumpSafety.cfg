SPECIFICATION Spec
CONSTANTS
    Chats = {m1}
    Controls = {c1}
    Tools = {t1, t2, t3}
    DeadlinesFire = TRUE
    Nothing = Nothing
SYMMETRY Symmetry
INVARIANTS
    TypeOK
    TerminalOwesNothing
    AnswersSurviveTerminal
    IdleRunHasEnded
PROPERTIES
    RunKeepsPromise
CHECK_DEADLOCK FALSE
