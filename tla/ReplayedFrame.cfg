SPECIFICATION Spec
CONSTANTS
    Calls = {c1, c2}
    Epochs = {e1, e2}
    Nobody = Nobody
    MaxRestarts = 0
PROPERTY DeliveredNeverReplayed
CHECK_DEADLOCK FALSE
