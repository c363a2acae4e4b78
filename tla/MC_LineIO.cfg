SPECIFICATION FairSpec
CONSTANTS
    Capacity = 3
    Lines <- MC_Lines
    Eol <- MC_Eol
    MaxLines = 3
    Retries = {}
    Faults = {"crash", "hangup"}
INVARIANT TypeOK
INVARIANT EofAfterEverything
PROPERTY LinesInOrder
PROPERTY LinesArrive
CHECK_DEADLOCK FALSE
