SPECIFICATION Spec
CONSTANTS
    Capacity = 3
    Lines <- MC_Lines
    Eol <- MC_Eol
    MaxLines = 2
    Retries = {}
    Faults = {}
PROPERTY SendlineBlocks
CHECK_DEADLOCK FALSE
