SPECIFICATION RetrySpec
CONSTANTS
    Capacity = 3
    Lines <- MC_Lines
    Eol <- MC_Eol
    MaxLines = 4
    Retries = {"sender"}
    Faults = {}
INVARIANT RetrySpoilsOneMoreLine
CHECK_DEADLOCK FALSE
