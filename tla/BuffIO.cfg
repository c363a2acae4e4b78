SPECIFICATION FairSpec
CONSTANTS
    Capacity = 3
    Sizes = {0, 3, 8}
    Faults = {"crash", "hangup"}
INVARIANT TypeOK
INVARIANT ReceivedIsPrefix
INVARIANT CountIsExact
INVARIANT EofOnlyByFault
INVARIANT StuckOnlyTogether
PROPERTY BothFinish
CHECK_DEADLOCK FALSE
