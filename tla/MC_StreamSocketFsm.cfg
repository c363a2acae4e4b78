SPECIFICATION Spec
CONSTANTS
    Addrs = {a1, a2}
    DefaultAddr = a0
    Fds <- MC_Fds
INVARIANT TypeOK
INVARIANT NoLeak
INVARIANT HeldIsOwned
INVARIANT InitHoldsNothing
INVARIANT HalvesMatchState
PROPERTY ThrowKeepsState
PROPERTY OnlyThePeerBreaksIo
PROPERTY OthersUntouched
CHECK_DEADLOCK FALSE
