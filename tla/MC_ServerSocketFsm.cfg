SPECIFICATION Spec
CONSTANTS
    Addrs = {a1, a2}
    DefaultAddr = a0
    Fds <- MC_Fds
    FreshStates <- MC_Indeterminate
INVARIANT TypeOK
INVARIANT NoLeak
INVARIANT HeldIsOwned
INVARIANT StateMatchesKernel
INVARIANT FlagMatchesKernel
INVARIANT HeldAsStateSays
PROPERTY ThrowKeepsState
PROPERTY OthersUntouched
CHECK_DEADLOCK FALSE
