SPECIFICATION Spec
CONSTANTS
    Addrs = {a1, a2}
    DefaultAddr = a0
    Fds <- MC_Fds
    FreshStates <- MC_Zeroed
INVARIANT ResetHidesAddress
CHECK_DEADLOCK FALSE
