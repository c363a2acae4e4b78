SPECIFICATION Spec
CONSTANTS
    Addrs = {a1, a2}
    DefaultAddr = a0
    Fds <- MC_Fds
INVARIANT AskedModeApplies
CHECK_DEADLOCK FALSE
