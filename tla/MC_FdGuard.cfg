SPECIFICATION Spec
CONSTANTS
    Guards = {g1, g2, g3}
    Fds <- MC_Fds
SYMMETRY MC_Symmetry
INVARIANT TypeOK
INVARIANT NoLeak
INVARIANT HeldIsOwned
INVARIANT RightfulClose
CHECK_DEADLOCK FALSE
