SPECIFICATION FairSpec
CONSTANTS
    ServerSockets = {s1, s2}
    StreamSockets = {t1, t2}
    Clients = {c1, c2}
    Remote = host
    Backlog = 2
    FreshStates <- MC_FreshStates
    Fds <- MC_Fds
INVARIANT TypeOK
INVARIANT HeldOnce
INVARIANT HoldsWhatItSays
PROPERTY ClientsAreServed
PROPERTY LostByItsHolderOnly
PROPERTY WaitingIsMet
CHECK_DEADLOCK FALSE
