SPECIFICATION Spec
CONSTANTS
    IpVars = {ip1, ip2}
    SockVars = {sock1, sock2}
    Addrs4 = {lo4, host4}
    Addrs6 = {host6}
    Localhost4 = lo4
    Labels <- MC_Labels
    Ports <- MC_Ports
    NULL = NULL
    NONE = NONE
INVARIANT TypeOK
INVARIANT ToldAsMeant
INVARIANT RoundTrip
CHECK_DEADLOCK FALSE
