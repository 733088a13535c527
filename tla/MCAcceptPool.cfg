SPECIFICATION FairSpec
CONSTANTS
    Workers = {w1, w2}
    Nobody = Nobody
    Conns = {c1, c2, c3}
    NoConn = NoConn
    Servers <- MCServers
INVARIANTS LockRight
PROPERTIES EventuallyAccepted ImplementsDispatch
CHECK_DEADLOCK FALSE
