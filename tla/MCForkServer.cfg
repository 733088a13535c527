SPECIFICATION FairSpec
CONSTANTS
    Kids = {k1, k2, k3}
    Main = Main
    ListenFd = ListenFd
    UdpFd = UdpFd
    Conns = {c1, c2, c3}
    NoConn = NoConn
    MaxStops = 1
    Programs <- MCPrograms
INVARIANTS NothingLeftOver
PROPERTIES Responsive ImplementsDispatch
CHECK_DEADLOCK FALSE
