SPECIFICATION FairSpec
CONSTANTS
    Threads = {t1, t2}
    Conns = {c1, c2, c3}
    MAXNCLI = 3
    Main = Main
    Nobody = Nobody
    NoConn = NoConn
INVARIANTS TypeOK MutexHeld ExactlyOnce NoLostWakeup
PROPERTIES EventuallyTaken ImplementsDispatch
CHECK_DEADLOCK FALSE
