SPECIFICATION MCSpec
CONSTANTS
    Conns = {c1, c2, c3}
    NoConn = NoConn
    NSlots = 2
    NFds = 3
    MaxSends = 1
    Deaf = {c1}
    Progs = {"select", "poll"}
    ReadLen = 3
    MaxIov = 2
    LoopBytes = 2
    LoopMsgs = 2
INVARIANTS TablesTrue SockCopies
PROPERTIES DataIsRead SockEnds
CHECK_DEADLOCK FALSE
