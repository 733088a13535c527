SPECIFICATION Spec
CONSTANTS
    QSIZE = 3
    RcvBuf = 2
    NDgrams = 7
    RTT_RXTMIN = 2
    RTT_RXTMAX = 4
    RTT_MAXNREXMT = 1
    NRequests = 2
    MaxNow = 13
    TsMod = 6
    Progs = {"bcast1", "bcast3", "bcast4", "bcast4lib", "bcast5", "bcast6"}
    NLines = 3
    MaxReplies = 5
    PingProgs = {"bsdping", "ping4", "ping6"}
    PingSlots = 2
    PingMaxSent = 4
    PingMaxGot = 5
    TrFamilies = {"v4", "v6"}
    TrHops = 2
    TrMaxTtl = 3
    TrProbes = 2
INVARIANTS ReplyExact PingCounts TraceTruthful
PROPERTIES EchoesAll CallEnds WaitEnds PingEnds TraceEnds
CHECK_DEADLOCK FALSE
