SPECIFICATION FairSpec
CONSTANTS
    NChildren = 2
    MsgLen = 2
    Conns = {c1, c2, c3}
    NoConn = NoConn
INVARIANTS BeliefTrue
PROPERTIES AcceptsThenEnds ImplementsDispatch
CHECK_DEADLOCK FALSE
