SPECIFICATION Spec
CONSTANTS
    NChildren = 2
    MsgLen = 2
    Conns = {c1, c2}
    NoConn = NoConn
INVARIANT ZeroMeansReady
CHECK_DEADLOCK FALSE
