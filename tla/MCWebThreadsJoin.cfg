SPECIFICATION WebSpec
CONSTANTS
    NFiles = 3
    MaxNConn = 2
    Webs = {"web03"}
PROPERTY DoneIsJoined
CHECK_DEADLOCK FALSE
