SPECIFICATION Spec
CONSTANTS
    GaiImpls = {"libgai", "libfree", "savecopy"}
    MaxAddrs = 2
    SockConns = 2
    DayAddrs = 2
    DayOthers = 2
    SctpServers = {"sctpserv01", "sctpserv02", "sctpserv03", "sctpserv04", "sctpserv05", "sctpserv06", "sctpserv07", "sctpserv_fork"}
    SctpClients = {1, 2}
    SctpStreams = 2
    SctpLines = 2
    PdapiIncr = 2
    PdapiThreshold = 1
    SctpBig = 3
    SctpInterleave = TRUE
INVARIANTS GaiRight OptionsInForce SctpEchoes
PROPERTIES BackToAccept DayRight SctpAnswered
CHECK_DEADLOCK FALSE
