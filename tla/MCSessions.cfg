SPECIFICATION Spec
CONSTANTS
    IcmpClients = {1, 2}
    IcmpV6 = {{}, {2}}
    IcmpSizes = {1, 2}
    IcmpPorts = {1}
    IcmpBuf = 1
    IcmpErrors = 1
    HbMaxCli = 2
    HbMaxServ = 1
    HbFlight = 1
    HbMarks = {"srv"}
    NFiles = 4
    MaxNConn = 3
    Webs = {"web01", "web02", "web03"}
INVARIANTS IcmpOwn CountsExact
PROPERTIES IcmpAnswered HbVerdicts
CHECK_DEADLOCK FALSE
