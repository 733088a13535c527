SPECIFICATION FairSpec
CONSTANTS
    Clients <- MCClients
    Lines = 6
    Cap = 2
    MaxRead = 3
INVARIANTS FlowIntact EndsTruthful
PROPERTIES SessionProgresses
CHECK_DEADLOCK FALSE
