SPECIFICATION TrSpec
CONSTANTS
    TrFamilies = {"v4", "v6"}
    TrHops = 2
    TrMaxTtl = 3
    TrProbes = 2
INVARIANT V6DoneAtDestination
CHECK_DEADLOCK FALSE
