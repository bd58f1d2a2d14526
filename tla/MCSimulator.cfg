SPECIFICATION Spec
CONSTANTS
    i1 = i1
    i2 = i2
    IPs <- TwoIPs
    MaxUpdates = 3
INVARIANTS
    SimulatesMappings
CHECK_DEADLOCK FALSE
