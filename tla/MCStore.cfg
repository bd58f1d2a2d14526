SPECIFICATION Spec
CONSTANTS
    e1 = e1
    c1 = c1
    c2 = c2
    p1 = p1
    p2 = p2
    Registers <- TwoRegisters
    ESNs <- OneCamera
    Calls <- TwoCalls
    QueueCap = 1
    MaxSize = 3
    MaxResults = 3
    MaxIncidents = 1
INVARIANTS
    TypeOK FetchedInOrder ConflictMeansGone
PROPERTIES
    KeepsMailbox
SYMMETRY Alike
CHECK_DEADLOCK FALSE
