SPECIFICATION FairSpec
CONSTANTS
    r1 = r1
    r2 = r2
    r3 = r3
    Requests <- MCRequests
    QueueCap = 2
PROPERTIES
    AnsweredIsServed
CHECK_DEADLOCK FALSE
