SPECIFICATION DeliveryFairSpec
CONSTANTS
    q1 = q1
    q2 = q2
    q3 = q3
    None = None
    Requests <- ThreeRequests
    MaxChanges = 5
    MaxItems = 3
    MaxFaults = 2
INVARIANTS
    DeliveryTypeOK PollingAlive ChainPerActivation LossNeedsCause SentInOrder
PROPERTIES
    PollingStops AllFetched
CHECK_DEADLOCK FALSE
