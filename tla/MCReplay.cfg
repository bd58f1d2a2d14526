SPECIFICATION Spec
CONSTANTS
    e1 = e1
    e2 = e2
    i1 = i1
    i2 = i2
    i3 = i3
    ESNs <- MCESNs
    IPs <- MCIPs
    Offers <- ApartOffers
    Unreadable = {}
    MaxUpdates = 4
INVARIANTS
    ReplayIsCurrent
CHECK_DEADLOCK FALSE
