SPECIFICATION PathFairSpec
CONSTANTS
    e1 = e1
    e2 = e2
    i1 = i1
    i2 = i2
    i3 = i3
    ESNs <- MCESNs
    IPs <- MCIPs
    Offers <- SharingOffers
    Unreadable <- MCUnreadable
    Absent = Absent
    MaxUpdates = 4
    MaxChanges = 5
    MaxFaults = 1
INVARIANTS
    PathTypeOK VendorFollowsSettings RoutedAsConfigured RoutedAsSettings
PROPERTIES
    OthersUntouched VendorSettles
CHECK_DEADLOCK FALSE
