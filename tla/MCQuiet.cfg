SPECIFICATION FairSpec
CONSTANTS
    s1 = s1
    s2 = s2
    e1 = e1
    e2 = e2
    NoSeq = NoSeq
    NoTx = NoTx
    DefaultESN = DefaultESN
    Seqs <- TwoSeqs
    ESNs <- OneCamera
    Alphabet <- SessionKinds
    CCEOTTimeout = 1
    GeneralTimeout = 4
    UnknownTimeout = 4
    UnknownWindow = 2
    MaxTime = 5
    MaxHeld = 2
PROPERTIES
    QuietEndIsReported
CHECK_DEADLOCK FALSE
