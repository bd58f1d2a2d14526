SPECIFICATION Spec
CONSTANTS
    s1 = s1
    s2 = s2
    e1 = e1
    e2 = e2
    NoSeq = NoSeq
    NoTx = NoTx
    DefaultESN = DefaultESN
    Seqs <- TwoSeqs
    ESNs <- TwoCameras
    Alphabet <- UnknownKinds
    CCEOTTimeout = 1
    GeneralTimeout = 4
    UnknownTimeout = 4
    UnknownWindow = 2
    MaxTime = 6
    MaxHeld = 4
INVARIANTS
    HeldOnce WindowsBounded
PROPERTIES
    NoMessageLost LateEventStartsAfresh
CHECK_DEADLOCK FALSE
