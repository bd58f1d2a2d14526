SPECIFICATION Spec
CONSTANTS
    s1 = s1
    s2 = s2
    e1 = e1
    e2 = e2
    NoSeq = NoSeq
    NoTx = NoTx
    DefaultESN = DefaultESN
    Seqs <- TwoSeqs
    ESNs <- OneCamera
    Alphabet <- SessionKinds
    CCEOTTimeout = 1
    GeneralTimeout = 3
    UnknownTimeout = 3
    UnknownWindow = 2
    MaxTime = 7
    MaxHeld = 3
INVARIANTS
    TypeOK StartMarksOne WaitsForTriad EveryLineStreamed AggregateNumberedLast
PROPERTIES
    StreamedOnce QuietEndIsGood KeepsLedger
CHECK_DEADLOCK FALSE
