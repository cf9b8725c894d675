SPECIFICATION FairSpec
CONSTANTS
    r1 = r1
    r2 = r2
    id1 = id1
    id2 = id2
    Requests <- MCRequests
    IdOf <- NullAndNoId
    NullId = NullId
    NoId = NoId
    HandshakeId = HandshakeId
    None = None
    Nil = Nil
    MaxProc = 1
    MaxAttempts = 2
    PipeCap = 1
    MayClose = TRUE
INVARIANTS
    NoLostWakeup
PROPERTY
    EveryRequestReturns
