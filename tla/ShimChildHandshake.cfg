SPECIFICATION Spec
CONSTANTS
    r1 = r1
    r2 = r2
    id1 = id1
    id2 = id2
    Requests <- MCRequests
    IdOf <- DistinctIds
    NullId = NullId
    NoId = NoId
    HandshakeId = HandshakeId
    None = None
    Nil = Nil
    MaxProc = 2
    MaxAttempts = 1
    PipeCap = 1
    MayClose = FALSE
INVARIANT
    HandshakePerChild
