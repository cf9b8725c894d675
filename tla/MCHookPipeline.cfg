SPECIFICATION FairSpec
CONSTANTS
    c1 = c1
    c2 = c2
    u1 = u1
    u2 = u2
    blank = blank
    bad = bad
    Callers <- MCCallers
    Setups <- AnySetup
    Providers <- TwoOfThem
    Blank = blank
    Malformed <- MCMalformed
INVARIANTS
    TypeOK
    ContactIsRecorded
    FailuresAreAccounted
    BatchOkMeansDelivered

    
