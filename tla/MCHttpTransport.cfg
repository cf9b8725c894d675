SPECIFICATION FairSpec
CONSTANTS
    c1 = c1
    c2 = c2
    Clients = {c1, c2}
    Setups <- AnySetup
    MaxStops = 2
    MaxLosses = 1
    DefaultChunk = 4
    DefaultResults = 2
    MostResults = 3
INVARIANTS
    TypeOK
    ReadIsFaithful
    
    CleanExitCutsNothing
PROPERTIES
    SignalEndsProcess
    ReadingEnds
