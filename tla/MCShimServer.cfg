SPECIFICATION FairSpec
CONSTANTS
    r1 = r1
    r2 = r2
    Requests = {r1, r2}
    Shapes <- AnyShape
    QueueCap = 1
    NotSent = NotSent
INVARIANTS
    TypeOK
    SlotsMatchHolders
    SuccessIsExecutedOnce
    RefusedIsNotExecuted
PROPERTY
    SignalEndsProcess
