SPECIFICATION Spec
CONSTANTS
    c1 = c1
    c2 = c2
    c3 = c3
    s1 = s1
    s2 = s2
    Callers = {c1, c2, c3}
    Slugs = {s1, s2}
    Mixes <- AllMixes
    Origin = Origin
    Absent = Absent
    NoImage = NoImage
    Empty = Empty
    Broken = Broken
INVARIANTS
    TypeOK
    
    OkMeansUpdated
    FailedBuildIsUndone
