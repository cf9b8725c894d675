SPECIFICATION Spec
CONSTANTS
    c1 = c1
    c2 = c2
    p1 = p1
    p2 = p2
    Checkers = {c1, c2}
    Packages = {p1, p2}
    Versions <- FourVersions
    Setups <- OneOrTwo
    None = None
INVARIANTS
    TypeOK
    MajorIsKept
    
PROPERTY
    ImplementsContract
SYMMETRY CheckersAlike
