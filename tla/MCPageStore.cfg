SPECIFICATION Spec
CONSTANTS
    c1 = c1
    c2 = c2
    c3 = c3
    c4 = c4
    Callers = {c1, c2, c3, c4}
    Mixes <- AllMixes
    Origin = Origin
    Unset = Unset
    Absent = Absent
    Torn = Torn
    Starts <- PageFound
    PowerMayFail = TRUE
INVARIANTS
    TypeOK
    
    
    
PROPERTY
    ImplementsContract
