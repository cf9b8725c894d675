SPECIFICATION Spec
CONSTANTS
    c1 = c1
    c2 = c2
    u1 = u1
    u2 = u2
    blank = blank
    bad = bad
    Callers <- MCCallers
    Setups <- TwoUrls
    Providers <- Google
    Blank = blank
    Malformed <- MCMalformed
INVARIANT
    FailedRunIsListed
