CONSTANTS
    g = g
    a1 = a1
    a2 = a2
    a3 = a3
    b1 = b1
    b2 = b2
    b3 = b3
    c2 = c2
    None = None
    Genesis = g
    Block = {g, a1, a2, c2, b1, b2, b3}
    Parent <- MCParent
    Work <- MCWork
    Path <- MCPath
    BadScript = {}
    BadPrefix = {b3}
    BadCommitment = {c2}
    MaxOrphans = 1
    Overlap = TRUE
    MaxCalls = 2
    MaxCrashes = 0
SPECIFICATION FairSpec
INVARIANTS
    BestIsSound
PROPERTY
    CallsReturn
CHECK_DEADLOCK FALSE
