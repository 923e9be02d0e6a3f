CONSTANTS
    g = g
    a1 = a1
    a2 = a2
    a3 = a3
    b1 = b1
    b2 = b2
    b3 = b3
    c2 = c2
    None = None
    Genesis = g
    Block = {g, a1, a2, a3, b1, b2, b3}
    Parent <- MCParent
    Work <- MCWork
    Path <- MCPath
    BadScript = {b2}
    BadPrefix = {}
    BadCommitment = {}
    MaxOrphans = 2
    Overlap = FALSE
    MaxCalls = 2
    MaxCrashes = 1
SPECIFICATION Spec
INVARIANTS
    MostWork
    AcceptedIsBest
    FlagsSound
    
    
CHECK_DEADLOCK FALSE
