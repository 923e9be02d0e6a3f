\* A node that may prune, restarted after crashes.
CONSTANTS
    Block <- MCBlock
    Genesis = "g0"
    NoBlock = "none"
    Parent <- MCParent
    Height <- MCHeight
    OutPoint <- MCOutPoint
    Amount <- MCAmount
    Spendable <- MCSpendable
    NumTxs <- MCNumTxs
    Ins <- MCIns
    Outs <- MCOuts
    Live <- MCLive
    Looked <- MCLooked
    Ancestors <- MCAncestors
    PruneKeep = 1
    MaxFaults = 2
SPECIFICATION FairSpec
INVARIANTS
    CacheSound
    DiskSound
    RecoverableBeforeCrash
PROPERTIES
    NodeComesBack
