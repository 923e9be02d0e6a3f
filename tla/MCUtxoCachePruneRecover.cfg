\* A pruned node, restarted after crashes: can it replay what it needs?
CONSTANTS
    Block <- MCBlock
    Genesis = "g0"
    NoBlock = "none"
    Parent <- MCParent
    Height <- MCHeight
    OutPoint <- MCOutPoint
    Amount <- MCAmount
    Spendable <- MCSpendable
    NumTxs <- MCNumTxs
    Ins <- MCIns
    Outs <- MCOuts
    Live <- MCLive
    Looked <- MCLooked
    Ancestors <- MCAncestors
    PruneKeep = 2
    MaxFaults = 1
SPECIFICATION Spec
INVARIANTS
    PruneSparesReplay
