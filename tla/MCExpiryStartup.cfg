\* The index is reset only on databases that were shut down cleanly.
CONSTANTS
    Block <- MCBlock
    Genesis = "g0"
    NoBlock = "none"
    Parent <- MCParent
    Height <- MCHeight
    OutPoint <- MCOutPoint
    Amount <- MCAmount
    Spendable <- MCSpendable
    NumTxs <- MCNumTxs
    Ins <- MCIns
    Outs <- MCOuts
    Live <- MCLive
    Commitment <- MCCommitment
    WindowBlocks = 2
    StartScanHeight = 0
    ExpiryCommitmentEnableAtHeight = 2
    DefaultBatchSize = 2
    FastRebuildThreshold = 1
    ReindexAfterCrash = FALSE
    MaxCrashes = 2
    MaxFails = 1
SPECIFICATION FairSpec
INVARIANTS
    RebuiltMatchesLive
    StoredIndexSound
PROPERTIES
    NodeStarts
