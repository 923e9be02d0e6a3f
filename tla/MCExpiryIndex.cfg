\* Blocks below StartScanHeight are not indexed; commitments from height 2.
CONSTANTS
    Block <- MCBlock
    Genesis = "g0"
    NoBlock = "none"
    Parent <- MCParent
    Height <- MCHeight
    OutPoint <- MCOutPoint
    Amount <- MCAmount
    Spendable <- MCSpendable
    NumTxs <- MCNumTxs
    Ins <- MCIns
    Outs <- MCOuts
    Live <- MCLive
    Commitment <- MCCommitment
    WindowBlocks = 2
    StartScanHeight = 2
    ExpiryCommitmentEnableAtHeight = 2
SPECIFICATION Spec
INVARIANTS
    IndexSound
    HonestCommitmentAccepted
PROPERTIES
    CommitmentBindsParent
    ImplementsSpec
