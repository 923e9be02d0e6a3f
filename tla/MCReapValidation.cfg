CONSTANTS
    Block <- RBlock
    Genesis = "g0"
    NoBlock = "none"
    Parent <- RParent
    Height <- RHeight
    OutPoint <- ROutPoint
    Amount <- RAmount
    Spendable <- ROutPoint
    NumTxs <- RNumTxs
    Ins <- RIns
    Outs <- ROuts
    Live <- RLive
    Commitment <- RCommitment
    WindowBlocks = 2
    StartScanHeight = 0
    ExpiryCommitmentEnableAtHeight = 3
    PkScript <- RPkScript
    OutPointRank <- ROutPointRank
    ScriptRank <- RScriptRank
    EnableAtHeight = 3
    ReapConsensusAtHeight = 4
    ReapMaxInputs = 2
    ReapDustMaxInputs = 2
    ReapMaxWeight = 10
    ReapTaxNumerator = 3
    ReapTaxDenominator = 10
    ReapDustThresholdSat = 3
    InputWeight = 2
    OutputWeight = 2
    BaseWeight = 1
    EstInputWeight = 2
    EstInputWeightUpper = 3
    EstRefundOutputWeight = 1
    EstBaseWeight = 1
    Proposals <- RProposals
    MaxBlockTxs = 2
    MaxTxWeight = 20
SPECIFICATION Spec
INVARIANTS
    OldestFirst
    OwnersKeepTheirShare
    ReapIsBounded
    MinedReapAccepted
