--------------------------- MODULE ReapValidation ---------------------------
(***************************************************************************)
(* The rules for REAP transactions, as pure operators: how consensus       *)
(* validates one, and how a miner selects the inputs and builds one.       *)
(*                                                                         *)
(* A transaction is a record: reap (it has the version and the marker      *)
(* output of a REAP transaction), ins (a sequence of outpoints), outs (a   *)
(* sequence of [script, value], the marker left out) and the marker's      *)
(* height, count and digest.  The digest is collision free, so it is the   *)
(* sequence of inputs itself.  A view maps outpoints to creation heights.  *)
(***************************************************************************)
EXTENDS ExpiryBuckets, FiniteSets, Functions

CONSTANTS
    PkScript,               \* outpoint -> script
    OutPointRank,           \* outpoint -> place in the order of hash bytes and index
    ScriptRank,             \* script -> place in the order of script bytes
    EnableAtHeight,         \* first height with expiry rules
    ReapConsensusAtHeight,  \* first height with order, limits and global prefix
    ReapMaxInputs,          \* limit on the inputs that are not dust
    ReapDustMaxInputs,      \* limit on the dust inputs; 0: one limit for all
    ReapMaxWeight,          \* limit on the weight; 0: none
    ReapTaxNumerator,
    ReapTaxDenominator,
    ReapDustThresholdSat,   \* inputs below it are dust; 0: none is
    InputWeight, OutputWeight, BaseWeight,             \* weights as serialized
    EstInputWeight, EstInputWeightUpper, EstRefundOutputWeight, EstBaseWeight

Script == DOMAIN ScriptRank

\* An outpoint is a hash of 32 bytes and an index of 32 bits.
ASSUME ReapAssumption ==
    /\ IsFiniteSet(OutPoint)
    /\ OutPointRank \in [OutPoint -> Nat]
    /\ \A o, p \in OutPoint : OutPointRank[o] = OutPointRank[p] => o = p
    /\ ScriptRank \in [Script -> Nat]
    /\ \A s, t \in Script : ScriptRank[s] = ScriptRank[t] => s = t
    /\ PkScript \in [OutPoint -> Script]
    /\ {EnableAtHeight, ReapConsensusAtHeight, ReapDustMaxInputs, ReapMaxWeight,
        ReapTaxNumerator, ReapDustThresholdSat} \subseteq Nat
    /\ ReapMaxInputs \in Nat \ {0}
    /\ ReapTaxDenominator \in Nat \ {0}
    /\ ReapTaxNumerator <= ReapTaxDenominator
    /\ {InputWeight, OutputWeight, BaseWeight, EstInputWeight, EstInputWeightUpper,
        EstRefundOutputWeight, EstBaseWeight} \subseteq Nat

\* params_obtc.go: every network scans from the start.
ASSUME ScanAssumption == StartScanHeight \in {0, 1}

Expiry(v, o) == CalculateExpiryKey(v[o])
OutTotal(tx) == SumFunction([i \in DOMAIN tx.outs |-> tx.outs[i].value])
InTotal(tx) == SumFunction([i \in DOMAIN tx.ins |-> Amount[tx.ins[i]]])

(***************************************************************************)
(* The elements of S in ascending order; R is a set of pairs that orders S *)
(* strictly.                                                               *)
(***************************************************************************)
Below(S, R, x) == {y \in S : <<y, x>> \in R}
InOrder(S, R) ==
    [i \in 1..Cardinality(S) |-> CHOOSE x \in S : Cardinality(Below(S, R, x)) = i - 1]

-----------------------------------------------------------------------------
(***************************************************************************)
(* Values                                                                  *)
(***************************************************************************)
IsDust(value) ==
    ReapDustThresholdSat > 0 /\ value > 0 /\ value < ReapDustThresholdSat

\* reapTaxForValue, rounded down.
reapTaxForValue(value) == (value * ReapTaxNumerator) \div ReapTaxDenominator

\* The tax after applyReapDustRule: a dust input is taxed away.
Tax(value) == IF IsDust(value) THEN value ELSE reapTaxForValue(value)
Refund(value) == value - Tax(value)

Refunds(ins) == [i \in DOMAIN ins |-> Refund(Amount[ins[i]])]

RefundByScript(ins, s) ==
    SumFunctionOnSet(Refunds(ins), {i \in DOMAIN ins : PkScript[ins[i]] = s})

Refunded(ins) == {PkScript[ins[i]] : i \in {j \in DOMAIN ins : Refunds(ins)[j] > 0}}

-----------------------------------------------------------------------------
(***************************************************************************)
(* The order of REAP inputs and the prefix source                          *)
(***************************************************************************)

\* Seeded fault: the amount does not count.
ReapLess_noAmount(v, o, p) ==
    \/ Expiry(v, o) < Expiry(v, p)
    \/ Expiry(v, o) = Expiry(v, p) /\ OutPointRank[o] < OutPointRank[p]

\* compareReapInputOrderKey, and the byte order of the REAP bucket: expiry,
\* amount, outpoint.
ReapLess(v, o, p) ==
    \/ Expiry(v, o) < Expiry(v, p)
    \/ /\ Expiry(v, o) = Expiry(v, p)
       /\ \/ Amount[o] < Amount[p]
          \/ Amount[o] = Amount[p] /\ OutPointRank[o] < OutPointRank[p]

\* The rows of the REAP bucket that have expired at height h.
ExpiredRows(v, h) == {o \in OutPoint : shouldIndexCreateHeight(v[o]) /\ Expiry(v, o) <= h}

ReapOrder(v) == {r \in OutPoint \X OutPoint : ReapLess(v, r[1], r[2])}

\* The first rows, at most limit of them, of the index for view v.
ReapPrefixCandidates(v, h, limit) ==
    LET rows == InOrder(ExpiredRows(v, h), ReapOrder(v))
    IN  SubSeq(rows, 1, IF limit < Len(rows) THEN limit ELSE Len(rows))

-----------------------------------------------------------------------------
(***************************************************************************)
(* Validation of a transaction at height h against the view v              *)
(***************************************************************************)
checkReapMarker(tx, h) ==
    tx.reap => tx.marker = [height |-> h, count |-> Len(tx.ins), digest |-> tx.ins]

\* Every input is unspent, and expired exactly when the transaction is a REAP.
checkExpirySpendRules(tx, h, v) ==
    h >= EnableAtHeight =>
        \A o \in Range(tx.ins) : v[o] # None /\ (tx.reap <=> h >= Expiry(v, o))

Weight(ins, outs) == BaseWeight + InputWeight * Len(ins) + OutputWeight * (Len(outs) + 1)

DustCount(ins) == Cardinality({i \in DOMAIN ins : IsDust(Amount[ins[i]])})
NormalCount(ins) == Len(ins) - DustCount(ins)

\* A tier cap reached by ins: no further input of either tier may follow.
TierLimitReached(ins) ==
    \/ DustCount(ins) >= ReapDustMaxInputs
    \/ NormalCount(ins) >= ReapMaxInputs

checkReapConsensusHardening(tx, h, v) ==
    tx.reap /\ h >= ReapConsensusAtHeight =>
        /\ ReapMaxWeight > 0 => Weight(tx.ins, tx.outs) <= ReapMaxWeight
        /\ ReapDustMaxInputs = 0 => Len(tx.ins) <= ReapMaxInputs
        /\ \A i \in DOMAIN tx.ins :
              /\ v[tx.ins[i]] # None
              /\ i > 1 => ~ReapLess(v, tx.ins[i], tx.ins[i-1])
              /\ ReapDustMaxInputs > 0 => ~TierLimitReached(SubSeq(tx.ins, 1, i - 1))

PaidTo(tx, s) ==
    SumFunctionOnSet([i \in DOMAIN tx.outs |-> tx.outs[i].value],
                     {i \in DOMAIN tx.outs : tx.outs[i].script = s})

\* Seeded fault: only the total of the refunds is compared.
checkReapTaxRules_total(tx, h, v) ==
    tx.reap /\ h >= EnableAtHeight => OutTotal(tx) = SumFunction(Refunds(tx.ins))

checkReapTaxRules(tx, h, v) ==
    tx.reap /\ h >= EnableAtHeight =>
        /\ \A o \in Range(tx.ins) : v[o] # None
        /\ \A i \in DOMAIN tx.outs : tx.outs[i].value > 0
        /\ OutTotal(tx) = SumFunction(Refunds(tx.ins))
        /\ {tx.outs[i].script : i \in DOMAIN tx.outs} = Refunded(tx.ins)
        /\ \A s \in Refunded(tx.ins) : PaidTo(tx, s) = RefundByScript(tx.ins, s)

\* CheckTransactionInputs: the REAP and expiry rules, then those for any
\* transaction.  Coinbase maturity, which is shorter than the window, is left out.
CheckTransactionInputs(tx, h, v) ==
    /\ checkReapMarker(tx, h)
    /\ checkExpirySpendRules(tx, h, v)
    /\ checkReapConsensusHardening(tx, h, v)
    /\ checkReapTaxRules(tx, h, v)
    /\ \A o \in Range(tx.ins) : v[o] # None
    /\ InTotal(tx) >= OutTotal(tx)

-----------------------------------------------------------------------------
(***************************************************************************)
(* Validation of a block at height h; txs leaves out the coinbase          *)
(***************************************************************************)
\* Seeded fault: any number of REAP transactions.
checkReapBlockHardening_any(txs, h) == TRUE

checkReapBlockHardening(txs, h) ==
    h >= ReapConsensusAtHeight =>
        \A i, j \in DOMAIN txs : txs[i].reap /\ txs[j].reap => i = j

\* findReapTx
IsFirstReap(txs, i) == txs[i].reap /\ \A j \in 1..(i-1) : ~txs[j].reap

\* The first REAP transaction spends the canonical prefix of the expired
\* outputs of view v, the one before the block.
checkReapGlobalPrefix(txs, h, v) ==
    h >= ReapConsensusAtHeight =>
        \A i \in DOMAIN txs : IsFirstReap(txs, i) =>
            txs[i].ins = ReapPrefixCandidates(v, h, Len(txs[i].ins))

\* The view after the first n transactions.
SpentBy(txs, v, n) ==
    [o \in OutPoint |-> IF \E i \in 1..n : o \in Range(txs[i].ins) THEN None ELSE v[o]]

checkConnectBlock(txs, h, v) ==
    /\ checkReapBlockHardening(txs, h)
    /\ checkReapGlobalPrefix(txs, h, v)
    /\ \A i \in DOMAIN txs : CheckTransactionInputs(txs[i], h, SpentBy(txs, v, i - 1))

-----------------------------------------------------------------------------
(***************************************************************************)
(* The miner's side                                                        *)
(***************************************************************************)
PrefixCandidateLimit == ReapMaxInputs + ReapDustMaxInputs

EstimateWeight(ins) ==
    IF ReapDustMaxInputs = 0
    THEN EstBaseWeight + Len(ins) * (EstInputWeightUpper + EstRefundOutputWeight)
    ELSE EstBaseWeight + Len(ins) * EstInputWeight + NormalCount(ins) * EstRefundOutputWeight

CapReached(ins) ==
    IF ReapDustMaxInputs = 0 THEN Len(ins) >= ReapMaxInputs ELSE TierLimitReached(ins)

\* SelectPrefixCandidates takes candidate i after the ones before it.
Takes(cands, i) ==
    /\ ~CapReached(SubSeq(cands, 1, i - 1))
    /\ ReapMaxWeight > 0 /\ i > 1 => EstimateWeight(SubSeq(cands, 1, i)) <= ReapMaxWeight

Longest(N) == CHOOSE n \in N : \A m \in N : m <= n

SelectPrefixCandidates(cands) ==
    SubSeq(cands, 1, Longest({n \in 0..Len(cands) : \A i \in 1..n : Takes(cands, i)}))

ScriptOrder == {r \in Script \X Script : ScriptRank[r[1]] < ScriptRank[r[2]]}

\* BuildBlueprint: one output for each refunded script, in the order of scripts.
BuildBlueprint(ins, h) ==
    LET scripts == InOrder(Refunded(ins), ScriptOrder)
    IN  [reap |-> TRUE, ins |-> ins,
         outs |-> [i \in DOMAIN scripts |->
                     [script |-> scripts[i], value |-> RefundByScript(ins, scripts[i])]],
         marker |-> [height |-> h, count |-> Len(ins), digest |-> ins]]

\* Seeded fault: inputs are trimmed from the front.
Trimmed_first(plan, n) == SubSeq(plan, Len(plan) - n + 1, Len(plan))

Trimmed(plan, n) == SubSeq(plan, 1, n)

\* The transaction of the first n inputs of plan is within the limits.
Fits(plan, n, h, maxTxWeight) ==
    LET tx == BuildBlueprint(Trimmed(plan, n), h)
        w == Weight(tx.ins, tx.outs)
    IN  /\ maxTxWeight > 0 => w < maxTxWeight
        /\ ReapMaxWeight > 0 => w <= ReapMaxWeight

\* BuildBudgetedBlueprint gives up inputs from the end until the weight fits.
\* maxTxWeight is exclusive; 0: none.  The result is a sequence: empty when none fits.
BuildBudgetedBlueprint(plan, h, maxTxWeight) ==
    LET N == {n \in 1..Len(plan) : Fits(plan, n, h, maxTxWeight)}
    IN  IF N = {} THEN <<>> ELSE <<BuildBlueprint(Trimmed(plan, Longest(N)), h)>>

-----------------------------------------------------------------------------
(***************************************************************************)
(* Blocks of any content are put to checkConnectBlock at any tip.  The     *)
(* properties say what the REAP rules achieve together, in terms of the    *)
(* values and the ages of outputs rather than of the checks; and that what *)
(* a miner builds from the same state is accepted.                         *)
(***************************************************************************)

CONSTANTS
    Proposals,         \* block -> transactions that may be in a block that follows it
    MaxBlockTxs,       \* bound on the transactions of a block
    MaxTxWeight        \* the BlockMaxWeight of the miner's policy

Tx == [reap : BOOLEAN, ins : Seq(OutPoint), outs : Seq([script : Script, value : Int]),
       marker : [height : Int, count : Int, digest : Seq(OutPoint)]]

ASSUME ProposalsAssumption ==
    /\ MaxTxWeight \in Nat
    /\ \A b \in Block : Proposals[b] \subseteq Tx

VARIABLES
    tip,      \* the best block
    txs,      \* the transactions of the proposed block, the coinbase left out
    verdict   \* what checkConnectBlock said of it

vars == <<tip, txs, verdict>>

NextHeight == Height[tip] + 1
V == ViewAt(tip)

Init == tip = Genesis /\ txs = <<>> /\ verdict = "open"

AddTx(tx) ==
    /\ verdict = "open"
    /\ Len(txs) < MaxBlockTxs
    /\ txs' = Append(txs, tx)
    /\ UNCHANGED <<tip, verdict>>

CheckConnectBlock ==
    /\ verdict = "open"
    /\ verdict' = IF checkConnectBlock(txs, NextHeight, V) THEN "accepted" ELSE "rejected"
    /\ UNCHANGED <<tip, txs>>

\* The chain moves on, by a block of the tree.
NextBlock(b) ==
    /\ verdict # "open"
    /\ Parent[b] = tip
    /\ tip' = b
    /\ txs' = <<>>
    /\ verdict' = "open"

\* The end of the tree: another block is proposed.
Restart ==
    /\ verdict # "open"
    /\ \A b \in Block : Parent[b] # tip
    /\ txs' = <<>>
    /\ verdict' = "open"
    /\ UNCHANGED tip

Next ==
    \/ \E tx \in Proposals[tip] : AddTx(tx)
    \/ CheckConnectBlock
    \/ \E b \in Block : NextBlock(b)
    \/ Restart

Spec == Init /\ [][Next]_vars

-----------------------------------------------------------------------------
Accepted == verdict = "accepted"
Reaped == UNION {Range(txs[i].ins) : i \in {j \in DOMAIN txs : txs[j].reap}}
Expired(o) == V[o] # None /\ V[o] + WindowBlocks <= NextHeight

\* Once the REAP rules are in force a block reaps oldest first: no expired
\* output that stays behind is older than a reaped one, and among outputs of
\* one age none is smaller (checkReapGlobalPrefix, checkReapConsensusHardening,
\* checkReapBlockHardening).
OldestFirst ==
    Accepted /\ NextHeight >= ReapConsensusAtHeight =>
        \A o \in Reaped, p \in {q \in OutPoint : Expired(q)} \ Reaped :
            V[o] < V[p] \/ (V[o] = V[p] /\ Amount[o] <= Amount[p])

\* What is left of an output after the tax, rounded up; nothing of dust.
Share(o) ==
    IF Amount[o] < ReapDustThresholdSat THEN 0
    ELSE -((-Amount[o] * (ReapTaxDenominator - ReapTaxNumerator)) \div ReapTaxDenominator)

\* Whoever owned an expired output gets back what is left after the tax, per
\* output and rounded in the owner's favour; only dust is lost
\* (checkExpirySpendRules, checkReapTaxRules).
OwnersKeepTheirShare ==
    Accepted /\ NextHeight >= EnableAtHeight =>
        \A s \in Script :
            \A i \in DOMAIN txs :
                LET ins == txs[i].ins
                    lost == {j \in DOMAIN ins : Expired(ins[j]) /\ PkScript[ins[j]] = s}
                IN  \/ lost = {}
                    \/ PaidTo(txs[i], s) >= SumFunctionOnSet([j \in DOMAIN ins |-> Share(ins[j])], lost)

\* A block reaps a bounded number of outputs with a bounded weight, over all of
\* its transactions (checkReapBlockHardening with the limits of
\* checkReapConsensusHardening).
ReapIsBounded ==
    Accepted /\ NextHeight >= ReapConsensusAtHeight =>
        /\ Cardinality(Reaped) <= PrefixCandidateLimit
        /\ ReapMaxWeight > 0 =>
              SumFunctionOnSet([i \in DOMAIN txs |-> Weight(txs[i].ins, txs[i].outs)],
                               {i \in DOMAIN txs : txs[i].reap}) <= ReapMaxWeight

Mined ==
    BuildBudgetedBlueprint(
        SelectPrefixCandidates(ReapPrefixCandidates(V, NextHeight, PrefixCandidateLimit)),
        NextHeight, MaxTxWeight)

\* What the miner selects, trims and builds is accepted; and expired outputs
\* are reaped whenever the oldest one alone fits (SelectPrefixCandidates and
\* BuildBudgetedBlueprint against CheckTransactionInputs).
MinedReapAccepted ==
    txs = <<>> /\ NextHeight >= EnableAtHeight =>
        /\ checkConnectBlock(Mined, NextHeight, V)
        /\ Mined = <<>> =>
              \A o \in OutPoint : Expired(o) =>
                  \E p \in OutPoint : Expired(p) /\
                      LET w == Weight(<<p>>, BuildBlueprint(<<p>>, NextHeight).outs)
                      IN  (MaxTxWeight > 0 /\ w >= MaxTxWeight) \/ (ReapMaxWeight > 0 /\ w > ReapMaxWeight)
=============================================================================
