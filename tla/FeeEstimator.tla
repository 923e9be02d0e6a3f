---------------------------- MODULE FeeEstimator ----------------------------
(***************************************************************************)
(* The fee estimator: it watches transactions enter the pool and blocks    *)
(* come and go, and keeps, for every number of blocks that a transaction   *)
(* waited, a bounded sample of fee rates.                                  *)
(*                                                                         *)
(* A full sample gives up random members to the transactions of a new      *)
(* block; what is given up is kept for the last few blocks, so that a      *)
(* reorganization can take the block back.  On a shutdown the estimator is *)
(* saved with its members as indices into the list of the transactions.    *)
(***************************************************************************)
EXTENDS Integers, Sequences, FiniteSets, FiniteSetsExt, SequencesExt, TLC

CONSTANTS
    FeeTx,            \* transactions, numbered in the order of their hashes
    FeeRate,          \* transaction -> fee rate
    Depth,            \* estimateFeeDepth
    BinSize, MaxReplacements, MaxRollback, MinRegisteredBlocks,
    MaxFeeHeight, MaxBlockTxs   \* bounds on the chain and on its blocks

FeeAssumption ==
    /\ FeeRate \in [FeeTx -> Nat]
    /\ {Depth, BinSize, MaxReplacements, MaxRollback, MinRegisteredBlocks} \subseteq Nat
    /\ MaxReplacements < BinSize

Unmined == -1

VARIABLES
    fe,         \* the estimator of the pool and of the RPC server
    feeChain,   \* the blocks of the best chain: sets of transactions with an identity
    past,       \* the samples before each block that can be rolled back
    orphaned    \* the sync manager has an estimator of its own

feeVars == <<fe, feeChain, past, orphaned>>

NewFeeEstimator ==
    [lastKnownHeight |-> Unmined, numBlocksRegistered |-> 0, observed |-> <<>>,
     bin |-> [i \in 0..Depth - 1 |-> <<>>], dropped |-> <<>>]

FeeTypeOK ==
    /\ fe.lastKnownHeight \in {Unmined} \cup 0..MaxFeeHeight
    /\ DOMAIN fe.observed \subseteq FeeTx
    /\ \A i \in 0..Depth - 1 : fe.bin[i] \in Seq(FeeTx) /\ Len(fe.bin[i]) <= BinSize
    /\ Len(fe.dropped) <= MaxRollback

\* An estimator that has registered its first block, from which heights count.
FirstBlock == [height |-> 0, txs |-> {}]
FeeInit ==
    /\ fe = [NewFeeEstimator EXCEPT !.lastKnownHeight = 0, !.numBlocksRegistered = 1,
                                    !.dropped = <<[block |-> FirstBlock, txs |-> <<>>]>>]
    /\ feeChain = <<>>
    /\ past = <<[i \in 0..Depth - 1 |-> {}]>>
    /\ orphaned = FALSE

Height == Len(feeChain)

\* ObserveTransaction, for a transaction that enters the pool.
Observe(f, t, h) ==
    IF f.lastKnownHeight = Unmined \/ t \in DOMAIN f.observed THEN f
    ELSE [f EXCEPT !.observed = (t :> [observed |-> h, mined |-> Unmined]) @@ @]

-----------------------------------------------------------------------------
(***************************************************************************)
(* RegisterBlock                                                           *)
(***************************************************************************)

\* Seeded faults: a full sample gives up nothing, or what it gives up is not kept.
PlaceTx_grows(r, t, w, pick) ==
    [f |-> [r.f EXCEPT !.observed[t].mined = r.f.lastKnownHeight, !.bin[w] = Append(@, t)],
     count |-> [r.count EXCEPT ![w] = @ + 1],
     dropped |-> r.dropped]

PlaceTx_forgets(r, t, w, pick) ==
    LET bin == r.f.bin[w]
        l == BinSize - (r.count[w] + 1)
        full == Len(bin) = BinSize
    IN  [f |-> [r.f EXCEPT !.observed[t].mined = r.f.lastKnownHeight,
                           !.bin[w] = IF full
                                      THEN [[bin EXCEPT ![pick] = bin[l]] EXCEPT ![l] = t]
                                      ELSE Append(bin, t)],
         count |-> [r.count EXCEPT ![w] = @ + 1],
         dropped |-> r.dropped]

\* A transaction that waited w blocks enters the sample w; pick is the random
\* member that a full sample gives up, among those that this block did not place.
PlaceTx(r, t, w, pick) ==
    LET bin == r.f.bin[w]
        l == BinSize - (r.count[w] + 1)
        full == Len(bin) = BinSize
    IN  [f |-> [r.f EXCEPT !.observed[t].mined = r.f.lastKnownHeight,
                           !.bin[w] = IF full
                                      THEN [[bin EXCEPT ![pick] = bin[l]] EXCEPT ![l] = t]
                                      ELSE Append(bin, t)],
         count |-> [r.count EXCEPT ![w] = @ + 1],
         dropped |-> IF full THEN Append(r.dropped, bin[pick]) ELSE r.dropped]

\* The transactions of a block, in the order of a map: those that were observed,
\* waited less than Depth blocks and do not exceed the replacements of a block.
RegisterTxs(f, h, order, picks) ==
    LET wait(t) == h - f.observed[t].observed - 1
        r0 == [f |-> f, count |-> [i \in 0..Depth - 1 |-> 0], dropped |-> <<>>]
        step(r, t) ==
            IF t \notin DOMAIN f.observed \/ wait(t) >= Depth \/ wait(t) < 0
               \/ r.count[wait(t)] = MaxReplacements
            THEN r
            ELSE LET l == BinSize - (r.count[wait(t)] + 1)
                 IN  PlaceTx(r, t, wait(t), IF picks[t] <= l THEN picks[t] ELSE 1)
    IN  FoldLeft(step, r0, order)

\* Transactions that have waited too long are forgotten.
Forget(f, h) ==
    LET old(t) == f.observed[t].mined = Unmined /\ h - f.observed[t].observed >= Depth
    IN  [f EXCEPT !.observed = [t \in {u \in DOMAIN @ : ~old(u)} |-> @[t]]]

KeepLast(s) == IF Len(s) > MaxRollback THEN SubSeq(s, Len(s) - MaxRollback + 1, Len(s)) ELSE s

RegisterBlock(f, b, h, order, picks) ==
    LET known == [f EXCEPT !.lastKnownHeight = h, !.numBlocksRegistered = @ + 1]
        r == RegisterTxs(known, h, order, picks)
    IN  [Forget(r.f, h) EXCEPT !.dropped = KeepLast(Append(@, [block |-> b, txs |-> r.dropped]))]

\* What makes RegisterBlock fail.
Refused(f, b, h) ==
    \/ f.lastKnownHeight # Unmined /\ h # f.lastKnownHeight + 1
    \/ \E t \in b.txs \cap DOMAIN f.observed : f.observed[t].mined # Unmined

-----------------------------------------------------------------------------
(***************************************************************************)
(* Rollback                                                                *)
(***************************************************************************)

\* The first place at or after i whose transaction was mined at height h.
NextMined(f, w, i, h) ==
    LET at == {j \in i..Len(f.bin[w]) : f.observed[f.bin[w][j]].mined = h}
    IN  IF at = {} THEN 0 ELSE Min(at)

\* Each transaction that the block displaced goes back in the place of one that
\* the block brought.  A place of 0 is the panic in the code.
Restore(f, displaced) ==
    LET h == f.lastKnownHeight
        step(r, o) ==
            LET w == f.observed[o].mined - f.observed[o].observed - 1
                j == NextMined(r.f, w, r.from[w], h)
            IN  IF j = 0 THEN [r EXCEPT !.panic = TRUE]
                ELSE [f |-> [r.f EXCEPT !.observed[r.f.bin[w][j]].mined = Unmined, !.bin[w][j] = o],
                      from |-> [r.from EXCEPT ![w] = j + 1], panic |-> r.panic]
    IN  FoldLeft(step, [f |-> f, from |-> [i \in 0..Depth - 1 |-> 1], panic |-> FALSE], displaced)

\* The rest of what the block brought is taken out and is unmined again.
Unplace(f, h) ==
    LET brought(t) == f.observed[t].mined = h
        stays(i) == SelectSeq(f.bin[i], LAMBDA t : ~brought(t))
    IN  [f EXCEPT !.bin = [i \in 0..Depth - 1 |-> stays(i)],
                  !.observed = [t \in DOMAIN @ |-> IF brought(t) THEN [@[t] EXCEPT !.mined = Unmined]
                                                    ELSE @[t]]]

rollback(f) ==
    LET r == Restore(f, Last(f.dropped).txs)
    IN  [Unplace(r.f, f.lastKnownHeight) EXCEPT !.dropped = Front(@),
                                                !.numBlocksRegistered = @ - 1,
                                                !.lastKnownHeight = @ - 1]

\* Rollback of the best block.  It is the last that was registered, or it was
\* registered too long ago and nothing happens.
RollbackTo(f, b) == IF f.dropped # <<>> /\ Last(f.dropped).block = b THEN rollback(f) ELSE f

-----------------------------------------------------------------------------
(***************************************************************************)
(* Estimates                                                               *)
(***************************************************************************)

\* All rates, highest first, and the middle of the part that belongs to sample n.
Rates(f) ==
    LET all == FlattenSeq([i \in 1..Depth |-> [j \in DOMAIN f.bin[i - 1] |-> FeeRate[f.bin[i - 1][j]]]])
    IN  SortSeq(all, >)

estimateFee(f, n) ==
    LET rates == Rates(f)
        low == FoldFunctionOnSet(+, 0, [i \in 0..Depth - 1 |-> Len(f.bin[i])], 0..n - 2)
        high == low + Len(f.bin[n - 1]) - 1
        mid == (low + (IF high < low THEN low ELSE high)) \div 2
    IN  IF rates = <<>> THEN 0
        ELSE rates[1 + IF mid >= Len(rates) THEN Len(rates) - 1 ELSE mid]

-----------------------------------------------------------------------------
(***************************************************************************)
(* Save and RestoreFeeEstimator: members become indices into the list of   *)
(* the observed transactions; an index that is not known is 0.             *)
(***************************************************************************)

Written(f) == SetToSortSeq(DOMAIN f.observed, <)

Save(f) ==
    LET list == Written(f)
        index(t) == IF t \in Range(list) THEN CHOOSE i \in DOMAIN list : list[i] = t ELSE 1
        indices(seq) == [j \in DOMAIN seq |-> index(seq[j])]
    IN  [f EXCEPT !.observed = [i \in DOMAIN list |-> <<list[i], @[list[i]]>>],
                  !.bin = [i \in DOMAIN @ |-> indices(@[i])],
                  !.dropped = [i \in DOMAIN @ |-> [@[i] EXCEPT !.txs = indices(@)]]]

RestoreFeeEstimator(d) ==
    LET tx(i) == d.observed[i][1]
        txs(seq) == [j \in DOMAIN seq |-> tx(seq[j])]
    IN  [d EXCEPT !.observed = [t \in {tx(i) : i \in DOMAIN d.observed} |->
                                   d.observed[CHOOSE i \in DOMAIN d.observed : tx(i) = t][2]],
                  !.bin = [i \in DOMAIN @ |-> txs(@[i])],
                  !.dropped = [i \in DOMAIN @ |-> [@[i] EXCEPT !.txs = txs(@)]]]

-----------------------------------------------------------------------------
InChain == UNION {feeChain[h].txs : h \in DOMAIN feeChain}
Samples(f) == [i \in 0..Depth - 1 |-> Range(f.bin[i])]

\* addTransaction in the pool.
ObserveTransaction(t) ==
    /\ t \notin InChain
    /\ fe' = Observe(fe, t, Height)
    /\ UNCHANGED <<feeChain, past, orphaned>>

\* A block is connected; transactions that were never observed do not matter.
\* A node that is not current does not register it; when the estimator refuses
\* it the sync manager goes on with one of its own.
FeeConnect(txs, current) ==
    LET b == [height |-> Height + 1, txs |-> txs]
    IN  /\ Height < MaxFeeHeight /\ txs \cap InChain = {}
        /\ feeChain' = Append(feeChain, b)
        /\ IF ~current \/ orphaned THEN UNCHANGED <<fe, past, orphaned>>
           ELSE IF Refused(fe, b, Height + 1)
           THEN orphaned' = TRUE /\ past' = <<>> /\ UNCHANGED fe
           ELSE /\ \E order \in SetToSeqs(txs), picks \in [txs -> 1..BinSize - 1] :
                      fe' = RegisterBlock(fe, b, Height + 1, order, picks)
                /\ past' = KeepLast(Append(past, Samples(fe)))
                /\ UNCHANGED orphaned

FeeDisconnect ==
    /\ feeChain # <<>>
    /\ feeChain' = Front(feeChain)
    /\ IF orphaned THEN UNCHANGED <<fe, past>>
       ELSE /\ fe' = RollbackTo(fe, Last(feeChain))
            /\ past' = IF fe' # fe THEN Front(past) ELSE past
    /\ UNCHANGED orphaned

\* Shutdown and start: an estimator that is behind is replaced.
FeeRestart ==
    /\ LET f == RestoreFeeEstimator(Save(fe))
       IN  IF f.lastKnownHeight = Height THEN fe' = f /\ UNCHANGED past
           ELSE fe' = NewFeeEstimator /\ past' = <<>>
    /\ orphaned' = FALSE
    /\ UNCHANGED feeChain

FeeNext ==
    \/ \E t \in FeeTx : ObserveTransaction(t)
    \/ \E txs \in SUBSET DOMAIN fe.observed, current \in BOOLEAN :
          Cardinality(txs) <= MaxBlockTxs /\ FeeConnect(txs, current)
    \/ FeeDisconnect
    \/ FeeRestart

-----------------------------------------------------------------------------
(***************************************************************************)
(* Properties                                                              *)
(***************************************************************************)

\* Taking a block back gives exactly the samples from before the block, whatever
\* it displaced at random and in whatever order, for as many blocks as are kept;
\* and never finds a displaced transaction without a place (rollback, after
\* RegisterBlock and after a restart).
RollbackRestores ==
    past # <<>> =>
        /\ ~Restore(fe, Last(fe.dropped).txs).panic
        /\ Samples(rollback(fe)) = Last(past)

\* A transaction is in one sample at most, once, and in the one that its waiting
\* time says.
SampledOnce ==
    \A i \in 0..Depth - 1 : \A j \in DOMAIN fe.bin[i] :
        LET t == fe.bin[i][j]
        IN  /\ t \in DOMAIN fe.observed
            /\ fe.observed[t].mined - fe.observed[t].observed - 1 = i
            /\ \A k \in DOMAIN fe.bin[i] : fe.bin[i][k] = t => k = j

\* The longer one may wait, the less one is told to pay.
EstimatesFall == \A n \in 1..Depth - 1 : estimateFee(fe, n) >= estimateFee(fe, n + 1)

\* What is saved is restored: every member of a sample and everything displaced
\* is still in the list that the indices point into.
SavedIsRestored == RestoreFeeEstimator(Save(fe)) = fe
=============================================================================
