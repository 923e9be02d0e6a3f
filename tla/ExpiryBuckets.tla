--------------------------- MODULE ExpiryBuckets ----------------------------
(***************************************************************************)
(* The expiry parameters of the network, and what they say of an unspent   *)
(* output: when it expires, and whether the expiry index holds it.         *)
(***************************************************************************)
EXTENDS BlockTree

CONSTANTS
    Commitment,                      \* block -> expiry commitments of its coinbase, in order
    WindowBlocks,                    \* blocks an output lives before it expires
    StartScanHeight,                 \* first height the index looks at
    ExpiryCommitmentEnableAtHeight   \* first height that needs a commitment; 0: never

\* params.go: an output created at height h expires WindowBlocks later.
CalculateExpiryKey(h) == h + WindowBlocks

\* params.go
IsIndexingEnabled(h) == h >= StartScanHeight

\* The genesis coinbase is not spendable, so creation height 0 is never indexed.
shouldIndexCreateHeight(h) == h > 0 /\ h >= StartScanHeight

isCommitmentActive(h) ==
    ExpiryCommitmentEnableAtHeight > 0 /\ h >= ExpiryCommitmentEnableAtHeight

\* Expiry keys that occur, and the elements that MuHash adds and removes.
Key == {CalculateExpiryKey(Height[b]) : b \in Block}
Entry == OutPoint \X Key

(***************************************************************************)
(* The expiry set that a view determines: the abstract content of the      *)
(* index.  An outpoint maps to its expiry height, or to None.              *)
(***************************************************************************)
ExpirySet(v) ==
    [o \in OutPoint |-> IF shouldIndexCreateHeight(v[o])
                        THEN CalculateExpiryKey(v[o]) ELSE None]

\* The multiset MuHash hashes for that set, as multiplicities.
Root(exp) == [e \in Entry |-> IF exp[e[1]] = e[2] THEN 1 ELSE 0]

-----------------------------------------------------------------------------
ASSUME ParamAssumption ==
    /\ WindowBlocks \in Nat \ {0}
    /\ StartScanHeight \in Nat
    /\ ExpiryCommitmentEnableAtHeight \in Nat

-----------------------------------------------------------------------------
(***************************************************************************)
(* The persisted content of the expiry index and the operations on it that *)
(* ConnectBlock and DisconnectBlock are made of.  The content is a record: *)
(*   o2e   outpoint -> expiry key              (bktOutpoint2Expiry)        *)
(*   e2o   set of <<expiry, outpoint>>         (bktExpiry2Outpoints)       *)
(*   reap  set of <<expiry, amount, outpoint>> (bktReapStrictCandidates)   *)
(*   o2r   outpoint -> its key in reap         (bktOutpoint2ReapStrict)    *)
(*   acc   the MuHash accumulator, as the net number of times that each    *)
(*         element was added: two states have the same digest exactly when *)
(*         these multiplicities agree                                      *)
(*   tipHeight, tipHash   the indexed tip                                  *)
(***************************************************************************)

\* An outpoint without a key in the REAP bucket.
NoKey == <<None, None>>

EmptyAcc == [e \in Entry |-> 0]

\* The buckets after Create, or after clearExpiryIndexBuckets.
EmptyIndex ==
    [o2e |-> EmptyView, e2o |-> {}, reap |-> {},
     o2r |-> [o \in OutPoint |-> NoKey], acc |-> EmptyAcc,
     tipHeight |-> -1, tipHash |-> NoBlock]

IndexType ==
    [o2e : [OutPoint -> Key \cup {None}], e2o : SUBSET (Int \X OutPoint),
     reap : SUBSET (Int \X Int \X OutPoint), o2r : [OutPoint -> Int \X Int],
     acc : [Entry -> Int], tipHeight : Int, tipHash : Block \cup {NoBlock}]

\* The outpoints of S that connectTxOut stores; hs gives the creation heights.
Indexable(S, hs) == {o \in S : shouldIndexCreateHeight(hs[o])}

\* Seeded faults of connectTxOut, used to test the properties: one adds the
\* window twice, one forgets the outpoint-to-REAP-key row.
connectTxOut_addsTwice(ix, S, hs) ==
    LET T == Indexable(S, hs)
        k(o) == CalculateExpiryKey(CalculateExpiryKey(hs[o]))
    IN  [ix EXCEPT !.o2e = [o \in OutPoint |-> IF o \in T THEN k(o) ELSE @[o]],
                   !.e2o = @ \cup {<<k(o), o>> : o \in T},
                   !.reap = @ \cup {<<k(o), Amount[o], o>> : o \in T}]

connectTxOut_noReverseKey(ix, S, hs) ==
    LET T == Indexable(S, hs)
        k(o) == CalculateExpiryKey(hs[o])
    IN  [ix EXCEPT !.o2e = [o \in OutPoint |-> IF o \in T THEN k(o) ELSE @[o]],
                   !.e2o = @ \cup {<<k(o), o>> : o \in T},
                   !.reap = @ \cup {<<k(o), Amount[o], o>> : o \in T}]

\* connectTxOut on every outpoint of S, created at the heights hs.
connectTxOut(ix, S, hs) ==
    LET T == Indexable(S, hs)
        k(o) == CalculateExpiryKey(hs[o])
    IN  [ix EXCEPT
           !.o2e  = [o \in OutPoint |-> IF o \in T THEN k(o) ELSE @[o]],
           !.e2o  = @ \cup {<<k(o), o>> : o \in T},
           !.reap = @ \cup {<<k(o), Amount[o], o>> : o \in T},
           !.o2r  = [o \in OutPoint |-> IF o \in T THEN <<k(o), Amount[o]>> ELSE @[o]]]

\* The outpoints of S that have an entry: the others are left alone.
Present(ix, S) == {o \in S : ix.o2e[o] # None}

\* Seeded fault: the REAP prefix row of a spent output stays behind.
disconnectTxOut_keepsReapRow(ix, S) ==
    LET T == Present(ix, S)
    IN  [ix EXCEPT
           !.o2e = [o \in OutPoint |-> IF o \in T THEN None ELSE @[o]],
           !.e2o = @ \ {<<ix.o2e[o], o>> : o \in T},
           !.o2r = [o \in OutPoint |-> IF o \in T THEN NoKey ELSE @[o]]]

\* disconnectTxOut on every outpoint of S.
disconnectTxOut(ix, S) ==
    LET T == Present(ix, S)
    IN  [ix EXCEPT
           !.o2e  = [o \in OutPoint |-> IF o \in T THEN None ELSE @[o]],
           !.e2o  = @ \ {<<ix.o2e[o], o>> : o \in T},
           !.reap = @ \ {<<ix.o2r[o][1], ix.o2r[o][2], o>> : o \in T},
           !.o2r  = [o \in OutPoint |-> IF o \in T THEN NoKey ELSE @[o]]]

\* disconnectTxOut returns an "inconsistent index" error for some outpoint of S.
InconsistentIndex(ix, S) ==
    \E o \in Present(ix, S) :
        \/ <<ix.o2e[o], o>> \notin ix.e2o
        \/ ix.o2r[o] = NoKey
        \/ <<ix.o2r[o][1], ix.o2r[o][2], o>> \notin ix.reap

\* MuHash Add and Remove of every element of D.
MuAdd(acc, D) == [e \in Entry |-> IF e \in D THEN acc[e] + 1 ELSE acc[e]]
MuRemove(acc, D) == [e \in Entry |-> IF e \in D THEN acc[e] - 1 ELSE acc[e]]

\* The outputs that ConnectBlock indexes for a transaction at height h.
IndexedOuts(outs, h) ==
    {o \in outs : shouldIndexCreateHeight(h) /\ o \in Spendable}

\* Seeded fault: spent outputs leave the buckets but not the accumulator.
ConnectTx_noRemove(ix, ins, outs, h) ==
    LET new == IndexedOuts(outs, h)
        added == {<<o, CalculateExpiryKey(h)>> : o \in new}
    IN  [connectTxOut(disconnectTxOut(ix, ins), new, [o \in new |-> h])
           EXCEPT !.acc = MuAdd(ix.acc, added)]

(***************************************************************************)
(* The loop body of ConnectBlock: one transaction at height h.  An input   *)
(* leaves the accumulator only when it has an entry; an output enters it   *)
(* whether or not it has one already.                                      *)
(***************************************************************************)
ConnectTx(ix, ins, outs, h) ==
    LET spent == {<<o, ix.o2e[o]>> : o \in Present(ix, ins)}
        new == IndexedOuts(outs, h)
        added == {<<o, CalculateExpiryKey(h)>> : o \in new}
    IN  [connectTxOut(disconnectTxOut(ix, ins), new, [o \in new |-> h])
           EXCEPT !.acc = MuAdd(MuRemove(ix.acc, spent), added)]

(***************************************************************************)
(* The loop body of DisconnectBlock: the outputs of the transaction leave  *)
(* the index and the accumulator, then its inputs come back with the       *)
(* creation heights hs of the spend journal.                               *)
(***************************************************************************)
DisconnectTx(ix, ins, outs, h, hs) ==
    LET gone == IndexedOuts(outs, h)
        removed == {<<o, CalculateExpiryKey(h)>> : o \in gone}
        back == Indexable(ins, hs)
        restored == {<<o, CalculateExpiryKey(hs[o])>> : o \in back}
    IN  [connectTxOut(disconnectTxOut(ix, gone), back, hs)
           EXCEPT !.acc = MuAdd(MuRemove(ix.acc, removed), restored)]

\* dbPutAccumulatorTipHash and dbPutTipHeightIndexed.
SetTip(ix, b, h) == [ix EXCEPT !.tipHash = b, !.tipHeight = h]

\* ExpiryCommitmentVersion
CommitmentVersion == 1

(***************************************************************************)
(* validateExpiryCommitment: once commitments are active the coinbase must *)
(* carry exactly one, of the current version, with the root of the state   *)
(* before the block.                                                       *)
(***************************************************************************)
validateExpiryCommitment(b, root) ==
    isCommitmentActive(Height[b]) =>
        /\ Len(Commitment[b]) = 1
        /\ Commitment[b][1].version = CommitmentVersion
        /\ Commitment[b][1].root = root
=============================================================================
