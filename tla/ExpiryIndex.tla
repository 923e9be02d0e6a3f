---------------------------- MODULE ExpiryIndex ----------------------------
(***************************************************************************)
(* The live maintenance of the expiry index.  The block chain hands the    *)
(* index manager one block at a time, inside an open database transaction; *)
(* the manager checks its own tip, the index checks the commitment and     *)
(* then works through the transactions of the block.  A step of this       *)
(* machine is one transaction of the block, so an error, a failed commit   *)
(* or a crash can come between any two of them.                            *)
(***************************************************************************)
EXTENDS ExpiryBuckets

VARIABLES
    db,      \* the committed index content
    mgrTip,  \* the committed tip of the index manager; it is written in the
             \* same database transaction as the best state of the chain
    work,    \* the index content as the open transaction sees it
    op,      \* what the open transaction does
    blk,     \* the block it connects or disconnects
    pos,     \* transactions of blk that are applied in work
    err,     \* why the last transaction was rolled back
    curTipHeight  \* the in-memory tip of the index

vars == <<db, mgrTip, work, op, blk, pos, err, curTipHeight>>

Ops == {"idle", "connect", "connected", "disconnect", "disconnected", "abort"}
Errs == {"none", "commitment", "inconsistent", "database"}

TypeOK ==
    /\ db \in IndexType
    /\ work \in IndexType
    /\ mgrTip \in Block \cup {NoBlock}
    /\ op \in Ops
    /\ blk \in Block \cup {NoBlock}
    /\ pos \in Nat
    /\ err \in Errs
    /\ curTipHeight \in Int

\* A new database: Create has made the buckets and nothing is indexed yet.
Init ==
    /\ db = EmptyIndex
    /\ mgrTip = NoBlock
    /\ work = EmptyIndex
    /\ op = "idle"
    /\ blk = NoBlock
    /\ pos = 0
    /\ err = "none"
    /\ curTipHeight = -1

\* Seeded fault: the commitment is not checked.
StartConnect_unchecked(b) ==
    /\ op = "idle"
    /\ Parent[b] = mgrTip
    /\ blk' = b
    /\ op' = "connect"
    /\ work' = db
    /\ pos' = 0
    /\ err' = "none"
    /\ UNCHANGED <<db, mgrTip, curTipHeight>>

(***************************************************************************)
(* dbIndexConnectBlock and the head of ExpiryIndex.ConnectBlock.  Below    *)
(* StartScanHeight only the persisted tip moves: neither the accumulator   *)
(* nor curTipHeight is touched.                                            *)
(***************************************************************************)
StartConnect(b) ==
    /\ op = "idle"
    /\ Parent[b] = mgrTip
    /\ blk' = b
    /\ \/ /\ ~IsIndexingEnabled(Height[b])
          /\ op' = "connected"
          /\ work' = SetTip(db, b, Height[b])
          /\ pos' = NumTxs[b]
          /\ err' = "none"
       \/ /\ IsIndexingEnabled(Height[b])
          /\ validateExpiryCommitment(b, db.acc)
          /\ op' = "connect"
          /\ work' = db
          /\ pos' = 0
          /\ err' = "none"
       \/ /\ IsIndexingEnabled(Height[b])
          /\ ~validateExpiryCommitment(b, db.acc)
          /\ op' = "abort"
          /\ work' = db
          /\ pos' = 0
          /\ err' = "commitment"
    /\ UNCHANGED <<db, mgrTip, curTipHeight>>

\* One transaction of the block: inputs leave the index, outputs enter it.
ConnectNextTx ==
    /\ op = "connect"
    /\ pos < NumTxs[blk]
    /\ LET ins == Ins[blk][pos + 1]
           bad == InconsistentIndex(work, ins)
       IN  /\ work' = IF bad THEN work
                      ELSE ConnectTx(work, ins, Outs[blk][pos + 1], Height[blk])
           /\ pos' = IF bad THEN pos ELSE pos + 1
           /\ op' = IF bad THEN "abort" ELSE op
           /\ err' = IF bad THEN "inconsistent" ELSE err
    /\ UNCHANGED <<db, mgrTip, blk, curTipHeight>>

\* The tail of ConnectBlock: the in-memory tip moves before the commit.
FinishConnect ==
    /\ op = "connect"
    /\ pos = NumTxs[blk]
    /\ work' = SetTip(work, blk, Height[blk])
    /\ curTipHeight' = Height[blk]
    /\ op' = "connected"
    /\ UNCHANGED <<db, mgrTip, blk, pos, err>>

(***************************************************************************)
(* dbIndexDisconnectBlock and the head of ExpiryIndex.DisconnectBlock for  *)
(* the block at the tip.  The genesis block is never disconnected.         *)
(***************************************************************************)
StartDisconnect ==
    /\ op = "idle"
    /\ mgrTip \notin {NoBlock, Genesis}
    /\ blk' = mgrTip
    /\ err' = "none"
    /\ \/ /\ ~IsIndexingEnabled(Height[mgrTip])
          /\ op' = "disconnected"
          /\ work' = SetTip(db, Parent[mgrTip], Height[mgrTip] - 1)
          /\ pos' = 0
       \/ /\ IsIndexingEnabled(Height[mgrTip])
          /\ op' = "disconnect"
          /\ work' = db
          /\ pos' = NumTxs[mgrTip]
    /\ UNCHANGED <<db, mgrTip, curTipHeight>>

\* One transaction of the block, last first, with the spend journal's heights.
DisconnectNextTx ==
    /\ op = "disconnect"
    /\ pos > 0
    /\ LET outs == Outs[blk][pos]
           bad == InconsistentIndex(work, IndexedOuts(outs, Height[blk]))
       IN  /\ work' = IF bad THEN work
                      ELSE DisconnectTx(work, Ins[blk][pos], outs, Height[blk], Live[blk][pos - 1])
           /\ pos' = IF bad THEN pos ELSE pos - 1
           /\ op' = IF bad THEN "abort" ELSE op
           /\ err' = IF bad THEN "inconsistent" ELSE err
    /\ UNCHANGED <<db, mgrTip, blk, curTipHeight>>

FinishDisconnect ==
    /\ op = "disconnect"
    /\ pos = 0
    /\ work' = SetTip(work, Parent[blk], Height[blk] - 1)
    /\ curTipHeight' = Height[blk] - 1
    /\ op' = "disconnected"
    /\ UNCHANGED <<db, mgrTip, blk, pos, err>>

\* The manager stores its tip and the database commits everything at once.
Commit ==
    /\ op \in {"connected", "disconnected"}
    /\ db' = work
    /\ mgrTip' = IF op = "connected" THEN blk ELSE Parent[blk]
    /\ op' = "idle"
    /\ UNCHANGED <<work, blk, pos, err, curTipHeight>>

\* The database fails under the open transaction, at the latest in its commit.
DatabaseError ==
    /\ op \in {"connect", "connected", "disconnect", "disconnected"}
    /\ op' = "abort"
    /\ err' = "database"
    /\ UNCHANGED <<db, mgrTip, work, blk, pos, curTipHeight>>

\* Seeded fault: what the failed transaction wrote stays.
Rollback_leaks ==
    /\ op = "abort"
    /\ op' = "idle"
    /\ db' = work
    /\ UNCHANGED <<mgrTip, work, blk, pos, err, curTipHeight>>

\* An error rolls the transaction back; curTipHeight is not restored.
Rollback ==
    /\ op = "abort"
    /\ op' = "idle"
    /\ work' = db
    /\ UNCHANGED <<db, mgrTip, blk, pos, err, curTipHeight>>

\* The process dies and starts again: Init reads the persisted tip.
Crash ==
    /\ op' = "idle"
    /\ work' = db
    /\ blk' = NoBlock
    /\ pos' = 0
    /\ err' = "none"
    /\ curTipHeight' = db.tipHeight
    /\ UNCHANGED <<db, mgrTip>>

Next ==
    \/ \E b \in Block : StartConnect(b)
    \/ ConnectNextTx \/ FinishConnect
    \/ StartDisconnect \/ DisconnectNextTx \/ FinishDisconnect
    \/ Commit \/ DatabaseError \/ Rollback \/ Crash

Spec == Init /\ [][Next]_vars

-----------------------------------------------------------------------------
(***************************************************************************)
(* Properties                                                              *)
(***************************************************************************)

\* What the four buckets say of each other.
Agree(ix) ==
    LET T == Present(ix, OutPoint) IN
    /\ ix.e2o = {<<ix.o2e[o], o>> : o \in T}
    /\ ix.reap = {<<ix.o2e[o], Amount[o], o>> : o \in T}
    /\ \A o \in OutPoint :
          ix.o2r[o] = IF o \in T THEN <<ix.o2e[o], Amount[o]>> ELSE NoKey

\* At every point of a connect or a disconnect, and in what is committed, the
\* scan rows, the REAP prefix rows and the two reverse buckets hold the same
\* outpoints under the same expiry keys and amounts (putTxOutMapping writes
\* four buckets, disconnectTxOut deletes from four buckets).
BucketsAgree == Agree(db) /\ Agree(work)

\* The committed index is exactly what the unspent outputs at its own tip
\* determine, whatever blocks were connected, disconnected, rejected or cut
\* short before (ConnectBlock and DisconnectBlock keep no other history), and
\* its tip is the tip of the index manager.
IndexMatchesTip ==
    /\ db.tipHash = mgrTip
    /\ db.tipHeight = IF mgrTip = NoBlock THEN -1 ELSE Height[mgrTip]
    /\ db.o2e = ExpirySet(ViewAt(mgrTip))

\* The accumulator is the hash of the indexed set: every entry counts once and
\* nothing else counts, though Add and Remove never look at the accumulator.
RootMatchesSet == db.acc = Root(db.o2e) /\ work.acc = Root(work.o2e)

\* disconnectTxOut never meets the "inconsistent index" errors it can return.
NeverInconsistent == err # "inconsistent"

\* The index and its open transaction are sound: the types, and the four
\* statements above.
IndexSound ==
    /\ TypeOK
    /\ BucketsAgree /\ IndexMatchesTip /\ RootMatchesSet /\ NeverInconsistent

\* validateExpiryCommitment refuses a block only when its commitment is wrong
\* for the unspent outputs before the block: a block built by an honest miner
\* on this parent is never refused, whatever happened to the index before.
HonestCommitmentAccepted ==
    err = "commitment" =>
        ~validateExpiryCommitment(blk, Root(ExpirySet(ViewAt(Parent[blk]))))

\* A block enters the committed chain only with a commitment that is right for
\* the unspent outputs of its parent (the pre-state root of ConnectBlock),
\* from StartScanHeight on.
CommitmentBindsParent ==
    [][\A b \in Block : mgrTip' = b /\ Parent[b] = mgrTip /\ IsIndexingEnabled(Height[b]) =>
          validateExpiryCommitment(b, Root(ExpirySet(ViewAt(mgrTip))))]_vars

\* The index keeps the promise of ExpiryIndexSpec.
Abstract == INSTANCE ExpiryIndexSpec WITH tip <- mgrTip, content <- db.o2e, root <- db.acc
ImplementsSpec == Abstract!Spec
=============================================================================
