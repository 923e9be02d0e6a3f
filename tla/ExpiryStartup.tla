--------------------------- MODULE ExpiryStartup ---------------------------
(***************************************************************************)
(* How a node brings its expiry index up to date when it starts, composed  *)
(* with what happens to the chain and to the database of unspent outputs   *)
(* before and after.                                                       *)
(*                                                                         *)
(* The order of a start: --reindex-expiry clears the index; the index      *)
(* manager initialises it (a new index version clears it, too) and         *)
(* connects the blocks it has not seen; the chain replays blocks into its  *)
(* cache of unspent outputs (see UtxoCache); SetChainAccessor runs         *)
(* smartRebuild.  Only then does the node process blocks.  A fast rebuild  *)
(* reads the unspent outputs from the database, in batches, each in a      *)
(* database transaction of its own; a catch-up connects block by block.    *)
(***************************************************************************)
EXTENDS ExpiryBuckets, FiniteSetsExt

CONSTANTS
    DefaultBatchSize,      \* outputs that one batch of a fast rebuild writes
    FastRebuildThreshold,  \* a lag above it is repaired by a fast rebuild
    ReindexAfterCrash,     \* the index may be reset when the database of unspent
                           \* outputs lags behind the best block
    MaxCrashes,            \* bound on the unclean shutdowns
    MaxFails               \* bound on the failures of database transactions

ASSUME StartupAssumption ==
    /\ DefaultBatchSize \in Nat \ {0}
    /\ FastRebuildThreshold \in Nat
    /\ ReindexAfterCrash \in BOOLEAN
    /\ MaxCrashes \in Nat
    /\ MaxFails \in Nat

VARIABLES
    best,         \* the best block in the database
    diskHash,     \* the block whose unspent outputs the database holds
    db,           \* the index content
    mgrTip,       \* the tip of the index manager
    version,      \* the stored index version
    phase,        \* how far the node has started
    curTipHeight, \* the tip as the index remembers it in memory
    todo,         \* the unspent outputs that a fast rebuild has still to write
    mh,           \* the accumulator that a fast rebuild has computed so far
    nextHeight,   \* the height that a catch-up connects next
    crashes,      \* unclean shutdowns so far
    fails         \* failed transactions so far

chainVars == <<best, diskHash, mgrTip>>
rebuildVars == <<todo, mh, nextHeight>>
vars == <<chainVars, db, version, phase, curTipHeight, rebuildVars, crashes, fails>>

Phases == {"down", "init", "catchup", "replay", "accessor", "fast", "incremental", "up"}

TypeOK ==
    /\ best \in Block /\ diskHash \in Block
    /\ mgrTip \in Block \cup {NoBlock}
    /\ db \in IndexType
    /\ version \in {"old", "current"}
    /\ phase \in Phases
    /\ curTipHeight \in Int
    /\ todo \subseteq OutPoint
    /\ mh \in [Entry -> Int]
    /\ nextHeight \in Nat
    /\ crashes \in 0..MaxCrashes
    /\ fails \in 0..MaxFails

\* The chain that ends in a block.
Ancestors[b \in Block] == {b} \cup (IF b = Genesis THEN {} ELSE Ancestors[Parent[b]])

\* ExpiryIndex.ConnectBlock and DisconnectBlock, for a whole block.
ConnectBlock(ix, b) ==
    LET after[t \in 0..NumTxs[b]] ==
          IF t = 0 THEN ix
          ELSE ConnectTx(after[t-1], Ins[b][t], Outs[b][t], Height[b])
    IN  SetTip(IF IsIndexingEnabled(Height[b]) THEN after[NumTxs[b]] ELSE ix, b, Height[b])

DisconnectBlock(ix, b) ==
    LET undone[t \in 0..NumTxs[b]] ==
          IF t = NumTxs[b] THEN ix
          ELSE DisconnectTx(undone[t+1], Ins[b][t+1], Outs[b][t+1], Height[b], Live[b][t])
    IN  SetTip(IF IsIndexingEnabled(Height[b]) THEN undone[0] ELSE ix,
               Parent[b], Height[b] - 1)

\* ConnectBlock refuses the block.
Refused(ix, b) == IsIndexingEnabled(Height[b]) /\ ~validateExpiryCommitment(b, ix.acc)

\* The in-memory tip that ConnectBlock leaves: below StartScanHeight the old one.
TipAfter(h) == IF IsIndexingEnabled(h) THEN h ELSE curTipHeight

(***************************************************************************)
(* A running node                                                          *)
(***************************************************************************)

\* The first start of a node: the genesis block is written, the index created.
Init ==
    /\ best = Genesis /\ diskHash = Genesis /\ mgrTip = NoBlock
    /\ db = EmptyIndex
    /\ version = "current"
    /\ phase = "init"
    /\ curTipHeight = -1
    /\ todo = {} /\ mh = EmptyAcc /\ nextHeight = 0
    /\ crashes = 0 /\ fails = 0

\* connectBlock on the chain, the manager and the index: one transaction.
ConnectBest(b) ==
    /\ phase = "up"
    /\ Parent[b] = best /\ mgrTip = best
    /\ ~Refused(db, b)
    /\ best' = b /\ mgrTip' = b
    /\ db' = ConnectBlock(db, b)
    /\ curTipHeight' = TipAfter(Height[b])
    /\ UNCHANGED <<diskHash, version, phase, rebuildVars, crashes, fails>>

\* disconnectBlock: the unspent outputs are flushed in the same transaction.
DisconnectBest ==
    /\ phase = "up"
    /\ best # Genesis /\ mgrTip = best
    /\ best' = Parent[best] /\ mgrTip' = Parent[best] /\ diskHash' = Parent[best]
    /\ db' = DisconnectBlock(db, best)
    /\ curTipHeight' = IF IsIndexingEnabled(Height[best]) THEN Height[best] - 1
                       ELSE curTipHeight
    /\ UNCHANGED <<version, phase, rebuildVars, crashes, fails>>

\* The cache of unspent outputs is flushed.
FlushUtxoCache ==
    /\ phase = "up"
    /\ diskHash # best
    /\ diskHash' = best
    /\ UNCHANGED <<best, mgrTip, db, version, phase, curTipHeight, rebuildVars, crashes, fails>>

\* A clean shutdown flushes; a crash does not.
Shutdown ==
    /\ phase = "up"
    /\ diskHash' = best
    /\ phase' = "down"
    /\ UNCHANGED <<best, mgrTip, db, version, curTipHeight, rebuildVars, crashes, fails>>

Crash ==
    /\ phase # "down"
    /\ crashes < MaxCrashes
    /\ crashes' = crashes + 1
    /\ phase' = "down"
    /\ curTipHeight' = -1
    /\ todo' = {} /\ mh' = EmptyAcc /\ nextHeight' = 0
    /\ UNCHANGED <<chainVars, db, version, fails>>

\* The operator installs a release with another index version.
InstallRelease ==
    /\ phase = "down"
    /\ ReindexAfterCrash \/ diskHash = best
    /\ version' = "old"
    /\ UNCHANGED <<chainVars, db, phase, curTipHeight, rebuildVars, crashes, fails>>

(***************************************************************************)
(* A start                                                                 *)
(***************************************************************************)

\* The node starts, with or without --reindex-expiry.
Boot ==
    /\ phase = "down"
    /\ phase' = "init"
    /\ curTipHeight' = -1
    /\ \/ UNCHANGED <<db, version>>
       \/ /\ ReindexAfterCrash \/ diskHash = best
          /\ db' = EmptyIndex
          /\ version' = "current"
    /\ UNCHANGED <<chainVars, rebuildVars, crashes, fails>>

\* Seeded fault: the buckets of the old version are kept.
InitIndex_keepsOld ==
    /\ phase = "init"
    /\ version' = "current"
    /\ curTipHeight' = IF version = "old" THEN -1 ELSE db.tipHeight
    /\ phase' = "catchup"
    /\ db' = IF version = "old" THEN SetTip(db, db.tipHash, -1) ELSE db
    /\ UNCHANGED <<chainVars, rebuildVars, crashes, fails>>

\* ExpiryIndex.Init: another version clears the index in one transaction.
InitIndex ==
    /\ phase = "init"
    /\ db' = IF version = "old" THEN EmptyIndex ELSE db
    /\ version' = "current"
    /\ curTipHeight' = db'.tipHeight
    /\ phase' = "catchup"
    /\ UNCHANGED <<chainVars, rebuildVars, crashes, fails>>

\* Manager.Init connects the next block between its own tip and the best block;
\* the node does not start when the index refuses it.
ManagerCatchUp ==
    /\ phase = "catchup"
    /\ mgrTip # best
    /\ \E b \in Ancestors[best] :
          /\ Parent[b] = mgrTip
          /\ IF Refused(db, b) THEN phase' = "down" /\ UNCHANGED <<db, mgrTip, curTipHeight>>
             ELSE /\ db' = ConnectBlock(db, b)
                  /\ mgrTip' = b
                  /\ curTipHeight' = TipAfter(Height[b])
                  /\ UNCHANGED phase
    /\ UNCHANGED <<best, diskHash, version, rebuildVars, crashes, fails>>

ManagerCaughtUp ==
    /\ phase = "catchup"
    /\ mgrTip = best
    /\ phase' = "replay"
    /\ UNCHANGED <<chainVars, db, version, curTipHeight, rebuildVars, crashes, fails>>

\* InitConsistentState: the replay may flush at any block it passes.
InitConsistentState ==
    /\ phase = "replay"
    /\ \/ phase' = "accessor" /\ UNCHANGED diskHash
       \/ /\ diskHash # best
          /\ \E b \in Ancestors[best] : Parent[b] = diskHash /\ diskHash' = b
          /\ UNCHANGED phase
    /\ UNCHANGED <<best, mgrTip, db, version, curTipHeight, rebuildVars, crashes, fails>>

Lag == Height[best] - curTipHeight
WantsFastRebuild == curTipHeight = -1 \/ Lag > FastRebuildThreshold

\* smartRebuild when no fast rebuild is wanted: catch up, or nothing to do.
StartCatchUp ==
    /\ phase = "accessor"
    /\ ~WantsFastRebuild
    /\ phase' = IF Lag > 0 THEN "incremental" ELSE "up"
    /\ nextHeight' = curTipHeight + 1
    /\ UNCHANGED <<chainVars, db, version, curTipHeight, todo, mh, crashes, fails>>

\* Seeded fault: a fast rebuild writes over what is there.
StartFastRebuild_noClear ==
    /\ phase = "accessor"
    /\ WantsFastRebuild
    /\ db' = SetTip(db, NoBlock, -1)
    /\ curTipHeight' = -1
    /\ todo' = {o \in OutPoint : shouldIndexCreateHeight(ViewAt(diskHash)[o])}
    /\ mh' = EmptyAcc
    /\ phase' = "fast"
    /\ UNCHANGED <<chainVars, version, nextHeight, crashes, fails>>

\* fastRebuildFromUTXO clears the index first.
StartFastRebuild ==
    /\ phase = "accessor"
    /\ WantsFastRebuild
    /\ db' = EmptyIndex
    /\ curTipHeight' = -1
    /\ todo' = {o \in OutPoint : shouldIndexCreateHeight(ViewAt(diskHash)[o])}
    /\ mh' = EmptyAcc
    /\ phase' = "fast"
    /\ UNCHANGED <<chainVars, version, nextHeight, crashes, fails>>

\* processUTXO and flushBatch: the next outputs, in the order of the database
\* keys, which says nothing about their heights; the last batch may be short.
RebuildBatch ==
    /\ phase = "fast"
    /\ todo # {}
    /\ \E S \in kSubset(Min({DefaultBatchSize, Cardinality(todo)}), todo) :
          /\ db' = connectTxOut(db, S, ViewAt(diskHash))
          /\ mh' = MuAdd(mh, {<<o, CalculateExpiryKey(ViewAt(diskHash)[o])>> : o \in S})
          /\ todo' = todo \ S
    /\ UNCHANGED <<chainVars, version, phase, curTipHeight, nextHeight, crashes, fails>>

\* Seeded fault: the tip in memory stays, and smartRebuild looks again.
FinishRebuild_again ==
    /\ phase = "fast"
    /\ todo = {}
    /\ db' = SetTip([db EXCEPT !.acc = mh], best, Height[best])
    /\ phase' = "accessor"
    /\ UNCHANGED <<chainVars, version, curTipHeight, rebuildVars, crashes, fails>>

\* The last transaction: accumulator, tip hash and tip height.
FinishRebuild ==
    /\ phase = "fast"
    /\ todo = {}
    /\ db' = SetTip([db EXCEPT !.acc = mh], best, Height[best])
    /\ curTipHeight' = Height[best]
    /\ phase' = "up"
    /\ UNCHANGED <<chainVars, version, rebuildVars, crashes, fails>>

\* A transaction of the fast rebuild fails.  resetToEmpty clears the index, or
\* fails as well; then the catch-up begins from the remembered tip.
FastRebuildFails ==
    /\ \/ phase = "accessor" /\ WantsFastRebuild /\ UNCHANGED <<db, curTipHeight>>
       \/ phase = "fast" /\ db' \in {EmptyIndex, db} /\ curTipHeight' = -1
    /\ fails < MaxFails
    /\ fails' = fails + 1
    /\ todo' = {} /\ mh' = EmptyAcc
    /\ nextHeight' = curTipHeight' + 1
    /\ phase' = "incremental"
    /\ UNCHANGED <<chainVars, version, crashes>>

\* incrementalCatchUp: the block of the best chain at the next height.  When the
\* index refuses it, SetChainAccessor logs the error and the node goes on.
CatchUpBlock ==
    /\ phase = "incremental"
    /\ nextHeight <= Height[best]
    /\ \E b \in Ancestors[best] :
          /\ Height[b] = nextHeight
          /\ IF Refused(db, b) THEN phase' = "up" /\ UNCHANGED <<db, curTipHeight, nextHeight>>
             ELSE /\ db' = ConnectBlock(db, b)
                  /\ curTipHeight' = TipAfter(Height[b])
                  /\ nextHeight' = nextHeight + 1
                  /\ UNCHANGED phase
    /\ UNCHANGED <<chainVars, version, todo, mh, crashes, fails>>

CatchUpDone ==
    /\ phase = "incremental"
    /\ nextHeight > Height[best]
    /\ phase' = "up"
    /\ UNCHANGED <<chainVars, db, version, curTipHeight, rebuildVars, crashes, fails>>

\* The catch-up fails, too: SetChainAccessor logs the error and goes on.
CatchUpFails ==
    /\ phase = "incremental"
    /\ nextHeight <= Height[best]
    /\ fails < MaxFails
    /\ fails' = fails + 1
    /\ phase' = "up"
    /\ UNCHANGED <<chainVars, db, version, curTipHeight, rebuildVars, crashes>>

StartStep ==
    \/ Boot \/ InitIndex \/ ManagerCatchUp \/ ManagerCaughtUp
    \/ InitConsistentState
    \/ StartCatchUp \/ StartFastRebuild \/ RebuildBatch \/ FinishRebuild
    \/ FastRebuildFails \/ CatchUpBlock \/ CatchUpDone

Next ==
    \/ \E b \in Block : ConnectBest(b)
    \/ DisconnectBest \/ FlushUtxoCache \/ Shutdown \/ Crash \/ InstallRelease
    \/ StartStep

Spec == Init /\ [][Next]_vars

\* An operator restarts the node, and a start runs to its end.
FairSpec == Spec /\ WF_vars(StartStep)

\* A catch-up after a failed rebuild may fail as well.
SpecCatchUpFails == Init /\ [][Next \/ CatchUpFails]_vars

-----------------------------------------------------------------------------
(***************************************************************************)
(* Properties                                                              *)
(***************************************************************************)

\* ix is the index that connecting every block up to b would have produced.
LiveAt(ix, b) ==
    /\ ix.o2e = ExpirySet(ViewAt(b))
    /\ ix.acc = Root(ix.o2e)
    /\ ix.e2o = {<<ix.o2e[o], o>> : o \in Present(ix, OutPoint)}
    /\ ix.reap = {<<ix.o2e[o], Amount[o], o>> : o \in Present(ix, OutPoint)}
    /\ ix.tipHash = b
    /\ ix.tipHeight = Height[b]

\* A node that processes blocks has the index that a live-maintained one would
\* be at its best block: the same root, scan rows, REAP prefix rows, tip hash
\* and tip height, whatever was cleared, rebuilt or cut short on the way
\* (SetChainAccessor, fastRebuildFromUTXO, incrementalCatchUp).
RebuiltMatchesLive == phase = "up" => LiveAt(db, best)

\* An index with a tip is complete for that tip, at any moment and after any
\* crash: "the next startup triggers a clean full rebuild rather than leaving a
\* partially-populated index that looks valid" (fastRebuildFromUTXO).  While a
\* failed rebuild is being made up for, leftovers of it are allowed, but not
\* beyond the unspent outputs of the best block.
PartialNeverLooksValid ==
    \/ db.tipHeight = -1
    \/ LiveAt(db, db.tipHash)
    \/ /\ fails > 0
       /\ db.tipHash \in Ancestors[best]
       /\ \A o \in OutPoint : db.o2e[o] \in {ExpirySet(ViewAt(db.tipHash))[o],
                                             ExpirySet(ViewAt(best))[o]}

\* The stored index is sound at every moment of a start, not only at its end.
StoredIndexSound == TypeOK /\ PartialNeverLooksValid

\* A start ends: the node comes up again after every shutdown and crash.
NodeStarts == phase # "up" ~> phase = "up"
=============================================================================
