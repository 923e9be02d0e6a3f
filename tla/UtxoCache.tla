----------------------------- MODULE UtxoCache -----------------------------
(***************************************************************************)
(* The cache of unspent outputs in front of the database, and how the node *)
(* recovers what the cache held when it was not shut down cleanly.         *)
(*                                                                         *)
(* The database keeps the unspent outputs of some block of the best chain, *)
(* and names that block (the consistency status).  The cache holds what    *)
(* changed since.  A block is connected to the cache in memory; the best   *)
(* state moves in a database transaction of its own; a flush brings the    *)
(* database up to the best block.  A block is disconnected by undoing its  *)
(* transactions in a view, which is written to the database after a flush, *)
(* in one database transaction.  At startup the blocks between the named   *)
(* block and the best block are connected to an empty cache again.         *)
(***************************************************************************)
EXTENDS BlockTree

CONSTANTS
    Looked,      \* outpoints that the mempool, templates or RPCs look up
    PruneKeep,   \* blocks below the tip that pruning leaves; 0: no pruning
    MaxFaults,   \* bound on the unclean shutdowns and failed transactions
    Ancestors    \* block -> the blocks of the chain that ends in it

ASSUME CacheAssumption ==
    /\ Looked \subseteq OutPoint
    /\ PruneKeep \in Nat
    /\ MaxFaults \in Nat

ASSUME AncestorAssumption ==
    \A b \in Block :
        Ancestors[b] = {b} \cup (IF b = Genesis THEN {} ELSE Ancestors[Parent[b]])

\* No transaction is on a chain twice: its coinbase states its height (BIP 34).
\* So no output of a block was unspent at a block below it.
ASSUME TxIdsUnique ==
    \A b \in Block \ {Genesis} : \A t \in 1..NumTxs[b], a \in Ancestors[Parent[b]] :
        \A o \in Outs[b][t] : ViewAt(a)[o] = None

VARIABLES
    disk,           \* the unspent outputs in the database
    diskHash,       \* the consistency status: the block disk belongs to
    best,           \* the best state in the database, and the tip in memory
    stored,         \* blocks whose data the database has
    node,           \* "down", "replay" or "up"
    cache,          \* outpoint -> cached entry, for the cached outpoints
    lastFlushHash,  \* the block of the last flush, as the cache remembers it
    view,           \* outpoint -> entry, for what a reorganization has undone
    op,             \* what the node is doing to blk
    blk,            \* the block being connected or disconnected
    pos,            \* transactions of blk that are applied
    err,            \* addTxIn met an input that does not exist
    failed,         \* what a database transaction that failed has damaged
    faults          \* unclean shutdowns and failed transactions so far

vars == <<disk, diskHash, best, stored, node, cache, lastFlushHash, view,
          op, blk, pos, err, failed, faults>>
durable == <<disk, diskHash, best, stored>>

\* A cached entry.  A nil entry, which records a miss, has height None.
CacheEntry == [h : CreateHeight, spent : BOOLEAN, fresh : BOOLEAN, modified : BOOLEAN]
ViewEntry == [h : CreateHeight, spent : BOOLEAN, modified : BOOLEAN]
Empty == [o \in {} |-> None]

(***************************************************************************)
(* Operations on the cache                                                 *)
(***************************************************************************)

\* fetchEntries: what is missing comes from the database, misses included.
fetchEntries(c, S) ==
    [o \in DOMAIN c \cup S |->
        IF o \in DOMAIN c THEN c[o]
        ELSE [h |-> disk[o], spent |-> FALSE, fresh |-> FALSE, modified |-> FALSE]]

\* Seeded fault: spent entries leave the cache although the database has them.
addTxIns_drops(c, ins) == [o \in DOMAIN c \ ins |-> c[o]]

\* addTxIns: an entry that the database never saw leaves the cache, any other
\* stays, marked spent, so that a flush deletes it from the database.
addTxIns(c, ins) ==
    LET f == fetchEntries(c, ins)
        dropped == {o \in ins : f[o].fresh}
    IN  [o \in DOMAIN f \ dropped |->
            IF o \in ins THEN [f[o] EXCEPT !.spent = TRUE, !.modified = TRUE] ELSE f[o]]

\* addTxIn's AssertError.  An entry that is marked spent does not count as missing.
MissingInput(c, ins) == \E o \in ins : fetchEntries(c, ins)[o].h = None

\* addTxOuts: an output replaces whatever the cache has for its outpoint.
addTxOuts(c, outs, h) ==
    LET new == outs \cap Spendable
    IN  [o \in DOMAIN c \cup new |->
            IF o \in new
            THEN [h |-> h, spent |-> FALSE, fresh |-> TRUE, modified |-> TRUE]
            ELSE c[o]]

\* connectTransaction: transaction t of block b.
connectTransaction(c, b, t) == addTxOuts(addTxIns(c, Ins[b][t]), Outs[b][t], Height[b])

\* Seeded fault: entries that were spent are not deleted from the database.
writeCache_keepsSpent(c) ==
    [o \in OutPoint |-> IF o \notin DOMAIN c \/ c[o].spent \/ ~c[o].modified
                        THEN disk[o] ELSE c[o].h]

\* writeCache: what a flush makes of the database.
writeCache(c) ==
    [o \in OutPoint |-> IF o \notin DOMAIN c THEN disk[o]
                        ELSE IF c[o].h = None \/ c[o].spent THEN None
                        ELSE IF ~c[o].modified THEN disk[o]
                        ELSE c[o].h]

\* What the node takes for the unspent outputs: the cache over the database.
Lookup(o) ==
    IF o \notin DOMAIN cache THEN disk[o]
    ELSE IF cache[o].spent THEN None ELSE cache[o].h

(***************************************************************************)
(* Operations on the view of a reorganization                              *)
(***************************************************************************)

\* disconnectTransactions, for transaction t of block b: its outputs become
\* spent, its inputs come back as the spend journal has them.  The entries
\* that fetchInputUtxos loads before are those of the inputs, which are all
\* overwritten here.
disconnectTransaction(v, b, t) ==
    LET outs == Outs[b][t] \cap Spendable
        old(o) == IF o \in DOMAIN v THEN v[o]
                  ELSE [h |-> Height[b], spent |-> FALSE, modified |-> FALSE]
    IN  [o \in DOMAIN v \cup outs \cup Ins[b][t] |->
            IF o \in Ins[b][t]
            THEN [h |-> Live[b][t-1][o], spent |-> FALSE, modified |-> TRUE]
            ELSE IF o \in outs /\ ~old(o).spent
            THEN [old(o) EXCEPT !.spent = TRUE, !.modified = TRUE]
            ELSE v[o]]

\* dbPutUtxoView: the modified entries go to the database d.
dbPutUtxoView(d, v) ==
    [o \in OutPoint |-> IF o \in DOMAIN v /\ v[o].modified
                        THEN IF v[o].spent THEN None ELSE v[o].h
                        ELSE d[o]]

\* view.commit: spent entries go.  The modified flag is flipped, not cleared, so
\* that an entry which was not written this time is written the next time.
commit(v) ==
    [o \in {p \in DOMAIN v : ~(v[p].modified /\ v[p].spent)} |->
        [v[o] EXCEPT !.modified = ~@]]

-----------------------------------------------------------------------------
Ops == {"idle", "connect", "connected", "disconnect", "disconnected"}

TypeOK ==
    /\ disk \in View
    /\ diskHash \in Block
    /\ best \in Block
    /\ stored \subseteq Block
    /\ node \in {"down", "replay", "up"}
    /\ DOMAIN cache \subseteq OutPoint
    /\ \A o \in DOMAIN cache : cache[o] \in CacheEntry
    /\ lastFlushHash \in Block \cup {NoBlock}
    /\ DOMAIN view \subseteq OutPoint
    /\ \A o \in DOMAIN view : view[o] \in ViewEntry
    /\ op \in Ops
    /\ blk \in Block
    /\ pos \in 0..NumTxs[blk]
    /\ err \in BOOLEAN
    /\ failed \in {"no", "memory", "disk"}
    /\ faults \in 0..MaxFaults

\* A node that has just written its genesis block.
Init ==
    /\ disk = ViewAt(Genesis)
    /\ diskHash = Genesis
    /\ best = Genesis
    /\ stored = Block
    /\ node = "up"
    /\ cache = Empty
    /\ lastFlushHash = Genesis
    /\ view = Empty
    /\ op = "idle"
    /\ blk = Genesis
    /\ pos = 0
    /\ err = FALSE
    /\ failed = "no"
    /\ faults = 0

\* A lookup fills the cache.  It cannot come between the steps that hold the
\* chain lock, but it can while subscribers hear of a block.
FetchUtxo(o) ==
    /\ node = "up"
    /\ op \in {"idle", "connected", "disconnected"}
    /\ cache' = fetchEntries(cache, {o})
    /\ UNCHANGED <<durable, node, lastFlushHash, view, op, blk, pos, err, failed, faults>>

\* writeCache in a database transaction that also stores the status.
Flush(h) ==
    /\ disk' = writeCache(cache)
    /\ diskHash' = h
    /\ cache' = Empty
    /\ lastFlushHash' = h
    /\ failed' = IF failed = "no" THEN "no" ELSE "disk"

NoFlush == UNCHANGED <<disk, diskHash, cache, lastFlushHash, failed>>

\* connectBestChain and reorganizeChain connect a block to the cache first.
StartConnect(b) ==
    /\ node = "up" /\ op = "idle"
    /\ Parent[b] = best
    /\ b \in stored
    /\ op' = "connect"
    /\ blk' = b
    /\ pos' = 0
    /\ UNCHANGED <<durable, node, cache, lastFlushHash, view, err, failed, faults>>

\* One transaction of connectTransactions; a missing input ends it.
ConnectNextTx ==
    /\ node = "up" /\ op = "connect"
    /\ pos < NumTxs[blk]
    /\ IF MissingInput(cache, Ins[blk][pos+1])
       THEN err' = TRUE /\ op' = "idle" /\ UNCHANGED <<cache, pos>>
       ELSE /\ cache' = connectTransaction(cache, blk, pos + 1)
            /\ pos' = pos + 1
            /\ UNCHANGED <<op, err>>
    /\ UNCHANGED <<durable, node, lastFlushHash, view, blk, failed, faults>>

\* The oldest blocks go when a block is connected, up to some height.
PruneBlocks ==
    {{}} \cup (IF PruneKeep = 0 THEN {}
               ELSE {{b \in stored : Height[b] <= k} : k \in 0..(Height[blk] - PruneKeep)})

\* Seeded fault: deleting the block after the last flush does not count.
flushNeededAfterPrune_late(deleted) ==
    lastFlushHash = NoBlock \/ \E b \in deleted : Height[b] > Height[lastFlushHash] + 1

flushNeededAfterPrune(deleted) ==
    lastFlushHash = NoBlock \/ \E b \in deleted : Height[b] >= Height[lastFlushHash]

\* The database transaction of connectBlock.
CommitConnect ==
    /\ node = "up" /\ op = "connect"
    /\ pos = NumTxs[blk]
    /\ \E deleted \in PruneBlocks :
          /\ stored' = stored \ deleted
          /\ IF deleted # {} /\ flushNeededAfterPrune(deleted) THEN Flush(blk) ELSE NoFlush
    /\ best' = blk
    /\ op' = "connected"
    /\ UNCHANGED <<node, view, blk, pos, err, faults>>

\* connectBlock ends with flush(FlushIfNeeded): when the cache is full, and not
\* when the last flush was at this block.
FlushIfNeeded ==
    /\ node = "up" /\ op = "connected"
    /\ \/ NoFlush
       \/ best # lastFlushHash /\ Flush(best)
    /\ op' = "idle"
    /\ UNCHANGED <<best, stored, node, view, blk, pos, err, faults>>

\* reorganizeChain takes the block at the tip away.  The view is new when the
\* reorganization begins and is carried from one block to the next.
StartDisconnect ==
    /\ node = "up"
    /\ op \in {"idle", "disconnected"}
    /\ best # Genesis
    /\ {best, Parent[best]} \subseteq stored
    /\ view' = IF op = "idle" THEN Empty ELSE view
    /\ op' = "disconnect"
    /\ blk' = best
    /\ pos' = NumTxs[best]
    /\ UNCHANGED <<durable, node, cache, lastFlushHash, err, failed, faults>>

\* One transaction of disconnectTransactions, last first.
DisconnectNextTx ==
    /\ node = "up" /\ op = "disconnect"
    /\ pos > 0
    /\ view' = disconnectTransaction(view, blk, pos)
    /\ pos' = pos - 1
    /\ UNCHANGED <<durable, node, cache, lastFlushHash, op, blk, err, failed, faults>>

\* The database transaction of disconnectBlock: flush, then write the view.
CommitDisconnect ==
    /\ node = "up" /\ op = "disconnect"
    /\ pos = 0
    /\ disk' = dbPutUtxoView(writeCache(cache), view)
    /\ diskHash' = Parent[best]
    /\ cache' = Empty
    /\ lastFlushHash' = Parent[best]
    /\ best' = Parent[best]
    /\ view' = commit(view)
    /\ op' = "disconnected"
    /\ failed' = IF failed = "no" THEN "no" ELSE "disk"
    /\ UNCHANGED <<stored, node, blk, pos, err, faults>>

\* All blocks to detach are gone; blocks are attached as on the main chain.
EndDetach ==
    /\ node = "up" /\ op = "disconnected"
    /\ op' = "idle"
    /\ view' = Empty
    /\ UNCHANGED <<durable, node, cache, lastFlushHash, blk, pos, err, failed, faults>>

\* FlushUtxoCache(FlushPeriodic), after a block: when time is up or the cache full.
FlushPeriodic ==
    /\ node = "up" /\ op = "idle"
    /\ Flush(best)
    /\ UNCHANGED <<best, stored, node, view, op, blk, pos, err, faults>>

\* A clean shutdown flushes with FlushRequired.
Shutdown ==
    /\ node = "up" /\ op = "idle"
    /\ Flush(best)
    /\ node' = "down"
    /\ UNCHANGED <<best, stored, view, op, blk, pos, err, faults>>

\* What writeCache does to the cache stays when its transaction fails later.
LostFlush(h) ==
    /\ cache' = Empty
    /\ lastFlushHash' = h

\* A database transaction of a running node fails: its memory no longer matches.
Fail ==
    /\ faults < MaxFaults
    /\ faults' = faults + 1
    /\ op' = "idle"
    /\ failed' = IF failed = "no" THEN "memory" ELSE failed
    /\ UNCHANGED <<durable, node, view, blk, pos, err>>

\* The one of connectBlock, or an index that refuses the block in it: what
\* connectTransactions did to the cache is not undone.
FailedConnect ==
    /\ node = "up" /\ op = "connect"
    /\ pos = NumTxs[blk]
    /\ \/ UNCHANGED <<cache, lastFlushHash>>
       \/ /\ \E deleted \in PruneBlocks : deleted # {} /\ flushNeededAfterPrune(deleted)
          /\ LostFlush(blk)
    /\ Fail

\* The one of disconnectBlock, after its flush.
FailedDisconnect ==
    /\ node = "up" /\ op = "disconnect"
    /\ pos = 0
    /\ LostFlush(Parent[best])
    /\ Fail

\* The one of a flush between blocks.
FailedFlush ==
    /\ node = "up"
    /\ op = "idle" \/ (op = "connected" /\ best # lastFlushHash)
    /\ LostFlush(best)
    /\ Fail

\* The process dies, or InitConsistentState is interrupted.  What a failed
\* transaction left in memory, and no flush has written, is gone as well.
Crash ==
    /\ node # "down"
    /\ faults < MaxFaults
    /\ faults' = faults + 1
    /\ node' = "down"
    /\ cache' = Empty
    /\ view' = Empty
    /\ op' = "idle"
    /\ err' = FALSE
    /\ failed' = IF failed = "memory" THEN "no" ELSE failed
    /\ UNCHANGED <<durable, lastFlushHash, blk, pos>>

\* InitConsistentState: nothing to do when the status names the best block.
Start ==
    /\ node = "down"
    /\ node' = IF diskHash = best THEN "up" ELSE "replay"
    /\ lastFlushHash' = IF diskHash = best THEN best ELSE NoBlock
    /\ blk' = diskHash
    /\ pos' = NumTxs[diskHash]
    /\ UNCHANGED <<durable, cache, view, op, err, failed, faults>>

\* InitConsistentState fetches the next block, or fails when it is not stored.
ReplayBlock ==
    /\ node = "replay"
    /\ pos = NumTxs[blk]
    /\ blk # best
    /\ \E b \in Ancestors[best] :
          /\ Parent[b] = blk
          /\ IF b \in stored
             THEN blk' = b /\ pos' = 0 /\ UNCHANGED <<node, cache>>
             ELSE node' = "down" /\ cache' = Empty /\ UNCHANGED <<blk, pos>>
    /\ UNCHANGED <<durable, lastFlushHash, view, op, err, failed, faults>>

\* One transaction of the replay.  A missing input is an error and the node
\* stops.  After the last one comes flush(FlushIfNeeded), for this block.
ReplayNextTx ==
    /\ node = "replay"
    /\ pos < NumTxs[blk]
    /\ IF MissingInput(cache, Ins[blk][pos+1])
       THEN /\ err' = TRUE /\ node' = "down" /\ cache' = Empty
            /\ UNCHANGED <<pos, disk, diskHash, lastFlushHash>>
       ELSE /\ pos' = pos + 1
            /\ LET c == connectTransaction(cache, blk, pos + 1)
               IN  \/ cache' = c /\ UNCHANGED <<disk, diskHash, lastFlushHash>>
                   \/ /\ pos + 1 = NumTxs[blk]
                      /\ disk' = writeCache(c)
                      /\ diskHash' = blk
                      /\ cache' = Empty
                      /\ lastFlushHash' = blk
            /\ UNCHANGED <<node, err>>
    /\ UNCHANGED <<best, stored, view, op, blk, failed, faults>>

\* Seeded fault: the replay ends the process without a flush, as an interrupt does.
ReplayDone_stops ==
    /\ node = "replay"
    /\ pos = NumTxs[blk]
    /\ blk = best
    /\ node' = "down"
    /\ cache' = Empty
    /\ lastFlushHash' = best
    /\ UNCHANGED <<durable, view, op, blk, pos, err, failed, faults>>

\* InitConsistentState ends: the last flush is taken to be at the best block.
ReplayDone ==
    /\ node = "replay"
    /\ pos = NumTxs[blk]
    /\ blk = best
    /\ node' = "up"
    /\ lastFlushHash' = best
    /\ UNCHANGED <<durable, cache, view, op, blk, pos, err, failed, faults>>

Next ==
    \/ \E o \in Looked : FetchUtxo(o)
    \/ \E b \in Block : StartConnect(b)
    \/ ConnectNextTx \/ CommitConnect \/ FlushIfNeeded
    \/ StartDisconnect \/ DisconnectNextTx \/ CommitDisconnect \/ EndDetach
    \/ FailedConnect \/ FailedDisconnect \/ FailedFlush
    \/ FlushPeriodic \/ Shutdown \/ Crash
    \/ Start \/ ReplayBlock \/ ReplayNextTx \/ ReplayDone

Spec == Init /\ [][Next]_vars

\* An operator restarts a node that is down, and startup runs to its end.
FairSpec ==
    Spec /\ WF_vars(Start) /\ WF_vars(ReplayBlock \/ ReplayNextTx \/ ReplayDone)

-----------------------------------------------------------------------------
(***************************************************************************)
(* Properties                                                              *)
(***************************************************************************)

\* Whatever was connected, disconnected, looked up, flushed or replayed before,
\* a running node takes exactly the unspent outputs of its best block for
\* unspent, and while it connects a block, those after the transactions of the
\* block that are applied.  After a database transaction that failed this is
\* lost until the process ends.
ViewMatchesTip ==
    node = "up" /\ failed = "no" =>
        \A o \in OutPoint :
            Lookup(o) = (IF op = "connect" THEN Live[blk][pos] ELSE ViewAt(best))[o]

\* The database always holds the unspent outputs of exactly the block that its
\* consistency status names, so that a crash at any point can be repaired
\* (writeCache and dbPutUtxoView store the status in the same transaction).
\* A transaction that fails does not change this, but the next flush does.
DiskMatchesStatus == failed # "disk" => disk = ViewAt(diskHash)

\* The flags of a cached entry mean what the rest of the cache relies on: a
\* fresh entry is not in the database, and an entry that is not modified, nil
\* ones included, is what the database has.
FlagsAreTrue ==
    failed = "no" => \A o \in DOMAIN cache :
        /\ cache[o].fresh => disk[o] = None
        /\ ~cache[o].modified => cache[o].h = disk[o] /\ ~cache[o].spent

\* "We never disconnect blocks as they cannot be inconsistent during a
\* reorganization": InitConsistentState only goes forward, so the block that
\* the status names must be on the chain of the best block.
StatusOnBestChain == failed # "disk" => diskHash \in Ancestors[best]

\* addTxIn never meets the missing input it calls a bug, on a running node or
\* when blocks are replayed after a crash.
NoMissingInput == failed = "no" => ~err

\* The cache is sound: over the database it is the unspent outputs of the tip,
\* its flags say what a flush must write, and no input is missing.
CacheSound == TypeOK /\ ViewMatchesTip /\ FlagsAreTrue /\ NoMissingInput

\* The database is sound: it is that of the block its status names, and a replay
\* that only goes forward leads from there to the best block.
DiskSound == DiskMatchesStatus /\ StatusOnBestChain

\* "we always need to have the blocks since the utxo cache flush last happened"
\* (flushNeededAfterPrune): every block that a replay would need is stored.
Recoverable == Ancestors[best] \ Ancestors[diskHash] \subseteq stored

\* The same while no database transaction has failed.
PruneSparesReplay == failed = "no" => Recoverable

\* Until a replay has moved lastFlushHash ahead of the database, pruning spares
\* every block that a replay would need (flushNeededAfterPrune).
RecoverableBeforeCrash == faults = 0 => Recoverable

\* A node that went down with the blocks it needs comes up again: the replay
\* ends and never fails, whatever crashes interrupt it.
NodeComesBack == node # "up" /\ Recoverable /\ failed # "disk" ~> node = "up"
=============================================================================
