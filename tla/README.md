# A TLA+ model of obtcd

obtcd is btcd with one more rule of consensus: an unspent output expires
`WindowBlocks` after the block that created it. An expired output can be spent
only by a REAP transaction, which a miner builds, which takes the oldest expired
outputs first, and which returns 70 % of each value to its owner. To find expired
outputs a node keeps an *expiry index*, and every coinbase commits to the state
of that index before its block. Consensus therefore rests on an index that is
updated, rolled back, rebuilt and recovered in the same way on every node.

This directory models the node in TLA+: the consensus core (expiry index, UTXO
cache, chain selection, REAP rules), and around it the pool, mining, storage, the
peer-to-peer network, the script engine and the RPC interface. TLC checks every
part on small instances. TLAPS proves the safety properties of the consensus core
for every block tree and every choice of the parameters.

## The system

| Part | State | What makes it hard |
|---|---|---|
| Expiry index (`blockchain/expiryindex`) | four buckets, MuHash accumulator, tip hash and height, `curTipHeight` in memory | several writes for an entry, errors in the middle of a block, reorganizations, the same transaction at two heights |
| Index start-up (`smartRebuild`, `reindex.go`, `indexers/manager.go`) | as above, plus the manager's tip and the index version | batches, crashes between them, fallback after a failure, the lag of the on-disk UTXO set |
| UTXO cache (`utxocache.go`, `utxoviewpoint.go`) | entries with flags, disk, consistency status, `lastFlushHash` | lazily written state with crash recovery; flags that say what the disk has |
| Chain selection (`chain.go`, `process.go`, `accept.go`, `blockindex.go`) | status flags, best chain, orphans, `chainLock` | the lock is released in the middle of a reorganization; flags, best state and UTXO set are stored in different transactions |
| REAP (`validation_reap.go`, `mining/reap`) | none of their own | the same order and limits written three times; rounding; two activation heights |
| Pool and templates (`mempool`, `mining`) | pool, spent outpoints, orphans; a template under construction | replacement, reorganizations, reads at different moments |
| Fee estimator (`mempool/estimatefee.go`) | bins, dropped samples | random replacement that a rollback must undo |
| Block database (`database/ffldb`, `treap`) | block files, leveldb, cache, buckets, cursors | files and metadata are written apart; snapshots next to flushes |
| Optional indexes (`blockchain/indexers`) | tips, block ids, address levels, filters | interrupted drops, roll-back, catch-up |
| Scripts (`txscript`, `scriptval.go`) | stacks, branches, caches | nested programs, flags, goroutines sharing caches |
| Block download (`netsync`) | sync peer, requests, header list | misbehaving and leaving peers |
| Connections (`peer`, `v2transport`, `connmgr`, `addrmgr`, `server.go`) | queues, handshakes, requests, tables, peer lists | goroutines that wait for each other; events out of order |
| CPU miner (`mining/cpuminer`) | mutexes, workers, channels | waiting while holding a lock |
| RPC (`rpcserver.go`, `rpcwebsocket.go`, `rpcclient`, `btcjson`) | clients, queues, long polls, pending calls | connections that break; reads of a chain that moves |

They interact like this. The sync manager hands blocks to `ProcessBlock`, which
adds a block to the block index. `connectBestChain` applies it to the UTXO cache
and calls `connectBlock`. That stores best state, spend journal and, through the
index manager, the expiry index in one database transaction. Only there is the
expiry commitment checked. `disconnectBlock` undoes this from the spend journal.
`checkConnectBlock` asks the index for the oldest expired outputs. The UTXO cache
is flushed in transactions of its own, so the disk may lag behind, and the
start-up code replays blocks; a rebuild of the index reads that disk. After each
block the chain notifies the pool, the estimator, the miners that poll for
templates and the websocket clients, with `chainLock` released.

What each part must guarantee:

- the committed index is a function of the block its tip names, and so is its root;
- a start brings back what a live node would have, after any crash;
- cache over disk is the UTXO set of the tip; the disk is the UTXO set its status
  names; both survive any crash;
- the node ends on the valid branch of most work, never on an invalid block, and
  blames only invalid blocks;
- an accepted block reaps oldest first, within bounds, and pays the owners; what
  the miner builds is accepted;
- what one part writes another reads back: pool, samples, blocks, index rows,
  addresses, commands;
- nobody waits for ever: downloads, handshakes, requests, calls and goroutines end.

## Modules

The consensus core has one instance module per component (`MC...`). The other
components are grouped by the run that checks them: `MCNode` (sequential parts),
`MCNet` (concurrent parts) and `MCRpc` make one instance of each, and a behaviour
is a behaviour of one of them, named by the variable `part`.

| Module | Models | State and actions |
|---|---|---|
| `BlockTree` | blocks, transactions, and the UTXO set after each transaction (`Live`) | constants and their assumptions; `ViewAt(b)` is the UTXO set at `b` |
| `ExpiryBuckets` | expiry parameters, the buckets and the operations on them | `connectTxOut`, `disconnectTxOut`, `ConnectTx`, `DisconnectTx`, `validateExpiryCommitment`; `ExpirySet(view)` is what the index must hold |
| `ExpiryIndex` | live maintenance inside a database transaction | an action for the head, each transaction and the end of `ConnectBlock` and `DisconnectBlock`; `Commit`, `DatabaseError`, `Rollback`, `Crash` |
| `ExpiryIndexSpec` | what the index promises | tip, content and root; move to a child or to the parent |
| `ExpiryStartup` | a node's starts, composed with the chain and the lag of the UTXO disk | `Boot`, `InitIndex`, `ManagerCatchUp`, `InitConsistentState`, `StartFastRebuild`, `RebuildBatch`, `FinishRebuild`, `FastRebuildFails`, `CatchUpBlock`, ... |
| `UtxoCache` | cache, view, disk, pruning and replay, transaction by transaction | `StartConnect` ... `CommitConnect`, `StartDisconnect` ... `EndDetach`, `FetchUtxo`, the flushes, `FailedConnect`, `FailedDisconnect`, `FailedFlush`, `Crash`, `Start`, `Replay*` |
| `ReapValidation` | REAP validation and building as operators, and blocks of any content put to them at any tip | `AddTx`, `CheckConnectBlock`, `NextBlock`, `Restart` |
| `ChainProcess` | block processing and the chain RPCs as two actors on `chainLock` | `ProcessBlock`, `maybeAcceptBlock`, `connectBestChain`, `processOrphans`, `disconnectBlock`, `connectBlock`, `InvalidateBlock` in four actions, `ReconsiderBlock`, `Crash` |
| `Mempool` | the pool, and block templates made from it while it and the chain move | acceptance, orphans, removal, block notes; the reads of `NewBlockTemplate` in order |
| `FeeEstimator` | samples of fee rates | `ObserveTransaction`, `RegisterBlock`, `Rollback`, save and restore |
| `Ffldb`, `DbTx` | block files, cache and recovery; buckets, cursors and treaps | commits, flushes, prunes, faults, crashes; every operation of a bucket, cursor, treap |
| `IndexManager` | the manager of the optional indexes, transaction and address index | start, roll-back, catch-up, blocks, drops in batches |
| `ScriptOps`, `ScriptEngine` | opcode handlers over bytes; the engine, signing, script forms | one opcode a step; one wallet a turn; one call of a builder |
| `ScriptVal` | parallel validation and its caches; what a signature hash commits to | goroutines of two callers; edits of a transaction |
| `SyncManager` | block download | one action for each handler of `blockHandler` |
| `PeerQueues`, `PeerHandshake` | goroutines of a peer; version handshake and v2 transport | one action for each step of a goroutine |
| `AddrManager`, `ConnManager` | known addresses; connection requests | one action for each exported call; goroutines as records in `todo` |
| `ServerPeers`, `ServeData` | peer lists, relay, rebroadcast; answers to requests, filters, sessions | `peerHandler`, `rebroadcastHandler`, `OnGetData`, `OnGetBlocks`, ... |
| `CpuMiner` | the CPU miner | callers, controller, workers, monitor |
| `RpcServer`, `RpcQueries`, `RpcCalls` | HTTP server and long polls; queries and paged scans of a moving chain; commands and their codec | one action for each read that takes its own lock |
| `WsManager`, `RpcClient` | websocket notifications, rescans and clients; the client library | goroutines and queues of both ends |
| `ExpiryIndexProofs`, `UtxoCacheProofs`, `ReapValidationProofs`, `ChainProcessProofs` | theorems | the lemmas of the last are in `ChainProcessLemmas`, `ChainProcessInvariant`, `ChainProcessAlone` and `ChainProcessMostWork` |

`ExpiryStartup` uses the operations of `ExpiryBuckets` for whole blocks and the
part of `UtxoCache` it can see (`diskHash`: the block whose outputs are on disk).
`ChainProcess` in the same way sees the UTXO set by name only: `utxoTip` is the
block whose outputs the disk holds, `utxoStatus` the block it says it holds.

Definitions called `Name_fault`, after a comment "Seeded fault", are plausible
bugs of the definition that follows them. No specification uses them; replacing
`Name` by one makes the property it belongs to fail.

### What is abstracted

- Keys, hashes and scripts are values to compare, except in `ScriptOps` and
  `ScriptEngine`, which work on bytes. The encoding of index keys is modelled by
  the order it gives (expiry, amount, outpoint).
- MuHash: two sets of entries have the same root only if they are equal. The
  accumulator keeps multiplicities, so an element added twice or removed too
  often shows. Ciphers, signatures and hashes are collision free.
- A database transaction commits as a whole or not at all in the modules above
  the database; `Ffldb` models how.
- In `ChainProcess` a block breaks a rule of `checkConnectBlock` (`BadScript`),
  the REAP prefix that is checked at the tip only (`BadPrefix`), or the
  commitment that only the index checks (`BadCommitment`).
- Flush decisions by cache size or time: any point where the code may flush, it
  may or may not. Random choices of the code are choices of any outcome.
- A handler that runs under one lock is one action; a call that releases a lock
  or waits on a channel in the middle is several.

## Runs

Run one with `tlc -config X.cfg M` in this directory.

| Run | Module, configuration | Distinct states | What it shows |
|---|---|---|---|
| `index` | `MCExpiryIndex` | 297 | buckets, root and tip always describe the committed block (`IndexSound`); honest commitments are accepted, others never; the index implements `ExpiryIndexSpec` |
| `utxo` | `MCUtxoCache` | 1 471 989 | cache and disk are exact through reorganizations, flushes, lookups, prunes and two faults, each a crash or a failed transaction; a node that has the blocks it needs comes back |
| `startup` | `MCExpiryStartup` | 15 798 | every start ends with the index of a live node; a partial index never looks finished; the node comes up |
| `reap` | `MCReapValidation` | 33 860 | accepted blocks reap oldest first, within bounds, and pay owners; mined REAPs are accepted |
| `chain` | `MCChainProcess` | 207 936 | the best chain has most work and no invalid block; only invalid blocks are blamed; one crash, two RPC calls |
| `chain_rpc` | `MCChainProcess`, `...Rpc.cfg` | 202 422 | RPC calls that overlap block processing never bring a rule-breaking block into the best chain; every call returns |
| `net` | `MCNet` | 978 255 | safety of fifteen parts: download, peers, handshakes, addresses, connections, relay, replies, bans, miner, validator |
| `live` | `MCNet`, `MCNetLive.cfg` | 54 101 | downloads complete, connections are made, goroutines and calls end |
| `node` | `MCNode` | 944 506 | pool, templates, estimator, database, indexes and scripts |
| `rpc` | `MCRpc` | 849 274 | client, servers, notifications, rescans, long polls, codec, queries and paged scans |
| `utxo_prune_recover` | `MCUtxoCache`, `...PruneRecover.cfg` | violation | pruning after a replay that did not flush deletes blocks the next replay needs (`utxocache.go:719`) |
| `chain_attach` | `MCChainProcess`, `...Attach.cfg` | violation | a reorganization that fails while attaching leaves a tip of less work (`chain.go:944`) |

The two violations are disagreements between the code and its comments. The
first contradicts "we always need to have the blocks since the utxo cache flush
last happened" (`utxocache.go:727`), the second "This approach catches these
issues before ever modifying the chain" (`chain.go:1091`).

A property of `net`, `live`, `node` or `rpc` is the conjunction of what its
components guarantee, each conjunct a definition with a comment of its own in the
`MC` module and, in terms of the component's state, in the component's module.

### Bounds

- `MCTree` has two branches of two blocks above a common block. A transaction is
  in both, at different heights; its output is spent in a later block on one
  branch and in the same block on the other; one output is unspendable; three
  blocks carry a commitment to a wrong state, two commitments, or none. Every
  case of `ConnectBlock` and `DisconnectBlock` occurs, and a reorganization of
  two blocks each way. `StartScanHeight` is 2 in `index`, so an output from below
  it is spent and restored above it; OBTC networks use 0, as `startup` does, and
  the proofs cover any value.
- `MaxFaults` is 2 in `utxo`: one to lose a cache, and one to interrupt the replay
  or to fail a transaction after it. `MaxCrashes` is 2 in `startup`, which has one
  rebuild to interrupt and one start to repair it, and 1 in `chain`. The proofs
  cover any number.
- `DefaultBatchSize` 2 and `FastRebuildThreshold` 1 give a rebuild of several
  batches and both strategies on a chain of four blocks. `MaxFails` 1 is the one
  failed rebuild after which the fallback runs.
- The tree of `MCReapValidation` has dust, equal ages, equal amounts, two owners,
  and heights before, between and after the two activation heights. The tax of
  3/10 on small amounts rounds in every way. Blocks have up to two transactions.
- `ChainProcess` needs a side branch that overtakes the other (three blocks
  each), more orphans than `MaxOrphans`, and a block between the fork and the tip
  that is invalid. `chain_rpc` has two calls, the fewest that can overlap both
  with block processing and with what the first call left.
- `net`: an honest peer and one that may do anything, two or three blocks with up
  to two checkpoints; queues of one or two places, so that they fill; garbage of
  every allowed length; buckets of one place with three addresses for them; one
  failure of a connection attempt; the smallest peer limit that is exceeded; two
  callers of the miner and two workers. `live` uses the same with one sender, one
  worker and fewer repetitions: each of its properties is about a single wait.
- `node`: five small worlds of transactions for the pool and its templates, with a
  chain of at most two blocks; three transactions and three blocks for the
  estimator with bins of two, so that samples are displaced; three database
  transactions on files of two blocks with one fault and one crash; three keys in
  a treap; five blocks with a fork and three starts for the indexes. The limits of
  the script engine are scaled down with the scripts: 12 operations, 12 stack
  elements, elements of 120 bytes, 200 bytes of script.
- `rpc`: connections that break once, two calls; a chain that grows, shrinks or
  reorganizes by one or two blocks between any two reads of a handler.

### Fairness

- `UtxoCache`, `ExpiryStartup`: a node that is down is started again, and a start
  runs to its end (weak fairness of these steps). Processing of blocks is not
  assumed to go on.
- `ChainProcess`: each of the two goroutines makes progress, and the one that
  waits for `chainLock` gets it although the other releases and takes it
  repeatedly (strong fairness): Go's mutex hands the lock to a waiter that has
  starved for a millisecond. Nothing is assumed about arrivals or calls, so the
  `chain` runs let the system stop.
- `live`: a goroutine that can run does run (weak fairness of each goroutine). A
  `select` with several ready cases picks each of them eventually, and a waiter
  for a mutex gets it (strong fairness: `OutQuit` of a peer, calls and workers of
  the miner). An honest peer stays or comes back and answers; timers fire. Nothing
  is assumed about the other peer, about arrivals, or about failures but their
  bound.
- `rpc`: the goroutine of a rescan runs.

Deadlock is checked in `index`, `utxo`, `startup` and `reap`. The other runs say
`CHECK_DEADLOCK FALSE`: a node that has processed everything it was given, and a
connection that is closed, have nothing left to do.

### Conditions in properties

Some properties are stated for less than every state, because the code gives
less. For the consensus core:

- `MostWork` is about nodes without a crash and without RPC calls. A crash
  between the flush of a new block-index node and `connectBlock` (`accept.go:71`)
  leaves a block known and unconnected until a child arrives; `AcceptedIsBest`
  says that the child repairs it. `InvalidateBlock` may choose a tip that descends
  from the invalidated block on a side branch, finds nothing to attach and does
  not try the next tip (`chain.go:1934-1960`).
- `BestNotInvalid` excludes a crash together with RPC calls: `InvalidateBlock`
  stores its flags before the best state moves (`chain.go:743`). It is not
  checked for overlapping calls: a block invalidated while a reorganization that
  attaches it has released the lock is attached all the same (`chain.go:936`).
- `AlwaysATip` excludes crashes: one in the middle of `InvalidateBlock` can leave
  an invalid block on the best chain that the next `InvalidateBlock` does not
  detach, and then no tip is left to choose. Overlapping calls may also invalidate
  every tip, after which `InvalidateBlock` dereferences a nil tip (action
  `NilTip`); the property is checked without overlap.
- `StatusNamesDisk` is checked without overlap: `connectBlock` flushes with a
  state captured before the lock was released (`chain.go:715`).
- `OrphansBounded` allows one more than `maxOrphanBlocks`, for `oldestOrphan` may
  name an orphan that has left the pool (`chain.go:311`). `processOrphans` returns
  at the first refused orphan (`process.go:118`), so that siblings of it stay in
  the pool.
- `RebuiltMatchesLive` is checked for resets of the index on databases that were
  shut down cleanly (`ReindexAfterCrash` is `FALSE`): a rebuild reads the disk,
  which after a crash is behind the best chain (`expiryindex.go:1104`). Catch-ups
  do not fail in the run: `SetChainAccessor` logs such a failure and goes on
  (`expiryindex.go:91`; action `CatchUpFails`).
- `CacheSound` ends with a failed database transaction: a block that is refused
  after the cache has it leaves the cache ahead of the best state
  (`chain.go:1235`), and `disconnectBlock` empties the cache in a transaction that
  is then rolled back (`chain.go:778`). `DiskSound` goes on until the next flush.
- `RecoverableBeforeCrash` says what pruning guarantees until `lastFlushHash` is
  first set without a flush (`utxocache.go:719`), and `NodeComesBack` is about
  nodes that still have the blocks.

For the other parts the condition stands in the property and in the comment on it:

- Pool and templates: a block that the pool was not told of because the node was
  not current; a transaction of a disconnected block whose parents are gone;
  relative locks that a reorganization takes back (`InvalidAreSkipped` is the
  unconditional form, `mining.go:442`); a witness commitment that takes the room
  kept for REAP (`RoomForREAP`, `template_reap.go:114`).
- Database: a file that is rolled over is closed without a sync; a snapshot is
  taken in two steps between which a flush may come; a prune deletes files before
  its transaction is durable; an iterator that is repositioned after a change.
- Indexes: a refused block leaves the counter of block ids ahead.
- Network: `limitAdd` at its limit drops different entries of its two sets; an end
  of a peer that overtakes its announcement; a full `relayInv`, with which
  `blockHandler`, `rebroadcastHandler` and `peerHandler` may wait for each other; a
  new bucket of addresses holds one more than its size; v2 garbage of the full
  length, for which the search of the terminator ends one byte early.
- CPU miner: a resize holds the mutex while it waits for the goroutine of
  `generate`, which has solved its last block and wants the mutex (`Stuck`).
- Scripts: the digest of a missing single output is a constant, as in Bitcoin.
- RPC: goroutines of an old connection may drain a message of the new one; a batch
  that fails as a whole leaves its futures unanswered; a rescan whose first block
  was pruned.

## Proofs

Four modules state theorems. Check them with `tlapm M.tla`; `ChainProcessProofs`
rests on the four modules named above, each of which is checked by itself.

| Module | Theorem | What is proved for every block tree and every choice of the parameters |
|---|---|---|
| `ExpiryIndexProofs` | `IndexAlwaysSound`, `HonestCommitmentAlwaysAccepted`, `CommitmentAlwaysBindsParent` | all safety properties of the run `index` |
| | `IndexImplementsSpec` | `Spec` implements `ExpiryIndexSpec` under `tip <- mgrTip, content <- db.o2e, root <- db.acc` |
| `UtxoCacheProofs` | `CacheAlwaysSound`, `DiskAlwaysSound`, `PruningSparesReplay` | all safety properties of `utxo`, for any number of faults and any pruning depth |
| `ChainProcessProofs` | `BestAlwaysSound` | `BestIsSound`, for any overlap of calls and any number of calls and crashes |
| | `StatusAlwaysNamesDisk`, `AcceptedAlwaysBest`, `FlagsAlwaysSound`, `SearchesAlwaysSound` | the invariants of `chain`, unless calls overlap (`Alone`) |
| | `MostWorkAlways` | `MostWork`, if every rule is checked before the chain is modified (`CheckedAhead`); `chain_attach` shows that this is needed |
| `ReapValidationProofs` | `OldestAlwaysFirst`, `ReapAlwaysBounded`, `OwnersAlwaysKeepTheirShare`, `MinedReapAlwaysAccepted` | all properties of `reap`, for blocks of any size, any outputs, limits, weights, tax and dust threshold |

### Assumptions

TLC evaluates each of them on the instances.

- `TreeAssumption`, `TxAssumption`, `PathAssumption`, `ChainAssumption`: heights
  grow by one along parents, work grows, the genesis block breaks no rule, and the
  shape of blocks. `FiniteAssumption`: the node knows finitely many blocks, so that
  one of them has most work.
- `LiveAssumption`: the index and the cache are handed only blocks that validation
  accepts, so an input is unspent when it is spent and an output does not replace
  an unspent one. `TxIdsUnique` (for the cache): an output was never unspent before
  its transaction, which is BIP 30 with BIP 34.
- `ParamAssumption`, `CacheAssumption`, `ReapAssumption`, `ProposalsAssumption`:
  parameters are natural numbers, the window and the tax denominator are not 0, the
  tax is at most everything, the orders of outpoints and scripts are total.
  `ScanAssumption`: REAP is used with an index from the first block, as
  `params_obtc.go` has it on every network.

### Arguments

*Expiry index.* `IndexMatchesTip` speaks of committed states only, and is not
inductive: nothing in it says what an open database transaction will commit.
`IInv` ties the open transaction to the view after the transactions it has
applied (`Halfway`), a finished one to the view of the block it moves to
(`Done`), and both to the manager's tip (`Connecting`, `Disconnecting`). `Errors`
records why a transaction was rolled back. Two lemmas carry the weight:
`ConnectTxGood` and `DisconnectTxGood` say that one transaction takes an index
that is right for one view to an index that is right for the next or the
previous view; the second needs that the heights in the spend journal are those
of that view. The refinement needs only that `Commit` is the one step that writes
`db` and `mgrTip`.

*UTXO cache.* `CacheSound` says nothing of a half-done reorganization or replay,
from which the next steps follow. `IInv` adds: the view of a reorganization turns
the tip's outputs into those it has come to (`Reorganizing`); a replay stands
between the block of the disk and the best block and shows the outputs it has come
to (`Replaying`, `InMemory`); until the first fault the cache remembers the flush
the disk is at, and the blocks above it are stored (`Pruning`). `ConnectApplies`
and `DisconnectUndoes` are the steps of one transaction; `FlushWritesLookup` says
that a flush writes what a lookup would find, for which the flags must be true.

*Chain selection.* Three invariants, each proved with the one before. `IInv` holds
for any overlap: `chainLock` is held exactly where the code holds it; the lists of
a reorganization in progress hold only blocks whose scripts were checked, and the
block being connected passed the prefix check; the valid flag implies checked
scripts, in memory and on disk (`FlagsInv`). Since the lock can change hands with
these lists half worked off, nothing may be said about where they lead; so `AInv`,
which does, is for calls that do not overlap. It says that what is to be attached
is off the best chain, not known to be invalid, and ends in the block that was
accepted; and that the invalid blocks of the best chain are exactly those
`InvalidateBlock` still has to detach. `BInv` is for `ProcessBlock` alone: the
lists are linked to the tip, so that attaching them succeeds, and each sound block
has no more work than the tip or the block on the way to it.

*REAP.* There is little state: the invariant only ties the verdict to
`checkConnectBlock`, and each property is a lemma about operators. Order: the
candidates are listed in the order of their keys, so a list that is a prefix of
them has no gap (`ReapSpendsFirst`). Share: the tax of each output, rounded down,
leaves its share rounded up (`TaxAndShare`), and sums over the inputs of one owner
follow. Mining: a prefix of a selection, trimmed any number of times, is again a
prefix that meets every limit it met before (`PrefixOfCandidates`,
`BlueprintAccepted`). Induction over data cannot be used, so facts about sums and
ordered lists are proved by taking the smallest set for which they fail
(`SmallestSet`, from `LeastNumber`).

### Only model-checked

- Liveness (`NodeComesBack`, `NodeStarts`, `CallsReturn`, the run `live`, and
  `RescanEnds`): the prover has no rules for fairness or `ENABLED`.
- `ExpiryStartup`: a batch of a rebuild and a caught-up block apply all their
  transactions in one step, a recursive function over them. What it computes needs
  induction over data, which the prover does not do.
- `MostWork` with rules that are checked while attaching, and the properties that
  `Alone` guards when calls overlap: they do not hold, see above.
- The components of `MCNode`, `MCNet` and `MCRpc`. The script engine is written
  with recursive operators, which the prover cannot take in. For the others no
  proof was attempted: the theorems are about consensus, where a disagreement
  between two nodes is for good.

## Not modelled

- Header, difficulty and time rules, version bits, Merkle trees: functions of one
  header, block or chain of headers. A block satisfies them or is refused, which
  `ChainProcess` has as a bad block.
- Wire and JSON encoding of values, cryptography, `btcutil`: sequential codecs and
  arithmetic. The positional encoding of RPC parameters is modelled (`RpcCalls`).
- Configuration, commands, service wrappers, log output, progress reports,
  statistics, port mapping, DNS seeding, `idx.disabled`, database upgrades.
- Data races in Go's sense; the shared state here is behind locks.

`PROJECT.json` lists the components with what each model leaves out, the source
lines of each definition, the hazards with the properties that cover them, and a
seeded fault for each property.
