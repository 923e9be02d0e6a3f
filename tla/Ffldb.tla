------------------------------- MODULE Ffldb -------------------------------
(***************************************************************************)
(* The block database of database/ffldb: raw blocks in flat files, their   *)
(* locations and everything else in a leveldb database, in front of which  *)
(* an in-memory cache collects the committed transactions until a flush.   *)
(*                                                                         *)
(* A key of the metadata is a natural number: 0 is the row of the write    *)
(* cursor, n (below 10) a key a client's n-th transaction puts, and        *)
(* 10*n + i the row of the i-th block that transaction stores; a value is  *)
(* a location.  A block takes one unit of a file (its network, length,     *)
(* bytes and checksum), a file holds FileUnits.  One writer at a time (the *)
(* write lock), one concurrent reader.  The process can crash between any  *)
(* two steps, with or without the loss of what was never synced.           *)
(***************************************************************************)
EXTENDS Integers, Sequences, FiniteSets, FiniteSetsExt, Functions, TLC

CONSTANTS FileUnits,    \* maxBlockFileSize, in units
          MaxTxs,       \* bound: writable transactions
          MaxBlocks,    \* bound: blocks stored by a transaction
          MaxFaults,    \* bound: failing file or leveldb operations
          MaxCrashes    \* bound: unclean shutdowns

FfldbAssumption == /\ FileUnits \in Nat \ {0}
                          /\ {MaxTxs, MaxBlocks} \subseteq 1..9
                          /\ {MaxFaults, MaxCrashes} \subseteq Nat

VARIABLES
  flat,       \* the flat files: number -> [data, synced]
  cursor,     \* blockStore.writeCursor: [file, off, open]
  ldb,        \* the leveldb database: a map from keys to values
  cache,      \* dbCache.cachedKeys and cachedRemove
  writer,     \* the writable transaction, and db.Close
  reader,     \* a read-only transaction
  store,      \* "open", "closed", "down" or "corrupt"
  commits,    \* every state of the metadata committed so far, in order
  past        \* what happened: transactions begun, faults, crashes, and the
              \* files a claim has to except

fvars == <<flat, cursor, ldb, cache, writer, reader, store, commits, past>>

---------------------------------------------------------------------------
(* The cache in front of leveldb.                                          *)

Loc(f, o) == [file |-> f, off |-> o]

NoChange == [puts |-> <<>>, rems |-> {}]

\* A map with some keys put and some removed: commitTreaps, and what
\* dbCacheSnapshot.Get reads through the cache.
Replay(map, change) ==
  Restrict(change.puts @@ map, (DOMAIN map \cup DOMAIN change.puts) \ change.rems)

\* The part of commitTx that adds a transaction's updates to the cache.
MergeTx(old, new) ==
  [puts |-> new.puts @@ Restrict(old.puts, DOMAIN old.puts \ new.rems),
   rems |-> (old.rems \ DOMAIN new.puts) \cup new.rems]

Current == commits[Len(commits)]

BlockKeys(map) == {k \in DOMAIN map : k >= 10}
Markers(map) == {k \in DOMAIN map : k \in 1..9}

---------------------------------------------------------------------------
(* The flat files.                                                         *)

Size(f) == Len(flat[f].data)
LastFile == IF flat = <<>> THEN 0 ELSE Max(DOMAIN flat)

\* What a file holds besides blocks: a partly written one, and nothing.
Junk == -1
Hole == -2

\* WriteAt: bytes the file did not have read as a hole.
WriteAt(data, off, unit) ==
  [i \in 1..Max({Len(data), off + 1}) |->
     IF i = off + 1 THEN unit ELSE IF i <= Len(data) THEN data[i] ELSE Hole]

Empty == [data |-> <<>>, synced |-> 0]

\* The file and offset writeBlock writes the next block to.
NextPlace == IF cursor.off + 1 > FileUnits
             THEN Loc(cursor.file + 1, 0) ELSE Loc(cursor.file, cursor.off)

FileAt(f) == IF f \in DOMAIN flat THEN flat[f] ELSE Empty

Written(f, o, unit) ==
  (f :> [FileAt(f) EXCEPT !.data = WriteAt(@, o, unit)]) @@ flat

\* handleRollback: the files after the old one are deleted, from the last
\* down, until one is missing; the old one is truncated and synced.
Rolled(f, o) ==
  LET after == {n \in DOMAIN flat : n > f}
      gone == {n \in after : \A k \in n..LastFile : k \in DOMAIN flat}
      failed == after # {} /\ \E k \in (f + 1)..LastFile : k \notin DOMAIN flat
      kept == Restrict(flat, DOMAIN flat \ gone)
      data == [i \in 1..o |-> IF i <= Len(FileAt(f).data)
                              THEN FileAt(f).data[i] ELSE Hole]
  IN IF failed THEN kept ELSE (f :> [data |-> data, synced |-> o]) @@ kept

handleRollback(f, o) ==
  IF cursor.file = f /\ cursor.off = o
  THEN UNCHANGED <<flat, cursor>>
  ELSE /\ flat' = Rolled(f, o)
       /\ cursor' = [file |-> f, off |-> o, open |-> TRUE]

\* syncBlocks: the current file only, when it is open.
Synced == IF cursor.open /\ cursor.file \in DOMAIN flat
          THEN [flat EXCEPT ![cursor.file].synced = Size(cursor.file)] ELSE flat

---------------------------------------------------------------------------
(* A writable transaction.                                                 *)

NoTx == [phase |-> "none", change |-> NoChange, todo |-> {}, del |-> {},
         old |-> Loc(0, 0), closing |-> FALSE]

\* A client's transaction: it stores some blocks, replaces the client's key
\* and may prune.  The snapshot of a writer cannot race with a flush.
Update(n, blocks) ==
  /\ store = "open" /\ writer.phase = "none" /\ past.begun < MaxTxs
  /\ n = past.begun + 1 /\ past' = [past EXCEPT !.begun = n]
  /\ writer' = [NoTx EXCEPT
       !.phase = "body",
       !.change = [puts |-> n :> Loc(0, 0), rems |-> Markers(Current)],
       !.todo = {10 * n + i : i \in 1..blocks}]
  /\ UNCHANGED <<flat, cursor, ldb, cache, reader, store, commits>>

\* The files PruneBlocks deletes for a target of one full file.
Surplus ==
  LET first == Min(DOMAIN flat)
      Total(k) == Size(LastFile) + FileUnits * (LastFile - k)
  IN IF flat = <<>> THEN {}
     ELSE {k \in first..(LastFile - 1) : Total(k) > FileUnits}

\* PruneBlocks: the rows of the blocks in those files go in the transaction,
\* the files when it commits.
PruneBlocks ==
  /\ writer.phase = "body" /\ writer.del = {} /\ Surplus # {}
  /\ writer' = [writer EXCEPT
       !.del = Surplus,
       !.change.rems = @ \cup {k \in BlockKeys(Current) : Current[k].file \in Surplus}]
  /\ UNCHANGED <<flat, cursor, ldb, cache, reader, store, commits, past>>

\* Rollback, also what Update does when the client's function fails.
Rollback ==
  /\ writer.phase = "body"
  /\ writer' = NoTx
  /\ UNCHANGED <<flat, cursor, ldb, cache, reader, store, commits, past>>

Fault == past.faults < MaxFaults

\* writePendingAndCommit deletes the pruned files before anything else.
DeleteFiles ==
  /\ writer.phase = "body"
  /\ \/ /\ flat' = Restrict(flat, DOMAIN flat \ writer.del)
        /\ writer' = [writer EXCEPT !.phase = "write",
                                    !.old = Loc(cursor.file, cursor.off)]
        /\ past' = [past EXCEPT
             !.deleted = @ \cup writer.del,
             !.outran = @ \/ \E f \in writer.del : f >= ldb[0].file]
     \/ /\ writer.del # {} /\ Fault
        /\ writer' = NoTx /\ past' = [past EXCEPT !.faults = @ + 1]
        /\ UNCHANGED flat
  /\ UNCHANGED <<cursor, ldb, cache, reader, store, commits>>

\* One block of the transaction: writeBlock, and its row on success.
writeBlock ==
  /\ writer.phase = "write" /\ writer.todo # {}
  /\ LET b == Min(writer.todo)
         at == NextPlace
     IN \/ /\ flat' = Written(at.file, at.off, b)
           /\ cursor' = [file |-> at.file, off |-> at.off + 1, open |-> TRUE]
           /\ writer' = [writer EXCEPT !.todo = @ \ {b},
                                       !.change.puts = (b :> at) @@ @]
           /\ past' = [past EXCEPT !.unsynced =
                IF /\ at.file # cursor.file /\ cursor.file \in DOMAIN flat
                   /\ flat[cursor.file].synced < Size(cursor.file)
                THEN @ \cup {cursor.file} ELSE @]
        \/ /\ Fault
           /\ flat' = Written(at.file, at.off, Junk)
           /\ cursor' = [file |-> at.file, off |-> at.off + 1, open |-> TRUE]
           /\ writer' = [writer EXCEPT !.phase = "undo"]
           /\ past' = [past EXCEPT !.faults = @ + 1]
  /\ UNCHANGED <<ldb, cache, reader, store, commits>>

UndoWrites ==
  /\ writer.phase = "undo"
  /\ handleRollback(writer.old.file, writer.old.off)
  /\ writer' = NoTx
  /\ UNCHANGED <<ldb, cache, reader, store, commits, past>>

\* commitTx without a flush: into the cache.
CommitToCache ==
  /\ writer.phase = "write" /\ writer.todo = {}
  /\ LET tx == [writer.change EXCEPT !.puts = (0 :> Loc(cursor.file, cursor.off)) @@ @]
     IN /\ cache' = MergeTx(cache, tx)
        /\ commits' = Append(commits, Replay(Current, tx))
  /\ writer' = NoTx
  /\ UNCHANGED <<flat, cursor, ldb, reader, store, past>>

\* commitTx when the cache is full or old: flush first, in three steps.
FlushSync ==
  /\ writer.phase = "write" /\ writer.todo = {}
  /\ flat' = Synced
  /\ writer' = [writer EXCEPT
       !.phase = "flush",
       !.change.puts = IF writer.closing THEN @
                       ELSE (0 :> Loc(cursor.file, cursor.off)) @@ @]
  /\ UNCHANGED <<cursor, ldb, cache, reader, store, commits, past>>

FlushCommit ==
  /\ writer.phase = "flush"
  /\ ldb' = Replay(ldb, cache)
  /\ writer' = [writer EXCEPT !.phase = "clear"]
  /\ UNCHANGED <<flat, cursor, cache, reader, store, commits, past>>

FlushClear ==
  /\ writer.phase = "clear"
  /\ cache' = NoChange
  /\ writer' = IF writer.closing THEN NoTx ELSE [writer EXCEPT !.phase = "direct"]
  /\ store' = IF writer.closing THEN "closed" ELSE store
  /\ reader' = [reader EXCEPT !.raced = @ \/ reader.phase = "half"]
  /\ UNCHANGED <<flat, cursor, ldb, commits, past>>

\* The transaction itself then goes to leveldb directly.
CommitDirect ==
  /\ writer.phase = "direct"
  /\ ldb' = Replay(ldb, writer.change)
  /\ commits' = Append(commits, Replay(Current, writer.change))
  /\ writer' = NoTx
  /\ reader' = [reader EXCEPT !.raced = @ \/ reader.phase = "half"]
  /\ UNCHANGED <<flat, cursor, cache, store, past>>

\* A leveldb transaction fails: Commit returns the error; the block files
\* are not rolled back.  Close closes leveldb all the same.
CommitFails ==
  /\ writer.phase \in {"flush", "direct"} /\ Fault
  /\ past' = [past EXCEPT !.faults = @ + 1]
  /\ writer' = NoTx
  /\ store' = IF writer.closing THEN "closed" ELSE store
  /\ UNCHANGED <<flat, cursor, ldb, cache, reader, commits>>

\* db.Close waits for the transactions, then flushes.
Close ==
  /\ store = "open" /\ writer.phase = "none" /\ reader.phase = "none"
  /\ writer' = [NoTx EXCEPT !.phase = "write", !.closing = TRUE]
  /\ store' = "closing"
  /\ UNCHANGED <<flat, cursor, ldb, cache, reader, commits, past>>

---------------------------------------------------------------------------
(* A read-only transaction: View.                                          *)

NoReader == [phase |-> "none", since |-> 0, base |-> <<>>, view |-> <<>>,
             raced |-> FALSE]

\* Snapshot takes the leveldb snapshot first ...
SnapshotLdb ==
  /\ store = "open" /\ reader.phase = "none"
  /\ reader' = [NoReader EXCEPT !.phase = "half", !.since = Len(commits),
                                !.base = ldb]
  /\ UNCHANGED <<flat, cursor, ldb, cache, writer, store, commits, past>>

\* Seeded fault: the keys the cache removed are still read from leveldb.
SnapshotCache_resurrects ==
  /\ reader.phase = "half"
  /\ reader' = [reader EXCEPT !.phase = "open", !.base = <<>>,
                              !.view = cache.puts @@ reader.base]
  /\ UNCHANGED <<flat, cursor, ldb, cache, writer, store, commits, past>>

\* ... and the cached updates after it.
SnapshotCache ==
  /\ reader.phase = "half"
  /\ reader' = [reader EXCEPT !.phase = "open", !.base = <<>>,
                              !.view = Replay(reader.base, cache)]
  /\ UNCHANGED <<flat, cursor, ldb, cache, writer, store, commits, past>>

EndView ==
  /\ reader.phase = "open"
  /\ reader' = NoReader
  /\ UNCHANGED <<flat, cursor, ldb, cache, writer, store, commits, past>>

---------------------------------------------------------------------------
(* Unclean shutdown and opening.                                           *)

\* What may be left of the files when unsynced data can be lost.
Remains(keep) ==
  [f \in DOMAIN flat |->
     IF f \in keep THEN flat[f]
     ELSE [flat[f] EXCEPT !.data = SubSeq(@, 1, flat[f].synced)]]

\* The process ends at any point; keep are the files that lose nothing.
Crash(keep) ==
  /\ store \in {"open", "closing"} /\ past.crashes < MaxCrashes
  /\ past' = [past EXCEPT !.crashes = @ + 1]
  /\ flat' = Remains(keep)
  /\ cache' = NoChange /\ writer' = NoTx /\ reader' = NoReader
  /\ store' = "down"
  /\ UNCHANGED <<cursor, ldb, commits>>

Before(p, q) == p.file < q.file \/ (p.file = q.file /\ p.off < q.off)

\* openDB and reconcileDB: the cursor of the files against the one of the
\* metadata.
Open ==
  /\ store \in {"down", "closed"}
  /\ LET found == IF flat = <<>> THEN Loc(0, 0) ELSE Loc(LastFile, Size(LastFile))
         want == ldb[0]
     IN /\ store' = IF Before(found, want) THEN "corrupt" ELSE "open"
        /\ flat' = IF Before(want, found) THEN Rolled(want.file, want.off) ELSE flat
        /\ cursor' = [file |-> want.file, off |-> want.off,
                      open |-> Before(want, found)]
  /\ commits' = <<ldb>>
  /\ cache' = NoChange
  /\ UNCHANGED <<ldb, writer, reader, past>>

FfldbInit ==
  /\ flat = <<>> /\ cursor = [file |-> 0, off |-> 0, open |-> FALSE]
  /\ ldb = 0 :> Loc(0, 0) /\ cache = NoChange
  /\ writer = NoTx /\ reader = NoReader /\ store = "open"
  /\ commits = <<ldb>>
  /\ past = [begun |-> 0, faults |-> 0, crashes |-> 0, deleted |-> {},
             unsynced |-> {}, outran |-> FALSE]

FfldbNext ==
  \/ \E n \in 1..MaxTxs, blocks \in 0..MaxBlocks : Update(n, blocks)
  \/ PruneBlocks \/ Rollback \/ DeleteFiles \/ writeBlock \/ UndoWrites
  \/ CommitToCache \/ FlushSync \/ FlushCommit \/ FlushClear \/ CommitDirect
  \/ CommitFails \/ Close
  \/ SnapshotLdb \/ SnapshotCache \/ EndView
  \/ \E keep \in SUBSET DOMAIN flat : Crash(keep)
  \/ Open

---------------------------------------------------------------------------
(* Properties.                                                             *)

\* Types of the variables.
FfldbTypeOK ==
  /\ \A f \in DOMAIN flat : flat[f].synced \in 0..Len(flat[f].data)
  /\ cursor.off \in 0..FileUnits /\ 0 \in DOMAIN ldb
  /\ DOMAIN cache.puts \cap cache.rems = {}
  /\ store \in {"open", "closing", "closed", "down", "corrupt"}

\* What a new transaction reads, leveldb through the cache, is the state the
\* last committed transaction left, whether the transactions since are in the
\* cache, flushed, or half flushed; a transaction that failed left nothing.
ReadsLastCommit ==
  store = "open" => Replay(ldb, cache) = Current

\* A read-only transaction sees one committed state, not older than the moment
\* it began, as Snapshot promises, unless a flush emptied the cache or wrote
\* a transaction past it between its two steps.
SnapshotIsCommitted ==
  reader.phase = "open" /\ ~reader.raced =>
    \E i \in reader.since..Len(commits) : reader.view = commits[i]

\* Without that exception (Snapshot: "a snapshot of the database cache and
\* underlying database at a particular point in time").
SnapshotIsPointInTime ==
  reader.phase = "open" =>
    \E i \in reader.since..Len(commits) : reader.view = commits[i]

\* The block a row of the metadata locates is in its file.
Readable(row, map) ==
  LET at == map[row]
  IN at.off < Size(at.file) /\ flat[at.file].data[at.off + 1] = row

\* Every block of the committed metadata can be read, before and after any
\* failed write, failed commit and unclean shutdown.  Excepted are the files a
\* prune deleted whose transaction did not become durable, those that were
\* closed with unsynced data, and prunes that ran ahead of the flushes.
BlocksReadable ==
  store = "open" /\ ~past.outran =>
    \A row \in BlockKeys(Current) :
      \/ Current[row].file \in past.deleted \cup past.unsynced
      \/ Current[row].file \in DOMAIN flat /\ Readable(row, Current)

\* Opening after an unclean shutdown never finds the block files behind the
\* metadata: the data is synced before the metadata is written.
AlwaysReconciled == store # "corrupt"

\* The location of every block in the durable metadata is durable
\* (syncBlocks: "to ensure all the block data is fully written before updating
\* the metadata").
FlushedIsSynced ==
  \A row \in BlockKeys(ldb) :
    ldb[row].file \in DOMAIN flat => ldb[row].off < flat[ldb[row].file].synced
=============================================================================
