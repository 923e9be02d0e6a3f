---------------------------- MODULE IndexManager ----------------------------
(***************************************************************************)
(* The manager of the optional indexes (blockchain/indexers): what it does *)
(* when the node starts (finish interrupted drops, create, roll back to    *)
(* the best chain, catch up), while it runs (each block connected or       *)
(* disconnected in the transaction of the chain) and when an index is      *)
(* dropped, with the transaction index and its internal block ids in       *)
(* detail.  The chain is a sequence of blocks; a block stands for its one  *)
(* transaction too.  Every database transaction is atomic; the process may *)
(* end between two of them.                                                *)
(***************************************************************************)
EXTENDS Integers, Sequences, SequencesExt, FiniteSets, TLC

CONSTANTS IdxBlocks,     \* blocks, 0 the genesis block
          IdxParent,     \* their parents
          Spending,      \* the blocks that spend something
          EnabledSets,   \* the sets of indexes a start may enable
          Increment,     \* the step of TxIndex.Init's forward scan (100000)
          MaxRefused,    \* bound: blocks a later index refuses
          MaxStarts,     \* bound: starts of the node
          MaxReorg       \* bound: disconnects while running

VARIABLES
  kept,       \* the database
  mem,        \* the process: its phase and what it keeps in memory
  tally       \* [refused, starts, disconnects, gap]

idxVars == <<kept, mem, tally>>

\* The numbers from lo to hi, and back; the only element of a singleton.
Up(lo, hi) == [k \in 1..(IF hi >= lo THEN hi - lo + 1 ELSE 0) |-> lo + k - 1]
Down(hi, lo) == Reverse(Up(lo, hi))
Only(S) == CHOOSE x \in S : TRUE

Order == <<"tx", "addr", "late">>    \* "late": any index after these two
NoTip == -2                          \* no entry in the bucket of the tips
NewTip == -1                         \* an index without blocks

Main == ToSet(kept.main)
Best == Last(kept.main)

Process == [phase |-> "off", on |-> {}, curBlockID |-> 0, drop |-> "none", then |-> "off"]

---------------------------------------------------------------------------
(* The transaction index.                                                  *)

\* TxIndex.Init: forward in large steps to an id that is not used, then a
\* binary search between the last used one and it.
SearchId(used) ==
  LET scan[n \in 0..Cardinality(used)] ==
        IF 1 + n * Increment \in used /\ n < Cardinality(used) THEN scan[n + 1] ELSE n
      halve[lo \in 0..(1 + Increment * (Cardinality(used) + 1))] ==
        [hi \in 0..(1 + Increment * (Cardinality(used) + 1)) |->
           IF lo + 1 >= hi THEN lo
           ELSE LET mid == (lo + hi) \div 2
                IN IF mid \in used THEN halve[mid][hi] ELSE halve[lo][mid]]
      n == scan[0]
  IN IF n = 0 THEN 0 ELSE halve[1 + (n - 1) * Increment][1 + n * Increment]

TxConnect(d, b, id) ==
  [d EXCEPT !.txs = (b :> id) @@ @, !.idOf = (b :> id) @@ @, !.blockOf = (id :> b) @@ @]

\* Seeded fault: the entries of a block stay when it is disconnected.
TxDisconnect_keeps(d, b) ==
  [d EXCEPT !.blockOf = [i \in DOMAIN @ \ {d.idOf[b]} |-> @[i]],
            !.idOf = [x \in DOMAIN @ \ {b} |-> @[x]]]

TxDisconnect(d, b) ==
  [d EXCEPT !.txs = [x \in DOMAIN @ \ {b} |-> @[x]],
            !.blockOf = [i \in DOMAIN @ \ {d.idOf[b]} |-> @[i]],
            !.idOf = [x \in DOMAIN @ \ {b} |-> @[x]]]

---------------------------------------------------------------------------
(* One block and one index: dbIndexConnectBlock, dbIndexDisconnectBlock.   *)
(* A result is the database and the id counter, or "bad".                  *)

Bad == [ok |-> FALSE, d |-> kept, id |-> 0]

ConnectOne(r, i, b) ==
  IF ~r.ok \/ r.d.tip[i] # IdxParent[b] THEN [r EXCEPT !.ok = FALSE]
  ELSE IF i = "addr" /\ b \notin DOMAIN r.d.idOf THEN [r EXCEPT !.ok = FALSE]
  ELSE [ok |-> TRUE,
        d |-> [(IF i = "tx" THEN TxConnect(r.d, b, r.id + 1) ELSE r.d)
                 EXCEPT !.tip[i] = b],
        id |-> IF i = "tx" THEN r.id + 1 ELSE r.id]

DisconnectOne(r, i, b) ==
  IF ~r.ok \/ r.d.tip[i] # b THEN [r EXCEPT !.ok = FALSE]
  ELSE [ok |-> TRUE,
        d |-> [(IF i = "tx" THEN TxDisconnect(r.d, b) ELSE r.d)
                 EXCEPT !.tip[i] = IdxParent[b]],
        id |-> IF i = "tx" THEN r.id - 1 ELSE r.id]

Begin == [ok |-> TRUE, d |-> kept, id |-> mem.curBlockID]
Each(Op(_, _, _), b) ==
  FoldLeft(LAMBDA r, i : IF i \in mem.on THEN Op(r, i, b) ELSE r, Begin, Order)

---------------------------------------------------------------------------
(* Running.                                                                *)

ManagerConnect(b) == Each(ConnectOne, b)
ManagerDisconnect(b) == Each(DisconnectOne, b)

\* A block extends the best chain; the last index may refuse it, which undoes
\* the transaction but not the counter in memory.
ConnectBlock(b) ==
  /\ mem.phase = "running" /\ IdxParent[b] = Best
  /\ LET r == ManagerConnect(b)
     IN \/ /\ r.ok
           /\ kept' = [r.d EXCEPT !.main = Append(@, b), !.journal = @ \cup {b}]
           /\ mem' = [mem EXCEPT !.curBlockID = r.id]
           /\ UNCHANGED tally
        \/ /\ tally.refused < MaxRefused /\ (r.ok => "late" \in mem.on)
           /\ mem' = [mem EXCEPT !.curBlockID = r.id]
           /\ tally' = [tally EXCEPT !.refused = @ + 1, !.gap = @ \/ r.id # mem.curBlockID]
           /\ UNCHANGED kept

\* The chain takes its tip back; the spend journal entry goes with it.
DisconnectBlock ==
  /\ mem.phase = "running" /\ Len(kept.main) > 1 /\ tally.disconnects < MaxReorg
  /\ tally' = [tally EXCEPT !.disconnects = @ + 1]
  /\ LET r == ManagerDisconnect(Best)
     IN /\ r.ok
        /\ kept' = [r.d EXCEPT !.main = Front(@), !.journal = @ \ {Best}]
        /\ mem' = [mem EXCEPT !.curBlockID = r.id]

---------------------------------------------------------------------------
(* Dropping an index.                                                      *)

\* DropTxIndex drops the address index first, then its own; DropAddrIndex.
StartDrop(i) ==
  /\ mem.phase = "off" /\ tally.starts < MaxStarts
  /\ tally' = [tally EXCEPT !.starts = @ + 1]
  /\ mem' = [Process EXCEPT !.phase = "drop", !.drop = IF i = "tx" THEN "addr" ELSE i,
                            !.then = IF i = "tx" THEN "droptx" ELSE "off"]
  /\ UNCHANGED kept

\* The steps of dropIndex: mark, find the buckets (which a missing one turns
\* into a panic), empty and delete them, the ids of the transaction index, the
\* tip and the mark.
After(step) == [mem EXCEPT !.phase = step]
Dropped == IF mem.then = "droptx" THEN [mem EXCEPT !.phase = "drop", !.drop = "tx", !.then = "off"]
           ELSE [mem EXCEPT !.phase = mem.then, !.drop = "none"]

DropMark ==
  /\ mem.phase = "drop"
  /\ IF kept.tip[mem.drop] = NoTip
     THEN mem' = Dropped /\ UNCHANGED kept
     ELSE /\ kept' = [kept EXCEPT !.dropping = @ \cup {mem.drop}]
          /\ mem' = After("dropwalk")
  /\ UNCHANGED tally

DropWalk ==
  /\ mem.phase = "dropwalk"
  /\ mem' = IF mem.drop \in kept.buckets THEN After("dropempty") ELSE After("panicked")
  /\ UNCHANGED <<kept, tally>>

DropEmpty ==
  /\ mem.phase = "dropempty"
  /\ kept' = IF mem.drop = "tx" THEN [kept EXCEPT !.txs = <<>>] ELSE kept
  /\ mem' = After("dropbucket")
  /\ UNCHANGED tally

DropBucket ==
  /\ mem.phase = "dropbucket"
  /\ kept' = [kept EXCEPT !.buckets = @ \ {mem.drop}]
  /\ mem' = After(IF mem.drop = "tx" THEN "dropids" ELSE "dropend")
  /\ UNCHANGED tally

DropIds ==
  /\ mem.phase = "dropids"
  /\ kept' = [kept EXCEPT !.idOf = <<>>, !.blockOf = <<>>]
  /\ mem' = After("dropend")
  /\ UNCHANGED tally

DropEnd ==
  /\ mem.phase = "dropend"
  /\ kept' = [kept EXCEPT !.tip[mem.drop] = NoTip, !.dropping = @ \ {mem.drop}]
  /\ mem' = Dropped
  /\ UNCHANGED tally

---------------------------------------------------------------------------
(* Manager.Init.                                                           *)

Start(on) ==
  /\ mem.phase = "off" /\ tally.starts < MaxStarts
  /\ tally' = [tally EXCEPT !.starts = @ + 1]
  /\ mem' = [Process EXCEPT !.phase = "resume", !.on = on, !.then = "resume"]
  /\ UNCHANGED kept

maybeFinishDrops ==
  /\ mem.phase = "resume"
  /\ LET due == {n \in 1..3 : Order[n] \in mem.on \cap kept.dropping}
     IN mem' = IF due = {} THEN After("create")
               ELSE [mem EXCEPT !.phase = "drop",
                                !.drop = Order[CHOOSE n \in due : \A k \in due : n <= k]]
  /\ UNCHANGED <<kept, tally>>

\* maybeCreateIndexes, and Init of each index.
maybeCreateIndexes ==
  /\ mem.phase = "create"
  /\ LET new == {i \in mem.on : kept.tip[i] = NoTip}
     IN kept' = [kept EXCEPT !.tip = [i \in DOMAIN @ |-> IF i \in new THEN NewTip ELSE @[i]],
                             !.buckets = @ \cup new]
  /\ mem' = [mem EXCEPT !.phase = "rollback",
               !.curBlockID = IF "tx" \in mem.on THEN SearchId(DOMAIN kept.blockOf) ELSE 0]
  /\ UNCHANGED tally

Astray(i) == kept.tip[i] >= 0 /\ kept.tip[i] \notin Main

\* An index whose tip is not on the best chain goes back a block at a time, the
\* last index first, with the spend journal entry of that block.
RollBack ==
  /\ mem.phase = "rollback"
  /\ LET due == {n \in 1..3 : Order[n] \in mem.on /\ Astray(Order[n])}
         i == Order[CHOOSE n \in due : \A k \in due : k <= n]
         b == kept.tip[i]
         r == DisconnectOne(Begin, i, b)
     IN IF due = {} THEN mem' = After("catchup") /\ UNCHANGED kept
        ELSE IF b \in Spending \ kept.journal THEN mem' = After("failed") /\ UNCHANGED kept
        ELSE /\ r.ok /\ kept' = r.d
             /\ mem' = [mem EXCEPT !.curBlockID = r.id]
  /\ UNCHANGED tally

Position(i) == IF kept.tip[i] = NewTip THEN 0
               ELSE CHOOSE n \in 1..Len(kept.main) : kept.main[n] = kept.tip[i]

\* The lowest height first, and at each height the indexes in order.
CatchUp ==
  /\ mem.phase = "catchup"
  /\ LET due == {n \in 1..3 : Order[n] \in mem.on /\ kept.tip[Order[n]] # Best}
         n == CHOOSE k \in due : \A j \in due :
                \/ Position(Order[k]) < Position(Order[j])
                \/ Position(Order[k]) = Position(Order[j]) /\ k <= j
         i == Order[n]
         r == ConnectOne(Begin, i, kept.main[Position(i) + 1])
     IN IF due = {} THEN mem' = After("running") /\ UNCHANGED kept
        ELSE IF r.ok THEN kept' = r.d /\ mem' = [mem EXCEPT !.curBlockID = r.id]
        ELSE mem' = After("failed") /\ UNCHANGED kept
  /\ UNCHANGED tally

\* The process ends, on purpose or not; it can also be interrupted.
Stop ==
  /\ mem.phase # "off"
  /\ mem' = Process
  /\ UNCHANGED <<kept, tally>>

IdxInit ==
  /\ kept = [main |-> <<0>>, journal |-> {}, tip |-> [i \in ToSet(Order) |-> NoTip],
             dropping |-> {}, buckets |-> {}, txs |-> <<>>, idOf |-> <<>>, blockOf |-> <<>>]
  /\ mem = Process
  /\ tally = [refused |-> 0, starts |-> 0, disconnects |-> 0, gap |-> FALSE]

IdxNext ==
  \/ \E on \in EnabledSets : Start(on)
  \/ \E i \in {"tx", "addr"} : StartDrop(i)
  \/ \E b \in IdxBlocks \ {0} : ConnectBlock(b)
  \/ DisconnectBlock
  \/ maybeFinishDrops \/ maybeCreateIndexes \/ RollBack \/ CatchUp
  \/ DropMark \/ DropWalk \/ DropEmpty \/ DropBucket \/ DropIds \/ DropEnd
  \/ Stop

---------------------------------------------------------------------------
(* Properties.                                                             *)

\* Types of the variables.
IdxTypeOK ==
  /\ \A i \in ToSet(Order) : kept.tip[i] \in {NoTip, NewTip} \cup IdxBlocks
  /\ kept.buckets \subseteq ToSet(Order) /\ mem.on \subseteq ToSet(Order)
  /\ mem.curBlockID \in Nat

\* Once the manager is initialized, every enabled index is at the tip of the best
\* chain, and the transaction index knows exactly its transactions; whatever
\* other indexes did before, and however often it was interrupted.
IndexesFollowChain ==
  mem.phase = "running" =>
    /\ \A i \in mem.on : kept.tip[i] = Best
    /\ "tx" \in mem.on => DOMAIN kept.txs = Main

Lookups ==
  \A b \in DOMAIN kept.txs : /\ kept.txs[b] \in DOMAIN kept.blockOf
                             /\ kept.blockOf[kept.txs[b]] = b

\* A transaction is looked up in the block that has it: no two blocks share an
\* internal id.  Excepted are histories in which an index refused a block, as
\* the counter in memory is not taken back then.
TxLookupsTrue == tally.gap \/ mem.phase \in {"dropids", "dropend"} \/ Lookups

\* Without that exception (TxBlockRegion "returns the block region for the
\* provided transaction hash").
TxLookupsAlwaysTrue == mem.phase \in {"dropids", "dropend"} \/ Lookups

\* An interrupted drop is finished at the next start (maybeFinishDrops: "finishes
\* dropping them when the are").
DropsFinish == mem.phase # "panicked"

\* A start rolls an index back to the best chain ("it can happen if the chain is
\* reorganized while the index is disabled").
StartRollsBack == mem.phase # "failed"

-----------------------------------------------------------------------------
(***************************************************************************)
(* The address index (blockchain/indexers/addrindex.go): for every address *)
(* the transactions that involve it, in levels of doubling size that       *)
(* connected blocks fill and disconnected blocks take from, and the        *)
(* memory-only index of the transactions of the pool.  An entry is the     *)
(* position of its transaction in the chain.                               *)
(***************************************************************************)

CONSTANTS IndexAddrs,        \* addresses
          Shapes,            \* blocks: for each transaction its scripts' addresses
          level0MaxEntries,  \* 8 in the code
          MaxLevel,          \* bound: the highest level
          MaxHeightA,        \* bound: blocks on the chain
          PoolTxAddrs,       \* pool transactions and their scripts' addresses
          Windows            \* the numbers of entries a query skips and asks for

AddrIndexAssumption == level0MaxEntries \in Nat \ {0} /\ MaxLevel \in Nat

VARIABLES
  levels,      \* levels[a][n + 1]: the entries of address a at level n (<<>>: no key)
  blocksA,     \* the blocks of the chain
  txnsByAddr,  \* memory-only: transactions of an address
  addrsByTx,   \* memory-only: addresses of a transaction
  failedA      \* a removal found fewer entries than it should

addrIdxVars == <<levels, blocksA, txnsByAddr, addrsByTx, failedA>>

Levels == 0..MaxLevel
Cut(s, n) == SubSeq(s, n + 1, Len(s))

\* Both powers the code computes by doubling.
maxEntriesForLevel(level) == level0MaxEntries * 2^level
minEntriesToReachLevel(level) == 1 + level0MaxEntries * (2^level - 1)

---------------------------------------------------------------------------
(* Entries in and out of the levels.  Level l is at position l + 1.        *)

\* The level that takes what is below it: the first above 0 that is not full.
Merged(ls) == CHOOSE l \in 1..MaxLevel :
                /\ Len(ls[l + 1]) # maxEntriesForLevel(l)
                /\ \A k \in 1..(l - 1) : Len(ls[k + 1]) = maxEntriesForLevel(k)

\* An entry goes to level 0.  When that is full, the first level that is not
\* takes what is below it, and everything below moves up a level.
dbPutAddrIndexEntry(ls, e) ==
  IF Len(ls[1]) < level0MaxEntries THEN [ls EXCEPT ![1] = Append(@, e)]
  ELSE LET n == Merged(ls)
       IN << <<e>> >> \o SubSeq(ls, 1, n - 1) \o <<ls[n + 1] \o ls[n]>> \o Cut(ls, n + 1)

\* The first loop: whole levels go, then part of one.
RemoveStep(r, l) ==
  LET n == Len(r.ls[l + 1])
  IN IF r.left = 0 \/ r.short THEN r
     ELSE IF n = 0 THEN [r EXCEPT !.short = TRUE]
     ELSE IF r.left >= n THEN [r EXCEPT !.ls[l + 1] = <<>>, !.left = @ - n, !.highest = l]
     ELSE [r EXCEPT !.ls[l + 1] = SubSeq(@, 1, n - r.left), !.left = 0, !.highest = l]

Removed(ls, count) ==
  FoldLeft(RemoveStep, [ls |-> ls, left |-> count, highest |-> 0, short |-> FALSE],
           Up(0, MaxLevel))

\* The second loop: what is left of the highest level loaded is spread over the
\* levels from it down, each half full or full, with enough for those below.
SpreadStep(r, l) ==
  LET n == Len(r.data)
      full == maxEntriesForLevel(l)
      below == minEntriesToReachLevel(l - 1)
      take == IF n - full >= below THEN full ELSE full \div 2
  IN IF n < full \div 2 + below
     THEN [r EXCEPT !.ls[l + 1] = <<>>, !.lowest = l]
     ELSE [r EXCEPT !.ls[l + 1] = SubSeq(r.data, 1, take), !.data = Cut(r.data, take)]

Spread(r) ==
  Only({[ls |-> [s.ls EXCEPT ![1] = s.data], highest |-> r.highest,
         lowest |-> IF s.data = <<>> THEN 0 ELSE s.lowest] :
          s \in {FoldLeft(SpreadStep,
                          [ls |-> r.ls, data |-> r.ls[r.highest + 1], lowest |-> 255],
                          Down(r.highest, 1))}})

\* The inner loop of the third: data of level l halved down to the lowest empty.
HalfStep(ls, l) ==
  LET n == maxEntriesForLevel(l) \div 2
  IN [ls EXCEPT ![l + 1] = SubSeq(@, 1, n), ![l] = Cut(ls[l + 1], n)]

Halved(ls, l, lowest) == FoldLeft(HalfStep, ls, Down(l, lowest + 1))

\* The third: while the highest level loaded is empty the one after it is used
\* to fill it and every empty level below, a half full one moved down first.
FillStep(r, l) ==
  IF r.ls[l] # <<>> \/ r.ls[l + 1] = <<>> THEN r
  ELSE [ls |-> IF Len(r.ls[l + 1]) = maxEntriesForLevel(l)
               THEN Halved(r.ls, l, r.lowest)
               ELSE Halved([r.ls EXCEPT ![l + 1] = <<>>, ![l] = r.ls[l + 1]],
                           l - 1, r.lowest),
        lowest |-> l]

Backfill(s) ==
  FoldLeft(FillStep, [ls |-> s.ls, lowest |-> s.lowest], Up(s.highest + 1, MaxLevel)).ls

dbRemoveAddrIndexEntries(ls, count) ==
  IF count <= 0 THEN [ls |-> ls, short |-> FALSE]
  ELSE Only({IF r.short \/ r.left > 0 THEN [ls |-> ls, short |-> TRUE]
             ELSE IF r.ls[1] # <<>> THEN [ls |-> r.ls, short |-> FALSE]
             ELSE [ls |-> Only({Backfill(s) : s \in {Spread(r)}}), short |-> FALSE] :
               r \in {Removed(ls, count)}})

\* Whether the entries read suffice before another level is (-1: read all).
Enough(r, data, wanted) == wanted >= 0 /\ Len(r) >= wanted

\* The levels from 0 up, older ones in front, until one has no key or there are
\* enough.
Gathered(ls, wanted) ==
  FoldLeft(LAMBDA r, data : IF r.end \/ data = <<>> \/ Enough(r.got, data, wanted)
                            THEN [r EXCEPT !.end = TRUE]
                            ELSE [r EXCEPT !.got = data \o @],
           [got |-> <<>>, end |-> FALSE], ls).got

dbFetchAddrIndexEntries(ls, skip, num, reverse) ==
  Only({LET n == Len(data)
            load == IF n - skip > num THEN num ELSE n - skip
        IN IF skip >= n THEN [got |-> <<>>, skipped |-> n]
           ELSE [got |-> [i \in 1..load |->
                            data[IF reverse THEN n - skip - i + 1 ELSE skip + i]],
                 skipped |-> skip] :
          data \in {Gathered(ls, IF reverse THEN skip + num ELSE -1)}})

---------------------------------------------------------------------------
(* Blocks.                                                                 *)

\* A transaction is listed once: it is compared with the last one listed.
indexPkScript(data, a, txIdx) ==
  IF data[a] # <<>> /\ Last(data[a]) = txIdx THEN data
  ELSE [data EXCEPT ![a] = Append(@, txIdx)]

\* The addresses of the scripts spent and created, transaction by transaction.
indexBlock(shape) ==
  FoldLeft(LAMBDA data, t : FoldLeft(LAMBDA d, a : indexPkScript(d, a, t), data, shape[t]),
           [a \in IndexAddrs |-> <<>>], Up(1, Len(shape)))

Entry(height, txIdx) == height * 100 + txIdx

ConnectAddrBlock(shape) ==
  /\ Len(blocksA) < MaxHeightA
  /\ blocksA' = Append(blocksA, shape)
  /\ \E data \in {indexBlock(shape)} :
       levels' = [a \in IndexAddrs |->
                    FoldLeft(LAMBDA ls, t : dbPutAddrIndexEntry(ls, Entry(Len(blocksA) + 1, t)),
                             levels[a], data[a])]
  /\ UNCHANGED <<txnsByAddr, addrsByTx, failedA>>

DisconnectAddrBlock ==
  /\ blocksA # <<>>
  /\ blocksA' = Front(blocksA)
  /\ \E data \in {indexBlock(Last(blocksA))} :
       \E out \in {[a \in IndexAddrs |-> dbRemoveAddrIndexEntries(levels[a], Len(data[a]))]} :
         /\ levels' = [a \in IndexAddrs |-> out[a].ls]
         /\ failedA' = (failedA \/ \E a \in IndexAddrs : out[a].short)
  /\ UNCHANGED <<txnsByAddr, addrsByTx>>

---------------------------------------------------------------------------
(* The pool's transactions.  An address without transactions has no key.   *)

\* indexUnconfirmedAddresses: both maps, for one address of one transaction.
indexUnconfirmed(m, tx, a) ==
  [byAddr |-> [x \in DOMAIN m.byAddr \cup {a} |->
                 (IF x \in DOMAIN m.byAddr THEN m.byAddr[x] ELSE {})
                   \cup (IF x = a THEN {tx} ELSE {})],
   byTx |-> [x \in DOMAIN m.byTx \cup {tx} |->
                 (IF x \in DOMAIN m.byTx THEN m.byTx[x] ELSE {})
                   \cup (IF x = tx THEN {a} ELSE {})]]

AddUnconfirmedTx(tx) ==
  /\ \E m \in {FoldLeft(LAMBDA acc, a : indexUnconfirmed(acc, tx, a),
                        [byAddr |-> txnsByAddr, byTx |-> addrsByTx], PoolTxAddrs[tx])} :
       txnsByAddr' = m.byAddr /\ addrsByTx' = m.byTx
  /\ UNCHANGED <<levels, blocksA, failedA>>

\* The addresses of the transaction forget it, and go with their last one.
Unlisted(tx) ==
  [a \in {x \in DOMAIN txnsByAddr : x \in addrsByTx[tx] => txnsByAddr[x] # {tx}} |->
     IF a \in addrsByTx[tx] THEN txnsByAddr[a] \ {tx} ELSE txnsByAddr[a]]

RemoveUnconfirmedTx(tx) ==
  /\ tx \in DOMAIN addrsByTx
  /\ txnsByAddr' = Unlisted(tx)
  /\ addrsByTx' = [x \in DOMAIN addrsByTx \ {tx} |-> addrsByTx[x]]
  /\ UNCHANGED <<levels, blocksA, failedA>>

AddrIdxInit ==
  /\ levels = [a \in IndexAddrs |-> [l \in 1..(MaxLevel + 1) |-> <<>>]]
  /\ blocksA = <<>> /\ failedA = FALSE
  /\ txnsByAddr = <<>> /\ addrsByTx = <<>>

AddrIdxNext ==
  \/ \E shape \in Shapes : ConnectAddrBlock(shape)
  \/ DisconnectAddrBlock
  \/ \E tx \in DOMAIN PoolTxAddrs : AddUnconfirmedTx(tx) \/ RemoveUnconfirmedTx(tx)

---------------------------------------------------------------------------
(* Properties.                                                             *)

\* The reference: the transactions of the chain that involve the address.
Touching(a) ==
  LET of(h) == SelectSeq([t \in 1..Len(blocksA[h]) |-> IF a \in ToSet(blocksA[h][t])
                                                       THEN Entry(h, t) ELSE 0],
                         LAMBDA e : e # 0)
  IN FoldLeft(LAMBDA all, h : all \o of(h), <<>>, Up(1, Len(blocksA)))

\* Whatever blocks came and went, a query returns the transactions of the address
\* in the order of the chain (or the reverse), after those it skips.
QueriesTrue ==
  /\ ~failedA
  /\ \A a \in IndexAddrs : \A list \in {Touching(a)} :
     \A skip \in Windows, num \in Windows \ {0}, reverse \in BOOLEAN :
       LET all == IF reverse THEN Reverse(list) ELSE list
           r == dbFetchAddrIndexEntries(levels[a], skip, num, reverse)
           end == IF skip + num < Len(all) THEN skip + num ELSE Len(all)
       IN /\ r.got = SubSeq(all, skip + 1, end)
          /\ r.skipped = IF skip < Len(all) THEN skip ELSE Len(all)

\* The rule the comments give: levels above 0 are empty, half full or full, and no
\* level above an empty one has entries.
LevelsWellFormed ==
  \A a \in IndexAddrs, l \in Levels \ {0} :
    LET n == Len(levels[a][l + 1])
        full == level0MaxEntries * 2^l
    IN /\ n \in {0, full \div 2, full}
       /\ n > 0 => Len(levels[a][l]) > 0
       /\ Len(levels[a][1]) <= level0MaxEntries

\* The two memory-only maps are each other's inverse and hold exactly the
\* transactions of the pool.
UnconfirmedAgree ==
  /\ \A tx \in DOMAIN addrsByTx : addrsByTx[tx] = ToSet(PoolTxAddrs[tx])
  /\ DOMAIN txnsByAddr = UNION {addrsByTx[tx] : tx \in DOMAIN addrsByTx}
  /\ \A a \in DOMAIN txnsByAddr :
       txnsByAddr[a] = {tx \in DOMAIN addrsByTx : a \in addrsByTx[tx]}
=============================================================================
