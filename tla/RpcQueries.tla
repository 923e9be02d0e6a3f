----------------------------- MODULE RpcQueries -----------------------------
(***************************************************************************)
(* The JSON-RPC queries about blocks and transactions (rpcserver.go).      *)
(* Each handler reads the chain, the indexes and the memory pool in        *)
(* several calls that take and release their own locks, while another      *)
(* goroutine connects and disconnects blocks in four visible steps: the    *)
(* database (with the transaction and address indexes), the best chain     *)
(* view, the state snapshot, and the notification that moves the           *)
(* transactions between the pool and the chain.  One action is one of      *)
(* those calls or one of those steps.                                      *)
(***************************************************************************)
EXTENDS Integers, SequencesExt

CONSTANTS
    Parent,      \* the block tree: every block but the genesis block's parent
    TxsOf,       \* the transactions of each block, in order
    Spender,     \* the transaction that spends the output of another
    Asked,       \* the queries a client may make
    Starts,      \* the chains and pools a query may meet: [chain, pool]
    Retarget,    \* blocks per retarget interval
    MaxMoves     \* bound: blocks connected or disconnected during a query

VARIABLES
    indexed,     \* the main chain the database and its indexes describe
    bestChain,   \* the chain view in memory
    best,        \* the height of the state snapshot
    news,        \* the block the subscribers are still to be told of
    pool,        \* the memory pool
    moves,       \* blocks connected or disconnected so far
    query,       \* the query being served
    since        \* history: the world the query started in, and whether the
                 \* chain only grew, or did not move at all, since then

queryVars == <<indexed, bestChain, best, news, pool, moves, query, since>>

Blocks == DOMAIN TxsOf

Quiet == [what |-> "none", block |-> "none"]

\* The transactions of a chain, oldest first, each with its block.
Listed(chain) == FlattenSeq([i \in DOMAIN chain |->
    [j \in DOMAIN TxsOf[chain[i]] |-> [tx |-> TxsOf[chain[i]][j], block |-> chain[i]]]])

Mined(chain) == {e.tx : e \in Range(Listed(chain))}

BlockOf(chain, tx) == (CHOOSE e \in Range(Listed(chain)) : e.tx = tx).block

Least(a, b) == IF a < b THEN a ELSE b

\* Heights start at zero with the genesis block.
HeightIn(chain, b) == (CHOOSE i \in DOMAIN chain : chain[i] = b) - 1

-----------------------------------------------------------------------------
(***************************************************************************)
(* The goroutine that moves the chain.                                     *)
(***************************************************************************)

\* Only one block is connected or disconnected at a time, up to and with its
\* notification.
Still == indexed = bestChain /\ best = Len(bestChain) - 1 /\ news = Quiet

\* The database transaction of connectBlock: the indexes follow in it.
ConnectBlock(b) ==
    /\ Still /\ moves < MaxMoves
    /\ b \in DOMAIN Parent /\ Parent[b] = Last(indexed)
    /\ \A i \in DOMAIN TxsOf[b] : TxsOf[b][i] \notin Mined(indexed)
    /\ indexed' = Append(indexed, b)
    /\ moves' = moves + 1
    /\ news' = [what |-> "connected", block |-> b]
    /\ since' = [since EXCEPT !.still = FALSE]
    /\ UNCHANGED <<bestChain, best, pool>>

\* The database transaction of disconnectBlock.
DisconnectBlock ==
    /\ Still /\ moves < MaxMoves /\ Len(indexed) > 1
    /\ indexed' = SubSeq(indexed, 1, Len(indexed) - 1)
    /\ moves' = moves + 1
    /\ news' = [what |-> "disconnected", block |-> Last(indexed)]
    /\ since' = [since EXCEPT !.still = FALSE, !.grew = FALSE]
    /\ UNCHANGED <<bestChain, best, pool>>

\* b.bestChain.SetTip follows the database.
SetTip ==
    /\ bestChain # indexed
    /\ bestChain' = indexed
    /\ UNCHANGED <<indexed, best, news, pool, moves, since>>

\* The new state snapshot replaces the old one last.
SetSnapshot ==
    /\ bestChain = indexed /\ best # Len(bestChain) - 1
    /\ best' = Len(bestChain) - 1
    /\ UNCHANGED <<indexed, bestChain, news, pool, moves, since>>

\* The sync manager's handler of NTBlockConnected takes the block's
\* transactions out of the pool; that of NTBlockDisconnected puts them back.
SendNotification ==
    /\ news # Quiet /\ bestChain = indexed /\ best = Len(bestChain) - 1
    /\ pool' = IF news.what = "connected"
               THEN pool \ Range(TxsOf[news.block])
               ELSE pool \union Range(TxsOf[news.block])
    /\ news' = Quiet
    /\ UNCHANGED <<indexed, bestChain, best, moves, since>>

Move ==
    \/ \E b \in Blocks : ConnectBlock(b)
    \/ DisconnectBlock
    \/ SetTip
    \/ SetSnapshot
    \/ SendNotification

-----------------------------------------------------------------------------
(***************************************************************************)
(* The reads.  A query x has its request x.ask, the next read x.at, and    *)
(* what was read so far.                                                   *)
(***************************************************************************)

None == "none"

\* BlockHeightByHash: -1 when the block is not on the best chain.
BlockHeightByHash(b) ==
    IF b \in Range(bestChain) THEN HeightIn(bestChain, b) ELSE -1

\* BlockHashByHeight: None when the best chain is not that high.
BlockHashByHeight(h) ==
    IF h \in 0..(Len(bestChain) - 1) THEN bestChain[h + 1] ELSE None

To(x, at) == [x EXCEPT !.at = at]

Reply(x, what) == [x EXCEPT !.at = "done", !.what = what]

\* int32 arithmetic converted to uint64, as createTxRawResult does it: the
\* values below zero become huge ones, here all named -1.
Unsigned(n) == IF n < 0 THEN -1 ELSE n

\* handleGetBlock: the block itself is fetched whether or not it is on the
\* main chain; the height, the best state and the next hash are three more
\* reads.
handleGetBlock(x) ==
    CASE x.at = "start" ->
           IF ~x.ask.verbose THEN Reply(x, "hex") ELSE To(x, "height")
      [] x.at = "height" ->
           IF BlockHeightByHash(x.ask.block) = -1 THEN Reply(x, "error")
           ELSE [To(x, "best") EXCEPT !.height = BlockHeightByHash(x.ask.block)]
      [] x.at = "best" ->
           [x EXCEPT !.best = best,
                     !.confirmations = (1 + best) - x.height,
                     !.what = IF x.height < best THEN "" ELSE "block",
                     !.at = IF x.height < best THEN "next" ELSE "done"]
      [] x.at = "next" ->
           IF BlockHashByHeight(x.height + 1) = None THEN Reply(x, "error")
           ELSE [Reply(x, "block") EXCEPT !.next = BlockHashByHeight(x.height + 1)]

\* handleGetBlockHeader: HeaderByHash, then the same reads.
handleGetBlockHeader(x) == handleGetBlock(x)

\* handleGetRawTransaction: the pool, then the transaction index, then the
\* block's height and the best state.
handleGetRawTransaction(x) ==
    CASE x.at = "start" ->
           IF x.ask.tx \in pool THEN Reply(x, "pooled") ELSE To(x, "index")
      [] x.at = "index" ->
           IF x.ask.tx \notin Mined(indexed) THEN Reply(x, "unknown")
           ELSE [x EXCEPT !.block = BlockOf(indexed, x.ask.tx),
                          !.at = IF x.ask.verbose THEN "height" ELSE "done",
                          !.what = IF x.ask.verbose THEN "" ELSE "hex"]
      [] x.at = "height" ->
           IF BlockHeightByHash(x.block) = -1 THEN Reply(x, "error")
           ELSE [To(x, "best") EXCEPT !.height = BlockHeightByHash(x.block)]
      [] x.at = "best" ->
           [Reply(x, "mined") EXCEPT
               !.best = best, !.confirmations = Unsigned((1 + best) - x.height)]

\* handleGetTxOut: HaveTransaction and FetchTransaction are two reads of the
\* pool; FetchUtxoEntry waits for the chain lock, which is held from the
\* database transaction to the snapshot.
Unspent(tx) ==
    /\ tx \in Mined(indexed)
    /\ tx \in DOMAIN Spender => Spender[tx] \notin Mined(indexed)

CanFetchUtxo == bestChain = indexed /\ best = Len(bestChain) - 1

handleGetTxOut(x) ==
    CASE x.at = "start" ->
           To(x, IF x.ask.tx \in pool THEN "fetch" ELSE "utxo")
      [] x.at = "fetch" -> Reply(x, IF x.ask.tx \in pool THEN "pooled" ELSE "error")
      [] x.at = "utxo" ->
           IF ~Unspent(x.ask.tx) THEN Reply(x, "null")
           ELSE [To(x, "best") EXCEPT
                    !.height = HeightIn(indexed, BlockOf(indexed, x.ask.tx))]
      [] x.at = "best" ->
           [Reply(x, "mined") EXCEPT !.best = best,
                                     !.confirmations = (1 + best) - x.height]

\* handleGetNetworkHashPS: the window from the best state, then one read per
\* height; the first block only gives its time.
WindowStart(end, n) ==
    LET start == IF n <= 0 THEN end - ((end % Retarget) + 1) ELSE end - n
    IN IF start < 0 THEN 0 ELSE start

handleGetNetworkHashPS(x) ==
    CASE x.at = "start" ->
           IF x.ask.height > best \/ x.ask.height = 0 THEN Reply(x, "zero")
           ELSE LET end == IF x.ask.height < 0 THEN best ELSE x.ask.height
                IN [To(x, "walk") EXCEPT !.best = end,
                                         !.height = WindowStart(end, x.ask.n)]
      [] x.at = "walk" ->
           IF x.height > x.best THEN Reply(x, "rate")
           ELSE IF BlockHashByHeight(x.height) = None THEN Reply(x, "error")
           ELSE [x EXCEPT !.list = Append(@, BlockHashByHeight(x.height)),
                          !.height = @ + 1]

\* verifyChain walks down from the best state's height; the blocks' sanity
\* was checked when they were accepted, so only a missing block fails here.
verifyChain(x) ==
    CASE x.at = "start" ->
           [To(x, "walk") EXCEPT !.best = best, !.height = best]
      [] x.at = "walk" ->
           IF x.height <= (IF x.best - x.ask.n < 0 THEN 0 ELSE x.best - x.ask.n)
           THEN Reply(x, "true")
           ELSE IF BlockHashByHeight(x.height) = None THEN Reply(x, "false")
           ELSE [x EXCEPT !.list = Append(@, BlockHashByHeight(x.height)),
                          !.height = @ - 1]

\* The memory pool's transactions come out of a Go map: in any order.
PoolOrders == {o \in [1..Cardinality(pool) -> pool] :
                  \A i, j \in DOMAIN o : i # j => o[i] # o[j]}

Pooled(o) == [i \in DOMAIN o |-> [tx |-> o[i], block |-> None]]

\* fetchMempoolTxnsForAddress and TxRegionsForAddress both take what is left
\* to skip and to fetch and report how many they skipped.
Fetched(entries, skip, wanted) ==
    [rows |-> SubSeq(entries, skip + 1, Least(skip + wanted, Len(entries))),
     skipped |-> Least(skip, Len(entries))]

Take(x, entries) ==
    LET got == Fetched(entries, x.ask.n - x.skipped, x.ask.height - Len(x.list))
    IN [x EXCEPT !.list = @ \o got.rows, !.skipped = @ + got.skipped]

\* handleSearchRawTransactions: x.ask.n entries are skipped and x.ask.height
\* are wanted.  Newest first reads the pool before the address index.
handleSearchRawTransactions(x) ==
    CASE x.at = "start" ->
           {To(x, IF x.ask.height = 0 THEN "empty"
                  ELSE IF x.ask.reverse THEN "pool" ELSE "index")}
      [] x.at = "empty" -> {Reply(x, "null")}
      [] x.at = "pool" ->
           {To(Take(x, Pooled(o)), IF x.ask.reverse THEN "index" ELSE "best") :
               o \in IF Len(x.list) < x.ask.height THEN PoolOrders ELSE {<<>>}}
      [] x.at = "index" ->
           LET rows == IF x.ask.reverse THEN Reverse(Listed(indexed)) ELSE Listed(indexed)
           IN {To(IF Len(x.list) < x.ask.height THEN Take(x, rows) ELSE x,
                  IF x.ask.reverse THEN "best" ELSE "pool")}
      [] x.at = "best" ->
           IF x.list = <<>> THEN {Reply(x, "unknown")}
           ELSE IF ~x.ask.verbose THEN {Reply(x, "list")}
           ELSE {[To(x, "blocks") EXCEPT !.best = best, !.height = 1]}
      [] x.at = "blocks" ->
           IF x.height > Len(x.list) THEN {Reply(x, "list")}
           ELSE IF /\ x.list[x.height].block # None
                   /\ BlockHeightByHash(x.list[x.height].block) = -1
           THEN {Reply(x, "error")}
           ELSE {[x EXCEPT !.height = @ + 1]}

-----------------------------------------------------------------------------
Asking(ask) ==
    [ask |-> ask, at |-> "idle", what |-> "", height |-> 0, best |-> 0,
     confirmations |-> 0, next |-> None, block |-> None, list |-> <<>>, skipped |-> 0]

\* A query may arrive in the middle of a move; what the snapshot covers is
\* the chain it starts from.
Begin ==
    /\ query.at = "idle"
    /\ query' = To(query, "start")
    /\ since' = [chain |-> SubSeq(bestChain, 1, Least(best + 1, Len(bestChain))), pool |-> pool,
                 still |-> Still, grew |-> news.what # "disconnected"]
    /\ UNCHANGED <<indexed, bestChain, best, news, pool, moves>>

Read ==
    /\ query.at \notin {"idle", "done"}
    /\ query.at = "utxo" => CanFetchUtxo
    /\ query' \in
         CASE query.ask.m = "getblock" -> {handleGetBlock(query)}
           [] query.ask.m = "getblockheader" -> {handleGetBlockHeader(query)}
           [] query.ask.m = "getrawtransaction" -> {handleGetRawTransaction(query)}
           [] query.ask.m = "gettxout" -> {handleGetTxOut(query)}
           [] query.ask.m = "getnetworkhashps" -> {handleGetNetworkHashPS(query)}
           [] query.ask.m = "verifychain" -> {verifyChain(query)}
           [] query.ask.m = "searchrawtransactions" -> handleSearchRawTransactions(query)
    /\ UNCHANGED <<indexed, bestChain, best, news, pool, moves, since>>

QueryInit ==
    /\ \E s \in Starts :
         /\ indexed = s.chain /\ bestChain = s.chain
         /\ best = Len(s.chain) - 1
         /\ pool = s.pool
         /\ since = [chain |-> s.chain, pool |-> s.pool, still |-> TRUE, grew |-> TRUE]
    /\ news = Quiet
    /\ moves = 0
    /\ \E ask \in Asked : query = Asking(ask)

QueryNext ==
    \/ Move /\ UNCHANGED query
    \/ Begin
    \/ Read

-----------------------------------------------------------------------------
QueryTypeOK ==
    /\ indexed \in Seq(Blocks) /\ bestChain \in Seq(Blocks)
    /\ best \in Nat
    /\ query.at \in {"idle", "start", "height", "best", "next", "index", "fetch", "utxo",
                     "walk", "empty", "pool", "blocks", "done"}
    /\ query.at = "done" <=> query.what # ""

Answered(m) == query.at = "done" /\ query.ask.m \in m

\* Blocks.  While the chain only grows, a query for a block the snapshot
\* covered when it started never fails: its confirmations count from a tip at
\* least as high as then, and the next hash is that of the block's child,
\* absent only for the tip (rpcserver.go: the three reads of handleGetBlock;
\* chain.go: connectBlock sets the view before the snapshot).
BlocksTold ==
    (Answered({"getblock", "getblockheader"}) /\ since.grew
       /\ query.ask.verbose /\ query.ask.block \in Range(since.chain)) =>
        /\ query.what = "block"
        /\ query.confirmations >= Len(since.chain) - HeightIn(since.chain, query.ask.block)
        /\ query.next = None <=> query.confirmations = 1
        /\ query.next # None => Parent[query.next] = query.ask.block

\* Transactions.  While the chain only grows, a transaction that was in the
\* pool or the chain when the query started is found, although it may be
\* moving from one to the other, with at least one confirmation when it is
\* told as mined (handleGetRawTransaction asks the pool before the index).
KnownTxsTold ==
    (Answered({"getrawtransaction"}) /\ since.grew
       /\ query.ask.tx \in since.pool \union Mined(since.chain)) =>
        /\ query.what \in {"pooled", "mined", "hex"}
        /\ query.what = "mined" => query.confirmations >= 1

\* Outputs.  While the chain only grows, gettxout answers null only for an
\* output that is spent, and never with less than one confirmation
\* (handleGetTxOut reads the best state after the entry).
OutputsTold ==
    (Answered({"gettxout"}) /\ since.grew) =>
        /\ (query.what = "null" /\ query.ask.tx \in since.pool \union Mined(since.chain))
             => query.ask.tx \in DOMAIN Spender /\ Spender[query.ask.tx] \in Mined(bestChain)
        /\ query.what = "mined" => query.confirmations >= 1

\* Walks.  While the chain only grows, the two queries that walk over heights
\* find every block, each the parent of the one above it.
WalksConnected ==
    (Answered({"getnetworkhashps", "verifychain"}) /\ since.grew) =>
        /\ query.what \in {"zero", "rate", "true"}
        /\ \A i \in 1..(Len(query.list) - 1) :
             IF query.ask.m = "verifychain" THEN Parent[query.list[i]] = query.list[i + 1]
             ELSE Parent[query.list[i + 1]] = query.list[i]

\* Pages.  While nothing moves, searchrawtransactions returns the page that
\* the skip and count name of the pool's and the chain's transactions in one
\* list, however the page falls on the boundary between the two.
SearchExact ==
    (Answered({"searchrawtransactions"}) /\ since.still /\ query.ask.height > 0) =>
        \E o \in PoolOrders :
            LET all == IF query.ask.reverse THEN Pooled(o) \o Reverse(Listed(indexed))
                       ELSE Listed(indexed) \o Pooled(o)
            IN query.list = SubSeq(all, query.ask.n + 1,
                                   Least(query.ask.n + query.ask.height, Len(all)))

\* The help text promises "The hash of the next block (only if there is one)";
\* with a reorganization between the reads the hash can be another branch's.
NextIsChild ==
    (query.at = "done" /\ query.next # None) => Parent[query.next] = query.ask.block

\* A mined transaction has at least one confirmation: violated when blocks are
\* disconnected between reading the height and the best state.
ConfirmationsCount ==
    (query.at = "done" /\ query.what \in {"block", "mined"}) => query.confirmations >= 1

-----------------------------------------------------------------------------
(***************************************************************************)
(* Paged scans of the expiry index: ScanExpiringUTXOs reads one page in    *)
(* one database view, and both the clients of listexpiring and the         *)
(* getreapplan handler come back for the next page with a cursor, while    *)
(* blocks add and remove rows between the pages.                           *)
(***************************************************************************)

CONSTANTS
    ScanRows,     \* the rows there may be: [key, op], both small numbers
    ScanAmount,   \* the amount of each outpoint
    ScanAsks,     \* the scans: [by, start, end, min, max], end -1 when omitted
    Horizon,      \* blocks ahead that listexpiring looks by default (144)
    MaxCandidates,\* rows that getreapplan collects at most
    MaxChanges    \* bound: changes of the index during a scan

VARIABLES
    rows,         \* the rows of bktExpiry2Outpoints
    ask,          \* the scan that is being made
    cursor,       \* [from, after] of the next page, after -1 when there is none
    scanned,      \* the rows the scan has read, in order
    listed,       \* the rows it has told its caller
    ended,        \* "no", "done" or "refused"
    stayed,       \* history: the rows that were there from the first page on
    changes

scanVars == <<rows, ask, cursor, scanned, listed, ended, stayed, changes>>

\* The order of the composite keys: the expiry key, then the outpoint.
Precedes(r, s) == r.key < s.key \/ (r.key = s.key /\ r.op < s.op)

InOrder(set) ==
    SortSeq(SetToSeq(set), Precedes)

\* cursor.Seek finds the first row at or after the composite key; the row of
\* the cursor itself is skipped if it is still there.
Seek_next(from, after) ==
    LET at == {r \in rows : r.key > from \/ (r.key = from /\ r.op >= after)}
    IN IF after = -1 THEN {r \in rows : r.key >= from}
       ELSE {r \in at : \E s \in at : Precedes(s, r)}

Seek(from, after) ==
    IF after = -1 THEN {r \in rows : r.key >= from}
    ELSE {r \in rows : r.key > from \/ (r.key = from /\ r.op > after)}

\* One page: rows up to toKey, at most maxResults, and whether there are more.
ScanExpiringUTXOs(from, to, max, after) ==
    LET found == InOrder({r \in Seek(from, after) : r.key <= to})
        n == IF Len(found) < max THEN Len(found) ELSE max
    IN [page |-> SubSeq(found, 1, n), hasMore |-> Len(found) > max]

EndHeight == IF ask.end = -1 THEN cursor.from + Horizon ELSE ask.end

\* Where the next page starts: after the last row scanned, listed or not.
NextCursor_listed(page, told) ==
    IF told = <<>> THEN [from |-> -1, after |-> -1]
    ELSE [from |-> Last(told).key, after |-> Last(told).op]

NextCursor(page, told) == [from |-> Last(page).key, after |-> Last(page).op]

\* handleListExpiring, and the client that asks again with next_height and
\* next_outpoint.
handleListExpiring ==
    /\ ended = "no" /\ ask.by = "list"
    /\ IF cursor.from < 0 \/ EndHeight < cursor.from \/ ask.min < 0 \/ ask.max <= 0
       THEN ended' = "refused" /\ UNCHANGED <<cursor, scanned, listed>>
       ELSE LET got == ScanExpiringUTXOs(cursor.from, EndHeight, ask.max, cursor.after)
                told == SelectSeq(got.page, LAMBDA r : ScanAmount[r.op] >= ask.min)
                next == NextCursor(got.page, told)
            IN /\ scanned' = scanned \o got.page
               /\ listed' = listed \o told
               /\ IF got.hasMore /\ next.from >= 0
                  THEN cursor' = next /\ UNCHANGED ended
                  ELSE ended' = "done" /\ UNCHANGED cursor
    /\ UNCHANGED <<rows, ask, stayed, changes>>

\* handleGetReapPlan's loop: pages from key 0 to the next height, until there
\* are no more rows or enough candidates.
handleGetReapPlan ==
    /\ ended = "no" /\ ask.by = "plan"
    /\ LET got == ScanExpiringUTXOs(cursor.from, ask.end, ask.max, cursor.after)
           room == MaxCandidates - Len(listed)
           told == SubSeq(got.page, 1, IF Len(got.page) < room THEN Len(got.page) ELSE room)
       IN /\ scanned' = scanned \o told
          /\ listed' = listed \o told
          /\ IF got.hasMore /\ got.page # <<>> /\ Len(listed') < MaxCandidates
             THEN cursor' = NextCursor(got.page, told) /\ UNCHANGED ended
             ELSE ended' = "done" /\ UNCHANGED cursor
    /\ UNCHANGED <<rows, ask, stayed, changes>>

\* A block is connected or disconnected: rows come and go.
IndexChanges ==
    /\ ended = "no" /\ changes < MaxChanges
    /\ \E r \in ScanRows :
         /\ rows' = IF r \in rows THEN rows \ {r} ELSE rows \union {r}
         /\ stayed' = stayed \ {r}
    /\ changes' = changes + 1
    /\ UNCHANGED <<ask, cursor, scanned, listed, ended>>

ScanInit ==
    /\ rows \in SUBSET ScanRows
    /\ stayed = rows
    /\ ask \in ScanAsks
    /\ cursor = [from |-> ask.start, after |-> -1]
    /\ scanned = <<>> /\ listed = <<>>
    /\ ended = "no"
    /\ changes = 0

ScanNext == handleListExpiring \/ handleGetReapPlan \/ IndexChanges

-----------------------------------------------------------------------------
ScanTypeOK ==
    /\ rows \subseteq ScanRows /\ stayed \subseteq rows
    /\ Range(listed) \subseteq Range(scanned)
    /\ Range(scanned) \subseteq ScanRows
    /\ ended \in {"no", "done", "refused"}

\* Whatever blocks do to the index between the pages, a scan reads its rows
\* in order and never one twice, and skips no row that was there all the time
\* below the last one it read (expiryindex.go: the cursor row is skipped only
\* if it is still there).
PagesJoin ==
    /\ \A i, j \in DOMAIN scanned : i < j => Precedes(scanned[i], scanned[j])
    /\ scanned # <<>> =>
         \A r \in stayed : (r.key >= ask.start /\ Precedes(r, Last(scanned))) => r \in Range(scanned)

\* When a listing has ended every row of its range that was there all the
\* time and holds the minimum amount has been listed, also when whole pages
\* were filtered out ("the cursor always advances past the last *scanned*
\* item").
ListingComplete ==
    (ended = "done" /\ ask.by = "list") =>
        \A r \in stayed :
            (r.key >= ask.start /\ r.key <= (IF ask.end = -1 THEN ask.start + Horizon ELSE ask.end)
               /\ ScanAmount[r.op] >= ask.min) => r \in Range(listed)

\* The candidates for the plan are the first of the expired rows, as many as
\* its bound allows.
PlanCollectsFirst ==
    (ended = "done" /\ ask.by = "plan") =>
        /\ Len(listed) <= MaxCandidates
        /\ \A r \in stayed : r.key <= ask.end /\ r \notin Range(listed) =>
              /\ Len(listed) = MaxCandidates
              /\ Precedes(Last(listed), r)
=============================================================================
