----------------------------- MODULE ServeData ------------------------------
(***************************************************************************)
(* Serving a peer its getblocks and getdata messages (server.go): what is  *)
(* queued for every item, the done channels OnGetData waits on, and the    *)
(* continue hash that makes a peer that is behind ask for the next batch.  *)
(* The pool and the chain change while a request is served.  The requests  *)
(* of the remote node and its reading of the answers are external.         *)
(***************************************************************************)
EXTENDS Integers, Sequences, FiniteSets, SequencesExt

CONSTANTS
    DataTxs,            \* transactions
    Matched,            \* [1..MaxTip -> number of transactions a filter matches]
    MaxTip,             \* bound on the chain
    MaxBlocksPerMsg, NumBuffered,
    DataPlans           \* records: sync (the remote is behind), request (a sequence of items)

VARIABLES
    dataPlan,
    bestTip, dataPool, filterLoaded,
    inMsgs,             \* messages of the remote not handled yet
    items,              \* OnGetData: items not pushed yet
    pushed,             \* OnGetData: number of items pushed
    waitingFor,         \* OnGetData: done channels of this batch
    serving,            \* "no", "push", "batch" or "last"
    notFound,           \* OnGetData: failedMsg
    outMsgs,            \* queued messages, with their done channels
    signaled,           \* done channels that got their signal
    continueHash,       \* height of the last block announced, 0 for nil
    remote,             \* blocks of the remote, and the tip of an announcement it still has to act on
    delivered           \* answers to the current request, in order

dataVars == <<dataPlan, bestTip, dataPool, filterLoaded, inMsgs, items, pushed, waitingFor, serving, notFound,
              outMsgs, signaled, continueHash, remote, delivered>>

Item(kind, id) == [kind |-> kind, id |-> id]
Out(kind, id, done) == [kind |-> kind, id |-> id, done |-> done]
NoDone == 0
NotFoundDone == -1

DataInit ==
    /\ dataPlan \in DataPlans /\ bestTip = MaxTip - 1 /\ dataPool = DataTxs /\ filterLoaded \in BOOLEAN
    /\ inMsgs = IF dataPlan.sync THEN <<[type |-> "getblocks", from |-> 0]>> ELSE <<>>
    /\ items = <<>> /\ pushed = 0 /\ waitingFor = {} /\ serving = "no" /\ notFound = {} /\ outMsgs = <<>>
    /\ signaled = {} /\ continueHash = 0 /\ delivered = <<>>
    /\ remote = [has |-> 0]

(***************************************************************************)
(* The rest of the node.                                                   *)
(***************************************************************************)
ChainGrows ==
    /\ bestTip < MaxTip /\ bestTip' = bestTip + 1
    /\ UNCHANGED <<dataPlan, dataPool, filterLoaded, inMsgs, items, pushed, waitingFor, serving, notFound, outMsgs,
                   signaled, continueHash, remote, delivered>>

PoolLoses(t) ==
    /\ ~dataPlan.sync /\ t \in dataPool /\ dataPool' = dataPool \ {t}
    /\ UNCHANGED <<dataPlan, bestTip, filterLoaded, inMsgs, items, pushed, waitingFor, serving, notFound, outMsgs,
                   signaled, continueHash, remote, delivered>>

(***************************************************************************)
(* OnGetBlocks.                                                            *)
(***************************************************************************)
\* locateInventory on the best chain, for a locator whose best block has this
\* height, without a stop hash.
locateInventory(from) == (from + 1)..(IF bestTip - from > MaxBlocksPerMsg THEN from + MaxBlocksPerMsg ELSE bestTip)

ContinueAfter(found) == IF Cardinality(found) = MaxBlocksPerMsg THEN Max(found) ELSE continueHash

OnGetBlocks ==
    LET found == locateInventory(Head(inMsgs).from)
    IN  /\ serving = "no" /\ inMsgs # <<>> /\ Head(inMsgs).type = "getblocks" /\ inMsgs' = Tail(inMsgs)
        /\ outMsgs' = IF found = {} THEN outMsgs ELSE Append(outMsgs, Out("inv", found, NoDone))
        /\ continueHash' = ContinueAfter(found)
        /\ UNCHANGED <<dataPlan, bestTip, dataPool, filterLoaded, items, pushed, waitingFor, serving, notFound,
                       signaled, remote, delivered>>

(***************************************************************************)
(* OnGetData.                                                              *)
(***************************************************************************)
OnGetData ==
    /\ serving = "no" /\ inMsgs # <<>> /\ Head(inMsgs).type = "getdata" /\ inMsgs' = Tail(inMsgs)
    /\ items' = Head(inMsgs).items /\ pushed' = 0 /\ waitingFor' = {} /\ notFound' = {} /\ signaled' = {}
    /\ delivered' = <<>> /\ serving' = "push"
    /\ UNCHANGED <<dataPlan, bestTip, dataPool, filterLoaded, outMsgs, continueHash, remote>>

\* What a push leads to: messages, whether it failed, whether it signals at
\* once, and the continue hash.
Result(msgs, failed, cont) ==
    [msgs |-> msgs, failed |-> failed, signal |-> failed \/ msgs = <<>>, continue |-> cont]

pushTxMsg(id, done) ==
    IF id \notin dataPool THEN Result(<<>>, TRUE, continueHash)
    ELSE Result(<<Out("tx", id, done)>>, FALSE, continueHash)

\* Seeded fault: the block carries the channel although an inv follows it.
pushBlockMsg_early(id, done) ==
    IF id > bestTip THEN Result(<<>>, TRUE, continueHash)
    ELSE IF continueHash # id THEN Result(<<Out("block", id, done)>>, FALSE, continueHash)
    ELSE Result(<<Out("block", id, done), Out("inv", {bestTip}, NoDone)>>, FALSE, 0)

pushBlockMsg(id, done) ==
    IF id > bestTip THEN Result(<<>>, TRUE, continueHash)
    ELSE IF continueHash # id THEN Result(<<Out("block", id, done)>>, FALSE, continueHash)
    ELSE Result(<<Out("block", id, NoDone), Out("inv", {bestTip}, done)>>, FALSE, 0)

\* The channel goes with the last message.
pushMerkleBlockMsg(id, done) ==
    IF ~filterLoaded THEN Result(<<>>, FALSE, continueHash)
    ELSE IF id > bestTip THEN Result(<<>>, TRUE, continueHash)
    ELSE Result(<<Out("merkle", id, IF Matched[id] = 0 THEN done ELSE NoDone)>>
                    \o [i \in 1..Matched[id] |-> Out("matched", id, IF i = Matched[id] THEN done ELSE NoDone)],
                FALSE, continueHash)

pushInventory(it, done) ==
    CASE it.kind = "tx" -> pushTxMsg(it.id, done)
      [] it.kind = "block" -> pushBlockMsg(it.id, done)
      [] it.kind = "merkle" -> pushMerkleBlockMsg(it.id, done)
      [] OTHER -> Result(<<>>, TRUE, continueHash)

\* One turn of the loop; after NumBuffered items it waits for the batch.
PushNext ==
    /\ serving = "push" /\ items # <<>>
    /\ LET it == Head(items)  done == pushed + 1  r == pushInventory(it, done)
       IN  /\ items' = Tail(items) /\ pushed' = done
           /\ waitingFor' = waitingFor \cup {done}
           /\ signaled' = IF r.signal THEN signaled \cup {done} ELSE signaled
           /\ outMsgs' = outMsgs \o r.msgs /\ continueHash' = r.continue
           /\ notFound' = IF r.failed THEN notFound \cup {done} ELSE notFound
           /\ serving' = IF done % NumBuffered = 0 THEN "batch" ELSE "push"
    /\ UNCHANGED <<dataPlan, bestTip, dataPool, filterLoaded, inMsgs, remote, delivered>>

BatchDone ==
    /\ serving = "batch" /\ waitingFor \subseteq signaled /\ waitingFor' = {} /\ serving' = "push"
    /\ UNCHANGED <<dataPlan, bestTip, dataPool, filterLoaded, inMsgs, items, pushed, notFound, outMsgs, signaled,
                   continueHash, remote, delivered>>

SendNotFound ==
    /\ serving = "push" /\ items = <<>> /\ serving' = "last"
    /\ IF notFound = {} THEN UNCHANGED <<outMsgs, waitingFor>>
       ELSE /\ outMsgs' = Append(outMsgs, Out("notfound", notFound, NotFoundDone))
            /\ waitingFor' = waitingFor \cup {NotFoundDone}
    /\ UNCHANGED <<dataPlan, bestTip, dataPool, filterLoaded, inMsgs, items, pushed, notFound, signaled,
                   continueHash, remote, delivered>>

GetDataReturns ==
    /\ serving = "last" /\ waitingFor \subseteq signaled /\ serving' = "no"
    /\ UNCHANGED <<dataPlan, bestTip, dataPool, filterLoaded, inMsgs, items, pushed, waitingFor, notFound, outMsgs,
                   signaled, continueHash, remote, delivered>>

(***************************************************************************)
(* The outHandler, and the remote node that reads.                         *)
(***************************************************************************)
GetData(is) == [type |-> "getdata", items |-> is]

\* An inv with several blocks is fetched; one with the tip only makes it ask
\* for what follows the blocks it has.
RemoteAsks(msg) ==
    CASE msg.kind = "inv" /\ remote.has + 1 \in msg.id ->
             Append(inMsgs, GetData([i \in 1..Cardinality(msg.id) |-> Item("block", remote.has + i)]))
      [] msg.kind = "inv" /\ remote.has + 1 < Max(msg.id) ->
             Append(inMsgs, [type |-> "getblocks", from |-> remote.has])
      [] OTHER -> inMsgs

WriteMessage ==
    LET msg == Head(outMsgs)
    IN  /\ outMsgs # <<>> /\ outMsgs' = Tail(outMsgs)
        /\ signaled' = IF msg.done = NoDone THEN signaled ELSE signaled \cup {msg.done}
        /\ delivered' = Append(delivered, Item(msg.kind, msg.id))
        /\ inMsgs' = IF dataPlan.sync THEN RemoteAsks(msg) ELSE inMsgs
        /\ remote' = IF msg.kind = "block" /\ msg.id = remote.has + 1 THEN [has |-> msg.id] ELSE remote
        /\ UNCHANGED <<dataPlan, bestTip, dataPool, filterLoaded, items, pushed, waitingFor, serving, notFound,
                       continueHash>>

RemoteRequests ==
    /\ ~dataPlan.sync /\ delivered = <<>> /\ inMsgs = <<>> /\ serving = "no" /\ outMsgs = <<>> /\ pushed = 0
    /\ inMsgs' = <<GetData(dataPlan.request)>>
    /\ UNCHANGED <<dataPlan, bestTip, dataPool, filterLoaded, items, pushed, waitingFor, serving, notFound, outMsgs,
                   signaled, continueHash, remote, delivered>>

DataHandler == OnGetBlocks \/ OnGetData \/ PushNext \/ BatchDone \/ SendNotFound \/ GetDataReturns

DataNext ==
    \/ ChainGrows \/ DataHandler \/ WriteMessage \/ RemoteRequests
    \/ \E t \in DataTxs : PoolLoses(t)

\* The peer's goroutines go on as long as it is connected.
DataFairness == WF_dataVars(DataHandler) /\ WF_dataVars(WriteMessage)

(***************************************************************************)
(* Properties.                                                             *)
(***************************************************************************)
DataTypeOK ==
    /\ bestTip \in 0..MaxTip /\ serving \in {"no", "push", "batch", "last"} /\ pushed \in Nat
    /\ continueHash \in 0..MaxTip /\ notFound \subseteq Nat /\ waitingFor \subseteq Nat \cup {NotFoundDone}
    /\ dataPool \subseteq DataTxs /\ filterLoaded \in BOOLEAN /\ remote.has \in 0..MaxTip

\* When OnGetData returns, all it queued has been written: this is what keeps a
\* peer from having far more queued for it than can be sent.
DoneMeansSent == (serving = "last" /\ waitingFor \subseteq signaled) => outMsgs = <<>>

\* Every item is answered exactly once, in the order of the request, or listed
\* in the notfound message; only a filtered block without a filter is ignored.
EveryItemAnswered ==
    LET r == dataPlan.request
        first == SelectSeq(delivered, LAMBDA m : m.kind \in {"tx", "block", "merkle"})
        listed == UNION {m.id : m \in {n \in Range(delivered) : n.kind = "notfound"}}
        asked == SelectSeq([i \in DOMAIN r |-> [at |-> i, item |-> r[i]]],
                           LAMBDA x : x.at \notin listed /\ (x.item.kind = "merkle" => filterLoaded))
    IN  (~dataPlan.sync /\ serving = "no" /\ pushed > 0) => first = [i \in DOMAIN asked |-> asked[i].item]

\* OnGetData returns: no answer and no failure leaves a done channel without
\* its signal.
GetDataEnds == (serving # "no") ~> (serving = "no")

\* A remote node that is behind gets the whole chain: the inv that follows the
\* last block of a full batch makes it ask for the next one.  Only blocks that
\* come after its last batch are left to the ordinary announcements.
RemoteCatchesUp == (dataPlan.sync /\ remote.has = 0) ~> (remote.has >= MaxTip - 1)

-----------------------------------------------------------------------------
(***************************************************************************)
(* Serving committed filters (BIP 157): the filter index that follows the  *)
(* main chain (indexers/cfindex.go), the range lookups of the block index  *)
(* (blockchain/chain.go) and the three handlers of server.go that combine  *)
(* them in several steps while the chain may reorganize, with a cache of   *)
(* checkpoints shared by all peers.                                        *)
(*                                                                         *)
(* The hash of a block's filter is the block itself, and a filter header   *)
(* is the sequence of the filter hashes it commits to.                     *)
(***************************************************************************)

CONSTANTS
    FBlocks, Genesis, ParentOf,         \* the tree of valid blocks
    CFCheckptInterval, MaxRange,
    FPeers                              \* goroutines that serve a peer each

VARIABLES
    mainTip, validated,     \* tip of the best chain, blocks known to be valid
    cfHeaders,              \* filter header bucket: a function on the indexed blocks
    checkptCache,           \* sequence of [block, header]
    request,                \* [FPeers -> request being served]
    replies,                \* [FPeers -> last reply]
    spoiled                 \* a failed extension wrote into the shared cache

filterVars == <<mainTip, validated, cfHeaders, checkptCache, request, replies, spoiled>>

FilterAssumption == CFCheckptInterval \in Nat \ {0} /\ MaxRange \in Nat \ {0}

PathTo[b \in FBlocks] == IF b = Genesis THEN <<b>> ELSE Append(PathTo[ParentOf[b]], b)
HeightOf(b) == Len(PathTo[b]) - 1
AncestorAt(b, h) == PathTo[b][h + 1]

NoRequest == [type |-> "none"]
NoReply == [type |-> "none"]
Entry(b, h) == [block |-> b, header |-> h]

(***************************************************************************)
(* CfIndex.                                                                *)
(***************************************************************************)
\* storeFilter: the header of the previous block comes from the index.
storeFilter(b) == [c \in DOMAIN cfHeaders \cup {b} |-> IF c = b THEN Append(cfHeaders[ParentOf[b]], b)
                                                                ELSE cfHeaders[c]]

dbDeleteFilterIdxEntry(b) == [c \in DOMAIN cfHeaders \ {b} |-> cfHeaders[c]]

ConnectFilter(b) ==
    /\ b # Genesis /\ ParentOf[b] = mainTip /\ ParentOf[b] \in DOMAIN cfHeaders
    /\ mainTip' = b /\ validated' = validated \cup {b} /\ cfHeaders' = storeFilter(b)
    /\ UNCHANGED <<checkptCache, request, replies, spoiled>>

DisconnectFilter ==
    /\ mainTip # Genesis /\ mainTip' = ParentOf[mainTip] /\ cfHeaders' = dbDeleteFilterIdxEntry(mainTip)
    /\ UNCHANGED <<validated, checkptCache, request, replies, spoiled>>

\* entriesByBlockHashes: an absent entry is empty, which the handlers refuse.
Indexed(bs) == Range(bs) \subseteq DOMAIN cfHeaders

(***************************************************************************)
(* Lookups of the block index; <<>> stands for an error or nothing.        *)
(***************************************************************************)
HeightToHashRange(start, stop, max) ==
    LET n == HeightOf(stop) - start + 1
    IN  IF stop \notin validated \/ start < 0 \/ n < 1 \/ n > max THEN <<>>
        ELSE SubSeq(PathTo[stop], start + 1, Len(PathTo[stop]))

\* Once the walk meets the best chain it goes by height.
IntervalBlockHashes(stop) ==
    [i \in 1..(HeightOf(stop) \div CFCheckptInterval) |-> AncestorAt(stop, i * CFCheckptInterval)]

(***************************************************************************)
(* The handlers.                                                           *)
(***************************************************************************)
Asks(p, type, start, stop, hashes) ==
    /\ request[p].type = "none"
    /\ request' = [request EXCEPT ![p] = IF hashes = <<>> THEN NoRequest ELSE
                       [type |-> type, start |-> start, stop |-> stop, hashes |-> hashes, prev |-> <<>>]]
    /\ UNCHANGED <<mainTip, validated, cfHeaders, checkptCache, replies, spoiled>>

Answer(p, reply) == replies' = [replies EXCEPT ![p] = reply] /\ request' = [request EXCEPT ![p] = NoRequest]
Ignore(p) == request' = [request EXCEPT ![p] = NoRequest] /\ UNCHANGED replies

OnGetCFilters(p, start, stop) ==
    Asks(p, "cfilters", start, stop, HeightToHashRange(start, stop, MaxRange))

\* Filters are queued one by one until one is missing.
SendCFilters(p) ==
    LET r == request[p]
        have == {i \in DOMAIN r.hashes : \A j \in 1..i : r.hashes[j] \in DOMAIN cfHeaders}
    IN  /\ r.type = "cfilters"
        /\ Answer(p, [type |-> "cfilters", start |-> r.start, stop |-> r.stop,
                      filters |-> SubSeq(r.hashes, 1, Cardinality(have))])
        /\ UNCHANGED <<mainTip, validated, cfHeaders, checkptCache, spoiled>>

\* The block before the range is fetched too, for PrevFilterHeader.
OnGetCFHeaders(p, start, stop) ==
    LET hashes == IF start > 0 THEN HeightToHashRange(start - 1, stop, MaxRange + 1)
                  ELSE HeightToHashRange(start, stop, MaxRange)
    IN  Asks(p, "cfhashes", start, stop, IF start > 0 /\ Len(hashes) = 1 THEN <<>> ELSE hashes)

\* The hashes of the filters, in one read; then the previous header, in another.
FetchCFHashes(p) ==
    LET r == request[p]
    IN  /\ r.type = "cfhashes"
        /\ request' = [request EXCEPT ![p] = IF Indexed(r.hashes) THEN [r EXCEPT !.type = "cfheaders"]
                                             ELSE NoRequest]
        /\ UNCHANGED <<mainTip, validated, cfHeaders, checkptCache, replies, spoiled>>

SendCFHeaders(p) ==
    LET r == request[p]
    IN  /\ r.type = "cfheaders"
        /\ IF r.start = 0
           THEN Answer(p, [type |-> "cfheaders", stop |-> r.stop, start |-> 0, prev |-> <<>>, hashes |-> r.hashes])
           ELSE IF Head(r.hashes) \notin DOMAIN cfHeaders THEN Ignore(p)
           ELSE Answer(p, [type |-> "cfheaders", stop |-> r.stop, start |-> r.start,
                           prev |-> cfHeaders[Head(r.hashes)], hashes |-> Tail(r.hashes)])
        /\ UNCHANGED <<mainTip, validated, cfHeaders, checkptCache, spoiled>>

OnGetCFCheckpt(p, stop) ==
    Asks(p, "checkpt", 0, stop, IF stop \in validated THEN IntervalBlockHashes(stop) ELSE <<>>)

\* How much of the cache serves these blocks: up to the last one that matches.
ForkIndex(hashes) ==
    Max({0} \cup {i \in DOMAIN hashes : i <= Len(checkptCache) /\ checkptCache[i].block = hashes[i]})

\* Only a request beyond the cache changes it, from the fork on.  When the
\* extension fails in the middle, what it had written stays if append had
\* room behind the cache.
SendCFCheckpt(p) ==
    LET r == request[p]
        fork == ForkIndex(r.hashes)
        missing == {i \in DOMAIN r.hashes : i > fork /\ r.hashes[i] \notin DOMAIN cfHeaders}
        headers == [i \in DOMAIN r.hashes |-> IF i <= fork THEN checkptCache[i].header ELSE cfHeaders[r.hashes[i]]]
        update == Len(r.hashes) > Len(checkptCache)
    IN  /\ r.type = "checkpt"
        /\ IF missing # {}
           THEN /\ Ignore(p)
                /\ \E inPlace \in BOOLEAN :
                     IF ~inPlace \/ ~update THEN UNCHANGED <<checkptCache, spoiled>>
                     ELSE /\ checkptCache' = [i \in DOMAIN checkptCache |->
                                 IF fork < i /\ i < Min(missing) THEN Entry(r.hashes[i], cfHeaders[r.hashes[i]])
                                 ELSE checkptCache[i]]
                          /\ spoiled' = (spoiled \/ checkptCache' # checkptCache)
           ELSE /\ Answer(p, [type |-> "checkpt", stop |-> r.stop, headers |-> headers])
                /\ checkptCache' = IF update THEN [i \in DOMAIN r.hashes |-> Entry(r.hashes[i], headers[i])]
                                   ELSE checkptCache
                /\ UNCHANGED spoiled
        /\ UNCHANGED <<mainTip, validated, cfHeaders>>

FilterInit ==
    /\ mainTip = Genesis /\ validated = {Genesis} /\ cfHeaders = [b \in {Genesis} |-> <<Genesis>>]
    /\ checkptCache = <<>> /\ request = [p \in FPeers |-> NoRequest] /\ replies = [p \in FPeers |-> NoReply]
    /\ spoiled = FALSE

FilterNext ==
    \/ \E b \in FBlocks : ConnectFilter(b)
    \/ DisconnectFilter
    \/ \E p \in FPeers :
         \/ SendCFilters(p) \/ FetchCFHashes(p) \/ SendCFHeaders(p) \/ SendCFCheckpt(p)
         \/ \E stop \in FBlocks : OnGetCFCheckpt(p, stop)
         \/ \E stop \in FBlocks, start \in 0..2 : OnGetCFilters(p, start, stop) \/ OnGetCFHeaders(p, start, stop)

(***************************************************************************)
(* Properties.                                                             *)
(***************************************************************************)
FilterTypeOK ==
    /\ mainTip \in validated /\ validated \subseteq FBlocks /\ DOMAIN cfHeaders \subseteq FBlocks
    /\ spoiled \in BOOLEAN
    /\ \A p \in FPeers : request[p].type \in {"none", "cfilters", "cfhashes", "cfheaders", "checkpt"}

\* The index holds exactly the main chain, and the header of a block commits to
\* the filters of the block and of all its ancestors.
FilterIndexFollowsChain ==
    /\ DOMAIN cfHeaders = Range(PathTo[mainTip])
    /\ \A b \in DOMAIN cfHeaders : cfHeaders[b] = PathTo[b]

\* A reply is about the branch that ends in the block that was asked for,
\* whatever reorganizations came between the lookup of the blocks, the reads of
\* the index and the cache.
RepliesTrue ==
    \A p \in FPeers :
        LET r == replies[p]
        IN  /\ r.type = "cfheaders" => r.prev \o r.hashes = PathTo[r.stop]
            /\ r.type = "cfilters" => IsPrefix(r.filters, SubSeq(PathTo[r.stop], r.start + 1, Len(PathTo[r.stop])))
            /\ (r.type = "checkpt" /\ ~spoiled) =>
                   r.headers = [i \in DOMAIN r.headers |-> PathTo[AncestorAt(r.stop, i * CFCheckptInterval)]]

-----------------------------------------------------------------------------
(***************************************************************************)
(* What the server keeps for one connected peer and how the peer's         *)
(* messages change it: the decaying ban score (connmgr/dynamicbanscore.go  *)
(* and addBanScore), the bloom filter and relay settings, the addresses it *)
(* knows and was sent.                                                     *)
(*                                                                         *)
(* Time is counted in half lives of the score.  Decaying scores are kept   *)
(* in units of 1 / Unit, so that halving stays exact.                      *)
(***************************************************************************)

CONSTANTS
    Sessions,           \* records: bloom, banning, whitelisted, newProtocol, inbound, simNet, blocksOnly, addrV2
    BanThreshold, Lifetime, Unit, MaxClock, MaxMessages,
    SessionAddrs,       \* addresses the address manager may offer
    TorV3,              \* those a legacy message cannot carry
    MaxAddrPerMsg,
    SessionTxs, MaxInv  \* transactions of the pool; limit of an inv message

VARIABLES
    session, online, isBanned,
    persistent, transient, lastUnix,    \* DynamicBanScore
    clock, messages,
    points,             \* history: increments as records of kind, amount and time
    filter,             \* set of transactions it matches, or NoFilter
    relayTx, feeFilter, sentAddrs, knownAddresses,
    told,               \* history: addresses the peer announced
    addrReply, invReply,    \* last replies
    syncWork            \* messages passed on to the sync manager

sessionVars == <<session, online, isBanned, persistent, transient, lastUnix, clock, messages, points, filter, relayTx,
                 feeFilter, sentAddrs, knownAddresses, told, addrReply, invReply, syncWork>>

NoFilter == {"no filter"}
FilterIsLoaded == filter # NoFilter

SessionAssumption == BanThreshold \in Nat /\ Unit \in Nat \ {0} /\ Lifetime \in Nat /\ TorV3 \subseteq SessionAddrs

SessionInit ==
    /\ session \in Sessions /\ online = TRUE /\ isBanned = FALSE
    /\ persistent = 0 /\ transient = 0 /\ lastUnix = 0 /\ clock = 0 /\ messages = 0 /\ points = {}
    /\ filter = NoFilter /\ relayTx = FALSE /\ feeFilter = 0 /\ sentAddrs = FALSE
    /\ knownAddresses = {} /\ told = {} /\ addrReply = <<>> /\ invReply = {} /\ syncWork = {}

Score == <<persistent, transient, lastUnix, points, isBanned>>
Filters == <<filter, relayTx, feeFilter>>
Addresses == <<sentAddrs, knownAddresses, told, addrReply>>

\* The message a handler works on.
Handle == online /\ messages < MaxMessages /\ messages' = messages + 1 /\ UNCHANGED <<session, clock>>

(***************************************************************************)
(* DynamicBanScore and addBanScore.                                        *)
(***************************************************************************)
decayFactor(x, dt) == x \div 2 ^ dt

\* Int: the score now.
ScoreNow ==
    LET dt == clock - lastUnix
    IN  persistent + IF transient < Unit \/ dt < 0 \/ Lifetime < dt THEN 0 ELSE decayFactor(transient, dt) \div Unit

\* What is left of the decaying score when it is increased by t.
Decayed(t) ==
    LET dt == clock - lastUnix
    IN  IF t = 0 THEN transient
        ELSE IF Lifetime < dt THEN 0
        ELSE IF transient > Unit /\ dt > 0 THEN decayFactor(transient, dt)
        ELSE transient

\* Increase; the result is the score addBanScore compares.
Increase(p, t) ==
    /\ persistent' = persistent + p
    /\ transient' = Decayed(t) + t * Unit
    /\ lastUnix' = IF t > 0 THEN clock ELSE lastUnix
    /\ points' = points \cup ({[kind |-> "transient", amount |-> t, at |-> clock, id |-> messages]} \cup
                              {[kind |-> "persistent", amount |-> p, at |-> clock, id |-> messages]})

Increased(p, t) == persistent + p + ((Decayed(t) + t * Unit) \div Unit)

Exempt == ~session.banning \/ session.whitelisted

OverThreshold(p, t) == Increased(p, t) > BanThreshold

\* addBanScore: TRUE when the peer was banned and disconnected.
Bans(p, t) == ~Exempt /\ p + t > 0 /\ OverThreshold(p, t)

addBanScore(p, t) ==
    IF Exempt \/ p + t = 0 THEN UNCHANGED Score
    ELSE Increase(p, t) /\ isBanned' = (isBanned \/ Bans(p, t))

(***************************************************************************)
(* The handlers.                                                           *)
(***************************************************************************)
\* OnMemPool: the inventory of the pool, filtered and limited.
OnMemPool(ts) ==
    /\ Handle
    /\ IF ~session.bloom
       THEN online' = FALSE /\ UNCHANGED <<invReply>> /\ UNCHANGED Score
       ELSE /\ addBanScore(0, 33) /\ online' = ~Bans(0, 33)
            /\ LET matched == {t \in ts : FilterIsLoaded => t \in filter}
               IN  IF Bans(0, 33) THEN UNCHANGED invReply
                   ELSE \E sent \in SUBSET matched :
                          /\ Cardinality(sent) = IF Cardinality(matched) > MaxInv THEN MaxInv ELSE Cardinality(matched)
                          /\ invReply' = sent
    /\ UNCHANGED <<syncWork>> /\ UNCHANGED Filters /\ UNCHANGED Addresses

\* OnGetData: its score; what it sends is in ServeData.
GetDataScore(length) ==
    /\ Handle /\ addBanScore(0, length) /\ online' = ~Bans(0, length)
    /\ UNCHANGED <<invReply, syncWork>> /\ UNCHANGED Filters /\ UNCHANGED Addresses

\* OnNotFound: blocks first, then transactions, and a wrong type at once.
OnNotFound(blocks, txs, wrong) ==
    /\ Handle
    /\ IF wrong THEN online' = FALSE /\ UNCHANGED syncWork /\ UNCHANGED Score
       ELSE IF Bans(20 * blocks, 0) THEN addBanScore(20 * blocks, 0) /\ online' = FALSE /\ UNCHANGED syncWork
       ELSE /\ addBanScore(20 * blocks, 10 * txs) /\ online' = ~Bans(20 * blocks, 10 * txs)
            /\ syncWork' = IF online' THEN syncWork \cup {"notfound"} ELSE syncWork
    /\ UNCHANGED invReply /\ UNCHANGED Filters /\ UNCHANGED Addresses

\* OnInv with blocks only: transactions are dropped, or the peer is.
OnInv(hasTx, hasBlock) ==
    /\ Handle
    /\ online' = ~(session.blocksOnly /\ hasTx /\ session.newProtocol)
    /\ syncWork' = IF online' /\ (hasBlock \/ (hasTx /\ ~session.blocksOnly))
                   THEN syncWork \cup (IF hasTx /\ ~session.blocksOnly THEN {"inv tx"} ELSE {"inv"}) ELSE syncWork
    /\ UNCHANGED invReply /\ UNCHANGED Score /\ UNCHANGED Filters /\ UNCHANGED Addresses

\* enforceNodeBloomFlag: a filter message without the service ends the session.
enforceNodeBloomFlag == session.bloom

RefuseFilter ==
    /\ Handle /\ ~enforceNodeBloomFlag /\ online' = FALSE
    /\ IF session.newProtocol /\ session.banning THEN addBanScore(100, 0) ELSE UNCHANGED Score
    /\ UNCHANGED <<invReply, syncWork>> /\ UNCHANGED Filters /\ UNCHANGED Addresses

OnFilterLoad(ts) ==
    /\ Handle /\ enforceNodeBloomFlag /\ filter' = ts /\ relayTx' = TRUE
    /\ UNCHANGED <<online, feeFilter, invReply, syncWork>> /\ UNCHANGED Score /\ UNCHANGED Addresses

OnFilterAdd(t) ==
    /\ Handle /\ enforceNodeBloomFlag
    /\ online' = FilterIsLoaded /\ filter' = IF FilterIsLoaded THEN filter \cup {t} ELSE filter
    /\ UNCHANGED <<relayTx, feeFilter, invReply, syncWork>> /\ UNCHANGED Score /\ UNCHANGED Addresses

OnFilterClear ==
    /\ Handle /\ enforceNodeBloomFlag /\ online' = FilterIsLoaded /\ filter' = NoFilter
    /\ UNCHANGED <<relayTx, feeFilter, invReply, syncWork>> /\ UNCHANGED Score /\ UNCHANGED Addresses

OnFeeFilter(fee) ==
    /\ Handle /\ online' = (fee >= 0) /\ feeFilter' = IF fee >= 0 THEN fee ELSE feeFilter
    /\ UNCHANGED <<filter, relayTx, invReply, syncWork>> /\ UNCHANGED Score /\ UNCHANGED Addresses

\* OnAddr, OnAddrV2
OnAddr(as) ==
    /\ Handle
    /\ IF session.simNet \/ as = {} THEN UNCHANGED <<knownAddresses, told>>
       ELSE knownAddresses' = knownAddresses \cup as /\ told' = told \cup as
    /\ online' = (session.simNet \/ as # {})
    /\ UNCHANGED <<sentAddrs, addrReply, invReply, syncWork>> /\ UNCHANGED Score /\ UNCHANGED Filters

\* PushAddrMsg: a random choice of what fits.
PushAddrMsg(as) == {s \in [1..MaxAddrPerMsg -> Range(as)] : IsInjective(s)}

\* PushAddrV2Msg: its shuffle copies an earlier entry over each later one.
PushAddrV2Msg(as) == {s \in [1..MaxAddrPerMsg -> Range(as)] : \A i \in DOMAIN s : \E j \in 1..i : s[i] = as[j]}

Unknown(as) == SelectSeq(as, LAMBDA a : a \notin knownAddresses /\ (session.addrV2 \/ a \notin TorV3))

\* pushAddrMsg
pushAddrMsg(as) ==
    IF Len(Unknown(as)) <= MaxAddrPerMsg THEN {Unknown(as)}
    ELSE IF session.addrV2 THEN PushAddrV2Msg(Unknown(as))
    ELSE PushAddrMsg(Unknown(as))

\* OnGetAddr: once, and for inbound peers.
OnGetAddr(as) ==
    /\ Handle
    /\ IF session.simNet \/ ~session.inbound \/ sentAddrs
       THEN UNCHANGED Addresses
       ELSE /\ sentAddrs' = TRUE /\ UNCHANGED told
            /\ \E sent \in pushAddrMsg(as) :
                 addrReply' = sent /\ knownAddresses' = knownAddresses \cup Range(sent)
    /\ UNCHANGED <<online, invReply, syncWork>> /\ UNCHANGED Score /\ UNCHANGED Filters

HalfLife ==
    /\ online /\ clock < MaxClock /\ clock' = clock + 1
    /\ UNCHANGED <<session, online, messages, invReply, syncWork>>
    /\ UNCHANGED Score /\ UNCHANGED Filters /\ UNCHANGED Addresses

SessionNext ==
    \/ HalfLife \/ RefuseFilter \/ OnFilterClear
    \/ \E ts \in SUBSET SessionTxs : OnMemPool(ts) \/ OnFilterLoad(ts)
    \/ \E t \in SessionTxs : OnFilterAdd(t)
    \/ \E length \in {40, 99} : GetDataScore(length)
    \/ \E blocks, txs \in {0, 3}, wrong \in BOOLEAN : OnNotFound(blocks, txs, wrong)
    \/ \E hasTx, hasBlock \in BOOLEAN : OnInv(hasTx, hasBlock)
    \/ \E fee \in {-1, 1} : OnFeeFilter(fee)
    \/ OnAddr({}) \/ \E a \in SessionAddrs : OnAddr({a})
    \/ \E as \in SUBSET SessionAddrs : OnGetAddr(SetToSeq(as))

(***************************************************************************)
(* Properties.                                                             *)
(***************************************************************************)
SessionTypeOK ==
    /\ session \in Sessions /\ online \in BOOLEAN /\ isBanned \in BOOLEAN /\ persistent \in Nat /\ transient \in Nat
    /\ lastUnix \in 0..MaxClock /\ feeFilter \in Nat /\ sentAddrs \in BOOLEAN
    /\ knownAddresses \subseteq SessionAddrs /\ Range(addrReply) \subseteq SessionAddrs /\ invReply \subseteq SessionTxs

Points(S) == FoldSet(LAMBDA r, n : r.amount + n, 0, S)
Recent == {r \in points : r.kind = "persistent" \/ r.at = clock}

\* A peer is banned only when all it was ever charged is over the threshold, and
\* it is off no later than when its persistent score and what it was charged
\* within the last moment are: decay never hides a flood.
BanFollowsScore ==
    /\ isBanned => Points(points) > BanThreshold /\ ~Exempt
    /\ (online /\ ~Exempt) => Points(Recent) <= BanThreshold

TellsNew ==
    addrReply' # addrReply => /\ addrReply = <<>> /\ Len(addrReply') <= MaxAddrPerMsg
                              /\ Range(addrReply') \cap told = {}
                              /\ ~session.addrV2 => IsInjective(addrReply')

\* A peer is not told an address it told us, and not more than fit; it is told
\* addresses at most once.
NotToldBack == [][TellsNew]_sessionVars

\* What the comment on increase says: its result is the score at that point in
\* time.
IncreaseIsScore == Increased(20, 0) = ScoreNow + 20
=============================================================================
