---------------------------- MODULE SyncManager ----------------------------
(***************************************************************************)
(* netsync.SyncManager: which peer the chain is downloaded from, what was  *)
(* requested of whom, and the headers-first download up to a checkpoint.   *)
(* One goroutine (blockHandler) runs the handlers, so each is one action.  *)
(*                                                                         *)
(* The real chain is 1, 2, ..., and -1, -2, ... is a chain of blocks that  *)
(* does not validate; a block is its own hash.  An honest peer answers     *)
(* every request, in order.  Any other peer may claim any height, send     *)
(* what it likes, stay silent or leave.                                    *)
(***************************************************************************)
EXTENDS Integers, Sequences, FiniteSets, FiniteSetsExt, SequencesExt

CONSTANTS
    SyncPeers,      \* the peers
    Honest,         \* those that answer, and come back when disconnected
    ServiceOf,      \* peer -> "full", "pruned" or "none"
    WitnessPeers,   \* the peers that are witness enabled
    SegwitActive, Regtest, LocalPeers,
    LimitedBlocks,  \* wire.NodeNetworkLimitedBlockThreshold
    MinInFlight,    \* minInFlightBlocks
    MaxRequested,   \* maxRequestedBlocks, maxRequestedTxns
    MaxRejected,    \* maxRejectedTxns
    MaxHeaders,     \* headers per message
    MaxInvPerMsg,   \* blocks or transactions per getdata message
    SyncWorlds      \* scenarios

\* A scenario: the height of the real chain, its checkpoints, the height from
\* which the tip is recent, the transactions, the height of the false chain,
\* the blocks another part of the node (an RPC client) submits, what each
\* peer claims as its height and how often a peer that is not honest connects.
SyncAssumption ==
    /\ Honest \subseteq SyncPeers /\ WitnessPeers \subseteq SyncPeers
    /\ \A p \in SyncPeers : ServiceOf[p] \in {"full", "pruned", "none"}
    /\ \A w \in SyncWorlds : w.claims \in [SyncPeers -> Nat]
    /\ \A w \in SyncWorlds : \A h \in Honest : w.claims[h] = w.last

NoPeer == "nobody"
NoBlock == 1000

VARIABLES
    net,        \* the scenario
    sm,         \* the manager
    peers,      \* what is known of each peer, and sent to it
    main,       \* height of the chain
    known,      \* blocks of the orphan pool
    heightNews, \* calls of UpdatePeerHeights in progress
    fastAdded,  \* history: blocks processed with BFFastAdd
    evicted     \* history: limitAdd dropped a request

syncVars == <<net, sm, peers, main, known, heightNews, fastAdded, evicted>>

ParentOf(b) == IF b > 0 THEN b - 1 ELSE b + 1
HeightOf(b) == IF b > 0 THEN b ELSE -b
IsTx(i) == i > NoBlock

(***************************************************************************)
(* The handlers work on the whole state s: m (the manager), p (the peers), *)
(* main, known, news, fast and evicted.  A handler yields the set of the   *)
(* states that it may end in (a map is ranged over, and a peer chosen, in  *)
(* random order); Then runs the next part of a handler from each of them.  *)
(***************************************************************************)
Then(states, Part(_)) == UNION {Part(s) : s \in states}
InTurn(s, items, Part(_, _)) ==
    FoldLeft(LAMBDA states, i : Then(states, LAMBDA t : Part(t, i)), {s}, items)

State == [m |-> sm, p |-> peers, main |-> main, known |-> known, news |-> heightNews,
          fast |-> fastAdded, evicted |-> evicted, end |-> "more"]

Becomes(states) ==
    \E s \in states :
        /\ sm' = s.m /\ peers' = s.p /\ main' = s.main /\ known' = s.known
        /\ heightNews' = s.news /\ fastAdded' = s.fast /\ evicted' = s.evicted
        /\ UNCHANGED net

\* Blocks are kept in order, so the ones accepted are those up to the tip.
InChain(s, b) == b \in 0..s.main
HaveBlock(s, b) == InChain(s, b) \/ b \in s.known
ChainCurrent(s) == s.main >= net.current

\* A message for a peer that is not honest, or is gone, is not kept.
Queue(s, q, msg) ==
    IF q \in Honest /\ s.p[q].conn = "on" THEN [s EXCEPT !.p[q].out = Append(@, msg)] ELSE s

PushGetBlocksMsg(s, q, begin, stop) ==
    IF s.p[q].getBlocks = <<begin, stop>> THEN s
    ELSE [Queue(s, q, [type |-> "getblocks", from |-> begin, to |-> stop])
             EXCEPT !.p[q].getBlocks = <<begin, stop>>]

PushGetHeadersMsg(s, q, begin, stop) ==
    IF s.p[q].getHeaders = <<begin, stop>> THEN s
    ELSE [Queue(s, q, [type |-> "getheaders", from |-> begin, to |-> stop])
             EXCEPT !.p[q].getHeaders = <<begin, stop>>]

Disconnect(s, q) == [s EXCEPT !.p[q].conn = IF @ = "on" THEN "off" ELSE @, !.p[q].out = <<>>]

\* UpdateLastBlockHeight never lowers the height.
UpdateLastBlockHeight(s, q, h) == [s EXCEPT !.p[q].last = IF h <= @ THEN @ ELSE h]

resetHeaderState(s, b) ==
    [s EXCEPT !.m.headersFirst = FALSE, !.m.startHeader = NoBlock,
              !.m.headerList = IF s.m.nextCheckpoint # NoBlock THEN <<b>> ELSE <<>>]

findNextHeaderCheckpoint(h) ==
    LET later == {c \in net.checkpoints : c > h}
    IN  IF later = {} THEN NoBlock ELSE Min(later)

current(s) ==
    /\ ChainCurrent(s)
    /\ s.m.syncPeer = NoPeer \/ s.main >= s.p[s.m.syncPeer].last

isSyncCandidate(s, q) ==
    IF Regtest THEN q \in LocalPeers
    ELSE /\ SegwitActive => q \in WitnessPeers
         /\ \/ ServiceOf[q] = "full"
            \/ ServiceOf[q] = "pruned" /\ s.main + 1 > s.p[q].last - LimitedBlocks

\* The states in which startSync may leave the manager: the choice among the
\* best peers is random.
ByHeaders(s) ==
    s.m.nextCheckpoint # NoBlock /\ s.main < s.m.nextCheckpoint /\ ~Regtest

SyncFrom(s, q) ==
    IF ByHeaders(s)
    THEN [PushGetHeadersMsg(s, q, s.main, s.m.nextCheckpoint) EXCEPT !.m.headersFirst = TRUE]
    ELSE PushGetBlocksMsg(s, q, s.main, NoBlock)

\* Blocks that the last sync peer failed to send are asked for again.
ForgetRequests(s) == {i \in s.m.requested : IsTx(i)}

startSync(s) ==
    LET usable == {q \in SyncPeers : /\ s.p[q].conn = "on" /\ s.p[q].candidate
                                     /\ SegwitActive => q \in WitnessPeers}
        behind == {q \in usable : s.p[q].last < s.main}
        higher == {q \in usable : s.p[q].last > s.main}
        equal  == {q \in usable : s.p[q].last = s.main}
        best   == IF higher # {} THEN higher ELSE equal
        Marked == [q \in SyncPeers |-> [s.p[q] EXCEPT !.candidate = @ /\ q \notin behind]]
    IN  IF s.m.syncPeer # NoPeer THEN {s}
        ELSE IF best = {} \/ (ChainCurrent(s) /\ higher = {}) THEN {[s EXCEPT !.p = Marked]}
        ELSE {SyncFrom([s EXCEPT !.p = Marked, !.m.syncPeer = q,
                                 !.m.requested = ForgetRequests(s)], q) : q \in best}

\* Seeded fault: the requests of a peer that is gone stay.
clearRequestedState_keeps(s, q) == {s}

clearRequestedState(s, q) == {[s EXCEPT !.m.requested = @ \ s.p[q].requested]}

updateSyncPeer(s, drop) ==
    Then({IF drop THEN Disconnect(s, s.m.syncPeer) ELSE s},
         LAMBDA a : startSync([(IF a.m.headersFirst THEN resetHeaderState(a, a.main) ELSE a)
                                  EXCEPT !.m.syncPeer = NoPeer]))

handleNewPeerMsg(s, q) ==
    Then({[s EXCEPT !.p[q].candidate = isSyncCandidate(s, q)]},
         LAMBDA a : IF a.p[q].candidate /\ a.m.syncPeer = NoPeer THEN startSync(a) ELSE {a})

\* Seeded fault: the sync peer that left is not replaced.
handleDonePeerMsg_leaves(s, q) ==
    Then(clearRequestedState([s EXCEPT !.p[q].conn = "gone"], q),
         LAMBDA a : {[a EXCEPT !.p[q].requested = {}, !.p[q].candidate = FALSE]})

handleDonePeerMsg(s, q) ==
    Then(Then(clearRequestedState([s EXCEPT !.p[q].conn = "gone"], q),
              LAMBDA a : {[a EXCEPT !.p[q].requested = {}, !.p[q].candidate = FALSE]}),
         LAMBDA a : IF q = a.m.syncPeer THEN updateSyncPeer(a, FALSE) ELSE {a})

shouldDCStalledSyncPeer(s) == Max({s.p[s.m.syncPeer].last, net.claims[s.m.syncPeer]}) > s.main

handleStallSample(s) ==
    Then(clearRequestedState(s, s.m.syncPeer),
         LAMBDA a : updateSyncPeer(a, shouldDCStalledSyncPeer(a)))

(***************************************************************************)
(* Headers-first mode.                                                     *)
(***************************************************************************)

\* The elements of the header list from startHeader on; an element that was
\* removed from the list has no next one.
ToFetch(s) ==
    LET i == SelectInSeq(s.m.headerList, LAMBDA b : b = s.m.startHeader)
    IN  IF i = 0 THEN <<s.m.startHeader>>
        ELSE SubSeq(s.m.headerList, i, Len(s.m.headerList))

AskSyncPeer(s, b) ==
    {[Queue(s, s.m.syncPeer, [type |-> "getdata", from |-> b, to |-> b])
         EXCEPT !.m.requested = @ \cup {b}, !.p[s.m.syncPeer].requested = @ \cup {b}]}

fetchHeaderBlocks(s) ==
    LET todo == ToFetch(s)
        need == SelectSeq(todo, LAMBDA b : ~HaveBlock(s, b))
        asked == SubSeq(need, 1, Min({Len(need), MaxInvPerMsg}))
        \* The walk stops behind the last block that fits the message.
        stop == IF Len(need) >= MaxInvPerMsg
                THEN SelectInSeq(todo, LAMBDA b : b = Last(asked)) ELSE Len(todo)
        next == IF stop < Len(todo) THEN todo[stop + 1] ELSE NoBlock
    IN  IF s.m.startHeader = NoBlock THEN {s}
        ELSE InTurn([s EXCEPT !.m.startHeader = next], asked, AskSyncPeer)

\* One header of a message, unless one before it was refused or was the
\* checkpoint: "end" tells.
AppendHeader(s, b) ==
    IF s.end # "more" THEN {s}
    ELSE IF s.m.headerList = <<>> \/ Last(s.m.headerList) # ParentOf(b)
         THEN {[s EXCEPT !.end = "refused"]}
    ELSE {[s EXCEPT !.m.headerList = Append(@, b),
                    !.m.startHeader = IF @ = NoBlock THEN b ELSE @,
                    !.end = IF HeightOf(b) # s.m.nextCheckpoint THEN "more"
                            ELSE IF b = s.m.nextCheckpoint THEN "checkpoint" ELSE "refused"]}

AppendHeaders(s, headers) == InTurn(s, headers, AppendHeader)

handleHeadersMsg(s, q, headers) ==
    IF ~s.m.headersFirst THEN {Disconnect(s, q)}
    ELSE IF headers = <<>> THEN {s}
    ELSE Then(AppendHeaders(s, headers), LAMBDA a :
             LET t == [a EXCEPT !.end = "more"]
             IN  CASE a.end = "refused"    -> {Disconnect(t, q)}
                   [] a.end = "checkpoint" ->
                          fetchHeaderBlocks([t EXCEPT !.m.headerList = Tail(@)])
                   [] OTHER -> {PushGetHeadersMsg(t, q, Last(headers), t.m.nextCheckpoint)})

(***************************************************************************)
(* Blocks.  ProcessBlock refuses a block it has and one of the false       *)
(* chain; a block without its parent is an orphan.                         *)
(***************************************************************************)
Refuses(s, b) == HaveBlock(s, b) \/ (b < 0 /\ InChain(s, ParentOf(b)))
IsOrphan(s, b) == ~Refuses(s, b) /\ ~InChain(s, ParentOf(b))

ProcessBlock(s, b) ==
    LET top == Max({h \in b..net.last : b + 1..h \subseteq s.known})
    IN  IF Refuses(s, b) THEN {s}
        ELSE IF IsOrphan(s, b) THEN {[s EXCEPT !.known = @ \cup {b}]}
        ELSE {[s EXCEPT !.main = top, !.known = @ \ (b..top)]}

\* GetOrphanRoot: the first of the orphans that lead to b.
GetOrphanRoot(s, b) ==
    IF b > 0 THEN Min({a \in 1..b : a..b \subseteq s.known})
    ELSE Max({a \in b..-1 : b..a \subseteq s.known})

BlocksOf(S) == {i \in S : ~IsTx(i)}

TellHeights(s, q, b, h, isOrphan) ==
    IF h = 0 THEN {s}
    ELSE Then({UpdateLastBlockHeight(s, q, h)}, LAMBDA t :
             IF isOrphan \/ current(t)
             THEN {[t EXCEPT !.news = @ \cup {[block |-> b, height |-> h, from |-> q]}]}
             ELSE {t})

\* After a block was processed in headers-first mode: the next blocks, the
\* headers behind the checkpoint, or, behind the last one, plain sync.
AfterHeaderBlock(s, q, b, isCheckpoint) ==
    LET next == findNextHeaderCheckpoint(HeightOf(b))
    IN  IF ~isCheckpoint
        THEN IF /\ s.m.startHeader # NoBlock
                /\ Cardinality(BlocksOf(s.p[q].requested)) < MinInFlight
             THEN fetchHeaderBlocks(s) ELSE {s}
        ELSE IF next # NoBlock
             THEN {PushGetHeadersMsg([s EXCEPT !.m.nextCheckpoint = next], q, b, next)}
        ELSE {PushGetBlocksMsg([s EXCEPT !.m.nextCheckpoint = NoBlock, !.m.headersFirst = FALSE,
                                         !.m.headerList = <<>>], q, b, NoBlock)}

\* The block is the first of the header list: it is added with less
\* validation, and leaves the list unless it is the checkpoint.
MatchesHeader(s, b) == /\ s.m.headersFirst /\ s.m.headerList # <<>>
                       /\ Head(s.m.headerList) = b

\* The chain took the block, or keeps it as an orphan.
BlockTaken(s, q, b, isOrphan) ==
    IF isOrphan
    THEN Then({PushGetBlocksMsg(s, q, s.main, GetOrphanRoot(s, b))},
              LAMBDA t : TellHeights(t, q, b, HeightOf(b), TRUE))
    ELSE TellHeights([s EXCEPT !.m.rejected = {}], q, s.main, s.main, FALSE)

handleBlockMsg(s, q, b) ==
    LET fast == MatchesHeader(s, b)
        isCheckpoint == fast /\ b = s.m.nextCheckpoint
        orphan == IsOrphan(s, b)
        Noted == [s EXCEPT !.m.headerList = IF fast /\ ~isCheckpoint THEN Tail(@) ELSE @,
                           !.m.requested = @ \ {b}, !.p[q].requested = @ \ {b},
                           !.fast = IF fast /\ ~HaveBlock(s, b) THEN @ \cup {b} ELSE @]
    IN  IF b \notin s.p[q].requested /\ ~Regtest THEN {Disconnect(s, q)}
        ELSE IF Refuses(s, b) THEN {Noted}
        ELSE Then(Then(ProcessBlock(Noted, b), LAMBDA t : BlockTaken(t, q, b, orphan)),
                  LAMBDA t : IF t.m.headersFirst THEN AfterHeaderBlock(t, q, b, isCheckpoint)
                             ELSE {t})

handleNotFoundMsg(s, q, i) ==
    IF i \notin s.p[q].requested THEN {s}
    ELSE {[s EXCEPT !.m.requested = @ \ {i}, !.p[q].requested = @ \ {i}]}

(***************************************************************************)
(* Transactions and announcements.                                         *)
(***************************************************************************)
SameKind(S, i) == {j \in S : IsTx(j) = IsTx(i)}

\* The sets that limitAdd may make of S: at the limit it drops any entry.
limitAdd(S, i, limit) ==
    LET same == SameKind(S, i)
    IN  IF Cardinality(same) + 1 > limit THEN {(S \ {v}) \cup {i} : v \in same}
        ELSE {S \cup {i}}

\* The pool accepts a transaction it does not have, or refuses it.
handleTxMsg(s, q, t) ==
    IF t \in s.m.rejected THEN {s}
    ELSE Then({[s EXCEPT !.m.requested = @ \ {t}, !.p[q].requested = @ \ {t}]}, LAMBDA a :
             {[a EXCEPT !.m.rejected = r] : r \in limitAdd(a.m.rejected, t, MaxRejected)}
             \cup (IF t \in a.known THEN {} ELSE {[a EXCEPT !.known = @ \cup {t}]}))

haveInventory(s, i) == IF IsTx(i) THEN i \in s.known ELSE HaveBlock(s, i)

\* Whether a new item is worth a request.
Wanted(s, q, i) ==
    /\ ~s.m.headersFirst /\ ~haveInventory(s, i)
    /\ IsTx(i) => i \notin s.m.rejected
    /\ ~IsTx(i) => q \in WitnessPeers

\* What an item that is there already leads to: more blocks are asked for.
HaveItem(s, q, i, lastBlock) ==
    IF s.m.headersFirst \/ IsTx(i) \/ ~HaveBlock(s, i) THEN {s}
    ELSE IF i \in s.known THEN {PushGetBlocksMsg(s, q, s.main, GetOrphanRoot(s, i))}
    ELSE IF i = lastBlock THEN {PushGetBlocksMsg(s, q, i, NoBlock)}
    ELSE {s}

RequestItem(s, q, i) ==
    LET full == \E S \in {s.m.requested, s.p[q].requested} :
                    Cardinality(SameKind(S, i)) >= MaxRequested
    IN  IF i \in s.m.requested THEN {s}
        ELSE {[Queue(s, q, [type |-> "getdata", from |-> i, to |-> i])
                  EXCEPT !.m.requested = all, !.p[q].requested = own,
                         !.evicted = @ \/ full] :
                 all \in limitAdd(s.m.requested, i, MaxRequested),
                 own \in limitAdd(s.p[q].requested, i, MaxRequested)}

\* The last block of the message is noted as announced, and tells the height
\* of a peer once the node is current.
NoteAnnounced(s, q, lastBlock) ==
    IF lastBlock = NoBlock THEN s
    ELSE [s EXCEPT !.p[q].announced = IF q # s.m.syncPeer \/ current(s) THEN lastBlock ELSE @,
                   !.p[q].last = IF /\ current(s) /\ InChain(s, lastBlock)
                                    /\ lastBlock > @ THEN lastBlock ELSE @]

\* An inv message holds at most MaxInvPerMsg items, so that the request queue
\* is empty again at the end.
handleInvMsg(s, q, inv) ==
    LET blocks == SelectSeq(inv, LAMBDA i : ~IsTx(i))
        lastBlock == IF blocks = <<>> THEN NoBlock ELSE Last(blocks)
        wanted == SelectSeq(inv, LAMBDA i : Wanted(s, q, i))
    IN  IF q # s.m.syncPeer /\ ~current(s) THEN {NoteAnnounced(s, q, lastBlock)}
        ELSE Then(InTurn(NoteAnnounced(s, q, lastBlock), inv,
                         LAMBDA t, i : HaveItem(t, q, i, lastBlock)),
                  LAMBDA t : InTurn(t, wanted, LAMBDA u, i : RequestItem(u, q, i)))

(***************************************************************************)
(* Steps of the block handler.                                             *)
(***************************************************************************)
NewPeer(q) ==
    /\ peers[q].conn = "gone"
    /\ q \notin Honest => peers[q].connects < net.visits
    /\ Becomes(handleNewPeerMsg(
           [State EXCEPT !.p[q].conn = "on", !.p[q].last = net.claims[q],
                         !.p[q].getBlocks = <<>>, !.p[q].getHeaders = <<>>,
                         !.p[q].announced = NoBlock, !.p[q].batchEnd = NoBlock,
                         !.p[q].connects = IF q \in Honest THEN 0 ELSE @ + 1], q))

DonePeer(q) == peers[q].conn = "off" /\ Becomes(handleDonePeerMsg(State, q))

\* A peer that answers does so within maxStallDuration, so that an honest
\* peer is found stalled only when it has nothing to answer.
StallSample ==
    /\ sm.syncPeer # NoPeer
    /\ sm.syncPeer \in Honest => peers[sm.syncPeer].out = <<>>
    /\ peers[sm.syncPeer].conn # "gone"
    /\ Becomes(handleStallSample(State))

\* A block from elsewhere: the message processBlockMsg.
SubmitBlock(b) ==
    /\ b \in net.submits /\ main = b - 1
    /\ Becomes(ProcessBlock(State, b))

\* server.handleUpdatePeerHeights, in a goroutine of its own.
UpdatePeerHeights(n) ==
    LET Told(q) == /\ q # n.from /\ peers[q].announced = n.block
                   /\ peers[q].conn # "gone"
    IN  /\ heightNews' = heightNews \ {n}
        /\ peers' = [q \in SyncPeers |->
               IF Told(q) THEN [peers[q] EXCEPT !.last = IF n.height <= @ THEN @ ELSE n.height,
                                                !.announced = NoBlock]
               ELSE peers[q]]
        /\ UNCHANGED <<net, sm, main, known, fastAdded, evicted>>

(***************************************************************************)
(* The peers (external).  An honest one has the whole chain.  It answers   *)
(* getblocks with a batch of hashes and, once the last block of a full     *)
(* batch was fetched, announces its tip.                                   *)
(***************************************************************************)
RealRun(from, n) == LET first == IF from < 0 THEN 1 ELSE from + 1
                    IN  [i \in 1..Max({0, Min({net.last - first + 1, n})}) |-> first + i - 1]

UpTo(run, stop) == SelectSeq(run, LAMBDA b : stop = NoBlock \/ stop < 0 \/ b <= stop)

Replies(s, q, msg) ==
    LET batch == UpTo(RealRun(msg.from, MaxInvPerMsg), msg.to)
        headers == UpTo(RealRun(msg.from, MaxHeaders), msg.to)
        full == [s EXCEPT !.p[q].batchEnd = IF Len(batch) = MaxInvPerMsg THEN Last(batch) ELSE @]
    IN  CASE msg.type = "getheaders" -> handleHeadersMsg(s, q, headers)
          [] msg.type = "getblocks"  -> IF batch = <<>> THEN {s} ELSE handleInvMsg(full, q, batch)
          [] msg.type = "getdata" /\ IsTx(msg.from) -> handleTxMsg(s, q, msg.from)
          [] msg.type = "getdata" /\ msg.from \in 1..net.last ->
                 IF msg.from # s.p[q].batchEnd THEN handleBlockMsg(s, q, msg.from)
                 ELSE Then(handleBlockMsg([s EXCEPT !.p[q].batchEnd = NoBlock], q, msg.from),
                           LAMBDA t : handleInvMsg(t, q, <<net.last>>))
          [] OTHER -> handleNotFoundMsg(s, q, msg.from)

Answer(q) ==
    /\ peers[q].out # <<>>
    /\ Becomes(Replies([State EXCEPT !.p[q].out = Tail(@)], q, Head(peers[q].out)))

\* An honest peer tells of its tip or of a transaction, once.
Announce(q) ==
    \E i \in peers[q].toTell :
        /\ peers[q].conn = "on"
        /\ Becomes(handleInvMsg([State EXCEPT !.p[q].toTell = @ \ {i}], q, <<i>>))

\* What a peer that is not honest sends, asked for or not.  What came before
\* it was disconnected may be handled later.
Runs == {<<>>} \cup {RealRun(from, n) : from \in 0..net.last - 1, n \in 1..MaxHeaders}
        \cup {[i \in 1..n |-> -i] : n \in 1..net.false}
Items == (1..net.last) \cup (-net.false..-1)

SendHeaders(q) == \E h \in Runs : Becomes(handleHeadersMsg(State, q, h))
SendBlock(q) == \E b \in Items : Becomes(handleBlockMsg(State, q, b))
SendTx(q) == \E t \in net.txs : Becomes(handleTxMsg(State, q, t))
SendNotFound(q) == \E i \in peers[q].requested : Becomes(handleNotFoundMsg(State, q, i))
SendInv(q) == \E i \in Items \cup net.txs : Becomes(handleInvMsg(State, q, <<i>>))
Leave(q) == peers[q].conn = "on" /\ Becomes({Disconnect(State, q)})

Misbehave(q) ==
    /\ q \notin Honest /\ peers[q].conn \in {"on", "off"}
    /\ \/ SendHeaders(q) \/ SendBlock(q) \/ SendTx(q) \/ SendNotFound(q) \/ SendInv(q)
       \/ Leave(q)

SyncInit ==
    \E w \in SyncWorlds :
        /\ net = w
        /\ LET next == IF w.checkpoints = {} THEN NoBlock ELSE Min(w.checkpoints)
           IN  sm = [syncPeer |-> NoPeer, requested |-> {}, rejected |-> {},
                     headersFirst |-> FALSE, startHeader |-> NoBlock,
                     nextCheckpoint |-> next,
                     headerList |-> IF next = NoBlock THEN <<>> ELSE <<0>>]
        /\ peers = [q \in SyncPeers |->
               [conn |-> "gone", candidate |-> FALSE, last |-> 0, requested |-> {},
                out |-> <<>>, getBlocks |-> <<>>, getHeaders |-> <<>>, announced |-> NoBlock,
                batchEnd |-> NoBlock, connects |-> 0,
                toTell |-> IF q \in Honest THEN w.tells ELSE {}]]
        /\ main = 0 /\ known = {} /\ heightNews = {} /\ fastAdded = {} /\ evicted = FALSE

SyncNext ==
    \/ \E q \in SyncPeers : NewPeer(q) \/ DonePeer(q) \/ Answer(q) \/ Announce(q) \/ Misbehave(q)
    \/ StallSample
    \/ \E n \in heightNews : UpdatePeerHeights(n)
    \/ \E b \in net.submits : SubmitBlock(b)

SyncFairness ==
    /\ \A q \in Honest : WF_syncVars(Answer(q)) /\ WF_syncVars(NewPeer(q))
    /\ \A q \in SyncPeers : WF_syncVars(DonePeer(q))
    /\ WF_syncVars(StallSample)

(***************************************************************************)
(* Properties.                                                             *)
(***************************************************************************)
SyncTypeOK ==
    /\ sm.syncPeer \in SyncPeers \cup {NoPeer} /\ sm.headersFirst \in BOOLEAN
    /\ Range(sm.headerList) \subseteq -net.last..net.last
    /\ \A q \in SyncPeers : /\ peers[q].conn \in {"on", "off", "gone"}
                            /\ peers[q].last \in 0..Max(Range(net.claims) \cup {net.last})
    /\ main \in 0..net.last /\ fastAdded \subseteq -net.last..net.last

\* What the handlers dereference without a test is there: in headers-first
\* mode the sync peer (fetchHeaderBlocks, and the log line at a checkpoint)
\* and the next checkpoint (handleHeadersMsg, handleBlockMsg), and the sync
\* peer always has an entry in peerStates.
DereferencesSafe ==
    /\ sm.headersFirst => sm.syncPeer # NoPeer /\ sm.nextCheckpoint # NoBlock
    /\ sm.syncPeer # NoPeer => peers[sm.syncPeer].conn # "gone"

\* A block or transaction counted as requested, which no other peer is asked
\* for, is one that a peer was asked for and still owes; for an honest peer
\* the getdata message is on its way.  Otherwise it would never be asked for
\* again.  (limitAdd at its limit breaks this: it drops different entries of
\* the two sets.)
RequestsHaveOwner ==
    LET Asked(q, i) == \E k \in DOMAIN peers[q].out :
                           peers[q].out[k].type = "getdata" /\ peers[q].out[k].from = i
    IN  ~evicted => \A i \in sm.requested : \E q \in SyncPeers :
            /\ peers[q].conn # "gone" /\ i \in peers[q].requested
            /\ q \in Honest /\ peers[q].conn = "on" => Asked(q, i)

\* A block is added with less validation (BFFastAdd) only when headers that
\* link up to a checkpoint contain it.
FastAddIsCheckpointed ==
    \A b \in fastAdded : \E c \in net.checkpoints : b \in 1..c

CaughtUp == main >= net.current

\* The initial download comes to an end: while one honest peer stays, or comes
\* back, the chain becomes current whatever the other peers do.
InitialSyncCompletes == <>CaughtUp
=============================================================================
