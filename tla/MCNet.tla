------------------------------- MODULE MCNet -------------------------------
(***************************************************************************)
(* The concurrent parts of the node: the sync manager, the goroutines and  *)
(* the handshakes of a peer, the address and connection managers, and the  *)
(* server's peers, relay and replies, and the goroutines of the CPU miner  *)
(* and of the script validator, each on a small instance of its own. A     *)
(* behaviour is a behaviour of one component.                              *)
(***************************************************************************)
EXTENDS Integers, Sequences, FiniteSets, TLC

CONSTANTS
    Parts,   \* the components whose behaviours are checked
    Small    \* on the smaller instances, for the liveness properties

VARIABLES
    part,   \* the component a behaviour is of; the variables of the others are Idle
    net, sm, peers, main, syncKnown, heightNews, fastAdded, evicted,
    disconnected, sender, outputQueue, outputInvChan, sendQueue, sendDone,
    stallControl, pendingMsgs, invSendQueue, waiting, knownInventory, queueH, outH,
    inH, stallH, outMsg, reads, invs, accepted, written, blocked,
    conn, at, wire, closed, prefix, secret, got, sendCtr, recvCtr, sent, v2Late,
    meet, step, inbox, disconnect, protoVer, sendAddrV2, encoding, verAck,
    sentNonces, others, shakeLate,
    addrIndex, addrNew, addrTried, nNew, nTried, peersFile, time, life,
    localAddresses,
    requests, pending, conns, todo, downgrade, started, stop, faults, calls,
    unwanted, plan,
    connected, serverVerAck, doneStep, newPeers, donePeers, banPeers, inboundPeers,
    outboundPeers, persistentPeers, outboundGroups, banned, adding, syncChan,
    syncPeers, announced, reported, serverQuit, bans, overtaken,
    relayInv, pendingInvs, resending, blockWork, rpcStep, inPool, mined, asking,
    known, overtook, timers, adds,
    mainTip, validated, cfHeaders, checkptCache, request, replies, spoiled,
    dataPlan, bestTip, dataPool, filterLoaded, inMsgs, items, pushed, waitingFor,
    serving, notFound, outMsgs, signaled, continueHash, remote, delivered,
    session, online, isBanned, persistent, transient, lastUnix, clock, messages,
    points, filter, relayTx, feeFilter, sentAddrs, knownAddresses, told, addrReply,
    invReply, syncWork,
    minerLock, numWorkers, minerStarted, discreteMining, quitClosed, monitor,
    controller, worker, caller, submitLock, tip, moved,
    call, valWorker, hashCache, sigCache, txsOf,
    tx, orig, touched, cache

Idle == "-"

----------------------------------------------------------------------------
\* The sync manager with an honest peer h and another one l: with a checkpoint
\* and a false chain, with two checkpoints and a submitted block, and current
\* with a transaction that both announce.
SyncWorld(last, checkpoints, current, txs, false, submits, claim, tells) ==
    [last |-> last, checkpoints |-> checkpoints, current |-> current, txs |-> txs, false |-> false,
     submits |-> submits, claims |-> [h |-> last, l |-> claim], tells |-> tells, visits |-> 1]
SyncWorlds ==
    IF Small THEN {SyncWorld(2, {1}, 2, {}, 0, {1}, 3, {})}
    ELSE      {SyncWorld(2, {1}, 2, {}, 2, {}, 2, {}), SyncWorld(3, {1, 2}, 3, {}, 0, {1}, 4, {}),
               SyncWorld(2, {}, 1, {1001}, 0, {}, 1, {1001})}
Sync == INSTANCE SyncManager WITH
    SyncPeers <- {"h", "l"}, Honest <- {"h"},
    ServiceOf <- [h |-> "full", l |-> "full"], WitnessPeers <- {"h", "l"},
    SegwitActive <- TRUE, Regtest <- FALSE, LocalPeers <- {}, LimitedBlocks <- 2,
    MinInFlight <- 1, MaxRequested <- 2, MaxRejected <- 1, MaxHeaders <- 2,
    MaxInvPerMsg <- 2, known <- syncKnown
syncVars == <<net, sm, peers, main, syncKnown, heightNews, fastAdded, evicted>>
SyncStarts ==
    \/ part = "sync" /\ Sync!SyncInit
    \/ /\ part # "sync"
       /\ net = Idle /\ sm = Idle /\ peers = Idle /\ main = Idle
       /\ syncKnown = Idle /\ heightNews = Idle /\ fastAdded = Idle
       /\ evicted = Idle

----------------------------------------------------------------------------
\* The goroutines of one peer with two senders, a block and two transactions to
\* announce, and channels of one place.
Peer == INSTANCE PeerQueues WITH
    Sender <- IF Small THEN {"s1"} ELSE {"s1", "s2"}, BlockInv <- {"b"},
    TxInv <- {"t", "u"}, OutputBuffer <- 1, MaxTrickle <- 1, MaxReads <- 1,
    MaxInvs <- IF Small THEN 1 ELSE 2
peerVars == <<disconnected, sender, outputQueue, outputInvChan, sendQueue, sendDone,
              stallControl, pendingMsgs, invSendQueue, waiting, knownInventory,
              queueH, outH, inH, stallH, outMsg, reads, invs, accepted, written,
              blocked>>
PeerStarts ==
    \/ part = "peer" /\ Peer!PeerInit
    \/ /\ part # "peer"
       /\ disconnected = Idle /\ sender = Idle /\ outputQueue = Idle
       /\ outputInvChan = Idle /\ sendQueue = Idle /\ sendDone = Idle
       /\ stallControl = Idle /\ pendingMsgs = Idle /\ invSendQueue = Idle
       /\ waiting = Idle /\ knownInventory = Idle /\ queueH = Idle
       /\ outH = Idle /\ inH = Idle /\ stallH = Idle /\ outMsg = Idle
       /\ reads = Idle /\ invs = Idle /\ accepted = Idle /\ written = Idle
       /\ blocked = Idle

----------------------------------------------------------------------------
\* The encrypted transport between two nodes that do or do not speak it, are or
\* are not of one network and send garbage of every allowed length.
BothEnds(i, r) == [init |-> i, resp |-> r]
V2Key(first) == <<[byte |-> first], [byte |-> "k2"], [byte |-> "k3"]>>
V2Connections ==
    {[init |-> i, resp |-> r, net |-> BothEnds("main", n), key |-> V2Key(k),
      garbage |-> BothEnds(g, h), decoys |-> BothEnds(d, 0)] :
        i \in {"v1", "v2"}, r \in {"v1", "v2"}, n \in {"main", "test"}, k \in {"k1", "main"},
        g \in 0..3, h \in IF Small THEN {0} ELSE {0, 2}, d \in 0..1}
----------------------------------------------------------------------------
\* The version handshake between two nodes of every combination of versions,
\* network and witness support, and of a node with itself.
OutIn(o, i) == ("out" :> o @@ "in" :> i)
Meeting(versions, network, witnesses, self, wtxid) ==
    [ver |-> versions, network |-> network, witness |-> witnesses, self |-> self, wtxid |-> wtxid]
Meetings ==
    {Meeting(OutIn(v, w), TRUE, OutIn(TRUE, TRUE), FALSE, TRUE) : v \in 1..3, w \in 1..3}
      \cup {Meeting(OutIn(3, v), n, OutIn(o, i), FALSE, TRUE) : v \in 2..3, n \in BOOLEAN, o \in BOOLEAN, i \in BOOLEAN}
      \cup {Meeting(OutIn(3, 3), TRUE, OutIn(TRUE, TRUE), TRUE, FALSE)}
V2 == INSTANCE PeerHandshake WITH
    MaxGarbageLen <- 3, TermLen <- 2, RekeyInterval <- 2,
    MaxPackets <- IF Small THEN 1 ELSE 3, Connections <- V2Connections,
    timedOut <- v2Late, MinVersion <- 2, AddrV2Version <- 3, NonceCache <- 2,
    MaxOthers <- IF Small THEN 0 ELSE 4, late <- shakeLate
v2Vars == <<conn, at, wire, closed, prefix, secret, got, sendCtr, recvCtr, sent,
            v2Late>>
V2Starts ==
    \/ part = "v2" /\ V2!V2Init
    \/ /\ part # "v2"
       /\ conn = Idle /\ at = Idle /\ wire = Idle /\ closed = Idle
       /\ prefix = Idle /\ secret = Idle /\ got = Idle /\ sendCtr = Idle
       /\ recvCtr = Idle /\ sent = Idle /\ v2Late = Idle

shakeVars == <<meet, step, inbox, disconnect, protoVer, sendAddrV2, encoding, verAck,
               sentNonces, others, shakeLate>>
ShakeStarts ==
    \/ part = "shake" /\ V2!ShakeInit
    \/ /\ part # "shake"
       /\ meet = Idle /\ step = Idle /\ inbox = Idle /\ disconnect = Idle
       /\ protoVer = Idle /\ sendAddrV2 = Idle /\ encoding = Idle
       /\ verAck = Idle /\ sentNonces = Idle /\ others = Idle
       /\ shakeLate = Idle

----------------------------------------------------------------------------
\* The address manager with three addresses from two sources, new buckets of
\* one place and a single tried bucket of one; two of them are dialled.
NewBucketOf == [a \in {1, 2, 3} |-> [s \in {"x", "y"} |-> IF s = "x" THEN 0 ELSE a % 2]]
----------------------------------------------------------------------------
\* The local addresses a node offers: an IPv4 address, its tunnels, Hurricane
\* Electric, Tor and private ones.
V6Address(front, back) == front \o [i \in 1..(16 - Len(front) - Len(back)) |-> 0] \o back
Public == <<204, 124, 8, 100>>
Teredo == V6Address(<<32, 1>>, [i \in 1..4 |-> 255 - Public[i]])
OnionCat == V6Address(<<253, 135, 216, 126, 235, 67, 37>>, <<1>>)
LocalCandidates == {Public, V6Address(<<32, 1, 4, 112>>, <<1>>), Teredo, V6Address(<<32, 2>> \o Public, <<7>>),
                    OnionCat, <<77>>, <<192, 168, 0, 100>>}
Remotes == {Public, <<172, 16, 0, 254>>, V6Address(<<38, 2, 1, 0>>, <<1, 2>>), Teredo, OnionCat, <<33>>}
EmbeddedV4 == {Public, <<8, 8, 8, 8>>, <<172, 32, 1, 1>>, <<127, 0, 0, 1>>}
Addr == INSTANCE AddrManager WITH
    Addrs <- {1, 2, 3}, Dialed <- {1, 2}, Sources <- {"x", "y"},
    TriedBucketOf <- [a \in {1, 2, 3} |-> 0], NewBuckets <- {0, 1},
    TriedBuckets <- {0}, NewBucketSize <- 1, TriedBucketSize <- 1,
    NewBucketsPerAddress <- 2, NumRetries <- 1, MaxFailures <- 1, MissingTime <- 1,
    BadTime <- 1, MaxTime <- 2, Stamps <- {1}, PeersFiles <- {[kind |-> "none"]},
    Priorities <- {0, 1}, MaxLocal <- 2
addrVars == <<addrIndex, addrNew, addrTried, nNew, nTried, peersFile, time, life>>
AddrStarts ==
    \/ part = "addr" /\ Addr!AddrInit
    \/ /\ part # "addr"
       /\ addrIndex = Idle /\ addrNew = Idle /\ addrTried = Idle
       /\ nNew = Idle /\ nTried = Idle /\ peersFile = Idle /\ time = Idle
       /\ life = Idle

localVars == <<localAddresses>>
LocalStarts ==
    \/ part = "local" /\ Addr!LocalInit
    \/ /\ part # "local"
       /\ localAddresses = Idle

----------------------------------------------------------------------------
\* The connection manager with at most two outbound connections or a persistent
\* one, failing attempts and callers that remove requests.
ConnPlan(target, permanent, library, failures, asks) ==
    [target |-> target, permanent |-> permanent, library |-> library, faults |-> failures, calls |-> asks]
ConnPlans == {ConnPlan(1, {"p"}, FALSE, 1, IF Small THEN 0 ELSE 1), ConnPlan(1, {}, TRUE, 1, IF Small THEN 0 ELSE 2),
              ConnPlan(2, {}, FALSE, 1, 0)}
Conn == INSTANCE ConnManager WITH
    Addrs <- {"a"}, V1Only <- {"p", "a"}, Plans <- ConnPlans
connVars == <<requests, pending, conns, todo, downgrade, started, stop, faults,
              calls, unwanted, plan>>
ConnStarts ==
    \/ part = "conn" /\ Conn!ConnInit
    \/ /\ part # "conn"
       /\ requests = Idle /\ pending = Idle /\ conns = Idle /\ todo = Idle
       /\ downgrade = Idle /\ started = Idle /\ stop = Idle /\ faults = Idle
       /\ calls = Idle /\ unwanted = Idle /\ plan = Idle

----------------------------------------------------------------------------
\* The peers of the server: an inbound and an outbound one of one host, or an
\* outbound and a persistent one of one group, with room for one and one ban.
----------------------------------------------------------------------------
\* The relay of two transactions to two peers, one of which filters, through a
\* relay queue of three.
Server == INSTANCE ServerPeers WITH
    Peers <- {"i", "o", "p"}, Inbound <- {"i"}, Persistent <- {"p"},
    HostOf <- [i |-> "h1", o |-> "h1", p |-> "h2"],
    GroupOf <- [i |-> "g", o |-> "g", p |-> "g"], MaxPeers <- 1, MaxBans <- 1,
    Casts <- {{"i", "o"}, {"o", "p"}}, verAck <- serverVerAck,
    RelayTxs <- {"t", "u"}, RelayPeers <- {"q", "r"},
    Wants <- [q |-> {"t"}, r |-> {"t", "u"}], WantsHeaders <- {"q"}, RelayCap <- 3,
    MaxTimers <- IF Small THEN 0 ELSE 1, MaxAdds <- 1
serverVars == <<connected, serverVerAck, doneStep, newPeers, donePeers, banPeers,
                inboundPeers, outboundPeers, persistentPeers, outboundGroups, banned,
                adding, syncChan, syncPeers, announced, reported, serverQuit, bans,
                overtaken>>
ServerStarts ==
    \/ part = "server" /\ Server!ServerInit
    \/ /\ part # "server"
       /\ connected = Idle /\ serverVerAck = Idle /\ doneStep = Idle
       /\ newPeers = Idle /\ donePeers = Idle /\ banPeers = Idle
       /\ inboundPeers = Idle /\ outboundPeers = Idle
       /\ persistentPeers = Idle /\ outboundGroups = Idle /\ banned = Idle
       /\ adding = Idle /\ syncChan = Idle /\ syncPeers = Idle
       /\ announced = Idle /\ reported = Idle /\ serverQuit = Idle
       /\ bans = Idle /\ overtaken = Idle

relayVars == <<relayInv, pendingInvs, resending, blockWork, rpcStep, inPool, mined,
               asking, known, overtook, timers, adds>>
RelayStarts ==
    \/ part = "relay" /\ Server!RelayInit
    \/ /\ part # "relay"
       /\ relayInv = Idle /\ pendingInvs = Idle /\ resending = Idle
       /\ blockWork = Idle /\ rpcStep = Idle /\ inPool = Idle
       /\ mined = Idle /\ asking = Idle /\ known = Idle /\ overtook = Idle
       /\ timers = Idle /\ adds = Idle

----------------------------------------------------------------------------
\* The committed filter index and its three requests on a tree of six blocks.
----------------------------------------------------------------------------
\* Serving a getdata message of each kind, and a remote node that downloads
\* five blocks two at a time.
Wanted(kind, id) == [kind |-> kind, id |-> id]
DataPlan(wanted) == [sync |-> wanted = <<>>, request |-> wanted]
DataPlans == {DataPlan(<<>>), DataPlan(<<Wanted("tx", "t"), Wanted("merkle", 2), Wanted("tx", "u")>>),
    DataPlan(<<Wanted("merkle", 3), Wanted("other", 1), Wanted("block", 4), Wanted("tx", "t"), Wanted("block", 5)>>),
    DataPlan(<<Wanted("block", 9), Wanted("merkle", 1)>>)}
----------------------------------------------------------------------------
\* The messages one peer sends: a node that bans, one where it is whitelisted,
\* and one on the simulation network.
SessionKind(bloom, white, inbound, sim, quiet, v2) ==
    [bloom |-> bloom, banning |-> TRUE, whitelisted |-> white, newProtocol |-> TRUE, inbound |-> inbound,
     simNet |-> sim, blocksOnly |-> quiet, addrV2 |-> v2]
SessionKinds == {SessionKind(TRUE, FALSE, TRUE, FALSE, FALSE, FALSE), SessionKind(TRUE, TRUE, TRUE, FALSE, TRUE, TRUE),
                 SessionKind(FALSE, FALSE, FALSE, TRUE, TRUE, FALSE)}
Filters == INSTANCE ServeData WITH
    FBlocks <- 0..5, Genesis <- 0,
    ParentOf <- [b \in 1..5 |-> IF b = 4 THEN 1 ELSE b - 1], CFCheckptInterval <- 1,
    MaxRange <- 2, FPeers <- {"p"}, DataTxs <- {"t", "u"},
    Matched <- <<0, 2, 1, 0, 0>>, MaxTip <- 5, MaxBlocksPerMsg <- 2,
    NumBuffered <- 2, Sessions <- SessionKinds, BanThreshold <- 100, Lifetime <- 2,
    Unit <- 8, MaxClock <- 3, MaxMessages <- 3, SessionAddrs <- {"a", "b", "c"},
    TorV3 <- {"c"}, MaxAddrPerMsg <- 1, SessionTxs <- {"t"}, MaxInv <- 1
filtersVars == <<mainTip, validated, cfHeaders, checkptCache, request, replies,
                 spoiled>>
FiltersStarts ==
    \/ part = "filters" /\ Filters!FilterInit
    \/ /\ part # "filters"
       /\ mainTip = Idle /\ validated = Idle /\ cfHeaders = Idle
       /\ checkptCache = Idle /\ request = Idle /\ replies = Idle
       /\ spoiled = Idle

dataVars == <<dataPlan, bestTip, dataPool, filterLoaded, inMsgs, items, pushed,
              waitingFor, serving, notFound, outMsgs, signaled, continueHash, remote,
              delivered>>
DataStarts ==
    \/ part = "data" /\ Filters!DataInit
    \/ /\ part # "data"
       /\ dataPlan = Idle /\ bestTip = Idle /\ dataPool = Idle
       /\ filterLoaded = Idle /\ inMsgs = Idle /\ items = Idle
       /\ pushed = Idle /\ waitingFor = Idle /\ serving = Idle
       /\ notFound = Idle /\ outMsgs = Idle /\ signaled = Idle
       /\ continueHash = Idle /\ remote = Idle /\ delivered = Idle

sessionVars == <<session, online, isBanned, persistent, transient, lastUnix, clock,
                 messages, points, filter, relayTx, feeFilter, sentAddrs,
                 knownAddresses, told, addrReply, invReply, syncWork>>
SessionStarts ==
    \/ part = "session" /\ Filters!SessionInit
    \/ /\ part # "session"
       /\ session = Idle /\ online = Idle /\ isBanned = Idle
       /\ persistent = Idle /\ transient = Idle /\ lastUnix = Idle
       /\ clock = Idle /\ messages = Idle /\ points = Idle /\ filter = Idle
       /\ relayTx = Idle /\ feeFilter = Idle /\ sentAddrs = Idle
       /\ knownAddresses = Idle /\ told = Idle /\ addrReply = Idle
       /\ invReply = Idle /\ syncWork = Idle

----------------------------------------------------------------------------
\* The CPU miner with two callers and two workers on a chain that grows by one
\* block.
Miner == INSTANCE CpuMiner WITH
    Caller <- {"c1", "c2"}, Worker <- IF Small THEN {1} ELSE {1, 2}, MaxTip <- 1,
    MaxBlocks <- 1, started <- minerStarted
minerVars == <<minerLock, numWorkers, minerStarted, discreteMining, quitClosed,
               monitor, controller, worker, caller, submitLock, tip, moved>>
MinerStarts ==
    \/ part = "miner" /\ Miner!MinerInit
    \/ /\ part # "miner"
       /\ minerLock = Idle /\ numWorkers = Idle /\ minerStarted = Idle
       /\ discreteMining = Idle /\ quitClosed = Idle /\ monitor = Idle
       /\ controller = Idle /\ worker = Idle /\ caller = Idle
       /\ submitLock = Idle /\ tip = Idle /\ moved = Idle

----------------------------------------------------------------------------
\* The validator of scripts called for the pool and for a block at once, with
\* two goroutines each and a cache of two entries.
ScriptIn(h, s, v, t) == [hash |-> h, sig |-> s, valid |-> v, taproot |-> t, coinbase |-> FALSE, spent |-> FALSE]
ScriptWorks == {[c \in {"pool", "block"} |-> IF c = "pool" THEN <<"a">> ELSE <<"cb", "r", "a">> \o more] :
                  more \in IF Small THEN {<<"b">>} ELSE {<<>>, <<"b">>}}
ScriptInputs == [cb |-> <<[ScriptIn(0, "none", FALSE, FALSE) EXCEPT !.coinbase = TRUE]>>,
                 r |-> <<ScriptIn(9, "none", FALSE, FALSE)>>,
                 a |-> <<ScriptIn(1, "good", TRUE, TRUE), ScriptIn(2, "good2", TRUE, FALSE)>>,
                 b |-> <<ScriptIn(1, "other", FALSE, FALSE)>>]
----------------------------------------------------------------------------
\* The digests that signatures are over, of transactions of up to two inputs
\* and outputs.
Validate == INSTANCE ScriptVal WITH
    Callers <- {"pool", "block"}, Works <- ScriptWorks, InputsOf <- ScriptInputs,
    IsBlock <- {"block"}, WitnessTxs <- {"cb", "a"}, ReapTxs <- {"r"},
    MaxGoRoutines <- 2, MaxEntries <- 2, worker <- valWorker,
    HashTypes <- {0, 1, 2, 3, 9, 65, 66, 67, 97, 129, 130, 131, 193, 195},
    MaxIns <- 2, MaxOuts <- 2
valVars == <<call, valWorker, hashCache, sigCache, txsOf>>
ValidateStarts ==
    \/ part = "val" /\ Validate!ValInit
    \/ /\ part # "val"
       /\ call = Idle /\ valWorker = Idle /\ hashCache = Idle
       /\ sigCache = Idle /\ txsOf = Idle

hashVars == <<tx, orig, touched, cache>>
HashesStarts ==
    \/ part = "hash" /\ Validate!HashInit
    \/ /\ part # "hash"
       /\ tx = Idle /\ orig = Idle /\ touched = Idle /\ cache = Idle

----------------------------------------------------------------------------
Init ==
    /\ part \in Parts
    /\ SyncStarts /\ PeerStarts /\ V2Starts /\ ShakeStarts
    /\ AddrStarts /\ LocalStarts /\ ConnStarts /\ ServerStarts
    /\ RelayStarts /\ FiltersStarts /\ DataStarts /\ SessionStarts
    /\ MinerStarts /\ ValidateStarts /\ HashesStarts

Next ==
    \/ part = "sync" /\ Sync!SyncNext
         /\ UNCHANGED <<part, peerVars, v2Vars, shakeVars, addrVars, localVars, connVars,
                       serverVars, relayVars, filtersVars, dataVars, sessionVars, minerVars,
                       valVars, hashVars>>
    \/ part = "peer" /\ Peer!PeerNext
         /\ UNCHANGED <<part, syncVars, v2Vars, shakeVars, addrVars, localVars, connVars,
                       serverVars, relayVars, filtersVars, dataVars, sessionVars, minerVars,
                       valVars, hashVars>>
    \/ part = "v2" /\ V2!V2Next
         /\ UNCHANGED <<part, syncVars, peerVars, shakeVars, addrVars, localVars, connVars,
                       serverVars, relayVars, filtersVars, dataVars, sessionVars, minerVars,
                       valVars, hashVars>>
    \/ part = "shake" /\ V2!ShakeNext
         /\ UNCHANGED <<part, syncVars, peerVars, v2Vars, addrVars, localVars, connVars,
                       serverVars, relayVars, filtersVars, dataVars, sessionVars, minerVars,
                       valVars, hashVars>>
    \/ part = "addr" /\ Addr!AddrNext
         /\ UNCHANGED <<part, syncVars, peerVars, v2Vars, shakeVars, localVars, connVars,
                       serverVars, relayVars, filtersVars, dataVars, sessionVars, minerVars,
                       valVars, hashVars>>
    \/ part = "local" /\ Addr!LocalNext
         /\ UNCHANGED <<part, syncVars, peerVars, v2Vars, shakeVars, addrVars, connVars,
                       serverVars, relayVars, filtersVars, dataVars, sessionVars, minerVars,
                       valVars, hashVars>>
    \/ part = "conn" /\ Conn!ConnNext
         /\ UNCHANGED <<part, syncVars, peerVars, v2Vars, shakeVars, addrVars, localVars,
                       serverVars, relayVars, filtersVars, dataVars, sessionVars, minerVars,
                       valVars, hashVars>>
    \/ part = "server" /\ Server!ServerNext
         /\ UNCHANGED <<part, syncVars, peerVars, v2Vars, shakeVars, addrVars, localVars,
                       connVars, relayVars, filtersVars, dataVars, sessionVars, minerVars,
                       valVars, hashVars>>
    \/ part = "relay" /\ Server!RelayNext
         /\ UNCHANGED <<part, syncVars, peerVars, v2Vars, shakeVars, addrVars, localVars,
                       connVars, serverVars, filtersVars, dataVars, sessionVars, minerVars,
                       valVars, hashVars>>
    \/ part = "filters" /\ Filters!FilterNext
         /\ UNCHANGED <<part, syncVars, peerVars, v2Vars, shakeVars, addrVars, localVars,
                       connVars, serverVars, relayVars, dataVars, sessionVars, minerVars,
                       valVars, hashVars>>
    \/ part = "data" /\ Filters!DataNext
         /\ UNCHANGED <<part, syncVars, peerVars, v2Vars, shakeVars, addrVars, localVars,
                       connVars, serverVars, relayVars, filtersVars, sessionVars, minerVars,
                       valVars, hashVars>>
    \/ part = "session" /\ Filters!SessionNext
         /\ UNCHANGED <<part, syncVars, peerVars, v2Vars, shakeVars, addrVars, localVars,
                       connVars, serverVars, relayVars, filtersVars, dataVars, minerVars,
                       valVars, hashVars>>
    \/ part = "miner" /\ Miner!MinerNext
         /\ UNCHANGED <<part, syncVars, peerVars, v2Vars, shakeVars, addrVars, localVars,
                       connVars, serverVars, relayVars, filtersVars, dataVars, sessionVars,
                       valVars, hashVars>>
    \/ part = "val" /\ Validate!ValNext
         /\ UNCHANGED <<part, syncVars, peerVars, v2Vars, shakeVars, addrVars, localVars,
                       connVars, serverVars, relayVars, filtersVars, dataVars, sessionVars,
                       minerVars, hashVars>>
    \/ part = "hash" /\ Validate!HashNext
         /\ UNCHANGED <<part, syncVars, peerVars, v2Vars, shakeVars, addrVars, localVars,
                       connVars, serverVars, relayVars, filtersVars, dataVars, sessionVars,
                       minerVars, valVars>>

vars == <<part, syncVars, peerVars, v2Vars, shakeVars, addrVars, localVars, connVars,
          serverVars, relayVars, filtersVars, dataVars, sessionVars, minerVars,
          valVars, hashVars>>

\* The fairness of each component (its module says what justifies it), asked
\* only of the behaviours that are its own.
Fairness ==
    /\ \A q \in {"h"} : WF_syncVars(part = "sync" /\ (Sync!Answer(q)))
    /\ \A q \in {"h"} : WF_syncVars(part = "sync" /\ (Sync!NewPeer(q)))
    /\ \A q \in {"h", "l"} : WF_syncVars(part = "sync" /\ (Sync!DonePeer(q)))
    /\ WF_syncVars(part = "sync" /\ (Sync!StallSample))
    /\ \A w \in (IF Small THEN {"s1"} ELSE {"s1", "s2"}) : WF_peerVars(part = "peer" /\ (Peer!SenderStep(w)))
    /\ WF_peerVars(part = "peer" /\ (Peer!TakeMessage))
    /\ WF_peerVars(part = "peer" /\ (Peer!TakeSendDone))
    /\ WF_peerVars(part = "peer" /\ (Peer!QueueQuit \/ Peer!QueueDrain))
    /\ WF_peerVars(part = "peer" /\ (Peer!OutHandler))
    /\ SF_peerVars(part = "peer" /\ (Peer!OutQuit))
    /\ WF_peerVars(part = "peer" /\ (Peer!InHandler))
    /\ WF_peerVars(part = "peer" /\ (Peer!StallHandler))
    /\ WF_v2Vars(part = "v2" /\ (V2!InitiateV2Handshake))
    /\ WF_v2Vars(part = "v2" /\ (V2!RespondV1 \/ V2!RespondV2Handshake \/ V2!RespondFails))
    /\ \A s \in {"init", "resp"} : WF_v2Vars(part = "v2" /\ (V2!V2Side(s)))
    /\ \A e \in {"out", "in"} : WF_shakeVars(part = "shake" /\ (V2!ShakeStep(e)))
    /\ WF_connVars(part = "conn" /\ (Conn!StartConn))
    /\ WF_connVars(part = "conn" /\ (Conn!ConnWorks))
    /\ WF_relayVars(part = "relay" /\ (Server!BlockHandlerCalls))
    /\ WF_relayVars(part = "relay" /\ (Server!Rebroadcasts))
    /\ WF_relayVars(part = "relay" /\ (Server!handleRelayInvMsg))
    /\ \A t \in {"t", "u"} : WF_relayVars(part = "relay" /\ (Server!RpcSteps(t)))
    /\ WF_dataVars(part = "data" /\ (Filters!DataHandler))
    /\ WF_dataVars(part = "data" /\ (Filters!WriteMessage))
    /\ \A c \in {"c1", "c2"} : SF_minerVars(part = "miner" /\ (Miner!CallStep(c)))
    /\ WF_minerVars(part = "miner" /\ (Miner!ControllerStep))
    /\ \A w \in (IF Small THEN {1} ELSE {1, 2}) : SF_minerVars(part = "miner" /\ (Miner!WorkerStep(w)))
    /\ \A c \in {"pool", "block"} : WF_valVars(part = "val" /\ (Validate!CallStep(c)))
    /\ \A c \in {"pool", "block"}, w \in {1, 2} : WF_valVars(part = "val" /\ (Validate!Feed(c, w) \/ Validate!TakeResult(c, w) \/ Validate!Validate(c, w) \/ Validate!Quit(c, w)))

Spec == Init /\ [][Next]_vars
LiveSpec == Spec /\ Fairness

----------------------------------------------------------------------------
ASSUME ConstantsOK ==
    /\ Sync!SyncAssumption
    /\ V2!V2Assumption
    /\ V2!ShakeAssumption
    /\ Addr!AddrAssumption
    /\ Conn!ConnAssumption
    /\ Server!ServerAssumption
    /\ Filters!FilterAssumption
    /\ Filters!SessionAssumption

\* What the handlers dereference without a test is there: in headers-first
\* mode the sync peer (fetchHeaderBlocks, and the log line at a checkpoint)
\* and the next checkpoint (handleHeadersMsg, handleBlockMsg), and the sync
\* peer always has an entry in peerStates.
DereferencesSafe == part = "sync" => Sync!DereferencesSafe

\* A block or transaction counted as requested, which no other peer is asked
\* for, is one that a peer was asked for and still owes; for an honest peer
\* the getdata message is on its way.  Otherwise it would never be asked for
\* again.  (limitAdd at its limit breaks this: it drops different entries of
\* the two sets.)
RequestsHaveOwner == part = "sync" => Sync!RequestsHaveOwner

\* A block is added with less validation (BFFastAdd) only when headers that
\* link up to a checkpoint contain it.
FastAddIsCheckpointed == part = "sync" => Sync!FastAddIsCheckpointed

\* The initial download comes to an end: while one honest peer stays, or comes
\* back, the chain becomes current whatever the other peers do.
InitialSyncCompletes == part = "sync" => (<>(part = "sync" => Sync!CaughtUp))

\* Messages reach the wire in the order in which queueHandler took them.
SentInOrder == part = "peer" => Peer!SentInOrder

\* The handlers hand a message over without ever waiting: sendQueue and
\* sendDoneQueue have room for the one message that is under way.
HandOverNeverBlocks == part = "peer" => Peer!HandOverNeverBlocks

\* A transaction is announced to a peer at most once.
AnnouncedOnce == part = "peer" => Peer!AnnouncedOnce

\* After Disconnect every goroutine ends and every sender gets its answer, unless
\* a message comes after the drain of the output queue, or a handler waits for a
\* stall handler that has ended.
PeerEnds ==
    part = "peer" => ((part = "peer" /\ disconnected) ~> (part = "peer" => Peer!EndedOrStuck))

\* A packet of the other side always opens: sender and receiver agree on the
\* key, the nonce and the associated data through decoys and rekeying.
PacketsOpen == part = "v2" => V2!PacketsOpen

\* No two packets of a direction are sealed under the same key and nonce.
NoncesFresh == part = "v2" => V2!NoncesFresh

\* Two nodes of one network come to an agreement if neither times out: both
\* use the new transport, or both the old one, or the initiator learns that it
\* must connect again with the old one.  Garbage of the full length aside.
TransportsAgree ==
    part = "v2" => ((part = "v2" /\ V2!OneNetwork) ~> (part = "v2" => V2!Agreed))

\* When both sides are through they use the same protocol version, the lower
\* of the two, each knows whether the other wants addrv2, and each encodes for
\* what the other can read.
NegotiationAgrees == part = "shake" => V2!NegotiationAgrees

\* A node does not stay connected to itself: one of the two sides sees its own
\* nonce, unless others pushed both out of the cache.
NoSelfConnection == part = "shake" => V2!NoSelfConnection

\* Two nodes that can talk to each other do, unless one of them times out.
NegotiationSucceeds ==
    part = "shake" => ((part = "shake" /\ V2!Compatible) ~> (part = "shake" => V2!BothLive \/ shakeLate # {}))

\* The tables, the references of the addresses and the counters agree, and the
\* buckets keep their sizes (a new bucket holds one more than newBucketSize,
\* since updateAddress makes room only when there are more).
TablesAgree == part = "addr" => Addr!TablesAgree

\* GetAddress draws buckets until it meets one that is not empty, holding the
\* mutex: whenever it starts to draw from a table there is something to find.
GetAddressEnds == part = "addr" => Addr!GetAddressEnds

\* What is saved and loaded again is what there was, but for the timestamps.
SavedIsLoaded == part = "addr" => Addr!SavedIsLoaded

\* No operation of a running manager forgets an address that worked: Good may
\* move it back to the new buckets, but only updateAddress can expire it there.
TriedNotForgotten == [][part = "addr" => Addr!KeepsTried]_addrVars

\* An address that is tunnelled over IPv6 is in the group of the IPv4 address
\* behind it: a host cannot reach more groups by tunnelling.
TunnelsShareGroup == part = "local" => Addr!TunnelsShareGroup

\* In whatever order the map is walked, the address suggested is one that is
\* best for the peer to reach and, among those, has the highest score.
BestLocalIsBest == part = "local" => Addr!BestLocalIsBest

\* A request that was removed while it was pending is never connected.
CanceledStaysCanceled == [][part = "conn" => Conn!StaysCanceled]_connVars

\* Once attempts no longer fail, the node has its connections: as many as the
\* target, on the transport that the other node speaks.
TargetReached == part = "conn" => (<>[](part = "conn" => Conn!TargetMet))

\* A persistent peer is connected again and again until it works.
PersistentReached == part = "conn" => (<>[](part = "conn" => Conn!PersistentMet))

\* There are at most MaxPeers peers, and the count of a group, which keeps the
\* node from connecting to it twice, is the number of its outbound peers.
GroupsCounted == part = "server" => Server!GroupsCounted

\* In whatever order peerHandler hears that a peer came and went, it ends up in
\* no list, and for an outbound one the connection manager is told exactly once.
DoneIsForgotten == part = "server" => Server!DoneIsForgotten

\* The sync manager forgets a peer that is gone, unless its end overtook its
\* announcement.
SyncForgets == part = "server" => Server!SyncForgets

\* A transaction that a block has is not rebroadcast any more once the notes of
\* the block are handled, if its submission was over when the block came.
ConfirmedIsForgotten == part = "relay" => Server!ConfirmedIsForgotten

\* A transaction in the pool has been relayed to every peer that wants it,
\* whatever was submitted, mined or rebroadcast at the same time.
PoolIsAnnounced == part = "relay" => Server!PoolIsAnnounced

\* peerHandler gets its answer from the sync manager and the submitted
\* transactions are handed over, unless relayInv is full: then blockHandler,
\* rebroadcastHandler and peerHandler may wait for each other.
WaitsEnd ==
    part = "relay" => (/\ (part = "relay" /\ asking) ~> (part = "relay" => ~asking \/ Server!RelayFull)
    /\ \A t \in {"t", "u"} :
        (part = "relay" /\ rpcStep[t] = "add") ~> (part = "relay" => rpcStep[t] = "end" \/ Server!RelayFull))

\* The index holds exactly the main chain, and the header of a block commits to
\* the filters of the block and of all its ancestors.
FilterIndexFollowsChain == part = "filters" => Filters!FilterIndexFollowsChain

\* A reply is about the branch that ends in the block that was asked for,
\* whatever reorganizations came between the lookup of the blocks, the reads of
\* the index and the cache.
RepliesTrue == part = "filters" => Filters!RepliesTrue

\* When OnGetData returns, all it queued has been written: this is what keeps a
\* peer from having far more queued for it than can be sent.
DoneMeansSent == part = "data" => Filters!DoneMeansSent

\* Every item is answered exactly once, in the order of the request, or listed
\* in the notfound message; only a filtered block without a filter is ignored.
EveryItemAnswered == part = "data" => Filters!EveryItemAnswered

\* OnGetData returns: no answer and no failure leaves a done channel without
\* its signal.
GetDataEnds ==
    part = "data" => ((part = "data" /\ serving # "no") ~> (part = "data" => serving = "no"))

\* A remote node that is behind gets the whole chain: the inv that follows the
\* last block of a full batch makes it ask for the next one.  Only blocks that
\* come after its last batch are left to the ordinary announcements.
RemoteCatchesUp ==
    part = "data" => ((part = "data" /\ dataPlan.sync /\ remote.has = 0) ~> (part = "data" => remote.has >= 4))

\* A peer is banned only when all it was ever charged is over the threshold, and
\* it is off no later than when its persistent score and what it was charged
\* within the last moment are: decay never hides a flood.
BanFollowsScore == part = "session" => Filters!BanFollowsScore

\* A peer is not told an address it told us, and not more than fit; it is told
\* addresses at most once.
NotToldBack == [][part = "session" => Filters!TellsNew]_sessionVars

\* When the miner is not started, nothing of an earlier start runs any more: no
\* worker, no controller and no monitor, so that a restart never has two sets
\* of workers (Stop waits for all of them).
StopLeavesNothing == part = "miner" => Miner!StopLeavesNothing

\* The workers are as many as were asked for last, whenever no update is on its
\* way: also when the setting changes while the controller is being launched.
WorkersFollowSetting == part = "miner" => Miner!WorkersFollowSetting

\* A hash that generate lists is that of a block that was accepted, unless a
\* block of another miner came meanwhile.
GeneratedAreAccepted == part = "miner" => Miner!GeneratedAreAccepted

\* Every call returns, unless a resize meets the end of a call to generate.
MinerReturns ==
    part = "miner" => (\A c \in {"c1", "c2"} :
        (part = "miner" /\ caller[c].op # "none") ~> (part = "miner" => caller[c].op = "none" \/ Miner!Stuck))

\* The verdict on a set of scripts is right whatever the order results come in and
\* whatever the caches hold: no error exactly when every script is valid (Validate).
VerdictTrue == part = "val" => Validate!VerdictTrue

\* No goroutine is left behind: every call returns and all its goroutines end, also
\* those busy when another one reported an error (sendResult, quitChan).
ValidatorsEnd ==
    part = "val" => (\A c \in {"pool", "block"} : <>[](part = "val" => Validate!AllGone(c)))

\* An edit changes the digest of an input's signature exactly when its hash type says
\* the field is signed; midstates from the cache are as good as new ones.  The digest
\* of a single output that does not exist is a constant (witness version 0: blank), or
\* none at all (taproot).
CommitmentsExact == part = "hash" => Validate!CommitmentsExact

\* A signature of the replay-protected domain is never one of the plain domain, for
\* the same or another hash type, before or after an edit; save for the constant digest
\* of a missing single output.
DomainsApart == part = "hash" => Validate!DomainsApart

----------------------------------------------------------------------------
\* Block download (netsync): no handler meets a peer, header or checkpoint that
\* is not there, every request has a connected peer to answer it, and only
\* blocks on the way to a verified checkpoint skip validation.
SyncSound ==
    /\ part = "sync" => Sync!SyncTypeOK
    /\ DereferencesSafe /\ RequestsHaveOwner /\ FastAddIsCheckpointed

\* A connection (peer, v2transport): messages leave once and in order and no
\* goroutine waits for one that is gone; both ends of a handshake agree, never
\* with themselves, and no nonce is used twice.
PeerSound ==
    /\ part = "peer" => Peer!PeerTypeOK
    /\ part = "v2" => V2!V2TypeOK
    /\ part = "shake" => V2!ShakeTypeOK
    /\ SentInOrder /\ HandOverNeverBlocks /\ AnnouncedOnce
    /\ PacketsOpen /\ NoncesFresh /\ NegotiationAgrees
    /\ NoSelfConnection

\* The addresses a node knows and dials (addrmgr, connmgr): tables and counters
\* agree, a draw ends, a good address and a removal are not forgotten, and what
\* is saved is loaded.
AddressesSound ==
    /\ [](/\ part = "addr" => Addr!AddrTypeOK
          /\ part = "conn" => Conn!ConnTypeOK
          /\ TablesAgree /\ GetAddressEnds /\ SavedIsLoaded
          /\ TunnelsShareGroup /\ BestLocalIsBest)
    /\ TriedNotForgotten /\ CanceledStaysCanceled

\* The server's peers and its relay: whatever the order of add, ban and done, a
\* peer that is gone is forgotten everywhere and counted nowhere, and what
\* enters the pool is announced until it is mined.
PeersSound ==
    /\ part = "server" => Server!ServerTypeOK
    /\ part = "relay" => Server!RelayTypeOK
    /\ GroupsCounted /\ DoneIsForgotten /\ SyncForgets
    /\ ConfirmedIsForgotten /\ PoolIsAnnounced

\* The replies of the server: every item asked for is answered once and truly
\* while pool and chain change, nothing is announced back to its source, and a
\* ban follows the score.
RepliesSound ==
    /\ [](/\ part = "filters" => Filters!FilterTypeOK
          /\ part = "data" => Filters!DataTypeOK
          /\ part = "session" => Filters!SessionTypeOK
          /\ FilterIndexFollowsChain /\ RepliesTrue /\ DoneMeansSent
          /\ EveryItemAnswered /\ BanFollowsScore)
    /\ NotToldBack

\* The CPU miner and the script validator: a stopped miner leaves no goroutine,
\* its workers follow the setting, and the verdict on a block is that of its
\* scripts whatever the caches and the other caller do.
WorkersSound ==
    /\ part = "miner" => Miner!MinerTypeOK
    /\ part = "val" => Validate!ValTypeOK
    /\ StopLeavesNothing /\ WorkersFollowSetting /\ GeneratedAreAccepted
    /\ VerdictTrue /\ CommitmentsExact /\ DomainsApart

\* With one honest peer the node gets the whole chain, and a remote node that
\* asks for blocks gets to the end of them.
DownloadsComplete ==
    /\ InitialSyncCompletes /\ RemoteCatchesUp

\* Two willing ends agree on a transport and a version, and the wanted and the
\* persistent connections are made.
ConnectionsMade ==
    /\ TransportsAgree /\ NegotiationSucceeds /\ TargetReached
    /\ PersistentReached

\* Nobody waits for ever: the goroutines of a closed peer, a request for data,
\* a query to the server, a call of the miner and the workers of the validator
\* all end.
GoroutinesEnd ==
    /\ PeerEnds /\ WaitsEnd /\ GetDataEnds
    /\ MinerReturns /\ ValidatorsEnd
============================================================================
