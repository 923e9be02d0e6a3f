---------------------------- MODULE ServerPeers -----------------------------
(***************************************************************************)
(* The peers of server.go: the lists that peerHandler keeps, the groups it *)
(* counts, the bans, and what the sync manager and the connection manager  *)
(* are told.  A peer is one connection; its negotiation goroutine adds it  *)
(* (OnVerAck), its peerDoneHandler reports that it is gone, and both race  *)
(* with peerHandler.                                                       *)
(***************************************************************************)
EXTENDS Integers, Sequences, FiniteSets, SequencesExt

CONSTANTS
    Peers,          \* connections
    Inbound,        \* those that were accepted
    Persistent,     \* those made for a persistent request
    HostOf,         \* [Peers -> host], for bans
    GroupOf,        \* [Peers -> group], GroupKey
    MaxPeers,
    MaxBans,        \* bound on bans
    Casts           \* the sets of connections that are looked at together

VARIABLES
    connected,      \* "none", "up" or "down"; "never" for one that does not come
    verAck,         \* "no", "received" or "added": OnVerAck has sent the peer
    doneStep,       \* peerDoneHandler: "wait", "tellSync" or "end"
    newPeers, donePeers, banPeers,      \* channels
    inboundPeers, outboundPeers, persistentPeers, outboundGroups,
    banned,
    adding,         \* the peer handleAddPeerMsg has listed but not announced yet
    syncChan,       \* messages to the sync manager
    syncPeers,      \* the peers the sync manager knows
    announced,      \* those it was told of
    reported,       \* how often the connection manager was told a peer is done
    serverQuit, bans,
    overtaken       \* peers whose end the sync manager heard of first

serverVars == <<connected, verAck, doneStep, newPeers, donePeers, banPeers, inboundPeers, outboundPeers,
                persistentPeers, outboundGroups, banned, adding, syncChan, syncPeers, announced, reported,
                serverQuit, bans, overtaken>>

NoPeer == "no peer"
Outbound == Peers \ Inbound
Groups == {GroupOf[p] : p \in Peers}
Hosts == {HostOf[p] : p \in Peers}
AllPeers == inboundPeers \cup outboundPeers \cup persistentPeers
PeerCount == Cardinality(AllPeers)

ServerAssumption == Persistent \subseteq Outbound /\ MaxPeers \in Nat \ {0}

ServerTypeOK ==
    /\ connected \in [Peers -> {"never", "none", "up", "down"}]
    /\ verAck \in [Peers -> {"no", "received", "added"}] /\ doneStep \in [Peers -> {"wait", "tellSync", "end"}]
    /\ inboundPeers \subseteq Inbound /\ persistentPeers \subseteq Persistent
    /\ outboundPeers \subseteq Outbound \ Persistent
    /\ outboundGroups \in [Groups -> Int] /\ banned \subseteq Hosts
    /\ adding \in Peers \cup {NoPeer} /\ syncPeers \subseteq Peers /\ bans \in 0..MaxBans

ServerInit ==
    /\ \E cast \in Casts : connected = [p \in Peers |-> IF p \in cast THEN "none" ELSE "never"]
    /\ verAck = [p \in Peers |-> "no"]
    /\ doneStep = [p \in Peers |-> "wait"]
    /\ newPeers = <<>> /\ donePeers = <<>> /\ banPeers = <<>>
    /\ inboundPeers = {} /\ outboundPeers = {} /\ persistentPeers = {}
    /\ outboundGroups = [g \in Groups |-> 0] /\ banned = {}
    /\ adding = NoPeer /\ syncChan = <<>> /\ syncPeers = {} /\ announced = {}
    /\ reported = [p \in Peers |-> 0] /\ serverQuit = FALSE /\ bans = 0 /\ overtaken = {}

(***************************************************************************)
(* The goroutines of a peer.                                               *)
(***************************************************************************)
Lists == <<inboundPeers, outboundPeers, persistentPeers, outboundGroups>>
Sync == <<syncChan, syncPeers, announced, overtaken>>

\* inboundPeerConnected, outboundPeerConnected
PeerConnected(p) ==
    /\ connected[p] = "none" /\ ~serverQuit /\ connected' = [connected EXCEPT ![p] = "up"]
    /\ UNCHANGED <<verAck, doneStep, newPeers, donePeers, banPeers, banned, adding, reported, serverQuit, bans>>
    /\ UNCHANGED Lists /\ UNCHANGED Sync

\* A verack that was read is handled even if the peer is disconnected meanwhile.
VerAckReceived(p) ==
    /\ connected[p] = "up" /\ verAck[p] = "no" /\ verAck' = [verAck EXCEPT ![p] = "received"]
    /\ UNCHANGED <<connected, doneStep, newPeers, donePeers, banPeers, banned, adding, reported, serverQuit, bans>>
    /\ UNCHANGED Lists /\ UNCHANGED Sync

\* OnVerAck and AddPeer
AddPeer(p) ==
    /\ verAck[p] = "received" /\ Len(newPeers) < MaxPeers
    /\ newPeers' = Append(newPeers, p) /\ verAck' = [verAck EXCEPT ![p] = "added"]
    /\ UNCHANGED <<connected, doneStep, donePeers, banPeers, banned, adding, reported, serverQuit, bans>>
    /\ UNCHANGED Lists /\ UNCHANGED Sync

PeerDisconnects(p) ==
    /\ connected[p] = "up" /\ connected' = [connected EXCEPT ![p] = "down"]
    /\ UNCHANGED <<verAck, doneStep, newPeers, donePeers, banPeers, banned, adding, reported, serverQuit, bans>>
    /\ UNCHANGED Lists /\ UNCHANGED Sync

\* addBanScore over the threshold: BanPeer, then Disconnect.
PeerBanned(p) ==
    /\ connected[p] = "up" /\ verAck[p] = "added" /\ bans < MaxBans /\ Len(banPeers) < MaxPeers
    /\ bans' = bans + 1 /\ banPeers' = Append(banPeers, p)
    /\ connected' = [connected EXCEPT ![p] = "down"]
    /\ UNCHANGED <<verAck, doneStep, newPeers, donePeers, banned, adding, reported, serverQuit>>
    /\ UNCHANGED Lists /\ UNCHANGED Sync

peerDoneHandler(p) ==
    /\ connected[p] = "down" /\ doneStep[p] = "wait" /\ Len(donePeers) < MaxPeers
    /\ donePeers' = Append(donePeers, p)
    /\ doneStep' = [doneStep EXCEPT ![p] = "tellSync"]
    /\ UNCHANGED <<connected, verAck, newPeers, banPeers, banned, adding, reported, serverQuit, bans>>
    /\ UNCHANGED Lists /\ UNCHANGED Sync

\* DonePeer, for a peer that had its verack.
TellsDone(p) == verAck[p] # "no"

TellSyncDone(p) ==
    /\ doneStep[p] = "tellSync" /\ doneStep' = [doneStep EXCEPT ![p] = "end"]
    /\ syncChan' = IF TellsDone(p) THEN Append(syncChan, [type |-> "done", peer |-> p]) ELSE syncChan
    /\ overtaken' = IF TellsDone(p) /\ p \notin announced THEN overtaken \cup {p} ELSE overtaken
    /\ UNCHANGED <<connected, verAck, newPeers, donePeers, banPeers, banned, adding, reported, serverQuit, bans,
                   syncPeers, announced>>
    /\ UNCHANGED Lists

(***************************************************************************)
(* peerHandler.                                                            *)
(***************************************************************************)
Idle == adding = NoPeer /\ ~serverQuit

GroupChange(p, n) == [outboundGroups EXCEPT ![GroupOf[p]] = @ + n]

\* handleAddPeerMsg up to the lists; a ban may have run out.
handleAddPeerMsg ==
    LET p == Head(newPeers)
    IN  /\ Idle /\ newPeers # <<>> /\ newPeers' = Tail(newPeers)
        /\ \E stillBanned \in {HostOf[p] \in banned, FALSE} :
             IF connected[p] = "down"
             THEN UNCHANGED <<connected, banned, adding>> /\ UNCHANGED Lists
             ELSE IF stillBanned
             THEN connected' = [connected EXCEPT ![p] = "down"] /\ UNCHANGED <<banned, adding>> /\ UNCHANGED Lists
             ELSE /\ banned' = banned \ {HostOf[p]}
                  /\ IF PeerCount >= MaxPeers
                     THEN connected' = [connected EXCEPT ![p] = "down"] /\ UNCHANGED adding /\ UNCHANGED Lists
                     ELSE /\ adding' = p /\ UNCHANGED connected
                          /\ inboundPeers' = inboundPeers \cup ({p} \cap Inbound)
                          /\ persistentPeers' = persistentPeers \cup ({p} \cap Persistent)
                          /\ outboundPeers' = outboundPeers \cup ({p} \cap (Outbound \ Persistent))
                          /\ outboundGroups' = IF p \in Inbound THEN outboundGroups ELSE GroupChange(p, 1)
        /\ UNCHANGED <<verAck, doneStep, donePeers, banPeers, reported, serverQuit, bans>> /\ UNCHANGED Sync

\* The rest of it: NewPeer of the sync manager, and the address manager.
TellSyncNew ==
    /\ adding # NoPeer /\ adding' = NoPeer
    /\ syncChan' = Append(syncChan, [type |-> "new", peer |-> adding])
    /\ announced' = announced \cup {adding}
    /\ UNCHANGED <<connected, verAck, doneStep, newPeers, donePeers, banPeers, banned, reported, serverQuit, bans,
                   syncPeers, overtaken>>
    /\ UNCHANGED Lists

\* Seeded fault: the count of the group goes down although the peer is not listed any more.
Delisted_always(p) ==
    /\ inboundPeers' = inboundPeers \ {p} /\ outboundPeers' = outboundPeers \ {p}
    /\ persistentPeers' = persistentPeers \ {p}
    /\ outboundGroups' = IF p \in Outbound THEN GroupChange(p, -1) ELSE outboundGroups

Delisted(p) ==
    /\ inboundPeers' = inboundPeers \ {p} /\ outboundPeers' = outboundPeers \ {p}
    /\ persistentPeers' = persistentPeers \ {p}
    /\ outboundGroups' = IF p \in outboundPeers \cup persistentPeers THEN GroupChange(p, -1) ELSE outboundGroups

\* Disconnect or Remove of the connection manager.
ReportDone(p) == IF p \in Outbound THEN [reported EXCEPT ![p] = @ + 1] ELSE reported

handleDonePeerMsg ==
    LET p == Head(donePeers)
    IN  /\ Idle /\ donePeers # <<>> /\ donePeers' = Tail(donePeers)
        /\ reported' = ReportDone(p) /\ Delisted(p)
        /\ UNCHANGED <<connected, verAck, doneStep, newPeers, banPeers, banned, adding, serverQuit, bans>>
        /\ UNCHANGED Sync

handleBanPeerMsg ==
    /\ Idle /\ banPeers # <<>> /\ banPeers' = Tail(banPeers)
    /\ banned' = banned \cup {HostOf[Head(banPeers)]}
    /\ UNCHANGED <<connected, verAck, doneStep, newPeers, donePeers, adding, reported, serverQuit, bans>>
    /\ UNCHANGED Lists /\ UNCHANGED Sync

\* removeNodeMsg for a persistent peer, disconnectNodeMsg for another.
disconnectPeer(p) ==
    /\ Idle /\ p \in AllPeers
    /\ Delisted(p) /\ connected' = [connected EXCEPT ![p] = "down"]
    /\ UNCHANGED <<verAck, doneStep, newPeers, donePeers, banPeers, banned, adding, reported, serverQuit, bans>>
    /\ UNCHANGED Sync

\* On quit the listed peers are disconnected and the channels drained.
peerHandlerQuit ==
    /\ Idle /\ serverQuit' = TRUE
    /\ connected' = [p \in Peers |-> IF p \in AllPeers THEN "down" ELSE connected[p]]
    /\ newPeers' = <<>> /\ donePeers' = <<>>
    /\ UNCHANGED <<verAck, doneStep, banPeers, banned, adding, reported, bans>>
    /\ UNCHANGED Lists /\ UNCHANGED Sync

PeerHandler == handleAddPeerMsg \/ TellSyncNew \/ handleDonePeerMsg \/ handleBanPeerMsg

\* The sync manager's handleNewPeerMsg and handleDonePeerMsg.
SyncHandles ==
    LET msg == Head(syncChan)
    IN  /\ syncChan # <<>> /\ syncChan' = Tail(syncChan)
        /\ syncPeers' = IF msg.type = "new" THEN syncPeers \cup {msg.peer} ELSE syncPeers \ {msg.peer}
        /\ UNCHANGED <<connected, verAck, doneStep, newPeers, donePeers, banPeers, banned, adding, reported,
                       serverQuit, bans, announced, overtaken>>
        /\ UNCHANGED Lists

ServerNext ==
    \/ PeerHandler \/ SyncHandles \/ peerHandlerQuit
    \/ \E p \in Peers : \/ PeerConnected(p) \/ VerAckReceived(p) \/ AddPeer(p) \/ PeerDisconnects(p)
                        \/ PeerBanned(p) \/ peerDoneHandler(p) \/ TellSyncDone(p) \/ disconnectPeer(p)

(***************************************************************************)
(* Properties.                                                             *)
(***************************************************************************)
\* There are at most MaxPeers peers, and the count of a group, which keeps the
\* node from connecting to it twice, is the number of its outbound peers.
GroupsCounted ==
    /\ PeerCount <= MaxPeers
    /\ \A g \in Groups : outboundGroups[g] =
           Cardinality({p \in outboundPeers \cup persistentPeers : GroupOf[p] = g})

\* Nothing about the peer is on its way.
Settled(p) ==
    /\ doneStep[p] = "end" /\ verAck[p] # "received" /\ adding # p
    /\ p \notin Range(newPeers) \cup Range(donePeers) /\ \A i \in DOMAIN syncChan : syncChan[i].peer # p

\* In whatever order peerHandler hears that a peer came and went, it ends up in
\* no list, and for an outbound one the connection manager is told exactly once.
DoneIsForgotten ==
    ~serverQuit => \A p \in Peers :
        Settled(p) => p \notin AllPeers /\ reported[p] = IF p \in Outbound THEN 1 ELSE 0

\* The sync manager forgets a peer that is gone, unless its end overtook its
\* announcement.
SyncForgets == \A p \in Peers : Settled(p) => p \notin syncPeers \/ p \in overtaken

\* What the comment in peerDoneHandler says: the sync manager is told that a
\* peer is gone only if it was told that the peer existed.
ToldOnlyIfAnnounced == overtaken = {}

-----------------------------------------------------------------------------
(***************************************************************************)
(* How server.go announces inventory: the relayInv channel that            *)
(* peerHandler drains, the rebroadcastHandler that keeps the transactions  *)
(* of sendrawtransaction until a block has them, and the two goroutines    *)
(* that feed both, the sync manager's blockHandler and an RPC handler.     *)
(* peerHandler itself waits for blockHandler while it adds a peer          *)
(* (IsCurrent).                                                            *)
(***************************************************************************)

CONSTANTS
    RelayTxs,       \* transactions that clients or peers send
    RelayPeers,     \* connected peers
    Wants,          \* [RelayPeers -> set of transactions its filters let through]
    WantsHeaders,   \* the peers that asked for headers instead of inventory
    RelayCap,       \* capacity of relayInv
    MaxTimers,      \* bound on how often the rebroadcast timer fires
    MaxAdds         \* bound on the peers that are added

VARIABLES
    relayInv,       \* channel of inventory
    pendingInvs,    \* rebroadcastHandler: what it resends
    resending,      \* rebroadcastHandler: inventory of this timer not sent yet
    blockWork,      \* blockHandler: calls of the server it still has to make
    rpcStep,        \* [RelayTxs -> step of the RPC handler that submits it]
    inPool, mined,  \* transactions
    asking,         \* peerHandler waits for IsCurrent
    known,          \* [RelayPeers -> inventory queued for the peer]
    overtook,       \* transactions that a block had before they were added
    timers, adds

relayVars == <<relayInv, pendingInvs, resending, blockWork, rpcStep, inPool, mined, asking, known, overtook,
               timers, adds>>

BlockInv == "block"
Calls == [op : {"relay", "confirm"}, inv : RelayTxs \cup {BlockInv}]

RelayTypeOK ==
    /\ relayInv \in Seq(RelayTxs \cup {BlockInv}) /\ Len(relayInv) <= RelayCap
    /\ pendingInvs \subseteq RelayTxs /\ resending \subseteq RelayTxs /\ blockWork \in Seq(Calls)
    /\ rpcStep \in [RelayTxs -> {"none", "relay", "add", "end"}]
    /\ inPool \cup mined \cup overtook \subseteq RelayTxs /\ asking \in BOOLEAN
    /\ known \in [RelayPeers -> SUBSET (RelayTxs \cup {BlockInv, "headers"})]

RelayInit ==
    /\ relayInv = <<>> /\ pendingInvs = {} /\ resending = {} /\ blockWork = <<>>
    /\ rpcStep = [t \in RelayTxs |-> "none"]
    /\ inPool = {} /\ mined = {} /\ asking = FALSE /\ known = [p \in RelayPeers |-> {}]
    /\ overtook = {} /\ timers = 0 /\ adds = 0

CanRelay == Len(relayInv) < RelayCap

RelayInventory(inv) == CanRelay /\ relayInv' = Append(relayInv, inv)

(***************************************************************************)
(* handleSendRawTransaction: the pool takes it, it is relayed, then added  *)
(* to what is rebroadcast.                                                 *)
(***************************************************************************)
SendRawTransaction(t) ==
    /\ rpcStep[t] = "none" /\ t \notin inPool \cup mined
    /\ inPool' = inPool \cup {t} /\ rpcStep' = [rpcStep EXCEPT ![t] = "relay"]
    /\ UNCHANGED <<relayInv, pendingInvs, resending, blockWork, mined, asking, known, overtook, timers, adds>>

SendRawRelays(t) ==
    /\ rpcStep[t] = "relay" /\ RelayInventory(t) /\ rpcStep' = [rpcStep EXCEPT ![t] = "add"]
    /\ UNCHANGED <<pendingInvs, resending, blockWork, inPool, mined, asking, known, overtook, timers, adds>>

\* modifyRebroadcastInv is not buffered: rebroadcastHandler must be in its select.
TakesModify == resending = {}

AddRebroadcastInventory(t) ==
    /\ rpcStep[t] = "add" /\ TakesModify /\ rpcStep' = [rpcStep EXCEPT ![t] = "end"]
    /\ pendingInvs' = pendingInvs \cup {t}
    /\ UNCHANGED <<relayInv, resending, blockWork, inPool, mined, asking, known, overtook, timers, adds>>

(***************************************************************************)
(* rebroadcastHandler.                                                     *)
(***************************************************************************)
RebroadcastTimer ==
    /\ TakesModify /\ timers < MaxTimers /\ pendingInvs # {} /\ timers' = timers + 1
    /\ resending' = pendingInvs
    /\ UNCHANGED <<relayInv, pendingInvs, blockWork, rpcStep, inPool, mined, asking, known, overtook, adds>>

Rebroadcast(t) ==
    /\ t \in resending /\ RelayInventory(t) /\ resending' = resending \ {t}
    /\ UNCHANGED <<pendingInvs, blockWork, rpcStep, inPool, mined, asking, known, overtook, timers, adds>>

(***************************************************************************)
(* blockHandler of the sync manager.                                       *)
(***************************************************************************)
Call(op, inv) == [op |-> op, inv |-> inv]

\* handleTxMsg: AnnounceNewTransactions
TxFromPeer(t) ==
    /\ blockWork = <<>> /\ t \notin inPool \cup mined /\ inPool' = inPool \cup {t}
    /\ blockWork' = <<Call("relay", t)>>
    /\ UNCHANGED <<relayInv, pendingInvs, resending, rpcStep, mined, asking, known, overtook, timers, adds>>

\* handleBlockchainNotification: NTBlockAccepted, then NTBlockConnected.
Notifications(ts) == <<Call("relay", BlockInv)>> \o SetToSeq({Call("confirm", t) : t \in ts})

BlockFromPeer(ts) ==
    /\ blockWork = <<>> /\ ts # {} /\ ts \cap mined = {}
    /\ inPool' = inPool \ ts /\ mined' = mined \cup ts
    /\ overtook' = overtook \cup {t \in ts : rpcStep[t] \in {"relay", "add"}}
    /\ blockWork' = Notifications(ts)
    /\ UNCHANGED <<relayInv, pendingInvs, resending, rpcStep, asking, known, timers, adds>>

AnnounceNewTransactions ==
    /\ blockWork # <<>> /\ Head(blockWork).op = "relay" /\ RelayInventory(Head(blockWork).inv)
    /\ blockWork' = Tail(blockWork)
    /\ UNCHANGED <<pendingInvs, resending, rpcStep, inPool, mined, asking, known, overtook, timers, adds>>

TransactionConfirmed ==
    /\ blockWork # <<>> /\ Head(blockWork).op = "confirm" /\ TakesModify
    /\ pendingInvs' = pendingInvs \ {Head(blockWork).inv} /\ blockWork' = Tail(blockWork)
    /\ UNCHANGED <<relayInv, resending, rpcStep, inPool, mined, asking, known, overtook, timers, adds>>

IsCurrent ==
    /\ blockWork = <<>> /\ asking /\ asking' = FALSE
    /\ UNCHANGED <<relayInv, pendingInvs, resending, blockWork, rpcStep, inPool, mined, known, overtook,
                   timers, adds>>

(***************************************************************************)
(* peerHandler.                                                            *)
(***************************************************************************)
\* handleAddPeerMsg asks the sync manager whether it is current.
AddingPeer ==
    /\ ~asking /\ adds < MaxAdds /\ adds' = adds + 1 /\ asking' = TRUE
    /\ UNCHANGED <<relayInv, pendingInvs, resending, blockWork, rpcStep, inPool, mined, known, overtook, timers>>

\* What a peer is sent for an inventory: its header, nothing or the inventory.
Relayed(p, inv) ==
    IF inv = BlockInv THEN IF p \in WantsHeaders THEN {"headers"} ELSE {BlockInv}
    ELSE {inv} \cap Wants[p]

handleRelayInvMsg ==
    /\ ~asking /\ relayInv # <<>> /\ relayInv' = Tail(relayInv)
    /\ known' = [p \in RelayPeers |-> known[p] \cup Relayed(p, Head(relayInv))]
    /\ UNCHANGED <<pendingInvs, resending, blockWork, rpcStep, inPool, mined, asking, overtook, timers, adds>>

BlockHandlerCalls == AnnounceNewTransactions \/ TransactionConfirmed \/ IsCurrent
Rebroadcasts == \E t \in RelayTxs : Rebroadcast(t)
RpcSteps(t) == SendRawRelays(t) \/ AddRebroadcastInventory(t)

RelayNext ==
    \/ \E t \in RelayTxs : SendRawTransaction(t) \/ RpcSteps(t) \/ TxFromPeer(t)
    \/ \E ts \in SUBSET RelayTxs : BlockFromPeer(ts)
    \/ RebroadcastTimer \/ Rebroadcasts \/ BlockHandlerCalls
    \/ AddingPeer \/ handleRelayInvMsg

\* Every goroutine that can go on does.
RelayFairness ==
    /\ WF_relayVars(BlockHandlerCalls) /\ WF_relayVars(Rebroadcasts) /\ WF_relayVars(handleRelayInvMsg)
    /\ \A t \in RelayTxs : WF_relayVars(RpcSteps(t))

(***************************************************************************)
(* Properties.                                                             *)
(***************************************************************************)
\* A transaction that a block has is not rebroadcast any more once the notes of
\* the block are handled, if its submission was over when the block came.
ConfirmedIsForgotten == blockWork = <<>> => pendingInvs \cap mined \subseteq overtook

\* What AddRebroadcastInventory says: a transaction is rebroadcast until it
\* shows up in a block.
RebroadcastUntilMined ==
    (blockWork = <<>> /\ \A t \in RelayTxs : rpcStep[t] \in {"none", "end"}) => pendingInvs \cap mined = {}

\* A transaction in the pool has been relayed to every peer that wants it,
\* whatever was submitted, mined or rebroadcast at the same time.
PoolIsAnnounced ==
    (blockWork = <<>> /\ relayInv = <<>>) =>
        \A t \in inPool : rpcStep[t] # "relay" => \A p \in RelayPeers : t \in Wants[p] => t \in known[p]

RelayFull == Len(relayInv) = RelayCap

\* peerHandler gets its answer from the sync manager and the submitted
\* transactions are handed over, unless relayInv is full: then blockHandler,
\* rebroadcastHandler and peerHandler may wait for each other.
WaitsEnd ==
    /\ asking ~> (~asking \/ RelayFull)
    /\ \A t \in RelayTxs : (rpcStep[t] = "add") ~> (rpcStep[t] = "end" \/ RelayFull)
=============================================================================
