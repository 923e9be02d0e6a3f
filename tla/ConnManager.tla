----------------------------- MODULE ConnManager -----------------------------
(***************************************************************************)
(* connmgr: the connection requests of a node, the goroutines that dial    *)
(* and retry them, and the server's side of an outbound connection: the    *)
(* peer that is made for it, what happens when that peer is done, and the  *)
(* P2PDowngrader that makes the next attempt use the v1 transport.         *)
(*                                                                         *)
(* A goroutine, or a timer that will start one, is a record in todo: what  *)
(* it does next and for which request.  What connHandler does on one       *)
(* message is one step with the goroutine that sends it, since the channel *)
(* has no buffer.  How long a retry waits is not modelled.                 *)
(***************************************************************************)
EXTENDS Integers, Sequences, FiniteSets, Bags, SequencesExt

CONSTANTS
    Addrs,      \* what GetNewAddress can find
    V1Only,     \* addresses of nodes that do not speak the v2 transport
    Plans       \* configurations, with bounds on what is done to them: see PlanOK

VARIABLES
    requests,       \* <<[addr, permanent, state], ...>>, the index is the id
    pending, conns, \* the maps of connHandler, as sets of ids
    todo,           \* bag of goroutines
    downgrade,      \* the cache of the P2PDowngrader, oldest first
    started, stop,
    faults, calls,
    unwanted,       \* addresses whose persistent peer was removed
    plan

connVars == <<requests, pending, conns, todo, downgrade, started, stop, faults, calls, unwanted, plan>>

PlanOK(p) ==
    /\ DOMAIN p = {"target", "permanent", "library", "faults", "calls"}
    /\ p.target \in Nat \ {0}     \* TargetOutbound
    /\ p.library \in BOOLEAN      \* connmgr used by itself: Remove is called at any time
    /\ p.faults \in Nat           \* bound on failed attempts and lost connections
    /\ p.calls \in Nat            \* bound on RPC requests, or on calls of Remove
ConnAssumption == \A p \in Plans : PlanOK(p)

TargetOutbound == plan.target
PermanentAddrs == plan.permanent    \* the configured persistent peers
library == plan.library
MaxFaults == plan.faults
MaxCalls == plan.calls

Ids == DOMAIN requests
AnyAddr == Addrs \cup PermanentAddrs
NoAddr == "none"
NoId == 0

Go(do, id) == [do |-> do, id |-> id, addr |-> NoAddr, permanent |-> FALSE, v2 |-> FALSE]
GoConnect(addr, permanent) == [Go("connect", NoId) EXCEPT !.addr = addr, !.permanent = permanent]
GoPeer(id, v2) == [Go("peer", id) EXCEPT !.v2 = v2]

One(t) == SetToBag({t})
Doing(what) == {t \in BagToSet(todo) : t.do = what}

\* A goroutine goes on as the given others, or ends.
Continues(t, as) == todo' = (todo (-) One(t)) (+) as

ConnTypeOK ==
    /\ \A i \in Ids : /\ requests[i].addr \in AnyAddr \cup {NoAddr} /\ requests[i].permanent \in BOOLEAN
                      /\ requests[i].state \in {"pending", "failing", "canceled", "established", "disconnected"}
    /\ pending \subseteq Ids /\ conns \subseteq Ids \ pending /\ IsABag(todo)
    /\ Range(downgrade) \subseteq AnyAddr /\ faults \in 0..MaxFaults /\ calls \in 0..MaxCalls

\* newServer starts a goroutine for every persistent peer.
ConnInit ==
    /\ plan \in Plans
    /\ requests = <<>> /\ pending = {} /\ conns = {}
    /\ todo = SetToBag({GoConnect(a, TRUE) : a \in PermanentAddrs})
    /\ downgrade = <<>> /\ started = FALSE /\ stop = FALSE /\ faults = 0 /\ calls = 0
    /\ unwanted = {}

\* Start makes as many requests as the target, less those made already.
StartConn ==
    LET new == TargetOutbound - Len(requests)
    IN  /\ ~started /\ started' = TRUE
        /\ todo' = IF new > 0 THEN todo (+) [t \in {Go("new", NoId)} |-> new] ELSE todo
        /\ UNCHANGED <<requests, pending, conns, downgrade, stop, faults, calls, unwanted, plan>>

StopConn ==
    /\ started /\ ~stop /\ stop' = TRUE /\ todo' = EmptyBag
    /\ UNCHANGED <<requests, pending, conns, downgrade, started, faults, calls, unwanted, plan>>

(***************************************************************************)
(* The goroutines up to the dialled connection.                            *)
(***************************************************************************)
Rest == <<conns, downgrade, started, stop, calls, unwanted, plan>>

registerPending(addr, permanent) ==
    /\ requests' = Append(requests, [addr |-> addr, permanent |-> permanent, state |-> "pending"])
    /\ pending' = pending \cup {Len(requests) + 1}

\* Connect of a request without an id; it can get one before Start.
ConnectNew(t) ==
    /\ t.do = "connect"
    /\ registerPending(t.addr, t.permanent) /\ Continues(t, One(Go("dial", Len(requests) + 1)))
    /\ UNCHANGED Rest /\ UNCHANGED faults

NewConnReq(t) ==
    /\ t.do = "new" /\ started
    /\ registerPending(NoAddr, FALSE) /\ Continues(t, One(Go("address", Len(requests) + 1)))
    /\ UNCHANGED Rest /\ UNCHANGED faults

GetNewAddress(t) ==
    /\ t.do = "address"
    /\ \E a \in Addrs : requests' = [requests EXCEPT ![t.id].addr = a]
    /\ Continues(t, One(Go("dial", t.id)))
    /\ UNCHANGED Rest /\ UNCHANGED <<pending, faults>>

Canceled(id) == requests[id].state = "canceled"

Connect(t) ==
    /\ t.do = "dial" /\ started
    /\ Continues(t, IF Canceled(t.id) THEN EmptyBag ELSE One(Go("connected", t.id)))
    /\ UNCHANGED Rest /\ UNCHANGED <<requests, pending, faults>>

\* No address is found, or dialling fails.
ConnectFails(t) ==
    /\ t.do \in {"address", "dial"} /\ started /\ ~Canceled(t.id)
    /\ faults < MaxFaults /\ faults' = faults + 1
    /\ Continues(t, One(Go("failed", t.id)))
    /\ UNCHANGED Rest /\ UNCHANGED <<requests, pending>>

(***************************************************************************)
(* connHandler.                                                            *)
(***************************************************************************)
SetState(id, s) == requests' = [requests EXCEPT ![id].state = s]

\* Seeded fault: a connection is taken although the request was canceled.
StillPending_always(id) == TRUE

StillPending(id) == id \in pending

handleConnected(t) ==
    /\ t.do = "connected"
    /\ IF StillPending(t.id)
       THEN /\ SetState(t.id, "established")
            /\ conns' = conns \cup {t.id} /\ pending' = pending \ {t.id}
            /\ Continues(t, One(Go("onConnection", t.id)))
       ELSE Continues(t, EmptyBag) /\ UNCHANGED <<requests, pending, conns>>
    /\ UNCHANGED <<downgrade, started, stop, faults, calls, unwanted, plan>>

\* Seeded fault: a failed automatic request is given up.
handleFailedConn_drops(id, triggerReconnect) ==
    IF requests[id].permanent \/ triggerReconnect THEN One(Go("dial", id)) ELSE EmptyBag

\* The goroutine or the timer that handleFailedConn starts.
handleFailedConn(id, triggerReconnect) ==
    IF requests[id].permanent \/ triggerReconnect THEN One(Go("dial", id)) ELSE One(Go("replace", id))

handleFailed(t) ==
    /\ t.do = "failed"
    /\ IF StillPending(t.id)
       THEN SetState(t.id, "failing") /\ Continues(t, handleFailedConn(t.id, FALSE))
       ELSE Continues(t, EmptyBag) /\ UNCHANGED requests
    /\ UNCHANGED <<pending, conns, downgrade, started, stop, faults, calls, unwanted, plan>>

Reconnects(id, others) == Cardinality(others) < TargetOutbound \/ requests[id].permanent

\* handleDisconnected; next is what the sender does afterwards.
handleDisconnected(t, retry, triggerReconnect, next) ==
    LET others == conns \ {t.id}
    IN  IF t.id \in conns
        THEN /\ conns' = others
             /\ IF ~retry
                THEN SetState(t.id, "disconnected") /\ Continues(t, next) /\ UNCHANGED pending
                ELSE IF Reconnects(t.id, others)
                THEN /\ SetState(t.id, "pending") /\ pending' = pending \cup {t.id}
                     /\ Continues(t, next (+) handleFailedConn(t.id, triggerReconnect))
                ELSE Continues(t, next) /\ UNCHANGED <<requests, pending>>
        ELSE /\ UNCHANGED conns /\ Continues(t, next)
             /\ IF t.id \in pending
                THEN SetState(t.id, "canceled") /\ pending' = pending \ {t.id}
                ELSE UNCHANGED <<requests, pending>>

Handled == <<downgrade, started, stop, faults, calls, unwanted, plan>>

Disconnect(t) ==
    /\ t.do = "disconnect" /\ handleDisconnected(t, TRUE, FALSE, EmptyBag) /\ UNCHANGED Handled
DisconnectTriggerReconnect(t) ==
    /\ t.do = "reconnect" /\ handleDisconnected(t, TRUE, TRUE, EmptyBag) /\ UNCHANGED Handled
\* Remove, by a caller that asks for a new request next or by one that does not.
RemoveAndNew(t) ==
    /\ t.do = "replace" /\ handleDisconnected(t, FALSE, FALSE, One(Go("new", NoId))) /\ UNCHANGED Handled
RemoveOnly(t) ==
    /\ t.do = "remove" /\ handleDisconnected(t, FALSE, FALSE, EmptyBag) /\ UNCHANGED Handled

(***************************************************************************)
(* The server.                                                             *)
(***************************************************************************)
Unchanged == <<requests, pending, conns, started, stop>>

\* ShouldDowngrade takes the address out of the cache.
outboundPeerConnected(t) ==
    LET addr == requests[t.id].addr
        forced == addr \in Range(downgrade)
    IN  /\ t.do = "onConnection"
        /\ Continues(t, IF library THEN EmptyBag ELSE One(GoPeer(t.id, ~forced)))
        /\ downgrade' = IF forced /\ ~library THEN Remove(downgrade, addr) ELSE downgrade
        /\ UNCHANGED Unchanged /\ UNCHANGED <<faults, calls, unwanted, plan>>

MarkForDowngrade(cache, addr) ==
    LET all == Append(SelectSeq(cache, LAMBDA a : a # addr), addr)
    IN  IF Len(all) > TargetOutbound + 1 THEN Tail(all) ELSE all

\* peerDoneHandler and handleDonePeerMsg, for a peer that is done because the
\* other side does not speak v2 or because the connection is lost.
handleDonePeerMsg(t, downgraded) ==
    LET addr == requests[t.id].addr
    IN  /\ downgrade' = IF downgraded THEN MarkForDowngrade(downgrade, addr) ELSE downgrade
        /\ Continues(t, One(Go(CASE requests[t.id].permanent -> "disconnect"
                                 [] ~requests[t.id].permanent /\ downgraded -> "reconnect"
                                 [] OTHER -> "replace", t.id)))
        /\ UNCHANGED Unchanged

PeerNeedsV1(t) == t.v2 /\ requests[t.id].addr \in V1Only

PeerDowngrades(t) ==
    /\ t.do = "peer" /\ PeerNeedsV1(t) /\ handleDonePeerMsg(t, TRUE)
    /\ UNCHANGED <<faults, calls, unwanted, plan>>

PeerLost(t) ==
    /\ t.do = "peer" /\ ~PeerNeedsV1(t) /\ faults < MaxFaults /\ faults' = faults + 1
    /\ handleDonePeerMsg(t, FALSE)
    /\ UNCHANGED <<calls, unwanted, plan>>

Called == calls < MaxCalls /\ calls' = calls + 1

HasPersistentPeer(addr) == \E t \in Doing("peer") : requests[t.id].permanent /\ requests[t.id].addr = addr

\* The RPC commands addnode and node: connectNodeMsg and removeNodeMsg.
connectNodeMsg(addr, permanent) ==
    /\ ~library /\ started /\ ~stop /\ Called /\ ~HasPersistentPeer(addr)
    /\ todo' = todo (+) One(GoConnect(addr, permanent))
    /\ unwanted' = IF permanent THEN unwanted \ {addr} ELSE unwanted
    /\ UNCHANGED Unchanged /\ UNCHANGED <<downgrade, faults, plan>>

removeNodeMsg(t) ==
    /\ ~library /\ Called
    /\ t.do = "peer" /\ requests[t.id].permanent /\ ~PeerNeedsV1(t)
    /\ unwanted' = unwanted \cup {requests[t.id].addr}
    /\ handleDonePeerMsg(t, FALSE) /\ UNCHANGED <<faults, plan>>

\* Another user of connmgr calls Remove for a request that may not have
\* succeeded yet.
RemoveCalled(id) ==
    /\ library /\ Called /\ ~stop
    /\ todo' = todo (+) One(Go("remove", id))
    /\ UNCHANGED Unchanged /\ UNCHANGED <<downgrade, faults, unwanted, plan>>

ConnWork(t) ==
    \/ ConnectNew(t) \/ NewConnReq(t) \/ GetNewAddress(t) \/ Connect(t)
    \/ handleConnected(t) \/ handleFailed(t)
    \/ Disconnect(t) \/ DisconnectTriggerReconnect(t) \/ RemoveAndNew(t) \/ RemoveOnly(t)
    \/ outboundPeerConnected(t) \/ PeerDowngrades(t)

ConnWorks == \E t \in BagToSet(todo) : ConnWork(t)

ConnNext ==
    \/ StartConn \/ StopConn \/ ConnWorks
    \/ \E t \in BagToSet(todo) : ConnectFails(t) \/ PeerLost(t) \/ removeNodeMsg(t)
    \/ \E a \in AnyAddr, permanent \in BOOLEAN : connectNodeMsg(a, permanent)
    \/ \E id \in Ids : RemoveCalled(id)

\* Goroutines run and timers fire.
ConnFairness == WF_connVars(StartConn) /\ WF_connVars(ConnWorks)

(***************************************************************************)
(* Properties.                                                             *)
(***************************************************************************)
StaysCanceled == \A id \in Ids : Canceled(id) => requests'[id].state = "canceled"

\* A request that was removed while it was pending is never connected.
CanceledStaysCanceled == [][StaysCanceled]_connVars

Usable(id) == id \in conns /\ \E t \in Doing("peer") : t.id = id /\ ~PeerNeedsV1(t)
TargetMet == library \/ stop \/ Cardinality({id \in Ids : Usable(id)}) >= TargetOutbound
PersistentMet ==
    \/ library \/ stop
    \/ \A a \in PermanentAddrs \ unwanted : \E id \in Ids : Usable(id) /\ requests[id].addr = a

\* Once attempts no longer fail, the node has its connections: as many as the
\* target, on the transport that the other node speaks.
TargetReached == <>[]TargetMet

\* A persistent peer is connected again and again until it works.
PersistentReached == <>[]PersistentMet

\* What the help of addnode says of remove: it removes a persistent peer, so
\* the node does not connect to it as one again.
RemovedStaysAway ==
    [][\A id \in conns' \ conns : requests[id].permanent => requests[id].addr \notin unwanted]_connVars
=============================================================================
