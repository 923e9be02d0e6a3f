----------------------------- MODULE WsManager ------------------------------
(***************************************************************************)
(* The websocket notification manager of the RPC server (rpcwebsocket.go): *)
(* the queue of events and registrations, the goroutine that handles them, *)
(* and the clients' requests that register for notifications; rescans; and *)
(* the goroutines that serve one client.                                   *)
(***************************************************************************)
EXTENDS Integers, Sequences, FiniteSets, SequencesExt

CONSTANTS
  Clients,
  Txs, Spends, Pays,  \* the outputs <<tx, index>> a transaction spends; for each of its
                      \* outputs, the addresses of the script
  Stories,            \* records: asks, the requests each client makes, in order; events,
                      \* what the pool and the chain do, in order; leaves, the clients that
                      \* may disconnect; stops, whether the server may be stopped
  MaxWebsockets       \* RPCMaxWebsockets

VARIABLES
  stage,   \* client -> where its WebsocketHandler is
  open,    \* the clients that are not disconnected
  asked,   \* the requests whose goroutine has yet to act: c, ask, at
  q,       \* the queue of queueHandler
  quit,
  reg,     \* the maps of notificationHandler, as relations: clients, blocks, txs,
           \* ops (watchedOutPoints), addrs (watchedAddrs); and spent, wants, the clients'
           \* spentRequests and addrRequests
  filter,  \* client -> filterData; mu is whether its lock is held
  dead,    \* the process has ended: a lock was released that nobody held
  pool, blocksUp,     \* the memory pool; the blocks connected
  told,    \* the notifications queued: <<client, kind, tx, block>>
  story,   \* what of the story is still to come
  log      \* the items handled, block by block and transaction by transaction
managerVars == <<stage, open, asked, q, quit, reg, filter, dead, pool, blocksUp, told, story, log>>

None == <<>>
NoFilter == [loaded |-> FALSE, mu |-> FALSE, addrs |-> {}, unspent |-> {}]
Outs(t) == {<<t, i>> : i \in DOMAIN Pays[t]}
Paid(op) == Pays[op[1]][op[2]]

-----------------------------------------------------------------------------
(* Spent and address requests.                                               *)

\* notifyForTxIns: every client that watches an output the transaction spends is told
\* once, and watches it no more once the spend is in a block.
Watching(r, t) == {w \in r.ops : w[1] \in Spends[t]}
notifyForTxIns(r, t, block) ==
  [reg |-> IF block = None THEN r
           ELSE [r EXCEPT !.ops = @ \ Watching(r, t), !.spent = @ \ Watching(r, t)],
   told |-> {<<w[2], "redeeming", t, block>> : w \in Watching(r, t)}]

\* addSpentRequests, for pairs of output and client: a spend the pool has already is told.
addSpentRequests(r, pairs) ==
  LET after == [r EXCEPT !.ops = @ \cup pairs, !.spent = @ \cup pairs]
      found == {t \in pool : \E w \in pairs : w[1] \in Spends[t]}
  IN  [reg |-> after, told |-> UNION {notifyForTxIns(after, t, None).told : t \in found}]
removeSpentRequest(r, pairs) == [r EXCEPT !.ops = @ \ pairs, !.spent = @ \ pairs]
addAddrRequests(r, pairs) == [r EXCEPT !.addrs = @ \cup pairs, !.wants = @ \cup pairs]
removeAddrRequest(r, pairs) == [r EXCEPT !.addrs = @ \ pairs, !.wants = @ \ pairs]

\* notifyForTxOuts: a client that watches an address is told of the payment, and from
\* then on watches the output.
notifyForTxOuts(r, t, block) ==
  LET pairs == {<<op, c>> \in Outs(t) \X Clients : \E a \in Paid(op) : <<a, c>> \in r.addrs}
      added == addSpentRequests(r, pairs)
  IN  [reg |-> added.reg, told |-> added.told \cup {<<w[2], "recv", t, block>> : w \in pairs}]

notifyForTx(r, t, block) ==
  LET ins == notifyForTxIns(r, t, block)
      outs == notifyForTxOuts(ins.reg, t, block)
  IN  [reg |-> outs.reg, told |-> ins.told \cup outs.told]

-----------------------------------------------------------------------------
(* Transaction filters.                                                      *)

\* subscribedClients: those whose filter has an output the transaction spends or an
\* address it pays; the outputs that pay are added to the filter.
FilterHits(f, t) == {op \in Outs(t) : Paid(op) \cap f.addrs # {}}
Subscribed(f, t) == f.loaded /\ (Spends[t] \cap f.unspent # {} \/ FilterHits(f, t) # {})
Learns(f, t) == IF f.loaded THEN [f EXCEPT !.unspent = @ \cup FilterHits(f, t)] ELSE f
subscribedClients(fs, t, among) ==
  [hit |-> {c \in among : Subscribed(fs[c], t)},
   filter |-> [c \in Clients |-> IF c \in among THEN Learns(fs[c], t) ELSE fs[c]]]

-----------------------------------------------------------------------------
(* notificationHandler.                                                      *)

Item(what, c, data) == [what |-> what, c |-> c, data |-> data]
Nobody == CHOOSE c \in Clients : TRUE

\* What a connected client is told; QueueNotification refuses the others.
Tell(news) == told' = told \cup {n \in news : n[1] \in open}

\* One transaction of a block: spent and address requests, then the filters of the
\* clients registered for blocks.
InBlock(s, t) ==
  LET block == s.block
      watch == notifyForTx(s.reg, t, block)
      subs == subscribedClients(s.filter, t, s.reg.blocks)
  IN  [block |-> block, reg |-> watch.reg, filter |-> subs.filter,
       told |-> s.told \cup watch.told \cup {<<c, "filtered", t, block>> : c \in subs.hit}]
Note(items) == log' = log \o items

notifyBlockConnected(b) ==
  \E s \in {FoldLeft(InBlock, [block |-> b, reg |-> reg, filter |-> filter, told |-> {}], b)} :
    /\ reg' = s.reg /\ filter' = s.filter
    /\ Tell(s.told \cup {<<c, "connected", b, b>> : c \in reg.blocks})
    /\ Note([k \in DOMAIN b |-> Item("mined", Nobody, <<b[k], b>>)])
notifyBlockDisconnected(b) ==
  /\ Tell({<<c, "disconnected", b, b>> : c \in reg.blocks})
  /\ UNCHANGED <<reg, filter, log>>
TxAccepted(t) ==
  \E watch \in {notifyForTx(reg, t, None)} : \E subs \in {subscribedClients(filter, t, reg.clients)} :
    /\ reg' = watch.reg /\ filter' = subs.filter
    /\ Tell(watch.told \cup {<<c, "new", t, None>> : c \in reg.txs}
                       \cup {<<c, "relevant", t, None>> : c \in subs.hit})
    /\ Note(<<Item("tx", Nobody, <<t, None>>)>>)

Without(c) ==
  [reg EXCEPT !.clients = @ \ {c}, !.blocks = @ \ {c}, !.txs = @ \ {c},
              !.ops = @ \ {w \in reg.spent : w[2] = c},
              !.spent = {w \in @ : w[2] # c},
              !.addrs = @ \ {w \in reg.wants : w[2] = c}, !.wants = {w \in @ : w[2] # c}]

Pairs(S, c) == {<<x, c>> : x \in S}
Registration(i) ==
  /\ UNCHANGED filter
  /\ Note(<<i>>)
  /\ IF i.what = "spent"
     THEN \E s \in {addSpentRequests(reg, Pairs(i.data, i.c))} : reg' = s.reg /\ Tell(s.told)
     ELSE /\ reg' = CASE i.what = "add" -> [reg EXCEPT !.clients = @ \cup {i.c}]
                      [] i.what = "remove" -> Without(i.c)
                      [] i.what = "blocks" -> [reg EXCEPT !.blocks = @ \cup {i.c}]
                      [] i.what = "stop blocks" -> [reg EXCEPT !.blocks = @ \ {i.c}]
                      [] i.what = "txs" -> [reg EXCEPT !.txs = @ \cup {i.c}]
                      [] i.what = "stop txs" -> [reg EXCEPT !.txs = @ \ {i.c}]
                      [] i.what = "stop spent" -> removeSpentRequest(reg, Pairs(i.data, i.c))
                      [] i.what = "addrs" -> addAddrRequests(reg, Pairs(i.data, i.c))
                      [] i.what = "stop addrs" -> removeAddrRequest(reg, Pairs(i.data, i.c))
          /\ UNCHANGED told

Events == {"mined", "unmined", "tx"}
\* The filters are read under their locks.
Unlocked == \A c \in reg.clients : ~filter[c].mu
notificationHandler ==
  /\ ~quit /\ q # <<>> /\ (Head(q).what \in Events => Unlocked)
  /\ q' = Tail(q)
  /\ LET i == Head(q)
     IN  \/ i.what = "mined" /\ notifyBlockConnected(i.data)
         \/ i.what = "unmined" /\ notifyBlockDisconnected(i.data)
         \/ i.what = "tx" /\ TxAccepted(i.data)
         \/ i.what \notin Events /\ Registration(i)
  /\ UNCHANGED <<stage, open, asked, quit, dead, pool, blocksUp, story>>

\* The handlers end and the clients they know are disconnected; what is queued is dropped.
Shutdown ==
  /\ story.stops /\ ~quit /\ quit' = TRUE
  /\ open' = open \ reg.clients
  /\ q' = <<>>
  /\ UNCHANGED <<stage, asked, reg, filter, dead, pool, blocksUp, told, story, log>>

-----------------------------------------------------------------------------
(* WebsocketHandler, for one connection.                                     *)

NumClients == IF quit THEN 0 ELSE Cardinality(reg.clients)
\* The queue takes whatever is offered, until it has been told to stop.
Enqueue(i) == ~quit /\ q' = Append(q, i)

At(c, from, to) == stage[c] = from /\ stage' = [stage EXCEPT ![c] = to]
WebsocketHandler(c) ==
  /\ \/ /\ At(c, "new", IF NumClients + 1 > MaxWebsockets THEN "refused" ELSE "counted")
        /\ UNCHANGED <<open, q>>
     \/ /\ At(c, "counted", "served")  \* AddClient, Start
        /\ Enqueue(Item("add", c, {}))
        /\ open' = open \cup {c}
     \/ /\ stage[c] = "served" /\ c \notin open  \* WaitForShutdown, RemoveClient
        /\ At(c, "served", "over")
        /\ (Enqueue(Item("remove", c, {})) \/ (quit /\ UNCHANGED q))
        /\ UNCHANGED open
  /\ UNCHANGED <<asked, quit, reg, filter, dead, pool, blocksUp, told, story, log>>
Leave(c) ==  \* external: the client disconnects
  /\ c \in open /\ c \in story.leaves /\ open' = open \ {c}
  /\ UNCHANGED <<stage, asked, q, quit, reg, filter, dead, pool, blocksUp, told, story, log>>

-----------------------------------------------------------------------------
(* Requests.  Each is serviced by a goroutine of its own, which nobody waits *)
(* for when the client goes.                                                 *)

Ask(c) ==
  /\ stage[c] = "served" /\ c \in open /\ story.asks[c] # <<>>
  /\ asked' = asked \cup {[c |-> c, ask |-> Head(story.asks[c]), at |-> "start"]}
  /\ story' = [story EXCEPT !.asks[c] = Tail(@)]
  /\ UNCHANGED <<stage, open, q, quit, reg, filter, dead, pool, blocksUp, told, log>>

\* handleNotifyBlocks and its like hand the registration over, without looking at quit.
Register(a) ==
  /\ a.ask.what \notin {"load", "reload"}
  /\ Enqueue(Item(a.ask.what, a.c, a.ask.data))
  /\ asked' = asked \ {a}
  /\ UNCHANGED <<filter, dead, log>>

\* A filter is made, or the addresses are added to the one there is: the filter that is
\* locked, the one that is changed and the one that is unlocked are each looked up anew.
handleLoadTxFilter(a) ==
  /\ a.ask.what \in {"load", "reload"}
  /\ LET f == filter[a.c]
         Be(g) == filter' = [filter EXCEPT ![a.c] = g]
     IN  \/ /\ a.at = "start" /\ (a.ask.what = "reload" \/ ~f.loaded)
            /\ Be([loaded |-> TRUE, mu |-> FALSE, addrs |-> a.ask.data, unspent |-> {}])
            /\ asked' = asked \ {a}
            /\ Note(<<Item("reload", a.c, a.ask.data)>>)
            /\ UNCHANGED dead
         \/ /\ a.at = "start" /\ a.ask.what = "load" /\ f.loaded /\ ~f.mu
            /\ Be([f EXCEPT !.mu = TRUE])
            /\ asked' = (asked \ {a}) \cup {[a EXCEPT !.at = "locked"]}
            /\ UNCHANGED <<dead, log>>
         \/ /\ a.at = "locked"
            /\ Be([f EXCEPT !.mu = FALSE, !.addrs = @ \cup a.ask.data])
            /\ dead' = ~f.mu
            /\ asked' = asked \ {a}
            /\ Note(<<Item("load", a.c, a.ask.data)>>)
  /\ UNCHANGED q
Act(a) ==
  /\ Register(a) \/ handleLoadTxFilter(a)
  /\ UNCHANGED <<stage, open, quit, reg, pool, blocksUp, told, story>>

-----------------------------------------------------------------------------
(* Events, external: the pool accepts a transaction, the chain changes.  The *)
(* callers look at quit while they wait for the queue.                       *)

NotifyEvent(i) == Enqueue(i) \/ (quit /\ UNCHANGED q)
Mined(t) == \E k \in DOMAIN blocksUp : Contains(blocksUp[k], t)
Ready(t) == \A op \in Spends[t] : op[1] \in Txs => op[1] \in pool \/ Mined(op[1])
Accept(t) ==
  /\ t \notin pool /\ ~Mined(t) /\ Ready(t)
  /\ pool' = pool \cup {t}
  /\ NotifyEvent(Item("tx", Nobody, t))
  /\ UNCHANGED blocksUp
ConnectBlock(b) ==
  /\ \A k \in DOMAIN b : ~Mined(b[k]) /\
       \A op \in Spends[b[k]] : op[1] \in Txs => Mined(op[1]) \/ \E j \in 1..(k - 1) : b[j] = op[1]
  /\ blocksUp' = Append(blocksUp, b)
  /\ pool' = pool \ {b[k] : k \in DOMAIN b}
  /\ NotifyEvent(Item("mined", Nobody, b))
DisconnectBlock ==
  /\ blocksUp # <<>>
  /\ blocksUp' = Front(blocksUp)
  /\ pool' = pool \cup Range(Last(blocksUp))
  /\ NotifyEvent(Item("unmined", Nobody, Last(blocksUp)))
Happen ==
  /\ story.events # <<>>
  /\ story' = [story EXCEPT !.events = Tail(@)]
  /\ LET e == Head(story.events)
     IN  \/ e.what = "tx" /\ Accept(e.of)
         \/ e.what = "mined" /\ ConnectBlock(e.of)
         \/ e.what = "unmined" /\ DisconnectBlock
  /\ UNCHANGED <<stage, open, asked, quit, reg, filter, dead, told, log>>

ManagerInit ==
  /\ stage = [c \in Clients |-> "new"] /\ open = {} /\ asked = {} /\ q = <<>> /\ quit = FALSE
  /\ reg = [clients |-> {}, blocks |-> {}, txs |-> {}, ops |-> {}, addrs |-> {}, spent |-> {},
            wants |-> {}]
  /\ filter = [c \in Clients |-> NoFilter] /\ dead = FALSE
  /\ pool = {} /\ blocksUp = <<>> /\ told = {} /\ log = <<>>
  /\ story \in Stories
ManagerNext ==
  /\ ~dead
  /\ \/ notificationHandler \/ Shutdown \/ Happen
     \/ \E c \in Clients : WebsocketHandler(c) \/ Leave(c) \/ Ask(c)
     \/ \E a \in asked : Act(a)

-----------------------------------------------------------------------------
(* Correctness.                                                              *)

ManagerTypeOK ==
  /\ stage \in [Clients -> {"new", "refused", "counted", "served", "over"}]
  /\ open \subseteq Clients /\ pool \subseteq Txs /\ quit \in BOOLEAN /\ dead \in BOOLEAN
  /\ reg.clients \subseteq Clients /\ reg.blocks \subseteq Clients /\ reg.txs \subseteq Clients
  /\ \A c \in Clients : filter[c].mu => filter[c].loaded
  /\ \A n \in told : n[1] \in Clients

\* The transactions handled, at position k of the log.
Handles(k, t) == log[k].what \in {"tx", "mined"} /\ log[k].data[1] = t
Says(k, what, c) == log[k].what = what /\ log[k].c = c
\* Client c has asked for address a before position k and has not taken it back.
WantsAt(c, a, k) ==
  \E i \in 1..(k - 1) :
    /\ Says(i, "addrs", c) /\ a \in log[i].data
    /\ \A j \in (i + 1)..(k - 1) : ~Says(j, "remove", c) /\ ~(Says(j, "stop addrs", c) /\ a \in log[j].data)
PayingAt(c, t, k) == \E op \in Outs(t) : \E a \in Paid(op) : WantsAt(c, a, k)
\* Client c watches output op at position k: it asked to, or was told of the payment, and
\* nothing before k has ended that.
WatchesAt(c, op, k) ==
  \E i \in 1..(k - 1) :
    /\ \/ Says(i, "spent", c) /\ op \in log[i].data
       \/ Handles(i, op[1]) /\ \E a \in Paid(op) : WantsAt(c, a, i)
    /\ \A j \in (i + 1)..(k - 1) :
         /\ ~Says(j, "remove", c) /\ ~(Says(j, "stop spent", c) /\ op \in log[j].data)
         /\ ~(log[j].what = "mined" /\ op \in Spends[log[j].data[1]])

\* A client is told of every payment to an address it has asked for and of every spend of
\* an output it watches, those of payments it was told of included, whatever the other
\* clients ask for meanwhile (notifyForTx and the maps it shares between clients).
WatchersTold ==
  \A k \in DOMAIN log, c \in open :
    log[k].what \in {"tx", "mined"} =>
      LET t == log[k].data[1]
      IN  /\ PayingAt(c, t, k) => <<c, "recv", t, log[k].data[2]>> \in told
          /\ (\E op \in Spends[t] : WatchesAt(c, op, k)) =>
                 <<c, "redeeming", t, log[k].data[2]>> \in told

LoadedAt(c, a, k) ==
  \E i \in 1..(k - 1) :
    /\ (Says(i, "load", c) \/ Says(i, "reload", c)) /\ a \in log[i].data
    /\ \A j \in (i + 1)..(k - 1) : ~Says(j, "reload", c)
ServedFrom(c, i) ==
  \E j \in 1..(i - 1) : Says(j, "add", c) /\ \A l \in (j + 1)..Len(log) : ~Says(l, "remove", c)
LearnedAt(c, op, k) ==
  \E i \in 1..(k - 1) :
    /\ log[i].what = "tx" /\ log[i].data[1] = op[1] /\ ServedFrom(c, i)
    /\ \E a \in Paid(op) : LoadedAt(c, a, i)
    /\ \A j \in (i + 1)..(k - 1) : ~Says(j, "reload", c)

\* A client with a filter is told of every transaction the pool accepts that pays one of
\* its addresses or spends an output that did so before (subscribedClients).
FilterTold ==
  \A k \in DOMAIN log, c \in open :
    log[k].what = "tx" /\ ServedFrom(c, k) =>
      LET t == log[k].data[1]
      IN  (\/ \E op \in Outs(t) : \E a \in Paid(op) : LoadedAt(c, a, k)
           \/ \E op \in Spends[t] : LearnedAt(c, op, k)) => <<c, "relevant", t, None>> \in told

Registered(c) ==
  \/ c \in reg.clients \cup reg.blocks \cup reg.txs
  \/ \E w \in reg.ops \cup reg.spent : w[2] = c
  \/ \E w \in reg.addrs \cup reg.wants : w[2] = c
RemovedAt(c) == {k \in DOMAIN log : Says(k, "remove", c)}

\* When a client's removal has been handled nothing is kept of it, unless one of its
\* requests registers it again afterwards.
RemovedIsForgotten ==
  \A c \in Clients : \A k \in RemovedAt(c) :
    Registered(c) => \E j \in (k + 1)..Len(log) : log[j].what \notin Events /\ log[j].c = c

\* What the comment on addrRequests says: the requests are kept so that all of them can be
\* removed when a wallet disconnects.  It does not hold: a request still being serviced
\* registers the client again.
DisconnectedLeavesNothing == \A c \in Clients : RemovedAt(c) # {} /\ q = <<>> => ~Registered(c)

\* What the comment in WebsocketHandler says: the number of clients is limited.  It does
\* not hold: the number is read before the client is added.
ClientsLimited == Cardinality(reg.clients) <= MaxWebsockets

\* What the last loop of notificationHandler is for: no client stays connected after the
\* shutdown.  It does not hold for one whose registration is still in the queue.
ShutdownDisconnectsAll == quit => open = {}

-----------------------------------------------------------------------------
(***************************************************************************)
(* The rescan and rescanblocks requests of websocket clients               *)
(* (rpcwebsocket.go), while the chain grows, is reorganized, is cut back   *)
(* by invalidateblock, or loses its oldest blocks to pruning.              *)
(***************************************************************************)

CONSTANTS
  TxsOf,      \* block -> its transactions, in order
  ClientOuts,       \* the outputs <<tx, index>> that pay an address of the client
  SpentBy,     \* tx -> the outputs it spends
  Reveals,    \* tx -> whether its input scripts show the addresses it spends from
  Jobs,       \* records: chain, the main chain at the start; events, what happens to it, in
              \* order; begin, the first block; end, the last or NoEnd; outs, the outputs
              \* the client asks about; addrs, whether it asks about its addresses; list,
              \* for rescanblocks; quits, whether the client may disconnect
  MaxInv      \* MaxInvPerMsg

VARIABLES
  job,
  mainChain, \* block at height 1, 2, ...
  old,       \* the blocks pruned
  events,    \* what is still to happen to the chain
  paused,    \* the sync manager is paused
  connected, \* the client
  scan,      \* the goroutine that services the request
  watch,     \* what the client is registered for once the rescan has caught up
  notified       \* notifications and results: <<kind, tx, block>>
rescanVars == <<job, mainChain, old, events, paused, connected, scan, watch, notified>>

Genesis == "genesis"
NoEnd == "none"
Nil == "nil"
Blocks == DOMAIN TxsOf
InMain(b) == Contains(mainChain, b)
HeightOf(b) == CHOOSE h \in DOMAIN mainChain : mainChain[h] = b
Tip == Last(mainChain)
MaxInt32 == 100
ParentIn(chain, b) ==
  LET h == CHOOSE k \in DOMAIN chain : chain[k] = b IN IF h = 1 THEN Genesis ELSE chain[h - 1]

-----------------------------------------------------------------------------
(* The chain.                                                                *)

\* HeightRange: start included, end not.
HeightRange(lo, hi) ==
  IF lo > Len(mainChain) THEN <<>>
  ELSE SubSeq(mainChain, lo, IF hi > Len(mainChain) + 1 THEN Len(mainChain) ELSE hi - 1)

\* BlockByHash: a block that has left the main chain and one that was pruned give errors
\* of different types.
BlockByHash(b) == IF ~InMain(b) THEN "not in main chain" ELSE IF b \in old THEN "not found" ELSE "ok"

-----------------------------------------------------------------------------
(* One block.                                                                *)

\* rescanBlock, one transaction: a spend is notified when it spends an output on the list,
\* or shows one of the addresses; a payment puts its output on the list.
RescanTx(s, t) ==
  LET out == {op \in ClientOuts : op[1] = t /\ job.addrs}
      spends == \/ SpentBy[t] \cap s.unspent # {}
                \/ job.addrs /\ Reveals[t] /\ SpentBy[t] \cap ClientOuts # {}
  IN  [block |-> s.block, unspent |-> (s.unspent \ SpentBy[t]) \cup out,
       told |-> s.told \cup (IF spends THEN {<<"redeeming", t, s.block>>} ELSE {})
                       \cup (IF out # {} THEN {<<"recv", t, s.block>>} ELSE {})]
rescanBlock(b, unspent) ==
  FoldLeft(RescanTx, [block |-> b, unspent |-> unspent, told |-> {}], TxsOf[b])

\* rescanBlockFilter: as above, but outputs stay on the list, and a transaction is
\* returned once.
FilterTx(s, t) ==
  LET out == {op \in ClientOuts : op[1] = t /\ job.addrs}
  IN  [block |-> s.block, unspent |-> s.unspent \cup out,
       told |-> s.told \cup (IF out # {} \/ SpentBy[t] \cap s.unspent # {}
                             THEN {<<"found", t, s.block>>} ELSE {})]
rescanBlockFilter(b, unspent) ==
  FoldLeft(FilterTx, [block |-> b, unspent |-> unspent, told |-> {}], TxsOf[b])

-----------------------------------------------------------------------------
(* rescan.                                                                   *)

Rest == UNCHANGED <<job, mainChain, old, events, connected>>
Ends(how) == scan' = [scan EXCEPT !.at = "done", !.result = how]

\* handleRescan up to the scan: the heights of the first and the last block.
handleRescan ==
  /\ scan.at = "start" /\ job.list = <<>>
  /\ IF ~InMain(job.begin) \/ (job.end # NoEnd /\ ~InMain(job.end)) THEN Ends("error")
     ELSE IF job.outs = {} /\ ~job.addrs
     THEN IF BlockByHash(Tip) = "ok" THEN scan' = [scan EXCEPT !.at = "finish", !.last = Tip]
          ELSE Ends("error")
     ELSE scan' = [scan EXCEPT !.at = "range", !.unspent = job.outs, !.min = HeightOf(job.begin),
                               !.max = IF job.end = NoEnd THEN MaxInt32 ELSE HeightOf(job.end)]
  /\ UNCHANGED <<paused, watch, notified>> /\ Rest

\* The head of fetchRange.
FetchRange ==
  /\ scan.at = "range"
  /\ IF scan.min >= scan.max THEN scan' = [scan EXCEPT !.at = "finish"]
     ELSE \E list \in {HeightRange(scan.min, IF scan.max - scan.min > MaxInv THEN scan.min + MaxInv
                                             ELSE scan.max)} :
            scan' = IF list # <<>> THEN [scan EXCEPT !.at = "block", !.list = list, !.i = 1]
                    ELSE [scan EXCEPT !.at = IF scan.max # MaxInt32 THEN "finish" ELSE "pause"]
  /\ UNCHANGED <<paused, watch, notified>> /\ Rest

\* Seeded fault: the client is registered although blocks have come meanwhile.
CaughtUp_always == TRUE
CaughtUp == scan.last \in {Nil, Tip}
\* With the sync manager paused: registered when nothing has come since the last range.
Pause ==
  /\ scan.at = "pause" /\ paused' = TRUE
  /\ scan' = [scan EXCEPT !.at = "paused"]
  /\ UNCHANGED <<watch, notified>> /\ Rest
Resume ==
  /\ scan.at = "paused" /\ paused' = FALSE
  /\ IF CaughtUp
     THEN /\ watch' = [on |-> TRUE, unspent |-> scan.unspent]
          /\ scan' = [scan EXCEPT !.at = "finish"]
     ELSE scan' = [scan EXCEPT !.at = "range"] /\ UNCHANGED watch
  /\ UNCHANGED notified /\ Rest

\* recoverFromReorg: a new range from the block that was not found.
recoverFromReorg(i) ==
  LET from == scan.min + i - 1
      list == HeightRange(from, scan.max)
  IN  IF scan.max # MaxInt32 THEN Ends("error")
      ELSE IF scan.last # Nil /\ list # <<>> /\ (BlockByHash(list[1]) # "ok"
                                                 \/ ParentIn(mainChain, list[1]) # scan.last)
      THEN Ends("error")
      ELSE scan' = [scan EXCEPT !.min = from, !.list = list, !.i = 1,
                                !.at = IF list = <<>> THEN "finish" ELSE "block"]

\* One block of the range.
ScanBlock ==
  /\ scan.at = "block" /\ scan.i <= Len(scan.list)
  /\ \E b \in {scan.list[scan.i]} :
       CASE BlockByHash(b) = "not in main chain" -> Ends("error") /\ UNCHANGED notified
         [] BlockByHash(b) = "not found" -> recoverFromReorg(scan.i) /\ UNCHANGED notified
         [] OTHER ->
              IF scan.i = 1 /\ scan.last # Nil /\ ParentIn(mainChain, b) # scan.last
              THEN Ends("error") /\ UNCHANGED notified
              ELSE IF ~connected THEN Ends("left") /\ UNCHANGED notified
              ELSE \E s \in {rescanBlock(b, scan.unspent)} :
                     /\ scan' = [scan EXCEPT !.unspent = s.unspent, !.last = b, !.i = @ + 1]
                     /\ notified' = notified \cup s.told
  /\ UNCHANGED <<paused, watch>> /\ Rest
RangeDone ==
  /\ scan.at = "block" /\ scan.i > Len(scan.list)
  /\ scan' = [scan EXCEPT !.at = "range", !.min = @ + Len(scan.list)]
  /\ UNCHANGED <<paused, watch, notified>> /\ Rest

\* rescanfinished, unless no block was scanned.
Finish ==
  /\ scan.at = "finish"
  /\ IF scan.last = Nil THEN Ends("silent") ELSE Ends("finished")
  /\ UNCHANGED <<paused, watch, notified>> /\ Rest

scanBlockChunks == FetchRange \/ Pause \/ Resume \/ ScanBlock \/ RangeDone

\* rescanblocks: blocks of the main chain, each the child of the one before.
handleRescanBlocks ==
  /\ job.list # <<>>
  /\ \/ /\ scan.at = "start"
        /\ scan' = [scan EXCEPT !.at = "listed", !.unspent = job.outs, !.i = 1]
        /\ UNCHANGED notified
     \/ /\ scan.at = "listed" /\ scan.i <= Len(job.list)
        /\ \E b \in {job.list[scan.i]} :
             IF BlockByHash(b) # "ok" THEN Ends("error") /\ UNCHANGED notified
             ELSE IF scan.i > 1 /\ ParentIn(mainChain, b) # job.list[scan.i - 1]
             THEN Ends("error") /\ UNCHANGED notified
             ELSE \E s \in {rescanBlockFilter(b, scan.unspent)} :
                    /\ scan' = [scan EXCEPT !.unspent = s.unspent, !.i = @ + 1]
                    /\ notified' = notified \cup s.told
     \/ scan.at = "listed" /\ scan.i > Len(job.list) /\ Ends("finished") /\ UNCHANGED notified
  /\ UNCHANGED <<paused, watch>> /\ Rest

Rescan == handleRescan \/ scanBlockChunks \/ Finish \/ handleRescanBlocks

-----------------------------------------------------------------------------
(* What happens meanwhile, external.  Blocks come through the sync manager,  *)
(* which the rescan pauses; invalidateblock and pruning do not.              *)

\* The notification manager tells a registered client of a block that is connected.
Connected(b, w) == [w |-> [on |-> w.on, unspent |-> rescanBlock(b, w.unspent).unspent],
                    told |-> IF w.on THEN rescanBlock(b, w.unspent).told ELSE {}]
Extend(b) ==
  /\ ~paused
  /\ mainChain' = Append(mainChain, b)
  /\ watch' = Connected(b, watch).w
  /\ notified' = notified \cup Connected(b, watch).told
  /\ UNCHANGED old
\* The last block is replaced by two.
Reorganize(b, c) ==
  /\ ~paused /\ Len(mainChain) > 1
  /\ mainChain' = Front(mainChain) \o <<b, c>>
  /\ \E one \in {Connected(b, watch)} : \E two \in {Connected(c, one.w)} :
       watch' = two.w /\ notified' = notified \cup one.told \cup two.told
  /\ UNCHANGED old
Invalidate ==
  /\ Len(mainChain) > 1
  /\ mainChain' = Front(mainChain)
  /\ UNCHANGED <<old, watch, notified>>
Prune ==
  /\ old' = old \cup {mainChain[1]}
  /\ UNCHANGED <<mainChain, watch, notified>>
Happens ==
  /\ events # <<>> /\ events' = Tail(events)
  /\ LET e == Head(events)
     IN  \/ e.what = "extend" /\ Extend(e.blocks[1])
         \/ e.what = "reorg" /\ Reorganize(e.blocks[1], e.blocks[2])
         \/ e.what = "invalidate" /\ Invalidate
         \/ e.what = "prune" /\ Prune
  /\ UNCHANGED <<job, paused, connected, scan>>
ClientLeaves ==
  /\ job.quits /\ connected /\ connected' = FALSE
  /\ UNCHANGED <<job, mainChain, old, events, paused, scan, watch, notified>>

RescanInit ==
  /\ job \in Jobs
  /\ mainChain = job.chain /\ events = job.events /\ old = {} /\ paused = FALSE /\ connected = TRUE
  /\ scan = [at |-> "start", min |-> 0, max |-> 0, list |-> <<>>, i |-> 1, last |-> Nil,
             unspent |-> {}, result |-> "none"]
  /\ watch = [on |-> FALSE, unspent |-> {}]
  /\ notified = {}
RescanNext == Rescan \/ Happens \/ ClientLeaves
RescanSpec == RescanInit /\ [][RescanNext]_rescanVars /\ WF_rescanVars(Rescan)

-----------------------------------------------------------------------------
(* Correctness.                                                              *)

RescanTypeOK ==
  /\ Range(mainChain) \subseteq Blocks /\ old \subseteq Blocks
  /\ scan.at \in {"start", "range", "block", "pause", "paused", "listed", "finish", "done"}
  /\ scan.result \in {"none", "finished", "silent", "left", "error"}
  /\ scan.last \in Blocks \cup {Nil} /\ watch.on \in BOOLEAN

\* The payments and spends of the blocks from the first one asked for up to height hi.
From == IF InMain(job.begin) THEN HeightOf(job.begin) ELSE Len(mainChain) + 1
PaysClient(t) == job.addrs /\ \E op \in ClientOuts : op[1] = t
EarlierOuts(h, t) ==
  {op \in ClientOuts : job.addrs /\ \E k \in From..h : Contains(TxsOf[mainChain[k]], op[1])} \cup job.outs
Covered(hi, recv, redeem) ==
  \A h \in From..hi : \A t \in Range(TxsOf[mainChain[h]]) :
    /\ PaysClient(t) => <<recv, t, mainChain[h]>> \in notified
    /\ SpentBy[t] \cap EarlierOuts(h, t) # {} => <<redeem, t, mainChain[h]>> \in notified

\* A rescan without an end that finishes has notified of every payment and spend in the main
\* chain from its first block on, and nothing is missed where the scan hands over to the
\* notifications (Pause, Resume), also when blocks come or the chain is reorganized then.
NothingMissed ==
  scan.result = "finished" /\ job.end = NoEnd /\ watch.on => Covered(Len(mainChain), "recv", "redeeming")

\* rescanblocks finds the payments and spends of the blocks it is given, and no other.
ListScanned ==
  scan.result = "finished" /\ job.list # <<>> =>
    \A k \in DOMAIN job.list : \A t \in Range(TxsOf[job.list[k]]) :
      <<"found", t, job.list[k]>> \in notified <=>
        \/ PaysClient(t)
        \/ \E op \in SpentBy[t] : op \in job.outs \/
             (job.addrs /\ op \in ClientOuts /\ \E j \in 1..k : Contains(TxsOf[job.list[j]], op[1]))

Shortened == \E k \in DOMAIN job.events : job.events[k].what \in {"invalidate", "prune"}

RescanEnded == scan.at = "done" \/ Shortened

\* A rescan ends, unless the chain is cut back below what has been scanned, or the first
\* block has been pruned.
RescanEnds == <>RescanEnded

\* What the documentation of rescan says of EndBlock, "hash of final block to rescan":
\* that block is scanned.  It does not hold: the range ends before it.
EndBlockScanned ==
  scan.result = "finished" /\ job.end # NoEnd /\ InMain(job.end) =>
    Covered(HeightOf(job.end), "recv", "redeeming")

\* What handleRescan says of a scan without a last block: the client has disconnected.
\* It does not hold for a range without blocks.
SilentMeansLeft == scan.result = "silent" => ~connected

\* What the documentation says: the rescan completes.  One from a pruned block does not.
AlwaysEnds == <>(scan.at = "done")

-----------------------------------------------------------------------------
(* One websocket client: the goroutine that reads requests, those that       *)
(* service them, the notification queue and the writer, with the             *)
(* notification manager as a sender of notifications.                        *)

CONSTANTS
  Sessions,      \* records: remote, what the other end sends; sess, whether it has
                 \* authenticated when it connects, and how; ntfns, the notifications of
                 \* the notification manager, in order
  MaxReqs,       \* RPCMaxConcurrentReqs
  SendBufferLen  \* websocketSendBufferSize

WsClientAssumption == MaxReqs \in Nat \ {0} /\ SendBufferLen \in Nat \ {0}

VARIABLES
  remote,   \* what the remote end has yet to send
  sess,     \* authenticated, isAdmin
  gone,     \* disconnected, with quit closed and the connection too
  inH,      \* inHandler: at, the message, what is left of its answer
  reqs,     \* the goroutines of serviceRequest, one for each held place of the semaphore
  queue,    \* notificationQueueHandler: at, msg, pending, waiting
  ntfnChan, ntfnSent, sendChan,
  out,      \* outHandler
  mgr,      \* the notification manager's goroutine, as it queues notifications
  wrote,    \* what has been written to the connection
  queued,   \* the notifications in the order they entered ntfnChan
  seen      \* the entries examined, in order, with the verdict on each
wsVars == <<remote, sess, gone, inH, reqs, queue, ntfnChan, ntfnSent, sendChan, out, mgr, wrote,
            queued, seen>>

-----------------------------------------------------------------------------
(* What a request is worth.  An entry is [id, kind]: a request that does not *)
(* parse ("garbage"), lacks a method or parameters ("malformed"), has no id  *)
(* ("noid"), names no known command or has bad parameters ("badcmd"),        *)
(* authenticates ("admin", "limited", "wrong"), or is a command              *)
(* ("free": one of rpcLimited; "full": not one; "rescan": also one of        *)
(* rpcLimited, and sends notifications of its own).                          *)

Entry(id, kind) == [id |-> id, kind |-> kind]
Batch(entries) == [batch |-> TRUE, entries |-> entries]
One(id, kind) == [batch |-> FALSE, entries |-> <<Entry(id, kind)>>]
Closes == One("", "closes")  \* not a message: the remote end closes the connection
Creds == {"admin", "limited", "wrong"}
rpcLimited == {"free", "rescan"}
Verdicts == {"out", "none", "reply", "run"}

\* parseCmd, checks of the JSON-RPC fields, authentication and limits: what becomes of the
\* entry, and the session afterwards.
Examine(s, e) ==
  LET Be(verdict) == [verdict |-> verdict, sess |-> s]
  IN  CASE e.kind \in {"garbage", "badcmd"} -> Be(IF s.auth THEN "reply" ELSE "out")
        [] e.kind = "malformed" -> Be("reply")
        [] e.kind = "noid" -> Be(IF s.auth THEN "none" ELSE "out")
        [] e.kind \in Creds ->
             IF s.auth \/ e.kind = "wrong" THEN Be("out")
             ELSE [verdict |-> "reply", sess |-> [auth |-> TRUE, admin |-> e.kind = "admin"]]
        [] OTHER -> Be(IF ~s.auth THEN "out"
                       ELSE IF s.admin \/ e.kind \in rpcLimited THEN "run" ELSE "reply")

\* The loop over a batch: it ends at the first entry that ends the session.  Commands are
\* executed on the spot; results holds the ids answered.
BatchEntry(b, e) ==
  LET v == Examine(b.sess, e)
  IN  IF b.out THEN b
      ELSE [out |-> v.verdict = "out", sess |-> v.sess,
            seen |-> Append(b.seen, [entry |-> e, verdict |-> v.verdict, by |-> b.sess]),
            results |-> IF v.verdict \in {"reply", "run"} THEN Append(b.results, e.id) ELSE b.results]
Batched(entries) ==
  FoldLeft(BatchEntry, [out |-> FALSE, sess |-> sess, seen |-> <<>>, results |-> <<>>], entries)

\* What is written for a batch: the replies together, or nothing at all in a message of
\* length zero.  A batch without entries is answered by one error.
BatchReply(entries, results) == IF entries = <<>> THEN <<"empty">> ELSE results

-----------------------------------------------------------------------------
(* Sending.  A sender looks whether the client is gone and then waits for    *)
(* room; between the two the client may go and its handlers end.             *)

Reply(ids) == [ntfn |-> FALSE, ids |-> ids]
Ntfn(n) == [ntfn |-> TRUE, ids |-> <<n>>]

Room == Len(sendChan) < SendBufferLen
Push(m) == Room /\ sendChan' = Append(sendChan, m)
\* QueueNotification, past its look: ntfnChan holds one.
PushNtfn(n) ==
  /\ Len(ntfnChan) = 0
  /\ ntfnChan' = <<n>>
  /\ queued' = Append(queued, n)

Disconnect == gone' = TRUE

-----------------------------------------------------------------------------
(* inHandler.                                                                *)

NoMsg == One("", "free")
InAt(at) == [at |-> at, msg |-> NoMsg, ids |-> <<>>]
InDone == inH' = InAt("done") /\ Disconnect
InSame == UNCHANGED <<queue, ntfnChan, ntfnSent, out, mgr, wrote, queued>>

\* The top of the loop, and the read: it fails once the connection is closed, by
\* either end, and waits otherwise.
ReadMessage ==
  /\ inH.at = "read"
  /\ \/ (gone \/ (remote # <<>> /\ Head(remote) = Closes)) /\ InDone /\ UNCHANGED remote
     \/ /\ ~gone /\ remote # <<>> /\ Head(remote) # Closes
        /\ inH' = [InAt("read it") EXCEPT !.msg = Head(remote)]
        /\ remote' = Tail(remote)
        /\ UNCHANGED gone
  /\ UNCHANGED <<sess, reqs, sendChan, seen>> /\ InSame

\* A request that is not part of a batch.
Single ==
  /\ inH.at = "read it" /\ ~inH.msg.batch
  /\ \E e \in {inH.msg.entries[1]} : \E v \in {Examine(sess, e)} :
       /\ sess' = v.sess
       /\ seen' = Append(seen, [entry |-> e, verdict |-> v.verdict, by |-> sess])
       /\ IF v.verdict = "out" THEN InDone
          ELSE /\ inH' = IF v.verdict = "none" THEN InAt("read")
                         ELSE [inH EXCEPT !.at = IF v.verdict = "run" THEN "acquire" ELSE "send",
                                          !.ids = <<e.id>>]
               /\ UNCHANGED gone
  /\ UNCHANGED <<remote, reqs, sendChan>> /\ InSame

\* serviceRequestSem.acquire, and the goroutine.
Held == {r \in 1..MaxReqs : reqs[r].at # "idle"}
StartRequest ==
  /\ inH.at = "acquire"
  /\ \E r \in 1..MaxReqs \ Held :
       /\ \A k \in 1..MaxReqs \ Held : r <= k
       /\ reqs' = [reqs EXCEPT ![r] = [at |-> "run", entry |-> inH.msg.entries[1]]]
  /\ inH' = InAt("read")
  /\ UNCHANGED <<remote, sess, gone, sendChan, seen>> /\ InSame

\* A batch holds a place of the semaphore while its commands are executed, and keeps
\* it when it ends the session.
BatchRequest ==
  /\ inH.at = "read it" /\ inH.msg.batch
  /\ Cardinality(Held) < MaxReqs
  /\ IF inH.msg.entries = <<>> /\ ~sess.auth
     THEN InDone /\ UNCHANGED <<sess, seen>>
     ELSE \E b \in {Batched(inH.msg.entries)} :
            /\ sess' = b.sess
            /\ seen' = seen \o b.seen
            /\ IF b.out THEN InDone
               ELSE /\ inH' = [inH EXCEPT !.at = "send",
                                          !.ids = BatchReply(inH.msg.entries, b.results)]
                    /\ UNCHANGED gone
  /\ UNCHANGED <<remote, reqs, sendChan>> /\ InSame

\* SendMessage in inHandler.
InSend ==
  /\ inH.at \in {"send", "sending"}
  /\ IF inH.at = "send"
     THEN /\ inH' = IF gone THEN InAt("read") ELSE [inH EXCEPT !.at = "sending"]
          /\ UNCHANGED sendChan
     ELSE Push(Reply(inH.ids)) /\ inH' = InAt("read")
  /\ UNCHANGED <<remote, sess, gone, reqs, seen>> /\ InSame

inHandler == ReadMessage \/ Single \/ StartRequest \/ BatchRequest \/ InSend

-----------------------------------------------------------------------------
(* serviceRequest.  A rescan queues a notification before it is answered.    *)

ReqTo(r, at) == reqs' = [reqs EXCEPT ![r].at = at]
serviceRequest(r) ==
  /\ \/ /\ reqs[r].at = "run"
        /\ ReqTo(r, IF reqs[r].entry.kind # "rescan" \/ gone THEN "send" ELSE "queueing")
        /\ UNCHANGED <<ntfnChan, queued, sendChan>>
     \/ /\ reqs[r].at = "queueing"
        /\ PushNtfn(reqs[r].entry.id)
        /\ ReqTo(r, "send")
        /\ UNCHANGED sendChan
     \/ /\ reqs[r].at = "send"
        /\ ReqTo(r, IF gone THEN "idle" ELSE "sending")
        /\ UNCHANGED <<ntfnChan, queued, sendChan>>
     \/ /\ reqs[r].at = "sending"
        /\ Push(Reply(<<reqs[r].entry.id>>))
        /\ ReqTo(r, "idle")
        /\ UNCHANGED <<ntfnChan, queued>>
  /\ UNCHANGED <<remote, sess, gone, inH, queue, ntfnSent, out, mgr, wrote, seen>>

\* The notification manager queues its notifications, if the client is not gone.
QueueNotification ==
  /\ \/ /\ mgr.at = "look" /\ mgr.left # <<>>
        /\ mgr' = IF gone THEN [mgr EXCEPT !.left = Tail(@)] ELSE [mgr EXCEPT !.at = "queueing"]
        /\ UNCHANGED <<ntfnChan, queued>>
     \/ /\ mgr.at = "queueing"
        /\ PushNtfn(Head(mgr.left))
        /\ mgr' = [at |-> "look", left |-> Tail(mgr.left)]
  /\ UNCHANGED <<remote, sess, gone, inH, reqs, queue, ntfnSent, sendChan, out, wrote, seen>>

-----------------------------------------------------------------------------
(* notificationQueueHandler: one notification at a time is on its way.       *)

QueueTo(at, msg) == [queue EXCEPT !.at = at, !.msg = msg]
NoNtfn == "none"

TakeNtfn ==
  /\ queue.at = "select" /\ ntfnChan # <<>>
  /\ queue' = IF queue.waiting THEN [queue EXCEPT !.pending = Append(@, ntfnChan[1])]
              ELSE [QueueTo("send", ntfnChan[1]) EXCEPT !.waiting = TRUE]
  /\ ntfnChan' = <<>>
  /\ UNCHANGED ntfnSent
TakeSent ==
  /\ queue.at = "select" /\ ntfnSent
  /\ ntfnSent' = FALSE
  /\ queue' = IF queue.pending = <<>> THEN [queue EXCEPT !.waiting = FALSE]
              ELSE [QueueTo("send", Head(queue.pending)) EXCEPT !.pending = Tail(@)]
  /\ UNCHANGED ntfnChan
notificationQueueHandler ==
  /\ \/ TakeNtfn /\ UNCHANGED sendChan
     \/ TakeSent /\ UNCHANGED sendChan
     \/ /\ queue.at = "select" /\ gone
        /\ queue' = QueueTo("done", NoNtfn)
        /\ ntfnChan' = <<>> /\ ntfnSent' = FALSE
        /\ UNCHANGED sendChan
     \/ /\ queue.at = "send"
        /\ queue' = IF gone THEN QueueTo("select", NoNtfn) ELSE [queue EXCEPT !.at = "sending"]
        /\ ntfnSent' = (ntfnSent \/ gone)
        /\ UNCHANGED <<ntfnChan, sendChan>>
     \/ /\ queue.at = "sending"
        /\ Push(Ntfn(queue.msg))
        /\ queue' = QueueTo("select", NoNtfn)
        /\ UNCHANGED <<ntfnChan, ntfnSent>>
  /\ UNCHANGED <<remote, sess, gone, inH, reqs, out, mgr, wrote, queued, seen>>

-----------------------------------------------------------------------------
(* outHandler.                                                               *)

\* The write fails when the connection is closed, and may fail for other reasons.
Write ==
  /\ out = "select" /\ sendChan # <<>>
  /\ sendChan' = Tail(sendChan)
  /\ \/ ~gone /\ wrote' = Append(wrote, Head(sendChan))
        /\ (Head(sendChan).ntfn => ~ntfnSent) /\ ntfnSent' = (ntfnSent \/ Head(sendChan).ntfn)
        /\ UNCHANGED <<gone, out>>
     \/ Disconnect /\ out' = "drain" /\ UNCHANGED <<wrote, ntfnSent>>
OutQuit == out = "select" /\ gone /\ out' = "drain" /\ UNCHANGED <<sendChan, ntfnSent, wrote, gone>>
OutDrain ==
  /\ out = "drain"
  /\ IF sendChan = <<>> THEN out' = "done" /\ UNCHANGED <<sendChan, ntfnSent>>
     ELSE /\ sendChan' = Tail(sendChan)
          /\ (Head(sendChan).ntfn => ~ntfnSent) /\ ntfnSent' = (ntfnSent \/ Head(sendChan).ntfn)
          /\ UNCHANGED out
  /\ UNCHANGED <<wrote, gone>>
outHandler ==
  /\ Write \/ OutQuit \/ OutDrain
  /\ UNCHANGED <<remote, sess, inH, reqs, queue, ntfnChan, mgr, queued, seen>>

\* The notification manager disconnects its clients when the server stops.
ServerStops ==
  /\ ~gone /\ Disconnect
  /\ UNCHANGED <<remote, sess, inH, reqs, queue, ntfnChan, ntfnSent, sendChan, out, mgr, wrote,
                 queued, seen>>

WsInit ==
  /\ \E w \in Sessions :
       /\ remote = w.remote /\ sess = w.sess
       /\ mgr = [at |-> "look", left |-> w.ntfns]
  /\ gone = FALSE /\ inH = InAt("read")
  /\ reqs = [r \in 1..MaxReqs |-> [at |-> "idle", entry |-> Entry("", "free")]]
  /\ queue = [at |-> "select", msg |-> NoNtfn, pending |-> <<>>, waiting |-> FALSE]
  /\ ntfnChan = <<>> /\ ntfnSent = FALSE /\ sendChan = <<>> /\ out = "select"
  /\ wrote = <<>> /\ queued = <<>> /\ seen = <<>>
Moves ==
  \/ inHandler \/ QueueNotification \/ notificationQueueHandler \/ outHandler
  \/ \E r \in 1..MaxReqs : serviceRequest(r)
WsNext == Moves \/ ServerStops

-----------------------------------------------------------------------------
(* Correctness.                                                              *)

WsTypeOK ==
  /\ sess \in [auth : BOOLEAN, admin : BOOLEAN] /\ gone \in BOOLEAN /\ ntfnSent \in BOOLEAN
  /\ inH.at \in {"read", "read it", "acquire", "send", "sending", "done"}
  /\ \A r \in 1..MaxReqs : reqs[r].at \in {"idle", "run", "queueing", "send", "sending"}
  /\ queue.at \in {"select", "send", "sending", "done"} /\ out \in {"select", "drain", "done"}
  /\ Len(ntfnChan) <= 1 /\ Len(sendChan) <= SendBufferLen
  /\ \A k \in DOMAIN seen : seen[k].verdict \in Verdicts

Settled == ~ENABLED Moves

\* Notifications reach the connection in the order in which they were queued, none twice,
\* none left out between two (notificationQueueHandler, outHandler).
NtfnsInOrder ==
  LET ntfns == SelectSeq(wrote, LAMBDA m : m.ntfn)
  IN  /\ Len(ntfns) <= Len(queued)
      /\ \A k \in DOMAIN ntfns : ntfns[k].ids = <<queued[k]>>

Answers(id) == {k \in DOMAIN wrote : ~wrote[k].ntfn /\ Contains(wrote[k].ids, id)}

\* Every request with an id is answered exactly once, alone or in a batch, while the
\* session lasts; one without an id never is (inHandler, serviceRequest).
RequestsAnswered ==
  Settled /\ ~gone =>
    \A k \in DOMAIN seen :
      Cardinality(Answers(seen[k].entry.id)) = (IF seen[k].entry.kind = "noid" THEN 0 ELSE 1)

Abandoned(r) == reqs[r].at = "queueing" /\ ntfnChan # <<>> /\ queue.at = "done"

\* When one of the three goroutines of the client has ended, so do the others
\* (WaitForShutdown returns), unless every place of the semaphore is held by a request
\* whose notification found no reader any more.
ClientEnds ==
  Settled /\ "done" \in {inH.at, queue.at, out} =>
    /\ gone /\ queue.at = "done" /\ out = "done"
    /\ inH.at = "done" \/ \A r \in 1..MaxReqs : Abandoned(r)

\* What the comments on notificationQueueHandler and QueueNotification promise: queuing a
\* notification does not block the notification manager.  It does not hold: two senders
\* may both have looked before the client went.
NtfnsNeverBlock == Settled => mgr.at # "queueing"

\* What the comment in inHandler says of requests without an id: they are not answered.
\* A batch of nothing else is answered by an empty message.
NotificationsUnanswered == \A k \in DOMAIN wrote : wrote[k].ids # <<>>
=============================================================================
