------------------------------- MODULE MCRpc -------------------------------
(***************************************************************************)
(* The RPC interface: the client (rpcclient), the HTTP and websocket       *)
(* servers, the notification manager, rescans, block templates for miners, *)
(* the commands both ends agree on and the queries of the chain, each on a *)
(* small instance of its own. A behaviour is a behaviour of one component. *)
(***************************************************************************)
EXTENDS Integers, Sequences, FiniteSets

CONSTANT Parts   \* the components whose behaviours are checked

VARIABLES
    part,   \* the component a behaviour is of; the variables of the others are Idle
    world, client, pending, sendChan, caller, answer, inH, outH, recon, resend, net,
    setting, shutdown, postChan, posting, box, poster, batchList, requestMap,
    sending, ran, late,
    remote, sess, gone, wsInH, reqs, queue, ntfnChan, ntfnSent, wsSendChan, out, mgr,
    wrote, queued, seen,
    stage, open, asked, q, quit, reg, managerFilter, dead, managerPool, blocksUp,
    managerTold, story, log,
    job, mainChain, old, events, paused, connected, scan, watch, notified,
    gbtTip, ahead, now, gbtPool, gbt, notifyMap, notes, lock, miner, spurious,
    httpConn, numClients, srv,
    work, request, fields, reply,
    note, noteSent, calledBack,
    indexed, bestChain, best, news, queryPool, moves, query, since,
    rows, ask, cursor, scanned, listed, ended, stayed, changes

Idle == "-"

----------------------------------------------------------------------------
\* rpcclient over a websocket that breaks once: two requests or registrations,
\* the reconnect and a shutdown.
ClientCalls == {<<0, "x">>, <<0, "y">>}
Situation(k1, k2, auto, stops) ==
    [kind |-> [id \in ClientCalls |-> IF id[2] = "x" THEN k1 ELSE k2],
     auto |-> auto, refused |-> {}, breaks |-> 1, stops |-> stops]
ClientSituations == {Situation("call", "none", TRUE, FALSE), Situation("none", "blocks", TRUE, FALSE),
                     Situation("rescan", "none", TRUE, TRUE), Situation("call", "call", FALSE, TRUE)}
----------------------------------------------------------------------------
\* rpcclient in HTTP POST mode and its batches: two requests, two tries of
\* each, two batches.
Client == INSTANCE RpcClient WITH
    Calls <- ClientCalls, Registrations <- <<"blocks">>,
    Situations <- ClientSituations, SendBuffer <- 2, MaxConns <- 2,
    PostCalls <- {"x", "y"},
    PostSituations <- [batch : BOOLEAN, stops : BOOLEAN, losses : {2}],
    PostBuffer <- 1, MaxTries <- 2, MaxSends <- 2
clientVars == <<world, client, pending, sendChan, caller, answer, inH, outH, recon,
                resend, net>>
ClientStarts ==
    \/ part = "client" /\ Client!ClientInit
    \/ /\ part # "client"
       /\ world = Idle /\ client = Idle /\ pending = Idle /\ sendChan = Idle
       /\ caller = Idle /\ answer = Idle /\ inH = Idle /\ outH = Idle
       /\ recon = Idle /\ resend = Idle /\ net = Idle

postVars == <<setting, shutdown, postChan, posting, box, poster, batchList,
              requestMap, sending, ran, late>>
PostStarts ==
    \/ part = "post" /\ Client!PostInit
    \/ /\ part # "post"
       /\ setting = Idle /\ shutdown = Idle /\ postChan = Idle
       /\ posting = Idle /\ box = Idle /\ poster = Idle /\ batchList = Idle
       /\ requestMap = Idle /\ sending = Idle /\ ran = Idle /\ late = Idle

----------------------------------------------------------------------------
\* A websocket client of the server: what the remote end sends, the session it
\* starts with and the notifications queued for it.
WsEntry(id, kind) == [id |-> id, kind |-> kind]
WsOne(id, kind) == [batch |-> FALSE, entries |-> <<WsEntry(id, kind)>>]
WsBatch(entries) == [batch |-> TRUE, entries |-> entries]
WsSession(remoteSends, auth, admin, ntfns) ==
    [remote |-> remoteSends, sess |-> [auth |-> auth, admin |-> admin], ntfns |-> ntfns]
WsSessions ==
    {WsSession(<<WsOne("a", "admin"), WsOne("c", "full"), WsOne("", "closes")>>, FALSE, FALSE, <<"m1">>),
     WsSession(<<WsOne("a", "malformed"), WsOne("b", "limited"), WsOne("c", "full"), WsOne("d", "noid"),
                 WsOne("e", "free")>>, FALSE, FALSE, <<>>),
     WsSession(<<WsBatch(<<WsEntry("a", "limited"), WsEntry("b", "full"), WsEntry("c", "free"),
                           WsEntry("d", "noid")>>), WsOne("e", "rescan")>>, FALSE, FALSE, <<>>),
     WsSession(<<WsBatch(<<WsEntry("a", "noid"), WsEntry("b", "noid")>>), WsBatch(<<>>),
                 WsOne("c", "badcmd"), WsOne("d", "wrong")>>, TRUE, FALSE, <<>>),
     WsSession(<<WsBatch(<<WsEntry("a", "garbage"), WsEntry("b", "free"), WsEntry("c", "malformed"),
                           WsEntry("d", "admin")>>), WsOne("e", "free")>>, TRUE, TRUE, <<>>),
     WsSession(<<WsBatch(<<WsEntry("a", "free")>>)>>, FALSE, FALSE, <<>>),
     WsSession(<<WsBatch(<<>>)>>, FALSE, FALSE, <<>>),
     WsSession(<<WsOne("b", "rescan"), WsOne("c", "garbage")>>, TRUE, FALSE, <<"m1", "m2">>),
     WsSession(<<WsOne("b", "rescan"), WsOne("c", "rescan")>>, TRUE, FALSE, <<>>)}
----------------------------------------------------------------------------
\* The notification manager: two clients that ask for notifications, load
\* filters and leave, while a payment and its spend are relayed, mined and
\* unmined.
Spends == [t \in {"pay", "spend"} |-> IF t = "pay" THEN {<<"old", 1>>} ELSE {<<"pay", 1>>, <<"pay", 2>>}]
Pays == [t \in {"pay", "spend"} |-> IF t = "pay" THEN <<{"A"}, {"A", "B"}>> ELSE <<{"C"}>>]
Event(what, of) == [what |-> what, of |-> of]
Ask(what, data) == [what |-> what, data |-> data]
Story(c, d, happen, leaves, stops) ==
    [asks |-> [x \in {"c", "d"} |-> IF x = "c" THEN c ELSE d], events |-> happen, leaves |-> leaves, stops |-> stops]
Stories ==
    {Story(<<Ask("addrs", {"A"})>>, <<Ask("spent", {<<"pay", 2>>})>>,
           <<Event("tx", "pay"), Event("mined", <<"pay", "spend">>)>>, {}, FALSE),
     Story(<<Ask("addrs", {"A"}), Ask("stop addrs", {"A"})>>, <<Ask("stop blocks", {})>>,
           <<Event("mined", <<"pay">>), Event("tx", "spend")>>, {}, FALSE),
     Story(<<Ask("blocks", {}), Ask("load", {"A"})>>, <<>>,
           <<Event("mined", <<"pay">>), Event("tx", "spend")>>, {"c"}, FALSE),
     Story(<<Ask("load", {"A"}), Ask("reload", {"B"})>>, <<>>,
           <<Event("tx", "pay"), Event("tx", "spend")>>, {}, FALSE),
     Story(<<Ask("spent", {<<"pay", 2>>}), Ask("stop spent", {<<"pay", 2>>})>>, <<>>,
           <<Event("mined", <<"pay">>), Event("unmined", <<>>), Event("mined", <<"pay", "spend">>)>>, {"c"}, FALSE),
     Story(<<Ask("load", {"B"}), Ask("load", {"A"}), Ask("reload", {"B"})>>, <<>>, <<Event("tx", "pay")>>, {}, FALSE),
     Story(<<Ask("txs", {}), Ask("stop txs", {})>>, <<Ask("blocks", {})>>, <<Event("mined", <<"pay">>)>>, {"c"}, TRUE)}
----------------------------------------------------------------------------
\* The rescans of a chain of three blocks that grows, is reorganised, shortened
\* or pruned meanwhile.
ScanTxsOf == [b1 |-> <<"p">>, b2 |-> <<"s", "p2">>, b3 |-> <<"s2">>, b4 |-> <<"p3">>, c3 |-> <<"p3">>, c4 |-> <<"s2", "s3">>]
ScanTxs == {"p", "p2", "p3", "s", "s2", "s3"}
ScanSpends == [t \in ScanTxs |-> CASE t = "s" -> {<<"p", 1>>} [] t = "s2" -> {<<"p2", 1>>}
                                   [] t = "s3" -> {<<"p3", 1>>} [] OTHER -> {}]
Happens(what, blocks) == [what |-> what, blocks |-> blocks]
RescanJob(happens, begin, end, outs, addrs, list, quits) ==
    [chain |-> <<"b1", "b2", "b3">>, events |-> happens, begin |-> begin, end |-> end,
     outs |-> outs, addrs |-> addrs, list |-> list, quits |-> quits]
Grows == {<<Happens("extend", <<"b4">>)>>, <<Happens("reorg", <<"c3", "c4">>)>>}
Shrinks == {<<Happens("invalidate", <<>>), Happens("extend", <<"c3">>)>>,
            <<Happens("prune", <<>>), Happens("extend", <<"b4">>)>>}
RescanJobs ==
    {RescanJob(h, b, "none", {}, TRUE, <<>>, z) : h \in Grows \cup Shrinks, b \in {"b1", "b3", "b4"}, z \in BOOLEAN}
      \cup {RescanJob(h, "b1", e, {<<"p", 1>>}, a, <<>>, FALSE) : h \in Grows, e \in {"none", "b1", "b3"}, a \in BOOLEAN}
      \cup {RescanJob(h, "b1", "none", {}, FALSE, <<>>, FALSE) : h \in Grows}
      \cup {RescanJob(h, "b1", "none", {<<"p", 1>>}, a, l, FALSE) : h \in Grows \cup Shrinks, a \in BOOLEAN,
              l \in {<<"b1", "b2", "b3">>, <<"b1", "b3">>, <<"b2">>}}
Manager == INSTANCE WsManager WITH
    Clients <- {"c", "d"}, Txs <- {"pay", "spend"}, MaxWebsockets <- 2,
    filter <- managerFilter, pool <- managerPool, told <- managerTold,
    TxsOf <- ScanTxsOf, ClientOuts <- {<<"p", 1>>, <<"p2", 1>>, <<"p3", 1>>},
    SpentBy <- ScanSpends, Reveals <- [t \in ScanTxs |-> t = "s2"],
    Jobs <- RescanJobs, MaxInv <- 2,
    Sessions <- WsSessions, MaxReqs <- 2, SendBufferLen <- 4, inH <- wsInH,
    sendChan <- wsSendChan
wsVars == <<remote, sess, gone, wsInH, reqs, queue, ntfnChan, ntfnSent, wsSendChan,
            out, mgr, wrote, queued, seen>>
WsStarts ==
    \/ part = "ws" /\ Manager!WsInit
    \/ /\ part # "ws"
       /\ remote = Idle /\ sess = Idle /\ gone = Idle /\ wsInH = Idle
       /\ reqs = Idle /\ queue = Idle /\ ntfnChan = Idle /\ ntfnSent = Idle
       /\ wsSendChan = Idle /\ out = Idle /\ mgr = Idle /\ wrote = Idle
       /\ queued = Idle /\ seen = Idle

managerVars == <<stage, open, asked, q, quit, reg, managerFilter, dead, managerPool,
                 blocksUp, managerTold, story, log>>
ManagerStarts ==
    \/ part = "manager" /\ Manager!ManagerInit
    \/ /\ part # "manager"
       /\ stage = Idle /\ open = Idle /\ asked = Idle /\ q = Idle
       /\ quit = Idle /\ reg = Idle /\ managerFilter = Idle /\ dead = Idle
       /\ managerPool = Idle /\ blocksUp = Idle /\ managerTold = Idle
       /\ story = Idle /\ log = Idle

rescanVars == <<job, mainChain, old, events, paused, connected, scan, watch,
                notified>>
RescanningStarts ==
    \/ part = "rescan" /\ Manager!RescanInit
    \/ /\ part # "rescan"
       /\ job = Idle /\ mainChain = Idle /\ old = Idle /\ events = Idle
       /\ paused = Idle /\ connected = Idle /\ scan = Idle /\ watch = Idle
       /\ notified = Idle

----------------------------------------------------------------------------
\* getblocktemplate: two miners, one of which asks for the coinbase
\* transaction, while the best chain moves and transactions arrive.
TipMove(to, kind) == [to |-> to, kind |-> kind]
GbtSituation(tips, txs, until) == [moves |-> tips, txs |-> txs, until |-> until, lowered |-> FALSE]
GbtSituations ==
    {GbtSituation(<<TipMove("a1", "best"), TipMove("a2", "best")>>, 0, 2),
     GbtSituation(<<TipMove("b1", "side"), TipMove("b2", "best")>>, 0, 2),
     GbtSituation(<<TipMove("a1", "best"), TipMove("genesis", "lowered")>>, 0, 2),
     GbtSituation(<<>>, 2, 5), GbtSituation(<<TipMove("a1", "best")>>, 1, 2)}
----------------------------------------------------------------------------
\* The HTTP server: two connections with the posts below, at most one of them
\* served at a time.
HttpRequest(version, id, method, params) ==
    [parses |-> TRUE, version |-> version, id |-> id, method |-> method, params |-> params]
NotARequest == [parses |-> FALSE, version |-> "", id |-> "null", method |-> "", params |-> FALSE]
HttpPost(header, form, entries) == [header |-> header, form |-> form, entries |-> entries]
Singles == {HttpRequest("1", "x", "read", TRUE), HttpRequest("2", "y", "write", TRUE),
            HttpRequest("1", "null", "read", TRUE), HttpRequest("", "null", "read", TRUE),
            HttpRequest("2", "null", "", TRUE), HttpRequest("2", "w", "wallet", TRUE),
            HttpRequest("1", "object", "read", TRUE), HttpRequest("1", "v", "unknown", FALSE), NotARequest}
Batches == {<<HttpRequest("1", "x", "read", TRUE), HttpRequest("1", "null", "read", TRUE), HttpRequest("2", "y", "write", TRUE)>>,
            <<HttpRequest("2", "y", "write", TRUE), NotARequest, HttpRequest("1", "v", "unknown", FALSE)>>, <<>>}
HttpPosts ==
    {HttpPost("limited", "single", <<e>>) : e \in Singles}
      \cup {HttpPost("admin", "single", <<e>>) : e \in {HttpRequest("", "z", "write", TRUE)}}
      \cup {HttpPost(h, "batch", b) : h \in {"limited", "admin"}, b \in Batches}
      \cup {HttpPost(h, "single", <<HttpRequest("1", "x", "read", TRUE)>>) : h \in {"none", "wrong"}}
      \cup {HttpPost("admin", f, <<>>) : f \in {"broken", "unparsed"}}
Gbt == INSTANCE RpcServer WITH
    Miners <- {"m", "n"}, CoinbaseTxn <- {"n"}, Situations <- GbtSituations,
    MaxAsks <- 2, TicksPerSecond <- 2, RegenerateTicks <- 2, pool <- gbtPool,
    tip <- gbtTip, Conns <- {"c", "d"}, Posts <- HttpPosts, RPCMaxClients <- 1,
    RPCQuirks <- TRUE, conn <- httpConn
gbtVars == <<gbtTip, ahead, now, gbtPool, gbt, notifyMap, notes, lock, miner,
             spurious>>
GbtStarts ==
    \/ part = "gbt" /\ Gbt!GbtInit
    \/ /\ part # "gbt"
       /\ gbtTip = Idle /\ ahead = Idle /\ now = Idle /\ gbtPool = Idle
       /\ gbt = Idle /\ notifyMap = Idle /\ notes = Idle /\ lock = Idle
       /\ miner = Idle /\ spurious = Idle

httpVars == <<httpConn, numClients, srv>>
HttpStarts ==
    \/ part = "http" /\ Gbt!HttpInit
    \/ /\ part # "http"
       /\ httpConn = Idle /\ numClients = Idle /\ srv = Idle

----------------------------------------------------------------------------
\* Every call the client can make, marshalled, parsed by the server and
\* answered, in words of six bits.
----------------------------------------------------------------------------
\* Every notification the client can handle, marshalled and parsed.
Calls == INSTANCE RpcCalls WITH
    WordBits <- 6
callsVars == <<work, request, fields, reply>>
CallsStarts ==
    \/ part = "calls" /\ Calls!CallInit
    \/ /\ part # "calls"
       /\ work = Idle /\ request = Idle /\ fields = Idle /\ reply = Idle

notesVars == <<note, noteSent, calledBack>>
NotesStarts ==
    \/ part = "notes" /\ Calls!NoteInit
    \/ /\ part # "notes"
       /\ note = Idle /\ noteSent = Idle /\ calledBack = Idle

----------------------------------------------------------------------------
\* The queries of the chain, its indexes and the pool, while up to two blocks
\* are connected or disconnected between their reads.
QueryParent == [a |-> "g", b |-> "a", c |-> "b", d |-> "a", e |-> "d"]
QueryTxsOf == [g |-> <<"cb">>, a |-> <<"s">>, b |-> <<"t">>, c |-> <<"u">>, d |-> <<"v", "t">>, e |-> <<>>]
Question(m) == [m |-> m, block |-> "g", tx |-> "cb", verbose |-> TRUE, reverse |-> FALSE, n |-> 0, height |-> 0]
QueriesAsked ==
    {[Question(m) EXCEPT !.block = b] : m \in {"getblock", "getblockheader"}, b \in {"a", "b", "c"}}
      \cup {[Question("getblock") EXCEPT !.verbose = FALSE]}
      \cup {[Question("getrawtransaction") EXCEPT !.tx = t, !.verbose = (t # "u")] : t \in {"s", "t", "u"}}
      \cup {[Question("gettxout") EXCEPT !.tx = t] : t \in {"s", "t", "v"}}
      \cup {[Question("getnetworkhashps") EXCEPT !.n = n, !.height = h] : n \in {-1, 1}, h \in {-1, 0, 2, 5}}
      \cup {[Question("verifychain") EXCEPT !.n = n] : n \in {2, 9}}
      \cup {[Question("searchrawtransactions") EXCEPT !.n = n, !.height = h, !.reverse = r, !.verbose = (h = 3)] :
              n \in {0, 1, 3}, h \in {0, 1, 3}, r \in BOOLEAN}
QueryStarts == {[chain |-> <<"g", "a">>, pool |-> {"t", "u"}], [chain |-> <<"g", "a", "b">>, pool |-> {"u"}],
                [chain |-> <<"g", "a", "b", "c">>, pool |-> {"v"}]}
----------------------------------------------------------------------------
\* The listings of the expiry index, page by page, while its rows change twice.
IndexRow(k, o) == [key |-> k, op |-> o]
IndexRows == {IndexRow(1, 1), IndexRow(1, 2), IndexRow(1, 3), IndexRow(2, 4), IndexRow(3, 1), IndexRow(3, 5)}
ScanAsk(by, s, e, min, max) == [by |-> by, start |-> s, end |-> e, min |-> min, max |-> max]
IndexAsks == {ScanAsk("list", 0, 3, 0, 2), ScanAsk("list", 1, 2, 1, 1), ScanAsk("list", 0, -1, 1, 2),
              ScanAsk("list", 2, 1, 0, 1), ScanAsk("list", -1, 2, 0, 1), ScanAsk("list", 1, 2, 0, 0),
              ScanAsk("list", 1, 2, -1, 1), ScanAsk("plan", 0, 2, 0, 2), ScanAsk("plan", 0, 3, 0, 2)}
Queries == INSTANCE RpcQueries WITH
    Parent <- QueryParent, TxsOf <- QueryTxsOf, Spender <- [s |-> "t", t |-> "u"],
    Asked <- QueriesAsked, Starts <- QueryStarts, Retarget <- 2, MaxMoves <- 2,
    pool <- queryPool, ScanRows <- IndexRows, ScanAmount <- <<5, 0, 5, 0, 5>>,
    ScanAsks <- IndexAsks, Horizon <- 2, MaxCandidates <- 3, MaxChanges <- 2
queriesVars == <<indexed, bestChain, best, news, queryPool, moves, query, since>>
QueriesStarts ==
    \/ part = "queries" /\ Queries!QueryInit
    \/ /\ part # "queries"
       /\ indexed = Idle /\ bestChain = Idle /\ best = Idle /\ news = Idle
       /\ queryPool = Idle /\ moves = Idle /\ query = Idle /\ since = Idle

scanVars == <<rows, ask, cursor, scanned, listed, ended, stayed, changes>>
ScanningStarts ==
    \/ part = "scan" /\ Queries!ScanInit
    \/ /\ part # "scan"
       /\ rows = Idle /\ ask = Idle /\ cursor = Idle /\ scanned = Idle
       /\ listed = Idle /\ ended = Idle /\ stayed = Idle /\ changes = Idle

----------------------------------------------------------------------------
Init ==
    /\ part \in Parts
    /\ ClientStarts /\ PostStarts /\ WsStarts /\ ManagerStarts
    /\ RescanningStarts /\ GbtStarts /\ HttpStarts /\ CallsStarts
    /\ NotesStarts /\ QueriesStarts /\ ScanningStarts

Next ==
    \/ part = "client" /\ Client!ClientNext
         /\ UNCHANGED <<part, postVars, wsVars, managerVars, rescanVars, gbtVars, httpVars,
                       callsVars, notesVars, queriesVars, scanVars>>
    \/ part = "post" /\ Client!PostNext
         /\ UNCHANGED <<part, clientVars, wsVars, managerVars, rescanVars, gbtVars, httpVars,
                       callsVars, notesVars, queriesVars, scanVars>>
    \/ part = "ws" /\ Manager!WsNext
         /\ UNCHANGED <<part, clientVars, postVars, managerVars, rescanVars, gbtVars,
                       httpVars, callsVars, notesVars, queriesVars, scanVars>>
    \/ part = "manager" /\ Manager!ManagerNext
         /\ UNCHANGED <<part, clientVars, postVars, wsVars, rescanVars, gbtVars, httpVars,
                       callsVars, notesVars, queriesVars, scanVars>>
    \/ part = "rescan" /\ Manager!RescanNext
         /\ UNCHANGED <<part, clientVars, postVars, wsVars, managerVars, gbtVars, httpVars,
                       callsVars, notesVars, queriesVars, scanVars>>
    \/ part = "gbt" /\ Gbt!GbtNext
         /\ UNCHANGED <<part, clientVars, postVars, wsVars, managerVars, rescanVars, httpVars,
                       callsVars, notesVars, queriesVars, scanVars>>
    \/ part = "http" /\ Gbt!HttpNext
         /\ UNCHANGED <<part, clientVars, postVars, wsVars, managerVars, rescanVars, gbtVars,
                       callsVars, notesVars, queriesVars, scanVars>>
    \/ part = "calls" /\ Calls!CallNext
         /\ UNCHANGED <<part, clientVars, postVars, wsVars, managerVars, rescanVars, gbtVars,
                       httpVars, notesVars, queriesVars, scanVars>>
    \/ part = "notes" /\ Calls!NoteNext
         /\ UNCHANGED <<part, clientVars, postVars, wsVars, managerVars, rescanVars, gbtVars,
                       httpVars, callsVars, queriesVars, scanVars>>
    \/ part = "queries" /\ Queries!QueryNext
         /\ UNCHANGED <<part, clientVars, postVars, wsVars, managerVars, rescanVars, gbtVars,
                       httpVars, callsVars, notesVars, scanVars>>
    \/ part = "scan" /\ Queries!ScanNext
         /\ UNCHANGED <<part, clientVars, postVars, wsVars, managerVars, rescanVars, gbtVars,
                       httpVars, callsVars, notesVars, queriesVars>>

vars == <<part, clientVars, postVars, wsVars, managerVars, rescanVars, gbtVars, httpVars,
          callsVars, notesVars, queriesVars, scanVars>>

\* The fairness of each component (its module says what justifies it), asked
\* only of the behaviours that are its own.
Fairness ==
    /\ WF_rescanVars(part = "rescan" /\ (Manager!Rescan))

Spec == Init /\ [][Next]_vars /\ Fairness

----------------------------------------------------------------------------
ASSUME ConstantsOK ==
    /\ Manager!WsClientAssumption
    /\ Gbt!GbtAssumption
    /\ Gbt!RpcServerAssumption
    /\ Calls!RpcCommandsAssumption

\* Nobody blocks on a responseChan, which holds one response: a request is answered once,
\* by the server's reply, by Disconnect or by Shutdown, whoever wins.
AnsweredOnce == part = "client" => Client!AnsweredOnce

\* A shutdown ends everything: the goroutines all return, also those of a connection that
\* was being made, and no caller is left without an answer but one whose rescan a
\* reconnection dropped.
ShutdownEnds == part = "client" => Client!ShutdownEnds

\* Back on a connection that lasts, every call but a rescan is answered and the server
\* has every registration it had granted (resendRequests, reregisterNtfns), unless an
\* earlier connection's goroutine drained a message meant for this one.
ResumedAfterReconnect == part = "client" => Client!ResumedAfterReconnect

\* Every request is answered: alone, whatever becomes of its tries; in a batch, once a
\* batch with it was sent, but for a batch that failed as a whole (its list is emptied and
\* its futures stay as they are).
PostAnswered == part = "post" => Client!PostAnswered

\* A request is executed once and once more for every try whose answer was lost: the list
\* of a batch is not posted again with what was answered.
PostedOnce == part = "post" => Client!PostedOnce

\* Notifications reach the connection in the order in which they were queued, none twice,
\* none left out between two (notificationQueueHandler, outHandler).
NtfnsInOrder == part = "ws" => Manager!NtfnsInOrder

\* Every request with an id is answered exactly once, alone or in a batch, while the
\* session lasts; one without an id never is (inHandler, serviceRequest).
RequestsAnswered == part = "ws" => Manager!RequestsAnswered

\* When one of the three goroutines of the client has ended, so do the others
\* (WaitForShutdown returns), unless every place of the semaphore is held by a request
\* whose notification found no reader any more.
ClientEnds == part = "ws" => Manager!ClientEnds

\* A client is told of every payment to an address it has asked for and of every spend of
\* an output it watches, those of payments it was told of included, whatever the other
\* clients ask for meanwhile (notifyForTx and the maps it shares between clients).
WatchersTold == part = "manager" => Manager!WatchersTold

\* A client with a filter is told of every transaction the pool accepts that pays one of
\* its addresses or spends an output that did so before (subscribedClients).
FilterTold == part = "manager" => Manager!FilterTold

\* When a client's removal has been handled nothing is kept of it, unless one of its
\* requests registers it again afterwards.
RemovedIsForgotten == part = "manager" => Manager!RemovedIsForgotten

\* A rescan without an end that finishes has notified of every payment and spend in the main
\* chain from its first block on, and nothing is missed where the scan hands over to the
\* notifications (Pause, Resume), also when blocks come or the chain is reorganized then.
NothingMissed == part = "rescan" => Manager!NothingMissed

\* rescanblocks finds the payments and spends of the blocks it is given, and no other.
ListScanned == part = "rescan" => Manager!ListScanned

\* A rescan ends, unless the chain is cut back below what has been scanned, or the first
\* block has been pruned.
RescanEnds == part = "rescan" => (<>(part = "rescan" => Manager!RescanEnded))

\* A long poll is not left waiting on a template that no longer builds on the
\* best block, once the notifications of the blocks have run: the block may be
\* accepted anywhere between the reads of the handler and its registration
\* (handleGetBlockTemplateLongPoll, notifyLongPollers).
StaleIsWoken == part = "gbt" => Gbt!StaleIsWoken

\* A long poll that still waits although a newer template of the same block was
\* made misses no transaction of a later second than its own template: the
\* newer template was notified (updateBlockTemplate, notifyLongPollers).
OlderMissesNothing == part = "gbt" => Gbt!OlderMissesNothing

\* A miner that asks for the coinbase transaction is never refused because the
\* cached template was made for somebody who asked for the value only.
CoinbaseIsPaid == part = "gbt" => Gbt!CoinbaseIsPaid

\* The count of clients is the number of handlers between the increment and the
\* deferred decrement, so that a place is never lost (incrementClients,
\* decrementClients).
ClientsCounted == part = "http" => Gbt!ClientsCounted

\* A limited user runs no method outside rpcLimited, alone or in a batch
\* (processRequest).
LimitedStaysLimited == part = "http" => Gbt!LimitedStaysLimited

\* The replies of a batch belong to its requests, in their order: each reply
\* carries the id of a request of its own (jsonRPCRead's results).
RepliesMatch == part = "http" => Gbt!RepliesMatch

\* A call of the client to a method the node handles is understood at both
\* ends: the server accepts the parameters the wrapper produced, its handler
\* does not fail on a nil it did not expect (handleGetBlock reads
\* *c.Verbosity unguarded), and what it replies for the verbosity the
\* wrapper asked for is of a type the wrapper's future can unmarshal.  (A
\* template proposal is answered with a string or null, which
\* GetBlockTemplate cannot read.)
RepliesParse == part = "calls" => Calls!RepliesParse

\* What a handler works with is what the call meant: an argument that was
\* given arrives at its own position, and one that was left out has the
\* default the command declares, although makeParams drops only the trailing
\* nils, UnmarshalCmd fills in defaults only behind the last parameter, and
\* each handler has constants of its own for a nil field.
OmittedMeansDefault == part = "calls" => Calls!OmittedMeansDefault

\* NewCmd never changes the number it is given: an argument that is accepted
\* has the value it had, within the range of the field, and one is refused
\* only if the field cannot hold it.  (A string is first parsed at the width
\* of the machine word, which no field exceeds.)
ConvertedOrRefused == part = "calls" => Calls!ConvertedOrRefused

\* Every notification the node can send reaches the callback of its method,
\* if the client has set it, with as many values as the server gave: none is
\* dropped as "invalid" for the number or the types of its parameters, also
\* when the nil block of a recvtx or redeemingtx was left out on the way.
NotesDelivered == part = "notes" => Calls!NotesDelivered

\* Blocks.  While the chain only grows, a query for a block the snapshot
\* covered when it started never fails: its confirmations count from a tip at
\* least as high as then, and the next hash is that of the block's child,
\* absent only for the tip (rpcserver.go: the three reads of handleGetBlock;
\* chain.go: connectBlock sets the view before the snapshot).
BlocksTold == part = "queries" => Queries!BlocksTold

\* Transactions.  While the chain only grows, a transaction that was in the
\* pool or the chain when the query started is found, although it may be
\* moving from one to the other, with at least one confirmation when it is
\* told as mined (handleGetRawTransaction asks the pool before the index).
KnownTxsTold == part = "queries" => Queries!KnownTxsTold

\* Outputs.  While the chain only grows, gettxout answers null only for an
\* output that is spent, and never with less than one confirmation
\* (handleGetTxOut reads the best state after the entry).
OutputsTold == part = "queries" => Queries!OutputsTold

\* Walks.  While the chain only grows, the two queries that walk over heights
\* find every block, each the parent of the one above it.
WalksConnected == part = "queries" => Queries!WalksConnected

\* Pages.  While nothing moves, searchrawtransactions returns the page that
\* the skip and count name of the pool's and the chain's transactions in one
\* list, however the page falls on the boundary between the two.
SearchExact == part = "queries" => Queries!SearchExact

\* Whatever blocks do to the index between the pages, a scan reads its rows
\* in order and never one twice, and skips no row that was there all the time
\* below the last one it read (expiryindex.go: the cursor row is skipped only
\* if it is still there).
PagesJoin == part = "scan" => Queries!PagesJoin

\* When a listing has ended every row of its range that was there all the
\* time and holds the minimum amount has been listed, also when whole pages
\* were filtered out ("the cursor always advances past the last *scanned*
\* item").
ListingComplete == part = "scan" => Queries!ListingComplete

\* The candidates for the plan are the first of the expired rows, as many as
\* its bound allows.
PlanCollectsFirst == part = "scan" => Queries!PlanCollectsFirst

----------------------------------------------------------------------------
\* The RPC client (rpcclient): over connections that break, every request is
\* answered exactly once, registrations are resumed, and a shutdown leaves
\* nobody waiting; over HTTP a request is posted again only when it may be.
ClientSound ==
    /\ part = "client" => Client!ClientTypeOK
    /\ part = "post" => Client!PostTypeOK
    /\ AnsweredOnce /\ ShutdownEnds /\ ResumedAfterReconnect
    /\ PostAnswered /\ PostedOnce

\* The websocket server: a client gets its replies and its notifications in
\* order until it leaves, is told all it registered for and forgotten after,
\* and a rescan ends and misses nothing though the chain is reorganized under
\* it.
NotificationsSound ==
    /\ [](/\ part = "ws" => Manager!WsTypeOK
          /\ part = "manager" => Manager!ManagerTypeOK
          /\ part = "rescan" => Manager!RescanTypeOK
          /\ part = "notes" => Calls!NoteTypeOK
          /\ NtfnsInOrder /\ RequestsAnswered /\ ClientEnds
          /\ WatchersTold /\ FilterTold /\ RemovedIsForgotten
          /\ NothingMissed /\ ListScanned /\ NotesDelivered)
    /\ RescanEnds

\* The answers of the RPC server: a long poll is woken when its template is
\* stale, clients are counted and limited users stay limited, replies match
\* their requests, commands survive the codec, and queries and paged scans tell
\* the truth about a chain that moves while they read it.
AnswersSound ==
    /\ part = "gbt" => Gbt!GbtTypeOK
    /\ part = "http" => Gbt!HttpTypeOK
    /\ part = "calls" => Calls!CallTypeOK
    /\ part = "queries" => Queries!QueryTypeOK
    /\ part = "scan" => Queries!ScanTypeOK
    /\ StaleIsWoken /\ OlderMissesNothing /\ CoinbaseIsPaid
    /\ ClientsCounted /\ LimitedStaysLimited /\ RepliesMatch
    /\ RepliesParse /\ OmittedMeansDefault /\ ConvertedOrRefused
    /\ BlocksTold /\ KnownTxsTold /\ OutputsTold
    /\ WalksConnected /\ SearchExact /\ PagesJoin
    /\ ListingComplete /\ PlanCollectsFirst
============================================================================
