----------------------------- MODULE RpcServer ------------------------------
(***************************************************************************)
(* The HTTP side of the RPC server (rpcserver.go): the limit on clients,    *)
(* basic authentication, the reading of single and batched JSON-RPC         *)
(* requests, their dispatch to a handler and the reply, and the stop of the *)
(* server.                                                                  *)
(*                                                                          *)
(* A request is a record: whether it parses, its version ("" when it names  *)
(* none that is valid), its id and the table its method is in.  Running a   *)
(* handler is recorded, its result is not: the commands have modules of     *)
(* their own.                                                               *)
(***************************************************************************)
EXTENDS Naturals, Sequences, FiniteSets

CONSTANTS
    Conns,              \* the HTTP connections
    Posts,              \* what a connection may post
    RPCMaxClients,      \* the option rpcmaxclients
    RPCQuirks           \* the option rpcquirks

RpcServerAssumption == RPCMaxClients \in Nat \ {0} /\ RPCQuirks \in BOOLEAN

VARIABLES
    conn,           \* each connection: its post, where its handler is, what it answered
    numClients,
    srv             \* the server: shutdown, listening, ntfnMgr, quit and who called Stop

httpVars == <<conn, numClients, srv>>

NoReply == [id |-> "none", what |-> "none"]
NullId  == "null"

\* A reply is made only for a valid version and an id that is a string, a
\* number or null (NewResponse, MarshalResponse).
MarshalResponse(version, id, what) ==
    IF version # "" /\ id # "object" THEN [id |-> id, what |-> what] ELSE NoReply

\* checkAuth: what the Authorization header is worth.
checkAuth(header) ==
    [ok |-> header \in {"limited", "admin"}, isAdmin |-> header = "admin"]

\* A method is in the table of the limited user ("read") or not ("write"), is
\* left to a wallet, not implemented, unknown, or has no name.
rpcLimited == {"read"}
rpcHandlers == {"read", "write"}
rpcKnown == rpcHandlers \cup {"wallet", "unimplemented"}

\* standardCmdResult, parseCmd: the handler runs when its parameters parse.
standardCmdResult(e) ==
    [ran |-> e.method \in rpcHandlers /\ e.params,
     what |-> IF e.method \in rpcHandlers /\ e.params THEN "result" ELSE "error"]

\* processRequest: the limit on the user comes first, then the malformed
\* request, which is answered whatever its id, then the notification, which is
\* neither run nor answered.
processRequest(e, isAdmin) ==
    IF ~isAdmin /\ e.method \notin rpcLimited
    THEN [ran |-> FALSE, reply |-> MarshalResponse(e.version, e.id, "unauthorized")]
    ELSE IF e.method = ""
    THEN [ran |-> FALSE, reply |-> MarshalResponse(e.version, e.id, "malformed")]
    ELSE IF e.id = NullId
    THEN [ran |-> FALSE, reply |-> NoReply]
    ELSE [ran |-> standardCmdResult(e).ran,
          reply |-> MarshalResponse(e.version, e.id, standardCmdResult(e).what)]


-----------------------------------------------------------------------------
\* The handler of a connection.

At(c, at) == conn[c].at = at
Goes(c, at) == conn' = [conn EXCEPT ![c].at = at]

\* limitConnections reads the count; the handler adds one to it later.
limitConnections(c) ==
    /\ At(c, "accepted")
    /\ IF numClients + 1 > RPCMaxClients
       THEN conn' = [conn EXCEPT ![c] = [@ EXCEPT !.at = "closed", !.status = 503]]
       ELSE Goes(c, "limited")
    /\ UNCHANGED <<numClients, srv>>

incrementClients(c) ==
    /\ At(c, "limited")
    /\ numClients' = numClients + 1
    /\ Goes(c, "counted")
    /\ UNCHANGED srv

\* The deferred decrementClients at every return.
decrementClients(c) ==
    /\ At(c, "leaving")
    /\ numClients' = numClients - 1
    /\ Goes(c, "closed")
    /\ UNCHANGED srv

Authenticate(c) ==
    /\ At(c, "counted")
    /\ LET auth == checkAuth(conn[c].post.header) IN
       conn' = [conn EXCEPT ![c] =
            IF auth.ok THEN [@ EXCEPT !.at = "reading", !.isAdmin = auth.isAdmin]
            ELSE [@ EXCEPT !.at = "leaving", !.status = 401]]
    /\ UNCHANGED <<numClients, srv>>


\* A request that does not parse leaves its fields empty.
Blank == [parses |-> FALSE, version |-> "", id |-> NullId, method |-> "", params |-> FALSE]

\* The request the single path goes on with: the parse error's reply is made,
\* which clears the error, and then the request is looked at as any other.
SingleRequest(post) == IF post.entries[1].parses THEN post.entries[1] ELSE Blank

\* No reply at all: a request without an id, unless quirks are on and it names
\* no version.
Unanswered(e) == e.id = NullId /\ ~(RPCQuirks /\ e.version = "")

\* jsonRPCRead up to the first request: nothing is read once the server is
\* shutting down, an unreadable body gets its status.  The batch that does not
\* parse and the empty one are answered by one error.
Read(c) ==
    /\ At(c, "reading")
    /\ LET post == conn[c].post IN
       conn' = [conn EXCEPT ![c] =
            IF srv.shutdown THEN [@ EXCEPT !.at = "leaving"]
            ELSE IF post.form = "broken" THEN [@ EXCEPT !.at = "leaving", !.status = 400]
            ELSE IF post.form = "single"
            THEN IF Unanswered(SingleRequest(post))
                 THEN [@ EXCEPT !.at = "leaving"]
                 ELSE [@ EXCEPT !.at = "processing"]
            ELSE IF post.form = "unparsed"
            THEN [@ EXCEPT !.at = "writing", !.results = <<MarshalResponse("2", NullId, "parse")>>]
            ELSE IF post.entries = <<>>
            THEN [@ EXCEPT !.at = "writing", !.results = <<MarshalResponse("2", NullId, "empty")>>]
            ELSE [@ EXCEPT !.at = "processing"]]
    /\ UNCHANGED <<numClients, srv>>

Results(results, reply) == IF reply = NoReply THEN results ELSE Append(results, reply)

\* One entry of a batch, or the single request.  An entry of a batch that is not
\* a request is answered with no version, which is no answer.
Process(c) ==
    /\ At(c, "processing")
    /\ LET post == conn[c].post
           e == post.entries[conn[c].i]
           done == IF post.form = "single" THEN processRequest(SingleRequest(post), conn[c].isAdmin)
                   ELSE IF e.parses THEN processRequest(e, conn[c].isAdmin)
                   ELSE [ran |-> FALSE, reply |-> MarshalResponse("", NullId, "invalid")]
       IN conn' = [conn EXCEPT ![c] = [@ EXCEPT
                !.results = Results(@, done.reply),
                !.ran = IF done.ran THEN @ \cup {conn[c].i} ELSE @,
                !.i = @ + 1,
                !.at = IF conn[c].i = Len(post.entries) THEN "writing" ELSE @]]
    /\ UNCHANGED <<numClients, srv>>


\* The status line and the results: all of them for a batch, the first one
\* otherwise, nothing when there is none.
Write(c) ==
    /\ At(c, "writing")
    /\ conn' = [conn EXCEPT ![c] = [@ EXCEPT !.at = "leaving", !.status = 200,
            !.results = IF conn[c].post.form = "batch" THEN @
                        ELSE SubSeq(@, 1, IF @ = <<>> THEN 0 ELSE 1)]]
    /\ UNCHANGED <<numClients, srv>>

-----------------------------------------------------------------------------
\* Start and Stop.

\* httpServer.Serve hands a connection to the handler while its listener is open.
Serve(c) ==
    /\ srv.listening
    /\ At(c, "none")
    /\ \E post \in Posts : conn' = [conn EXCEPT ![c] = [@ EXCEPT !.at = "accepted", !.post = post]]
    /\ UNCHANGED <<numClients, srv>>

\* Stop: the first caller closes the listeners, stops the notification manager
\* and closes quit; it gives up when a listener cannot be closed.
Stop ==
    /\ ~srv.shutdown
    /\ \/ srv' = [shutdown |-> TRUE, listening |-> FALSE, ntfnMgr |-> FALSE, quit |-> TRUE]
       \/ srv' = [srv EXCEPT !.shutdown = TRUE]
    /\ UNCHANGED <<conn, numClients>>

HttpInit ==
    /\ conn = [c \in Conns |->
            [at |-> "none", post |-> [header |-> "none", form |-> "none", entries |-> <<>>],
             isAdmin |-> FALSE, i |-> 1, results |-> <<>>, ran |-> {}, status |-> 0]]
    /\ numClients = 0
    /\ srv = [shutdown |-> FALSE, listening |-> TRUE, ntfnMgr |-> TRUE, quit |-> FALSE]

HttpNext ==
    \/ \E c \in Conns : Serve(c)
    \/ \E c \in Conns : limitConnections(c)
    \/ \E c \in Conns : incrementClients(c)
    \/ \E c \in Conns : Authenticate(c)
    \/ \E c \in Conns : Read(c)
    \/ \E c \in Conns : Process(c)
    \/ \E c \in Conns : Write(c)
    \/ \E c \in Conns : decrementClients(c)
    \/ Stop

-----------------------------------------------------------------------------

Inside == {"counted", "reading", "processing", "writing", "leaving"}

\* The variables of the HTTP server have their types.
HttpTypeOK ==
    /\ numClients \in 0..Cardinality(Conns)
    /\ \A c \in Conns :
        /\ conn[c].at \in Inside \cup {"none", "accepted", "limited", "closed"}
        /\ conn[c].ran \subseteq 1..Len(conn[c].post.entries)

\* The count of clients is the number of handlers between the increment and the
\* deferred decrement, so that a place is never lost (incrementClients,
\* decrementClients).
ClientsCounted == numClients = Cardinality({c \in Conns : conn[c].at \in Inside})

\* A limited user runs no method outside rpcLimited, alone or in a batch
\* (processRequest).
LimitedStaysLimited ==
    \A c \in Conns : \A i \in conn[c].ran :
        conn[c].post.header = "admin" \/ conn[c].post.entries[i].method \in rpcLimited

Chosen(entries, results) ==
    {f \in [1..Len(results) -> 1..Len(entries)] :
        /\ \A i, j \in 1..Len(results) : i < j => f[i] < f[j]
        /\ \A i \in 1..Len(results) : entries[f[i]].id = results[i].id}

\* The replies of a batch belong to its requests, in their order: each reply
\* carries the id of a request of its own (jsonRPCRead's results).
RepliesMatch ==
    \A c \in Conns :
        (conn[c].post.form = "batch" /\ conn[c].post.entries # <<>>) =>
            Chosen(conn[c].post.entries, conn[c].results) # {}

\* "Limit the number of connections to max allowed."
ClientsWithinMax == numClients <= RPCMaxClients

\* "With RPC quirks enabled, such requests will be responded to if the request
\* does not indicate JSON-RPC version": a request without an id.
QuirksAnswered ==
    \A c \in Conns :
        (/\ conn[c].status = 200
         /\ conn[c].post.form = "single"
         /\ conn[c].post.entries[1].parses
         /\ conn[c].post.entries[1].id = NullId
         /\ conn[c].post.entries[1].version = "") => conn[c].results # <<>>

\* Every request that could not be parsed is told so.
ParseErrorsTold ==
    \A c \in Conns :
        (/\ conn[c].at = "closed"
         /\ conn[c].post.form = "single"
         /\ conn[c].status \notin {503, 401}
         /\ ~srv.shutdown
         /\ ~conn[c].post.entries[1].parses) => conn[c].results # <<>>

-----------------------------------------------------------------------------
(***************************************************************************)
(* The getblocktemplate work state of rpcserver.go: one cached template     *)
(* shared by all the miners, refreshed under a lock, and the long polls     *)
(* that wait for a template to be replaced.                                 *)
(*                                                                          *)
(* A template is the block it builds on, the state of the pool it was made  *)
(* from and whether its coinbase pays an address.  The lock of the work     *)
(* state is held while the chain and the pool are read, and they move       *)
(* meanwhile: updateBlockTemplate is three steps.  The goroutines that      *)
(* NotifyBlockConnected and NotifyMempoolTx start run in any order.  Time   *)
(* is counted in ticks; ids and channels keep whole seconds only.           *)
(***************************************************************************)

CONSTANTS
    Miners,             \* the callers of getblocktemplate
    CoinbaseTxn,        \* those of them that ask for the coinbase transaction
    Situations,         \* the moves of the chain, how many transactions enter the
                        \* pool and the last instant
    MaxAsks,            \* how many calls a miner makes
    TicksPerSecond,
    RegenerateTicks     \* gbtRegenerateSeconds

GbtAssumption ==
    /\ MaxAsks \in Nat
    /\ CoinbaseTxn \subseteq Miners
    /\ {TicksPerSecond, RegenerateTicks} \subseteq Nat \ {0}

VARIABLES
    tip,            \* the best block
    ahead,          \* what is still to come (moves, txs, until), and whether
                    \* invalidateblock was called (lowered)
    now,
    pool,           \* [txs: how many entered, updated: LastUpdated, 0 is never]
    gbt,            \* template, prevHash, lastGenerated, lastTxUpdate
    notifyMap,      \* the open channels, one for each (hash, second)
    notes,          \* the goroutines that have still to notify
    lock,           \* the miner whose handler holds the work state, or Nobody
    miner,          \* each miner's call
    spurious        \* a poll was woken although its template is not stale

gbtVars == <<tip, ahead, now, pool, gbt, notifyMap, notes, lock, miner, spurious>>

Nobody == "nobody"
NoHash == "none"
NoId   == [hash |-> NoHash, gen |-> 0]
NoTemplate == [prev |-> NoHash, txs |-> 0, paid |-> FALSE]

Unix(t) == t \div TicksPerSecond

\* encodeTemplateID keeps the hash and the second the template was made in.
encodeTemplateID(hash, generated) == [hash |-> hash, gen |-> Unix(generated)]

-----------------------------------------------------------------------------

\* close and delete the channels of other blocks, then those of this block
\* that are older than the second of the update, when there is one
Stale(hash, updated) ==
    {c \in notifyMap : c.hash # hash \/ (updated # 0 /\ c.gen < Unix(updated))}


Waiting(c) == {m \in Miners : miner[m].at = "waiting" /\ miner[m].id = c}

\* The miners after the channels of a set were closed: whoever waits on one
\* of them goes on.
Woken(closed) ==
    [m \in Miners |->
        IF miner[m].at = "waiting" /\ miner[m].id \in closed
        THEN [miner[m] EXCEPT !.at = "woken"] ELSE miner[m]]

\* notifyLongPollers, and whether it wakes somebody whose block is the best one
\* and whose template is the newest
notifyLongPollers(hash, updated) ==
    /\ notifyMap' = notifyMap \ Stale(hash, updated)
    /\ miner' = Woken(Stale(hash, updated))
    /\ spurious' = (spurious \/ \E c \in Stale(hash, updated) :
                        /\ Waiting(c) # {}
                        /\ c.hash = tip
                        /\ pool.updated <= gbt.lastGenerated)

NotifyBlockConnected(note) ==
    /\ note.what = "block"
    /\ notifyLongPollers(note.hash, gbt.lastTxUpdate)

LongEnough == now > gbt.lastGenerated + RegenerateTicks

NotifyMempoolTx(note) ==
    /\ note.what = "tx"
    /\ IF gbt.prevHash # NoHash /\ gbt.lastGenerated # 0 /\ LongEnough
       THEN notifyLongPollers(gbt.prevHash, note.updated)
       ELSE UNCHANGED <<notifyMap, miner, spurious>>

\* Seeded fault: the block's goroutine is not started when a poll is on its way.
Notify_lossy ==
    /\ \E note \in notes :
        /\ IF lock = Nobody
           THEN NotifyBlockConnected(note) \/ NotifyMempoolTx(note)
           ELSE UNCHANGED <<notifyMap, miner, spurious>>
        /\ notes' = notes \ {note}
    /\ UNCHANGED <<tip, ahead, now, pool, gbt, lock>>
\* One of the goroutines gets the lock.
Notify ==
    /\ lock = Nobody
    /\ \E note \in notes :
        /\ NotifyBlockConnected(note) \/ NotifyMempoolTx(note)
        /\ notes' = notes \ {note}
    /\ UNCHANGED <<tip, ahead, now, pool, gbt, lock>>


-----------------------------------------------------------------------------
\* The calls.

\* handleGetBlockTemplate and handleGetBlockTemplateRequest: the call with the
\* capabilities of the miner takes the lock, with the id of a template it was
\* given (a long poll) or without.  A miner that asks for the coinbase
\* transaction is refused before that when there is no address to pay.
handleGetBlockTemplateRequest(m) ==
    /\ lock = Nobody
    /\ miner[m].at = "idle"
    /\ miner[m].asks < MaxAsks
    /\ lock' = m
    /\ \E id \in {NoId, miner[m].given} :
        miner' = [miner EXCEPT ![m] =
            [@ EXCEPT !.at = "asked", !.id = id, !.asks = @ + 1]]
    /\ UNCHANGED <<tip, ahead, now, pool, gbt, notifyMap, notes, spurious>>

\* A woken poll takes the lock again.
Resume(m) ==
    /\ lock = Nobody
    /\ miner[m].at = "woken"
    /\ lock' = m
    /\ miner' = [miner EXCEPT ![m].at = "resumed"]
    /\ UNCHANGED <<tip, ahead, now, pool, gbt, notifyMap, notes, spurious>>

\* What updateBlockTemplate reads first: the pool's last update, the present
\* when there was none, and then the best block.
ReadUpdate(m) ==
    /\ miner[m].at \in {"asked", "resumed"}
    /\ miner[m].step = "update"
    /\ miner' = [miner EXCEPT ![m] = [@ EXCEPT !.step = "tip",
            !.lastTxUpdate = IF pool.updated = 0 THEN now ELSE pool.updated]]
    /\ UNCHANGED <<tip, ahead, now, pool, gbt, notifyMap, notes, lock, spurious>>

\* The cached template will not do.
Outdated(m) ==
    \/ gbt.template = NoTemplate
    \/ gbt.prevHash = NoHash
    \/ gbt.prevHash # miner[m].latest
    \/ gbt.lastTxUpdate # miner[m].lastTxUpdate /\ LongEnough

ReadTip(m) ==
    /\ miner[m].at \in {"asked", "resumed"}
    /\ miner[m].step = "tip"
    /\ miner' = [miner EXCEPT ![m] = [@ EXCEPT !.step = "template", !.latest = tip]]
    /\ UNCHANGED <<tip, ahead, now, pool, gbt, notifyMap, notes, lock, spurious>>

\* NewBlockTemplate builds on the block that is the best one by then, or fails:
\* the work state is left without a block, and the call ends with the error.
\* A template that is kept gets an address to pay when the caller needs one.
updateBlockTemplate(m) ==
    /\ miner[m].at \in {"asked", "resumed"}
    /\ miner[m].step = "template"
    /\ \/ /\ Outdated(m)
          /\ gbt' = [template |-> [prev |-> tip, txs |-> pool.txs,
                                   paid |-> m \in CoinbaseTxn],
                     prevHash |-> miner[m].latest,
                     lastGenerated |-> now,
                     lastTxUpdate |-> miner[m].lastTxUpdate]
          /\ LET closed == Stale(miner[m].latest, miner[m].lastTxUpdate) IN
             /\ notifyMap' = notifyMap \ closed
             /\ miner' = [Woken(closed) EXCEPT ![m].step = "reply"]
          /\ UNCHANGED lock
       \/ /\ Outdated(m)
          /\ gbt' = [gbt EXCEPT !.prevHash = NoHash]
          /\ lock' = Nobody
          /\ miner' = [miner EXCEPT ![m] = [@ EXCEPT !.at = "idle", !.step = "update",
                                      !.id = NoId, !.latest = NoHash, !.lastTxUpdate = 0]]
          /\ UNCHANGED notifyMap
       \/ /\ ~Outdated(m)
          /\ gbt' = [gbt EXCEPT !.template.paid = @ \/ (m \in CoinbaseTxn)]
          /\ miner' = [miner EXCEPT ![m].step = "reply"]
          /\ UNCHANGED <<notifyMap, lock>>
    /\ UNCHANGED <<tip, ahead, now, pool, notes, spurious>>


\* The reply is made from the cached template while the lock is held.
blockTemplateResult(m) ==
    [template |-> gbt.template,
     id |-> encodeTemplateID(gbt.prevHash, gbt.lastGenerated),
     refused |-> m \in CoinbaseTxn /\ ~gbt.template.paid]

Replies(m) ==
    LET reply == blockTemplateResult(m) IN
    /\ lock' = Nobody
    /\ miner' = [miner EXCEPT ![m] = [@ EXCEPT !.at = "idle", !.step = "update",
            !.id = NoId, !.latest = NoHash, !.lastTxUpdate = 0,
            !.given = IF reply.refused THEN NoId ELSE reply.id,
            !.refused = @ \/ reply.refused]]
    /\ UNCHANGED notifyMap

\* The template a long poll names is still the cached one.
Current(m) ==
    /\ miner[m].id.hash = gbt.template.prev
    /\ miner[m].id.gen = Unix(gbt.lastGenerated)

\* handleGetBlockTemplateLongPoll after the update: an id that was not given by
\* the server, or whose template was replaced, is answered at once; otherwise
\* the call waits on the channel of the id, without the lock.
handleGetBlockTemplateLongPoll(m) ==
    /\ miner[m].step = "reply"
    /\ IF miner[m].at = "asked" /\ Current(m)
       THEN /\ notifyMap' = notifyMap \cup {miner[m].id}
            /\ lock' = Nobody
            /\ miner' = [miner EXCEPT ![m] = [@ EXCEPT !.at = "waiting", !.step = "update",
                                        !.latest = NoHash, !.lastTxUpdate = 0]]
       ELSE Replies(m)
    /\ UNCHANGED <<tip, ahead, now, pool, gbt, notes, spurious>>

\* The client goes away: closeChan ends the poll.
ClientQuits(m) ==
    /\ miner[m].at = "waiting"
    /\ miner' = [miner EXCEPT ![m] = [@ EXCEPT !.at = "idle", !.id = NoId]]
    /\ UNCHANGED <<tip, ahead, now, pool, gbt, notifyMap, notes, lock, spurious>>

-----------------------------------------------------------------------------
\* The chain, the pool and the clock.

\* A block was processed: it becomes the best one ("best") or not ("side"), and
\* is notified as accepted; invalidateblock moves the best block ("lowered")
\* without that.  Connecting a block may remove transactions from the pool.
ChainMoves ==
    /\ ahead.moves # <<>>
    /\ LET move == Head(ahead.moves) IN
       /\ ahead' = [ahead EXCEPT !.moves = Tail(@), !.lowered = @ \/ move.kind = "lowered"]
       /\ tip' = IF move.kind = "side" THEN tip ELSE move.to
       /\ notes' = IF move.kind = "lowered" THEN notes
                   ELSE notes \cup {[what |-> "block", hash |-> move.to, updated |-> 0]}
       /\ pool' \in {pool} \cup
               IF move.kind = "best" THEN {[pool EXCEPT !.updated = now]} ELSE {}
    /\ UNCHANGED <<now, gbt, notifyMap, lock, miner, spurious>>

\* NotifyNewTransactions
PoolGrows ==
    /\ pool.txs < ahead.txs
    /\ pool' = [txs |-> pool.txs + 1, updated |-> now]
    /\ notes' = notes \cup {[what |-> "tx", hash |-> NoHash, updated |-> now]}
    /\ UNCHANGED <<tip, ahead, now, gbt, notifyMap, lock, miner, spurious>>

Tick ==
    /\ now < ahead.until
    /\ now' = now + 1
    /\ UNCHANGED <<tip, ahead, pool, gbt, notifyMap, notes, lock, miner, spurious>>

GbtInit ==
    /\ tip = "genesis"
    /\ ahead \in Situations
    /\ now = TicksPerSecond
    /\ pool = [txs |-> 0, updated |-> 0]
    /\ gbt = [template |-> NoTemplate, prevHash |-> NoHash,
              lastGenerated |-> 0, lastTxUpdate |-> 0]
    /\ notifyMap = {}
    /\ notes = {}
    /\ lock = Nobody
    /\ miner = [m \in Miners |->
            [at |-> "idle", step |-> "update", id |-> NoId, given |-> NoId, asks |-> 0,
             latest |-> NoHash, lastTxUpdate |-> 0,
             refused |-> FALSE]]
    /\ spurious = FALSE

GbtNext ==
    \/ Notify
    \/ \E m \in Miners : handleGetBlockTemplateRequest(m)
    \/ \E m \in Miners : Resume(m)
    \/ \E m \in Miners : ReadUpdate(m)
    \/ \E m \in Miners : ReadTip(m)
    \/ \E m \in Miners : updateBlockTemplate(m)
    \/ \E m \in Miners : handleGetBlockTemplateLongPoll(m)
    \/ \E m \in Miners : ClientQuits(m)
    \/ ChainMoves
    \/ PoolGrows
    \/ Tick

-----------------------------------------------------------------------------

\* The variables of the work state have their types.
GbtTypeOK ==
    /\ now \in 0..ahead.until
    /\ gbt.lastGenerated \in 0..now
    /\ gbt.lastTxUpdate \in 0..now
    /\ lock \in Miners \cup {Nobody}
    /\ \A m \in Miners :
        /\ miner[m].at \in {"idle", "asked", "waiting", "woken", "resumed"}
        /\ (lock = m) <=> (miner[m].at \in {"asked", "resumed"})

\* Every notification was delivered and nobody is in the middle of a call.
Delivered == notes = {} /\ lock = Nobody

\* A long poll is not left waiting on a template that no longer builds on the
\* best block, once the notifications of the blocks have run: the block may be
\* accepted anywhere between the reads of the handler and its registration
\* (handleGetBlockTemplateLongPoll, notifyLongPollers).
StaleIsWoken ==
    Delivered =>
        \A m \in Miners : miner[m].at = "waiting" =>
            miner[m].id.hash = tip \/ ahead.lowered

\* The same, whatever moved the best block.
StaleIsAlwaysWoken ==
    Delivered => \A m \in Miners : miner[m].at = "waiting" => miner[m].id.hash = tip

\* A long poll that still waits although a newer template of the same block was
\* made misses no transaction of a later second than its own template: the
\* newer template was notified (updateBlockTemplate, notifyLongPollers).
OlderMissesNothing ==
    Delivered =>
        \A m \in Miners :
            (miner[m].at = "waiting" /\ miner[m].id.hash = gbt.prevHash) =>
                Unix(gbt.lastTxUpdate) <= miner[m].id.gen

\* "Notify any clients that are long polling about the new template": nobody
\* waits on a template that was replaced.
ReplacedWakes ==
    Delivered =>
        \A m \in Miners :
            (miner[m].at = "waiting" /\ miner[m].id.hash = gbt.prevHash) =>
                Unix(gbt.lastGenerated) <= miner[m].id.gen

\* A miner that asks for the coinbase transaction is never refused because the
\* cached template was made for somebody who asked for the value only.
CoinbaseIsPaid == \A m \in Miners : ~miner[m].refused

\* A poll is woken only "when their existing block template is stale".
WokenOnlyIfStale == ~spurious
=============================================================================
