----------------------------- MODULE RpcClient ------------------------------
(***************************************************************************)
(* The websocket RPC client (rpcclient/infrastructure.go): callers, the    *)
(* two goroutines of each connection, the one that reconnects and the ones *)
(* that resend, over connections that may break.  Connections are numbered *)
(* in the order they are made; the disconnect channel made with one has    *)
(* its number.                                                             *)
(***************************************************************************)
EXTENDS Naturals, Sequences, FiniteSets, SequencesExt

CONSTANTS
  Calls,        \* identifiers of the application's requests
  Registrations,\* the kinds of request that ask for notifications, in the order they
                \* are made again
  Situations,   \* records: kind (of every call, "none" for no call), auto (reconnect), refused (the
                \* registrations the server refuses), breaks (how many connections may
                \* break), stops (whether the application shuts the client down)
  SendBuffer,   \* sendBufferSize
  MaxConns

VARIABLES
  world,     \* one of Situations
  client,    \* the fields behind the locks
  pending,   \* requestList, with the requests of requestMap
  sendChan,
  caller,    \* request -> where its SendCmd is
  answer,    \* request -> what was put in its responseChan
  inH, outH, \* wsInHandler, wsOutHandler of every connection; stole: whether it drained
             \* a message when a later connection was in use
  recon,     \* wsReconnectHandler
  resend,    \* resendRequests of every connection
  net        \* connection -> what is under way, and what the server keeps for it
clientVars == <<world, client, pending, sendChan, caller, answer, inH, outH, recon, resend, net>>

Conns == 1..MaxConns
Requests == Calls \cup (Conns \X Range(Registrations))
Kind(id) == IF id \in Calls THEN world.kind[id] ELSE id[2]
ignoreResends == {"rescan"}
Off(c) == c \notin client.open

-----------------------------------------------------------------------------
(* Pieces.                                                                   *)

AnswerAll(ids, what) ==
  answer' = [id \in Requests |-> IF id \in ids THEN Append(answer[id], what) ELSE answer[id]]
Answer(id, what) == AnswerAll({id}, what)

doDisconnect(f) ==
  IF f.disconnected THEN f
  ELSE [f EXCEPT !.disconnected = TRUE, !.open = @ \ {f.conn}]
\* Disconnect; without automatic reconnection a second part follows under the request
\* lock, for the one that did disconnect.
Disconnect(then, done) ==
  /\ client' = doDisconnect(client)
  /\ IF client.disconnected \/ world.auto THEN done ELSE then

\* Everyone that waits is told, and the client is shut down.
FailPending(what) ==
  /\ AnswerAll(Range(pending), what)
  /\ pending' = <<>>

\* A select between room in sendChan and a disconnect channel.
SendOrGiveUp(id, ch) ==
  \/ Len(sendChan) < SendBuffer /\ sendChan' = Append(sendChan, id)
  \/ Off(ch) /\ UNCHANGED sendChan

-----------------------------------------------------------------------------
(* The application.                                                          *)

\* Connect, or New when it connects.
Connect ==
  /\ ~client.established /\ ~client.disconnected
  /\ client' = [client EXCEPT !.established = TRUE, !.conn = 1, !.open = {1}]
  /\ inH' = [inH EXCEPT ![1] = [@ EXCEPT !.at = "top"]]
  /\ outH' = [outH EXCEPT ![1] = [@ EXCEPT !.at = "top"]]
  /\ recon' = IF world.auto THEN "wait" ELSE "none"
  /\ net' = [net EXCEPT ![1].up = TRUE]
  /\ UNCHANGED <<world, pending, sendChan, caller, answer, resend>>

sendRequest(id) ==
  /\ caller[id].at = "idle" /\ id \in Calls /\ Kind(id) # "none"
  /\ IF client.established
     THEN caller' = [caller EXCEPT ![id].at = "add"] /\ UNCHANGED answer
     ELSE caller' = [caller EXCEPT ![id].at = "wait"] /\ Answer(id, "not connected")
  /\ UNCHANGED <<world, client, pending, sendChan, inH, outH, recon, resend, net>>
\* addRequest, and the disconnect channel the select will wait on.
addRequest(id) ==
  /\ caller[id].at = "add"
  /\ IF client.shut
     THEN /\ Answer(id, "shutdown") /\ caller' = [caller EXCEPT ![id].at = "wait"]
          /\ UNCHANGED pending
     ELSE /\ pending' = Append(pending, id)
          /\ caller' = [caller EXCEPT ![id] = [at |-> "select", ch |-> client.conn]]
          /\ UNCHANGED answer
  /\ UNCHANGED <<world, client, sendChan, inH, outH, recon, resend, net>>
sendMessage(id) ==
  /\ caller[id].at = "select" /\ SendOrGiveUp(id, caller[id].ch)
  /\ caller' = [caller EXCEPT ![id].at = "wait"]
  /\ UNCHANGED <<world, client, pending, answer, inH, outH, recon, resend, net>>

Shutdown ==
  /\ world.stops /\ client.established /\ ~client.shut
  /\ FailPending("shutdown")
  /\ client' = doDisconnect([client EXCEPT !.shut = TRUE])
  /\ UNCHANGED <<world, sendChan, caller, inH, outH, recon, resend, net>>

-----------------------------------------------------------------------------
(* The goroutines of a connection.                                           *)

trackRegisteredNtfns(id) ==
  IF Kind(id) \in Range(Registrations) THEN client.tracked \cup {Kind(id)} ELSE client.tracked

\* Seeded fault: the request stays in the list until its caller has been told.
handleMessage_keeps(m) ==
  /\ UNCHANGED pending
  /\ IF \E i \in DOMAIN pending : pending[i] = m.id
     THEN /\ client' = [client EXCEPT !.tracked = trackRegisteredNtfns(m.id)]
          /\ Answer(m.id, IF m.ok THEN "result" ELSE "error")
     ELSE UNCHANGED <<client, answer>>
\* An answer: the request leaves the list, and what it registered is kept in mind
\* whether or not it was granted.
handleMessage(m) ==
  /\ pending' = SelectSeq(pending, LAMBDA x : x # m.id)
  /\ IF \E i \in DOMAIN pending : pending[i] = m.id
     THEN /\ client' = [client EXCEPT !.tracked = trackRegisteredNtfns(m.id)]
          /\ Answer(m.id, IF m.ok THEN "result" ELSE "error")
     ELSE UNCHANGED <<client, answer>>

wsInHandler(c) ==
  \/ /\ inH[c].at = "top"
     /\ inH' = [inH EXCEPT ![c] = IF client.shut THEN [@ EXCEPT !.at = "leave"]
                                  ELSE [at |-> "read", conn |-> client.conn]]
     /\ UNCHANGED <<client, pending, answer, net>>
  \/ /\ inH[c].at = "read" /\ ~Off(inH[c].conn) /\ net[inH[c].conn].toClient # <<>>
     /\ handleMessage(Head(net[inH[c].conn].toClient))
     /\ net' = [net EXCEPT ![inH[c].conn].toClient = Tail(@)]
     /\ inH' = [inH EXCEPT ![c].at = "top"]
  \/ /\ inH[c].at = "read" /\ (Off(inH[c].conn) \/ ~net[inH[c].conn].up)
     /\ inH' = [inH EXCEPT ![c].at = "leave"]
     /\ UNCHANGED <<client, pending, answer, net>>
  \/ /\ inH[c].at = "leave"
     /\ Disconnect(inH' = [inH EXCEPT ![c].at = "fail"], inH' = [inH EXCEPT ![c].at = "gone"])
     /\ UNCHANGED <<pending, answer, net>>
  \/ /\ inH[c].at = "fail"
     /\ FailPending("disconnected")
     /\ client' = [client EXCEPT !.shut = TRUE]
     /\ inH' = [inH EXCEPT ![c].at = "gone"]
     /\ UNCHANGED net
InStep(c) == wsInHandler(c) /\ UNCHANGED <<world, sendChan, caller, outH, recon, resend>>

\* The channel is read anew before every select, and the connection at every write.
wsOutHandler(c) ==
  LET h == outH[c]
      To(at) == outH' = [outH EXCEPT ![c].at = at]
  IN  \/ /\ h.at = "top"
         /\ outH' = [outH EXCEPT ![c] = [@ EXCEPT !.at = "select", !.ch = client.conn]]
         /\ UNCHANGED <<client, pending, answer, sendChan, net>>
      \/ /\ h.at = "select" /\ sendChan # <<>>
         /\ outH' = [outH EXCEPT ![c] = [@ EXCEPT !.at = "write", !.msg = <<Head(sendChan)>>]]
         /\ sendChan' = Tail(sendChan)
         /\ UNCHANGED <<client, pending, answer, net>>
      \/ h.at = "select" /\ Off(h.ch) /\ To("drain") /\ UNCHANGED <<client, pending, answer, sendChan, net>>
      \/ /\ h.at = "write" /\ ~Off(client.conn) /\ net[client.conn].up
         /\ net' = [net EXCEPT ![client.conn].toServer = @ \o h.msg]
         /\ outH' = [outH EXCEPT ![c] = [@ EXCEPT !.at = "top", !.msg = <<>>]]
         /\ UNCHANGED <<client, pending, answer, sendChan>>
      \/ /\ h.at = "write" /\ (Off(client.conn) \/ ~net[client.conn].up)
         /\ Disconnect(outH' = [outH EXCEPT ![c] = [@ EXCEPT !.at = "fail", !.msg = <<>>]],
                       outH' = [outH EXCEPT ![c] = [@ EXCEPT !.at = "drain", !.msg = <<>>]])
         /\ UNCHANGED <<pending, answer, sendChan, net>>
      \/ /\ h.at = "fail"
         /\ FailPending("disconnected")
         /\ client' = [client EXCEPT !.shut = TRUE]
         /\ To("drain")
         /\ UNCHANGED <<sendChan, net>>
      \/ /\ h.at = "drain"
         /\ IF sendChan = <<>> THEN To("gone") /\ UNCHANGED sendChan
            ELSE /\ sendChan' = Tail(sendChan)
                 /\ outH' = [outH EXCEPT ![c].stole = @ \/ client.conn > c]
         /\ UNCHANGED <<client, pending, answer, net>>
OutStep(c) == wsOutHandler(c) /\ UNCHANGED <<world, caller, inH, recon, resend>>

-----------------------------------------------------------------------------
(* Reconnecting.                                                             *)

\* A dial that fails is tried again and changes nothing else.
wsReconnectHandler ==
  \/ /\ recon = "wait" /\ Off(client.conn) /\ recon' = "dial"
     /\ UNCHANGED <<client, inH, outH, resend, net>>
  \/ /\ recon \in {"wait", "dial"} /\ client.shut /\ recon' = "gone"
     /\ UNCHANGED <<client, inH, outH, resend, net>>
  \/ /\ recon = "dial" /\ ~client.shut /\ client.conn < MaxConns
     /\ recon' = "dialed"
     /\ UNCHANGED <<client, inH, outH, resend, net>>
  \/ /\ recon = "dialed"
     /\ LET c == client.conn + 1
        IN  /\ client' = [client EXCEPT !.conn = c, !.open = @ \cup {c}, !.disconnected = FALSE]
            /\ net' = [net EXCEPT ![c].up = TRUE]
            /\ inH' = [inH EXCEPT ![c].at = "top"]
            /\ outH' = [outH EXCEPT ![c].at = "top"]
            /\ resend' = [resend EXCEPT ![c].at = "copy"]
            /\ recon' = "wait"
ReconStep == wsReconnectHandler /\ UNCHANGED <<world, pending, sendChan, caller, answer>>

\* Registrations first, one after the other, then what was not answered.
reregisterNtfns == SelectSeq(Registrations, LAMBDA k : k \in client.tracked)
Resendable == SelectSeq(pending, LAMBDA id : Kind(id) \notin ignoreResends)
resendRequests(c) ==
  LET r == resend[c]
      To(at, todo) == resend' = [resend EXCEPT ![c] = [@ EXCEPT !.at = at, !.todo = todo]]
      id == <<c, Head(r.todo)>>
  IN  \/ /\ r.at = "copy" /\ To("register", reregisterNtfns)
         /\ UNCHANGED <<client, pending, sendChan, caller, answer>>
      \/ /\ r.at = "register" /\ r.todo = <<>> /\ To("resend", Resendable)
         /\ pending' = Resendable
         /\ UNCHANGED <<client, sendChan, caller, answer>>
      \/ /\ r.at = "register" /\ r.todo # <<>> /\ caller[id].at = "idle"
         /\ caller' = [caller EXCEPT ![id].at = "add"]
         /\ UNCHANGED <<client, pending, sendChan, answer, resend>>
      \/ /\ r.at = "register" /\ r.todo # <<>> /\ caller[id].at = "wait" /\ answer[id] # <<>>
         /\ IF answer[id][1] = "result"
            THEN To("register", Tail(r.todo)) /\ UNCHANGED client
            ELSE Disconnect(To("fail", <<>>), To("gone", <<>>))
         /\ UNCHANGED <<pending, sendChan, caller, answer>>
      \/ /\ r.at = "resend"
         /\ IF r.todo = <<>> \/ client.disconnected THEN To("gone", <<>>)
            ELSE resend' = [resend EXCEPT ![c] = [@ EXCEPT !.at = "select", !.ch = client.conn]]
         /\ UNCHANGED <<client, pending, sendChan, caller, answer>>
      \/ /\ r.at = "select" /\ SendOrGiveUp(Head(r.todo), r.ch) /\ To("resend", Tail(r.todo))
         /\ UNCHANGED <<client, pending, caller, answer>>
ResendStep(c) == resendRequests(c) /\ UNCHANGED <<world, inH, outH, recon, net>>

-----------------------------------------------------------------------------
(* The server and the network (external).                                    *)

Serve(c) ==
  /\ net[c].up /\ net[c].toServer # <<>>
  /\ LET id == Head(net[c].toServer)
         ok == Kind(id) \notin world.refused
     IN  net' = [net EXCEPT ![c].toServer = Tail(@),
                            ![c].toClient = Append(@, [id |-> id, ok |-> ok]),
                            ![c].regs = IF ok /\ Kind(id) \in Range(Registrations)
                                        THEN @ \cup {Kind(id)} ELSE @]
  /\ UNCHANGED <<world, client, pending, sendChan, caller, answer, inH, outH, recon, resend>>
Break(c) ==
  /\ net[c].up
  /\ world.breaks > 0 /\ world' = [world EXCEPT !.breaks = @ - 1]
  /\ net' = [net EXCEPT ![c] = [@ EXCEPT !.up = FALSE, !.toServer = <<>>, !.toClient = <<>>]]
  /\ UNCHANGED <<client, pending, sendChan, caller, answer, inH, outH, recon, resend>>

-----------------------------------------------------------------------------
ClientInit ==
  /\ world \in Situations
  /\ client = [established |-> FALSE, conn |-> 0, open |-> {}, disconnected |-> FALSE,
               shut |-> FALSE, tracked |-> {}]
  /\ pending = <<>> /\ sendChan = <<>>
  /\ caller = [id \in Requests |-> [at |-> "idle", ch |-> 0]]
  /\ answer = [id \in Requests |-> <<>>]
  /\ inH = [c \in Conns |-> [at |-> "none", conn |-> 0]]
  /\ outH = [c \in Conns |-> [at |-> "none", ch |-> 0, msg |-> <<>>, stole |-> FALSE]]
  /\ recon = "none"
  /\ resend = [c \in Conns |-> [at |-> "none", todo |-> <<>>, ch |-> 0]]
  /\ net = [c \in Conns |-> [up |-> FALSE, toServer |-> <<>>, toClient |-> <<>>, regs |-> {}]]
CallerStep(id) == sendRequest(id) \/ addRequest(id) \/ sendMessage(id)
ClientNext ==
  \/ Connect \/ Shutdown \/ ReconStep
  \/ \E id \in Requests : CallerStep(id)
  \/ \E c \in Conns : InStep(c) \/ OutStep(c) \/ ResendStep(c) \/ Serve(c) \/ Break(c)

-----------------------------------------------------------------------------
(* Properties.                                                               *)

ClientTypeOK ==
  /\ client.conn \in 0..MaxConns /\ client.open \subseteq {client.conn}
  /\ client.disconnected = (client.open = {} /\ client.established)
  /\ Range(pending) \subseteq Requests /\ IsInjective(pending)
  /\ Len(sendChan) <= SendBuffer
  /\ client.tracked \subseteq Range(Registrations)

\* Nobody blocks on a responseChan, which holds one response: a request is answered once,
\* by the server's reply, by Disconnect or by Shutdown, whoever wins.
AnsweredOnce == \A id \in Requests : Len(answer[id]) <= 1

\* No goroutine has anything left to do, but for those that wait for the network.
Moving(c) ==
  \/ inH[c].at \in {"top", "leave", "fail"}
  \/ inH[c].at = "read" /\ (Off(inH[c].conn) \/ ~net[inH[c].conn].up \/ net[inH[c].conn].toClient # <<>>)
  \/ outH[c].at \in {"top", "write", "fail", "drain"}
  \/ outH[c].at = "select" /\ (sendChan # <<>> \/ Off(outH[c].ch))
  \/ resend[c].at \in {"copy", "resend", "select"}
  \/ resend[c].at = "register" /\ resend[c].todo = <<>>
  \/ /\ resend[c].at = "register" /\ resend[c].todo # <<>>
     /\ LET id == <<c, Head(resend[c].todo)>> IN caller[id].at = "idle" \/ answer[id] # <<>>
  \/ net[c].up /\ net[c].toServer # <<>>
Settled ==
  /\ \A id \in Requests : caller[id].at \in {"idle", "wait"}
  /\ \A c \in Conns : ~Moving(c)
  /\ recon # "dialed"
  /\ recon = "dial" => (client.conn = MaxConns /\ ~client.shut)
  /\ recon = "wait" => ~Off(client.conn) /\ ~client.shut
Waits(id) == caller[id].at = "wait" /\ answer[id] = <<>>

\* A shutdown ends everything: the goroutines all return, also those of a connection that
\* was being made, and no caller is left without an answer but one whose rescan a
\* reconnection dropped.
ShutdownEnds ==
  Settled /\ client.shut =>
    /\ recon \in {"none", "gone"}
    /\ \A c \in Conns : {inH[c].at, outH[c].at} \subseteq {"none", "gone"}
    /\ \A id \in Requests : Waits(id) => Kind(id) \in ignoreResends

\* An output goroutine that ends late drains what was sent for the next connection.
Stolen == \E c \in Conns : outH[c].stole

\* Back on a connection that lasts, every call but a rescan is answered and the server
\* has every registration it had granted (resendRequests, reregisterNtfns), unless an
\* earlier connection's goroutine drained a message meant for this one.
ResumedAfterReconnect ==
  Settled /\ client.established /\ ~client.disconnected /\ ~Stolen /\ world.refused = {}
    => /\ \A id \in Requests : Waits(id) => Kind(id) \in ignoreResends
       /\ client.tracked \subseteq net[client.conn].regs

\* doc.go:101: Shutdown makes the client "return ErrClientShutdown for all outstanding
\* futures".
ShutdownAnswersAll == Settled /\ client.shut => \A id \in Requests : ~Waits(id)

\* infrastructure.go:437: "Since the command was successful, examine it": what is
\* registered again on every reconnection was granted.
TrackedWasGranted == client.tracked \cap world.refused = {}

\* infrastructure.go:685: "the disconnect/reconnect process is largely transparent to the
\* caller": on a connection that lasts, every call but a rescan is answered.
ReconnectIsTransparent ==
  Settled /\ client.established /\ ~client.disconnected
    => \A id \in Calls : Waits(id) => Kind(id) \in ignoreResends

-----------------------------------------------------------------------------
(***************************************************************************)
(* The RPC client in HTTP POST mode (rpcclient/infrastructure.go), alone   *)
(* and as a batch client: callers, the goroutines that post, the retries.  *)
(***************************************************************************)

CONSTANTS
  PostCalls,      \* identifiers of the requests
  PostSituations, \* records: batch, stops (whether the client is shut down), losses (how
                  \* many posts may fail, executed or not)
  PostBuffer,     \* sendPostBufferSize
  MaxTries,
  MaxSends        \* calls of Send

VARIABLES
  setting,    \* one of PostSituations
  shutdown,
  postChan,   \* sendPostChan: jobs, the requests posted together
  posting,    \* request -> where its SendCmd is
  box,        \* future -> its responseChan
  poster,     \* the goroutines sendPostHandler
  batchList,
  requestMap,
  sending,    \* the goroutine that calls Send; dropped: what failed batches took along
  ran,        \* request -> how often the server has executed it
  late        \* the requests submitted after the shutdown
postVars == <<setting, shutdown, postChan, posting, box, poster, batchList, requestMap, sending,
              ran, late>>

Whole == "batch"  \* the future of a batch
Futures == PostCalls \cup {Whole}
Posters == 1..2
Job(ids, to) == [ids |-> ids, to |-> to]
NoJob == Job(<<>>, Whole)
Put(f, what) == Len(box[f]) = 0 /\ box' = [box EXCEPT ![f] = Append(@, what)]

-----------------------------------------------------------------------------
(* Callers.                                                                  *)

\* sendPostRequest: told of the shutdown, the request goes on to the select all the same.
FirstLook(f) ==
  IF shutdown THEN Put(f, [what |-> "shutdown", ids |-> <<>>]) ELSE UNCHANGED box
EnqueueOrGiveUp(job) ==
  \/ Len(postChan) < PostBuffer /\ postChan' = Append(postChan, job)
  \/ shutdown /\ UNCHANGED postChan

addBatchRequest(id) == batchList' = Append(batchList, id) /\ requestMap' = requestMap \cup {id}
Submit(id) ==
  /\ posting[id] = "idle"
  /\ late' = IF shutdown THEN late \cup {id} ELSE late
  /\ IF setting.batch
     THEN /\ posting' = [posting EXCEPT ![id] = "wait"]
          /\ IF shutdown THEN UNCHANGED <<batchList, requestMap>> ELSE addBatchRequest(id)
          /\ UNCHANGED box
     ELSE /\ posting' = [posting EXCEPT ![id] = "select"]
          /\ FirstLook(id)
          /\ UNCHANGED <<batchList, requestMap>>
  /\ UNCHANGED <<setting, shutdown, postChan, poster, sending, ran>>
SelectPost(id) ==
  /\ posting[id] = "select" /\ EnqueueOrGiveUp(Job(<<id>>, id))
  /\ posting' = [posting EXCEPT ![id] = "wait"]
  /\ UNCHANGED <<setting, shutdown, box, poster, batchList, requestMap, sending, ran, late>>
\* A future is received once.
Receive(id) ==
  /\ posting[id] = "wait" /\ box[id] # <<>>
  /\ posting' = [posting EXCEPT ![id] = "done"]
  /\ box' = [box EXCEPT ![id] = Tail(@)]
  /\ UNCHANGED <<setting, shutdown, postChan, poster, batchList, requestMap, sending, ran, late>>

\* Only the requests of requestList are told, and this mode keeps none there.
ShutdownPost ==
  /\ setting.stops /\ ~shutdown /\ shutdown' = TRUE
  /\ UNCHANGED <<setting, postChan, posting, box, poster, batchList, requestMap, sending, ran, late>>

-----------------------------------------------------------------------------
(* Send of a batch.                                                          *)

sendAsync ==
  /\ setting.batch /\ sending.at = "idle" /\ sending.n < MaxSends /\ batchList # <<>>
  /\ sending' = [sending EXCEPT !.at = "select", !.job = Job(batchList, Whole), !.n = @ + 1]
  /\ FirstLook(Whole)
  /\ UNCHANGED <<setting, shutdown, postChan, posting, poster, batchList, requestMap, ran, late>>
SelectBatch ==
  /\ sending.at = "select" /\ EnqueueOrGiveUp(sending.job)
  /\ sending' = [sending EXCEPT !.at = "wait"]
  /\ UNCHANGED <<setting, shutdown, posting, box, poster, batchList, requestMap, ran, late>>
\* A failed batch empties the list only; the results of a good one are handed out.
removeRequests(ids) ==
  /\ requestMap' = requestMap \ ids
  /\ batchList' = SelectSeq(batchList, LAMBDA id : id \notin ids)
Send ==
  /\ sending.at = "wait" /\ box[Whole] # <<>>
  /\ LET r == box[Whole][1]
         told == Range(r.ids) \cap requestMap
     IN  IF r.what # "result"
         THEN /\ batchList' = <<>> /\ UNCHANGED requestMap
              /\ box' = [box EXCEPT ![Whole] = <<>>]
         ELSE /\ removeRequests(told)
              /\ box' = [f \in Futures |-> IF f = Whole THEN <<>>
                                           ELSE IF f \in told THEN Append(box[f], [what |-> "result", ids |-> <<f>>])
                                           ELSE box[f]]
  /\ sending' = [sending EXCEPT !.at = "idle", !.job = NoJob,
                                !.dropped = IF box[Whole][1].what = "result" THEN @
                                            ELSE @ \cup Range(batchList)]
  /\ UNCHANGED <<setting, shutdown, postChan, posting, poster, ran, late>>

-----------------------------------------------------------------------------
(* sendPostHandler.                                                          *)

To(h, at, job, try) == poster' = [poster EXCEPT ![h] = [at |-> at, job |-> job, try |-> try]]
Take(h) ==
  /\ poster[h].at = "select"
  /\ \/ /\ postChan # <<>> /\ To(h, "post", Head(postChan), 1) /\ postChan' = Tail(postChan)
     \/ shutdown /\ To(h, "drain", NoJob, 0) /\ UNCHANGED postChan
  /\ UNCHANGED <<setting, shutdown, posting, box, batchList, requestMap, sending, ran, late>>
Executed(ids) == ran' = [id \in PostCalls |-> IF id \in Range(ids) THEN ran[id] + 1 ELSE ran[id]]
\* handleSendPostMessage: a try succeeds, or fails with the work done or not.
PostWorks(h) ==
  /\ poster[h].at = "post"
  /\ Executed(poster[h].job.ids)
  /\ Put(poster[h].job.to, [what |-> "result", ids |-> poster[h].job.ids])
  /\ To(h, "select", NoJob, 0)
  /\ UNCHANGED <<setting, shutdown, postChan, posting, batchList, requestMap, sending, late>>
PostFails(h) ==
  /\ poster[h].at = "post" /\ setting.losses > 0
  /\ setting' = [setting EXCEPT !.losses = @ - 1]
  /\ Executed(poster[h].job.ids) \/ UNCHANGED ran
  /\ IF poster[h].try = MaxTries
     THEN /\ Put(poster[h].job.to, [what |-> "error", ids |-> <<>>])
          /\ To(h, "select", NoJob, 0)
     ELSE To(h, "backoff", poster[h].job, poster[h].try) /\ UNCHANGED box
  /\ UNCHANGED <<shutdown, postChan, posting, batchList, requestMap, sending, late>>
\* Shut down while it waits to try again, it returns without a word.
Backoff(h) ==
  /\ poster[h].at = "backoff"
  /\ \/ To(h, "post", poster[h].job, poster[h].try + 1)
     \/ shutdown /\ To(h, "select", NoJob, 0)
  /\ UNCHANGED <<setting, shutdown, postChan, posting, box, batchList, requestMap, sending, ran, late>>
Drain(h) ==
  /\ poster[h].at = "drain"
  /\ IF postChan = <<>>
     THEN To(h, "gone", NoJob, 0) /\ UNCHANGED <<box, postChan>>
     ELSE /\ Put(Head(postChan).to, [what |-> "shutdown", ids |-> <<>>])
          /\ postChan' = Tail(postChan) /\ UNCHANGED poster
  /\ UNCHANGED <<setting, shutdown, posting, batchList, requestMap, sending, ran, late>>

-----------------------------------------------------------------------------
\* NewBatch starts the goroutine a second time.
PostInit ==
  /\ setting \in PostSituations
  /\ shutdown = FALSE /\ postChan = <<>> /\ batchList = <<>> /\ requestMap = {}
  /\ posting = [id \in PostCalls |-> "idle"]
  /\ box = [f \in Futures |-> <<>>]
  /\ poster = [h \in Posters |-> [at |-> IF h = 1 \/ setting.batch THEN "select" ELSE "gone",
                                  job |-> NoJob, try |-> 0]]
  /\ sending = [at |-> "idle", job |-> NoJob, n |-> 0, dropped |-> {}]
  /\ ran = [id \in PostCalls |-> 0] /\ late = {}
PostNext ==
  \/ \E id \in PostCalls : Submit(id) \/ SelectPost(id) \/ Receive(id)
  \/ ShutdownPost \/ sendAsync \/ SelectBatch \/ Send
  \/ \E h \in Posters : Take(h) \/ PostWorks(h) \/ PostFails(h) \/ Backoff(h) \/ Drain(h)

-----------------------------------------------------------------------------
(* Properties.                                                               *)

PostTypeOK ==
  /\ shutdown \in BOOLEAN /\ Len(postChan) <= PostBuffer
  /\ requestMap \subseteq PostCalls /\ IsInjective(batchList)
  /\ \A f \in Futures : Len(box[f]) <= 1
  /\ \A h \in Posters : poster[h].try <= MaxTries

Quiet ==
  /\ \A id \in PostCalls : posting[id] \in {"idle", "wait", "done"} /\ box[id] = <<>>
  /\ postChan = <<>> /\ \A h \in Posters : poster[h].at \in {"select", "gone"}
  /\ sending.at = "idle" \/ (sending.at = "wait" /\ box[Whole] = <<>>)

\* Every request is answered: alone, whatever becomes of its tries; in a batch, once a
\* batch with it was sent, but for a batch that failed as a whole (its list is emptied and
\* its futures stay as they are).
PostAnswered ==
  Quiet /\ ~shutdown =>
    /\ sending.at = "idle"
    /\ \A id \in PostCalls : posting[id] = "wait" => id \in Range(batchList) \cup sending.dropped

\* A request is executed once and once more for every try whose answer was lost: the list
\* of a batch is not posted again with what was answered.
PostedOnce ==
  \A id \in PostCalls :
    ran[id] <= 1 + (CHOOSE n \in {s.losses : s \in PostSituations} : \A s \in PostSituations : s.losses <= n)
                 - setting.losses

\* infrastructure.go:931: "Don't send the message if shutting down."
NotPostedAfterShutdown == \A id \in late : ran[id] = 0

\* doc.go:101: Shutdown makes the client "return ErrClientShutdown for all outstanding
\* futures".
PostShutdownAnswers == Quiet /\ shutdown => \A id \in PostCalls : posting[id] # "wait"
=============================================================================
