----------------------------- MODULE PeerQueues -----------------------------
(***************************************************************************)
(* The goroutines of a connected peer and the channels between them:       *)
(* senders put a message on outputQueue, queueHandler passes one message   *)
(* at a time to outHandler, outHandler writes it and tells stallHandler,   *)
(* inHandler reads and tells stallHandler, and Disconnect ends them all.   *)
(* A message is the sender that waits for it, an inventory message the     *)
(* sequence of its items, or a pong.                                       *)
(***************************************************************************)
EXTENDS Integers, Sequences, FiniteSets, SequencesExt, TLC

CONSTANTS
    Sender,         \* goroutines that send one message and wait until it is sent
    BlockInv, TxInv,\* inventory of each type
    OutputBuffer,   \* outputBufferSize
    MaxTrickle,     \* maxInvTrickleSize
    MaxReads,       \* bound on the messages the peer sends us
    MaxInvs         \* bound on the inventory announced

VARIABLES
    disconnected,   \* Disconnect was called: quit is closed, the socket too
    sender,         \* the senders and inHandler as the sender of a reject
    outputQueue, outputInvChan, sendQueue, sendDone, stallControl,
    pendingMsgs, invSendQueue, waiting,
    knownInventory,
    queueH, outH, inH, stallH,  \* the goroutines
    outMsg,         \* the message outHandler works on
    reads, invs,    \* counters
    accepted,       \* history: messages queueHandler took, in order
    written,        \* history: messages written, in order
    blocked         \* history: a send found its channel full

peerVars == <<disconnected, sender, outputQueue, outputInvChan, sendQueue, sendDone,
              stallControl, pendingMsgs, invSendQueue, waiting, knownInventory, queueH, outH,
              inH, stallH, outMsg, reads, invs, accepted, written, blocked>>

\* The reject message inHandler waits for, and a message nobody waits for.
Reject == "reject"
Waiters == Sender \cup {Reject}
Waited(msg) == [waiter |-> msg, inv |-> <<>>]
Pong == [waiter |-> "nobody", inv |-> <<>>]
InvMsg(items) == [waiter |-> "nobody", inv |-> items]
NoMsg == [waiter |-> "none", inv |-> <<>>]

PeerTypeOK ==
    /\ disconnected \in BOOLEAN /\ waiting \in BOOLEAN /\ sendDone \in 0..1
    /\ sender \in [Waiters -> {"idle", "push", "wait", "released"}]
    /\ Len(outputQueue) <= OutputBuffer /\ Len(sendQueue) <= 1 /\ stallControl \in 0..1
    /\ queueH \in {"run", "drain", "done"}
    /\ outH \in {"run", "control", "write", "report", "quit", "done"}
    /\ inH \in {"read", "received", "start", "handle", "pong", "ended", "reject", "quit", "done"}
    /\ stallH \in {"run", "stopping", "done"}

PeerInit ==
    /\ disconnected = FALSE
    /\ outputQueue = <<>> /\ outputInvChan = <<>> /\ sendQueue = <<>>
    /\ sendDone = 0 /\ stallControl = 0
    /\ pendingMsgs = <<>> /\ invSendQueue = <<>> /\ waiting = FALSE
    /\ knownInventory = {}
    /\ queueH = "run" /\ outH = "run" /\ inH = "read" /\ stallH = "run"
    /\ outMsg = NoMsg
    \* Either messages come in, or inventory is announced, in one behaviour.
    /\ \/ reads = 0 /\ invs = MaxInvs /\ sender = [w \in Waiters |-> "idle"]
       \/ reads = MaxReads /\ invs = 0 /\ sender = [w \in Waiters |-> "released"]
    /\ accepted = <<>> /\ written = <<>> /\ blocked = FALSE

(***************************************************************************)
(* Senders: QueueMessageWithEncoding looks whether the peer is connected,  *)
(* then sends on the buffered channel.                                     *)
(***************************************************************************)
Others == <<outputInvChan, sendQueue, sendDone, stallControl, pendingMsgs, invSendQueue, waiting,
            knownInventory, queueH, outH, stallH, outMsg, invs, accepted, written, blocked>>

QueueMessage(w) ==
    /\ sender[w] = "idle"
    /\ sender' = [sender EXCEPT ![w] = IF disconnected THEN "released" ELSE "push"]

PushMessage(w) ==
    /\ sender[w] = "push" /\ Len(outputQueue) < OutputBuffer
    /\ outputQueue' = Append(outputQueue, Waited(w))
    /\ sender' = [sender EXCEPT ![w] = "wait"]

SenderStep(w) ==
    \/ QueueMessage(w) /\ UNCHANGED <<disconnected, outputQueue, inH, reads, Others>>
    \/ PushMessage(w) /\ UNCHANGED <<disconnected, inH, reads, Others>>

\* QueueInventory, from the server's relay.
QueueInventory(iv) ==
    /\ invs < MaxInvs /\ invs' = invs + 1
    /\ iv \notin knownInventory /\ ~disconnected
    /\ Len(outputInvChan) < OutputBuffer
    /\ outputInvChan' = Append(outputInvChan, iv)
    /\ UNCHANGED <<disconnected, sender, outputQueue, sendQueue, sendDone, stallControl,
                   pendingMsgs, invSendQueue, waiting, knownInventory, queueH, outH, inH, stallH,
                   outMsg, reads, accepted, written, blocked>>

\* Disconnect: the server, the idle timer or the stall handler.
Disconnect ==
    /\ ~disconnected /\ disconnected' = TRUE
    /\ UNCHANGED <<sender, outputQueue, outputInvChan, sendQueue, sendDone, stallControl,
                   pendingMsgs, invSendQueue, waiting, knownInventory, queueH, outH, inH, stallH,
                   outMsg, reads, invs, accepted, written, blocked>>

(***************************************************************************)
(* queueHandler.                                                           *)
(***************************************************************************)
QueueRest == <<disconnected, outH, inH, stallH, outMsg, reads, invs, written, stallControl>>

\* queuePacket for each of msgs in turn: the first one goes to outHandler if
\* that is idle, the others wait.
queuePacket(msgs) ==
    /\ IF waiting \/ msgs = <<>>
       THEN pendingMsgs' = pendingMsgs \o msgs /\ UNCHANGED <<sendQueue, blocked>>
       ELSE /\ sendQueue' = Append(sendQueue, Head(msgs))
            /\ blocked' = (blocked \/ Len(sendQueue) > 0)
            /\ pendingMsgs' = pendingMsgs \o Tail(msgs)
    /\ waiting' = (waiting \/ msgs # <<>>)
    /\ accepted' = accepted \o msgs

TakeMessage ==
    /\ queueH = "run" /\ outputQueue # <<>>
    /\ queuePacket(<<Head(outputQueue)>>)
    /\ outputQueue' = Tail(outputQueue)
    /\ UNCHANGED <<sender, outputInvChan, sendDone, invSendQueue, knownInventory, queueH,
                   QueueRest>>

\* Seeded fault: the next message goes out with the flag cleared.
TakeSendDone_clears ==
    /\ queueH = "run" /\ sendDone = 1 /\ sendDone' = 0
    /\ waiting' = FALSE
    /\ IF pendingMsgs = <<>>
       THEN UNCHANGED <<pendingMsgs, sendQueue, blocked>>
       ELSE /\ sendQueue' = Append(sendQueue, Head(pendingMsgs))
            /\ blocked' = (blocked \/ Len(sendQueue) > 0)
            /\ pendingMsgs' = Tail(pendingMsgs)
    /\ UNCHANGED <<sender, outputQueue, outputInvChan, invSendQueue, knownInventory, queueH,
                   accepted, QueueRest>>

TakeSendDone ==
    /\ queueH = "run" /\ sendDone = 1 /\ sendDone' = 0
    /\ IF pendingMsgs = <<>>
       THEN waiting' = FALSE /\ UNCHANGED <<pendingMsgs, sendQueue, blocked>>
       ELSE /\ sendQueue' = Append(sendQueue, Head(pendingMsgs))
            /\ blocked' = (blocked \/ Len(sendQueue) > 0)
            /\ pendingMsgs' = Tail(pendingMsgs) /\ UNCHANGED waiting
    /\ UNCHANGED <<sender, outputQueue, outputInvChan, invSendQueue, knownInventory, queueH,
                   accepted, QueueRest>>

\* A block is announced at once, a transaction with the next trickle.
TakeInventory ==
    LET iv == Head(outputInvChan)
    IN  /\ queueH = "run" /\ outputInvChan # <<>>
        /\ outputInvChan' = Tail(outputInvChan)
        /\ IF iv \in BlockInv
           THEN queuePacket(<<InvMsg(<<iv>>)>>) /\ UNCHANGED invSendQueue
           ELSE /\ invSendQueue' = Append(invSendQueue, iv)
                /\ UNCHANGED <<pendingMsgs, sendQueue, blocked, waiting, accepted>>
        /\ UNCHANGED <<sender, outputQueue, sendDone, knownInventory, queueH, QueueRest>>

\* The items to announce: those not known, each once, in messages of at most
\* MaxTrickle items.
Fresh(items) ==
    LET First(i) == /\ items[i] \notin knownInventory
                    /\ \A j \in 1..i - 1 : items[j] # items[i]
        fresh == SelectSeq([i \in 1..Len(items) |-> i], First)
    IN  [i \in 1..Len(fresh) |-> items[fresh[i]]]

Batches(items) ==
    [k \in 1..(Len(items) + MaxTrickle - 1) \div MaxTrickle |->
        InvMsg(SubSeq(items, (k - 1) * MaxTrickle + 1,
                      IF k * MaxTrickle < Len(items) THEN k * MaxTrickle ELSE Len(items)))]

Trickled(items) == knownInventory \cup Range(items)

Trickle ==
    /\ queueH = "run" /\ ~disconnected /\ invSendQueue # <<>>
    /\ queuePacket(Batches(Fresh(invSendQueue)))
    /\ knownInventory' = Trickled(invSendQueue)
    /\ invSendQueue' = <<>>
    /\ UNCHANGED <<sender, outputQueue, outputInvChan, sendDone, queueH, QueueRest>>

QueueQuit ==
    /\ queueH = "run" /\ disconnected /\ queueH' = "drain"
    /\ UNCHANGED <<sender, outputQueue, outputInvChan, sendQueue, sendDone, pendingMsgs,
                   invSendQueue, waiting, knownInventory, accepted, blocked, QueueRest>>

Release(msgs) == [w \in Waiters |-> IF \E i \in DOMAIN msgs : msgs[i].waiter = w
                                    THEN "released" ELSE sender[w]]

\* The waiters of all that is queued are released, and the handler ends.
QueueDrain ==
    /\ queueH = "drain" /\ queueH' = "done"
    /\ sender' = Release(pendingMsgs \o outputQueue)
    /\ pendingMsgs' = <<>> /\ outputQueue' = <<>> /\ outputInvChan' = <<>>
    /\ UNCHANGED <<sendQueue, sendDone, invSendQueue, waiting, knownInventory, accepted, blocked,
                   QueueRest>>

QueueHandler == TakeMessage \/ TakeSendDone \/ TakeInventory \/ Trickle \/ QueueQuit \/ QueueDrain

(***************************************************************************)
(* outHandler.                                                             *)
(***************************************************************************)
OutRest == <<outputQueue, outputInvChan, pendingMsgs, invSendQueue, waiting, knownInventory,
             queueH, inH, stallH, reads, invs, accepted>>

OutTake ==
    /\ outH = "run" /\ sendQueue # <<>>
    /\ outMsg' = Head(sendQueue) /\ sendQueue' = Tail(sendQueue) /\ outH' = "control"
    /\ UNCHANGED <<disconnected, sender, sendDone, stallControl, written, blocked, OutRest>>

OutControl ==
    /\ outH = "control" /\ stallControl = 0
    /\ stallControl' = 1 /\ outH' = "write"
    /\ UNCHANGED <<disconnected, sender, sendQueue, sendDone, outMsg, written, blocked, OutRest>>

\* writeMessage writes nothing once Disconnect was called.
OutWrite ==
    /\ outH = "write" /\ outH' = "report"
    /\ written' = IF disconnected THEN written ELSE Append(written, outMsg)
    /\ sender' = Release(<<outMsg>>)
    /\ UNCHANGED <<disconnected, sendQueue, sendDone, stallControl, outMsg, blocked, OutRest>>

\* The write fails: the sender is released, queueHandler gets no answer.
OutWriteFails ==
    /\ outH = "write" /\ outH' = "run"
    /\ disconnected' = TRUE
    /\ sender' = Release(<<outMsg>>) /\ outMsg' = NoMsg
    /\ UNCHANGED <<sendQueue, sendDone, stallControl, written, blocked, OutRest>>

OutReport ==
    /\ outH = "report" /\ outH' = "run" /\ outMsg' = NoMsg
    /\ blocked' = (blocked \/ sendDone = 1) /\ sendDone' = 1
    /\ UNCHANGED <<disconnected, sender, sendQueue, stallControl, written, OutRest>>

OutQuit ==
    /\ outH = "run" /\ disconnected /\ outH' = "quit"
    /\ UNCHANGED <<disconnected, sender, sendQueue, sendDone, stallControl, outMsg, written,
                   blocked, OutRest>>

\* Seeded fault: outHandler does not wait for queueHandler before it drains.
OutDrain_early ==
    /\ outH = "quit" /\ outH' = "done"
    /\ sender' = Release(sendQueue) /\ sendQueue' = <<>>
    /\ UNCHANGED <<disconnected, sendDone, stallControl, outMsg, written, blocked, OutRest>>

OutDrain ==
    /\ outH = "quit" /\ queueH = "done" /\ outH' = "done"
    /\ sender' = Release(sendQueue) /\ sendQueue' = <<>>
    /\ UNCHANGED <<disconnected, sendDone, stallControl, outMsg, written, blocked, OutRest>>

OutHandler == OutTake \/ OutControl \/ OutWrite \/ OutWriteFails \/ OutReport \/ OutQuit \/ OutDrain

(***************************************************************************)
(* inHandler.  Each message is followed by three notes to stallHandler:    *)
(* it came, its callback starts, its callback ended.                       *)
(***************************************************************************)
InRest == <<outputInvChan, sendQueue, sendDone, pendingMsgs, invSendQueue, waiting,
            knownInventory, queueH, outH, stallH, outMsg, invs, accepted, written, blocked>>

InRead ==
    /\ inH = "read"
    /\ \/ disconnected /\ inH' = "quit" /\ UNCHANGED <<reads, sender>>
       \/ /\ ~disconnected /\ reads < MaxReads /\ reads' = reads + 1
          /\ \/ inH' = "received" /\ UNCHANGED sender
             \* A message that cannot be read is answered by a reject message,
             \* the end of the connection is not.
             \/ inH' = "reject" /\ UNCHANGED sender
             \/ inH' = "quit" /\ UNCHANGED sender
    /\ UNCHANGED <<disconnected, outputQueue, stallControl, InRest>>

InControl ==
    /\ inH \in {"received", "start", "ended"} /\ stallControl = 0
    /\ stallControl' = 1
    /\ inH' = CASE inH = "received" -> "start" [] inH = "start" -> "handle" [] OTHER -> "read"
    /\ UNCHANGED <<disconnected, sender, outputQueue, reads, InRest>>

\* The callback: a ping is answered, a second version message is rejected.
InHandle ==
    /\ inH = "handle"
    /\ \/ inH' = "ended" \/ inH' = "reject"
       \/ ~disconnected /\ inH' = "pong"
    /\ UNCHANGED <<disconnected, sender, outputQueue, stallControl, reads, InRest>>

InPong ==
    /\ inH = "pong" /\ Len(outputQueue) < OutputBuffer
    /\ outputQueue' = Append(outputQueue, Pong) /\ inH' = "ended"
    /\ UNCHANGED <<disconnected, sender, stallControl, reads, InRest>>

\* PushRejectMsg waits until the message was sent, then the handler quits.
InReject ==
    /\ inH = "reject"
    /\ \/ QueueMessage(Reject) /\ UNCHANGED <<outputQueue, inH>>
       \/ PushMessage(Reject) /\ UNCHANGED inH
       \/ sender[Reject] = "released" /\ inH' = "quit" /\ UNCHANGED <<sender, outputQueue>>
    /\ UNCHANGED <<disconnected, stallControl, reads, InRest>>

InQuit ==
    /\ inH = "quit" /\ inH' = "done" /\ disconnected' = TRUE
    /\ UNCHANGED <<sender, outputQueue, stallControl, reads, InRest>>

InHandler == InRead \/ InControl \/ InHandle \/ InPong \/ InReject \/ InQuit

(***************************************************************************)
(* stallHandler.  A closed channel can be received from any number of      *)
(* times: inQuit alone, or outQuit alone, ends the loop in two rounds.     *)
(***************************************************************************)
StallRest == <<disconnected, sender, outputQueue, outputInvChan, sendQueue, sendDone, pendingMsgs,
               invSendQueue, waiting, knownInventory, queueH, outH, inH, outMsg, reads, invs,
               accepted, written, blocked>>

StallTake ==
    /\ stallH # "done" /\ stallControl = 1 /\ stallControl' = 0
    /\ UNCHANGED <<stallH, StallRest>>

StallQuit ==
    /\ inH = "done" \/ outH = "done"
    /\ \/ stallH = "run" /\ stallH' = "stopping" /\ UNCHANGED stallControl
       \/ stallH = "stopping" /\ stallH' = "done" /\ stallControl' = 0
    /\ UNCHANGED StallRest

StallHandler == StallTake \/ StallQuit

PeerNext ==
    \/ \E w \in Sender : SenderStep(w)
    \/ \E iv \in BlockInv \cup TxInv : QueueInventory(iv)
    \/ Disconnect \/ QueueHandler \/ OutHandler \/ InHandler \/ StallHandler

PeerFairness ==
    /\ \A w \in Sender : WF_peerVars(SenderStep(w))
    /\ WF_peerVars(TakeMessage) /\ WF_peerVars(TakeSendDone) /\ WF_peerVars(QueueQuit \/ QueueDrain)
    /\ WF_peerVars(OutHandler) /\ SF_peerVars(OutQuit)
    /\ WF_peerVars(InHandler) /\ WF_peerVars(StallHandler)

(***************************************************************************)
(* Properties.                                                             *)
(***************************************************************************)

\* Messages reach the wire in the order in which queueHandler took them.
SentInOrder == IsPrefix(written, accepted)

\* The handlers hand a message over without ever waiting: sendQueue and
\* sendDoneQueue have room for the one message that is under way.
HandOverNeverBlocks == ~blocked

\* A transaction is announced to a peer at most once.
AnnouncedOnce ==
    LET items == FlattenSeq([i \in 1..Len(accepted) |-> accepted[i].inv])
    IN  \A i, j \in 1..Len(items) : items[i] = items[j] /\ items[i] \in TxInv => i = j

\* A message that was put on the output queue after its drain, or a handler
\* that waits for a stall handler that has ended.
LateMessage == queueH = "done" /\ outputQueue # <<>>
Stuck == /\ stallH = "done" /\ stallControl = 1
         /\ outH = "control" \/ inH \in {"received", "start", "ended"}

AllEnded ==
    /\ queueH = "done" /\ outH = "done" /\ inH = "done" /\ stallH = "done"
    /\ \A w \in Sender : sender[w] \in {"idle", "released"}
EndedOrStuck == AllEnded \/ LateMessage \/ Stuck \/ \E w \in Waiters : sender[w] = "push"

\* After Disconnect every goroutine ends and every sender gets its answer, unless
\* a message comes after the drain of the output queue, or a handler waits for a
\* stall handler that has ended.
PeerEnds == disconnected ~> EndedOrStuck

\* "The stall handler can exit once both the input and output handler
\* goroutines are done."
StallHandlerLast == stallH = "done" => inH = "done" /\ outH = "done"

\* "Drain any wait channels before we go away so we don't leave something
\* waiting for us."
NobodyLeftWaiting ==
    queueH = "done" /\ outH = "done" => \A w \in Waiters : sender[w] # "wait"
=============================================================================
