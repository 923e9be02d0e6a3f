--------------------------- MODULE PeerHandshake ----------------------------
(***************************************************************************)
(* The version negotiation of peer.go between an outbound and an inbound   *)
(* peer: each side is the goroutine of negotiateOutboundProtocol or        *)
(* negotiateInboundProtocol, with the timeout of start and the server's    *)
(* OnVersion.  The remote end is another node of this code, the node       *)
(* itself (a connection to one's own address), or another implementation   *)
(* that also sends messages this code does not know.                       *)
(***************************************************************************)
EXTENDS Integers, Sequences, SequencesExt, TLC

CONSTANTS
    MinVersion,     \* MinAcceptableProtocolVersion
    AddrV2Version,
    NonceCache,     \* capacity of sentNonces
    MaxOthers,      \* bound on the version messages of other connections
    Meetings        \* records: who meets whom, see MeetingOK

VARIABLES
    meet,       \* the meeting
    step,       \* where each side is
    inbox,      \* messages on their way to each side
    disconnect, \* the sides that called Disconnect
    protoVer,   \* protocolVersion of each side
    sendAddrV2, \* the side was told that the other wants addrv2
    encoding,   \* wireEncoding
    verAck,     \* verAckReceived, OnVerAck was called
    sentNonces, \* the nonces this process remembers, newest last
    others,     \* version messages sent on other connections so far
    late        \* the sides whose timeout fired

shakeVars == <<meet, step, inbox, disconnect, protoVer, sendAddrV2, encoding, verAck, sentNonces, others, late>>

Ends == {"out", "in"}
Far(e) == IF e = "out" THEN "in" ELSE "out"

MeetingOK(m) ==
    /\ DOMAIN m = {"ver", "network", "witness", "self", "wtxid"}
    /\ m.ver \in [Ends -> Nat]
    /\ m.network \in BOOLEAN        \* the inbound side is a full node
    /\ m.witness \in [Ends -> BOOLEAN]
    /\ m.self \in BOOLEAN           \* both ends are this process
    /\ m.wtxid \in BOOLEAN          \* the inbound side also sends a message unknown here
ShakeAssumption == /\ \A m \in Meetings : MeetingOK(m)
                          /\ MinVersion \in Nat /\ AddrV2Version \in Nat /\ NonceCache \in Nat \ {0}

ShakeTypeOK ==
    /\ meet \in Meetings /\ disconnect \subseteq Ends /\ late \subseteq disconnect
    /\ step \in [Ends -> {"writeVersion", "readVersion", "writeAddrV2", "writeVerAck", "wait", "live", "failed"}]
    /\ Len(sentNonces) <= NonceCache /\ others \in 0..MaxOthers

ShakeInit ==
    /\ meet \in Meetings
    /\ step = [e \in Ends |-> IF e = "out" THEN "writeVersion" ELSE "readVersion"]
    /\ inbox = [e \in Ends |-> <<>>] /\ disconnect = {}
    /\ protoVer = meet.ver
    /\ sendAddrV2 = [e \in Ends |-> FALSE] /\ verAck = [e \in Ends |-> FALSE]
    /\ encoding = [e \in Ends |-> "base"]
    /\ sentNonces = <<>> /\ others = 0 /\ late = {}

Goes(e, to) == step' = [step EXCEPT ![e] = to]
Lost(e) == e \in disconnect \/ Far(e) \in disconnect

\* writeMessage does nothing after Disconnect; what is written to a connection
\* that the other side closed is lost.
Write(e, msgs) == inbox' = IF Lost(e) THEN inbox ELSE [inbox EXCEPT ![Far(e)] = @ \o msgs]

\* start gives up when the negotiation fails.
Fail(e) == Goes(e, "failed") /\ disconnect' = disconnect \cup {e}

\* The next message, or the end of the connection.
Reads(e) == e \notin disconnect /\ inbox[e] # <<>>
ReadFails(e) == e \in disconnect \/ (Far(e) \in disconnect /\ inbox[e] = <<>>)

Note(nonces, n) == LET all == Append(nonces, n)
                   IN  IF Len(all) > NonceCache THEN Tail(all) ELSE all

VersionMsg(e) == [type |-> "version", ver |-> meet.ver[e], witness |-> meet.witness[e], nonce |-> e]
Plain(type) == [type |-> type, ver |-> 0, witness |-> FALSE, nonce |-> "none"]

\* localVersionMsg and writeLocalVersionMsg: the nonce is noted in sentNonces.
\* At two nodes each side has a cache of its own; the far one is not looked at
\* with this side's nonces, so only the nonces of one process are kept.
writeLocalVersionMsg(e) ==
    /\ step[e] = "writeVersion"
    /\ Write(e, <<VersionMsg(e)>>)
    /\ sentNonces' = IF meet.self \/ e = "out" THEN Note(sentNonces, e) ELSE sentNonces
    /\ Goes(e, IF e = "out" THEN "readVersion" ELSE "writeAddrV2")
    /\ UNCHANGED <<meet, disconnect, protoVer, sendAddrV2, encoding, verAck, others, late>>

SelfConnection(e, msg) == (meet.self \/ e = "out") /\ Contains(sentNonces, msg.nonce)

\* OnVersion of the server: an outbound peer must be a full node, and is
\* dropped without an error if it has no witness support.
RejectedByServer(e) == e = "out" /\ ~meet.network
DroppedByServer(e, msg) == e = "out" /\ ~msg.witness

NegotiatedVersion(e, msg) == IF msg.ver < protoVer[e] THEN msg.ver ELSE protoVer[e]

readRemoteVersionMsg(e) ==
    LET msg == Head(inbox[e])
        refused == \/ msg.type # "version" \/ SelfConnection(e, msg)
        rejected == msg.ver < MinVersion \/ RejectedByServer(e)
    IN  /\ step[e] = "readVersion" /\ Reads(e)
        /\ IF refused
           THEN /\ Fail(e)
                /\ inbox' = [inbox EXCEPT ![e] = Tail(@),
                               ![Far(e)] = IF msg.type = "version" \/ Lost(e) THEN @ ELSE Append(@, Plain("reject"))]
                /\ UNCHANGED <<protoVer, encoding>>
           ELSE /\ protoVer' = [protoVer EXCEPT ![e] = NegotiatedVersion(e, msg)]
                /\ encoding' = [encoding EXCEPT ![e] = IF msg.witness THEN "witness" ELSE "base"]
                /\ IF rejected
                   THEN /\ Fail(e)
                        /\ inbox' = [inbox EXCEPT ![e] = Tail(@),
                                       ![Far(e)] = IF Lost(e) THEN @ ELSE Append(@, Plain("reject"))]
                   ELSE /\ disconnect' = IF DroppedByServer(e, msg) THEN disconnect \cup {e} ELSE disconnect
                        /\ inbox' = [inbox EXCEPT ![e] = Tail(@)]
                        /\ Goes(e, IF e = "out" THEN "writeAddrV2" ELSE "writeVersion")
        /\ UNCHANGED <<meet, sendAddrV2, verAck, sentNonces, others, late>>

\* writeSendAddrV2Msg; another implementation sends one message more.
writeSendAddrV2Msg(e) ==
    /\ step[e] = "writeAddrV2"
    /\ Write(e, (IF meet.wtxid /\ e = "in" THEN <<Plain("wtxidrelay")>> ELSE <<>>)
                \o (IF protoVer[e] >= AddrV2Version THEN <<Plain("sendaddrv2")>> ELSE <<>>))
    /\ Goes(e, "writeVerAck")
    /\ UNCHANGED <<meet, disconnect, protoVer, sendAddrV2, encoding, verAck, sentNonces, others, late>>

writeVerAck(e) ==
    /\ step[e] = "writeVerAck"
    /\ Write(e, <<Plain("verack")>>) /\ Goes(e, "wait")
    /\ UNCHANGED <<meet, disconnect, protoVer, sendAddrV2, encoding, verAck, sentNonces, others, late>>

\* ErrUnknownMessage
Skipped(msg) == msg.type = "wtxidrelay"

waitToFinishNegotiation(e) ==
    LET msg == Head(inbox[e])
    IN  /\ step[e] = "wait" /\ Reads(e)
        /\ inbox' = [inbox EXCEPT ![e] = Tail(@)]
        /\ \/ Skipped(msg) /\ UNCHANGED <<step, disconnect, sendAddrV2, verAck>>
           \/ /\ msg.type = "sendaddrv2"
              /\ sendAddrV2' = [sendAddrV2 EXCEPT ![e] = @ \/ protoVer[e] >= AddrV2Version]
              /\ UNCHANGED <<step, disconnect, verAck>>
           \/ /\ msg.type = "verack" /\ Goes(e, "live")
              /\ verAck' = [verAck EXCEPT ![e] = TRUE] /\ UNCHANGED <<disconnect, sendAddrV2>>
           \/ /\ ~Skipped(msg) /\ msg.type \notin {"sendaddrv2", "verack"}
              /\ Fail(e) /\ UNCHANGED <<sendAddrV2, verAck>>
        /\ UNCHANGED <<meet, protoVer, encoding, sentNonces, others, late>>

NegotiationFails(e) ==
    /\ step[e] \in {"readVersion", "wait"} /\ ReadFails(e)
    /\ Fail(e)
    /\ UNCHANGED <<meet, inbox, protoVer, sendAddrV2, encoding, verAck, sentNonces, others, late>>

\* The timeout of start, which can win against the negotiation's own result,
\* or the server's shutdown.
NegotiationTimeout(e) ==
    /\ e \notin disconnect
    /\ disconnect' = disconnect \cup {e}
    /\ late' = late \cup {e}
    /\ UNCHANGED <<meet, step, inbox, protoVer, sendAddrV2, encoding, verAck, sentNonces, others>>

OtherConnection ==
    /\ others < MaxOthers /\ others' = others + 1
    /\ sentNonces' = Note(sentNonces, "other")
    /\ UNCHANGED <<meet, step, inbox, disconnect, protoVer, sendAddrV2, encoding, verAck, late>>

ShakeStep(e) == \/ writeLocalVersionMsg(e) \/ readRemoteVersionMsg(e) \/ writeSendAddrV2Msg(e)
                \/ writeVerAck(e) \/ waitToFinishNegotiation(e) \/ NegotiationFails(e)

ShakeNext == OtherConnection \/ \E e \in Ends : ShakeStep(e) \/ NegotiationTimeout(e)

ShakeFairness == \A e \in Ends : WF_shakeVars(ShakeStep(e))

(***************************************************************************)
(* Properties.                                                             *)
(***************************************************************************)
BothLive == \A e \in Ends : step[e] = "live"

\* When both sides are through they use the same protocol version, the lower
\* of the two, each knows whether the other wants addrv2, and each encodes for
\* what the other can read.
NegotiationAgrees ==
    BothLive => /\ protoVer["out"] = protoVer["in"]
                /\ \A e \in Ends : protoVer[e] <= meet.ver[e] /\ protoVer[e] >= MinVersion
                /\ \A e \in Ends : sendAddrV2[e] = (protoVer[e] >= AddrV2Version)
                /\ \A e \in Ends : (encoding[e] = "witness") = meet.witness[Far(e)]

\* A node does not stay connected to itself: one of the two sides sees its own
\* nonce, unless others pushed both out of the cache.
NoSelfConnection ==
    meet.self /\ BothLive => others >= 2 * NonceCache - 1

Compatible ==
    /\ \A e \in Ends : meet.ver[e] >= MinVersion
    /\ meet.network /\ meet.witness["in"] /\ ~meet.self

\* Two nodes that can talk to each other do, unless one of them times out.
NegotiationSucceeds == Compatible ~> (BothLive \/ late # {})

-----------------------------------------------------------------------------
(***************************************************************************)
(* The encrypted transport of v2transport: how an initiator and a          *)
(* responder find out whether both speak it, exchange keys and garbage,    *)
(* find the garbage terminator and then exchange packets whose ciphers are *)
(* rekeyed every RekeyInterval packets.  The wire is a sequence of bytes;  *)
(* a packet is one element of it, with the key and nonce that sealed it.   *)
(***************************************************************************)

CONSTANTS
    MaxGarbageLen,  \* of the garbage either side may send
    TermLen,        \* garbageSize
    RekeyInterval,
    MaxPackets,     \* bound on the packets sent after the handshake
    Connections     \* records: who connects to whom, see ConnectionOK

VARIABLES
    conn,       \* the connection
    at,         \* where the code of each side is
    wire,       \* the bytes on their way to each side
    closed,     \* the sides that closed the connection
    prefix,     \* receivedPrefix of the responder
    secret,     \* the shared secret each side computed
    got,        \* recvGarbage
    sendCtr, recvCtr,   \* packetCtr of the two ciphers of a side
    sent,       \* history: the packets of each side after the handshake
    timedOut        \* history: a side timed out

v2Vars == <<conn, at, wire, closed, prefix, secret, got, sendCtr, recvCtr, sent, timedOut>>

Sides == {"init", "resp"}
Other(s) == IF s = "init" THEN "resp" ELSE "init"

\* The first bytes of a version message of the old transport: the magic of the
\* network, then the command.
Byte(b) == [byte |-> b]
createV1Prefix(net) == <<Byte(net), Byte("version")>>
KeyLen == 3

\* A key is random, its first byte may be the magic by chance.
KeyStartingWith(b) == <<Byte(b), Byte("k2"), Byte("k3")>>
Keys == {KeyStartingWith("k1"), KeyStartingWith("main")}

ConnectionOK(c) ==
    /\ DOMAIN c = {"init", "resp", "net", "key", "garbage", "decoys"}
    /\ c.init \in {"v1", "v2"} /\ c.resp \in {"v1", "v2"}
    /\ c.net \in [Sides -> {"main", "test"}]
    /\ c.key \in Keys
    /\ c.garbage \in [Sides -> 0..MaxGarbageLen] /\ c.decoys \in [Sides -> 0..1]
V2Assumption == /\ \A c \in Connections : ConnectionOK(c)
                       /\ MaxGarbageLen \in Nat /\ TermLen \in Nat \ {0} /\ RekeyInterval \in Nat \ {0}

KeyOf(s) == IF s = "init" THEN conn.key ELSE KeyStartingWith("r1")
Garbage(s) == [i \in 1..conn.garbage[s] |-> Byte("garbage")]

V2TypeOK ==
    /\ conn \in Connections
    /\ at \in [Sides -> {"start", "key", "garbage", "ready", "usev1", "downgrade", "failed",
                      "rejected"}]
    /\ closed \subseteq Sides /\ Len(prefix) <= 2
    /\ sendCtr \in [Sides -> Nat] /\ recvCtr \in [Sides -> Nat]

V2Init ==
    /\ conn \in Connections
    /\ at = [s \in Sides |-> "start"]
    /\ wire = [s \in Sides |-> <<>>] /\ closed = {}
    /\ prefix = <<>> /\ secret = [s \in Sides |-> <<>>] /\ got = [s \in Sides |-> <<>>]
    /\ sendCtr = [s \in Sides |-> 0] /\ recvCtr = [s \in Sides |-> 0]
    /\ sent = [s \in Sides |-> <<>>] /\ timedOut = FALSE

Moves(s, to) == at' = [at EXCEPT ![s] = to]
Send(s, bytes) == wire' = [wire EXCEPT ![Other(s)] = @ \o bytes]
\* Receive(n): the bytes are there, or the connection is closed before.
CanReceive(s, n) == s \notin closed /\ Len(wire[s]) >= n
ReceiveFails(s, n) == s \in closed \/ (Other(s) \in closed /\ Len(wire[s]) < n)
NumRead(s) == IF s \in closed THEN 0 ELSE Len(wire[s])
Taken(s, n) == wire' = [wire EXCEPT ![s] = SubSeq(@, n + 1, Len(@))]

Closes(s, to) == Moves(s, to) /\ closed' = closed \cup {s}
Ciphers == <<secret, got, sendCtr, recvCtr, sent, timedOut>>

(***************************************************************************)
(* The start of the handshake.                                             *)
(***************************************************************************)
generateKeyAndGarbage(s) == KeyOf(s) \o Garbage(s)

\* InitiateV2Handshake, or the version message of the old transport.
InitiateV2Handshake ==
    /\ at["init"] = "start"
    /\ IF conn.init = "v2" THEN Send("init", generateKeyAndGarbage("init")) /\ Moves("init", "key")
       ELSE Send("init", createV1Prefix(conn.net["init"]) \o <<Byte("payload")>>) /\ Moves("init", "usev1")
    /\ UNCHANGED <<conn, closed, prefix, Ciphers>>

\* A responder that knows the old transport only takes what comes for a header
\* and hangs up when the magic or the command is wrong.
RespondV1 ==
    /\ at["resp"] = "start" /\ conn.resp = "v1" /\ CanReceive("resp", 2)
    /\ Taken("resp", 2)
    /\ IF SubSeq(wire["resp"], 1, 2) = createV1Prefix(conn.net["resp"])
       THEN Moves("resp", "usev1") /\ UNCHANGED closed
       ELSE Closes("resp", "failed")
    /\ UNCHANGED <<conn, prefix, Ciphers>>

\* RespondV2Handshake, one byte of the prefix at a time.
RespondV2Handshake ==
    LET v1Prefix == createV1Prefix(conn.net["resp"])
        b == Head(wire["resp"])
    IN  /\ at["resp"] = "start" /\ conn.resp = "v2" /\ CanReceive("resp", 1)
        /\ prefix' = Append(prefix, b)
        /\ IF b # v1Prefix[Len(prefix) + 1]
           THEN /\ wire' = [wire EXCEPT !["resp"] = Tail(@), !["init"] = @ \o generateKeyAndGarbage("resp")]
                /\ Moves("resp", "key")
           ELSE /\ Taken("resp", 1)
                /\ Moves("resp", IF Len(prefix) + 1 = Len(v1Prefix) THEN "usev1" ELSE "start")
        /\ UNCHANGED <<conn, closed, Ciphers>>

RespondFails ==
    /\ at["resp"] = "start" /\ ReceiveFails("resp", 1)
    /\ Closes("resp", "failed")
    /\ UNCHANGED <<conn, wire, prefix, Ciphers>>

(***************************************************************************)
(* CompleteHandshake.                                                      *)
(***************************************************************************)
Prefix(s) == IF s = "resp" THEN prefix ELSE <<>>
KeyBytes(s) == KeyLen - Len(Prefix(s))

\* createV2Ciphers: what both sides derive from the two keys and the network.
createV2Ciphers(s, theirs) ==
    [init |-> IF s = "init" THEN KeyOf(s) ELSE theirs,
     resp |-> IF s = "init" THEN theirs ELSE KeyOf(s), net |-> conn.net[s]]

Terminator(s, sec) == [i \in 1..TermLen |-> [terminator |-> i, from |-> s, secret |-> sec]]

\* The key and nonce crypt seals packet number ctr with: the key changes with
\* every RekeyInterval packets.
crypt(ctr) == [rekeys |-> ctr \div RekeyInterval, numMsgs |-> ctr % RekeyInterval]

\* V2EncPacket: aad is the garbage for the first packet only.
Packet(s, sec, ctr, aad, ignore, content) ==
    [from |-> s, secret |-> sec, nonce |-> crypt(ctr), aad |-> aad, ignore |-> ignore, content |-> content]

\* Decoys if asked for, then the empty version packet.
FirstPackets(s, sec) ==
    [i \in 1..conn.decoys[s] + 1 |->
        Packet(s, sec, sendCtr[s] + i - 1, IF i = 1 THEN Garbage(s) ELSE <<>>,
               i <= conn.decoys[s], "version")]

CompleteHandshake(s) ==
    LET theirs == Prefix(s) \o SubSeq(wire[s], 1, KeyBytes(s))
        sec == createV2Ciphers(s, theirs)
    IN  /\ at[s] = "key" /\ CanReceive(s, KeyBytes(s))
        /\ IF s = "resp" /\ theirs[2] = createV1Prefix(conn.net[s])[2]
           THEN Taken(s, KeyBytes(s)) /\ Closes(s, "failed") /\ UNCHANGED <<secret, sendCtr>>
           ELSE /\ secret' = [secret EXCEPT ![s] = sec]
                /\ wire' = [wire EXCEPT ![s] = SubSeq(@, KeyBytes(s) + 1, Len(@)),
                                        ![Other(s)] = @ \o Terminator(s, sec) \o FirstPackets(s, sec)]
                /\ sendCtr' = [sendCtr EXCEPT ![s] = @ + conn.decoys[s] + 1]
                /\ Moves(s, "garbage") /\ UNCHANGED closed
        /\ UNCHANGED <<conn, prefix, got, recvCtr, sent, timedOut>>

\* Nothing came before the connection ended: the peer may know v1 only.
KeyFails(s) ==
    /\ at[s] = "key" /\ ReceiveFails(s, KeyBytes(s))
    /\ Closes(s, IF s = "init" /\ NumRead(s) = 0 THEN "downgrade" ELSE "failed")
    /\ UNCHANGED <<conn, wire, prefix, Ciphers>>

Found(s) == Len(got[s]) >= TermLen
            /\ SubSeq(got[s], Len(got[s]) - TermLen + 1, Len(got[s])) = Terminator(Other(s), secret[s])

\* The loop looks for the terminator before it reads the next byte and runs
\* MaxGarbageLen times: the last byte it reads is not looked at.
GarbageLimit == TermLen + MaxGarbageLen

ReadGarbage(s) ==
    LET n == IF got[s] = <<>> THEN TermLen ELSE 1
    IN  /\ at[s] = "garbage" /\ ~Found(s) /\ CanReceive(s, n)
        /\ got' = [got EXCEPT ![s] = @ \o SubSeq(wire[s], 1, n)]
        /\ Taken(s, n)
        /\ IF Len(got[s]) + n = GarbageLimit THEN Closes(s, "failed")
           ELSE UNCHANGED <<at, closed>>
        /\ UNCHANGED <<conn, prefix, secret, sendCtr, recvCtr, sent, timedOut>>

ReadGarbageFails(s) ==
    /\ at[s] = "garbage" /\ ~Found(s) /\ ReceiveFails(s, IF got[s] = <<>> THEN TermLen ELSE 1)
    /\ Closes(s, "failed")
    /\ UNCHANGED <<conn, wire, prefix, Ciphers>>

\* V2ReceivePacket: the packet opens under the key, the nonce and the aad the
\* receiver is at.
Opens(s, packet, aad) ==
    packet = Packet(Other(s), secret[s], recvCtr[s], aad, packet.ignore, packet.content)

FirstPacket(s) ==
    LET aad == IF recvCtr[s] = 0 THEN SubSeq(got[s], 1, Len(got[s]) - TermLen) ELSE <<>>
    IN  /\ at[s] = "garbage" /\ Found(s) /\ CanReceive(s, 1)
        /\ Taken(s, 1)
        /\ IF Opens(s, Head(wire[s]), aad)
           THEN /\ recvCtr' = [recvCtr EXCEPT ![s] = @ + 1] /\ UNCHANGED closed
                /\ Moves(s, IF Head(wire[s]).ignore THEN "garbage" ELSE "ready")
           ELSE Closes(s, "rejected") /\ UNCHANGED recvCtr
        /\ UNCHANGED <<conn, prefix, secret, got, sendCtr, sent, timedOut>>

FirstPacketFails(s) ==
    /\ at[s] = "garbage" /\ Found(s) /\ ReceiveFails(s, 1)
    /\ Closes(s, "failed")
    /\ UNCHANGED <<conn, wire, prefix, Ciphers>>

(***************************************************************************)
(* The connection after the handshake, and its end.                        *)
(***************************************************************************)
V2EncPacket(s) ==
    /\ at[s] = "ready" /\ s \notin closed /\ Len(sent[s]) < MaxPackets
    /\ Send(s, <<Packet(s, secret[s], sendCtr[s], <<>>, FALSE, Len(sent[s]) + 1)>>)
    /\ sent' = [sent EXCEPT ![s] = Append(@, Packet(s, secret[s], sendCtr[s], <<>>, FALSE, Len(@) + 1))]
    /\ sendCtr' = [sendCtr EXCEPT ![s] = @ + 1]
    /\ UNCHANGED <<conn, at, closed, prefix, secret, got, recvCtr, timedOut>>

V2ReceivePacket(s) ==
    /\ at[s] = "ready" /\ CanReceive(s, 1)
    /\ Taken(s, 1)
    /\ IF Opens(s, Head(wire[s]), <<>>)
       THEN recvCtr' = [recvCtr EXCEPT ![s] = @ + 1] /\ UNCHANGED <<at, closed>>
       ELSE Closes(s, "rejected") /\ UNCHANGED recvCtr
    /\ UNCHANGED <<conn, prefix, secret, got, sendCtr, sent, timedOut>>

\* The negotiation timeout of either side.
TimedOut(s) ==
    /\ at[s] \in {"start", "key", "garbage"} /\ s \notin closed
    /\ closed' = closed \cup {s} /\ timedOut' = TRUE
    /\ UNCHANGED <<conn, at, wire, prefix, secret, got, sendCtr, recvCtr, sent>>

V2Side(s) ==
    \/ CompleteHandshake(s) \/ KeyFails(s) \/ ReadGarbage(s) \/ ReadGarbageFails(s)
    \/ FirstPacket(s) \/ FirstPacketFails(s) \/ V2ReceivePacket(s) \/ V2EncPacket(s)

V2Next ==
    \/ InitiateV2Handshake \/ RespondV1 \/ RespondV2Handshake \/ RespondFails
    \/ \E s \in Sides : V2Side(s) \/ TimedOut(s)

V2Fairness ==
    /\ WF_v2Vars(InitiateV2Handshake) /\ WF_v2Vars(RespondV1 \/ RespondV2Handshake \/ RespondFails)
    /\ \A s \in Sides : WF_v2Vars(V2Side(s))

(***************************************************************************)
(* Properties.                                                             *)
(***************************************************************************)

\* A packet of the other side always opens: sender and receiver agree on the
\* key, the nonce and the associated data through decoys and rekeying.
PacketsOpen == \A s \in Sides : at[s] # "rejected"

\* No two packets of a direction are sealed under the same key and nonce.
NoncesFresh ==
    \A s \in Sides : \A i, j \in 1..Len(sent[s]) :
        i # j => sent[s][i].nonce # sent[s][j].nonce

OneNetwork == conn.net["init"] = conn.net["resp"]

Agreed ==
    \/ timedOut \/ \E s \in Sides : conn.garbage[s] = MaxGarbageLen
    \/ at["init"] = "ready" /\ at["resp"] = "ready"
    \/ at["init"] = "usev1" /\ at["resp"] = "usev1"
    \/ at["init"] = "downgrade" /\ conn.resp = "v1"

\* Two nodes of one network come to an agreement if neither times out: both
\* use the new transport, or both the old one, or the initiator learns that it
\* must connect again with the old one.  Garbage of the full length aside.
TransportsAgree == OneNetwork ~> Agreed

\* "MaxGarbageLen is the maximum size of garbage that either peer is allowed
\* to send": no side gives up on garbage of an allowed size.
AllowedGarbageAccepted ==
    OneNetwork => \A s \in Sides : at[s] = "failed" => Len(got[s]) < GarbageLimit
=============================================================================
