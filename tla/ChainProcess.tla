---------------------------- MODULE ChainProcess ----------------------------
(***************************************************************************)
(* How the node chooses its best chain: ProcessBlock with orphans, best    *)
(* chain selection and reorganization, and the InvalidateBlock and         *)
(* ReconsiderBlock calls of the RPC server.  The sync manager calls        *)
(* ProcessBlock from one goroutine; the RPC server runs in others.  Both   *)
(* take chainLock, but connectBlock, disconnectBlock and maybeAcceptBlock  *)
(* release it while they send their notifications, so the calls of the two *)
(* actors interleave at these points.                                      *)
(*                                                                         *)
(* What a block contains is left out: BadScript, BadPrefix and             *)
(* BadCommitment say which of the three places that validate a block       *)
(* refuses it.  ReapValidation, UtxoCache and ExpiryIndex model those      *)
(* places.                                                                 *)
(***************************************************************************)
EXTENDS Integers, Sequences, FiniteSets, Functions

CONSTANTS
    Block,          \* the blocks of the tree
    Genesis,        \* the first block
    None,           \* no block, no actor
    Parent,         \* block -> the block its header names as previous
    Work,           \* block -> workSum
    Path,           \* block -> the blocks from the genesis block to it
    BadScript,      \* the blocks that checkConnectBlock refuses
    BadPrefix,      \* the blocks that checkReapGlobalPrefix refuses
    BadCommitment,  \* the blocks that the expiry index refuses in connectBlock
    MaxOrphans,     \* maxOrphanBlocks
    Overlap,        \* whether a call may start while the other actor is in one
    MaxCalls,       \* bound on the calls of the RPC server
    MaxCrashes      \* bound on crashes

VARIABLES
    flags,         \* block -> status flags of its node; {} if it has no node
    stored,        \* the flags that flushToDB has written
    best,          \* the tip of bestChain, also the stored best state
    orphans,       \* the orphan pool, oldest first
    oldestOrphan,  \* the field of that name: the next orphan to evict
    utxoTip,       \* the block whose unspent outputs are on disk
    utxoStatus,    \* the block that the stored consistency status names
    lock,          \* the actor that holds chainLock
    call,          \* actor -> the call it is in
    calls, crashes \* counters for the bounds

nodeVars == <<flags, stored>>
orphanVars == <<orphans, oldestOrphan>>
utxoVars == <<utxoTip, utxoStatus>>
counters == <<calls, crashes>>
vars == <<nodeVars, best, orphanVars, utxoVars, lock, call, counters>>

Actor == {"sync", "rpc"}
Flag == {"data", "valid", "failed", "ancestor"}
Pcs == {"idle", "accept", "best", "reorganize", "disconnect", "disconnected",
        "connect", "connected", "accepted", "orphans"}
Ops == {"none", "extend", "process", "invalidate", "switch", "reconsider"}

Idle == [pc |-> "idle", op |-> "none", node |-> None,
         detach |-> <<>>, attach |-> <<>>, queue |-> <<>>]

Call == [pc : Pcs, op : Ops, node : Block \cup {None},
         detach : Seq(Block), attach : Seq(Block), queue : Seq(Block)]

TypeOK ==
    /\ flags \in [Block -> SUBSET Flag]
    /\ stored \in [Block -> SUBSET Flag]
    /\ best \in Block
    /\ orphans \in Seq(Block) /\ IsInjective(orphans)
    /\ oldestOrphan \in Block \cup {None}
    /\ utxoTip \in Block /\ utxoStatus \in Block
    /\ lock \in Actor \cup {None}
    /\ call \in [Actor -> Call]
    /\ \A p \in Actor : call[p].pc = "idle" => lock # p
    /\ calls \in Nat /\ crashes \in Nat

\* The links of the tree lead from every block to the genesis block.
ASSUME PathAssumption ==
    /\ Path \in [Block -> Seq(Block)]
    /\ \A b \in Block :
          /\ Path[b] = IF b = Genesis THEN <<Genesis>> ELSE Append(Path[Parent[b]], b)
          /\ \A i \in 1..Len(Path[b]) : Path[Path[b][i]] = SubSeq(Path[b], 1, i)

ASSUME ChainAssumption ==
    /\ Genesis \in Block /\ None \notin Block \cup Actor
    /\ Parent \in [Block -> Block \cup {None}]
    /\ Work \in [Block -> Nat]
    /\ \A b \in Block : IF b = Genesis THEN Parent[b] = None
                        ELSE Parent[b] \in Block /\ Work[Parent[b]] < Work[b]
    /\ BadScript \cup BadPrefix \cup BadCommitment \subseteq Block \ {Genesis}
    /\ Overlap \in BOOLEAN
    /\ MaxOrphans \in Nat \ {0} /\ MaxCalls \in Nat /\ MaxCrashes \in Nat

\* The block index has one node for a hash of 32 bytes.
ASSUME FiniteAssumption == IsFiniteSet(Block)

-----------------------------------------------------------------------------
(***************************************************************************)
(* The block index                                                         *)
(***************************************************************************)

\* The blocks from the genesis block to b.
Chain == [b \in Block |-> Range(Path[b])]

\* How many blocks the chains of a and b share, and the chain of b above them.
FindFork ==
    [a \in Block |-> [b \in Block |->
        CHOOSE k \in 1..Len(Path[b]) :
            \A i \in 1..Len(Path[b]) : Path[b][i] \in Chain[a] <=> i <= k]]
Branches ==
    [a \in Block |-> [b \in Block |-> SubSeq(Path[b], FindFork[a][b] + 1, Len(Path[b]))]]

\* The same for the best chain and the chain of b.
Fork(b) == FindFork[best][b]
Branch(b) == Branches[best][b]

\* The blocks of the best chain above its first k, from the tip down.
Downward(k) == [i \in 1..(Len(Path[best]) - k) |-> Path[best][Len(Path[best]) + 1 - i]]

HaveBlock(b) == "data" \in flags[b]
KnownValid(f, b) == "valid" \in f[b]
KnownInvalid(f, b) == f[b] \cap {"failed", "ancestor"} # {}
SetStatusFlags(f, S, x) == [b \in Block |-> IF b \in S THEN f[b] \cup {x} ELSE f[b]]
UnsetStatusFlags(f, S, X) == [b \in Block |-> IF b \in S THEN f[b] \ X ELSE f[b]]

\* The nodes off the best chain that have no child off the best chain.
InactiveTips ==
    LET off == {b \in Block : HaveBlock(b)} \ Chain[best]
    IN  {b \in off : \A c \in off : Parent[c] # b}

\* What getReorganizeNodes returns: the blocks to detach and to attach, or two
\* empty lists and more invalid ancestors when a block of the branch is invalid.
getReorganizeNodes(f, b) ==
    LET branch == Branch(b)
        bad == {i \in DOMAIN branch : KnownInvalid(f, branch[i])}
        above == {branch[j] : j \in {j \in DOMAIN branch : \A i \in bad : i < j}}
    IN  IF KnownInvalid(f, Parent[b])
        THEN [flags |-> SetStatusFlags(f, {b}, "ancestor"), detach |-> <<>>, attach |-> <<>>]
        ELSE IF bad # {}
        THEN [flags |-> SetStatusFlags(f, above, "ancestor"), detach |-> <<>>, attach |-> <<>>]
        ELSE [flags |-> f, detach |-> Downward(Fork(b)), attach |-> branch]

\* checkConnectBlock looks at the REAP prefix only when b extends the best tip.
checkConnectBlock(b) == b \notin BadScript /\ (Parent[b] = best => b \notin BadPrefix)

\* Seeded fault: the whole branch fails with its first bad block.
verifyReorganizationValidity_marksAll(f, detach, attach) ==
    LET bad == {i \in DOMAIN attach : ~KnownValid(f, attach[i]) /\ ~checkConnectBlock(attach[i])}
    IN  [ok |-> bad = {},
         flags |-> SetStatusFlags(f, Range(attach), IF bad = {} THEN "valid" ELSE "failed")]

\* verifyReorganizationValidity: the blocks to attach are checked in order, the
\* first bad one fails and the ones after it get an invalid ancestor.
verifyReorganizationValidity(f, detach, attach) ==
    LET bad == {i \in DOMAIN attach : ~KnownValid(f, attach[i]) /\ ~checkConnectBlock(attach[i])}
        before == {i \in DOMAIN attach : \A j \in bad : i < j}
        after == {i \in DOMAIN attach : \E j \in bad : j < i}
        first == bad \ after
        Blocks(I) == {attach[i] : i \in I}
    IN  IF detach # <<>> /\ Head(detach) # best
        THEN [ok |-> FALSE, flags |-> f]
        ELSE [ok |-> bad = {},
              flags |-> SetStatusFlags(SetStatusFlags(SetStatusFlags(f,
                           Blocks(before), "valid"), Blocks(first), "failed"), Blocks(after), "ancestor")]

-----------------------------------------------------------------------------
(***************************************************************************)
(* ProcessBlock                                                            *)
(***************************************************************************)

Init ==
    /\ flags = [b \in Block |-> IF b = Genesis THEN {"data", "valid"} ELSE {}]
    /\ stored = flags
    /\ best = Genesis
    /\ orphans = <<>> /\ oldestOrphan = None
    /\ utxoTip = Genesis /\ utxoStatus = Genesis
    /\ lock = None
    /\ call = [p \in Actor |-> Idle]
    /\ calls = 0 /\ crashes = 0

\* Actor p starts a call: nobody holds chainLock.
Free(p) ==
    /\ lock = None /\ call[p].pc = "idle"
    /\ Overlap \/ \A q \in Actor : call[q].pc = "idle"

\* A call that holds chainLock and is at pc.
At(p, pc) == lock = p /\ call[p].pc = pc
Goto(p, pc) == call' = [call EXCEPT ![p].pc = pc]

\* The call returns and its deferred unlock runs.
Return(p) == call' = [call EXCEPT ![p] = Idle] /\ lock' = None

\* The orphan pool s without its i-th orphan.
removeOrphanBlock(s, i) == SubSeq(s, 1, i - 1) \o SubSeq(s, i + 1, Len(s))

\* addOrphanBlock: expired orphans leave, the oldest leaves if the pool is full.
addOrphanBlock(b) ==
    \E n \in 0..Len(orphans) :
        LET kept == SubSeq(orphans, n + 1, Len(orphans))
            oldest == IF oldestOrphan = None /\ kept # <<>> THEN Head(kept) ELSE oldestOrphan
        IN  IF Len(kept) + 1 > MaxOrphans
            THEN /\ \/ /\ oldest \notin Range(kept)
                       /\ orphans' = Append(kept, b)
                    \/ \E i \in DOMAIN kept :
                          /\ kept[i] = oldest
                          /\ orphans' = Append(removeOrphanBlock(kept, i), b)
                 /\ oldestOrphan' = None
            ELSE /\ orphans' = Append(kept, b)
                 /\ oldestOrphan' = oldest

\* A block arrives.  A block that has a node or is an orphan is a duplicate and
\* changes nothing.  A block whose parent has no node becomes an orphan.
ProcessOrphanBlock(b) ==
    /\ Free("sync")
    /\ ~HaveBlock(b) /\ b \notin Range(orphans)
    /\ ~HaveBlock(Parent[b])
    /\ addOrphanBlock(b)
    /\ UNCHANGED <<nodeVars, best, utxoVars, lock, call, counters>>

ProcessBlock(b) ==
    /\ Free("sync")
    /\ ~HaveBlock(b) /\ b \notin Range(orphans)
    /\ HaveBlock(Parent[b])
    /\ lock' = "sync"
    /\ call' = [call EXCEPT !["sync"] = [Idle EXCEPT !.pc = "accept", !.node = b]]
    /\ UNCHANGED <<nodeVars, best, orphanVars, utxoVars, counters>>

\* Seeded fault: one more unit of work is not enough.
MoreWork_heavier(b) == Work[b] > Work[best] + 1

\* The branch of b has more work than the best chain.
MoreWork(b) == Work[b] > Work[best]

\* maybeAcceptBlock: a block on top of an invalid one is refused; any other gets
\* a node, which is stored before the block is validated.
maybeAcceptBlock ==
    /\ At("sync", "accept")
    /\ LET b == call["sync"].node
       IN  \/ /\ KnownInvalid(flags, Parent[b])
              /\ Return("sync")
              /\ UNCHANGED nodeVars
           \/ /\ ~KnownInvalid(flags, Parent[b])
              /\ flags' = [flags EXCEPT ![b] = {"data"}]
              /\ stored' = flags'
              /\ Goto("sync", "best") /\ UNCHANGED lock
    /\ UNCHANGED <<best, orphanVars, utxoVars, counters>>

\* connectBestChain up to connectBlock or the first disconnectBlock: the block
\* extends the best chain, stays on a side chain, or makes a side chain the best.
connectBestChain ==
    /\ At("sync", "best")
    /\ LET b == call["sync"].node
           r == getReorganizeNodes(flags, b)
           v == verifyReorganizationValidity(r.flags, r.detach, r.attach)
       IN  \/ /\ Parent[b] = best
              /\ checkConnectBlock(b)
              /\ flags' = SetStatusFlags(flags, {b}, "valid")
              /\ stored' = flags'
              /\ call' = [call EXCEPT !["sync"].pc = "reorganize",
                                      !["sync"].op = "extend",
                                      !["sync"].attach = <<b>>]
              /\ UNCHANGED lock
           \/ /\ Parent[b] = best
              /\ ~checkConnectBlock(b)
              /\ flags' = SetStatusFlags(flags, {b}, "failed")
              /\ stored' = flags'
              /\ Return("sync")
           \/ /\ Parent[b] # best /\ ~MoreWork(b)
              /\ Goto("sync", "accepted") /\ lock' = None
              /\ UNCHANGED nodeVars
           \/ /\ Parent[b] # best /\ MoreWork(b)
              /\ v.ok
              /\ flags' = v.flags
              /\ call' = [call EXCEPT !["sync"].pc = "reorganize",
                                      !["sync"].op = "process",
                                      !["sync"].detach = r.detach,
                                      !["sync"].attach = r.attach]
              /\ UNCHANGED <<stored, lock>>
           \/ /\ Parent[b] # best /\ MoreWork(b)
              /\ ~v.ok
              /\ flags' = v.flags
              /\ stored' = flags'
              /\ Return("sync")
    /\ UNCHANGED <<best, orphanVars, utxoVars, counters>>

\* After the NTBlockAccepted notification the block joins the list of hashes
\* whose orphans processOrphans looks for.
ResumeAccepted ==
    /\ lock = None /\ call["sync"].pc = "accepted"
    /\ lock' = "sync"
    /\ call' = [call EXCEPT !["sync"].pc = "orphans", !["sync"].op = "none",
                            !["sync"].queue = Append(@, call["sync"].node)]
    /\ UNCHANGED <<nodeVars, best, orphanVars, utxoVars, counters>>

\* The first orphan on top of block h.
IsFirstOrphan(i, h) ==
    Parent[orphans[i]] = h /\ \A j \in 1..(i - 1) : Parent[orphans[j]] # h

\* Seeded fault: a hash without orphans stays at the head of the list.
processOrphans_stays ==
    /\ At("sync", "orphans")
    /\ call["sync"].queue # <<>>
    /\ \E i \in DOMAIN orphans :
          /\ IsFirstOrphan(i, Head(call["sync"].queue))
          /\ orphans' = removeOrphanBlock(orphans, i)
          /\ call' = [call EXCEPT !["sync"].pc = "accept", !["sync"].node = orphans[i]]
    /\ UNCHANGED <<nodeVars, best, oldestOrphan, utxoVars, lock, counters>>

\* One turn of processOrphans: the first orphan of the first hash is accepted
\* next, or the hash is done.  ProcessBlock returns when no hash is left.
processOrphans ==
    /\ At("sync", "orphans")
    /\ LET q == call["sync"].queue
       IN  \/ /\ q = <<>>
              /\ Return("sync")
              /\ UNCHANGED orphans
           \/ /\ q # <<>> /\ \A i \in DOMAIN orphans : Parent[orphans[i]] # Head(q)
              /\ call' = [call EXCEPT !["sync"].queue = Tail(@)]
              /\ UNCHANGED <<orphans, lock>>
           \/ /\ q # <<>>
              /\ \E i \in DOMAIN orphans :
                    /\ IsFirstOrphan(i, Head(q))
                    /\ orphans' = removeOrphanBlock(orphans, i)
                    /\ call' = [call EXCEPT !["sync"].pc = "accept", !["sync"].node = orphans[i]]
              /\ UNCHANGED lock
    /\ UNCHANGED <<nodeVars, best, oldestOrphan, utxoVars, counters>>

-----------------------------------------------------------------------------
(***************************************************************************)
(* reorganizeChain, connectBlock and disconnectBlock.  The same steps      *)
(* connect a block that extends the best chain (op = "extend").            *)
(***************************************************************************)

\* reorganizeChain, or connectBlock for op = "extend", fails with the status
\* flags f.  connectBestChain and the second reorganization of InvalidateBlock
\* write the flags, the other callers return at once.
Fails(p, f) ==
    /\ flags' = f
    /\ stored' = IF call[p].op \in {"extend", "process", "switch"} THEN f ELSE stored
    /\ Return(p)

\* disconnectBlock up to its flushToDB, for the next block to detach.
StartDisconnect(p) ==
    /\ At(p, "reorganize") /\ call[p].detach # <<>>
    /\ \/ /\ Head(call[p].detach) = best
          /\ stored' = flags
          /\ Goto(p, "disconnect")
          /\ UNCHANGED <<flags, lock>>
       \/ /\ Head(call[p].detach) # best
          /\ Fails(p, flags)
    /\ UNCHANGED <<best, orphanVars, utxoVars, counters>>

\* Seeded fault: the flush is recorded under the block that is disconnected.
disconnectBlock_namesOld(p) ==
    /\ At(p, "disconnect")
    /\ best' = Parent[best]
    /\ utxoTip' = best' /\ utxoStatus' = best
    /\ call' = [call EXCEPT ![p].pc = "disconnected", ![p].detach = Tail(@)]
    /\ lock' = None
    /\ UNCHANGED <<nodeVars, orphanVars, counters>>

\* The database transaction of disconnectBlock, which flushes the unspent
\* outputs, then the new tip, then the unlock for the notification.
disconnectBlock(p) ==
    /\ At(p, "disconnect")
    /\ best' = Parent[best]
    /\ utxoTip' = best' /\ utxoStatus' = best'
    /\ call' = [call EXCEPT ![p].pc = "disconnected", ![p].detach = Tail(@)]
    /\ lock' = None
    /\ UNCHANGED <<nodeVars, orphanVars, counters>>

ResumeDisconnected(p) ==
    /\ lock = None /\ call[p].pc = "disconnected"
    /\ lock' = p
    /\ Goto(p, "reorganize")
    /\ UNCHANGED <<nodeVars, best, orphanVars, utxoVars, counters>>

\* Seeded fault: the prefix check is left to checkConnectBlock.
StartConnect_noPrefix(p) ==
    /\ At(p, "reorganize") /\ call[p].detach = <<>> /\ call[p].attach # <<>>
    /\ Parent[Head(call[p].attach)] = best
    /\ stored' = flags
    /\ Goto(p, "connect")
    /\ UNCHANGED <<flags, best, lock, orphanVars, utxoVars, counters>>

\* The prefix check of the next block to attach, and connectBlock up to its
\* flushToDB.  The prefix source follows the best chain.
StartConnect(p) ==
    /\ At(p, "reorganize") /\ call[p].detach = <<>> /\ call[p].attach # <<>>
    /\ LET b == Head(call[p].attach)
       IN  \/ /\ b \in BadPrefix
              /\ Fails(p, SetStatusFlags(flags, {b}, "failed"))
           \/ /\ b \notin BadPrefix /\ Parent[b] = best
              /\ stored' = flags
              /\ Goto(p, "connect")
              /\ UNCHANGED <<flags, lock>>
           \/ /\ b \notin BadPrefix /\ Parent[b] # best
              /\ Fails(p, flags)
    /\ UNCHANGED <<best, orphanVars, utxoVars, counters>>

\* The database transaction of connectBlock, in which the expiry index may
\* refuse the block; then the new tip and the unlock for the notification.
\* Only connectBestChain marks a refused block as failed.
connectBlock(p) ==
    /\ At(p, "connect")
    /\ LET b == Head(call[p].attach)
       IN  \/ /\ b \notin BadCommitment
              /\ best' = b
              /\ Goto(p, "connected") /\ lock' = None
              /\ UNCHANGED nodeVars
           \/ /\ b \in BadCommitment /\ call[p].op = "extend"
              /\ Fails(p, SetStatusFlags(flags, {b}, "failed"))
              /\ UNCHANGED best
           \/ /\ b \in BadCommitment /\ call[p].op # "extend"
              /\ Fails(p, flags)
              /\ UNCHANGED best
    /\ UNCHANGED <<orphanVars, utxoVars, counters>>

\* connectBlock takes the lock again and flushes the unspent outputs if the
\* cache is full, under the name of the block it connected before the unlock.
\* The cache can be full only when it holds blocks that are not on disk yet.
ResumeConnected(p) ==
    /\ lock = None /\ call[p].pc = "connected"
    /\ lock' = p
    /\ \/ UNCHANGED utxoVars
       \/ /\ utxoStatus # Head(call[p].attach) /\ utxoTip # best
          /\ utxoTip' = best /\ utxoStatus' = Head(call[p].attach)
    /\ call' = [call EXCEPT ![p].pc = "reorganize", ![p].attach = Tail(@)]
    /\ UNCHANGED <<nodeVars, best, orphanVars, counters>>

\* connectBestChain after it connected its block or its branch.
FinishAccept ==
    /\ At("sync", "reorganize")
    /\ call["sync"].detach = <<>> /\ call["sync"].attach = <<>>
    /\ IF call["sync"].op = "extend" /\ KnownValid(flags, call["sync"].node)
       THEN UNCHANGED nodeVars
       ELSE /\ flags' = IF call["sync"].op = "extend"
                        THEN SetStatusFlags(flags, {call["sync"].node}, "valid") ELSE flags
            /\ stored' = flags'
    /\ Goto("sync", "accepted") /\ lock' = None
    /\ UNCHANGED <<best, orphanVars, utxoVars, counters>>

-----------------------------------------------------------------------------
(***************************************************************************)
(* The RPC server                                                          *)
(***************************************************************************)

\* InvalidateBlock of a block off the best chain: it and all its descendants
\* become invalid.
InvalidateSideBlock(b) ==
    /\ Free("rpc") /\ calls < MaxCalls
    /\ HaveBlock(b) /\ b # Genesis /\ ~KnownInvalid(flags, b)
    /\ b \notin Chain[best]
    /\ LET below == {d \in Block : HaveBlock(d) /\ d # b /\ b \in Chain[d] /\ ~KnownInvalid(flags, d)}
       IN  flags' = UnsetStatusFlags(
                       SetStatusFlags(SetStatusFlags(flags, {b}, "failed"), below, "ancestor"),
                       below \cup {b}, {"valid"})
    /\ stored' = flags'
    /\ calls' = calls + 1
    /\ UNCHANGED <<best, orphanVars, utxoVars, lock, call, crashes>>

\* The list of the blocks S from the tip of the best chain down.
FromTheTip(S) ==
    {s \in UNION {[1..n -> S] : n \in 1..Len(Path[best])} :
        /\ Range(s) = S
        /\ \A i, j \in DOMAIN s : i < j => Len(Path[s[i]]) > Len(Path[s[j]])}

\* InvalidateBlock of a block of the best chain: the blocks of the best chain
\* from b on become invalid and are to be detached.
InvalidateBestBlock(b) ==
    /\ Free("rpc") /\ calls < MaxCalls
    /\ HaveBlock(b) /\ b # Genesis /\ ~KnownInvalid(flags, b)
    /\ b \in Chain[best]
    /\ LET above == {x \in Chain[best] : b \in Chain[x] /\ x # b /\ ~KnownInvalid(flags, x)}
       IN  /\ flags' = UnsetStatusFlags(
                          SetStatusFlags(SetStatusFlags(flags, {b}, "failed"), above, "ancestor"),
                          above \cup {b}, {"valid"})
           /\ \E detach \in FromTheTip(above \cup {b}) :
                 IF Head(detach) = best
                 THEN /\ lock' = "rpc"
                      /\ call' = [call EXCEPT !["rpc"] =
                                     [Idle EXCEPT !.pc = "reorganize", !.op = "invalidate",
                                                  !.detach = detach]]
                 ELSE UNCHANGED <<lock, call>>
    /\ calls' = calls + 1
    /\ UNCHANGED <<stored, best, orphanVars, utxoVars, crashes>>

\* Seeded fault: the tip the node is at is not among the candidates.
BestTips_inactive ==
    LET tips == {t \in InactiveTips : ~KnownInvalid(flags, t)}
    IN  {t \in tips : \A u \in tips : Work[u] <= Work[t]}

\* The tips with the most work among those whose own flags are not invalid.
BestTips ==
    LET tips == {t \in InactiveTips \cup {best} : ~KnownInvalid(flags, t)}
    IN  {t \in tips : \A u \in tips : Work[u] <= Work[t]}

\* InvalidateBlock has detached its blocks and looks for the best tip left.
ChoosesTip ==
    At("rpc", "reorganize") /\ call["rpc"].op = "invalidate" /\ call["rpc"].detach = <<>>

\* It moves there.  Of two tips with the same work, the one that comes first is
\* taken.
SwitchToBestTip ==
    /\ ChoosesTip
    /\ BestTips # {}
    /\ \E t \in BestTips :
          LET r == getReorganizeNodes(flags, t)
              v == verifyReorganizationValidity(r.flags, r.detach, r.attach)
          IN  \/ /\ t = best
                 /\ stored' = flags
                 /\ Return("rpc")
                 /\ UNCHANGED flags
              \/ /\ t # best /\ v.ok
                 /\ flags' = v.flags
                 /\ stored' = flags
                 /\ call' = [call EXCEPT !["rpc"].op = "switch",
                                         !["rpc"].detach = r.detach,
                                         !["rpc"].attach = r.attach]
                 /\ UNCHANGED lock
              \/ /\ t # best /\ ~v.ok
                 /\ flags' = v.flags
                 /\ stored' = flags'
                 /\ Return("rpc")
    /\ UNCHANGED <<best, orphanVars, utxoVars, counters>>

\* No tip is left, and getReorganizeNodes dereferences nil: the panic ends the
\* call, and its deferred unlock runs.
NilTip ==
    /\ ChoosesTip
    /\ BestTips = {}
    /\ stored' = flags
    /\ Return("rpc")
    /\ UNCHANGED <<flags, best, orphanVars, utxoVars, counters>>

\* The tips that ReconsiderBlock may take for b: the best tip if b is below it,
\* else b itself if it is a tip, or any inactive tip above b (the last in map
\* order).
ReconsiderTips(b) ==
    IF b \in Chain[best] THEN {best} ELSE {t \in InactiveTips : b \in Chain[t]}

\* ReconsiderBlock: b and the blocks above it lose their invalid flags, except
\* for blocks that failed themselves; then the node moves to the tip it found
\* if that has more work and its branch verifies.
ReconsiderBlock(b) ==
    /\ Free("rpc") /\ calls < MaxCalls
    /\ HaveBlock(b) /\ ~KnownValid(flags, b)
    /\ LET above == {d \in Block : HaveBlock(d) /\ d # b /\ b \in Chain[d]}
           f == UnsetStatusFlags(UnsetStatusFlags(flags, {b}, {"ancestor", "failed"}),
                                 above, {"ancestor"})
       IN  \E t \in ReconsiderTips(b) :
              LET r == getReorganizeNodes(f, t)
                  v == verifyReorganizationValidity(r.flags, r.detach, r.attach)
              IN  \/ /\ Work[t] <= Work[best]
                     /\ flags' = f
                     /\ UNCHANGED <<stored, lock, call>>
                  \/ /\ Work[t] > Work[best] /\ ~v.ok
                     /\ flags' = v.flags
                     /\ stored' = flags'
                     /\ UNCHANGED <<lock, call>>
                  \/ /\ Work[t] > Work[best] /\ v.ok
                     /\ flags' = v.flags
                     /\ stored' = flags'
                     /\ lock' = "rpc"
                     /\ call' = [call EXCEPT !["rpc"] =
                                    [Idle EXCEPT !.pc = "reorganize", !.op = "reconsider",
                                                 !.detach = r.detach, !.attach = r.attach]]
    /\ calls' = calls + 1
    /\ UNCHANGED <<best, orphanVars, utxoVars, crashes>>

\* The last reorganization of InvalidateBlock or ReconsiderBlock is done.
FinishRpc ==
    /\ At("rpc", "reorganize") /\ call["rpc"].op \in {"switch", "reconsider"}
    /\ call["rpc"].detach = <<>> /\ call["rpc"].attach = <<>>
    /\ stored' = IF call["rpc"].op = "switch" THEN flags ELSE stored
    /\ Return("rpc")
    /\ UNCHANGED <<flags, best, orphanVars, utxoVars, counters>>

-----------------------------------------------------------------------------
\* The process dies and starts again.  initChainState loads the stored nodes
\* and marks the blocks of the best chain as valid; InitConsistentState brings
\* the unspent outputs in memory to the best tip.
Crash ==
    /\ crashes < MaxCrashes
    /\ flags' = SetStatusFlags(stored, Chain[best], "valid")
    /\ stored' = flags'
    /\ orphans' = <<>> /\ oldestOrphan' = None
    /\ lock' = None
    /\ call' = [p \in Actor |-> Idle]
    /\ crashes' = crashes + 1
    /\ UNCHANGED <<best, utxoVars, calls>>

Step(p) ==
    \/ StartDisconnect(p) \/ disconnectBlock(p) \/ ResumeDisconnected(p)
    \/ StartConnect(p) \/ connectBlock(p) \/ ResumeConnected(p)

SyncStep ==
    \/ maybeAcceptBlock \/ connectBestChain \/ FinishAccept
    \/ ResumeAccepted \/ processOrphans \/ Step("sync")

RpcStep == SwitchToBestTip \/ NilTip \/ FinishRpc \/ Step("rpc")

Arrival == \E b \in Block \ {Genesis} : ProcessOrphanBlock(b) \/ ProcessBlock(b)

RpcCall ==
    \E b \in Block : InvalidateSideBlock(b) \/ InvalidateBestBlock(b) \/ ReconsiderBlock(b)

Next == Arrival \/ RpcCall \/ SyncStep \/ RpcStep \/ Crash

Spec == Init /\ [][Next]_vars

(***************************************************************************)
(* A goroutine that can run does run, and one that waits for chainLock     *)
(* gets it although the other takes it again and again: Go's mutex hands   *)
(* the lock to a waiter that has starved for a millisecond.                *)
(***************************************************************************)
FairSpec == Spec /\ SF_vars(SyncStep) /\ SF_vars(RpcStep)

-----------------------------------------------------------------------------
(***************************************************************************)
(* Properties                                                              *)
(***************************************************************************)

Bad == BadScript \cup BadPrefix \cup BadCommitment
Quiet == \A p \in Actor : call[p].pc = "idle"

\* No block that any of the three validations refuses is ever part of the best
\* chain, though reorganizeChain validates in three places, skips blocks that
\* were validated before, and interleaves with the RPC calls.
BestIsSound == Chain[best] \cap Bad = {}

\* When no call is running, no sound branch that the node knows and does not
\* hold for invalid has more work than the best chain (connectBestChain).  A
\* crash between the flush of a new node and connectBlock leaves such a branch:
\* the node knows the block, has not connected it, and refuses it as a duplicate.
\* So may InvalidateBlock, which gives up when the tip it chose is on a branch of
\* the block it invalidated.
MostWork ==
    Quiet /\ crashes = 0 /\ calls = 0 => \A b \in Block :
        /\ HaveBlock(b)
        /\ Chain[b] \cap Bad = {}
        /\ \A a \in Chain[b] : ~KnownInvalid(flags, a)
        => Work[b] <= Work[best]

\* A sound block that maybeAcceptBlock accepts, RPC calls or not, leaves a best
\* chain with at least its work: a branch that a crash has left behind is taken
\* with its next block.
AcceptedIsBest ==
    LET b == call["sync"].node IN
    /\ call["sync"].pc = "accepted"
    /\ Chain[b] \cap Bad = {}
    /\ \A a \in Chain[b] : ~KnownInvalid(flags, a)
    => Work[b] <= Work[best]

\* When no call is running, the best chain holds no block that is known to be
\* invalid: maybeAcceptBlock would refuse every block on top of it.  A crash
\* during InvalidateBlock can leave one: its flags are stored before the best
\* state moves.
BestNotInvalid ==
    Quiet /\ (crashes = 0 \/ calls = 0) =>
        \A b \in Chain[best] : ~KnownInvalid(flags, b)

\* InvalidateBlock always finds a tip to move to: at the latest the parent of the
\* block it invalidated.  After a crash it may not: the crash can leave an
\* invalid block on the best chain (BestNotInvalid), which a later InvalidateBlock
\* does not detach.
AlwaysATip == ChoosesTip /\ crashes = 0 => BestTips # {}

\* statusValid is only given to blocks that checkConnectBlock accepts, whatever
\* order of side chains, reorganizations and reconsiderations led there.
ValidWasChecked == \A b \in Block : KnownValid(flags, b) => b \notin BadScript

\* Without InvalidateBlock a block is held for invalid only if it or a block
\* below it is: the flags that verifyReorganizationValidity and
\* getReorganizeNodes spread never reach an honest branch.
OnlyBadIsInvalid ==
    calls = 0 => \A b \in Block : KnownInvalid(flags, b) => Chain[b] \cap Bad # {}

\* addOrphanBlock exceeds its limit by at most one, when oldestOrphan names an
\* orphan that has left the pool.
OrphansBounded == Len(orphans) <= MaxOrphans + 1

\* The status flags are sound: they keep invalid blocks off the best chain, call
\* only checked blocks valid, and blame no block for another's failure.
FlagsSound == TypeOK /\ BestNotInvalid /\ ValidWasChecked /\ OnlyBadIsInvalid

\* Neither of the two searches that the code takes to succeed, or to stay small,
\* surprises it: the tip InvalidateBlock moves to, and the orphan to evict.
SearchesSound == AlwaysATip /\ OrphansBounded

\* A comment of writeCache: the stored hash indicates that the unspent outputs
\* on disk are "consistent until that hash".
StatusNamesDisk == utxoStatus = utxoTip

\* Every call returns.
CallsReturn == \A p \in Actor : (call[p].pc # "idle") ~> (call[p].pc = "idle")

=============================================================================
