------------------------------ MODULE Mempool -------------------------------
(***************************************************************************)
(* The transactions that a memory pool and a miner see, and the chain they *)
(* are confirmed in.                                                       *)
(*                                                                         *)
(* A transaction is what the pool tells apart: the outputs it spends and   *)
(* creates, its fee and size, whether it signals replacement, and the      *)
(* checks it fails.  The chain is the sequence of blocks above the genesis *)
(* block, a block the sequence of its transactions, without the coinbase.  *)
(***************************************************************************)
EXTENDS Integers, Sequences, FiniteSets, FiniteSetsExt, SequencesExt, TLC

CONSTANTS
    Tx,          \* transactions
    Output,      \* outpoints
    Origin,      \* outpoint -> transaction that creates it; Confirmed at genesis
    Confirmed,   \* not a transaction
    Spends,      \* transaction -> the outpoints it spends
    Fee, VSize,  \* transaction -> fee, virtual size
    SignalsRBF,  \* transactions with a sequence number of at most MaxRBFSequence
    Flaws,       \* transaction -> the checks it fails
    RelLock,     \* transaction -> blocks its inputs must have above them (BIP 68)
    Window       \* blocks after which an unspent output expires

TxSetAssumption ==
    /\ Confirmed \notin Tx
    /\ Origin \in [Output -> Tx \cup {Confirmed}]
    /\ Spends \in [Tx -> SUBSET Output \ {{}}]
    /\ Fee \in [Tx -> Nat] /\ VSize \in [Tx -> Nat \ {0}]
    /\ SignalsRBF \subseteq Tx
    /\ RelLock \in [Tx -> Nat]
    /\ Window \in Nat \ {0}

Creates(t) == {o \in Output : Origin[o] = t}

\* Fee per thousand bytes, as the pool's descriptors store it.
FeePerKB(t) == (Fee[t] * 1000) \div VSize[t]

ConfirmedTxs(c) == UNION {Range(c[h]) : h \in DOMAIN c}

\* The height at which chain c created output o: FetchUtxoView and
\* UtxoEntry.BlockHeight.
CreatedAt(c, o) ==
    IF Origin[o] = Confirmed THEN 0
    ELSE CHOOSE h \in DOMAIN c : Origin[o] \in Range(c[h])

\* The unspent outputs of chain c.
Unspent(c) ==
    LET txs == ConfirmedTxs(c)
    IN  {o \in Output : Origin[o] \in txs \cup {Confirmed}} \ UNION {Spends[t] : t \in txs}

\* The expiry rule for a transaction mined at height h.
Expired(c, o, h) == h >= CreatedAt(c, o) + Window

\* CalcSequenceLock and SequenceLockActive for a transaction mined at height h.
SequenceLockActive(c, t, h) == \A o \in Spends[t] : h >= CreatedAt(c, o) + RelLock[t]

\* The checks that a block applies to a transaction, in chain c.
ConsensusFlaws == {"sanity", "coinbase", "scripts"}
Minable(c, t) ==
    /\ Flaws[t] \cap ConsensusFlaws = {}
    /\ Spends[t] \subseteq Unspent(c)
    /\ SequenceLockActive(c, t, Len(c))
    /\ "reap" \notin Flaws[t] => \A o \in Spends[t] : ~Expired(c, o, Len(c))
    /\ "reap" \in Flaws[t] => \A o \in Spends[t] : Expired(c, o, Len(c))

\* A block on top of chain c: each transaction spends what the chain and the
\* transactions before it leave.
ValidBlock(c, txs) ==
    \A i \in DOMAIN txs :
        /\ txs[i] \notin ConfirmedTxs(c) \cup Range(SubSeq(txs, 1, i - 1))
        /\ Minable(Append(c, SubSeq(txs, 1, i - 1)), txs[i])

-----------------------------------------------------------------------------
(***************************************************************************)
(* The memory pool: accepted transactions, orphans that wait for a parent, *)
(* replacement by fee, and how the pool follows the chain.                 *)
(*                                                                         *)
(* Peers and RPC clients submit transactions while the chain moves.  One   *)
(* mutex serializes the calls; a call reads the chain when it checks a     *)
(* transaction, and the chain may move before the transaction is added.    *)
(* The chain tells the pool of each connected and disconnected block, and  *)
(* the sync manager answers with a sequence of calls, each of which takes  *)
(* the mutex for itself; the chain waits for that sequence to end.         *)
(***************************************************************************)

CONSTANTS
    Tag,               \* peers, which tag the orphans they send
    MaxOrphanTxs,      \* limit on the orphans
    LargeTx,           \* transactions larger than MaxOrphanTxSize
    MaxReplacementEvictions,
    MinRelayTxFee,     \* per thousand bytes
    FreeSize,          \* size from which a transaction must pay: priority size less 1000
    FreeTxRelayLimit,  \* limit on the size of free transactions
    AcceptNonStd, RejectReplacement, DisableRelayPriority,   \* policy
    Worlds             \* scenarios: the transactions that exist, the blocks that miners
                       \* may find, bounds on the height of the chain and of sync peers

MempoolAssumption ==
    /\ {MaxOrphanTxs, MinRelayTxFee, FreeSize, FreeTxRelayLimit} \subseteq Nat
    /\ LargeTx \subseteq Tx
    /\ {AcceptNonStd, RejectReplacement, DisableRelayPriority} \subseteq BOOLEAN
    /\ \A w \in Worlds : /\ w.txs \subseteq Tx /\ w.blocks \subseteq Seq(w.txs)
                         /\ {w.height, w.sync} \subseteq Nat

VARIABLES
    world,          \* the scenario
    chain,          \* the best chain
    pool,           \* accepted transactions
    outpoints,      \* outpoint -> pool transaction that spends it
    orphans,        \* orphan -> the peer that sent it and whether it has expired
    orphansByPrev,  \* outpoint -> orphans that spend it
    pennyTotal,     \* size of the free transactions relayed lately
    scanDue,        \* the scan for expired orphans is due
    call,           \* the call that holds the mutex
    note,           \* the notification that is being handled
    syncHeight,     \* height the sync peer claims; the node is current at or above it
    missed,         \* a block came when the node was not current, or left a
                    \* transaction the pool could not take back
    stranded        \* an orphan failed before its siblings were tried, or the
                    \* chain or the pool lost blocks

poolVars == <<pool, outpoints, orphans, orphansByPrev, pennyTotal, scanDue>>
mempoolVars == <<world, chain, poolVars, call, note, syncHeight, missed, stranded>>

NoCall == [kind |-> "none"]
NoNote == [kind |-> "none"]

MempoolTypeOK ==
    /\ world \in Worlds
    /\ chain \in Seq(Seq(Tx)) /\ Len(chain) <= world.height
    /\ pool \subseteq Tx
    /\ DOMAIN outpoints \subseteq Output /\ Range(outpoints) \subseteq Tx
    /\ orphans \in [DOMAIN orphans -> [tag : Tag, expired : BOOLEAN]]
    /\ DOMAIN orphans \subseteq Tx
    /\ orphansByPrev \in [Output -> SUBSET Tx]
    /\ pennyTotal \in Nat
    /\ {scanDue, missed, stranded} \subseteq BOOLEAN
    /\ call.kind \in {"none", "check", "orphans"}
    /\ note.kind \in {"none", "connected", "disconnected"}
    /\ syncHeight \in 0..world.sync

MempoolInit ==
    /\ world \in Worlds
    /\ chain = <<>>
    /\ pool = {} /\ outpoints = <<>> /\ orphans = <<>>
    /\ orphansByPrev = [o \in Output |-> {}]
    /\ pennyTotal = 0 /\ scanDue = FALSE
    /\ call = NoCall /\ note = NoNote
    /\ syncHeight = 0
    /\ missed = FALSE /\ stranded = FALSE

\* SyncManager.current, with the chain itself always current.
Current(c) == Len(c) >= syncHeight

-----------------------------------------------------------------------------
(***************************************************************************)
(* Relations between transactions                                          *)
(***************************************************************************)

\* The least set that has S and is closed under Succ.
Closure(S, Succ(_)) ==
    LET grow[n \in 0..Cardinality(Tx)] ==
            IF n = 0 THEN S ELSE UNION {G \cup Succ(G) : G \in {grow[n - 1]}}
    IN  grow[Cardinality(Tx)]

\* Pool transactions that S spends outputs of, pool transactions that spend
\* outputs of S, and orphans that do.
Parents(S) == {Origin[o] : o \in UNION {Spends[t] : t \in S}} \cap pool
Redeemers(S) == {outpoints[o] : o \in {p \in DOMAIN outpoints : Origin[p] \in S}}
RedeemingOrphans(S) == UNION {orphansByPrev[o] : o \in {p \in Output : Origin[p] \in S}}

txAncestors(t) == Closure({t}, Parents) \ {t}
txDescendants(t) == Closure({t}, Redeemers) \ {t}
DirectConflicts(t) == {outpoints[o] : o \in Spends[t] \cap DOMAIN outpoints}
txConflicts(t) == UNION {{u} \cup txDescendants(u) : u \in DirectConflicts(t)}

\* A transaction signals replacement itself or inherits it from an ancestor
\* that is not confirmed.
signalsReplacement(t) == \E u \in {t} \cup txAncestors(t) : u \in SignalsRBF

-----------------------------------------------------------------------------
(***************************************************************************)
(* Checks of a transaction at the present chain and pool                   *)
(***************************************************************************)

\* The pool's double spends are rejected unless they may be replaced.
checkPoolDoubleSpend(t) ==
    \A u \in DirectConflicts(t) : ~RejectReplacement /\ signalsReplacement(u)

\* Outputs that the chain or the pool has for a transaction.
Available == Unspent(chain) \cup {o \in Output : Origin[o] \in pool}

MissingParents(t) == Spends[t] \ Available

\* Inputs from the pool are not mined yet and cannot have expired.
CheckInputs(t) ==
    \A o \in Spends[t] \cap Unspent(chain) : ~Expired(chain, o, Len(chain) + 1)

validateSegWitDeployment(t) == "witness" \notin Flaws[t]
validateStandardness(t) == AcceptNonStd \/ "standard" \notin Flaws[t]
validateSigCost(t) == "sigops" \notin Flaws[t]

calcMinRequiredTxRelayFee(size) ==
    LET fee == (size * MinRelayTxFee) \div 1000
    IN  IF fee = 0 THEN MinRelayTxFee ELSE fee

\* The checks before the inputs are looked up.
PassesEarly(t, rejectDupOrphans) ==
    /\ validateSegWitDeployment(t)
    /\ t \notin pool
    /\ rejectDupOrphans => t \notin DOMAIN orphans
    /\ Flaws[t] \cap {"sanity", "coinbase", "reap"} = {}
    /\ checkPoolDoubleSpend(t)
    /\ Creates(t) \cap Unspent(chain) = {}

\* The checks once every input is known.
PassesInputs(t) ==
    /\ CheckInputs(t)
    /\ validateStandardness(t)
    /\ "locks" \notin Flaws[t]
    /\ \A o \in Spends[t] :
          LET created == IF o \in Unspent(chain) THEN CreatedAt(chain, o) ELSE Len(chain) + 1
          IN  Len(chain) + 1 >= created + RelLock[t]
    /\ validateSigCost(t)

\* What validateRelayFeeMet may answer, with the free total it leaves behind.
\* The total decays by an amount that depends on the time since the last call.
validateRelayFeeMet(t, isNew, rateLimit) ==
    LET pays == Fee[t] >= calcMinRequiredTxRelayFee(VSize[t])
        answers == {[ok |-> d < FreeTxRelayLimit,
                     penny |-> IF d < FreeTxRelayLimit THEN d + VSize[t] ELSE d] : d \in 0..pennyTotal}
    IN  IF ~pays /\ VSize[t] >= FreeSize THEN {[ok |-> FALSE, penny |-> pennyTotal]}
        ELSE IF pays \/ (~isNew /\ ~rateLimit) THEN {[ok |-> TRUE, penny |-> pennyTotal]}
        ELSE IF isNew /\ ~DisableRelayPriority /\ "priority" \in Flaws[t]
             THEN {[ok |-> FALSE, penny |-> pennyTotal]}
        ELSE answers

\* Seeded faults: a replacement need not pay for what it evicts, or may spend an
\* output of a transaction that it evicts.
validateReplacement_cheap(t) ==
    /\ Cardinality(txConflicts(t)) <= MaxReplacementEvictions
    /\ txAncestors(t) \cap txConflicts(t) = {}
    /\ Fee[t] >= calcMinRequiredTxRelayFee(VSize[t])

validateReplacement_parent(t) ==
    /\ Cardinality(txConflicts(t)) <= MaxReplacementEvictions
    /\ \A u \in txConflicts(t) : FeePerKB(t) > FeePerKB(u)
    /\ Fee[t] >= MapThenSumSet(LAMBDA u : Fee[u], txConflicts(t))
                    + calcMinRequiredTxRelayFee(VSize[t])

validateReplacement(t) ==
    LET conflicts == txConflicts(t)
        parents == {Origin[o] : o \in UNION {Spends[u] : u \in conflicts}}
    IN  /\ Cardinality(conflicts) <= MaxReplacementEvictions
        /\ txAncestors(t) \cap conflicts = {}
        /\ \A u \in conflicts : FeePerKB(t) > FeePerKB(u)
        /\ Fee[t] >= MapThenSumSet(LAMBDA u : Fee[u], conflicts)
                        + calcMinRequiredTxRelayFee(VSize[t])
        /\ \A o \in Spends[t] : Origin[o] \in pool => Origin[o] \in parents

\* The verdicts on a transaction: "error", "missing" (parents) or "ok".
checkMempoolAcceptance(t, isNew, rateLimit, rejectDupOrphans) ==
    LET verdict(v, p) == [verdict |-> v, penny |-> p]
    IN  IF ~PassesEarly(t, rejectDupOrphans) THEN {verdict("error", pennyTotal)}
        ELSE IF MissingParents(t) # {} THEN {verdict("missing", pennyTotal)}
        ELSE IF ~PassesInputs(t) THEN {verdict("error", pennyTotal)}
        ELSE {verdict(IF /\ r.ok
                         /\ DirectConflicts(t) # {} => validateReplacement(t)
                         /\ "scripts" \notin Flaws[t]
                      THEN "ok" ELSE "error", r.penny) :
                 r \in validateRelayFeeMet(t, isNew, rateLimit)}

-----------------------------------------------------------------------------
(***************************************************************************)
(* Changes of the pool and of the orphans                                  *)
(***************************************************************************)
removeTransactions(S) ==
    LET gone == S \cap pool
    IN  /\ pool' = pool \ gone
        /\ outpoints' = Restrict(outpoints, DOMAIN outpoints \ UNION {Spends[u] : u \in gone})

\* A transaction that passed the checks takes the place of its conflicts.
addTransaction(t) ==
    LET gone == txConflicts(t)
    IN  /\ pool' = (pool \ gone) \cup {t}
        /\ outpoints' = [o \in (DOMAIN outpoints \ UNION {Spends[u] : u \in gone}) \cup Spends[t] |->
                            IF o \in Spends[t] THEN t ELSE outpoints[o]]

\* The orphans removeOrphan removes for t.
OrphanAnd(t, removeRedeemers) ==
    IF t \notin DOMAIN orphans THEN {}
    ELSE IF removeRedeemers THEN Closure({t}, RedeemingOrphans) ELSE {t}

removeOrphans(S) ==
    /\ orphans' = Restrict(orphans, DOMAIN orphans \ S)
    /\ orphansByPrev' = [o \in Output |-> orphansByPrev[o] \ {t \in S : o \in Spends[t]}]

\* What is evicted, at random, to make room for one orphan.
limitNumOrphans(left) ==
    IF Cardinality(left) + 1 <= MaxOrphanTxs THEN {{}} ELSE {{u} : u \in left}

addOrphan(t, tag) ==
    LET expired == {u \in DOMAIN orphans : scanDue /\ orphans[u].expired}
        gone == UNION {OrphanAnd(u, TRUE) : u \in expired}
    IN  /\ scanDue' = FALSE
        /\ \E evicted \in limitNumOrphans(DOMAIN orphans \ gone) :
              LET left == DOMAIN orphans \ (gone \cup evicted)
              IN  /\ orphans' = [u \in left \cup {t} |->
                                    IF u = t THEN [tag |-> tag, expired |-> FALSE] ELSE orphans[u]]
                  /\ orphansByPrev' = [o \in Output |->
                        (orphansByPrev[o] \cap left) \cup (IF o \in Spends[t] THEN {t} ELSE {})]

maybeAddOrphan(t, tag) ==
    IF t \in LargeTx \/ MaxOrphanTxs = 0
    THEN UNCHANGED <<orphans, orphansByPrev, scanDue>>
    ELSE addOrphan(t, tag)

-----------------------------------------------------------------------------
(***************************************************************************)
(* Calls that add transactions.  A transaction is checked, and the verdict *)
(* applied, in two steps: the chain may move in between.                   *)
(***************************************************************************)
Check(t, isNew, rateLimit, by, tag) ==
    \E r \in checkMempoolAcceptance(t, isNew, rateLimit, TRUE) :
        /\ call' = [kind |-> "check", tx |-> t, verdict |-> r.verdict, by |-> by, tag |-> tag]
        /\ pennyTotal' = r.penny
        /\ UNCHANGED <<world, chain, pool, outpoints, orphans, orphansByPrev, scanDue,
                       note, syncHeight, missed, stranded>>

\* handleTxMsg and handleSendRawTransaction, up to the checks.
ProcessTransaction(t, by, tag) ==
    /\ call = NoCall
    /\ by = "rpc" => tag = CHOOSE x \in Tag : TRUE
    /\ Check(t, TRUE, by = "peer", by, tag)

\* The rest of maybeAcceptTransaction, and what its caller does then.
Outputs(t) == SetToSeq(Creates(t))

AdvanceNote(step) ==
    note' = IF step > 0 THEN [note EXCEPT !.step = step]
            ELSE IF Len(note.txs) = 1 THEN NoNote
            ELSE [note EXCEPT !.txs = Tail(@), !.step = 1]

CommitOk ==
    /\ call.kind = "check" /\ call.verdict = "ok"
    /\ addTransaction(call.tx)
    /\ IF call.by = "note"
       THEN call' = NoCall /\ AdvanceNote(0)
       ELSE /\ call' = [kind |-> "orphans", by |-> call.by, accepted |-> {call.tx},
                        queue |-> Outputs(call.tx)]
            /\ UNCHANGED note
    /\ UNCHANGED <<world, chain, orphans, orphansByPrev, pennyTotal, scanDue, syncHeight, missed, stranded>>

CommitMissing ==
    /\ call.kind = "check" /\ call.verdict = "missing"
    /\ call' = NoCall
    /\ IF call.by = "peer" THEN maybeAddOrphan(call.tx, call.tag)
       ELSE UNCHANGED <<orphans, orphansByPrev, scanDue>>
    /\ IF call.by = "note" THEN AdvanceNote(0) /\ missed' = TRUE ELSE UNCHANGED <<note, missed>>
    /\ UNCHANGED <<world, chain, pool, outpoints, pennyTotal, syncHeight, stranded>>

CommitError ==
    /\ call.kind = "check" /\ call.verdict = "error"
    /\ call' = NoCall
    /\ IF call.by = "note" THEN AdvanceNote(2) ELSE UNCHANGED note
    /\ UNCHANGED <<world, chain, poolVars, syncHeight, missed, stranded>>

\* processOrphans: for the next output, of the orphans that spend it and miss no
\* other parent, one is tried; the rest are left, also when that one fails.
TryOrphan ==
    /\ call.kind = "orphans" /\ call.queue # <<>>
    /\ LET o == Head(call.queue)
           ready == {t \in orphansByPrev[o] :
                        \E r \in checkMempoolAcceptance(t, TRUE, TRUE, FALSE) : r.verdict # "missing"}
           rest == [call EXCEPT !.queue = Tail(@)]
       IN  \/ /\ ready = {}
              /\ call' = rest
              /\ UNCHANGED <<poolVars, stranded>>
           \/ \E t \in ready : \E r \in checkMempoolAcceptance(t, TRUE, TRUE, FALSE) :
                 /\ pennyTotal' = r.penny
                 /\ IF r.verdict = "ok"
                    THEN /\ addTransaction(t)
                         /\ removeOrphans(OrphanAnd(t, FALSE))
                         /\ call' = [rest EXCEPT !.queue = @ \o Outputs(t), !.accepted = @ \cup {t}]
                         /\ UNCHANGED stranded
                    ELSE /\ removeOrphans(OrphanAnd(t, TRUE))
                         /\ call' = rest
                         /\ stranded' = (stranded \/ ready # {t})
                         /\ UNCHANGED <<pool, outpoints>>
                 /\ UNCHANGED scanDue
    /\ UNCHANGED <<world, chain, note, syncHeight, missed>>

\* removeOrphanDoubleSpends, for everything that was accepted.
FinishOrphans ==
    /\ call.kind = "orphans" /\ call.queue = <<>>
    /\ LET spent == UNION {Spends[t] : t \in call.accepted}
       IN  removeOrphans(UNION {OrphanAnd(t, TRUE) : t \in UNION {orphansByPrev[o] : o \in spent}})
    /\ call' = NoCall
    /\ IF call.by = "note" THEN AdvanceNote(0) ELSE UNCHANGED note
    /\ UNCHANGED <<world, chain, pool, outpoints, pennyTotal, scanDue, syncHeight, missed, stranded>>

\* A peer is gone, with the orphans it sent.
RemoveOrphansByTag(tag) ==
    /\ call = NoCall
    /\ removeOrphans(UNION {OrphanAnd(t, TRUE) : t \in {u \in DOMAIN orphans : orphans[u].tag = tag}})
    /\ UNCHANGED <<world, chain, pool, outpoints, pennyTotal, scanDue, call, note, syncHeight, missed, stranded>>

\* Time passes: some orphans are past their time to live and the scan is due.
\* (With no orphan the scan does nothing.)
Clock ==
    /\ orphans # <<>>
    /\ \E old \in SUBSET DOMAIN orphans :
          orphans' = [t \in DOMAIN orphans |-> [orphans[t] EXCEPT !.expired = @ \/ t \in old]]
    /\ scanDue' = TRUE
    /\ UNCHANGED <<world, chain, pool, outpoints, orphansByPrev, pennyTotal, call, note, syncHeight, missed, stranded>>

-----------------------------------------------------------------------------
(***************************************************************************)
(* The chain, and the sync manager's answer to its notifications           *)
(***************************************************************************)

\* Another sync peer, with the height it claims.
NewSyncPeer(h) ==
    /\ syncHeight' = h
    /\ UNCHANGED <<world, chain, poolVars, call, note, missed, stranded>>

\* NTBlockConnected is ignored by a node that is not current.
ConnectBlock(txs) ==
    /\ note = NoNote
    /\ Len(chain) < world.height
    /\ ValidBlock(chain, txs)
    /\ chain' = Append(chain, txs)
    /\ note' = IF Current(chain') /\ txs # <<>> THEN [kind |-> "connected", txs |-> txs, step |-> 1] ELSE NoNote
    /\ missed' = (missed \/ ~Current(chain'))
    /\ stranded' = (stranded \/ ~Current(chain'))
    /\ UNCHANGED <<world, poolVars, call, syncHeight>>

DisconnectBlock ==
    /\ note = NoNote
    /\ chain # <<>>
    /\ chain' = Front(chain)
    /\ note' = IF Last(chain) # <<>> THEN [kind |-> "disconnected", txs |-> Last(chain), step |-> 1]
               ELSE NoNote
    /\ stranded' = TRUE
    /\ UNCHANGED <<world, poolVars, call, syncHeight, missed>>

NoteStep(kind, step) == call = NoCall /\ note.kind = kind /\ note.step = step

\* RemoveTransaction(tx, false): transactions that spend its outputs stay.
NoteRemoveTransaction ==
    /\ NoteStep("connected", 1)
    /\ removeTransactions({Head(note.txs)})
    /\ AdvanceNote(2)
    /\ UNCHANGED <<world, chain, orphans, orphansByPrev, pennyTotal, scanDue, call, syncHeight, missed, stranded>>

\* Seeded fault: what spends the outputs of a double spend stays in the pool.
NoteRemoveDoubleSpends_shallow ==
    /\ NoteStep("connected", 2)
    /\ removeTransactions(DirectConflicts(Head(note.txs)) \ {Head(note.txs)})
    /\ AdvanceNote(3)
    /\ UNCHANGED <<world, chain, orphans, orphansByPrev, pennyTotal, scanDue, call, syncHeight, missed, stranded>>

\* RemoveDoubleSpends: with everything that spends their outputs.
NoteRemoveDoubleSpends ==
    /\ NoteStep("connected", 2)
    /\ removeTransactions(Closure(DirectConflicts(Head(note.txs)) \ {Head(note.txs)}, Redeemers))
    /\ AdvanceNote(3)
    /\ UNCHANGED <<world, chain, orphans, orphansByPrev, pennyTotal, scanDue, call, syncHeight, missed, stranded>>

\* RemoveOrphan: the transaction is no longer an orphan.
NoteRemoveOrphan ==
    /\ NoteStep("connected", 3)
    /\ removeOrphans(OrphanAnd(Head(note.txs), FALSE))
    /\ AdvanceNote(4)
    /\ UNCHANGED <<world, chain, pool, outpoints, pennyTotal, scanDue, call, syncHeight, missed, stranded>>

\* ProcessOrphans takes the mutex for all its steps.
NoteProcessOrphans ==
    /\ NoteStep("connected", 4)
    /\ call' = [kind |-> "orphans", by |-> "note", accepted |-> {Head(note.txs)},
                queue |-> Outputs(Head(note.txs))]
    /\ UNCHANGED <<world, chain, poolVars, note, syncHeight, missed, stranded>>

\* MaybeAcceptTransaction(tx, false, false) for a transaction of a block that
\* left the chain; on an error, the transaction and what spends its outputs go.
NoteReinsert ==
    /\ NoteStep("disconnected", 1)
    /\ Check(Head(note.txs), FALSE, FALSE, "note", CHOOSE x \in Tag : TRUE)

NoteRemoveRefused ==
    /\ NoteStep("disconnected", 2)
    /\ removeTransactions(Closure({Head(note.txs)}, Redeemers))
    /\ AdvanceNote(0)
    /\ UNCHANGED <<world, chain, orphans, orphansByPrev, pennyTotal, scanDue, call, syncHeight, missed, stranded>>

MempoolNext ==
    \/ \E t \in world.txs, by \in {"peer", "rpc"}, tag \in Tag : ProcessTransaction(t, by, tag)
    \/ CommitOk \/ CommitMissing \/ CommitError
    \/ TryOrphan \/ FinishOrphans
    \/ \E tag \in Tag : RemoveOrphansByTag(tag)
    \/ Clock
    \/ \E h \in 0..world.sync : NewSyncPeer(h)
    \/ \E b \in world.blocks : ConnectBlock(b)
    \/ DisconnectBlock
    \/ NoteRemoveTransaction \/ NoteRemoveDoubleSpends \/ NoteRemoveOrphan \/ NoteProcessOrphans
    \/ NoteReinsert \/ NoteRemoveRefused

-----------------------------------------------------------------------------
(***************************************************************************)
(* Properties                                                              *)
(***************************************************************************)
Settled == call = NoCall /\ note = NoNote

\* No two pool transactions spend the same output, and the index of spent
\* outpoints, which every later conflict check reads, is exactly that of the pool.
PoolSpendsOnce ==
    /\ \A t, u \in pool : t # u => Spends[t] \cap Spends[u] = {}
    /\ DOMAIN outpoints = UNION {Spends[t] : t \in pool}
    /\ \A o \in DOMAIN outpoints : outpoints[o] \in pool /\ o \in Spends[outpoints[o]]

\* The index of orphans by the outputs they wait for is exact whenever the mutex
\* is free, after any removal with or without redeemers, and the orphans stay
\* within MaxOrphanTxs.
OrphansIndexedAndBounded ==
    call = NoCall =>
        /\ \A o \in Output : orphansByPrev[o] = {t \in DOMAIN orphans : o \in Spends[t]}
        /\ Cardinality(DOMAIN orphans) <= MaxOrphanTxs
        /\ DOMAIN orphans \cap pool = {}

\* Once a notification is handled, every pool transaction can be mined with its
\* ancestors in the pool: its inputs are unspent in the chain or created in the
\* pool.  This is lost for good when a block is connected while the node is not
\* current, or when a transaction of a disconnected block is refused for a
\* missing parent.
PoolFollowsChain ==
    Settled /\ ~missed => \A t \in pool : Spends[t] \subseteq Available

PaysForReplaced ==
    \A t \in pool' \ pool :
        pool \ pool' # {} =>
            /\ \A u \in pool \ pool' : FeePerKB(t) > FeePerKB(u)
            /\ MapThenSumSet(LAMBDA u : Fee[u], pool')
                  >= MapThenSumSet(LAMBDA u : Fee[u], pool) + calcMinRequiredTxRelayFee(VSize[t])

\* A transaction enters the pool only if the pool's fees rise by at least its
\* relay fee whenever it replaces others, and it pays a higher rate than each.
ReplacementPays == [][PaysForReplaced]_mempoolVars

\* What the comment on ProcessOrphans says: orphans are accepted until there are
\* no more to accept.
Acceptable(t) ==
    \E r \in checkMempoolAcceptance(t, TRUE, TRUE, FALSE) : r.verdict = "ok"

NoOrphanLeftBehind == Settled => \A t \in DOMAIN orphans : ~Acceptable(t)

\* An orphan whose parents have arrived, by a transaction or by a block, has been
\* tried before the mutex is free.  It is left behind when an orphan that spends
\* the same output failed first, when blocks were disconnected, or when a block
\* was connected while the node was not current.
OrphansRetried == ~stranded => NoOrphanLeftBehind

\* What the comment in handleBlockchainNotification says: a transaction of a
\* disconnected block that the pool does not take back is removed with all
\* transactions that depend on it.
PoolAlwaysFollowsChain ==
    Settled => \A t \in pool : Spends[t] \subseteq Available

-----------------------------------------------------------------------------
(***************************************************************************)
(* The block template generator, beside the memory pool and the chain.     *)
(*                                                                         *)
(* NewBlockTemplate takes no lock of its own.  It reads the best block,    *)
(* the pool, the unspent outputs of each transaction, the REAP candidates  *)
(* and the accumulator at different moments, while the pool and the chain  *)
(* move on; one step below is one such read with the work that follows it. *)
(* At the end the block is checked against the chain as it is then.        *)
(***************************************************************************)

CONSTANTS
    Weight,             \* transaction -> weight
    SigOpCost,          \* transaction -> cost of its signature operations
    HasWitness,         \* transactions that carry witness data
    BaseWeight,         \* weight of the header, the count and the coinbase
    WitnessWeight,      \* what a witness commitment adds to the coinbase
    ReapWeight(_),      \* weight of a REAP transaction for a set of outputs
    ReapLimit,          \* limit on the outputs that it spends
    BlockMaxWeight, BlockMinWeight, BlockPrioritySize, TxMinFreeFee,  \* policy
    MinHighPriority, MaxBlockSigOpsCost,
    MinedWorlds,        \* the worlds in which a template is made
    MaxMoves            \* bound on the steps of the pool and the chain meanwhile

BlockTemplateAssumption ==
    /\ Weight \in [Tx -> Nat] /\ SigOpCost \in [Tx -> Nat] /\ HasWitness \subseteq Tx
    /\ {BaseWeight, WitnessWeight, ReapLimit, BlockMaxWeight, BlockMinWeight,
        BlockPrioritySize, TxMinFreeFee, MinHighPriority, MaxBlockSigOpsCost, MaxMoves} \subseteq Nat
    /\ MinedWorlds \subseteq Worlds

VARIABLES
    tmpl,     \* the template that is being made
    outcome   \* how the last one ended

templateVars == <<mempoolVars, tmpl, outcome>>

Idle == [phase |-> "idle"]

TemplateTypeOK ==
    /\ MempoolTypeOK
    /\ tmpl.phase \in {"idle", "source", "scan", "reap", "build", "pop", "append", "commit", "check"}
    /\ outcome \in {"none", "template", "error"}

TemplateInit == MempoolInit /\ tmpl = Idle /\ outcome = "none"

NextBlockHeight == Len(tmpl.best) + 1
Fail == tmpl' = Idle /\ outcome' = "error"
Proceed(t) == tmpl' = t /\ UNCHANGED outcome

\* The best block is read, then the coinbase is made.
NewBlockTemplate ==
    /\ outcome = "none" /\ tmpl = Idle
    /\ Proceed([phase |-> "source", best |-> chain, moved |-> FALSE, moves |-> 0])

\* TxSource.MiningDescs, under the pool's mutex; the counters start at the
\* coinbase.  view has the outputs that were looked up, with their heights.
MiningDescs ==
    /\ tmpl.phase = "source" /\ call = NoCall
    /\ Proceed([phase |-> "scan", best |-> tmpl.best, moved |-> tmpl.moved, moves |-> tmpl.moves,
                src |-> pool, queue |-> {}, dependsOn |-> <<>>, item |-> <<>>,
                view |-> <<>>, spent |-> {}, txs |-> <<>>,
                weight |-> BaseWeight, sigOps |-> 0, fees |-> <<>>, byFee |-> (BlockPrioritySize = 0),
                witness |-> FALSE, planned |-> {}, reap |-> {}])

\* CalcPriority: the ages of the inputs that are confirmed.
CalcPriority(entries) == MapThenSumSet(LAMBDA o : NextBlockHeight - entries[o], DOMAIN entries)

\* A queue item before its fee and its priority are known.
BlankItem == [rate |-> 0, priority |-> 0, fee |-> 0]

\* One transaction of the source, in the order of a map: its confirmed inputs
\* are looked up, and the others must come from the pool or the orphans.  When
\* one does not, the transaction is skipped, but what was noted of the inputs
\* before that one stays: it still waits for their origins, as a blank item.
ScanTransaction(t) ==
    LET found == Spends[t] \cap Unspent(chain)
        entries == [o \in found |-> CreatedAt(chain, o)]
        origins == {Origin[o] : o \in Spends[t] \ found}
        have == origins \cap (pool \cup DOMAIN orphans)
        left == [tmpl EXCEPT !.src = @ \ {t}]
    IN  /\ tmpl.phase = "scan" /\ t \in tmpl.src /\ call = NoCall
        /\ IF have # origins
           THEN \E noted \in SUBSET have :
                   Proceed([left EXCEPT !.item = (t :> BlankItem) @@ @,
                                        !.dependsOn = (t :> noted) @@ @])
           ELSE Proceed([left EXCEPT !.view = entries @@ @,
                                     !.item = (t :> [rate |-> FeePerKB(t), fee |-> Fee[t],
                                                     priority |-> CalcPriority(entries)]) @@ @,
                                     !.dependsOn = (t :> origins) @@ @,
                                     !.queue = IF origins = {} THEN @ \cup {t} ELSE @])

\* The outputs that have expired at the height of the template.
ExpiredAt(c) == {o \in Unspent(c) : Expired(c, o, NextBlockHeight)}

\* maybeBuildREAPTx: the index gives the oldest expired outputs, which are then
\* looked up; when one of them is gone the build fails and there is no REAP
\* transaction.
ReapPrefixCandidates ==
    /\ tmpl.phase = "scan" /\ tmpl.src = {}
    /\ \E S \in SUBSET ExpiredAt(chain) :
          /\ Cardinality(S) = IF Cardinality(ExpiredAt(chain)) < ReapLimit
                              THEN Cardinality(ExpiredAt(chain)) ELSE ReapLimit
          /\ \A o \in S, p \in ExpiredAt(chain) \ S : CreatedAt(chain, o) <= CreatedAt(chain, p)
          /\ Proceed([tmpl EXCEPT !.phase = "build", !.planned = S])

BuildREAPTx ==
    LET fits(S) == ReapWeight(S) < BlockMaxWeight
        older(S) == \A o \in S, p \in tmpl.planned \ S : CreatedAt(chain, o) <= CreatedAt(chain, p)
        trimmed == {S \in SUBSET tmpl.planned : fits(S) /\ older(S)}
    IN  /\ tmpl.phase = "build"
        /\ \/ /\ tmpl.planned \subseteq Unspent(chain)
              /\ \E S \in trimmed :
                    /\ \A T \in trimmed : Cardinality(T) <= Cardinality(S)
                    /\ Proceed([tmpl EXCEPT !.phase = "pop", !.planned = S])
           \/ /\ ~(tmpl.planned \subseteq Unspent(chain))
              /\ Proceed([tmpl EXCEPT !.phase = "pop", !.planned = {}])

normalTxWeightLimit ==
    LET reserve == IF tmpl.planned = {} THEN 0 ELSE ReapWeight(tmpl.planned)
    IN  IF 0 < reserve /\ reserve < BlockMaxWeight THEN BlockMaxWeight - reserve
        ELSE BlockMaxWeight

\* The order of the priority queue: the fee rate and then the priority, or the
\* other way round.
Rank(t) == IF tmpl.byFee THEN <<tmpl.item[t].rate, tmpl.item[t].priority>>
           ELSE <<tmpl.item[t].priority, tmpl.item[t].rate>>
Before(r, s) == r[1] > s[1] \/ (r[1] = s[1] /\ r[2] > s[2])

\* Seeded fault: an input may have expired.
CheckTransactionInputs_expired(t) == Spends[t] \subseteq DOMAIN tmpl.view \ tmpl.spent

\* blockchain.CheckTransactionInputs in the template's view.
CheckTransactionInputs(t) ==
    /\ Spends[t] \subseteq DOMAIN tmpl.view \ tmpl.spent
    /\ \A o \in Spends[t] : NextBlockHeight < tmpl.view[o] + Window

\* The transaction is skipped, and whatever waits for it with it.
SkipTransaction(t, next) ==
    LET weight == next.weight + Weight[t]
    IN  \/ weight >= normalTxWeightLimit
        \/ next.sigOps + SigOpCost[t] > MaxBlockSigOpsCost
        \/ next.byFee /\ next.item[t].rate < TxMinFreeFee /\ weight >= BlockMinWeight

\* The end of the area for high priority: the queue is sorted by fees from now on.
EndOfPriorityArea(t, next) ==
    ~next.byFee /\ (next.weight + Weight[t] >= BlockPrioritySize \/ next.item[t].priority <= MinHighPriority)
BelowPriorityArea(t, next) ==
    next.weight + Weight[t] > BlockPrioritySize \/ next.item[t].priority < MinHighPriority

\* spendTransaction, the counters, and the transactions that waited only for t.
AddToBlock(t, next) ==
    LET waits == [u \in DOMAIN next.dependsOn |-> next.dependsOn[u] \ {t}]
        ready == {u \in DOMAIN waits : t \in next.dependsOn[u] /\ waits[u] = {}}
    IN  [next EXCEPT !.txs = Append(@, t), !.weight = @ + Weight[t], !.sigOps = @ + SigOpCost[t],
                     !.fees = Append(@, next.item[t].fee),
                     !.spent = @ \cup Spends[t],
                     !.view = [o \in Creates(t) |-> NextBlockHeight] @@ @,
                     !.dependsOn = waits,
                     !.queue = @ \cup ready]

\* The transaction at the head of the queue.  The first one with a witness adds
\* the commitment to the coinbase, also when it is skipped after that.
PopTransaction(t) ==
    LET commits == t \in HasWitness /\ ~tmpl.witness
        next == [tmpl EXCEPT !.queue = @ \ {t},
                             !.witness = @ \/ commits,
                             !.weight = IF commits THEN @ + WitnessWeight ELSE @]
        ends == EndOfPriorityArea(t, next)
        sorted == [next EXCEPT !.byFee = @ \/ ends]
    IN  /\ tmpl.phase = "pop" /\ t \in tmpl.queue
        /\ \A u \in tmpl.queue : ~Before(Rank(u), Rank(t))
        /\ Proceed(IF SkipTransaction(t, next) THEN next
                   ELSE IF ends /\ BelowPriorityArea(t, next) THEN [sorted EXCEPT !.queue = @ \cup {t}]
                   ELSE IF CheckTransactionInputs(t) THEN AddToBlock(t, sorted)
                   ELSE sorted)

\* The queue is empty.  The REAP transaction is appended if it fits and its
\* inputs, looked up once more, are there.
AppendREAPTx ==
    LET weight == tmpl.weight + ReapWeight(tmpl.planned)
        inputs == tmpl.planned \subseteq (DOMAIN tmpl.view \cup Unspent(chain)) \ tmpl.spent
    IN  /\ tmpl.phase = "pop" /\ tmpl.queue = {}
        /\ Proceed(IF tmpl.planned # {} /\ weight < BlockMaxWeight /\ inputs
                   THEN [tmpl EXCEPT !.phase = "commit", !.reap = tmpl.planned, !.weight = weight]
                   ELSE [tmpl EXCEPT !.phase = "commit"])

\* GetAccumulatorSnapshot: its tip must be the best block read at the start.
AddExpiryCommitment ==
    /\ tmpl.phase = "commit"
    /\ IF chain = tmpl.best THEN Proceed([tmpl EXCEPT !.phase = "check"]) ELSE Fail

\* A block with a REAP transaction after txs, on top of chain c.
Connects(c, txs, reap) ==
    LET full == Append(c, txs)
    IN  /\ ValidBlock(c, txs)
        /\ reap \subseteq Unspent(full)
        /\ \A o \in reap : Expired(full, o, Len(full))

CheckConnectBlockTemplate ==
    /\ tmpl.phase = "check"
    /\ tmpl' = Idle
    /\ outcome' = IF chain = tmpl.best /\ Connects(chain, tmpl.txs, tmpl.reap) THEN "template" ELSE "error"

MakeTemplate ==
    \/ MiningDescs
    \/ \E t \in world.txs : ScanTransaction(t)
    \/ ReapPrefixCandidates \/ BuildREAPTx
    \/ \E t \in world.txs : PopTransaction(t)
    \/ AppendREAPTx \/ AddExpiryCommitment \/ CheckConnectBlockTemplate

TemplateNext ==
    \/ /\ world \in MinedWorlds
       /\ NewBlockTemplate \/ MakeTemplate
       /\ UNCHANGED mempoolVars
    \/ /\ outcome = "none" /\ (tmpl # Idle => tmpl.moves < MaxMoves)
       /\ MempoolNext
       /\ tmpl' = IF tmpl = Idle THEN Idle
                  ELSE [tmpl EXCEPT !.moved = @ \/ chain' # chain, !.moves = @ + 1]
       /\ UNCHANGED outcome

-----------------------------------------------------------------------------
(***************************************************************************)
(* Properties                                                              *)
(***************************************************************************)

\* No transaction of the template waits for blocks that a reorganization took away.
LocksMet == \A i \in DOMAIN tmpl.txs :
               \A o \in Spends[tmpl.txs[i]] : NextBlockHeight >= tmpl.view[o] + RelLock[tmpl.txs[i]]

\* What the comment on NewBlockTemplate says: transactions that would cause the
\* block to be invalid are skipped.  So the check at the end refuses no template
\* unless the chain moved meanwhile.
InvalidAreSkipped ==
    tmpl.phase = "check" /\ ~tmpl.moved => Connects(chain, tmpl.txs, tmpl.reap)

\* The same, for templates without a transaction whose relative lock was met
\* when the pool accepted it and is not met any more: whatever the pool did
\* meanwhile, the transactions are in order, spend nothing twice and nothing
\* that has expired since the pool accepted them, and leave the reaped outputs
\* alone; and the coinbase claims no fee that they do not pay.
SelectionConnects ==
    tmpl.phase = "check" /\ ~tmpl.moved /\ LocksMet =>
        /\ Connects(chain, tmpl.txs, tmpl.reap)
        /\ \A i \in DOMAIN tmpl.txs : tmpl.fees[i] <= Fee[tmpl.txs[i]]

TemplateWeight ==
    BaseWeight + (IF tmpl.witness THEN WitnessWeight ELSE 0)
        + MapThenSumSet(LAMBDA t : Weight[t], Range(tmpl.txs))
        + (IF tmpl.reap = {} THEN 0 ELSE ReapWeight(tmpl.reap))

\* A template is within the weight of the policy, up to the witness commitment
\* that a skipped transaction may have added, and the counted weight is the
\* weight of what is in it.
WeightWithinPolicy ==
    tmpl.phase = "check" =>
        /\ tmpl.weight = TemplateWeight
        /\ TemplateWeight < BlockMaxWeight + WitnessWeight

\* What the comment on normalTxWeightLimit says: the weight of a planned REAP
\* transaction is reserved, so that a full pool leaves room for it.
RoomForREAP ==
    tmpl.phase = "check" /\ ~tmpl.moved => tmpl.reap = tmpl.planned

\* The same, for templates without a witness commitment.
RoomForREAPWithoutWitness ==
    tmpl.phase = "check" /\ ~tmpl.moved /\ ~tmpl.witness => tmpl.reap = tmpl.planned

\* What the comment on BlockTemplate.Fees says: the fee that each transaction of
\* the template pays.
FeesArePaid == tmpl.phase = "check" => \A i \in DOMAIN tmpl.txs : tmpl.fees[i] = Fee[tmpl.txs[i]]
=============================================================================
