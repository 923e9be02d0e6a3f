------------------------------ MODULE MCNode ------------------------------
(***************************************************************************)
(* The sequential parts of the node: the pool and block templates, the fee *)
(* estimator, the database, the optional indexes and the script engine. A  *)
(* behaviour is one of a single part, chosen at the start; the variables   *)
(* of the others keep the value Idle.                                      *)
(*                                                                         *)
(* The script engine, signing and the script forms are those of           *)
(* ScriptEngine itself; the other parts are instances.                     *)
(***************************************************************************)
EXTENDS ScriptEngine, TLC

CONSTANT Parts   \* the components whose behaviours are checked

VARIABLES
    part,   \* the component a behaviour is of; the variables of the others are Idle
    world, chain, pool, outpoints, orphans, orphansByPrev, pennyTotal, scanDue, call,
    note, syncHeight, missed, stranded, tmpl, outcome,
    fe, feeChain, sampledBefore, orphaned,
    flat, cursor, ldb, cache, writer, reader, store, commits, past,
    disk, cached, pending, tree, kept, cur, acts,
    kind, nodes, root, map, version, iter, moved, sweep, ops,
    indexDb, mem, tally,
    levels, blocksA, txnsByAddr, addrsByTx, failedA

Idle == "-"

----------------------------------------------------------------------------
\* The pool and the templates made from it. In the first two worlds there are
\* orphans, a replacement, a transaction that is not standard and one whose
\* scripts fail; in the others a template is made while the pool and the chain
\* move on: of two rivals and their child, of a transaction with a relative
\* lock, of two that spend one parent, one of them with a witness.
PoolTx == {"a", "r", "c", "d", "n", "m", "g", "p", "x", "y", "q", "l", "w", "v"}
Created == [a0 |-> "a", r0 |-> "r", c0 |-> "c", d0 |-> "d", n0 |-> "n", m0 |-> "m", g0 |-> "g",
            p0 |-> "p", p1 |-> "p", x0 |-> "x", y0 |-> "y", q0 |-> "q", l0 |-> "l"]
Funds == {"k1", "k2", "k3", "k4", "k5"}
PoolOutput == DOMAIN Created \cup Funds
PoolOrigin == [o \in PoolOutput |-> IF o \in Funds THEN "genesis" ELSE Created[o]]
PoolSpends == [a |-> {"k1"}, r |-> {"k1"}, c |-> {"a0"}, d |-> {"a0"}, n |-> {"k2"}, m |-> {"n0"}, g |-> {"m0"},
               p |-> {"k3"}, x |-> {"k4"}, y |-> {"k4"}, q |-> {"p0", "x0"}, l |-> {"k5"}, w |-> {"p0"}, v |-> {"p1"}]
PoolFee == [t \in PoolTx |-> CASE t = "r" -> 4 [] t = "g" -> 0 [] t = "y" -> 9 [] t \in {"q", "v"} -> 3 [] OTHER -> 2]
PoolFlaws == [t \in PoolTx |-> CASE t = "n" -> {"standard"} [] t = "d" -> {"scripts"} [] OTHER -> {}]
PoolLock == [t \in PoolTx |-> IF t = "l" THEN 2 ELSE 0]
PoolWeight == [t \in PoolTx |-> IF t = "w" THEN 3 ELSE 1]
PoolOne == [t \in PoolTx |-> 1]
PoolWorld(txs, blocks, height, sync) == [txs |-> txs, blocks |-> blocks, height |-> height, sync |-> sync]
MinedWorlds == {PoolWorld({"p", "x", "y", "q"}, {}, 0, 0), PoolWorld({"p", "l"}, {<<>>, <<"p">>}, 2, 0),
                PoolWorld({"p", "v", "w"}, {<<>>, <<"p">>}, 1, 0)}
PoolWorlds == MinedWorlds \cup
    {PoolWorld({"a", "r", "c", "d"}, {<<>>, <<"a">>, <<"r">>}, 2, 1),
     PoolWorld({"n", "m", "g"}, {<<>>, <<"n">>, <<"m">>, <<"n", "m">>}, 2, 1)}
ReapTxWeight(outs) == Cardinality(outs)
Pool == INSTANCE Mempool WITH
    Tx <- PoolTx, Output <- PoolOutput, Origin <- PoolOrigin, Confirmed <- "genesis",
    Spends <- PoolSpends, Fee <- PoolFee, VSize <- PoolOne, SignalsRBF <- {"a", "x"},
    Flaws <- PoolFlaws, RelLock <- PoolLock, Window <- 3, Tag <- {1},
    MaxOrphanTxs <- 2, LargeTx <- {"p", "x", "y", "q", "l", "w", "v"},
    MaxReplacementEvictions <- 2, MinRelayTxFee <- 1000, FreeSize <- 5,
    FreeTxRelayLimit <- 1, AcceptNonStd <- FALSE, RejectReplacement <- FALSE,
    DisableRelayPriority <- FALSE, Worlds <- PoolWorlds, Weight <- PoolWeight,
    SigOpCost <- PoolOne, HasWitness <- {"v"}, BaseWeight <- 1, WitnessWeight <- 1,
    ReapWeight <- ReapTxWeight, ReapLimit <- 2, BlockMaxWeight <- 6,
    BlockMinWeight <- 6, BlockPrioritySize <- 2, TxMinFreeFee <- 1000,
    MinHighPriority <- 1, MaxBlockSigOpsCost <- 4, MaxMoves <- 3
poolVars == <<world, chain, pool, outpoints, orphans, orphansByPrev, pennyTotal,
              scanDue, call, note, syncHeight, missed, stranded, tmpl, outcome>>
PoolStarts ==
    \/ part = "pool" /\ Pool!TemplateInit
    \/ /\ part # "pool"
       /\ world = Idle /\ chain = Idle /\ pool = Idle /\ outpoints = Idle
       /\ orphans = Idle /\ orphansByPrev = Idle /\ pennyTotal = Idle
       /\ scanDue = Idle /\ call = Idle /\ note = Idle /\ syncHeight = Idle
       /\ missed = Idle /\ stranded = Idle /\ tmpl = Idle /\ outcome = Idle

----------------------------------------------------------------------------
\* The fee estimator over three transactions and three blocks, two of which may
\* be rolled back.
Fees == INSTANCE FeeEstimator WITH
    FeeTx <- {1, 2, 3}, FeeRate <- [t \in {1, 2, 3} |-> t], Depth <- 2, BinSize <- 2,
    MaxReplacements <- 1, MaxRollback <- 2, MinRegisteredBlocks <- 1,
    MaxFeeHeight <- 3, MaxBlockTxs <- 1, past <- sampledBefore
feeVars == <<fe, feeChain, sampledBefore, orphaned>>
FeesStarts ==
    \/ part = "fee" /\ Fees!FeeInit
    \/ /\ part # "fee"
       /\ fe = Idle /\ feeChain = Idle /\ sampledBefore = Idle
       /\ orphaned = Idle

----------------------------------------------------------------------------
\* The block store: three writable transactions of up to two blocks on files of
\* two, with one fault and one crash.
Store == INSTANCE Ffldb WITH
    FileUnits <- 2, MaxTxs <- 3, MaxBlocks <- 2, MaxFaults <- 1, MaxCrashes <- 1
ffldbVars == <<flat, cursor, ldb, cache, writer, reader, store, commits, past>>
StoreStarts ==
    \/ part = "ffldb" /\ Store!FfldbInit
    \/ /\ part # "ffldb"
       /\ flat = Idle /\ cursor = Idle /\ ldb = Idle /\ cache = Idle
       /\ writer = Idle /\ reader = Idle /\ store = Idle /\ commits = Idle
       /\ past = Idle

----------------------------------------------------------------------------
\* Buckets and cursors of a transaction: one name of a bucket, two keys.
----------------------------------------------------------------------------
\* A treap of three keys and two priorities, and an iterator over a range.
Buckets == INSTANCE DbTx WITH
    BucketNames <- {1}, ItemKeys <- {1, 2}, MaxTxOps <- 3, MaxId <- 4,
    MaxCommits <- 2, Keys <- {1, 2, 3}, Priorities <- {1, 2},
    Ranges <- {[start |-> 1, limit |-> 3]}, MaxNodes <- 5, MaxOps <- 4
dbtxVars == <<disk, cached, pending, tree, kept, cur, acts>>
BucketsStarts ==
    \/ part = "dbtx" /\ Buckets!DbTxInit
    \/ /\ part # "dbtx"
       /\ disk = Idle /\ cached = Idle /\ pending = Idle /\ tree = Idle
       /\ kept = Idle /\ cur = Idle /\ acts = Idle

treapVars == <<kind, nodes, root, map, version, iter, moved, sweep, ops>>
TreapStarts ==
    \/ part = "treap" /\ Buckets!TreapInit
    \/ /\ part # "treap"
       /\ kind = Idle /\ nodes = Idle /\ root = Idle /\ map = Idle
       /\ version = Idle /\ iter = Idle /\ moved = Idle /\ sweep = Idle
       /\ ops = Idle

----------------------------------------------------------------------------
\* The index manager on a tree of five blocks with a fork, started three times
\* with different indexes.
----------------------------------------------------------------------------
\* The address index: five blocks of four shapes on levels that hold two
\* entries first.
BlockShapes == {<<<<"a">>>>, <<<<"a", "b">>, <<"a", "a">>>>, <<<<"b">>, <<"a">>, <<"a", "b", "a">>, <<"a">>>>,
                [i \in 1..7 |-> <<"a">>]}
Indexes == INSTANCE IndexManager WITH
    IdxBlocks <- 0..4, IdxParent <- [b \in 0..4 |-> IF b = 4 THEN 1 ELSE b - 1],
    Spending <- {2},
    EnabledSets <- {{"tx", "late"}, {"tx", "addr", "late"}, {"late"}},
    Increment <- 4, MaxRefused <- 1, MaxStarts <- 3, MaxReorg <- 2, kept <- indexDb,
    IndexAddrs <- {"a", "b"}, Shapes <- BlockShapes, level0MaxEntries <- 2,
    MaxLevel <- 5, MaxHeightA <- 5,
    PoolTxAddrs <- [x |-> <<"a", "b">>, y |-> <<"b", "b">>], Windows <- {0, 1, 3, 6}
idxVars == <<indexDb, mem, tally>>
IndexesStarts ==
    \/ part = "idx" /\ Indexes!IdxInit
    \/ /\ part # "idx"
       /\ indexDb = Idle /\ mem = Idle /\ tally = Idle

addridxVars == <<levels, blocksA, txnsByAddr, addrsByTx, failedA>>
AddressesStarts ==
    \/ part = "addridx" /\ Indexes!AddrIdxInit
    \/ /\ part # "addridx"
       /\ levels = Idle /\ blocksA = Idle /\ txnsByAddr = Idle
       /\ addrsByTx = Idle /\ failedA = Idle

----------------------------------------------------------------------------
\* The script engine on spends of every standard form, some of them wrong,
\* under eight sets of flags.
K(k) == Pad(<<2, k>>, 33)
U(k) == Pad(<<4, k>>, 65)
X(k) == Pad(<<k>>, 32)
Der(k, digest, ht) == <<48, 6, 2, 1, k, 2, 1, digest, ht>>
In(pk, sig, wit) == [sig |-> sig, pk |-> pk, wit |-> wit, lock |-> 20, sequence |-> 5, version |-> 2]
Pushes(items) == Built([i \in DOMAIN items |-> addData(items[i])])
Obtc(ht) == isOBTCReplayProtectedSigHashType(ht)
Legacy(script, k, ht) == Der(k, calcSignatureHash(script, ht, Obtc(ht)), ht)
Segwit(script, k, ht) == Der(k, calcWitnessSignatureHash(script, ht, Obtc(ht)), ht)
Types == {1, 65}

P2PKH(k) == payToPubKeyHashScript(hash160(K(k)))
ScriptPubKeyHash ==
  {In(P2PKH(1), Pushes(<<Legacy(P2PKH(1), k, ht), K(1)>>), <<>>) : k \in {1, 2}, ht \in Types}
    \cup {In(payToPubKeyHashScript(hash160(U(1))),
             Pushes(<<Legacy(payToPubKeyHashScript(hash160(U(1))), 1, 1), U(1)>>), <<>>),
          In(P2PKH(1), Pushes(<<[Legacy(P2PKH(1), 1, 1) EXCEPT ![8] = @ + 64], K(1)>>), <<>>),
          In(P2PKH(1), Pushes(<<<<48, 7, 2, 1, 1, 2, 2, 0, calcSignatureHash(P2PKH(1), 1, FALSE), 1>>,
                                K(1)>>), <<>>),
          In(P2PKH(1), Pushes(<<<<>>, K(1)>>), <<>>)}

Multi == MultiSigScript(<<K(1), K(2), K(3)>>, 2).script
ScriptMultisig ==
  {In(Multi, <<OP_0>> \o Pushes(<<Legacy(Multi, i, 1), Legacy(Multi, j, 1)>>), <<>>) :
     i \in 1..4, j \in 1..4}
    \cup {In(Multi, Pushes(<<K(1), Legacy(Multi, 1, 1), Legacy(Multi, 2, 1)>>), <<>>),
          In(Multi, <<OP_0>> \o Pushes(<<<<>>, Legacy(Multi, 2, 1)>>), <<>>),
          In(Multi, Pushes(<<Legacy(Multi, 2, 1)>>), <<>>)}

P2SH(script) == payToScriptHashScript(hash160(script))
ShortMulti == MultiSigScript(<<K(1), K(2)>>, 1).script
ByData == addData(<<1>>) \o addData(K(1)) \o addData(K(2)) \o <<1, 2>> \o <<OP_CHECKMULTISIG>>
WKH(k) == payToWitnessPubKeyHashScript(hash160(K(k)))
WSH(script) == payToWitnessScriptHashScript(sha256(script))
ScriptScriptHash ==
  {In(P2SH(s), <<OP_0>> \o Pushes(<<Legacy(s, 2, ht), s>>), <<>>) : s \in {ShortMulti, ByData}, ht \in Types}
    \cup {In(P2SH(P2PKH(1)), Pushes(<<Legacy(P2PKH(1), 1, 1), K(1), P2PKH(1)>>), <<>>),
          In(P2SH(P2PKH(1)), Pushes(<<K(1), P2PKH(2)>>), <<>>),
          In(P2SH(<<OP_1>>), <<OP_1, 97>> \o Pushes(<<<<OP_1>>>>), <<>>),
          In(P2SH(<<5>>), Pushes(<<<<5>>>>), <<>>),
          In(P2SH(<<5, 1>>), Pushes(<<<<5, 1>>>>), <<>>),
          In(P2SH(WKH(1)), Pushes(<<WKH(1)>>), <<Segwit(P2PKH(1), 1, 1), K(1)>>),
          In(P2SH(WKH(1)), <<OP_1>> \o Pushes(<<WKH(1)>>), <<Segwit(P2PKH(1), 1, 1), K(1)>>),
          In(P2SH(WSH(ShortMulti)), Pushes(<<WSH(ShortMulti)>>), <<<<>>, Segwit(ShortMulti, 1, 1), ShortMulti>>)}

Hidden == <<99, 108, 107, 104, OP_1, 107>>
ScriptWitness ==
  {In(WKH(1), <<>>, <<Segwit(P2PKH(1), k, ht), K(1)>>) : k \in {1, 2}, ht \in Types}
    \cup {In(WSH(ShortMulti), <<>>, <<<<>>, Segwit(ShortMulti, 1, 1), ShortMulti>>),
          In(WSH(ShortMulti), <<>>, <<<<>>, Legacy(ShortMulti, 1, 1), ShortMulti>>),
          In(WSH(<<99, OP_1, 103, OP_1, 104>>), <<>>, <<<<2>>, <<99, OP_1, 103, OP_1, 104>>>>),
          In(WSH(<<OP_1>>), <<>>, <<<<7>>, <<OP_1>>>>),
          In(WSH(<<99, OP_1, 103, OP_1, 104>>), <<>>, <<<<1>>, <<99, OP_1, 103, OP_1, 104>>>>),
          In(WSH(<<117, OP_1>>), <<>>, <<Pad(<<1>>, MaxScriptElementSize + 1), <<117, OP_1>>>>),
          In(WSH(<<>>), <<>>, <<<<1>>, <<>>>>),
          In(WSH(Hidden), <<>>, <<<<>>, Hidden>>),
          In(WKH(1), <<OP_1>>, <<>>), In(WKH(1), <<>>, <<>>),
          In(<<OP_0>> \o addData(<<9, 9, 9>>), <<>>, <<<<1>>>>),
          In(<<OP_16>> \o addData(<<9, 9, 9>>), <<>>, <<<<1>>>>),
          In(P2PKH(1), Pushes(<<Legacy(P2PKH(1), 1, 1), K(1)>>), <<<<1>>>>)}

Single == addData(X(1)) \o <<OP_CHECKSIG>>
Both == addData(X(1)) \o <<OP_CHECKSIG>> \o addData(X(2)) \o <<186, OP_1 + 1, 156>>
Separated == <<OP_1, 105, OP_CODESEPARATOR>> \o Single
Success == <<80>>
Repeated(n) == Built([i \in 1..n |-> <<110>> \o <<OP_CHECKSIG, 105>>]) \o <<OP_CHECKSIG>>
Leaves == <<Single, Both, Separated, Success, Repeated(3), Repeated(7)>>
Tree == AssembleTaprootScriptTree(Leaves)
Out == ComputeTaprootOutputKey(X(9), Tree.root)
P2TR == payToWitnessTaprootScript(Out)
Control(i) == ToBytes(ToControlBlock(Tree, i, X(9)))
Schnorr(k, ht, annex, ext) ==
  Pad(<<k, calcTaprootSignatureHash(ht, Obtc(ht), annex, ext).hash>>, 64)
    \o (IF ht = 0 THEN <<>> ELSE <<ht>>)
TapSig(k, ht, script, sep) ==
  Schnorr(k, ht, <<>>, TapLeafHash(BaseLeafVersion, script) \o <<sep>>)
Annex == <<80, 3>>
ScriptTaproot ==
  {In(P2TR, <<>>, <<Schnorr(Out[1], ht, <<>>, <<>>)>>) : ht \in {0, 1, 65, 193}}
    \cup {In(P2TR, <<>>, <<Schnorr(Out[1], 0, Annex, <<>>), Annex>>),
          In(P2TR, <<>>, <<Schnorr(Out[1], 0, <<>>, <<>>), Annex>>)}
    \cup {In(P2TR, <<>>, <<TapSig(1, ht, Single, -1), Single, Control(1)>>) : ht \in {0, 65}}
    \cup {In(P2TR, <<>>, <<TapSig(2, 0, Both, -1), TapSig(1, 0, Both, -1), Both, Control(2)>>),
          In(P2TR, <<>>, <<<<>>, TapSig(1, 0, Both, -1), Both, Control(2)>>),
          In(P2TR, <<>>, <<TapSig(1, 0, Separated, 2), Separated, Control(3)>>),
          In(P2TR, <<>>, <<TapSig(1, 0, Separated, 3), Separated, Control(3)>>),
          In(P2TR, <<>>, <<Success, Control(4)>>),
          In(P2TR, <<>>, <<TapSig(1, 0, Repeated(3), -1), X(1), Repeated(3), Control(5)>>),
          In(P2TR, <<>>, <<TapSig(1, 0, Repeated(7), -1), X(1), Repeated(7), Control(6)>>),
          In(P2TR, <<>>, <<TapSig(1, 0, Single, -1), Single, Control(2)>>),
          In(P2TR, <<>>, <<TapSig(1, 0, Single, -1), Single, [Control(1) EXCEPT ![1] = 386 - @ - 1]>>),
          In(P2TR, <<>>, <<>>)}

Nested == <<99, 99, OP_1, 103, OP_0, 104, 103, 100, OP_1, 103, OP_0, 104, 97, 104>>
Groups == <<113, 114, 112, 110, 123, 124, 125, 109, 109, 116, 116>>
Bools == {<<>>, <<1>>, <<128>>}
ScriptControl ==
  {In(Nested, Pushes(<<a, b>>), <<>>) : a \in Bools, b \in Bools}
    \cup {In(<<99, 99, OP_1, 103, OP_1, 105, 104, OP_1, 103, OP_0, 104>>, Pushes(<<a>>), <<>>) : a \in Bools}
    \cup {In(Groups, Pushes([i \in 1..n |-> <<20 + i>>]), <<>>) : n \in {3, 5, 6, 7}}
    \cup {In(<<103>>, <<OP_1>>, <<>>), In(<<104>>, <<OP_1>>, <<>>), In(<<99>>, <<OP_1>>, <<>>),
          In(<<OP_1>>, <<OP_1, 99>>, <<>>), In(<<108, 117, OP_1>>, <<OP_1, 107>>, <<>>),
          In(<<107, 108>>, <<OP_1>>, <<>>),
          In(<<OP_RETURN>>, <<OP_1>>, <<>>), In(<<OP_1>>, <<>>, <<>>), In(<<>>, <<OP_1>>, <<>>),
          In(<<>>, <<>>, <<>>), In(<<2, 1>>, <<OP_1>>, <<>>), In(<<99, 101, 104>>, <<OP_0>>, <<>>),
          In(<<99, 126, 104, OP_1>>, <<OP_0>>, <<>>),
          In([i \in 1..13 |-> 97], <<OP_1>>, <<>>), In([i \in 1..15 |-> OP_1], <<OP_1>>, <<>>),
          In(PushPrefix(121) \o Pad(<<1>>, 121), <<OP_1>>, <<>>),
          In(<<1, 5, OP_EQUAL>>, <<OP_1 + 4>>, <<>>),
          In(<<OP_1, OP_1>>, <<176>>, <<>>)}

Timed(op, n, s, lock, v) ==
  [sig |-> <<OP_1>>, pk |-> Built(<<AddInt64(NewScriptBuilder, n).script, <<op>>>>),
   wit |-> <<>>, lock |-> lock, sequence |-> s, version |-> v]
ScriptLocks ==
  {Timed(177, n, s, lock, 2) : n \in {-1, 0, 20, 21, 100}, s \in {5, 255}, lock \in {20, 120}}
    \cup {Timed(178, n, s, 0, v) : n \in {0, 5, 69, 133}, s \in {5, 69, 133}, v \in {1, 2}}
    \cup {In(<<OP_1, OP_0, op>>, <<OP_1>>, <<>>) : op \in {177, 178}}

Sep == <<OP_1, 105, OP_CODESEPARATOR>> \o addData(K(1)) \o <<OP_CHECKSIG>>
After == addData(K(1)) \o <<OP_CHECKSIG>>
Off == addData(K(0)) \o <<OP_CHECKSIG, 145>>
ScriptOther ==
  {In(Sep, Pushes(<<Legacy(s, 1, 1)>>), <<>>) : s \in {Sep, After}}
    \cup {In(Off, Pushes(<<Legacy(Off, 1, 1)>>), <<>>), In(After, Pushes(<<Legacy(After, 1, 3)>>), <<>>),
          In(After, Pushes(<<Legacy(After, 1, 9)>>), <<>>)}

ScriptSpends == ScriptPubKeyHash \cup ScriptMultisig \cup ScriptScriptHash \cup ScriptWitness \cup ScriptTaproot
              \cup ScriptControl \cup ScriptLocks \cup ScriptOther

Active == {"Bip16", "DERSignatures", "CheckLockTimeVerify", "CheckSequenceVerify",
           "Witness", "StrictMultiSig", "Taproot"}
Standard == Active \cup
  {"StrictEncoding", "MinimalData", "DiscourageUpgradableNops", "CleanStack", "NullFail",
   "LowS", "DiscourageUpgradeableWitnessProgram", "MinimalIf", "WitnessPubKeyType",
   "DiscourageUpgradeableTaprootVersion", "DiscourageOpSuccess",
   "DiscourageUpgradeablePubkeyType", "ConstScriptCode"}
ScriptFlagSets ==
  {{}, {"Bip16"}, {"Bip16", "DERSignatures", "CheckLockTimeVerify"},
   Active \ {"Taproot"}, Active, Standard,
   Active \cup {"OBTCReplayProtection"}, Standard \cup {"OBTCReplayProtection"}}
ScriptStarts ==
    \/ part = "engine" /\ EngineInit
    \/ /\ part # "engine"
       /\ vm = Idle /\ vfExec = Idle /\ checks = Idle

----------------------------------------------------------------------------
\* Three wallets that sign an output of every form in turn.
ScriptMulti == MultiSigScript(<<K(1), K(2), K(3)>>, 2).script
ScriptHashed(s) == payToScriptHashScript(hash160(s))
ScriptKeyHash == payToPubKeyHashScript(hash160(U(1)))
ScriptPlain == {"Bip16", "StrictEncoding", "DERSignatures", "StrictMultiSig"}
ScriptDomains == {<<1, ScriptPlain>>, <<65, ScriptPlain \cup {"OBTCReplayProtection"}>>}
ScriptLegacyJobs ==
  {[pk |-> p, redeem |-> {ScriptMulti, ScriptKeyHash}, hashType |-> h[1], flags |-> h[2],
    leaves |-> <<>>, allow |-> TRUE] :
     p \in {ScriptMulti, ScriptHashed(ScriptMulti), ScriptKeyHash, ScriptHashed(ScriptKeyHash), payToPubKeyScript(K(2))},
     h \in ScriptDomains}
ScriptWitnessFlags == ScriptPlain \cup {"Witness", "Taproot", "WitnessPubKeyType", "CleanStack"}
ScriptLeafScript(k) == addData(Tail(K(k))) \o <<OP_CHECKSIG>>
ScriptLeaves == <<ScriptLeafScript(1), ScriptLeafScript(2), ScriptLeafScript(3)>>
ScriptTaprootOut == payToWitnessTaprootScript(
                  ComputeTaprootOutputKey(X(9), AssembleTaprootScriptTree(ScriptLeaves).root))
ScriptWitnessJobs ==
  {[pk |-> p[1], redeem |-> {}, leaves |-> p[2], hashType |-> h, allow |-> a,
    flags |-> ScriptWitnessFlags \cup (IF h = 65 THEN {"OBTCReplayProtection"} ELSE {})] :
     p \in {<<payToWitnessPubKeyHashScript(hash160(K(1))), <<>>>>, <<ScriptTaprootOut, ScriptLeaves>>},
     h \in {0, 1, 3, 65}, a \in BOOLEAN}
ScriptJobs == ScriptLegacyJobs \cup {j \in ScriptWitnessJobs : j.hashType = 0 => j.leaves # <<>>}
ScriptWallets == {{K(1), U(1)}, {K(2)}, {K(2), K(3)}}
SignStarts ==
    \/ part = "sign" /\ SignInit
    \/ /\ part # "sign"
       /\ job = Idle /\ signed = Idle /\ sigScript = Idle /\ witness = Idle

----------------------------------------------------------------------------
\* Scripts that are built, signatures and scripts with edited bytes, and a
\* growing taproot tree.
ScriptPushItems == {<<>>, <<0>>, <<7>>, <<16>>, <<17>>, <<129>>, Pad(<<3>>, 75), Pad(<<3>>, 76), Pad(<<3>>, 121)}
ScriptPushInts == {-1, 0, 16, 17, -128, 128, 255, 32768}
ScriptStrictSigs == {<<48, 6, 2, 1, 5, 2, 1, 9>>, <<48, 8, 2, 2, 0, 200, 2, 2, 1, 9>>}
ScriptFormScripts ==
  {payToPubKeyHashScript(hash160(K(1))), payToScriptHashScript(hash160(K(1))),
   payToPubKeyScript(K(1)), payToPubKeyScript(Pad(<<4, 1>>, 65)),
   payToWitnessPubKeyHashScript(hash160(K(1))), payToWitnessScriptHashScript(sha256(K(1))),
   payToWitnessTaprootScript(Pad(<<3>>, 32)), MultiSigScript(<<K(1), K(2)>>, 1).script,
   NullDataScript(<<1, 2, 3>>).script}
ScriptEditBytes == {0, 1, 2, 81, 82, 128, 174}
ScriptLeafScripts == [i \in 1..7 |-> <<OP_1 + i>>]
codecVars == <<made>>
CodecStarts ==
    \/ part = "codec" /\ CodecInit
    \/ /\ part # "codec"
       /\ made = Idle

----------------------------------------------------------------------------
Init ==
    /\ part \in Parts
    /\ PoolStarts /\ FeesStarts /\ StoreStarts /\ BucketsStarts
    /\ TreapStarts /\ IndexesStarts /\ AddressesStarts /\ ScriptStarts
    /\ SignStarts /\ CodecStarts

Next ==
    \/ part = "pool" /\ Pool!TemplateNext
         /\ UNCHANGED <<part, feeVars, ffldbVars, dbtxVars, treapVars, idxVars, addridxVars,
                       engineVars, signVars, codecVars>>
    \/ part = "fee" /\ Fees!FeeNext
         /\ UNCHANGED <<part, poolVars, ffldbVars, dbtxVars, treapVars, idxVars, addridxVars,
                       engineVars, signVars, codecVars>>
    \/ part = "ffldb" /\ Store!FfldbNext
         /\ UNCHANGED <<part, poolVars, feeVars, dbtxVars, treapVars, idxVars, addridxVars,
                       engineVars, signVars, codecVars>>
    \/ part = "dbtx" /\ Buckets!DbTxNext
         /\ UNCHANGED <<part, poolVars, feeVars, ffldbVars, treapVars, idxVars, addridxVars,
                       engineVars, signVars, codecVars>>
    \/ part = "treap" /\ Buckets!TreapNext
         /\ UNCHANGED <<part, poolVars, feeVars, ffldbVars, dbtxVars, idxVars, addridxVars,
                       engineVars, signVars, codecVars>>
    \/ part = "idx" /\ Indexes!IdxNext
         /\ UNCHANGED <<part, poolVars, feeVars, ffldbVars, dbtxVars, treapVars, addridxVars,
                       engineVars, signVars, codecVars>>
    \/ part = "addridx" /\ Indexes!AddrIdxNext
         /\ UNCHANGED <<part, poolVars, feeVars, ffldbVars, dbtxVars, treapVars, idxVars,
                       engineVars, signVars, codecVars>>
    \/ part = "engine" /\ EngineNext
         /\ UNCHANGED <<part, poolVars, feeVars, ffldbVars, dbtxVars, treapVars, idxVars,
                       addridxVars, signVars, codecVars>>
    \/ part = "sign" /\ SignNext
         /\ UNCHANGED <<part, poolVars, feeVars, ffldbVars, dbtxVars, treapVars, idxVars,
                       addridxVars, engineVars, codecVars>>
    \/ part = "codec" /\ CodecNext
         /\ UNCHANGED <<part, poolVars, feeVars, ffldbVars, dbtxVars, treapVars, idxVars,
                       addridxVars, engineVars, signVars>>

vars == <<part, poolVars, feeVars, ffldbVars, dbtxVars, treapVars, idxVars, addridxVars,
          engineVars, signVars, codecVars>>

Spec == Init /\ [][Next]_vars

----------------------------------------------------------------------------
ASSUME ConstantsOK ==
    /\ Pool!TxSetAssumption
    /\ Pool!MempoolAssumption
    /\ Pool!BlockTemplateAssumption
    /\ Fees!FeeAssumption
    /\ Store!FfldbAssumption
    /\ Indexes!AddrIndexAssumption

\* No two pool transactions spend the same output, and the index of spent
\* outpoints, which every later conflict check reads, is exactly that of the pool.
PoolSpendsOnce == part = "pool" => Pool!PoolSpendsOnce

\* The index of orphans by the outputs they wait for is exact whenever the mutex
\* is free, after any removal with or without redeemers, and the orphans stay
\* within MaxOrphanTxs.
OrphansIndexedAndBounded == part = "pool" => Pool!OrphansIndexedAndBounded

\* Once a notification is handled, every pool transaction can be mined with its
\* ancestors in the pool: its inputs are unspent in the chain or created in the
\* pool.  This is lost for good when a block is connected while the node is not
\* current, or when a transaction of a disconnected block is refused for a
\* missing parent.
PoolFollowsChain == part = "pool" => Pool!PoolFollowsChain

\* An orphan whose parents have arrived, by a transaction or by a block, has been
\* tried before the mutex is free.  It is left behind when an orphan that spends
\* the same output failed first, when blocks were disconnected, or when a block
\* was connected while the node was not current.
OrphansRetried == part = "pool" => Pool!OrphansRetried

\* The same, for templates without a transaction whose relative lock was met
\* when the pool accepted it and is not met any more: whatever the pool did
\* meanwhile, the transactions are in order, spend nothing twice and nothing
\* that has expired since the pool accepted them, and leave the reaped outputs
\* alone; and the coinbase claims no fee that they do not pay.
SelectionConnects == part = "pool" => Pool!SelectionConnects

\* A template is within the weight of the policy, up to the witness commitment
\* that a skipped transaction may have added, and the counted weight is the
\* weight of what is in it.
WeightWithinPolicy == part = "pool" => Pool!WeightWithinPolicy

\* The same, for templates without a witness commitment.
RoomForREAPWithoutWitness == part = "pool" => Pool!RoomForREAPWithoutWitness

\* A transaction enters the pool only if the pool's fees rise by at least its
\* relay fee whenever it replaces others, and it pays a higher rate than each.
ReplacementPays == [][part = "pool" => Pool!PaysForReplaced]_poolVars

\* Taking a block back gives exactly the samples from before the block, whatever
\* it displaced at random and in whatever order, for as many blocks as are kept;
\* and never finds a displaced transaction without a place (rollback, after
\* RegisterBlock and after a restart).
RollbackRestores == part = "fee" => Fees!RollbackRestores

\* A transaction is in one sample at most, once, and in the one that its waiting
\* time says.
SampledOnce == part = "fee" => Fees!SampledOnce

\* The longer one may wait, the less one is told to pay.
EstimatesFall == part = "fee" => Fees!EstimatesFall

\* What is saved is restored: every member of a sample and everything displaced
\* is still in the list that the indices point into.
SavedIsRestored == part = "fee" => Fees!SavedIsRestored

\* What a new transaction reads, leveldb through the cache, is the state the
\* last committed transaction left, whether the transactions since are in the
\* cache, flushed, or half flushed; a transaction that failed left nothing.
ReadsLastCommit == part = "ffldb" => Store!ReadsLastCommit

\* A read-only transaction sees one committed state, not older than the moment
\* it began, as Snapshot promises, unless a flush emptied the cache or wrote
\* a transaction past it between its two steps.
SnapshotIsCommitted == part = "ffldb" => Store!SnapshotIsCommitted

\* Every block of the committed metadata can be read, before and after any
\* failed write, failed commit and unclean shutdown.  Excepted are the files a
\* prune deleted whose transaction did not become durable, those that were
\* closed with unsynced data, and prunes that ran ahead of the flushes.
BlocksReadable == part = "ffldb" => Store!BlocksReadable

\* Opening after an unclean shutdown never finds the block files behind the
\* metadata: the data is synced before the metadata is written.
AlwaysReconciled == part = "ffldb" => Store!AlwaysReconciled

\* A transaction sees the tree of buckets and items its own and the committed
\* operations built: deleted buckets are gone with all that was in them, also
\* when one of the same name is created again, although the loop that deletes
\* a bucket can leave rows behind.
BucketsAreTree == part = "dbtx" => Buckets!BucketsAreTree

\* A cursor that is moved in one direction visits every row of its bucket once,
\* in order, through all three layers, also when it deletes rows on its way.
CursorVisitsAll == part = "dbtx" => Buckets!CursorVisitsAll

\* Whatever was put and deleted, in whatever order and with whatever
\* priorities, a treap holds exactly those keys, in order, with their values.
TreapIsMap == part = "treap" => Buckets!TreapIsMap

\* A version of an immutable treap never changes, although later versions share
\* its nodes: the snapshots of the database depend on it.
VersionsFrozen == part = "treap" => Buckets!VersionsFrozen

\* Every move of an iterator leads to the neighbour of the key it was at, also
\* when that key and others were deleted or put since.  Excepted is the first
\* move after First, Last or Seek when the treap had changed before: they leave
\* the key to seek from in place.
IteratorMoves == part = "treap" => Buckets!IteratorMoves

\* Once the manager is initialized, every enabled index is at the tip of the best
\* chain, and the transaction index knows exactly its transactions; whatever
\* other indexes did before, and however often it was interrupted.
IndexesFollowChain == part = "idx" => Indexes!IndexesFollowChain

\* A transaction is looked up in the block that has it: no two blocks share an
\* internal id.  Excepted are histories in which an index refused a block, as
\* the counter in memory is not taken back then.
TxLookupsTrue == part = "idx" => Indexes!TxLookupsTrue

\* Whatever blocks came and went, a query returns the transactions of the address
\* in the order of the chain (or the reverse), after those it skips.
QueriesTrue == part = "addridx" => Indexes!QueriesTrue

\* The rule the comments give: levels above 0 are empty, half full or full, and no
\* level above an empty one has entries.
LevelsWellFormed == part = "addridx" => Indexes!LevelsWellFormed

\* The two memory-only maps are each other's inverse and hold exactly the
\* transactions of the pool.
UnconfirmedAgree == part = "addridx" => Indexes!UnconfirmedAgree

----------------------------------------------------------------------------
\* The transaction pool: its transactions spend every output at most once and
\* only outputs that exist at the tip or in the pool, a replacement pays for
\* what it evicts, and orphans are indexed, bounded and retried.
PoolSound ==
    /\ [](/\ part = "pool" => Pool!TemplateTypeOK
          /\ PoolSpendsOnce /\ OrphansIndexedAndBounded /\ PoolFollowsChain
          /\ OrphansRetried)
    /\ ReplacementPays

\* A block template: what was selected while the chain and the pool moved
\* connects to the block it extends, within the weight of the policy and with
\* the room reserved for the REAP transaction.
TemplateSound ==
    /\ SelectionConnects /\ WeightWithinPolicy /\ RoomForREAPWithoutWitness

\* The fee estimator: a transaction is in one sample at most, a rollback
\* restores the samples a block changed, estimates fall with the waiting time,
\* and a saved estimator is restored.
EstimatorSound ==
    /\ part = "fee" => Fees!FeeTypeOK
    /\ SampledOnce /\ RollbackRestores /\ EstimatesFall
    /\ SavedIsRestored

\* The database: readers see what the last commit wrote, snapshots and cursors
\* a single committed state, and block files and metadata agree again after any
\* crash.
StoreSound ==
    /\ part = "ffldb" => Store!FfldbTypeOK
    /\ part = "dbtx" => Buckets!DbTxTypeOK
    /\ part = "treap" => Buckets!TreapTypeOK
    /\ ReadsLastCommit /\ SnapshotIsCommitted /\ BlocksReadable
    /\ AlwaysReconciled /\ BucketsAreTree /\ CursorVisitsAll
    /\ TreapIsMap /\ VersionsFrozen /\ IteratorMoves

\* The optional indexes: after starts, reorganizations, drops and crashes they
\* hold the rows of the best chain and of the pool, and no others.
IndexesSound ==
    /\ part = "idx" => Indexes!IdxTypeOK
    /\ IndexesFollowChain /\ TxLookupsTrue /\ QueriesTrue
    /\ LevelsWellFormed /\ UnconfirmedAgree

\* The script engine, signing and script forms: limits and branches hold at
\* every opcode, soft-fork flags only restrict, what the wallet signs spends,
\* and what a builder makes the classifiers recognise.
ScriptsSound ==
    /\ [](/\ part = "engine" => EngineTypeOK
          /\ (part = "engine" => BranchesNest)
          /\ (part = "engine" => WithinLimits)
          /\ (part = "engine" => ScriptsAreSeparate)
          /\ (part = "engine" => SigOpsCounted)
          /\ (part = "engine" => MultisigInOrder)
          /\ (part = "engine" => FlagsOnlyRestrict)
          /\ (part = "engine" => UnspendableIsUnspent)
          /\ (part = "engine" => ScriptIsComputed)
          /\ (part = "sign" => SignedSpends)
          /\ (part = "codec" => BuiltAsCalled)
          /\ (part = "codec" => StrictlyEncoded)
          /\ (part = "codec" => FormsAgree)
          /\ (part = "codec" => LeavesCommitted))
    /\ [][part = "engine" => MovesGroups]_engineVars
============================================================================
