----------------------------- MODULE ScriptVal ------------------------------
(***************************************************************************)
(* Validation of scripts by several goroutines (blockchain/scriptval.go)   *)
(* over the two shared caches (txscript: hashcache.go, sigcache.go).  A    *)
(* caller validates one transaction (the pool) or the transactions of a    *)
(* block; both callers may be at work at the same time.                    *)
(***************************************************************************)
EXTENDS Naturals, Sequences, FiniteSets

CONSTANTS
  Callers,       \* names
  Works,         \* the functions: caller -> the transactions it validates, in order
  IsBlock,       \* the callers that validate a block
  InputsOf,      \* transaction -> its inputs: records hash (what is signed), sig (the
                 \* signature and key), valid, taproot, coinbase, spent
  ReapTxs,       \* transactions that look like REAP transactions
  WitnessTxs,    \* transactions with a witness
  MaxGoRoutines,
  MaxEntries     \* of the signature cache

VARIABLES
  call,       \* caller -> where it is
  worker,     \* caller -> the state of its goroutines
  hashCache,  \* the transactions whose midstates are kept
  sigCache,   \* hash -> signature, for the hashes kept
  txsOf       \* the one of Works that this behaviour is about
valVars == <<call, worker, hashCache, sigCache, txsOf>>

Workers == 1..MaxGoRoutines
Gone == [at |-> "gone", item |-> 0, ok |-> TRUE]
Idle == [at |-> "idle", item |-> 0, ok |-> TRUE]
Start == [pc |-> "prepare", tx |-> 1, items |-> <<>>, cur |-> 0, done |-> 0, quit |-> FALSE,
          res |-> "none"]

\* The inputs to validate of a transaction, with whether its midstates were found.
Items(tx, found) ==
  SelectSeq([i \in DOMAIN InputsOf[tx] |-> [in |-> InputsOf[tx][i], mid |-> found]],
            LAMBDA x : ~x.in.coinbase)
Set(c, f) == call' = [call EXCEPT ![c] = f]

-----------------------------------------------------------------------------
(* The caller: midstates of every transaction, then Validate.                *)

\* ContainsHashes and AddSigHashes, then GetSigHashes: the lock is let go between.
Tx(c) == txsOf[c][call[c].tx]
Prepare(c) ==
  /\ call[c].pc = "prepare" /\ call[c].tx <= Len(txsOf[c])
  /\ Set(c, IF Tx(c) \in ReapTxs THEN [call[c] EXCEPT !.tx = @ + 1]
            ELSE IF Tx(c) \notin WitnessTxs
            THEN [call[c] EXCEPT !.tx = @ + 1, !.items = @ \o Items(Tx(c), FALSE)]
            ELSE [call[c] EXCEPT !.pc = IF Tx(c) \in hashCache THEN "get" ELSE "add"])
  /\ UNCHANGED <<worker, hashCache, sigCache, txsOf>>
AddSigHashes(c) ==
  /\ call[c].pc = "add"
  /\ hashCache' = hashCache \cup {Tx(c)}
  /\ Set(c, [call[c] EXCEPT !.pc = "get"])
  /\ UNCHANGED <<worker, sigCache, txsOf>>
GetSigHashes(c) ==
  /\ call[c].pc = "get"
  /\ Set(c, [call[c] EXCEPT !.pc = "prepare", !.tx = @ + 1,
                            !.items = @ \o Items(Tx(c), Tx(c) \in hashCache)])
  /\ UNCHANGED <<worker, hashCache, sigCache, txsOf>>

\* Validate returns at once when there is nothing to do, else it starts its goroutines.
Begin(c) ==
  /\ call[c].pc = "prepare" /\ call[c].tx > Len(txsOf[c])
  /\ IF call[c].items = <<>>
     THEN Set(c, [call[c] EXCEPT !.pc = "purge", !.res = "nil"]) /\ UNCHANGED worker
     ELSE /\ Set(c, [call[c] EXCEPT !.pc = "validate"])
          /\ worker' = [worker EXCEPT ![c] =
               [w \in Workers |-> IF w <= Len(call[c].items) THEN Idle ELSE Gone]]
  /\ UNCHANGED <<hashCache, sigCache, txsOf>>

\* An item goes from the caller to an idle goroutine.
Feed(c, w) ==
  /\ call[c].pc = "validate" /\ call[c].cur < Len(call[c].items)
  /\ worker[c][w].at = "idle"
  /\ worker' = [worker EXCEPT ![c][w].at = "validate", ![c][w].item = call[c].cur + 1]
  /\ Set(c, [call[c] EXCEPT !.cur = @ + 1])
  /\ UNCHANGED <<hashCache, sigCache, txsOf>>

\* A result goes back; the first error closes the quit channel, and so does the last
\* result.
TakeResult(c, w) ==
  LET ok == worker[c][w].ok
      all == call[c].done + 1 = Len(call[c].items)
  IN  /\ call[c].pc = "validate" /\ worker[c][w].at = "send"
      /\ worker' = [worker EXCEPT ![c][w] = IF ok THEN Idle ELSE Gone]
      /\ Set(c, [call[c] EXCEPT !.done = @ + 1, !.quit = ~ok \/ all,
                                !.pc = IF ~ok THEN "done" ELSE IF all THEN "purge" ELSE @,
                                !.res = IF ~ok THEN "error" ELSE IF all THEN "nil" ELSE @])
      /\ UNCHANGED <<hashCache, sigCache, txsOf>>

\* A block's transactions leave the cache once all their scripts are valid.
PurgeSigHashes(c) ==
  /\ call[c].pc = "purge"
  /\ hashCache' = IF c \in IsBlock THEN hashCache \ {txsOf[c][i] : i \in DOMAIN txsOf[c]}
                  ELSE hashCache
  /\ Set(c, [call[c] EXCEPT !.pc = "done"])
  /\ UNCHANGED <<worker, sigCache, txsOf>>

-----------------------------------------------------------------------------
(* A goroutine.                                                              *)

Exists(h, sig) == h \in DOMAIN sigCache /\ sigCache[h] = sig
\* Some entry goes when the cache is full, even if the new one replaces another.
Add(h, sig) ==
  IF MaxEntries = 0 THEN UNCHANGED sigCache
  ELSE IF Cardinality(DOMAIN sigCache) + 1 > MaxEntries
  THEN \E old \in DOMAIN sigCache :
         sigCache' = [x \in (DOMAIN sigCache \ {old}) \cup {h} |->
                        IF x = h THEN sig ELSE sigCache[x]]
  ELSE sigCache' = [x \in DOMAIN sigCache \cup {h} |-> IF x = h THEN sig ELSE sigCache[x]]

\* The engine's verdict on an input, by the cache or by the signature.
Item(c, w) == call[c].items[worker[c][w].item]
Validate(c, w) ==
  LET in == Item(c, w).in
      cached == Exists(in.hash, in.sig)
  IN  /\ worker[c][w].at = "validate"
      /\ IF ~in.spent /\ ~cached /\ in.valid THEN Add(in.hash, in.sig) ELSE UNCHANGED sigCache
      /\ worker' = [worker EXCEPT ![c][w].at = "send",
                                  ![c][w].ok = ~in.spent /\ (cached \/ in.valid)]
      /\ UNCHANGED <<call, hashCache, txsOf>>
\* Waiting for an item or for its result to be taken, a goroutine also waits for quit.
Quit(c, w) ==
  /\ call[c].quit /\ worker[c][w].at \in {"idle", "send"}
  /\ worker' = [worker EXCEPT ![c][w] = IF @.at = "idle" \/ ~@.ok THEN Gone ELSE Idle]
  /\ UNCHANGED <<call, hashCache, sigCache, txsOf>>

-----------------------------------------------------------------------------
ValInit ==
  /\ call = [c \in Callers |-> Start]
  /\ worker = [c \in Callers |-> [w \in Workers |-> Gone]]
  /\ hashCache = {} /\ sigCache = [h \in {} |-> 0]
  /\ txsOf \in Works
CallStep(c) ==
  Prepare(c) \/ AddSigHashes(c) \/ GetSigHashes(c) \/ Begin(c) \/ PurgeSigHashes(c)
WorkerStep(c, w) == Feed(c, w) \/ TakeResult(c, w) \/ Validate(c, w) \/ Quit(c, w)
ValNext == \E c \in Callers : CallStep(c) \/ \E w \in Workers : WorkerStep(c, w)
\* Every goroutine that can go on does.
ValFair ==
  \A c \in Callers :
    /\ WF_valVars(CallStep(c))
    /\ \A w \in Workers : WF_valVars(Feed(c, w) \/ TakeResult(c, w) \/ Validate(c, w) \/ Quit(c, w))
ValSpec == ValInit /\ [][ValNext]_valVars /\ ValFair

-----------------------------------------------------------------------------
(* Properties.                                                               *)

\* The inputs a caller must find valid: of every transaction but REAP ones.
Due(c) == UNION {{InputsOf[txsOf[c][i]][j] : j \in DOMAIN InputsOf[txsOf[c][i]]} :
                   i \in {k \in DOMAIN txsOf[c] : txsOf[c][k] \notin ReapTxs}}
Sound(in) == in.coinbase \/ (in.valid /\ ~in.spent)

ValTypeOK ==
  /\ call \in [Callers -> [pc : {"prepare", "add", "get", "validate", "purge", "done"},
                           tx : Nat, items : Seq([in : UNION {Due(c) : c \in Callers}, mid : BOOLEAN]),
                           cur : Nat, done : Nat, quit : BOOLEAN, res : {"none", "nil", "error"}]]
  /\ \A c \in Callers : call[c].done <= call[c].cur /\ call[c].cur <= Len(call[c].items)
  /\ Cardinality(DOMAIN sigCache) <= MaxEntries

\* The verdict on a set of scripts is right whatever the order results come in and
\* whatever the caches hold: no error exactly when every script is valid (Validate).
VerdictTrue ==
  \A c \in Callers :
    /\ call[c].res = "nil" => \A in \in Due(c) : Sound(in)
    /\ call[c].res = "error" => \E in \in Due(c) : ~Sound(in)

AllGone(c) == call[c].pc = "done" /\ \A w \in Workers : worker[c][w].at = "gone"

\* No goroutine is left behind: every call returns and all its goroutines end, also
\* those busy when another one reported an error (sendResult, quitChan).
GoroutinesEnd == \A c \in Callers : <>[]AllGone(c)

\* "Using this threadsafe shared cache, multiple goroutines can safely re-use the
\* pre-computed partial sighashes": a taproot input is never validated without them
\* (taprootSigVerifier does not compute its own).
MidstatesPresent ==
  \A c \in Callers, w \in Workers :
    worker[c][w].at = "validate" /\ Item(c, w).in.taproot => Item(c, w).mid

-----------------------------------------------------------------------------
(***************************************************************************)
(* What a signature is over (package txscript: sighash.go, hashcache.go).  *)
(* A digest is the data that is hashed, so that two digests are equal      *)
(* exactly when no field they commit to differs.  An edit changes one      *)
(* field of a transaction that is already signed.                          *)
(***************************************************************************)

CONSTANTS
  HashTypes,     \* the hash types, bytes
  MaxIns, MaxOuts

VARIABLES
  tx,       \* the transaction: version, lock, ins, outs; with each input the output
            \* it spends
  orig,     \* the transaction that was signed
  touched,  \* the field the edit changed: <<name, index>>
  cache     \* the midstates kept by transaction id (HashCache): sets of <<id, midstate>>

hashVars == <<tx, orig, touched, cache>>

SigHashNone == 2
SigHashSingleType == 3
Bit(n, b) == (n \div b) % 2 = 1
Masked(ht) == ht % 32
AnyOneCanPay(ht) == Bit(ht, 128)
Zero == <<0, 0, 0, 0, 0, 0>>

isOBTCReplay(ht) == Bit(ht, 64) /\ ~Bit(ht, 32) /\ Masked(ht) \in 1..3
Tagged(ht, active) == active /\ isOBTCReplay(ht)

Each(f(_), s) == [i \in DOMAIN s |-> f(s[i])]
OutPoint(in) == in.out
Sequence(in) == in.sequence
PrevAmount(in) == in.amount
PrevScript(in) == in.script

-----------------------------------------------------------------------------
(* Transactions without a witness.                                           *)

\* Copies of the inputs with every script but the signed one emptied, and the sequence
\* numbers of the others zeroed when the outputs are not all signed.
LegacyInputs(t, ht, idx) ==
  LET copy == [i \in DOMAIN t.ins |->
                <<t.ins[i].out, IF i = idx THEN t.ins[i].script ELSE "nil",
                  IF i # idx /\ Masked(ht) \in {SigHashNone, SigHashSingleType} THEN 0
                  ELSE t.ins[i].sequence>>]
  IN  IF AnyOneCanPay(ht) THEN <<copy[idx]>> ELSE copy
LegacyOutputs(t, ht, idx) ==
  CASE Masked(ht) = SigHashNone -> <<>>
    [] Masked(ht) = SigHashSingleType ->
         [i \in 1..idx |-> IF i = idx THEN t.outs[i] ELSE 0]
    [] OTHER -> t.outs

LegacyHash(t, ht, idx, active) ==
  IF Masked(ht) = SigHashSingleType /\ idx > Len(t.outs) THEN <<"one">>
  ELSE <<Tagged(ht, active), t.version, t.lock, LegacyInputs(t, ht, idx),
         LegacyOutputs(t, ht, idx), ht>>

-----------------------------------------------------------------------------
(* Midstates: what all inputs of a transaction share.                        *)

IsPayToTaproot(script) == script = "taproot"

\* The loop stops as soon as both kinds of input were seen.
NewTxSigHashes(t) ==
  LET v0 == \E i \in DOMAIN t.ins : ~IsPayToTaproot(t.ins[i].script)
      v1 == \E i \in DOMAIN t.ins : IsPayToTaproot(t.ins[i].script)
      prevOuts == Each(OutPoint, t.ins)  seqs == Each(Sequence, t.ins)
      If(b, x) == IF b THEN x ELSE Zero
  IN  [prevOutsV1 |-> prevOuts, sequenceV1 |-> seqs, outputsV1 |-> t.outs,
       prevOutsV0 |-> If(v0, prevOuts), sequenceV0 |-> If(v0, seqs),
       outputsV0 |-> If(v0, t.outs),
       amounts |-> If(v1, Each(PrevAmount, t.ins)), scripts |-> If(v1, Each(PrevScript, t.ins))]

-----------------------------------------------------------------------------
(* Witness version 0.                                                        *)

WitnessHash(t, mid, ht, idx, active) ==
  LET in == t.ins[idx]
      all == Masked(ht) \notin {SigHashNone, SigHashSingleType}
      If(b, x) == IF b THEN x ELSE Zero
  IN  <<Tagged(ht, active), t.version,
        If(~AnyOneCanPay(ht), mid.prevOutsV0),
        If(~AnyOneCanPay(ht) /\ all, mid.sequenceV0),
        in.out, in.script, in.amount, in.sequence,
        IF all THEN mid.outputsV0
        ELSE If(Masked(ht) = SigHashSingleType /\ idx <= Len(t.outs), <<t.outs[idx]>>),
        t.lock, ht>>

-----------------------------------------------------------------------------
(* Taproot; <<>> when there is no digest.                                    *)

ValidTaprootType(ht) == ht = 0 \/ ht % 128 \in 1..3
Normalized(ht) == IF isOBTCReplay(ht) THEN ht - 64 ELSE ht

TaprootHash(t, mid, ht, idx, allow) ==
  LET n == Normalized(ht)
      in == t.ins[idx]
      one == <<in.out, in.amount, in.script, in.sequence>>
      every == <<mid.prevOutsV1, mid.amounts, mid.scripts, mid.sequenceV1>>
  IN  IF \/ isOBTCReplay(ht) /\ ~allow
         \/ ~ValidTaprootType(n)
         \/ Masked(n) = SigHashSingleType /\ idx > Len(t.outs)
      THEN <<>>
      ELSE <<isOBTCReplay(ht), ht, t.version, t.lock>>
             \o (IF AnyOneCanPay(n) THEN <<>> ELSE every)
             \o (IF n % 4 \in {2, 3} THEN <<>> ELSE <<mid.outputsV1>>)
             \o <<IF AnyOneCanPay(n) THEN one ELSE <<idx>>>>
             \o (IF Masked(n) = SigHashSingleType THEN <<t.outs[idx]>> ELSE <<>>)

-----------------------------------------------------------------------------
(* A transaction is signed, then one of its fields is edited; its midstates  *)
(* come from the cache, which another transaction's may be in too.           *)

\* The id commits to everything here: outputs spent are fixed by the outpoints.
TxHash(t) == t
Cached(t) == IF \E e \in cache : e[1] = TxHash(t) THEN (CHOOSE e \in cache : e[1] = TxHash(t))[2]
             ELSE NewTxSigHashes(t)
CacheSigHashes(t) == cache' = {e \in cache : e[1] # TxHash(t)} \cup {<<TxHash(t), NewTxSigHashes(t)>>}
DropSigHashes(t) == cache' = {e \in cache : e[1] # TxHash(t)}

Inputs == [out : {1}, sequence : {5}, amount : {7}, script : {"plain", "witness", "taproot"}]
HashInit ==
  /\ \E n \in 1..MaxIns, m \in 0..MaxOuts :
       \E ins \in [1..n -> Inputs] :
         tx = [version |-> 1, lock |-> 0, ins |-> [i \in 1..n |-> [ins[i] EXCEPT !.out = i]],
               outs |-> [i \in 1..m |-> 40 + i]]
  /\ orig = tx /\ touched = <<"none", 0>> /\ cache = {}
Edit(name, i, t) ==
  touched = <<"none", 0>> /\ touched' = <<name, i>> /\ tx' = t /\ UNCHANGED <<orig, cache>>
HashNext ==
  \/ Edit("version", 0, [tx EXCEPT !.version = 2])
  \/ Edit("lock", 0, [tx EXCEPT !.lock = 9])
  \/ \E i \in DOMAIN tx.ins :
       \/ Edit("out", i, [tx EXCEPT !.ins[i].out = 90])
       \/ Edit("sequence", i, [tx EXCEPT !.ins[i].sequence = 6])
       \/ Edit("amount", i, [tx EXCEPT !.ins[i].amount = 8])
  \/ \E i \in DOMAIN tx.outs : Edit("output", i, [tx EXCEPT !.outs[i] = 50])
  \/ Edit("more", 0, [tx EXCEPT !.outs = Append(@, 60)])
  \/ CacheSigHashes(tx) /\ UNCHANGED <<tx, orig, touched>>
  \/ cache # {} /\ DropSigHashes(tx) /\ UNCHANGED <<tx, orig, touched>>

-----------------------------------------------------------------------------
(* Properties.                                                               *)

\* What each kind of signature of input idx is meant to commit to: the fields whose
\* edit must change the digest.  Outputs appended count as output Len + 1.
Commits(kind, ht, idx) ==
  LET all == Masked(ht) \notin {SigHashNone, SigHashSingleType}
      acp == AnyOneCanPay(ht)
      field == touched[1]  i == touched[2]
  IN  CASE field \in {"version", "lock"} -> TRUE
        [] field = "out" -> i = idx \/ ~acp
        [] field = "sequence" -> i = idx \/ (~acp /\ (all \/ kind = "taproot"))
        [] field = "amount" -> (i = idx /\ kind # "plain") \/ (kind = "taproot" /\ ~acp)
        [] field = "output" -> all \/ (Masked(ht) = SigHashSingleType /\ i = idx)
        [] field = "more" -> all \/ (Masked(ht) = SigHashSingleType /\ idx = Len(orig.outs) + 1
                                     /\ kind # "plain")
        [] OTHER -> FALSE
Digest(kind, t, mid, ht, idx, active) ==
  CASE kind = "plain" -> LegacyHash(t, ht, idx, active)
    [] kind = "witness" -> WitnessHash(t, mid, ht, idx, active)
    [] kind = "taproot" -> TaprootHash(t, mid, ht, idx, active)

Single(ht, idx, t) == Masked(ht) = SigHashSingleType /\ idx > Len(t.outs)

\* An edit changes the digest of an input's signature exactly when its hash type says
\* the field is signed; midstates from the cache are as good as new ones.  The digest
\* of a single output that does not exist is a constant (witness version 0: blank), or
\* none at all (taproot).
CommitmentsExact ==
  \A idx \in DOMAIN tx.ins, ht \in HashTypes, active \in BOOLEAN :
    LET kind == orig.ins[idx].script
        before == Digest(kind, orig, NewTxSigHashes(orig), ht, idx, active)
        after == Digest(kind, tx, Cached(tx), ht, idx, active)
    IN  ~(kind = "plain" /\ (Single(ht, idx, orig) \/ Single(ht, idx, tx))) =>
          IF before = <<>> THEN after = <<>> \/ touched[1] = "more"
          ELSE (after # before) <=> Commits(kind, ht, idx)

\* A signature of the replay-protected domain is never one of the plain domain, for
\* the same or another hash type, before or after an edit; save for the constant digest
\* of a missing single output.
DomainsApart ==
  \A idx \in DOMAIN tx.ins, ht \in HashTypes, other \in HashTypes :
    LET kind == orig.ins[idx].script
        mid == Cached(tx)
    IN  (isOBTCReplay(ht) /\ ~(kind = "plain" /\ Single(ht, idx, tx))) =>
          /\ Digest(kind, tx, mid, ht, idx, TRUE) # Digest(kind, tx, mid, other, idx, FALSE)
             \/ Digest(kind, tx, mid, ht, idx, TRUE) = <<>>
=============================================================================
