----------------------------- MODULE ScriptOps ------------------------------
(***************************************************************************)
(* The operations of the script engine (package txscript): script numbers, *)
(* the stack, the tokenizer and the opcode handlers, over real bytes.      *)
(*                                                                         *)
(* The engine is a record vm (ScriptEngine makes one); a handler is an     *)
(* operator from an engine to the engine after it, whose field err names   *)
(* the script error, "none" when there is none.  Hash functions and curve  *)
(* arithmetic are external: a hash is a checksum of the right length, a    *)
(* key is its format byte and an identity, padded to the real length, and  *)
(* a signature holds the identity (R) and the digest it signs (S).         *)
(***************************************************************************)
EXTENDS Integers, Sequences, SequencesExt, FiniteSets

Down(hi, lo) == [k \in 1..(IF hi >= lo THEN hi - lo + 1 ELSE 0) |-> hi - k + 1]
Up(lo, hi) == [k \in 1..(IF hi >= lo THEN hi - lo + 1 ELSE 0) |-> lo + k - 1]

\* The only element of a singleton.
Only(S) == CHOOSE x \in S : TRUE

\* The state after Op(state, x) for every x of the sequence, from start.  States are
\* kept in singletons, so that each is computed once, and the sequence is halved, so
\* that the recursion is not deep.
Loop(Op(_, _), start, seq) ==
  LET RECURSIVE Run(_, _, _)
      Run(r, lo, hi) ==
        IF hi < lo THEN {r}
        ELSE IF lo = hi THEN {Op(r, seq[lo])}
        ELSE UNION {Run(m, (lo + hi) \div 2 + 1, hi) : m \in Run(r, lo, (lo + hi) \div 2)}
  IN  Only(Run(start, 1, Len(seq)))

CONSTANTS
  MaxOpsPerScript, MaxStackSize, MaxScriptElementSize, MaxPubKeysPerMultiSig,
  LockTimeThreshold,     \* the first lock time that is a time
  SequenceDisabled,      \* the three parts of a sequence number, powers of two
  SequenceIsSeconds,
  SequenceMask,          \* one less than a power of two
  MaxTxInSequenceNum

Byte == 0..255
OP_0 == 0
OP_PUSHDATA1 == 76
OP_PUSHDATA2 == 77
OP_PUSHDATA4 == 78
OP_1NEGATE == 79
OP_1 == 81
OP_16 == 96
OP_RETURN == 106
OP_DUP == 118
OP_EQUAL == 135
OP_EQUALVERIFY == 136
OP_HASH160 == 169
OP_CODESEPARATOR == 171
OP_CHECKSIG == 172
OP_CHECKSIGVERIFY == 173
OP_CHECKMULTISIG == 174
OP_CHECKMULTISIGVERIFY == 175

OpCondFalse == 0
OpCondTrue == 1
OpCondSkip == 2

Fail(vm, c) == [vm EXCEPT !.err = c]
hasFlag(vm, f) == f \in vm.flags
HasBit(n, bit) == (n \div bit) % 2 = 1

-----------------------------------------------------------------------------
(* Script numbers: little endian, the sign in the top bit of the last byte. *)

checkMinimalDataEncoding(v) ==
  \/ Len(v) = 0
  \/ v[Len(v)] % 128 # 0
  \/ Len(v) > 1 /\ v[Len(v) - 1] >= 128

Magnitude(n) ==
  LET size == IF n < 256 THEN 1 ELSE IF n < 65536 THEN 2
              ELSE IF n < 16777216 THEN 3 ELSE 4
  IN [i \in 1..size |-> (n \div (256 ^ (i - 1))) % 256]

scriptNumBytes(n) ==
  LET m == Magnitude(IF n < 0 THEN -n ELSE n)
  IN  IF n = 0 THEN <<>>
      ELSE IF m[Len(m)] >= 128 THEN m \o <<IF n < 0 THEN 128 ELSE 0>>
      ELSE IF n < 0 THEN [m EXCEPT ![Len(m)] = 128 + @]
      ELSE m

\* The error of MakeScriptNum, and its value where there is none.
ScriptNumErr(v, minimal, maxLen) ==
  IF Len(v) > maxLen THEN "ErrNumberTooBig"
  ELSE IF minimal /\ ~checkMinimalDataEncoding(v) THEN "ErrMinimalData"
  ELSE "none"

LittleEndian(v) ==
  Loop(LAMBDA acc, i : acc + v[i] * 256 ^ (i - 1), 0, Up(1, Len(v)))

ScriptNum(v) ==
  IF Len(v) = 0 THEN 0
  ELSE (IF v[Len(v)] >= 128 THEN -1 ELSE 1) * LittleEndian([v EXCEPT ![Len(v)] = @ % 128])

asBool(t) ==
  \E i \in DOMAIN t : t[i] # 0 /\ ~(i = Len(t) /\ t[i] = 128)

fromBool(v) == IF v THEN <<1>> ELSE <<>>

-----------------------------------------------------------------------------
(* The stack: a sequence, its top last.  Each operation returns whether it   *)
(* succeeded and the stack after it.                                         *)

Good(s) == [ok |-> TRUE, s |-> s]
Underflow == [ok |-> FALSE, s |-> <<>>]
Repeat(n, s, Op(_)) ==
  Loop(LAMBDA r, i : IF r.ok THEN Op(r.s) ELSE r, Good(s), Up(1, n))

\* Item i from the top, and the stack without it.
PeekByteArray(s, i) == s[Len(s) - i]
nipN(s, i) ==
  IF i \in 0..(Len(s) - 1)
  THEN Good(SubSeq(s, 1, Len(s) - i - 1) \o SubSeq(s, Len(s) - i + 1, Len(s)))
  ELSE Underflow

PickN(s, i) ==
  IF i \in 0..(Len(s) - 1) THEN Good(Append(s, PeekByteArray(s, i))) ELSE Underflow

RollN(s, i) ==
  IF i \in 0..(Len(s) - 1)
  THEN Good(Append(nipN(s, i).s, PeekByteArray(s, i))) ELSE Underflow

Tuck(s) ==
  IF Len(s) < 2 THEN Underflow
  ELSE LET so2 == PeekByteArray(s, 0)  so1 == PeekByteArray(s, 1)
       IN  Good(SubSeq(s, 1, Len(s) - 2) \o <<so2, so1, so2>>)

DropN(s, n) == Repeat(n, s, LAMBDA t : nipN(t, 0))
DupN(s, n) == Repeat(n, s, LAMBDA t : PickN(t, n - 1))
RotN(s, n) == Repeat(n, s, LAMBDA t : RollN(t, 3 * n - 1))
SwapN(s, n) == Repeat(n, s, LAMBDA t : RollN(t, 2 * n - 1))
OverN(s, n) == Repeat(n, s, LAMBDA t : PickN(t, 2 * n - 1))

\* What those operations are for: n items at a time, counted in groups from the top.
Group(s, n, g) == SubSeq(s, Len(s) - (g + 1) * n + 1, Len(s) - g * n)
Under(s, k) == SubSeq(s, 1, Len(s) - k)
StackEffect(name, s, n) ==
  CASE name = "dup" -> s \o Group(s, n, 0)
    [] name = "rot" ->
         Under(s, 3 * n) \o Group(s, n, 1) \o Group(s, n, 0) \o Group(s, n, 2)
    [] name = "swap" -> Under(s, 2 * n) \o Group(s, n, 0) \o Group(s, n, 1)
    [] name = "over" -> s \o Group(s, n, 1)
    [] name = "drop" -> Under(s, n)
    [] name = "tuck" ->
         Under(s, 2) \o Group(s, 1, 0) \o Group(s, 1, 1) \o Group(s, 1, 0)

-----------------------------------------------------------------------------
(* The tokenizer.  A token is its opcode, its data and the offset after it;  *)
(* bad marks a push that runs past the end of the script.                    *)

\* The bytes that follow an opcode: fixed for OP_DATA_n, else a length prefix.
PrefixLen(op) ==
  CASE op = OP_PUSHDATA1 -> 1 [] op = OP_PUSHDATA2 -> 2 [] op = OP_PUSHDATA4 -> 4
    [] OTHER -> 0

\* The token at an offset.  A four-byte length is read as a signed 32-bit integer,
\* refused when negative; the instances stay below 2^31.
TokenAt(script, off) ==
  LET op == script[off + 1]
      pre == PrefixLen(op)
      size == IF pre = 0 THEN (IF op < OP_PUSHDATA1 THEN op ELSE 0)
              ELSE LittleEndian(SubSeq(script, off + 2, off + 1 + pre))
      from == off + 1 + pre
  IN  IF from > Len(script) \/ from + size > Len(script)
      THEN [bad |-> TRUE, op |-> op, data |-> <<>>, off |-> off]
      ELSE [bad |-> FALSE, op |-> op, data |-> SubSeq(script, from + 1, from + size),
            off |-> from + size]

\* All tokens up to the first that is bad, which is the last of the sequence.
Tokens(script) ==
  Loop(LAMBDA r, i :
         IF r.off >= Len(script) \/ r.bad THEN r
         ELSE Only({[off |-> t.off, bad |-> t.bad, seq |-> Append(r.seq, t)] :
                      t \in {TokenAt(script, r.off)}}),
       [off |-> 0, bad |-> FALSE, seq |-> <<>>], Up(1, Len(script))).seq

checkScriptParses(script) == \A t \in Range(Tokens(script)) : ~t.bad
IsPushOnlyScript(script) ==
  \A t \in Range(Tokens(script)) : ~t.bad /\ t.op <= OP_16

-----------------------------------------------------------------------------
(* Popping and pushing on the data stack of an engine.                       *)

StackErr == "ErrInvalidStackOperation"
On(vm, r) == IF r.ok THEN [vm EXCEPT !.d = r.s] ELSE Fail(vm, StackErr)
Top(vm, i) == PeekByteArray(vm.d, i)
Drop(vm, n) == [vm EXCEPT !.d = Under(@, n)]
Push(vm, x) == [vm EXCEPT !.d = Append(@, x)]
PushInt(vm, n) == Push(vm, scriptNumBytes(n))
PushBool(vm, b) == Push(vm, fromBool(b))
Need(vm, n, res) == IF Len(vm.d) < n THEN Fail(vm, StackErr) ELSE res

minimal(vm) == hasFlag(vm, "MinimalData")
maxScriptNumLen == 4
IntAt(vm, i) == ScriptNum(Top(vm, i))
IntErr(vm, i) ==
  IF Len(vm.d) <= i THEN StackErr ELSE ScriptNumErr(Top(vm, i), minimal(vm), maxScriptNumLen)

\* The first error of popping n numbers, the top one first.
PopIntsErr(vm, n) ==
  LET bad == {i \in 0..(n - 1) : IntErr(vm, i) # "none"}
  IN  IF bad = {} THEN "none" ELSE IntErr(vm, Min(bad))

Unless(vm, err, res) == IF err # "none" THEN Fail(vm, err) ELSE res
Num1(vm, F(_)) == Unless(vm, PopIntsErr(vm, 1), PushInt(Drop(vm, 1), F(IntAt(vm, 0))))
\* v0 is the top of the stack, v1 the number under it.
Num2(vm, F(_, _)) ==
  Unless(vm, PopIntsErr(vm, 2), PushInt(Drop(vm, 2), F(IntAt(vm, 0), IntAt(vm, 1))))
One(b) == IF b THEN 1 ELSE 0

isBranchExecuting(vm) ==
  vm.cond # <<>> => vm.cond[Len(vm.cond)] = OpCondTrue
isWitnessVersionActive(vm, v) == vm.wp # <<>> /\ vm.wv = v

-----------------------------------------------------------------------------
(* Handlers: data pushes and control flow.                                   *)

opcodeDisabled(vm) == Fail(vm, "ErrDisabledOpcode")
opcodeReserved(vm) == Fail(vm, "ErrReservedOpcode")
opcodeInvalid(vm) == Fail(vm, "ErrReservedOpcode")
opcodeFalse(vm) == Push(vm, <<>>)
opcodePushData(vm, data) == Push(vm, data)
opcode1Negate(vm) == PushInt(vm, -1)
opcodeN(vm, op) == PushInt(vm, op - (OP_1 - 1))
opcodeNop(vm, op) ==
  IF op \in {176} \cup 179..185 /\ hasFlag(vm, "DiscourageUpgradableNops")
  THEN Fail(vm, "ErrDiscourageUpgradableNOPs") ELSE vm

\* The condition of OP_IF: [err, ok]; tapscript and, under a flag, segwit version 0
\* take only the empty string and the byte 1.
popIfBool(vm) ==
  LET strict == \/ isWitnessVersionActive(vm, 1)
                \/ isWitnessVersionActive(vm, 0) /\ hasFlag(vm, "MinimalIf")
  IN  IF Len(vm.d) = 0 THEN [err |-> StackErr, ok |-> FALSE]
      ELSE IF strict /\ Top(vm, 0) \notin {<<>>, <<1>>} THEN [err |-> "ErrMinimalIf", ok |-> FALSE]
      ELSE [err |-> "none", ok |-> asBool(Top(vm, 0))]

Branch(vm, c) == [vm EXCEPT !.cond = Append(@, c)]
Conditional(vm, want) ==
  IF ~isBranchExecuting(vm) THEN Branch(vm, OpCondSkip)
  ELSE IF popIfBool(vm).err # "none" THEN Fail(vm, popIfBool(vm).err)
  ELSE Branch(Drop(vm, 1), IF popIfBool(vm).ok = want THEN OpCondTrue ELSE OpCondFalse)
opcodeIf(vm) == Conditional(vm, TRUE)
opcodeNotIf(vm) == Conditional(vm, FALSE)

opcodeElse(vm) ==
  IF vm.cond = <<>> THEN Fail(vm, "ErrUnbalancedConditional")
  ELSE [vm EXCEPT !.cond[Len(vm.cond)] =
          CASE @ = OpCondTrue -> OpCondFalse [] @ = OpCondFalse -> OpCondTrue
            [] OTHER -> @]

opcodeEndif(vm) ==
  IF vm.cond = <<>> THEN Fail(vm, "ErrUnbalancedConditional")
  ELSE [vm EXCEPT !.cond = Front(@)]

abstractVerify(vm, c) ==
  Need(vm, 1, IF asBool(Top(vm, 0)) THEN Drop(vm, 1) ELSE Fail(vm, c))
AndVerify(vm, c) == IF vm.err = "none" THEN abstractVerify(vm, c) ELSE vm
opcodeVerify(vm) == abstractVerify(vm, "ErrVerify")
opcodeReturn(vm) == Fail(vm, "ErrEarlyReturn")

\* Both sides are heights or both are times, and the transaction's is not lower.
verifyLockTime(vm, txLockTime, threshold, lockTime) ==
  IF (txLockTime < threshold) = (lockTime < threshold) /\ lockTime <= txLockTime
  THEN vm ELSE Fail(vm, "ErrUnsatisfiedLockTime")

\* What the two lock-time opcodes do first: [err, skip], skip for a plain NOP.
cltvMaxScriptNumLen == 5
LockArg(vm, flag) ==
  IF ~hasFlag(vm, flag)
  THEN [err |-> IF hasFlag(vm, "DiscourageUpgradableNops")
                THEN "ErrDiscourageUpgradableNOPs" ELSE "none", skip |-> TRUE]
  ELSE IF Len(vm.d) = 0 THEN [err |-> StackErr, skip |-> FALSE]
  ELSE IF ScriptNumErr(Top(vm, 0), minimal(vm), cltvMaxScriptNumLen) # "none"
  THEN [err |-> ScriptNumErr(Top(vm, 0), minimal(vm), cltvMaxScriptNumLen), skip |-> FALSE]
  ELSE [err |-> IF IntAt(vm, 0) < 0 THEN "ErrNegativeLockTime" ELSE "none", skip |-> FALSE]

opcodeCheckLockTimeVerify(vm) ==
  LET arg == LockArg(vm, "CheckLockTimeVerify")
      checked == verifyLockTime(vm, vm.lock, LockTimeThreshold, IntAt(vm, 0))
  IN  IF arg.err # "none" THEN Fail(vm, arg.err)
      ELSE IF arg.skip THEN vm
      ELSE IF checked.err # "none" THEN checked
      ELSE IF vm.sequence = MaxTxInSequenceNum THEN Fail(vm, "ErrUnsatisfiedLockTime")
      ELSE vm

opcodeCheckSequenceVerify(vm) ==
  LET arg == LockArg(vm, "CheckSequenceVerify")
      Masked(n) == (n % (SequenceMask + 1))
                     + (IF HasBit(n, SequenceIsSeconds) THEN SequenceIsSeconds ELSE 0)
  IN  IF arg.err # "none" THEN Fail(vm, arg.err)
      ELSE IF arg.skip \/ HasBit(IntAt(vm, 0), SequenceDisabled) THEN vm
      ELSE IF vm.version < 2 \/ HasBit(vm.sequence, SequenceDisabled)
      THEN Fail(vm, "ErrUnsatisfiedLockTime")
      ELSE verifyLockTime(vm, Masked(vm.sequence), SequenceIsSeconds, Masked(IntAt(vm, 0)))

-----------------------------------------------------------------------------
(* Handlers: the stacks.                                                     *)

opcodeToAltStack(vm) == Need(vm, 1, [Drop(vm, 1) EXCEPT !.a = Append(@, Top(vm, 0))])
opcodeFromAltStack(vm) ==
  IF vm.a = <<>> THEN Fail(vm, StackErr)
  ELSE [Push(vm, vm.a[Len(vm.a)]) EXCEPT !.a = Front(@)]
opcode2Drop(vm) == On(vm, DropN(vm.d, 2))
opcode2Dup(vm) == On(vm, DupN(vm.d, 2))
opcode3Dup(vm) == On(vm, DupN(vm.d, 3))
opcode2Over(vm) == On(vm, OverN(vm.d, 2))
opcode2Rot(vm) == On(vm, RotN(vm.d, 2))
opcode2Swap(vm) == On(vm, SwapN(vm.d, 2))
opcodeIfDup(vm) == Need(vm, 1, IF asBool(Top(vm, 0)) THEN Push(vm, Top(vm, 0)) ELSE vm)
opcodeDepth(vm) == PushInt(vm, Len(vm.d))
opcodeDrop(vm) == On(vm, DropN(vm.d, 1))
opcodeDup(vm) == On(vm, DupN(vm.d, 1))
opcodeNip(vm) == On(vm, nipN(vm.d, 1))
opcodeOver(vm) == On(vm, OverN(vm.d, 1))
opcodePick(vm) == Unless(vm, IntErr(vm, 0), On(vm, PickN(Drop(vm, 1).d, IntAt(vm, 0))))
opcodeRoll(vm) == Unless(vm, IntErr(vm, 0), On(vm, RollN(Drop(vm, 1).d, IntAt(vm, 0))))
opcodeRot(vm) == On(vm, RotN(vm.d, 1))
opcodeSwap(vm) == On(vm, SwapN(vm.d, 1))
opcodeTuck(vm) == On(vm, Tuck(vm.d))
opcodeSize(vm) == Need(vm, 1, PushInt(vm, Len(Top(vm, 0))))
opcodeEqual(vm) == Need(vm, 2, PushBool(Drop(vm, 2), Top(vm, 0) = Top(vm, 1)))
opcodeEqualVerify(vm) == AndVerify(opcodeEqual(vm), "ErrEqualVerify")

-----------------------------------------------------------------------------
(* Handlers: numbers.                                                        *)

opcode1Add(vm) == Num1(vm, LAMBDA m : m + 1)
opcode1Sub(vm) == Num1(vm, LAMBDA m : m - 1)
opcodeNegate(vm) == Num1(vm, LAMBDA m : -m)
opcodeAbs(vm) == Num1(vm, LAMBDA m : IF m < 0 THEN -m ELSE m)
opcodeNot(vm) == Num1(vm, LAMBDA m : One(m = 0))
opcode0NotEqual(vm) == Num1(vm, LAMBDA m : One(m # 0))
opcodeAdd(vm) == Num2(vm, LAMBDA v0, v1 : v0 + v1)
opcodeSub(vm) == Num2(vm, LAMBDA v0, v1 : v1 - v0)
opcodeBoolAnd(vm) == Num2(vm, LAMBDA v0, v1 : One(v0 # 0 /\ v1 # 0))
opcodeBoolOr(vm) == Num2(vm, LAMBDA v0, v1 : One(v0 # 0 \/ v1 # 0))
opcodeNumEqual(vm) == Num2(vm, LAMBDA v0, v1 : One(v0 = v1))
opcodeNumEqualVerify(vm) == AndVerify(opcodeNumEqual(vm), "ErrNumEqualVerify")
opcodeNumNotEqual(vm) == Num2(vm, LAMBDA v0, v1 : One(v0 # v1))
opcodeLessThan(vm) == Num2(vm, LAMBDA v0, v1 : One(v1 < v0))
opcodeGreaterThan(vm) == Num2(vm, LAMBDA v0, v1 : One(v1 > v0))
opcodeLessThanOrEqual(vm) == Num2(vm, LAMBDA v0, v1 : One(v1 <= v0))
opcodeGreaterThanOrEqual(vm) == Num2(vm, LAMBDA v0, v1 : One(v1 >= v0))
opcodeMin(vm) == Num2(vm, LAMBDA v0, v1 : IF v1 < v0 THEN v1 ELSE v0)
opcodeMax(vm) == Num2(vm, LAMBDA v0, v1 : IF v1 > v0 THEN v1 ELSE v0)
opcodeWithin(vm) ==
  Unless(vm, PopIntsErr(vm, 3),
         PushInt(Drop(vm, 3), One(IntAt(vm, 2) \in IntAt(vm, 1)..(IntAt(vm, 0) - 1))))

-----------------------------------------------------------------------------
(* Handlers: hashes.                                                         *)

\* External: a hash function, as a checksum of the kind and the data, padded to the
\* length the function has.
Checksum(x) == Loop(LAMBDA acc, b : (acc * 31 + b + 1) % 65521, 7, x)
Pad(x, n) == x \o [i \in 1..(n - Len(x)) |-> 0]
Hash(kind, x, n) ==
  Only({Pad(<<1 + (c % 250), c \div 250, Len(x) % 256>>, n) : c \in {Checksum(<<kind>> \o x)}})
hash160(x) == Hash(3, x, 20)
sha256(x) == Hash(2, x, 32)

HashTop(vm, kind, n) == Need(vm, 1, Push(Drop(vm, 1), Hash(kind, Top(vm, 0), n)))
opcodeRipemd160(vm) == HashTop(vm, 0, 20)
opcodeSha1(vm) == HashTop(vm, 1, 20)
opcodeSha256(vm) == HashTop(vm, 2, 32)
opcodeHash160(vm) == HashTop(vm, 3, 20)
opcodeHash256(vm) == HashTop(vm, 4, 32)

-----------------------------------------------------------------------------
(***************************************************************************)
(* Signatures in scripts (package txscript: opcode.go, engine.go,          *)
(* sigvalidate.go, script.go; btcec/ecdsa/signature.go): encodings, what a *)
(* signature is over, and the opcodes that check signatures.               *)
(***************************************************************************)

CONSTANT Amount            \* the amount of the output that is spent

SigHashAll == 1
SigHashSingle == 3
SigHashOBTC == 64
SigHashAnyOneCanPay == 128
sigOpsDelta == 50

-----------------------------------------------------------------------------
(* The script code a signature is over.                                      *)

isCanonicalPush(op, data) ==
  /\ ~(op < OP_PUSHDATA1 /\ op > OP_0 /\ Len(data) = 1 /\ data[1] <= 16)
  /\ ~(op = OP_PUSHDATA1 /\ Len(data) < OP_PUSHDATA1)
  /\ ~(op = OP_PUSHDATA2 /\ Len(data) <= 255)
  /\ ~(op = OP_PUSHDATA4 /\ Len(data) <= 65535)

\* The bytes of the tokens that stay; the script itself when none goes.
Without(script, Goes(_)) ==
  LET Stays(r, t) ==
        IF t.bad \/ Goes(t) THEN [r EXCEPT !.off = t.off, !.gone = @ \/ ~t.bad]
        ELSE [r EXCEPT !.off = t.off, !.kept = @ \o SubSeq(script, r.off + 1, t.off)]
      Result(r) == IF r.gone THEN r.kept ELSE script
  IN  Result(Loop(Stays, [off |-> 0, gone |-> FALSE, kept |-> <<>>], Tokens(script)))

removeOpcodeRaw(script, opcode) == Without(script, LAMBDA t : t.op = opcode)
ToRemove(t, data) == isCanonicalPush(t.op, t.data) /\ t.data = data
removeOpcodeByData(script, data) ==
  IF data = <<>> THEN script ELSE Without(script, LAMBDA t : ToRemove(t, data))
Holds(script, data) ==
  data # <<>> /\ \E t \in Range(Tokens(script)) : ~t.bad /\ ToRemove(t, data)

subScript(vm) == SubSeq(vm.scripts[vm.idx + 1], vm.sep + 1, Len(vm.scripts[vm.idx + 1]))

-----------------------------------------------------------------------------
(* Hash types and digests.  The digests are those of one transaction, whose  *)
(* parts SigHash models; here they tell the script code, the hash type and   *)
(* the domain apart.                                                         *)

isOBTCReplayProtectedSigHashType(ht) ==
  HasBit(ht, SigHashOBTC) /\ ~HasBit(ht, 32) /\ ht % 32 \in SigHashAll..SigHashSingle
replay(vm) == hasFlag(vm, "OBTCReplayProtection")
shouldUseOBTCReplayProtectionDomain(ht, active) ==
  active /\ isOBTCReplayProtectedSigHashType(ht)

Digest(x) == 1 + (Checksum(x) % 63)
calcSignatureHash(script, ht, active) ==
  Digest(<<0, One(shouldUseOBTCReplayProtectionDomain(ht, active)), ht>>
           \o removeOpcodeRaw(script, OP_CODESEPARATOR))
calcWitnessSignatureHash(script, ht, active) ==
  Digest(<<1, One(shouldUseOBTCReplayProtectionDomain(ht, active)), ht, Amount>> \o script)

isValidTaprootSigHash(ht) == ht = 0 \/ ht % 128 \in SigHashAll..SigHashSingle

\* [ok, hash]: the hash type of a replay-protected signature is valid only where
\* replay protection is allowed, and then has a tag of its own.
calcTaprootSignatureHash(ht, active, annex, ext) ==
  LET obtc == isOBTCReplayProtectedSigHashType(ht)
      plain == IF obtc THEN ht - SigHashOBTC ELSE ht
  IN  [ok |-> (obtc => active) /\ isValidTaprootSigHash(plain),
       hash |-> Digest(<<2, One(obtc), ht, Len(annex)>> \o annex \o ext)]

checkHashTypeEncoding(vm, ht) ==
  IF replay(vm)
  THEN IF isOBTCReplayProtectedSigHashType(ht) THEN "none" ELSE "ErrInvalidSigHashType"
  ELSE IF hasFlag(vm, "StrictEncoding") /\ ht % 128 \notin SigHashAll..SigHashSingle
  THEN "ErrInvalidSigHashType" ELSE "none"

-----------------------------------------------------------------------------
(* Public keys and signatures.                                               *)

IsCompressedPubKey(pk) == Len(pk) = 33 /\ pk[1] \in {2, 3}
isStrictPubKeyEncoding(pk) == IsCompressedPubKey(pk) \/ (Len(pk) = 65 /\ pk[1] \in {4, 6, 7})
checkPubKeyEncoding(vm, pk) ==
  IF /\ hasFlag(vm, "WitnessPubKeyType")
     /\ isWitnessVersionActive(vm, 0)
     /\ ~IsCompressedPubKey(pk)
  THEN "ErrWitnessPubKeyType"
  ELSE IF /\ hasFlag(vm, "StrictEncoding")
          /\ ~IsCompressedPubKey(pk) /\ ~(Len(pk) = 65 /\ pk[1] = 4)
  THEN "ErrPubKeyType" ELSE "none"

\* External: the point is on the curve unless the identity is zero.
ParsePubKey(pk) == isStrictPubKeyEncoding(pk) /\ pk[2] # 0

\* An integer's bytes without their leading zeros; half the group order is 63.
Stripped(b) ==
  LET nz == {i \in DOMAIN b : b[i] # 0}
  IN  IF nz = {} THEN <<>> ELSE SubSeq(b, Min(nz), Len(b))
AboveHalfOrder(b) == Len(Stripped(b)) > 1 \/ (Len(Stripped(b)) = 1 /\ Stripped(b)[1] > 63)

minSigLen == 8
maxSigLen == 72
\* The rules on R or S at an offset (from zero) with a length: its error, or "none".
IntegerErr(sig, off, size) ==
  CASE size = 0 -> "ErrSigZeroLen"
    [] size > 0 /\ sig[off + 1] >= 128 -> "ErrSigNegative"
    [] size > 1 /\ sig[off + 1] = 0 /\ sig[off + 2] < 128 -> "ErrSigTooMuchPadding"
    [] OTHER -> "none"

\* A signature without its hash type: 0x30 length 0x02 rLen R 0x02 sLen S.
checkSignatureEncoding(vm, sig) ==
  LET n == Len(sig)
      rLen == sig[4]
      sType == 4 + rLen
      sLen == sig[sType + 2]
      sOffset == sType + 2
  IN  IF {"DERSignatures", "LowS", "StrictEncoding"} \cap vm.flags = {} THEN "none"
      ELSE IF n < minSigLen THEN "ErrSigTooShort"
      ELSE IF n > maxSigLen THEN "ErrSigTooLong"
      ELSE IF sig[1] # 48 THEN "ErrSigInvalidSeqID"
      ELSE IF sig[2] # n - 2 THEN "ErrSigInvalidDataLen"
      ELSE IF sType >= n THEN "ErrSigMissingSTypeID"
      ELSE IF sType + 1 >= n THEN "ErrSigMissingSLen"
      ELSE IF sOffset + sLen # n THEN "ErrSigInvalidSLen"
      ELSE IF sig[3] # 2 THEN "ErrSigInvalidRIntID"
      ELSE IF IntegerErr(sig, 4, rLen) # "none" THEN IntegerErr(sig, 4, rLen)
      ELSE IF sig[sType + 1] # 2 THEN "ErrSigInvalidSIntID"
      ELSE IF IntegerErr(sig, sOffset, sLen) # "none"
      THEN IntegerErr(sig, sOffset, sLen)
      ELSE IF hasFlag(vm, "LowS") /\ AboveHalfOrder(SubSeq(sig, sOffset + 1, n))
      THEN "ErrSigHighS" ELSE "none"

\* ParseSignature (der FALSE) and ParseDERSignature: [ok, r, s].  The first takes
\* padded and negative integers and drops bytes after the announced length, which it
\* computes in one byte.
canonicalPadding(b) == IntegerErr(b, 0, Len(b)) = "none"
NotParsed == [ok |-> FALSE, r |-> <<>>, s |-> <<>>]
Scalars(r, s, der) ==
  LET Scalar(b) == /\ der => canonicalPadding(b)
                   /\ Len(Stripped(b)) \in 1..32
  IN  IF Scalar(r) /\ Scalar(s) THEN [ok |-> TRUE, r |-> Stripped(r), s |-> Stripped(s)]
      ELSE NotParsed
ParseIntegers(sig, rLen, sLen, der) ==
  IF /\ sig[rLen + 5] = 2 /\ sLen > 0 /\ rLen + 6 + sLen = Len(sig)
  THEN Scalars(SubSeq(sig, 5, 4 + rLen), SubSeq(sig, rLen + 7, Len(sig)), der)
  ELSE NotParsed
ParseBody(sig, der) ==
  IF sig[3] = 2 /\ sig[4] > 0 /\ sig[4] <= Len(sig) - 7
  THEN ParseIntegers(sig, sig[4], sig[sig[4] + 6], der) ELSE NotParsed
parseSig(full, der) ==
  LET size == (full[2] + 2) % 256
  IN  IF /\ Len(full) >= minSigLen /\ (der => Len(full) <= maxSigLen)
         /\ full[1] = 48
         /\ size <= Len(full) /\ size >= minSigLen
      THEN ParseBody(SubSeq(full, 1, size), der) ELSE NotParsed

\* External: R is the signer's identity, S the digest or its negation.
Verify(parsed, hash, pk) == parsed.r = <<pk[2]>> /\ parsed.s \in {<<hash>>, <<hash + 64>>}

strictSigs(vm) == {"StrictEncoding", "DERSignatures"} \cap vm.flags # {}
SigHashFor(vm, script, ht) ==
  IF isWitnessVersionActive(vm, 0) THEN calcWitnessSignatureHash(script, ht, replay(vm))
  ELSE calcSignatureHash(script, ht, replay(vm))

\* The first script error among a set of checks made in order.
FirstErr(errs) ==
  LET bad == {i \in DOMAIN errs : errs[i] # "none"}
  IN  IF bad = {} THEN "none" ELSE errs[Min(bad)]

parseBaseSigAndPubkey(vm, pk, sig) ==
  FirstErr(<<checkHashTypeEncoding(vm, sig[Len(sig)]),
             checkSignatureEncoding(vm, Front(sig)),
             checkPubKeyEncoding(vm, pk)>>)

\* A key or signature that does not parse makes the check false, no script error.
BaseCheckSig(vm, pk, sig) ==
  LET v0 == isWitnessVersionActive(vm, 0)
      code == IF v0 THEN subScript(vm) ELSE removeOpcodeByData(subScript(vm), sig)
      Verified(valid) == IF ~valid /\ hasFlag(vm, "NullFail") THEN Fail(vm, "ErrNullFail")
                         ELSE PushBool(vm, valid)
      Checked(parsed) ==
        IF ~ParsePubKey(pk) \/ ~parsed.ok THEN PushBool(vm, FALSE)
        ELSE IF hasFlag(vm, "ConstScriptCode") /\ ~v0 /\ Holds(subScript(vm), sig)
        THEN Fail(vm, "ErrNonConstScriptCode")
        ELSE Verified(Verify(parsed, SigHashFor(vm, code, sig[Len(sig)]), pk))
  IN  Unless(vm, parseBaseSigAndPubkey(vm, pk, sig),
             Checked(parseSig(Front(sig), strictSigs(vm))))

-----------------------------------------------------------------------------
(* Tapscript.                                                                *)

SignatureSize == 64
TapHashType(sig) == IF Len(sig) = SignatureSize THEN 0 ELSE sig[SignatureSize + 1]

\* parseTaprootSigAndPubKey, over what annex and extension the signature is.
parseTaprootSig(pk, sig) ==
  IF pk[1] = 0 THEN "ErrPubKey"
  ELSE IF \/ Len(sig) = SignatureSize
          \/ Len(sig) = SignatureSize + 1 /\ sig[SignatureSize + 1] # 0
  THEN "none" ELSE "ErrInvalidTaprootSigLen"
TapVerify(vm, pk, sig, ext) ==
  LET h == calcTaprootSignatureHash(TapHashType(sig), replay(vm), vm.tap.annex, ext)
  IN  h.ok /\ sig[1] = pk[1] /\ sig[2] = h.hash

TapErr(vm, pk, sig) ==
  IF Len(pk) = 32
  THEN FirstErr(<<parseTaprootSig(pk, sig),
                  IF replay(vm) /\ ~isOBTCReplayProtectedSigHashType(TapHashType(sig))
                  THEN "ErrInvalidSigHashType" ELSE "none">>)
  ELSE IF hasFlag(vm, "DiscourageUpgradeablePubkeyType")
  THEN "ErrDiscourageUpgradeablePubKeyType" ELSE "none"
TapValid(vm, pk, sig) ==
  Len(pk) = 32 => TapVerify(vm, pk, sig, vm.tap.leaf \o <<vm.tap.sep>>)

\* tallysigOp for a signature that is not empty.
tallysigOp(vm, sig) ==
  IF sig = <<>> THEN vm
  ELSE IF vm.tap.budget < sigOpsDelta THEN Fail(vm, "ErrTaprootMaxSigOps")
  ELSE [vm EXCEPT !.tap.budget = @ - sigOpsDelta]

\* The end of CHECKSIG and CHECKSIGADD: Empty without a signature, Valid with a good one.
TapCheckSig(vm, pk, sig, Empty(_), Valid(_)) ==
  LET t == tallysigOp(vm, sig)
  IN  IF t.err # "none" THEN t
      ELSE IF pk = <<>> THEN Fail(t, "ErrTaprootPubkeyIsEmpty")
      ELSE IF sig = <<>> THEN Empty(t)
      ELSE IF TapErr(t, pk, sig) # "none" THEN Fail(t, TapErr(t, pk, sig))
      ELSE IF TapValid(t, pk, sig) THEN Valid(t) ELSE Fail(t, "ErrNullFail")

-----------------------------------------------------------------------------
(* The opcodes.                                                              *)

opcodeCodeSeparator(vm) ==
  IF vm.tap.on THEN [vm EXCEPT !.sep = vm.off, !.tap.sep = vm.opos]
  ELSE IF vm.wp = <<>> /\ hasFlag(vm, "ConstScriptCode")
  THEN Fail([vm EXCEPT !.sep = vm.off], "ErrCodeSeparator")
  ELSE [vm EXCEPT !.sep = vm.off]

opcodeCheckSig(vm) ==
  LET pk == Top(vm, 0)  sig == Top(vm, 1)  v == Drop(vm, 2)
  IN  Need(vm, 2,
        IF ~vm.tap.on
        THEN IF sig = <<>> THEN PushBool(v, FALSE) ELSE BaseCheckSig(v, pk, sig)
        ELSE TapCheckSig(v, pk, sig, LAMBDA t : PushBool(t, FALSE),
                         LAMBDA t : PushBool(t, TRUE)))
opcodeCheckSigVerify(vm) == AndVerify(opcodeCheckSig(vm), "ErrCheckSigVerify")

opcodeCheckSigAdd(vm) ==
  LET pk == Top(vm, 0)  acc == IntAt(vm, 1)  sig == Top(vm, 2)  v == Drop(vm, 3)
  IN  IF ~vm.tap.on THEN Fail(vm, "ErrReservedOpcode")
      ELSE IF Len(vm.d) = 0 THEN Fail(vm, StackErr)
      ELSE IF IntErr(vm, 1) # "none" THEN Fail(vm, IntErr(vm, 1))
      ELSE Need(vm, 3, TapCheckSig(v, pk, sig, LAMBDA t : PushInt(t, acc),
                                   LAMBDA t : PushInt(t, acc + 1)))

\* One turn of the loop over the keys: m signatures and n keys are left, sigs[s] is to
\* be matched with the key after keys[k].
\* Seeded fault: a signature that matched is tried again with the next key.
MatchStep_again(vm, keys, sigs, code, r) ==
  IF r.m = 0 \/ r.failed \/ r.err # "none" THEN r
  ELSE LET t == [r EXCEPT !.k = @ + 1, !.n = @ - 1]
           sig == sigs[r.s]
       IN  IF t.m > t.n THEN [t EXCEPT !.failed = TRUE]
           ELSE IF /\ sig # <<>>
                   /\ Verify(parseSig(Front(sig), strictSigs(vm)),
                             SigHashFor(vm, code, sig[Len(sig)]), keys[t.k])
           THEN [t EXCEPT !.m = @ - 1] ELSE t

MatchStep(vm, keys, sigs, code, r) ==
  IF r.m = 0 \/ r.failed \/ r.err # "none" THEN r
  ELSE LET t == [r EXCEPT !.k = @ + 1, !.n = @ - 1]
           sig == sigs[r.s]
           ht == sig[Len(sig)]
           Tried(parsed) ==
             IF ~parsed.ok THEN t
             ELSE IF checkPubKeyEncoding(vm, keys[t.k]) # "none"
             THEN [t EXCEPT !.err = checkPubKeyEncoding(vm, keys[t.k])]
             ELSE IF /\ ParsePubKey(keys[t.k])
                     /\ Verify(parsed, SigHashFor(vm, code, ht), keys[t.k])
             THEN [t EXCEPT !.s = @ + 1, !.m = @ - 1] ELSE t
       IN  IF t.m > t.n THEN [t EXCEPT !.failed = TRUE]
           ELSE IF sig = <<>> THEN t
           ELSE Unless(t, FirstErr(<<checkHashTypeEncoding(vm, ht),
                                     checkSignatureEncoding(vm, Front(sig))>>),
                       Tried(parseSig(Front(sig), strictSigs(vm))))

\* Once the counts are known to be right: keys and signatures in the order popped.
MultiSigMatch(vm, keys, sigs, rest) ==
  LET v0 == isWitnessVersionActive(vm, 0)
      code == IF v0 THEN subScript(vm)
              ELSE Loop(removeOpcodeByData, subScript(vm), sigs)
      start == [m |-> Len(sigs), n |-> Len(keys) + 1, k |-> 0, s |-> 1,
                failed |-> FALSE, err |-> "none"]
      Finish(r) ==
        IF r.err # "none" THEN Fail(rest, r.err)
        ELSE IF r.failed /\ hasFlag(vm, "NullFail") /\ \E i \in DOMAIN sigs : sigs[i] # <<>>
        THEN Fail(rest, "ErrNullFail")
        ELSE PushBool(rest, ~r.failed)
  IN  IF /\ ~v0 /\ hasFlag(vm, "ConstScriptCode")
         /\ \E i \in DOMAIN sigs : Holds(subScript(vm), sigs[i])
      THEN Fail(rest, "ErrNonConstScriptCode")
      ELSE Finish(Only({Loop(LAMBDA r, i : MatchStep(vm, keys, sigs, c, r), start,
                             Up(1, Len(keys) + 1)) : c \in {code}}))

\* The stack, from the top: the number of keys, the keys, the number of signatures,
\* the signatures and one more item.
MultiSigSigs(v, nKeys, nSigs) ==
  LET keys == [i \in 1..nKeys |-> Top(v, i)]
      sigs == [i \in 1..nSigs |-> Top(v, nKeys + 1 + i)]
      popped == nKeys + nSigs + 3
  IN  IF nSigs \notin 0..nKeys THEN Fail(v, "ErrInvalidSignatureCount")
      ELSE IF Len(v.d) < popped THEN Fail(v, StackErr)
      ELSE IF hasFlag(v, "StrictMultiSig") /\ Top(v, popped - 1) # <<>>
      THEN Fail(v, "ErrSigNullDummy")
      ELSE MultiSigMatch(v, keys, sigs, Drop(v, popped))
MultiSigKeys(v, nKeys) ==
  IF nKeys \notin 0..MaxPubKeysPerMultiSig THEN Fail(v, "ErrInvalidPubKeyCount")
  ELSE IF v.ops + nKeys > MaxOpsPerScript
  THEN Fail([v EXCEPT !.ops = @ + nKeys], "ErrTooManyOperations")
  ELSE Unless([v EXCEPT !.ops = @ + nKeys], IntErr(v, nKeys + 1),
              MultiSigSigs([v EXCEPT !.ops = @ + nKeys], nKeys, IntAt(v, nKeys + 1)))
opcodeCheckMultiSig(vm) ==
  IF vm.tap.on THEN Fail(vm, "ErrTapscriptCheckMultisig")
  ELSE Unless(vm, IntErr(vm, 0), MultiSigKeys(vm, IntAt(vm, 0)))
opcodeCheckMultiSigVerify(vm) == AndVerify(opcodeCheckMultiSig(vm), "ErrCheckMultiSigVerify")

-----------------------------------------------------------------------------
(***************************************************************************)
(* Building and recognising scripts (package txscript: scriptbuilder.go,   *)
(* standard.go, pkscript.go, script.go).  An address is a record of its    *)
(* kind and its bytes.                                                     *)
(***************************************************************************)

CONSTANTS MaxScriptSize, MaxDataCarrierSize

IsSmallInt(op) == op = OP_0 \/ op \in OP_1..OP_16
AsSmallInt(op) == IF op = OP_0 THEN 0 ELSE op - (OP_1 - 1)

-----------------------------------------------------------------------------
(* The builder: [script, err], err once a call has failed.                   *)

NewScriptBuilder == [script |-> <<>>, err |-> FALSE]
canonicalDataSize(data) ==
  LET n == Len(data)
  IN  IF n = 0 \/ (n = 1 /\ (data[1] <= 16 \/ data[1] = 129)) THEN 1
      ELSE n + (IF n < OP_PUSHDATA1 THEN 1 ELSE IF n <= 255 THEN 2
                ELSE IF n <= 65535 THEN 3 ELSE 5)

PushPrefix(n) ==
  IF n < OP_PUSHDATA1 THEN <<n>>
  ELSE IF n <= 255 THEN <<OP_PUSHDATA1, n>>
  ELSE IF n <= 65535 THEN <<OP_PUSHDATA2, n % 256, n \div 256>>
  ELSE <<OP_PUSHDATA4>> \o [i \in 1..4 |-> (n \div (256 ^ (i - 1))) % 256]
addData(data) ==
  LET n == Len(data)
  IN  IF n = 0 \/ data = <<0>> THEN <<OP_0>>
      ELSE IF n = 1 /\ data[1] <= 16 THEN <<OP_1 - 1 + data[1]>>
      ELSE IF data = <<129>> THEN <<OP_1NEGATE>>
      ELSE PushPrefix(n) \o data

\* A call that adds bytes, unless an earlier one failed or the script gets too long.
Adding(b, size, bytes) ==
  IF b.err THEN b
  ELSE IF Len(b.script) + size > MaxScriptSize THEN [b EXCEPT !.err = TRUE]
  ELSE [b EXCEPT !.script = @ \o bytes]
AddOp(b, op) == Adding(b, 1, <<op>>)
AddOps(b, ops) == Adding(b, Len(ops), ops)
AddFullData(b, data) == IF b.err THEN b ELSE [b EXCEPT !.script = @ \o addData(data)]
AddData(b, data) ==
  IF ~b.err /\ Len(data) > MaxScriptElementSize THEN [b EXCEPT !.err = TRUE]
  ELSE Adding(b, canonicalDataSize(data), addData(data))
AddInt64(b, n) ==
  IF n = 0 THEN AddOp(b, OP_0)
  ELSE IF n = -1 \/ n \in 1..16 THEN AddOp(b, OP_1 - 1 + n)
  ELSE IF Len(b.script) + 1 > MaxScriptSize THEN [b EXCEPT !.err = TRUE]
  ELSE AddData(b, scriptNumBytes(n))

\* The script of a sequence of calls that do not fail.
Built(parts) == Loop(LAMBDA acc, p : acc \o p, <<>>, parts)

-----------------------------------------------------------------------------
(* Forms.                                                                    *)

\* The bytes from..to of a script of length n in which the given positions (from one)
\* hold the given bytes; <<>> for any other script.
Form(script, n, fixed, from, to) ==
  IF Len(script) = n /\ \A p \in fixed : script[p[1]] = p[2]
  THEN SubSeq(script, from, to) ELSE <<>>

extractCompressedPubKey(script) ==
  LET key == Form(script, 35, {<<1, 33>>, <<35, OP_CHECKSIG>>}, 2, 34)
  IN  IF key # <<>> /\ key[1] \in {2, 3} THEN key ELSE <<>>
extractUncompressedPubKey(script) ==
  LET key == Form(script, 67, {<<1, 65>>, <<67, OP_CHECKSIG>>}, 2, 66)
  IN  IF key # <<>> /\ key[1] \in {4, 6, 7} THEN key ELSE <<>>
extractPubKey(script) ==
  IF extractCompressedPubKey(script) # <<>> THEN extractCompressedPubKey(script)
  ELSE extractUncompressedPubKey(script)
extractPubKeyHash(script) ==
  Form(script, 25, {<<1, OP_DUP>>, <<2, OP_HASH160>>, <<3, 20>>, <<24, OP_EQUALVERIFY>>,
                    <<25, OP_CHECKSIG>>}, 4, 23)
extractScriptHash(script) ==
  Form(script, 23, {<<1, OP_HASH160>>, <<2, 20>>, <<23, OP_EQUAL>>}, 3, 22)
extractWitnessPubKeyHash(script) == Form(script, 22, {<<1, OP_0>>, <<2, 20>>}, 3, 22)
extractWitnessV0ScriptHash(script) == Form(script, 34, {<<1, OP_0>>, <<2, 32>>}, 3, 34)
extractWitnessV1KeyBytes(script) == Form(script, 34, {<<1, OP_1>>, <<2, 32>>}, 3, 34)

isScriptHashScript(script) == extractScriptHash(script) # <<>>

\* Required signatures, the number of keys and the well-formed keys among them.  The
\* loop over the keys stops at the first small integer, which must be their number and
\* be followed by the final opcode alone.
NoMultisig == [valid |-> FALSE, req |-> 0, num |-> 0, keys |-> <<>>]
MultisigOf(script, toks) ==
  LET smalls == {i \in 2..Len(toks) : IsSmallInt(toks[i].op)}
      at == Min(smalls)
  IN  IF \/ toks[1].bad \/ ~IsSmallInt(toks[1].op) \/ smalls = {}
         \/ AsSmallInt(toks[at].op) # at - 2
         \/ Len(script) - toks[at].off # 1
      THEN NoMultisig
      ELSE [valid |-> TRUE, req |-> AsSmallInt(toks[1].op), num |-> at - 2,
            keys |-> SelectSeq([i \in 1..(at - 2) |-> toks[i + 1].data],
                               isStrictPubKeyEncoding)]
extractMultisigScriptDetails(script) ==
  IF Len(script) < 3 \/ script[Len(script)] # OP_CHECKMULTISIG THEN NoMultisig
  ELSE MultisigOf(script, Tokens(script))

\* [valid, version, program].
extractWitnessProgramInfo(script) ==
  LET Of(toks) ==
        IF /\ Len(script) \in 4..42 /\ Len(toks) = 2
           /\ \A i \in 1..2 : ~toks[i].bad
           /\ IsSmallInt(toks[1].op)
           /\ isCanonicalPush(toks[2].op, toks[2].data)
        THEN [valid |-> TRUE, version |-> AsSmallInt(toks[1].op), program |-> toks[2].data]
        ELSE [valid |-> FALSE, version |-> 0, program |-> <<>>]
  IN  Of(Tokens(script))
IsWitnessProgram(script) == extractWitnessProgramInfo(script).valid

isNullDataScript(script) ==
  /\ Len(script) >= 1 /\ script[1] = OP_RETURN
  /\ Len(script) > 1 =>
       \E toks \in {Tokens(Tail(script))} :
         /\ Len(toks) = 1 /\ ~toks[1].bad
         /\ IsSmallInt(toks[1].op) \/ toks[1].op <= OP_PUSHDATA4
         /\ Len(toks[1].data) <= MaxDataCarrierSize

typeOfScript(script) ==
  CASE extractPubKey(script) # <<>> -> "pubkey"
    [] extractPubKeyHash(script) # <<>> -> "pubkeyhash"
    [] extractScriptHash(script) # <<>> -> "scripthash"
    [] extractWitnessPubKeyHash(script) # <<>> -> "witness_v0_keyhash"
    [] extractWitnessV0ScriptHash(script) # <<>> -> "witness_v0_scripthash"
    [] extractMultisigScriptDetails(script).valid -> "multisig"
    [] isNullDataScript(script) -> "nulldata"
    [] OTHER -> "nonstandard"
\* Version 0 first, then version 1, which has one form.
GetScriptClass(script) ==
  LET OrTaproot(class) ==
        IF class = "nonstandard" /\ extractWitnessV1KeyBytes(script) # <<>>
        THEN "witness_v1_taproot" ELSE class
  IN  OrTaproot(typeOfScript(script))

-----------------------------------------------------------------------------
(* Scripts of addresses and addresses of scripts.                            *)

payToPubKeyHashScript(h) ==
  <<OP_DUP, OP_HASH160>> \o addData(h) \o <<OP_EQUALVERIFY, OP_CHECKSIG>>
payToScriptHashScript(h) == <<OP_HASH160>> \o addData(h) \o <<OP_EQUAL>>
payToPubKeyScript(pk) == addData(pk) \o <<OP_CHECKSIG>>
payToWitnessPubKeyHashScript(h) == <<OP_0>> \o addData(h)
payToWitnessScriptHashScript(h) == <<OP_0>> \o addData(h)
payToWitnessTaprootScript(k) == <<OP_1>> \o addData(k)

PayToAddrScript(addr) ==
  CASE addr.kind = "pubkeyhash" -> payToPubKeyHashScript(addr.id)
    [] addr.kind = "scripthash" -> payToScriptHashScript(addr.id)
    [] addr.kind = "pubkey" -> payToPubKeyScript(addr.id)
    [] addr.kind = "witness_v0_keyhash" -> payToWitnessPubKeyHashScript(addr.id)
    [] addr.kind = "witness_v0_scripthash" -> payToWitnessScriptHashScript(addr.id)
    [] addr.kind = "witness_v1_taproot" -> payToWitnessTaprootScript(addr.id)

NullDataScript(data) ==
  IF Len(data) > MaxDataCarrierSize THEN [script |-> <<>>, err |-> TRUE]
  ELSE AddData(AddOp(NewScriptBuilder, OP_RETURN), data)

MultiSigScript(keys, nrequired) ==
  IF Len(keys) < nrequired THEN [script |-> <<>>, err |-> TRUE]
  ELSE AddOp(AddInt64(Loop(AddData, AddInt64(NewScriptBuilder, nrequired), keys),
                      Len(keys)),
             OP_CHECKMULTISIG)

\* The data pushed by a script that parses; OP_0 pushes the empty string.
PushedData(script) ==
  LET Data(pushes) == [i \in DOMAIN pushes |-> pushes[i].data]
  IN  Data(SelectSeq(Tokens(script), LAMBDA t : t.data # <<>> \/ t.op = OP_0))

\* Class, addresses and required signatures.  A key that is not on the curve has no
\* address.
Addr(kind, id) == [kind |-> kind, id |-> id]
KeyAddrs(keys) ==
  LET good == SelectSeq(keys, ParsePubKey)
  IN  [i \in DOMAIN good |-> Addr("pubkey", good[i])]
ExtractPkScriptAddrs(script) ==
  LET Single(kind, id) == [class |-> kind, addrs |-> <<Addr(kind, id)>>, req |-> 1]
      Multi(m) == [class |-> "multisig", addrs |-> KeyAddrs(m.keys), req |-> m.req]
  IN  CASE extractPubKeyHash(script) # <<>> -> Single("pubkeyhash", extractPubKeyHash(script))
        [] extractScriptHash(script) # <<>> -> Single("scripthash", extractScriptHash(script))
        [] extractPubKey(script) # <<>> ->
             [class |-> "pubkey", addrs |-> KeyAddrs(<<extractPubKey(script)>>), req |-> 1]
        [] extractMultisigScriptDetails(script).valid -> Multi(extractMultisigScriptDetails(script))
        [] isNullDataScript(script) -> [class |-> "nulldata", addrs |-> <<>>, req |-> 0]
        [] extractWitnessPubKeyHash(script) # <<>> ->
             Single("witness_v0_keyhash", extractWitnessPubKeyHash(script))
        [] extractWitnessV0ScriptHash(script) # <<>> ->
             Single("witness_v0_scripthash", extractWitnessV0ScriptHash(script))
        [] extractWitnessV1KeyBytes(script) # <<>> ->
             Single("witness_v1_taproot", extractWitnessV1KeyBytes(script))
        [] OTHER -> [class |-> "nonstandard", addrs |-> <<>>, req |-> 0]

\* The data of a script's last token; <<>> when there is none.
finalOpcodeData(script) ==
  LET DataOf(t) == IF t.bad THEN <<>> ELSE t.data
  IN  IF script = <<>> THEN <<>> ELSE DataOf(Last(Tokens(script)))

\* ComputePkScript: the output script an input spends, judged from the input alone;
\* <<>> when it cannot be told.
minPubKeyHashSigScriptLen == 1 + minSigLen + 1 + 1 + 33
maxPubKeyHashSigScriptLen == 1 + 72 + 1 + 1 + 33
computeNonWitnessPkScript(sig) ==
  LET n == Len(sig)
      pk == SubSeq(sig, n - 32, n)
  IN  IF ~IsPushOnlyScript(sig) THEN <<>>
      ELSE IF /\ n \in minPubKeyHashSigScriptLen..maxPubKeyHashSigScriptLen
              /\ IsCompressedPubKey(pk)
      THEN payToPubKeyHashScript(hash160(pk))
      ELSE payToScriptHashScript(hash160(finalOpcodeData(sig)))
computeWitnessPkScript(wit) ==
  LET last == wit[Len(wit)]
  IN  IF Len(wit) = 2 /\ Len(last) = 33
      THEN payToWitnessPubKeyHashScript(hash160(last))
      ELSE payToWitnessScriptHashScript(sha256(last))
ComputePkScript(sig, wit) ==
  IF sig # <<>> THEN computeNonWitnessPkScript(sig)
  ELSE IF wit # <<>> THEN computeWitnessPkScript(wit) ELSE <<>>

-----------------------------------------------------------------------------
(* Counting signature operations.                                            *)

OP_INVALIDOPCODE == 255
SigOps(precise, prev, op) ==
  CASE op \in {OP_CHECKSIG, OP_CHECKSIGVERIFY} -> 1
    [] op \in {OP_CHECKMULTISIG, OP_CHECKMULTISIGVERIFY} ->
         IF precise /\ prev \in OP_1..OP_16 THEN AsSmallInt(prev) ELSE MaxPubKeysPerMultiSig
    [] OTHER -> 0
countSigOpsV0(script, precise) ==
  Only({Loop(LAMBDA acc, i :
          IF toks[i].bad THEN acc
          ELSE acc + SigOps(precise, IF i = 1 THEN OP_INVALIDOPCODE ELSE toks[i - 1].op,
                            toks[i].op),
          0, Up(1, Len(toks))) : toks \in {Tokens(script)}})
GetSigOpCount(script) == countSigOpsV0(script, FALSE)

GetPreciseSigOpCount(sig, pk) ==
  IF ~isScriptHashScript(pk) THEN countSigOpsV0(pk, TRUE)
  ELSE IF sig = <<>> \/ ~IsPushOnlyScript(sig) THEN 0
  ELSE countSigOpsV0(finalOpcodeData(sig), TRUE)

getWitnessSigOps(pk, wit) ==
  LET Of(p) ==
        IF ~p.valid \/ p.version # 0 THEN 0
        ELSE IF Len(p.program) = 20 THEN 1
        ELSE IF Len(p.program) = 32 /\ wit # <<>> THEN countSigOpsV0(wit[Len(wit)], TRUE)
        ELSE 0
  IN  Of(extractWitnessProgramInfo(pk))
GetWitnessSigOpCount(sig, pk, wit) ==
  IF IsWitnessProgram(pk) THEN getWitnessSigOps(pk, wit)
  ELSE IF /\ isScriptHashScript(pk) /\ IsPushOnlyScript(sig) /\ sig # <<>>
          /\ IsWitnessProgram(Tail(sig))
  THEN getWitnessSigOps(Tail(sig), wit) ELSE 0

IsUnspendable(pk) ==
  \/ pk # <<>> /\ pk[1] = OP_RETURN
  \/ Len(pk) > MaxScriptSize
  \/ ~checkScriptParses(pk)

-----------------------------------------------------------------------------
(***************************************************************************)
(* Taproot commitments (package txscript, taproot.go): control blocks, the *)
(* tree of scripts an output key commits to, and the proof of each leaf.   *)
(***************************************************************************)

ControlBlockBaseSize == 33
ControlBlockNodeSize == 32
ControlBlockMaxNodeCount == 128
ControlBlockMaxSize == ControlBlockBaseSize + ControlBlockNodeSize * ControlBlockMaxNodeCount
BaseLeafVersion == 192

\* bytes.Compare(l, r) > 0, for hashes of one length.
Above(l, r) ==
  LET diff == {i \in DOMAIN l : l[i] # r[i]}
  IN  diff # {} /\ l[Min(diff)] > r[Min(diff)]

TapLeafHash(version, script) == Hash(5, <<version, Len(script) % 256>> \o script, 32)
tapBranchHash(l, r) == Hash(6, IF Above(l, r) THEN r \o l ELSE l \o r, 32)

\* External: the internal key's point plus the tweak's, as its x coordinate, the bit
\* its parity is read from among its bytes.
ComputeTaprootOutputKey(internalKey, scriptRoot) == Hash(7, internalKey \o scriptRoot, 32)
YIsOdd(key) == key[2] % 2 = 1

-----------------------------------------------------------------------------
(* Control blocks: the leaf version and the parity, the internal key, the    *)
(* hashes beside the path from the leaf to the root.                         *)

ToBytes(c) == <<c.version + (IF c.odd THEN 1 ELSE 0)>> \o c.key \o c.proof

NoControl == [err |-> "none", version |-> 0, odd |-> FALSE, key |-> <<>>, proof |-> <<>>]
ParseControlBlock(b) ==
  LET err == IF Len(b) < ControlBlockBaseSize THEN "ErrControlBlockTooSmall"
             ELSE IF Len(b) > ControlBlockMaxSize THEN "ErrControlBlockTooLarge"
             ELSE IF (Len(b) - ControlBlockBaseSize) % ControlBlockNodeSize # 0
             THEN "ErrControlBlockInvalidLength"
             ELSE IF b[2] = 0 THEN "ErrPubKey" ELSE "none"
  IN  IF err # "none" THEN [NoControl EXCEPT !.err = err]
      ELSE [err |-> "none", version |-> b[1] - (b[1] % 2), odd |-> b[1] % 2 = 1,
            key |-> SubSeq(b, 2, 33), proof |-> SubSeq(b, 34, Len(b))]

RootHash(c, script) ==
  Loop(LAMBDA acc, i :
         tapBranchHash(acc, SubSeq(c.proof, ControlBlockNodeSize * (i - 1) + 1,
                                   ControlBlockNodeSize * i)),
       TapLeafHash(c.version, script), Up(1, Len(c.proof) \div ControlBlockNodeSize))

VerifyTaprootLeafCommitment(c, program, script) ==
  Only({IF key # program THEN "ErrTaprootMerkleProofInvalid"
        ELSE IF c.odd # YIsOdd(key) THEN "ErrTaprootOutputKeyParityMismatch"
        ELSE "none" : key \in {ComputeTaprootOutputKey(c.key, RootHash(c, script))}})

-----------------------------------------------------------------------------
(* The tree.  A node is its hash and the hashes of the leaves under it, from *)
(* left to right; a proof is a sequence of hashes.                           *)

Leaf(version, script) ==
  Only({[hash |-> h, leaves |-> <<h>>] : h \in {TapLeafHash(version, script)}})
NewTapBranch(l, r) == [hash |-> tapBranchHash(l.hash, r.hash), leaves |-> l.leaves \o r.leaves]

\* The index of a leaf by its hash: a later leaf with the same hash replaces it.
LeafProofIndex(nodes, h) == Max({i \in DOMAIN nodes : nodes[i].hash = h})

\* Every leaf of the list gets one more hash on its proof, in order.
Extend(nodes, proofs, leaves, h) ==
  Loop(LAMBDA p, leaf : [p EXCEPT ![LeafProofIndex(nodes, leaf)] = @ \o h], proofs, leaves)

\* The first pass, two leaves at a time; the last of an odd number joins the last
\* branch.
PairStep(nodes, t, i) ==
  IF i % 2 = 0 THEN t
  ELSE IF i = Len(nodes)
  THEN LET last == t.branches[Len(t.branches)]
       IN  [branches |-> Append(Front(t.branches), NewTapBranch(last, nodes[i])),
            proofs |-> Extend(nodes, [t.proofs EXCEPT ![i] = @ \o last.hash],
                              last.leaves, nodes[i].hash)]
  ELSE [branches |-> Append(t.branches, NewTapBranch(nodes[i], nodes[i + 1])),
        proofs |-> [t.proofs EXCEPT ![i] = @ \o nodes[i + 1].hash,
                                    ![i + 1] = @ \o nodes[i].hash]]

\* The second pass: the first two branches of the queue become one at its end.
MergeStep(nodes, t) ==
  IF Len(t.branches) < 2 THEN t
  ELSE LET left == t.branches[1]  right == t.branches[2]
       IN  [branches |-> Append(SubSeq(t.branches, 3, Len(t.branches)),
                                NewTapBranch(left, right)),
            proofs |-> Extend(nodes, Extend(nodes, t.proofs, left.leaves, right.hash),
                              right.leaves, left.hash)]

\* [root, proofs] of a list of scripts, one at least.
AssembleTaprootScriptTree(scripts) ==
  LET empty == [i \in DOMAIN scripts |-> <<>>]
      Paired(nodes) == Loop(LAMBDA t, i : PairStep(nodes, t, i),
                            [branches |-> <<>>, proofs |-> empty], Up(1, Len(nodes)))
      Merged(nodes) == Loop(LAMBDA t, i : MergeStep(nodes, t), Paired(nodes), Up(1, Len(nodes)))
      Tree(nodes) ==
        IF Len(nodes) = 1 THEN [root |-> nodes[1].hash, proofs |-> empty]
        ELSE Only({[root |-> t.branches[1].hash, proofs |-> t.proofs] : t \in {Merged(nodes)}})
  IN  Only({Tree(nodes) : nodes \in {[i \in DOMAIN scripts |-> Leaf(BaseLeafVersion, scripts[i])]}})

ToControlBlock(tree, i, internalKey) ==
  [err |-> "none", version |-> BaseLeafVersion,
   odd |-> YIsOdd(ComputeTaprootOutputKey(internalKey, tree.root)),
   key |-> internalKey, proof |-> tree.proofs[i]]
=============================================================================
