---------------------------- MODULE ScriptEngine ----------------------------
(***************************************************************************)
(* The script engine (package txscript, engine.go): one engine executes    *)
(* the scripts of one input, an opcode per step, and goes from the         *)
(* signature script to the output's script and from there to a redeem      *)
(* script, a witness script or a tapscript.                                *)
(***************************************************************************)
EXTENDS ScriptOps, TLC

CONSTANTS
  Spends,        \* the inputs: records with sig, pk, wit, lock, sequence, version
  FlagSets       \* the sets of flags they are executed under

VARIABLES
  vm,       \* the engine
  vfExec,   \* ghost: the value of every open conditional
  checks    \* ghost: the signature checks made so far outside tapscript

engineVars == <<vm, vfExec, checks>>

BaseSegwitWitnessVersion == 0
TaprootWitnessVersion == 1
NoTap == [on |-> FALSE, annex |-> <<>>, sep |-> -1, leaf |-> <<>>, budget |-> 0,
          must |-> FALSE]

-----------------------------------------------------------------------------
(* Opcodes.                                                                  *)

isOpcodeDisabled(op) == op \in (126..129) \cup (131..134) \cup {141, 142} \cup (149..153)
isOpcodeAlwaysIllegal(op) == op \in {101, 102}
isOpcodeConditional(op) == op \in {99, 100, 103, 104}
successOpcodes ==
  {80, 98} \cup (126..129) \cup (131..134) \cup {137, 138, 141, 142} \cup (149..153)
    \cup (187..254)

checkMinimalDataPush(op, data) ==
  LET n == Len(data)
  IN  IF n = 0 THEN op = OP_0
      ELSE IF n = 1 /\ data[1] \in 1..16 THEN op = OP_1 + data[1] - 1
      ELSE IF n = 1 /\ data[1] = 129 THEN op = OP_1NEGATE
      ELSE IF n <= 75 THEN op = n
      ELSE IF n <= 255 THEN op = OP_PUSHDATA1
      ELSE n <= 65535 => op = OP_PUSHDATA2

\* opcodeArray: the handler of each opcode.
PushOpcodes(v, op, data) ==
  CASE op = OP_0 -> opcodeFalse(v)
    [] op \in 1..OP_PUSHDATA4 -> opcodePushData(v, data)
    [] op = OP_1NEGATE -> opcode1Negate(v)
    [] op = 80 -> opcodeReserved(v)
    [] op \in OP_1..OP_16 -> opcodeN(v, op)

ControlOpcodes(v, op) ==
  CASE op = 97 -> opcodeNop(v, op) [] op = 98 -> opcodeReserved(v)
    [] op = 99 -> opcodeIf(v) [] op = 100 -> opcodeNotIf(v)
    [] op \in {101, 102} -> opcodeReserved(v)
    [] op = 103 -> opcodeElse(v) [] op = 104 -> opcodeEndif(v)
    [] op = 105 -> opcodeVerify(v) [] op = OP_RETURN -> opcodeReturn(v)

StackOpcodes(v, op) ==
  CASE op = 107 -> opcodeToAltStack(v) [] op = 108 -> opcodeFromAltStack(v)
    [] op = 109 -> opcode2Drop(v) [] op = 110 -> opcode2Dup(v)
    [] op = 111 -> opcode3Dup(v) [] op = 112 -> opcode2Over(v)
    [] op = 113 -> opcode2Rot(v) [] op = 114 -> opcode2Swap(v)
    [] op = 115 -> opcodeIfDup(v) [] op = 116 -> opcodeDepth(v)
    [] op = 117 -> opcodeDrop(v) [] op = OP_DUP -> opcodeDup(v)
    [] op = 119 -> opcodeNip(v) [] op = 120 -> opcodeOver(v)
    [] op = 121 -> opcodePick(v) [] op = 122 -> opcodeRoll(v)
    [] op = 123 -> opcodeRot(v) [] op = 124 -> opcodeSwap(v)
    [] op = 125 -> opcodeTuck(v) [] op = 130 -> opcodeSize(v)
    [] op = OP_EQUAL -> opcodeEqual(v) [] op = OP_EQUALVERIFY -> opcodeEqualVerify(v)
    [] op \in {137, 138} -> opcodeReserved(v)
    [] op \in (126..129) \cup (131..134) -> opcodeDisabled(v)

NumericOpcodes(v, op) ==
  CASE op = 139 -> opcode1Add(v) [] op = 140 -> opcode1Sub(v)
    [] op = 143 -> opcodeNegate(v) [] op = 144 -> opcodeAbs(v)
    [] op = 145 -> opcodeNot(v) [] op = 146 -> opcode0NotEqual(v)
    [] op = 147 -> opcodeAdd(v) [] op = 148 -> opcodeSub(v)
    [] op = 154 -> opcodeBoolAnd(v) [] op = 155 -> opcodeBoolOr(v)
    [] op = 156 -> opcodeNumEqual(v) [] op = 157 -> opcodeNumEqualVerify(v)
    [] op = 158 -> opcodeNumNotEqual(v) [] op = 159 -> opcodeLessThan(v)
    [] op = 160 -> opcodeGreaterThan(v) [] op = 161 -> opcodeLessThanOrEqual(v)
    [] op = 162 -> opcodeGreaterThanOrEqual(v) [] op = 163 -> opcodeMin(v)
    [] op = 164 -> opcodeMax(v) [] op = 165 -> opcodeWithin(v)
    [] OTHER -> opcodeDisabled(v)

CryptoOpcodes(v, op) ==
  CASE op = 166 -> opcodeRipemd160(v) [] op = 167 -> opcodeSha1(v)
    [] op = 168 -> opcodeSha256(v) [] op = OP_HASH160 -> opcodeHash160(v)
    [] op = 170 -> opcodeHash256(v) [] op = OP_CODESEPARATOR -> opcodeCodeSeparator(v)
    [] op = OP_CHECKSIG -> opcodeCheckSig(v)
    [] op = OP_CHECKSIGVERIFY -> opcodeCheckSigVerify(v)
    [] op = OP_CHECKMULTISIG -> opcodeCheckMultiSig(v)
    [] op = OP_CHECKMULTISIGVERIFY -> opcodeCheckMultiSigVerify(v)
    [] op = 177 -> opcodeCheckLockTimeVerify(v)
    [] op = 178 -> opcodeCheckSequenceVerify(v)
    [] op = 176 \/ op \in 179..185 -> opcodeNop(v, op)
    [] op = 186 -> opcodeCheckSigAdd(v)
    [] op >= 187 -> opcodeInvalid(v)

opfunc(v, op, data) ==
  IF op <= OP_16 THEN PushOpcodes(v, op, data)
  ELSE IF op <= OP_RETURN THEN ControlOpcodes(v, op)
  ELSE IF op <= 138 THEN StackOpcodes(v, op)
  ELSE IF op <= 165 THEN NumericOpcodes(v, op)
  ELSE CryptoOpcodes(v, op)

executeOpcode(v, op, data) ==
  LET counted == ~v.tap.on /\ op > OP_16
      w == IF counted THEN [v EXCEPT !.ops = @ + 1] ELSE v
  IN  IF isOpcodeDisabled(op) THEN Fail(v, "ErrDisabledOpcode")
      ELSE IF isOpcodeAlwaysIllegal(op) THEN Fail(v, "ErrReservedOpcode")
      ELSE IF counted /\ w.ops > MaxOpsPerScript THEN Fail(w, "ErrTooManyOperations")
      ELSE IF ~counted /\ Len(data) > MaxScriptElementSize THEN Fail(w, "ErrElementTooBig")
      ELSE IF ~isBranchExecuting(v) /\ ~isOpcodeConditional(op) THEN w
      ELSE IF /\ minimal(v) /\ isBranchExecuting(v) /\ op <= OP_PUSHDATA4
              /\ ~checkMinimalDataPush(op, data)
      THEN Fail(w, "ErrMinimalData")
      ELSE opfunc(w, op, data)

-----------------------------------------------------------------------------
(* Witness programs.                                                         *)

isAnnexedWitness(wit) == Len(wit) >= 2 /\ wit[Len(wit)] # <<>> /\ wit[Len(wit)][1] = 80
VarIntSize(n) == IF n < 253 THEN 1 ELSE IF n < 65536 THEN 3 ELSE 5
SerializeSize(wit) ==
  Loop(LAMBDA acc, x : acc + VarIntSize(Len(x)) + Len(x), VarIntSize(Len(wit)), wit)
newTaprootExecutionCtx(wit) ==
  [NoTap EXCEPT !.on = TRUE, !.budget = sigOpsDelta + SerializeSize(wit),
                !.annex = IF isAnnexedWitness(wit) THEN wit[Len(wit)] ELSE <<>>]
MustSucceed(v) == [v EXCEPT !.tap.must = TRUE]
RunScript(v, script, stack) == [v EXCEPT !.scripts = Append(@, script), !.d = stack]

ScriptHasOpSuccess(script) ==
  \E t \in Range(Tokens(script)) : ~t.bad /\ t.op \in successOpcodes

verifyTaprootKeySpend(v, sig) ==
  Unless(v, parseTaprootSig(v.wp, sig),
         IF TapVerify(v, v.wp, sig, <<>>) THEN MustSucceed(v)
         ELSE Fail(v, "ErrTaprootSigInvalid"))
TaprootKeyPath(v, sig) ==
  IF /\ replay(v)
     /\ \/ Len(sig) # SignatureSize + 1
        \/ ~isOBTCReplayProtectedSigHashType(sig[SignatureSize + 1])
  THEN Fail(v, "ErrInvalidSigHashType")
  ELSE verifyTaprootKeySpend(v, sig)

\* A leaf that is proved to be under the output key.
TaprootLeaf(v, version, script, stack) ==
  LET leaf == [v EXCEPT !.tap.leaf = TapLeafHash(BaseLeafVersion, script)]
  IN  IF ScriptHasOpSuccess(script)
      THEN IF hasFlag(v, "DiscourageOpSuccess") THEN Fail(v, "ErrDiscourageOpSuccess")
           ELSE MustSucceed(v)
      ELSE IF version # BaseLeafVersion
      THEN IF hasFlag(v, "DiscourageUpgradeableTaprootVersion")
           THEN Fail(v, "ErrDiscourageUpgradeableTaprootVersion") ELSE MustSucceed(v)
      ELSE IF ~checkScriptParses(script) THEN Fail(v, "ErrMalformedPush")
      ELSE RunScript(leaf, script, stack)
TaprootScriptPath(v, wit) ==
  LET script == wit[Len(wit) - 1]
      With(c) ==
        Unless(v, c.err,
               Unless(v, VerifyTaprootLeafCommitment(c, v.wp, script),
                      TaprootLeaf(v, c.version, script, SubSeq(wit, 1, Len(wit) - 2))))
  IN  With(ParseControlBlock(wit[Len(wit)]))

TaprootProgram(v, wit) ==
  LET w == [v EXCEPT !.tap = newTaprootExecutionCtx(wit)]
      rest == IF isAnnexedWitness(wit) THEN Front(wit) ELSE wit
  IN  IF wit = <<>> THEN Fail(v, "ErrWitnessProgramEmpty")
      ELSE IF Len(rest) = 1 THEN TaprootKeyPath(w, rest[1]) ELSE TaprootScriptPath(w, rest)

SegwitV0Program(v, wit) ==
  LET script == wit[Len(wit)]
  IN  CASE Len(v.wp) = 20 ->
             IF Len(wit) # 2 THEN Fail(v, "ErrWitnessProgramMismatch")
             ELSE RunScript(v, payToPubKeyHashScript(v.wp), wit)
        [] Len(v.wp) = 32 ->
             IF wit = <<>> THEN Fail(v, "ErrWitnessProgramEmpty")
             ELSE IF Len(script) > MaxScriptSize THEN Fail(v, "ErrScriptTooBig")
             ELSE IF sha256(script) # v.wp THEN Fail(v, "ErrWitnessProgramMismatch")
             ELSE IF ~checkScriptParses(script) THEN Fail(v, "ErrMalformedPush")
             ELSE RunScript(v, script, Front(wit))
        [] OTHER -> Fail(v, "ErrWitnessProgramWrongLength")

\* The limits on what the witness put on the stack.
WitnessLimits(v) ==
  IF v.err # "none" \/ v.tap.must THEN v
  ELSE IF isWitnessVersionActive(v, 1) /\ Len(v.d) > MaxStackSize
  THEN Fail(v, "ErrStackOverflow")
  ELSE IF /\ isWitnessVersionActive(v, 0) \/ isWitnessVersionActive(v, 1)
          /\ \E i \in DOMAIN v.d : Len(v.d[i]) > MaxScriptElementSize
  THEN Fail(v, "ErrElementTooBig") ELSE v

\* A version 1 program of 32 bytes is anyone's to spend before taproot is active.
verifyWitnessProgram(v) ==
  IF isWitnessVersionActive(v, 0) THEN WitnessLimits(SegwitV0Program(v, v.wit))
  ELSE IF isWitnessVersionActive(v, 1) /\ Len(v.wp) = 32 /\ ~v.bip16
  THEN IF hasFlag(v, "Taproot") THEN WitnessLimits(TaprootProgram(v, v.wit)) ELSE v
  ELSE IF hasFlag(v, "DiscourageUpgradeableWitnessProgram")
  THEN Fail(v, "ErrDiscourageUpgradableWitnessProgram")
  ELSE [v EXCEPT !.wp = <<>>]

-----------------------------------------------------------------------------
(* Going through the scripts.                                                *)

CheckErrorCondition(v, finalScript) ==
  LET clean == hasFlag(v, "CleanStack") \/ v.tap.on
  IN  IF v.tap.on /\ v.tap.must THEN v
      ELSE IF v.idx < Len(v.scripts) THEN Fail(v, "ErrScriptUnfinished")
      ELSE IF finalScript /\ isWitnessVersionActive(v, 0) /\ Len(v.d) # 1
      THEN Fail(v, "ErrEvalFalse")
      ELSE IF finalScript /\ clean /\ Len(v.d) # 1 THEN Fail(v, "ErrCleanStack")
      ELSE IF v.d = <<>> THEN Fail(v, "ErrEmptyStack")
      ELSE IF asBool(Top(v, 0)) THEN Drop(v, 1) ELSE Fail(Drop(v, 1), "ErrEvalFalse")

\* The redeem script is the last thing the signature script pushed.
RedeemScript(v) ==
  LET script == v.saved[Len(v.saved)]
      Checked(w) == IF w.err # "none" THEN w
                    ELSE IF ~checkScriptParses(script) THEN Fail(w, "ErrMalformedPush")
                    ELSE RunScript(w, script, Front(v.saved))
  IN  Checked(CheckErrorCondition(v, FALSE))

\* What follows the last opcode of script number v.idx, counted from zero.
AfterScript(v) ==
  LET next == [v EXCEPT !.idx = @ + 1]
  IN  IF v.idx = 0 /\ v.bip16 THEN [next EXCEPT !.saved = v.d]
      ELSE IF v.idx = 1 /\ v.bip16 THEN RedeemScript(next)
      ELSE IF v.wp # <<>> /\ (v.idx = 1 \/ (v.idx = 2 /\ v.bip16))
      THEN verifyWitnessProgram(next)
      ELSE next

NextScript(v) ==
  IF v.err # "none" THEN v
  ELSE LET skip == v.idx < Len(v.scripts) /\ v.scripts[v.idx + 1] = <<>>
           i == IF skip THEN v.idx + 1 ELSE v.idx
           w == [v EXCEPT !.idx = i, !.sep = 0, !.off = 0, !.done = i >= Len(v.scripts)]
       IN  IF w.done THEN CheckErrorCondition(w, TRUE) ELSE w

EndOfScript(v) ==
  IF v.cond # <<>> THEN Fail(v, "ErrUnbalancedConditional")
  ELSE NextScript(AfterScript([v EXCEPT !.a = <<>>, !.ops = 0, !.opos = 0]))

\* One turn of the loop of Execute, its final check included.
Step(v) ==
  LET script == v.scripts[v.idx + 1]
      t == TokenAt(script, v.off)
      Stepped(w) ==
        IF w.err # "none" THEN w
        ELSE IF Len(w.d) + Len(w.a) > MaxStackSize THEN Fail(w, "ErrStackOverflow")
        ELSE IF w.off >= Len(script) THEN EndOfScript(w)
        ELSE [w EXCEPT !.opos = @ + 1]
  IN  Only({Stepped(w) : w \in {executeOpcode([v EXCEPT !.off = t.off], t.op, t.data)}})

-----------------------------------------------------------------------------
(* NewEngine.                                                                *)

\* The witness program of an input: [err, wv, wp], wp <<>> when there is none.
WitnessOf(spend, flags, bip16) ==
  LET None(e) == [err |-> e, wv |-> 0, wp |-> <<>>]
      Program(p) == [err |-> "none", wv |-> p.version, wp |-> p.program]
      Nested(p) == IF p.valid THEN Program(p) ELSE None("ErrWitnessMalleatedP2SH")
      Native(p) ==
        IF p.valid
        THEN IF spend.sig # <<>> THEN None("ErrWitnessMalleated") ELSE Program(p)
        ELSE IF spend.wit # <<>> /\ bip16
        THEN IF Len(spend.sig) > 2 /\ isCanonicalPush(spend.sig[1], Tail(spend.sig))
             THEN Nested(extractWitnessProgramInfo(Tail(spend.sig)))
             ELSE None("ErrWitnessMalleatedP2SH")
        ELSE None(IF spend.wit # <<>> THEN "ErrWitnessUnexpected" ELSE "none")
  IN  IF "Witness" \notin flags THEN None("none")
      ELSE IF "Bip16" \notin flags THEN None("ErrInvalidFlags")
      ELSE Native(extractWitnessProgramInfo(spend.pk))

NewEngineErr(spend, flags, bip16, witnessErr) ==
  LET pushOnly == IsPushOnlyScript(spend.sig)
  IN  IF spend.sig = <<>> /\ spend.pk = <<>> THEN "ErrEvalFalse"
      ELSE IF "CleanStack" \in flags /\ {"Bip16", "Witness"} \cap flags = {}
      THEN "ErrInvalidFlags"
      ELSE IF ("SigPushOnly" \in flags \/ bip16) /\ ~pushOnly THEN "ErrNotPushOnly"
      ELSE IF Len(spend.sig) > MaxScriptSize \/ Len(spend.pk) > MaxScriptSize
      THEN "ErrScriptTooBig"
      ELSE IF ~checkScriptParses(spend.sig) \/ ~checkScriptParses(spend.pk)
      THEN "ErrMalformedPush"
      ELSE witnessErr

NewEngine(spend, flags) ==
  LET bip16 == "Bip16" \in flags /\ isScriptHashScript(spend.pk)
      With(w) ==
        [flags |-> flags, sig |-> spend.sig, pk |-> spend.pk, wit |-> spend.wit,
         lock |-> spend.lock, sequence |-> spend.sequence, version |-> spend.version,
         scripts |-> <<spend.sig, spend.pk>>, idx |-> IF spend.sig = <<>> THEN 1 ELSE 0,
         off |-> 0, opos |-> 0, sep |-> 0, saved |-> <<>>, d |-> <<>>, a |-> <<>>,
         cond |-> <<>>, ops |-> 0, wv |-> w.wv, wp |-> w.wp, bip16 |-> bip16,
         tap |-> NoTap, err |-> NewEngineErr(spend, flags, bip16, w.err), done |-> FALSE]
  IN  With(WitnessOf(spend, flags, bip16))

\* Execute without its steps shown: the result for an input under a set of flags.
MaxSteps == 60
Execute(spend, flags) ==
  Loop(LAMBDA v, i : IF v.err = "none" /\ ~v.done THEN Step(v) ELSE v,
       NewEngine(spend, flags), Up(1, MaxSteps))
Accepts(spend, flags) ==
  Only({v.err = "none" /\ v.done : v \in {Execute(spend, flags)}})

-----------------------------------------------------------------------------
(* The engine as a state machine.                                            *)

All(vf) == \A i \in DOMAIN vf : vf[i]
Valued(vf, v, op) ==
  CASE op \in {99, 100} ->
         Append(vf, All(vf) /\ v.d # <<>> /\ (asBool(v.d[Len(v.d)]) <=> op = 99))
    [] op = 103 /\ vf # <<>> -> [vf EXCEPT ![Len(vf)] = ~@]
    [] op = 104 /\ vf # <<>> -> Front(vf)
    [] OTHER -> vf
Checked(v, op) ==
  CASE ~isBranchExecuting(v) \/ v.tap.on -> 0
    [] op \in {OP_CHECKSIG, OP_CHECKSIGVERIFY} -> 1
    [] op \in {OP_CHECKMULTISIG, OP_CHECKMULTISIGVERIFY} /\ IntErr(v, 0) = "none" -> IntAt(v, 0)
    [] OTHER -> 0

EngineInit ==
  /\ \E s \in Spends, f \in FlagSets : vm = NewEngine(s, f)
  /\ vfExec = <<>> /\ checks = 0
EngineNext ==
  /\ vm.err = "none" /\ ~vm.done
  /\ vm' = Step(vm)
  /\ \E t \in {TokenAt(vm.scripts[vm.idx + 1], vm.off)} :
       /\ vfExec' = Valued(vfExec, vm, t.op)
       /\ checks' = checks + Checked(vm, t.op)

-----------------------------------------------------------------------------
(* Properties.                                                               *)

Spend(v) == [sig |-> v.sig, pk |-> v.pk, wit |-> v.wit, lock |-> v.lock,
             sequence |-> v.sequence, version |-> v.version]

\* The engine's indexes, stacks and counters have their types (struct Engine).
EngineTypeOK ==
  /\ vm.idx \in 0..4 /\ vm.off \in 0..MaxScriptSize /\ vm.sep \in 0..MaxScriptSize
  /\ vm.d \in Seq(Seq(Byte)) /\ vm.a \in Seq(Seq(Byte)) /\ vm.saved \in Seq(Seq(Byte))
  /\ vm.cond \in Seq({OpCondFalse, OpCondTrue, OpCondSkip})
  /\ vm.done \in BOOLEAN /\ vm.bip16 \in BOOLEAN /\ vm.tap.on \in BOOLEAN
  /\ vfExec \in Seq(BOOLEAN) /\ checks \in Nat

\* The engine looks only at the innermost conditional to know whether it executes
\* (isBranchExecuting); that is right because OP_IF in a branch that is not executed
\* pushes a value OP_ELSE leaves alone: a branch executes exactly when every open
\* conditional has the value true.
BranchesNest ==
  vm.err = "none" => (isBranchExecuting(vm) <=> All(vfExec))

\* No engine that goes on exceeds a limit: the items of both stacks together, the size
\* of an item, operations per script (outside tapscript), the budget for signatures
\* (tapscript).
WithinLimits ==
  vm.err = "none" =>
    /\ Len(vm.d) + Len(vm.a) <= MaxStackSize
    /\ \A i \in DOMAIN vm.d : Len(vm.d[i]) <= MaxScriptElementSize
    /\ vm.ops <= MaxOpsPerScript
    /\ vm.tap.budget >= 0

\* A script starts with nothing of the one before it but the data stack: no open
\* conditional, no item on the alternate stack, no code separator (Step).
ScriptsAreSeparate ==
  (vm.err = "none" /\ vm.off = 0) =>
    vm.a = <<>> /\ vm.cond = <<>> /\ vm.sep = 0 /\ vm.ops = 0

\* The operations counted for a block's limit (GetSigOpCount of both scripts,
\* GetPreciseSigOpCount of a redeem script, GetWitnessSigOpCount) are never fewer than
\* the signature checks the engine makes.
SigOpsCounted ==
  vm.err = "none" =>
    checks <= GetSigOpCount(vm.sig) + GetSigOpCount(vm.pk)
                + (IF vm.bip16 THEN GetPreciseSigOpCount(vm.sig, vm.pk) ELSE 0)
                + GetWitnessSigOpCount(vm.sig, vm.pk, vm.wit)

Signs(sig, pk, key, flags) ==
  /\ sig # <<>> /\ ParsePubKey(key)
  /\ Verify(parseSig(Front(sig), {"StrictEncoding", "DERSignatures"} \cap flags # {}),
            calcSignatureHash(pk, sig[Len(sig)], "OBTCReplayProtection" \in flags), key)

\* A bare multisig output is spent exactly by signatures that can be assigned, in
\* their order, to keys in theirs (opcodeCheckMultiSig's one pass over the keys).
MultisigInOrder ==
  \E multi \in {extractMultisigScriptDetails(vm.pk)}, pushed \in {PushedData(vm.sig)} :
    (/\ multi.valid /\ multi.num = Len(multi.keys)
     /\ Len(pushed) = multi.req + 1
     /\ vm.done \/ vm.err \in {"ErrEvalFalse", "ErrNullFail"}) =>
      (vm.err = "none" <=>
        \E f \in [1..multi.req -> 1..multi.num] :
          /\ \A i, j \in 1..multi.req : i < j => f[i] < f[j]
          /\ \A i \in 1..multi.req : Signs(pushed[i + 1], vm.pk, multi.keys[f[i]], vm.flags))

\* Every flag but the replay protection's only takes spends away: what is accepted
\* under a set of flags is accepted under each smaller set the node uses.
FlagsOnlyRestrict ==
  (vm.done /\ vm.err = "none") =>
    \A f \in FlagSets :
      (f \subseteq vm.flags /\ ("OBTCReplayProtection" \in f <=> replay(vm)))
        => Accepts(Spend(vm), f)

\* The outputs the UTXO set leaves out (IsUnspendable) cannot be spent.
UnspendableIsUnspent == (vm.done /\ vm.err = "none") => ~IsUnspendable(vm.pk)

\* An input that spends a pay-to-pubkey-hash output with a compressed key, a
\* pay-to-script-hash or a version 0 witness output tells its script (ComputePkScript),
\* unless its script ends in, or is as long as, a compressed key.
ScriptIsComputed ==
  LET class == GetScriptClass(vm.pk)
      tail == SubSeq(vm.sig, Len(vm.sig) - 32, Len(vm.sig))
  IN  (/\ vm.done /\ vm.err = "none" /\ {"Witness", "CleanStack"} \subseteq vm.flags
       /\ \/ class = "scripthash" /\ (Len(vm.sig) > 32 => ~IsCompressedPubKey(tail))
          \/ class = "witness_v0_keyhash"
          \/ class = "witness_v0_scripthash" /\ Len(vm.wit[Len(vm.wit)]) # 33
          \/ class = "pubkeyhash" /\ IsCompressedPubKey(finalOpcodeData(vm.sig))) =>
        ComputePkScript(vm.sig, vm.wit) = vm.pk

StackName == (109 :> "drop") @@ (110 :> "dup") @@ (112 :> "over") @@ (113 :> "rot")
               @@ (114 :> "swap") @@ (123 :> "rot") @@ (124 :> "swap") @@ (125 :> "tuck")
MovesGroups ==
  LET op == vm.scripts[vm.idx + 1][vm.off + 1]
  IN  (/\ op \in DOMAIN StackName /\ isBranchExecuting(vm)
       /\ vm'.err = "none" /\ vm'.idx = vm.idx) =>
        vm'.d = StackEffect(StackName[op], vm.d, IF op < 115 THEN 2 ELSE 1)

\* The multi-item stack operations, made of single picks and rolls, move whole groups.
StackOpsMoveGroups == [][MovesGroups]_engineVars

\* "signatures must be empty if a CHECKSIG or CHECKMULTISIG operation fails"
\* (ScriptVerifyNullFail).
FailedSigsAreEmpty ==
  [][LET op == vm.scripts[vm.idx + 1][vm.off + 1]
     IN  (/\ "NullFail" \in vm.flags /\ op = OP_CHECKSIG /\ isBranchExecuting(vm)
          /\ vm'.err = "none" /\ vm'.idx = vm.idx /\ vm'.d[Len(vm'.d)] = <<>>) =>
           vm.d[Len(vm.d) - 1] = <<>>]_engineVars

-----------------------------------------------------------------------------
(***************************************************************************)
(* Signing an output in turns (package txscript, sign.go): every party     *)
(* signs with the keys of its wallet and merges its signature script with  *)
(* the one it was handed.                                                  *)
(***************************************************************************)

CONSTANTS
  Jobs,        \* records: pk, redeem (known scripts), hashType, flags, leaves (the
               \* scripts of a taproot output), allow (the caller's option for
               \* replay-protected hash types)
  Wallets,     \* the parties: sets of serialized public keys whose secret they hold
  MaxTurns

VARIABLES job, signed, sigScript, witness
signVars == <<job, signed, sigScript, witness>>

SignErr == [ok |-> FALSE, script |-> <<>>]
Made(script) == [ok |-> TRUE, script |-> script]

-----------------------------------------------------------------------------
(* Keys and signatures.                                                      *)

\* KeyDB.GetKey: the wallet's serialized keys that an address is of.
GetKey(wallet, addr) ==
  {key \in wallet : addr.id = IF addr.kind = "pubkey" THEN key ELSE hash160(key)}
GetScript(scripts, addr) == {s \in scripts : addr.id = hash160(s)}

\* The signer always uses the replay-protected domain for a replay-protected hash type.
RawTxInSignature(script, hashType, key) ==
  <<48, 6, 2, 1, key[2], 2, 1, calcSignatureHash(script, hashType, TRUE), hashType>>
SignatureScript(script, hashType, key) ==
  AddData(AddData(NewScriptBuilder, RawTxInSignature(script, hashType, key)), key).script
p2pkSignatureScript(script, hashType, key) ==
  AddData(NewScriptBuilder, RawTxInSignature(script, hashType, key)).script

\* Up to nRequired signatures, in the order of the keys.
signMultiSig(script, hashType, addrs, nRequired, wallet) ==
  Loop(LAMBDA r, a :
         IF r.n = nRequired \/ GetKey(wallet, a) = {} THEN r
         ELSE [n |-> r.n + 1,
               b |-> AddData(r.b, RawTxInSignature(script, hashType, Only(GetKey(wallet, a))))],
       [n |-> 0, b |-> AddOp(NewScriptBuilder, OP_0)], addrs).b.script

\* For a pay-to-script-hash output the result is the redeem script.
sign(script, hashType, wallet, scripts) ==
  LET Found(found, Script(_)) == IF found = {} THEN SignErr ELSE Made(Script(Only(found)))
      For(x) ==
        CASE x.class = "pubkey" ->
               Found(GetKey(wallet, x.addrs[1]), LAMBDA key : p2pkSignatureScript(script, hashType, key))
          [] x.class = "pubkeyhash" ->
               Found(GetKey(wallet, x.addrs[1]), LAMBDA key : SignatureScript(script, hashType, key))
          [] x.class = "scripthash" -> Found(GetScript(scripts, x.addrs[1]), LAMBDA s : s)
          [] x.class = "multisig" ->
               Made(signMultiSig(script, hashType, x.addrs, x.req, wallet))
          [] OTHER -> SignErr
  IN  For(ExtractPkScriptAddrs(script))

\* The script code of a witness key hash is the script the engine runs for it.
WitnessSignature(script, hashType, key) ==
  LET code == payToPubKeyHashScript(extractWitnessPubKeyHash(script))
  IN  <<<<48, 6, 2, 1, key[2], 2, 1, calcWitnessSignatureHash(code, hashType, TRUE), hashType>>,
        key>>

\* [ok, sig]: a schnorr signature with its hash type unless that is the default.
TapSignature(id, hashType, allow, ext) ==
  LET h == calcTaprootSignatureHash(hashType, allow, <<>>, ext)
  IN  [ok |-> h.ok,
       sig |-> Pad(<<id, h.hash>>, SignatureSize) \o (IF hashType = 0 THEN <<>> ELSE <<hashType>>)]
\* The key is tweaked to the output's; external: its identity is the output key's.
RawTxInTaprootSignature(outputKey, hashType, allow) ==
  TapSignature(outputKey[1], hashType, allow, <<>>)
RawTxInTapscriptSignature(leaf, hashType, key, allow) ==
  TapSignature(key[2], hashType, allow, TapLeafHash(BaseLeafVersion, leaf) \o <<-1>>)

-----------------------------------------------------------------------------
(* Merging.                                                                  *)

\* The data a script pushes, which may be signatures; <<>> pushes nothing.
extractSigs(script) ==
  LET Data(tokens) == [i \in DOMAIN tokens |-> tokens[i].data]
  IN  SelectSeq(Data(Tokens(script)), LAMBDA d : d # <<>>)

\* The first address whose key verifies the signature; zero when there is none.
SignerOf(script, addrs, sig) ==
  LET First(who) == IF who = {} THEN 0 ELSE Min(who)
      By(parsed, hash) == {i \in DOMAIN addrs : parsed.ok /\ Verify(parsed, hash, addrs[i].id)}
  IN  First(By(parseSig(Front(sig), TRUE), calcSignatureHash(script, sig[Len(sig)], TRUE)))

\* One signature for every key that signed in either script, in the keys' order, and
\* empty items for those that are missing.
mergeMultiSig(addrs, nRequired, script, new, prev) ==
  LET Merge(sigs, who) ==
        LET have == SelectSeq(Up(1, Len(addrs)), LAMBDA a : \E i \in DOMAIN who : who[i] = a)
            used == SubSeq(have, 1, Min({nRequired, Len(have)}))
            SigOf(a) == sigs[Min({i \in DOMAIN who : who[i] = a})]
            done == Loop(LAMBDA b, a : AddData(b, SigOf(a)),
                         AddOp(NewScriptBuilder, OP_0), used)
        IN  Loop(LAMBDA b, i : AddOp(b, OP_0), done, Up(Len(used) + 1, nRequired)).script
      Signers(sigs) == [i \in DOMAIN sigs |-> SignerOf(script, addrs, sigs[i])]
  IN  IF new = <<>> THEN prev
      ELSE IF prev = <<>> THEN new
      ELSE IF ~checkScriptParses(new) THEN prev
      ELSE IF ~checkScriptParses(prev) THEN new
      ELSE Only({Only({Merge(sigs, who) : who \in {Signers(sigs)}}) :
                   sigs \in {extractSigs(new) \o extractSigs(prev)}})

\* A redeem script is never itself a pay-to-script-hash script here, so the recursion
\* is one level deep.
MergeFlat(script, new, prev) ==
  LET For(x) == IF x.class = "multisig" THEN mergeMultiSig(x.addrs, x.req, script, new, prev)
                ELSE IF Len(new) > Len(prev) THEN new ELSE prev
  IN  For(ExtractPkScriptAddrs(script))
mergeScripts(script, new, prev) ==
  LET Hashed(redeem) ==
        AddData(AddOps(NewScriptBuilder, MergeFlat(redeem, new, prev)), redeem).script
  IN  IF GetScriptClass(script) # "scripthash" THEN MergeFlat(script, new, prev)
      ELSE IF new = <<>> \/ ~checkScriptParses(new) THEN prev
      ELSE IF prev = <<>> \/ ~checkScriptParses(prev) THEN new
      ELSE Hashed(finalOpcodeData(new))

SignTxOutput(j, wallet, prev) ==
  LET Signed(script) == sign(script, j.hashType, wallet, j.redeem)
      Hashed(redeem, inner) ==
        [inner EXCEPT !.script = AddData(AddOps(NewScriptBuilder, @), redeem).script]
      Both(first) == IF ~first.ok \/ GetScriptClass(j.pk) # "scripthash" THEN first
                     ELSE Hashed(first.script, Signed(first.script))
      Merged(r) == IF r.ok THEN Made(mergeScripts(j.pk, r.script, prev)) ELSE SignErr
  IN  Merged(Both(Signed(j.pk)))

-----------------------------------------------------------------------------
(* Parties sign in any order; one that cannot sign hands on what it got.     *)

SignInit == job \in Jobs /\ signed = <<>> /\ sigScript = <<>> /\ witness = <<>>
SignTurn(wallet) ==
  /\ Len(signed) < MaxTurns /\ ~IsWitnessProgram(job.pk)
  /\ signed' = Append(signed, wallet)
  /\ \E r \in {SignTxOutput(job, wallet, sigScript)} :
       sigScript' = IF r.ok THEN r.script ELSE sigScript
  /\ UNCHANGED <<job, witness>>

\* A witness output is signed once, by its key, its output key or the key of a leaf.
InternalKey == Pad(<<9>>, 32)
SignWitnessKeyHash(key) ==
  /\ extractWitnessPubKeyHash(job.pk) = hash160(key)
  /\ witness' = WitnessSignature(job.pk, job.hashType, key)
SignTaprootKey ==
  /\ job.leaves # <<>>
  /\ \E r \in {RawTxInTaprootSignature(extractWitnessV1KeyBytes(job.pk), job.hashType, job.allow)} :
       r.ok /\ witness' = <<r.sig>>
SignLeaf(key) ==
  /\ job.leaves # <<>>
  /\ \E i \in DOMAIN job.leaves, tree \in {AssembleTaprootScriptTree(job.leaves)} :
       \E r \in {RawTxInTapscriptSignature(job.leaves[i], job.hashType, key, job.allow)} :
         /\ r.ok /\ job.leaves[i] = addData(Tail(key)) \o <<OP_CHECKSIG>>
         /\ witness' = <<r.sig, job.leaves[i], ToBytes(ToControlBlock(tree, i, InternalKey))>>
SignWitness(wallet) ==
  /\ IsWitnessProgram(job.pk) /\ witness = <<>>
  /\ \/ \E key \in wallet : SignWitnessKeyHash(key)
     \/ SignTaprootKey
     \/ \E key \in wallet : SignLeaf(key)
  /\ signed' = Append(signed, wallet)
  /\ UNCHANGED <<job, sigScript>>
SignNext == \E w \in Wallets : SignTurn(w) \/ SignWitness(w)

-----------------------------------------------------------------------------
(* Properties.                                                               *)

\* The script whose signatures count: the redeem script, for a script hash.
Inner(j) ==
  IF GetScriptClass(j.pk) = "scripthash"
  THEN Only(GetScript(j.redeem, ExtractPkScriptAddrs(j.pk).addrs[1])) ELSE j.pk
\* The keys of those who signed are enough for it.
EnoughSigned ==
  \E x \in {ExtractPkScriptAddrs(Inner(job))} :
    x.req <= Cardinality({i \in DOMAIN x.addrs : GetKey(UNION Range(signed), x.addrs[i]) # {}})
Solved == Accepts([sig |-> sigScript, pk |-> job.pk, wit |-> witness,
                   lock |-> 0, sequence |-> 5, version |-> 2], job.flags)

\* A redeem script that is not multisig must be signed once only (mergeScripts).
MergeIsSafe ==
  Inner(job) # job.pk /\ GetScriptClass(Inner(job)) # "multisig" =>
    Cardinality({i \in DOMAIN signed : SignTxOutput(job, signed[i], <<>>).ok}) = 1

\* Once enough parties have signed, in whatever order and however often, the signature
\* script spends the output, but for what MergeIsSafe excludes.  Every witness the
\* package signs is accepted: its digest is the one the engine computes, for key
\* hashes, output keys and leaves, in either signature domain.
SignedSpends ==
  witness # <<>> \/ (~IsWitnessProgram(job.pk) /\ EnoughSigned /\ MergeIsSafe) => Solved

\* The same without the exception: "the results in previousScript will be merged in a
\* type-dependent manner with the newly generated signature script".
MergedSpends == ~IsWitnessProgram(job.pk) /\ EnoughSigned => Solved

-----------------------------------------------------------------------------
(***************************************************************************)
(* What the package's builders make is what its readers find: scripts      *)
(* built call by call, script forms and signatures edited byte by byte,    *)
(* and trees of leaves (package txscript).                                 *)
(***************************************************************************)

CONSTANTS
  PushItems, PushInts,   \* arguments of AddData and AddInt64
  MaxCalls,
  StrictSigs,            \* signatures in strict encoding, without a hash type
  FormScripts,           \* scripts of the standard forms
  EditBytes,             \* the bytes an edit writes
  MaxEdits,              \* of a signature; a form is edited once
  LeafScripts            \* leaves, in the order they join a tree

VARIABLE made            \* what is being made: a record with a kind

NoSpend(script) == [sig |-> script, pk |-> <<OP_1>>, wit |-> <<>>, lock |-> 0,
                    sequence |-> 0, version |-> 1]
Minimal(b) == Len(b) > 0 /\ b[1] < 128 /\ (Len(b) > 1 /\ b[1] = 0 => b[2] >= 128)

-----------------------------------------------------------------------------
(* Steps.                                                                    *)

CodecInit ==
  \/ made = [kind |-> "build", b |-> NewScriptBuilder, items |-> <<>>, calls |-> 0]
  \/ \E s \in StrictSigs : made = [kind |-> "sig", bytes |-> s, edits |-> 0]
  \/ \E s \in FormScripts : made = [kind |-> "form", bytes |-> s, edits |-> 0]
  \/ made = [kind |-> "tree", leaves |-> <<LeafScripts[1]>>]

\* A call of the builder, and the item its bytes push unless it failed.
Called(b, item) ==
  made' = [made EXCEPT !.b = b, !.calls = @ + 1,
                       !.items = IF b.err THEN @ ELSE Append(@, item)]
Building ==
  /\ made.kind = "build" /\ made.calls < MaxCalls
  /\ \/ \E d \in PushItems : Called(AddData(made.b, d), IF d = <<0>> THEN <<>> ELSE d)
     \/ \E n \in PushInts : Called(AddInt64(made.b, n), scriptNumBytes(n))
     \/ Called(AddOps(made.b, <<1, 200>>), <<200>>)

\* One byte is changed, dropped or added.
Editing ==
  /\ made.kind \in {"sig", "form"} /\ (made.kind = "sig" => made.edits < MaxEdits)
  /\ made.kind = "form" => made.edits = 0
  /\ \E b \in {made.bytes} :
       \E edited \in {[b EXCEPT ![i] = x] : i \in DOMAIN b, x \in EditBytes}
                       \cup {Front(b), Append(b, 1)} :
         made' = [made EXCEPT !.bytes = edited, !.edits = @ + 1]

Growing ==
  /\ made.kind = "tree" /\ Len(made.leaves) < Len(LeafScripts)
  /\ made' = [made EXCEPT !.leaves = Append(@, LeafScripts[Len(@) + 1])]

CodecNext == Building \/ Editing \/ Growing

-----------------------------------------------------------------------------
(* Properties.                                                               *)

\* A script the builder made, by whatever calls, pushes exactly the items it was given
\* (a single zero byte as the empty string), by the smallest opcodes the engine knows,
\* and never exceeds the size limit (AddData, AddInt64, AddOps).
BuiltAsCalled ==
  (made.kind = "build" /\ ~made.b.err) =>
    /\ Len(made.b.script) <= MaxScriptSize
    /\ Only({v.err = "none" /\ v.d = made.items /\ (made.items # <<>> => v.idx = 1) :
               v \in {Loop(LAMBDA v, i : Step(v), NewEngine(NoSpend(made.b.script), {"MinimalData"}),
                           Up(1, Len(made.items)))}})

StrictDer(sig) ==
  LET n == Len(sig)
  IN  /\ n \in minSigLen..maxSigLen
      /\ \E i \in 1..(n - 7) :
           LET r == SubSeq(sig, 5, 4 + i)  s == SubSeq(sig, 7 + i, n)
           IN  /\ sig = <<48, n - 2, 2, i>> \o r \o <<2, Len(s)>> \o s
               /\ Minimal(r) /\ Minimal(s)

\* The engine's check of an encoding, written byte by byte, accepts exactly the strict
\* encodings, and so does the parser the signature goes to next, but for integers that
\* are zero, which it refuses, and bytes after the end, which it drops
\* (checkSignatureEncoding, ParseDERSignature).
StrictlyEncoded ==
  made.kind = "sig" =>
    LET sig == made.bytes
        checked == checkSignatureEncoding([flags |-> {"DERSignatures"}], sig) = "none"
        parsed == parseSig(sig, TRUE).ok
    IN  /\ checked <=> StrictDer(sig)
        /\ parsed => StrictDer(SubSeq(sig, 1, sig[2] + 2))
        /\ checked /\ ~parsed =>
             \E i \in 1..Len(sig) - 1 : sig[i] = 1 /\ sig[i + 1] = 0

\* The two readers of an output's form agree, and the script made for the address that
\* was read is the script it was read from (GetScriptClass, ExtractPkScriptAddrs,
\* PayToAddrScript).
FormsAgree ==
  made.kind = "form" =>
    LET x == ExtractPkScriptAddrs(made.bytes)
    IN  /\ x.class = GetScriptClass(made.bytes)
        /\ x.class \notin {"multisig", "nulldata", "nonstandard"} /\ x.addrs # <<>> =>
             PayToAddrScript(x.addrs[1]) = made.bytes
        /\ x.class = "multisig" => Len(x.addrs) <= extractMultisigScriptDetails(made.bytes).num

\* Every leaf of a tree of different scripts can be spent: its control block, written
\* and read back, proves it is under the output key (AssembleTaprootScriptTree).
LeavesCommitted ==
  made.kind = "tree" =>
    \E tree \in {AssembleTaprootScriptTree(made.leaves)}, key \in {Pad(<<9>>, 32)} :
      \A i \in DOMAIN made.leaves :
        VerifyTaprootLeafCommitment(
          ParseControlBlock(ToBytes(ToControlBlock(tree, i, key))),
          ComputeTaprootOutputKey(key, tree.root), made.leaves[i]) = "none"
=============================================================================
