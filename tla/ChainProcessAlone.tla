------------------------- MODULE ChainProcessAlone --------------------------
(***************************************************************************)
(* Every step of ChainProcess preserves AInv: while the calls do not       *)
(* overlap, the lists of a call fit the best chain and the flags, and the  *)
(* best chain has only those invalid blocks that InvalidateBlock detaches. *)
(***************************************************************************)
EXTENDS ChainProcessLemmas

USE Zenon DEF Pcs, Ops, Flag, Actor

\* The node starts with it.
LEMMA InitAInv == Init => AInv
<1> SUFFICES ASSUME Init PROVE AInv
  OBVIOUS
<1>1. \A p \in Actor : call[p] = Idle
  BY DEF Init
<1>2. \A x \in Chain[best] : ~KnownInvalid(flags, x)
  <2>1. Chain[Genesis] = {Genesis} /\ Genesis \in Block
    BY GenesisHeight, ChainElements, SMT
  <2> QED  BY <2>1 DEF Init, KnownInvalid
<1>3. \A p \in Actor : ListsOK(call[p], best, flags)
  BY <1>1, SMT DEF ListsOK, Idle, Moves
<1>4. SyncOK(call["sync"], best, flags) /\ ChainOK(call["rpc"], best, flags) /\ call["rpc"].pc = "idle"
  BY <1>1, <1>2, SMT DEF SyncOK, ChainOK, Idle, Moves
<1>5. StatusNamesDisk
  BY DEF Init, StatusNamesDisk
<1> QED  BY <1>3, <1>4, <1>5 DEF AInv

\* A step of p, whose call goes on with the record c.
LEMMA AloneStep ==
    ASSUME IInv, AInv, NEW p \in Actor, NEW c \in Call, call' = [call EXCEPT ![p] = c],
           calls' = 0 => calls = 0 /\ (p = "rpc" => c.pc = "idle"),
           (~Overlap \/ calls' = 0) =>
               /\ Alone /\ \A q \in Actor \ {p} : call[q].pc = "idle"
               /\ utxoStatus' = utxoTip'
               /\ ListsOK(c, best', flags') /\ (p = "sync" => SyncOK(c, best', flags'))
               /\ crashes' = 0 => IF p = "rpc" THEN ChainOK(c, best', flags')
                                  ELSE \A x \in Chain[best'] : ~KnownInvalid(flags', x)
    PROVE  AInv'
<1>1. call'[p] = c /\ \A q \in Actor \ {p} : call'[q] = call[q]
  BY DEF IInv, TypeOK
<1>2. "sync" \in Actor /\ "rpc" \in Actor
  OBVIOUS
<1>3. calls' = 0 => call'["rpc"].pc = "idle"
  BY <1>1, <1>2 DEF AInv
<1>4. ASSUME ~Overlap \/ calls' = 0
      PROVE  /\ call'["sync"].pc = "idle" \/ call'["rpc"].pc = "idle"
             /\ utxoStatus' = utxoTip'
             /\ \A q \in Actor : ListsOK(call'[q], best', flags')
             /\ SyncOK(call'["sync"], best', flags')
             /\ crashes' = 0 => ChainOK(call'["rpc"], best', flags')
  <2>1. \A q \in Actor \ {p} : call[q].pc = "idle" /\ call'[q] = call[q]
    BY <1>1, <1>4
  <2>2. \A q \in Actor \ {p} : ListsOK(call[q], best', flags')
    <3>1. \A q \in Actor \ {p} : call[q].detach = <<>> /\ call[q].attach = <<>>
      BY <1>4, <2>1 DEF AInv, ListsOK, Moves
    <3> QED  BY <2>1, <3>1 DEF ListsOK, Moves
  <2>3. \A q \in Actor : ListsOK(call'[q], best', flags')
    BY <1>1, <1>4, <2>2
  <2>4. SyncOK(call'["sync"], best', flags')
    <3>1. CASE p = "sync"
      BY <1>1, <1>4, <3>1
    <3>2. CASE p = "rpc"
      <4>1. call'["sync"].pc = "idle"
        BY <1>2, <2>1, <3>2, SMT
      <4> QED  BY <4>1 DEF SyncOK, Moves
    <3> QED  BY <3>1, <3>2
  <2>5. crashes' = 0 => ChainOK(call'["rpc"], best', flags')
    <3>1. CASE p = "rpc"
      BY <1>1, <1>4, <3>1
    <3>2. CASE p = "sync"
      <4>1. call'["rpc"].pc = "idle"
        BY <1>2, <2>1, <3>2, SMT
      <4> QED  BY <1>4, <3>2, <4>1 DEF ChainOK, Moves
    <3> QED  BY <3>1, <3>2
  <2>6. call'["sync"].pc = "idle" \/ call'["rpc"].pc = "idle"
    BY <1>2, <2>1, SMT
  <2> QED  BY <1>4, <2>3, <2>4, <2>5, <2>6
<1>5. AInv' = /\ calls' = 0 => call'["rpc"].pc = "idle"
              /\ ~Overlap \/ calls' = 0 =>
                   /\ call'["sync"].pc = "idle" \/ call'["rpc"].pc = "idle"
                   /\ utxoStatus' = utxoTip'
                   /\ \A q \in Actor : ListsOK(call'[q], best', flags')
                   /\ SyncOK(call'["sync"], best', flags')
                   /\ crashes' = 0 => ChainOK(call'["rpc"], best', flags')
  BY DEF AInv, Alone, StatusNamesDisk, ListsOK, SyncOK, ChainOK, Detaching, Invalid, KnownInvalid
<1> QED  BY <1>3, <1>4, <1>5

\* A step that no part of AInv sees.
LEMMA AloneFrame ==
    ASSUME AInv, UNCHANGED <<flags, best, utxoTip, utxoStatus, call, calls, crashes>>
    PROVE  AInv'
<1>1. flags' = flags /\ best' = best /\ call' = call /\ calls' = calls /\ crashes' = crashes
  OBVIOUS
<1>2. utxoTip' = utxoTip /\ utxoStatus' = utxoStatus
  OBVIOUS
<1> QED  BY <1>1, <1>2 DEF AInv, Alone, StatusNamesDisk

\* What AInv says of a running call: there is no other.
LEMMA OnlyCall ==
    ASSUME AInv, Alone, NEW p \in Actor, call[p].pc # "idle"
    PROVE  \A q \in Actor \ {p} : call[q].pc = "idle"
BY SMT DEF AInv

\* Until a crash, only InvalidateBlock has an invalid block on the best chain.
LEMMA NoneInvalid ==
    ASSUME AInv, Alone, crashes = 0, call["rpc"].pc = "idle" \/ call["rpc"].op # "invalidate"
    PROVE  \A x \in Chain[best] : ~KnownInvalid(flags, x)
BY DEF AInv, ChainOK, Moves

\* A call that holds chainLock returns.
LEMMA AloneReturn ==
    ASSUME IInv, AInv, NEW p \in Actor, lock = p, Return(p),
           UNCHANGED <<utxoTip, utxoStatus, calls, crashes>>,
           Alone /\ crashes = 0 => \A x \in Chain[best'] : ~KnownInvalid(flags', x)
    PROVE  AInv'
<1>1. Idle \in Call /\ Idle.pc = "idle" /\ Idle.detach = <<>> /\ Idle.attach = <<>>
  <2>1. <<>> \in Seq(Block)
    BY SMT
  <2> QED  BY <2>1 DEF Idle, Call
<1>2. call' = [call EXCEPT ![p] = Idle]
  BY DEF Return
<1>3. call[p].pc # "idle"
  BY DEF IInv, Control, Holds
<1>4. ASSUME ~Overlap \/ calls' = 0
      PROVE  /\ Alone /\ \A q \in Actor \ {p} : call[q].pc = "idle"
             /\ utxoStatus' = utxoTip'
             /\ ListsOK(Idle, best', flags') /\ SyncOK(Idle, best', flags')
             /\ crashes' = 0 => /\ ChainOK(Idle, best', flags')
                                /\ \A x \in Chain[best'] : ~KnownInvalid(flags', x)
  <2>1. Alone
    BY <1>4 DEF Alone
  <2>2. \A q \in Actor \ {p} : call[q].pc = "idle"
    BY <1>3, <2>1, OnlyCall
  <2>3. ListsOK(Idle, best', flags') /\ SyncOK(Idle, best', flags')
    BY <1>1 DEF ListsOK, SyncOK, Moves
  <2>4. crashes' = 0 => /\ ChainOK(Idle, best', flags')
                        /\ \A x \in Chain[best'] : ~KnownInvalid(flags', x)
    BY <1>1, <2>1 DEF ChainOK, Moves
  <2> QED  BY <2>1, <2>2, <2>3, <2>4 DEF AInv, StatusNamesDisk
<1> QED  BY <1>1, <1>2, <1>4, AloneStep

\* A block arrives (ProcessBlock).
LEMMA AloneArrival ==
    ASSUME IInv, AInv, NEW b \in Block \ {Genesis}, ProcessOrphanBlock(b) \/ ProcessBlock(b)
    PROVE  AInv'
<1>1. CASE ProcessOrphanBlock(b)
  BY <1>1, AloneFrame DEF ProcessOrphanBlock, nodeVars, utxoVars, counters
<1>2. CASE ProcessBlock(b)
  <2> DEFINE c == [Idle EXCEPT !.pc = "accept", !.node = b]
  <2>1. /\ UNCHANGED <<flags, best, utxoTip, utxoStatus, calls, crashes>>
        /\ Free("sync") /\ call' = [call EXCEPT !["sync"] = c]
    BY <1>2 DEF ProcessBlock, nodeVars, utxoVars, counters
  <2>2. c \in Call /\ c.pc = "accept" /\ c.detach = <<>> /\ c.attach = <<>> /\ "sync" \in Actor
    <3>1. <<>> \in Seq(Block)
      BY SMT
    <3> QED  BY <3>1 DEF Idle, Call
  <2> HIDE DEF c
  <2>3. ASSUME ~Overlap \/ calls' = 0
        PROVE  /\ Alone /\ \A q \in Actor \ {"sync"} : call[q].pc = "idle"
               /\ utxoStatus' = utxoTip'
               /\ ListsOK(c, best', flags') /\ SyncOK(c, best', flags')
               /\ crashes' = 0 => \A x \in Chain[best'] : ~KnownInvalid(flags', x)
    <3>1. Alone
      BY <2>1, <2>3 DEF Alone
    <3>2. call["rpc"].pc = "idle"
      BY <2>1, <2>3 DEF AInv, Free
    <3>3. ListsOK(c, best', flags') /\ SyncOK(c, best', flags')
      BY <2>2 DEF ListsOK, SyncOK, Moves
    <3>4. crashes' = 0 => \A x \in Chain[best'] : ~KnownInvalid(flags', x)
      BY <2>1, <3>1, <3>2, NoneInvalid
    <3> QED  BY <2>1, <3>1, <3>2, <3>3, <3>4 DEF AInv, StatusNamesDisk
  <2>4. calls' = 0 => calls = 0
    BY <2>1
  <2> QED  BY <2>1, <2>2, <2>3, <2>4, AloneStep
<1> QED  BY <1>1, <1>2

\* maybeAcceptBlock.
LEMMA AloneAccept ==
    ASSUME IInv, AInv, maybeAcceptBlock
    PROVE  AInv'
<1> DEFINE b == call["sync"].node
           c == [call["sync"] EXCEPT !.pc = "best"]
<1>0. TypeOK /\ Control /\ "sync" \in Actor
  BY DEF IInv
<1>1. /\ UNCHANGED <<best, utxoTip, utxoStatus, calls, crashes>>
      /\ lock = "sync" /\ call["sync"].pc = "accept"
      /\ \/ Return("sync") /\ UNCHANGED flags
         \/ flags' = [flags EXCEPT ![b] = {"data"}] /\ call' = [call EXCEPT !["sync"] = c]
  BY DEF maybeAcceptBlock, At, Goto, utxoVars, counters, nodeVars
<1>2. Alone => call["rpc"].pc = "idle"
  BY <1>1 DEF AInv
<1>3. Alone /\ crashes = 0 => \A x \in Chain[best] : ~KnownInvalid(flags, x)
  BY <1>2, NoneInvalid
<1>4. CASE Return("sync") /\ UNCHANGED flags
  BY <1>0, <1>1, <1>3, <1>4, AloneReturn
<1>5. CASE flags' = [flags EXCEPT ![b] = {"data"}] /\ call' = [call EXCEPT !["sync"] = c]
  <2>1. /\ c \in Call /\ c.pc = "best" /\ c.node = b
        /\ c.detach = call["sync"].detach /\ c.attach = call["sync"].attach
    BY <1>0 DEF TypeOK, Call
  <2> HIDE DEF c
  <2>2. b \in Block
    BY <1>0, <1>1 DEF Control, InControl
  <2>3. \A x \in Block : KnownInvalid(flags', x) => KnownInvalid(flags, x)
    BY <1>0, <1>5, <2>2 DEF TypeOK, KnownInvalid
  <2>4. ~KnownInvalid(flags', b)
    BY <1>0, <1>5, <2>2 DEF TypeOK, KnownInvalid
  <2>5. ASSUME ~Overlap \/ calls' = 0
        PROVE  /\ Alone /\ \A q \in Actor \ {"sync"} : call[q].pc = "idle"
               /\ utxoStatus' = utxoTip'
               /\ ListsOK(c, best', flags') /\ SyncOK(c, best', flags')
               /\ crashes' = 0 => \A x \in Chain[best'] : ~KnownInvalid(flags', x)
    <3>1. Alone
      BY <1>1, <2>5 DEF Alone
    <3>2. ListsOK(c, best', flags') /\ SyncOK(c, best', flags')
      BY <1>0, <1>1, <2>1, <2>4, <3>1 DEF AInv, ListsOK, SyncOK, Moves
    <3>3. Chain[best] \subseteq Block
      BY <1>0, ChainElements DEF TypeOK
    <3>4. crashes' = 0 => \A x \in Chain[best'] : ~KnownInvalid(flags', x)
      BY <1>1, <1>3, <2>3, <3>1, <3>3
    <3> QED  BY <1>1, <1>2, <3>1, <3>2, <3>4 DEF AInv, StatusNamesDisk
  <2>6. calls' = 0 => calls = 0
    BY <1>1
  <2> QED  BY <1>0, <1>5, <2>1, <2>5, <2>6, AloneStep
<1> QED  BY <1>1, <1>4, <1>5

\* A running call of p goes on with the record c.
LEMMA AloneGoes ==
    ASSUME IInv, AInv, NEW p \in Actor, call[p].pc # "idle",
           NEW c \in Call, call' = [call EXCEPT ![p] = c], UNCHANGED <<calls, crashes>>,
           Alone => /\ utxoStatus' = utxoTip'
                    /\ ListsOK(c, best', flags') /\ (p = "sync" => SyncOK(c, best', flags'))
                    /\ crashes = 0 => IF p = "rpc" THEN ChainOK(c, best', flags')
                                      ELSE \A x \in Chain[best'] : ~KnownInvalid(flags', x)
    PROVE  AInv'
<1>1. calls' = 0 => calls = 0 /\ (p = "rpc" => c.pc = "idle")
  BY DEF AInv
<1>2. ~Overlap \/ calls' = 0 => Alone
  BY DEF Alone
<1>3. Alone => \A q \in Actor \ {p} : call[q].pc = "idle"
  BY OnlyCall
<1> QED  BY <1>1, <1>2, <1>3, AloneStep

\* connectBestChain.
LEMMA AloneConnectBest ==
    ASSUME IInv, AInv, connectBestChain
    PROVE  AInv'
<1> DEFINE b == call["sync"].node
           r == getReorganizeNodes(flags, b)
           v == verifyReorganizationValidity(r.flags, r.detach, r.attach)
<1>0. TypeOK /\ Control /\ FlagsInv /\ "sync" \in Actor /\ flags \in Status /\ best \in Block /\ Checked(flags)
  BY DEF IInv, FlagsInv, TypeOK, Status
<1>1. /\ UNCHANGED <<best, utxoTip, utxoStatus, calls, crashes>>
      /\ lock = "sync" /\ call["sync"].pc = "best"
  BY DEF connectBestChain, At, orphanVars, utxoVars, counters
<1>2. b \in Block \ {Genesis}
  BY <1>0, <1>1 DEF Control, InControl
<1>3. /\ Alone => call["rpc"].pc = "idle"
      /\ Alone => /\ ~KnownInvalid(flags, b) /\ utxoStatus' = utxoTip'
                  /\ call["sync"].detach = <<>> /\ call["sync"].attach = <<>>
  BY <1>0, <1>1 DEF AInv, ListsOK, SyncOK, StatusNamesDisk, Moves
<1>4. /\ Alone /\ crashes = 0 => \A x \in Chain[best] : ~KnownInvalid(flags, x)
      /\ Chain[best] \subseteq Block
  BY <1>0, <1>3, NoneInvalid, ChainElements
<1>5. ASSUME Parent[b] = best, b \notin BadScript, flags' = SetStatusFlags(flags, {b}, "valid"),
             call' = [call EXCEPT !["sync"].pc = "reorganize", !["sync"].op = "extend",
                                  !["sync"].attach = <<b>>]
      PROVE  AInv'
  <2> DEFINE c == [call["sync"] EXCEPT !.pc = "reorganize", !.op = "extend", !.attach = <<b>>]
  <2>1. call' = [call EXCEPT !["sync"] = c]
    BY <1>5
  <2>2. c \in Call /\ c.pc = "reorganize" /\ c.op = "extend" /\ c.attach = <<b>> /\ c.node = b /\ c.detach = call["sync"].detach
    <3>1. <<b>> \in Seq(Block)
      BY <1>2, SMT
    <3> QED  BY <1>0, <3>1 DEF TypeOK, Call
  <2> HIDE DEF c
  <2>3. \A x \in Block : KnownInvalid(flags', x) <=> KnownInvalid(flags, x)
    BY <1>0, <1>2, <1>5, ValidFlag, SMT
  <2>4. b \notin Chain[best]
    BY <1>2, <1>5, ChainOfParent
  <2>5. ASSUME Alone PROVE ListsOK(c, best', flags') /\ SyncOK(c, best', flags')
    <3>1. ~KnownInvalid(flags', b)
      BY <1>2, <1>3, <2>3, <2>5
    <3>2. Len(c.attach) = 1 /\ c.attach[1] = b /\ c.attach # <<>> /\ c.detach = <<>>
      BY <1>3, <2>2, <2>5, SMT
    <3> QED  BY <1>1, <2>2, <2>4, <3>1, <3>2, SMT DEF ListsOK, SyncOK, Moves
  <2>6. Alone /\ crashes = 0 => \A x \in Chain[best'] : ~KnownInvalid(flags', x)
    BY <1>1, <1>4, <2>3
  <2> QED  BY <1>0, <1>1, <1>3, <2>1, <2>2, <2>5, <2>6, AloneGoes
<1>6. ASSUME Parent[b] = best, b \in Bad, flags' = SetStatusFlags(flags, {b}, "failed"), Return("sync")
      PROVE  AInv'
  <2>1. \A x \in Block : KnownInvalid(flags', x) <=> KnownInvalid(flags, x) \/ x = b
    BY <1>0, <1>2, <1>6, FailedFlag, SMT
  <2>2. b \notin Chain[best]
    BY <1>2, <1>6, ChainOfParent
  <2>3. Alone /\ crashes = 0 => \A x \in Chain[best'] : ~KnownInvalid(flags', x)
    BY <1>1, <1>4, <2>1, <2>2
  <2> QED  BY <1>0, <1>1, <1>6, <2>3, AloneReturn
<1>7. ASSUME ~MoreWork(b), Goto("sync", "accepted"), flags' = flags
      PROVE  AInv'
  <2> DEFINE c == [call["sync"] EXCEPT !.pc = "accepted"]
  <2>1. call' = [call EXCEPT !["sync"] = c]
    BY <1>7 DEF Goto
  <2>2. c \in Call /\ c.pc = "accepted" /\ c.node = b /\ c.detach = call["sync"].detach /\ c.attach = call["sync"].attach
    <3>1. call["sync"] \in Call
      BY <1>0 DEF TypeOK
    <3> QED  BY <3>1 DEF Call
  <2> HIDE DEF c
  <2>3. Work[b] <= Work[best]
    BY <1>0, <1>2, <1>7, ChainAssumption, SMT DEF MoreWork
  <2>4. Alone => ListsOK(c, best', flags') /\ SyncOK(c, best', flags')
    BY <1>1, <1>3, <2>2, <2>3 DEF ListsOK, SyncOK, Moves
  <2> QED  BY <1>0, <1>1, <1>3, <1>4, <1>7, <2>1, <2>2, <2>4, AloneGoes
<1>8. ASSUME MoreWork(b)
      PROVE  /\ b \notin Chain[best]
             /\ r.detach \in Seq(Block) /\ r.attach \in Seq(Block)
             /\ \A x \in Block : x \in Chain[best] /\ KnownInvalid(v.flags, x) => KnownInvalid(flags, x)
             /\ v.ok => \/ /\ r.detach = <<>> /\ r.attach = <<>>
                           /\ \E a \in Chain[b] : KnownInvalid(v.flags, a)
                        \/ /\ r.attach = Branch(b)
                           /\ \A i \in 1..Len(r.attach) : ~KnownInvalid(v.flags, r.attach[i])
  <2>1. b \notin Chain[best]
    BY <1>0, <1>2, <1>8, HeavierIsOff DEF MoreWork
  <2> QED  BY ONLY <1>0, <1>2, <2>1, Reorganization
<1>9. ASSUME MoreWork(b), ~v.ok, flags' = v.flags, Return("sync")
      PROVE  AInv'
  <2>1. Alone /\ crashes = 0 => \A x \in Chain[best'] : ~KnownInvalid(flags', x)
    BY <1>1, <1>4, <1>8, <1>9
  <2> QED  BY <1>0, <1>1, <1>9, <2>1, AloneReturn
<1>10. ASSUME MoreWork(b), v.ok, flags' = v.flags,
              call' = [call EXCEPT !["sync"].pc = "reorganize", !["sync"].op = "process",
                                   !["sync"].detach = r.detach, !["sync"].attach = r.attach]
       PROVE  AInv'
  <2> DEFINE c == [call["sync"] EXCEPT !.pc = "reorganize", !.op = "process",
                                       !.detach = r.detach, !.attach = r.attach]
  <2>1. call' = [call EXCEPT !["sync"] = c]
    BY <1>10
  <2>2. /\ c \in Call /\ c.pc = "reorganize" /\ c.op = "process" /\ c.node = b
        /\ c.detach = r.detach /\ c.attach = r.attach
    <3>1. call["sync"] \in Call /\ r.detach \in Seq(Block) /\ r.attach \in Seq(Block)
      BY <1>0, <1>8, <1>10 DEF TypeOK
    <3> HIDE DEF r
    <3> QED  BY <3>1 DEF Call
  <2>3. b \notin Chain[best] /\ flags' = v.flags
    BY <1>8, <1>10
  <2>4. \/ c.detach = <<>> /\ c.attach = <<>> /\ \E a \in Chain[b] : KnownInvalid(flags', a)
        \/ c.attach = Branch(b) /\ \A i \in 1..Len(c.attach) : ~KnownInvalid(flags', c.attach[i])
    BY <1>8, <1>10, <2>2
  <2>5. Alone /\ crashes = 0 => \A x \in Chain[best'] : ~KnownInvalid(flags', x)
    BY <1>1, <1>4, <1>8, <1>10
  <2> HIDE DEF c, r, v
  <2>6. ListsOK(c, best', flags') /\ SyncOK(c, best', flags')
    <3>1. CASE c.detach = <<>> /\ c.attach = <<>> /\ \E a \in Chain[b] : KnownInvalid(flags', a)
      <4>1. Invalid(flags', b)
        BY <3>1 DEF Invalid
      <4> QED  BY <2>2, <3>1, <4>1, SMT DEF ListsOK, SyncOK, Moves
    <3>2. CASE c.attach = Branch(b) /\ \A i \in 1..Len(c.attach) : ~KnownInvalid(flags', c.attach[i])
      <4>1. /\ c.attach # <<>> /\ c.attach[Len(c.attach)] = b
            /\ \A i, j \in 1..Len(c.attach) : c.attach[i] = c.attach[j] => i = j
            /\ \A i \in 1..Len(c.attach) : c.attach[i] \notin Chain[best]
        BY <1>0, <1>2, <2>3, <3>2, BranchOff, SMT
      <4> QED  BY <1>1, <2>2, <3>2, <4>1 DEF ListsOK, SyncOK, Moves
    <3> QED  BY <2>4, <3>1, <3>2
  <2> QED  BY <1>0, <1>1, <1>3, <2>1, <2>2, <2>5, <2>6, AloneGoes
<1> QED
  <2> HIDE DEF r, v
  <2>1. \/ /\ Parent[b] = best /\ checkConnectBlock(b) /\ flags' = SetStatusFlags(flags, {b}, "valid")
           /\ call' = [call EXCEPT !["sync"].pc = "reorganize", !["sync"].op = "extend",
                                   !["sync"].attach = <<b>>]
        \/ /\ Parent[b] = best /\ ~checkConnectBlock(b) /\ flags' = SetStatusFlags(flags, {b}, "failed")
           /\ Return("sync")
        \/ ~MoreWork(b) /\ Goto("sync", "accepted") /\ flags' = flags
        \/ MoreWork(b) /\ ~v.ok /\ flags' = v.flags /\ Return("sync")
        \/ /\ MoreWork(b) /\ v.ok /\ flags' = v.flags
           /\ call' = [call EXCEPT !["sync"].pc = "reorganize", !["sync"].op = "process",
                                   !["sync"].detach = r.detach, !["sync"].attach = r.attach]
    BY Zenon DEF connectBestChain, nodeVars, r, v
  <2>2. (checkConnectBlock(b) => b \notin BadScript) /\ (~checkConnectBlock(b) => b \in Bad)
    BY DEF checkConnectBlock, Bad
  <2> QED  BY <2>1, <2>2, <1>5, <1>6, <1>7, <1>9, <1>10

\* maybeAcceptBlock, when the chain has moved.
LEMMA AloneFinishAccept ==
    ASSUME IInv, AInv, FinishAccept
    PROVE  AInv'
<1> DEFINE b == call["sync"].node
           c == [call["sync"] EXCEPT !.pc = "accepted"]
<1>0. TypeOK /\ Control /\ FlagsInv /\ "sync" \in Actor /\ flags \in Status /\ best \in Block /\ Checked(flags)
  BY DEF IInv, FlagsInv, TypeOK, Status
<1>1. /\ UNCHANGED <<best, utxoTip, utxoStatus, calls, crashes>>
      /\ lock = "sync" /\ call["sync"].pc = "reorganize"
      /\ call["sync"].detach = <<>> /\ call["sync"].attach = <<>>
      /\ call' = [call EXCEPT !["sync"] = c]
      /\ \/ flags' = flags
         \/ flags' = SetStatusFlags(flags, {b}, "valid") /\ call["sync"].op = "extend"
  BY DEF FinishAccept, At, Goto, utxoVars, counters, nodeVars
<1>2. b \in Block \ {Genesis} /\ (call["sync"].op = "extend" => b \notin BadScript)
  BY <1>0, <1>1 DEF Control, InControl, Moves
<1>3. c \in Call /\ c.pc = "accepted" /\ c.node = b /\ c.detach = <<>> /\ c.attach = <<>>
  BY <1>0, <1>1 DEF TypeOK, Call
<1> HIDE DEF c
<1>4. \A x \in Block : KnownInvalid(flags', x) <=> KnownInvalid(flags, x)
  BY <1>0, <1>1, <1>2, ValidFlag
<1>5. Chain[best] \subseteq Block /\ Chain[b] \subseteq Block
  BY <1>0, <1>2, ChainElements
<1>6. Alone => /\ call["rpc"].pc = "idle" /\ utxoStatus' = utxoTip'
               /\ best = b \/ Invalid(flags, b)
  BY <1>0, <1>1 DEF AInv, SyncOK, StatusNamesDisk, Moves
<1>7. Alone => ListsOK(c, best', flags') /\ SyncOK(c, best', flags')
  <2>1. Alone => Work[b] <= Work[best] \/ Invalid(flags', b)
    BY <1>0, <1>4, <1>5, <1>6, ChainAssumption, SMT DEF Invalid
  <2> QED  BY <1>1, <1>3, <2>1 DEF ListsOK, SyncOK, Moves
<1>8. Alone /\ crashes = 0 => \A x \in Chain[best'] : ~KnownInvalid(flags', x)
  BY <1>1, <1>4, <1>5, <1>6, NoneInvalid
<1> QED  BY <1>0, <1>1, <1>3, <1>6, <1>7, <1>8, AloneGoes

\* ProcessBlock, after the notification.
LEMMA AloneResumeAccepted ==
    ASSUME IInv, AInv, ResumeAccepted
    PROVE  AInv'
<1> DEFINE c == [call["sync"] EXCEPT !.pc = "orphans", !.op = "none",
                                     !.queue = Append(call["sync"].queue, call["sync"].node)]
<1>0. TypeOK /\ Control /\ "sync" \in Actor
  BY DEF IInv
<1>1. /\ UNCHANGED <<flags, best, utxoTip, utxoStatus, calls, crashes>>
      /\ call["sync"].pc = "accepted" /\ call' = [call EXCEPT !["sync"] = c]
  BY DEF ResumeAccepted, utxoVars, counters, nodeVars
<1>2. c \in Call /\ c.pc = "orphans" /\ c.detach = call["sync"].detach /\ c.attach = call["sync"].attach
  <2>1. call["sync"].node \in Block /\ call["sync"].queue \in Seq(Block)
    BY <1>0, <1>1, CallFields DEF Control, InControl
  <2>2. Append(call["sync"].queue, call["sync"].node) \in Seq(Block)
    BY <2>1, SMT
  <2> QED  BY <1>0, <2>2 DEF TypeOK, Call
<1> HIDE DEF c
<1>3. Alone => /\ call["rpc"].pc = "idle" /\ utxoStatus' = utxoTip'
               /\ ListsOK(c, best', flags') /\ SyncOK(c, best', flags')
  BY <1>0, <1>1, <1>2 DEF AInv, ListsOK, SyncOK, StatusNamesDisk, Moves
<1>4. Alone /\ crashes = 0 => \A x \in Chain[best'] : ~KnownInvalid(flags', x)
  BY <1>1, <1>3, NoneInvalid
<1> QED  BY <1>0, <1>1, <1>2, <1>3, <1>4, AloneGoes

\* processOrphans.
LEMMA AloneProcessOrphans ==
    ASSUME IInv, AInv, processOrphans
    PROVE  AInv'
<1> DEFINE q == call["sync"].queue
<1>0. TypeOK /\ Control /\ "sync" \in Actor /\ q \in Seq(Block) /\ orphans \in Seq(Block)
  BY CallFields DEF IInv, TypeOK
<1>1. /\ UNCHANGED <<flags, best, utxoTip, utxoStatus, calls, crashes>>
      /\ lock = "sync" /\ call["sync"].pc = "orphans"
      /\ \/ Return("sync")
         \/ q # <<>> /\ call' = [call EXCEPT !["sync"].queue = Tail(@)]
         \/ \E i \in DOMAIN orphans :
               call' = [call EXCEPT !["sync"].pc = "accept", !["sync"].node = orphans[i]]
  BY DEF processOrphans, At, utxoVars, counters, nodeVars
<1>2. Alone => /\ call["rpc"].pc = "idle" /\ utxoStatus' = utxoTip'
               /\ call["sync"].detach = <<>> /\ call["sync"].attach = <<>>
  BY <1>0, <1>1 DEF AInv, ListsOK, StatusNamesDisk, Moves
<1>3. Alone /\ crashes = 0 => \A x \in Chain[best'] : ~KnownInvalid(flags', x)
  BY <1>1, <1>2, NoneInvalid
<1>4. CASE Return("sync")
  BY <1>0, <1>1, <1>3, <1>4, AloneReturn
<1>5. ASSUME NEW c \in Call, call' = [call EXCEPT !["sync"] = c], c.pc \in {"orphans", "accept"},
             c.detach = call["sync"].detach, c.attach = call["sync"].attach
      PROVE  AInv'
  <2>1. Alone => ListsOK(c, best', flags') /\ SyncOK(c, best', flags')
    BY <1>2, <1>5 DEF ListsOK, SyncOK, Moves
  <2> QED  BY <1>0, <1>1, <1>2, <1>3, <1>5, <2>1, AloneGoes
<1>6. CASE q # <<>> /\ call' = [call EXCEPT !["sync"].queue = Tail(@)]
  <2> DEFINE c == [call["sync"] EXCEPT !.queue = Tail(q)]
  <2>1. /\ c \in Call /\ c.pc = "orphans" /\ c.detach = call["sync"].detach
        /\ c.attach = call["sync"].attach
    <3>1. Tail(q) \in Seq(Block)
      BY <1>0, <1>6, SMT
    <3>2. call["sync"] \in Call
      BY <1>0 DEF TypeOK
    <3> QED  BY <1>1, <3>1, <3>2 DEF Call
  <2>2. call' = [call EXCEPT !["sync"] = c]
    BY <1>0, <1>6 DEF TypeOK
  <2> QED  BY <1>5, <2>1, <2>2
<1>7. ASSUME NEW i \in DOMAIN orphans,
             call' = [call EXCEPT !["sync"].pc = "accept", !["sync"].node = orphans[i]]
      PROVE  AInv'
  <2> DEFINE c == [call["sync"] EXCEPT !.pc = "accept", !.node = orphans[i]]
  <2>1. /\ c \in Call /\ c.pc = "accept" /\ c.detach = call["sync"].detach
        /\ c.attach = call["sync"].attach
    <3>1. orphans[i] \in Block
      BY <1>0, SMT
    <3> QED  BY <1>0, <3>1 DEF TypeOK, Call
  <2>2. call' = [call EXCEPT !["sync"] = c]
    BY <1>7
  <2> QED  BY <1>5, <2>1, <2>2
<1> QED  BY <1>1, <1>4, <1>6, <1>7

\* What AInv says of a call that moves the best chain.
LEMMA Moving ==
    ASSUME IInv, AInv, Alone, NEW p \in Actor, call[p].pc \in Moves
    PROVE  /\ utxoStatus = utxoTip
           /\ ListsOK(call[p], best, flags)
           /\ p = "sync" => SyncOK(call[p], best, flags)
           /\ crashes = 0 => ChainOK(call[p], best, flags)
<1>1. p = "sync" => call["rpc"].pc = "idle" /\ call["sync"].op # "invalidate"
  BY DEF AInv, IInv, Control, InControl, Moves
<1>2. CASE p = "sync"
  <2>1. crashes = 0 => \A x \in Chain[best] : ~KnownInvalid(flags, x)
    BY <1>1, <1>2, NoneInvalid
  <2>2. crashes = 0 => ChainOK(call[p], best, flags)
    BY <1>1, <1>2, <2>1 DEF ChainOK
  <2> QED  BY <1>2, <2>2 DEF AInv, StatusNamesDisk
<1>3. CASE p = "rpc"
  BY <1>3 DEF AInv, StatusNamesDisk
<1> QED  BY <1>2, <1>3

\* A call that moves the best chain goes on moving it.
LEMMA AloneMoves ==
    ASSUME IInv, AInv, NEW p \in Actor, call[p].pc \in Moves,
           NEW c \in Call, call' = [call EXCEPT ![p] = c], UNCHANGED <<calls, crashes>>,
           c.pc \in Moves, c.op = call[p].op, c.node = call[p].node,
           Alone => /\ utxoStatus' = utxoTip'
                    /\ ListsOK(c, best', flags') /\ (p = "sync" => SyncOK(c, best', flags'))
                    /\ crashes = 0 => ChainOK(c, best', flags')
    PROVE  AInv'
<1>1. call[p].pc # "idle"
  BY DEF Moves
<1>2. p = "sync" => c.op # "invalidate"
  BY DEF IInv, Control, InControl
<1>3. Alone /\ crashes = 0 => IF p = "rpc" THEN ChainOK(c, best', flags')
                              ELSE \A x \in Chain[best'] : ~KnownInvalid(flags', x)
  <2>1. p # "rpc" => p = "sync"
    OBVIOUS
  <2> QED  BY <1>2, <2>1 DEF ChainOK
<1> QED  BY <1>1, <1>3, AloneGoes

\* The list of InvalidateBlock begins with the tip.
LEMMA HeadIsTip ==
    ASSUME NEW tip \in Block, NEW f, NEW s \in Seq(Block), Detaching(s, tip, f), s # <<>>
    PROVE  Head(s) = tip
<1>1. 1 \in 1..Len(s) /\ s[1] \in Chain[tip] /\ KnownInvalid(f, s[1]) /\ Head(s) = s[1]
  BY SMT DEF Detaching
<1>2. tip \in Chain[tip]
  BY ChainElements
<1>3. KnownInvalid(f, tip)
  BY <1>1, <1>2 DEF Detaching
<1>4. PICK i \in 1..Len(s) : s[i] = tip
  BY <1>2, <1>3 DEF Detaching
<1>5. Height(s[1]) <= Height(tip) /\ Height(s[1]) \in Nat /\ Height(tip) \in Nat
  BY <1>1, ChainOfAncestor, PathType
<1>6. ~(1 < i)
  BY <1>1, <1>4, <1>5, SMT DEF Detaching
<1>7. i = 1
  BY <1>6, SMT
<1> QED  BY <1>1, <1>4, <1>7

\* reorganizeChain, before it detaches a block.
LEMMA AloneStartDisconnect ==
    ASSUME IInv, AInv, NEW p \in Actor, StartDisconnect(p)
    PROVE  AInv'
<1>0. TypeOK /\ Control /\ best \in Block
  BY DEF IInv, TypeOK
<1>1. /\ UNCHANGED <<best, utxoTip, utxoStatus, calls, crashes>> /\ flags' = flags
      /\ lock = p /\ call[p].pc = "reorganize" /\ call[p].detach # <<>>
      /\ \/ call' = [call EXCEPT ![p] = [call[p] EXCEPT !.pc = "disconnect"]]
         \/ Head(call[p].detach) # best /\ Return(p)
  BY DEF StartDisconnect, Fails, At, Goto, utxoVars, counters
<1>2. Alone => /\ utxoStatus = utxoTip
               /\ ListsOK(call[p], best, flags)
               /\ p = "sync" => SyncOK(call[p], best, flags)
               /\ crashes = 0 => ChainOK(call[p], best, flags)
  BY <1>1, Moving DEF Moves
<1>3. CASE call' = [call EXCEPT ![p] = [call[p] EXCEPT !.pc = "disconnect"]]
  <2> DEFINE c == [call[p] EXCEPT !.pc = "disconnect"]
  <2>1. /\ c \in Call /\ c.pc = "disconnect" /\ c.node = call[p].node
        /\ c.op = call[p].op /\ c.detach = call[p].detach /\ c.attach = call[p].attach
    BY MoveOn, SMT DEF Moves
  <2>2. call' = [call EXCEPT ![p] = c]
    BY <1>3
  <2> HIDE DEF c
  <2>3. Alone => ListsOK(c, best', flags')
    BY <1>1, <1>2, <2>1 DEF ListsOK, Moves
  <2>4. Alone => (p = "sync" => SyncOK(c, best', flags'))
    BY <1>1, <1>2, <2>1 DEF SyncOK, Moves
  <2>5. Alone /\ crashes = 0 => ChainOK(c, best', flags')
    BY <1>1, <1>2, <2>1 DEF ChainOK, Moves
  <2>6. call[p].pc \in Moves /\ c.pc \in Moves
    BY <1>1, <2>1 DEF Moves
  <2> QED  BY <1>1, <1>2, <2>1, <2>2, <2>3, <2>4, <2>5, <2>6, AloneMoves
<1>4. CASE Head(call[p].detach) # best /\ Return(p)
  <2>1. ASSUME Alone, crashes = 0 PROVE ~(call[p].op = "invalidate")
    <3>1. SUFFICES ASSUME call[p].op = "invalidate" PROVE FALSE
      OBVIOUS
    <3>2. Detaching(call[p].detach, best, flags)
      BY <1>1, <1>2, <2>1, <3>1 DEF ChainOK, Moves
    <3>3. call[p].detach \in Seq(Block)
      BY <1>0, CallFields
    <3> QED  BY <1>0, <1>1, <1>4, <3>2, <3>3, HeadIsTip
  <2>2. Alone /\ crashes = 0 => \A x \in Chain[best'] : ~KnownInvalid(flags', x)
    BY <1>1, <1>2, <2>1 DEF ChainOK
  <2> QED  BY <1>1, <1>4, <2>2, AloneReturn
<1> QED  BY <1>1, <1>3, <1>4

\* InvalidateBlock detaches one block.
LEMMA DetachingTail ==
    ASSUME NEW tip \in Block, tip # Genesis, NEW f, NEW s \in Seq(Block), Detaching(s, tip, f),
           s # <<>>, Head(s) = tip
    PROVE  Detaching(Tail(s), Parent[tip], f)
<1> DEFINE t == Tail(s)  q == Parent[tip]
<1>1. /\ t \in Seq(Block) /\ Len(t) = Len(s) - 1 /\ Len(s) \in Nat \ {0} /\ s[1] = tip
      /\ \A i \in 1..Len(t) : t[i] = s[i + 1] /\ i + 1 \in 1..Len(s)
  BY SMT
<1>2. q \in Block /\ Chain[tip] = Chain[q] \cup {tip} /\ tip \notin Chain[q]
  BY ParentType, ChainOfParent
<1> HIDE DEF t, q
<1>3. ASSUME NEW i \in 1..Len(t) PROVE t[i] \in Chain[q]
  <2>1. i + 1 \in 1..Len(s) /\ t[i] = s[i + 1] /\ 1 < i + 1 /\ 1 \in 1..Len(s)
    BY <1>1, SMT
  <2>2. Height(s[1]) > Height(s[i + 1]) /\ s[i + 1] \in Chain[tip]
    BY <2>1 DEF Detaching
  <2>3. s[i + 1] # tip
    <3>1. Height(tip) \in Nat
      BY PathType
    <3> QED  BY <1>1, <2>2, <3>1, SMT
  <2> QED  BY <1>2, <2>1, <2>2, <2>3
<1>4. \A i, j \in 1..Len(t) : i < j => Height(t[i]) > Height(t[j])
  <2> TAKE i, j \in 1..Len(t)
  <2> HAVE i < j
  <2>1. i + 1 \in 1..Len(s) /\ j + 1 \in 1..Len(s) /\ i + 1 < j + 1
    BY <1>1, SMT
  <2>2. Height(s[i + 1]) > Height(s[j + 1])
    BY <2>1 DEF Detaching
  <2> QED  BY <1>1, <2>2
<1>5. ASSUME NEW x \in Chain[q] PROVE KnownInvalid(f, x) <=> \E i \in 1..Len(t) : t[i] = x
  <2>1. x \in Chain[tip] /\ x # tip
    BY <1>2
  <2>2. KnownInvalid(f, x) <=> \E i \in 1..Len(s) : s[i] = x
    BY <2>1 DEF Detaching
  <2>3. ASSUME NEW i \in 1..Len(s), s[i] = x PROVE \E j \in 1..Len(t) : t[j] = x
    <3>1. i # 1
      BY <1>1, <2>1, <2>3
    <3>2. i - 1 \in 1..Len(t) /\ (i - 1) + 1 = i
      BY <1>1, <3>1, SMT
    <3>3. t[i - 1] = x
      BY <1>1, <2>3, <3>2
    <3> QED  BY <3>2, <3>3
  <2>4. ASSUME NEW j \in 1..Len(t), t[j] = x PROVE \E i \in 1..Len(s) : s[i] = x
    BY <1>1, <2>4
  <2> QED  BY <2>2, <2>3, <2>4
<1>6. \A y \in Chain[q] : \A x \in Chain[y] : KnownInvalid(f, x) => KnownInvalid(f, y)
  BY <1>2 DEF Detaching
<1>7. Detaching(t, q, f)
  BY <1>3, <1>4, <1>5, <1>6 DEF Detaching
<1> QED  BY <1>7 DEF t, q

\* disconnectBlock.
LEMMA AloneDisconnect ==
    ASSUME IInv, AInv, NEW p \in Actor, disconnectBlock(p)
    PROVE  AInv'
<1> DEFINE s == call[p].detach
           c == [call[p] EXCEPT !.pc = "disconnected", !.detach = Tail(s)]
<1>0. TypeOK /\ Control /\ best \in Block /\ s \in Seq(Block)
  BY CallFields DEF IInv, TypeOK
<1>1. /\ UNCHANGED <<calls, crashes>> /\ flags' = flags
      /\ lock = p /\ call[p].pc = "disconnect"
      /\ best' = Parent[best] /\ utxoTip' = best' /\ utxoStatus' = best'
      /\ call' = [call EXCEPT ![p] = c]
  BY <1>0 DEF disconnectBlock, At, nodeVars, counters, TypeOK
<1>2. s # <<>> /\ Head(s) = best /\ best # Genesis
  <2>1. s # <<>> /\ Head(s) = best /\ \A i \in 1..Len(s) : s[i] # Genesis
    BY <1>0, <1>1 DEF Control, InControl
  <2> QED  BY <1>0, <2>1, SMT
<1>3. /\ c \in Call /\ c.pc = "disconnected" /\ c.node = call[p].node
      /\ c.op = call[p].op /\ c.detach = Tail(s) /\ c.attach = call[p].attach
  <2>1. Tail(s) \in Seq(Block)
    BY <1>0, <1>2, SMT
  <2> QED  BY <1>0, <2>1 DEF TypeOK, Call
<1> HIDE DEF c
<1>4. Alone => /\ ListsOK(call[p], best, flags)
               /\ p = "sync" => SyncOK(call[p], best, flags)
               /\ crashes = 0 => ChainOK(call[p], best, flags)
  BY <1>1, Moving DEF Moves
<1>5. Chain[best] = Chain[best'] \cup {best} /\ best' \in Block
  BY <1>0, <1>1, <1>2, ChainOfParent, ParentType
<1>6. Alone => ListsOK(c, best', flags')
  BY <1>1, <1>3, <1>4, <1>5, SMT DEF ListsOK, Moves
<1>7. Alone => (p = "sync" => SyncOK(c, best', flags'))
  BY <1>1, <1>2, <1>3, <1>4 DEF SyncOK, Moves
<1>8. ASSUME Alone, crashes = 0 PROVE ChainOK(c, best', flags')
  <2>1. CASE call[p].op = "invalidate"
    <3>1. Detaching(s, best, flags)
      BY <1>1, <1>4, <1>8, <2>1 DEF ChainOK, Moves
    <3>2. Detaching(Tail(s), best', flags')
      BY <1>0, <1>1, <1>2, <3>1, DetachingTail
    <3> QED  BY <1>3, <2>1, <3>2 DEF ChainOK, Moves
  <2>2. CASE call[p].op # "invalidate"
    BY <1>1, <1>3, <1>4, <1>5, <1>8, <2>2 DEF ChainOK
  <2> QED  BY <2>1, <2>2
<1>9. call[p].pc \in Moves /\ c.pc \in Moves /\ utxoStatus' = utxoTip'
  BY <1>1, <1>3 DEF Moves
<1> QED  BY <1>1, <1>3, <1>6, <1>7, <1>8, <1>9, AloneMoves

\* reorganizeChain, after the notification of a block detached.
LEMMA AloneResumeDisconnected ==
    ASSUME IInv, AInv, NEW p \in Actor, ResumeDisconnected(p)
    PROVE  AInv'
<1> DEFINE c == [call[p] EXCEPT !.pc = "reorganize"]
<1>1. /\ UNCHANGED <<flags, best, utxoTip, utxoStatus, calls, crashes>>
      /\ call[p].pc = "disconnected" /\ call' = [call EXCEPT ![p] = c]
  BY DEF ResumeDisconnected, Goto, utxoVars, nodeVars, counters
<1>2. /\ c \in Call /\ c.pc = "reorganize" /\ c.node = call[p].node
      /\ c.op = call[p].op /\ c.detach = call[p].detach /\ c.attach = call[p].attach
  BY MoveOn, SMT DEF Moves
<1> HIDE DEF c
<1>3. Alone => /\ utxoStatus = utxoTip
               /\ ListsOK(call[p], best, flags)
               /\ p = "sync" => SyncOK(call[p], best, flags)
               /\ crashes = 0 => ChainOK(call[p], best, flags)
  BY <1>1, Moving DEF Moves
<1>4. Alone => ListsOK(c, best', flags')
  BY <1>1, <1>2, <1>3 DEF ListsOK, Moves
<1>5. Alone => (p = "sync" => SyncOK(c, best', flags'))
  BY <1>1, <1>2, <1>3 DEF SyncOK, Moves
<1>6. Alone /\ crashes = 0 => ChainOK(c, best', flags')
  BY <1>1, <1>2, <1>3 DEF ChainOK, Moves
<1>7. call[p].pc \in Moves /\ c.pc \in Moves
  BY <1>1, <1>2 DEF Moves
<1> QED  BY <1>1, <1>2, <1>3, <1>4, <1>5, <1>6, <1>7, AloneMoves

\* A call with blocks to attach fails, with its first block marked or not.
LEMMA AloneFails ==
    ASSUME IInv, AInv, NEW p \in Actor, lock = p, call[p].pc \in {"reorganize", "connect"},
           call[p].attach # <<>>, NEW f, Fails(p, f),
           \/ f = flags
           \/ Head(call[p].attach) \in Bad /\ f = SetStatusFlags(flags, {Head(call[p].attach)}, "failed"),
           UNCHANGED <<best, utxoTip, utxoStatus, calls, crashes>>
    PROVE  AInv'
<1> DEFINE s == call[p].attach  b == Head(s)
<1>0. /\ TypeOK /\ best \in Block /\ s \in Seq(Block) /\ flags \in Status /\ Checked(flags)
      /\ b \in Block /\ b = s[1] /\ 1 \in 1..Len(s)
  BY CallFields, SMT DEF IInv, TypeOK, FlagsInv, Status
<1>1. flags' = f /\ Return(p)
  BY DEF Fails
<1>2. Alone => /\ ListsOK(call[p], best, flags)
               /\ crashes = 0 => ChainOK(call[p], best, flags)
  BY Moving DEF Moves
<1>3. Alone => b \notin Chain[best] /\ call[p].op # "invalidate"
  BY <1>0, <1>2 DEF ListsOK, Moves
<1>4. \A x \in Block : KnownInvalid(f, x) => KnownInvalid(flags, x) \/ x = b
  BY <1>0, FailedFlag
<1>5. Chain[best] \subseteq Block
  BY <1>0, ChainElements
<1>6. Alone /\ crashes = 0 => \A x \in Chain[best'] : ~KnownInvalid(flags', x)
  BY <1>1, <1>2, <1>3, <1>4, <1>5 DEF ChainOK
<1> QED  BY <1>1, <1>6, AloneReturn

\* reorganizeChain, before it attaches a block.
LEMMA AloneStartConnect ==
    ASSUME IInv, AInv, NEW p \in Actor, StartConnect(p)
    PROVE  AInv'
<1> DEFINE b == Head(call[p].attach)
           c == [call[p] EXCEPT !.pc = "connect"]
<1>1. /\ UNCHANGED <<best, utxoTip, utxoStatus, calls, crashes>>
      /\ lock = p /\ call[p].pc = "reorganize" /\ call[p].detach = <<>> /\ call[p].attach # <<>>
      /\ \/ b \in BadPrefix /\ Fails(p, SetStatusFlags(flags, {b}, "failed"))
         \/ flags' = flags /\ call' = [call EXCEPT ![p] = c]
         \/ Fails(p, flags)
  BY DEF StartConnect, At, Goto, utxoVars, counters
<1>2. CASE b \in BadPrefix /\ Fails(p, SetStatusFlags(flags, {b}, "failed"))
  <2>1. b \in Bad
    BY <1>2 DEF Bad
  <2> QED  BY <1>1, <1>2, <2>1, AloneFails
<1>3. CASE Fails(p, flags)
  BY <1>1, <1>3, AloneFails
<1>4. CASE flags' = flags /\ call' = [call EXCEPT ![p] = c]
  <2>1. /\ c \in Call /\ c.pc = "connect" /\ c.node = call[p].node
        /\ c.op = call[p].op /\ c.detach = call[p].detach /\ c.attach = call[p].attach
    BY MoveOn, SMT DEF Moves
  <2> HIDE DEF c
  <2>2. Alone => /\ utxoStatus = utxoTip
                 /\ ListsOK(call[p], best, flags)
                 /\ p = "sync" => SyncOK(call[p], best, flags)
                 /\ crashes = 0 => ChainOK(call[p], best, flags)
    BY <1>1, Moving DEF Moves
  <2>3. Alone => ListsOK(c, best', flags')
    BY <1>1, <1>4, <2>1, <2>2 DEF ListsOK, Moves
  <2>4. Alone => (p = "sync" => SyncOK(c, best', flags'))
    BY <1>1, <1>4, <2>1, <2>2 DEF SyncOK, Moves
  <2>5. Alone /\ crashes = 0 => ChainOK(c, best', flags')
    BY <1>1, <1>4, <2>1, <2>2 DEF ChainOK, Moves
  <2>6. call[p].pc \in Moves /\ c.pc \in Moves
    BY <1>1, <2>1 DEF Moves
  <2> QED  BY <1>1, <1>4, <2>1, <2>2, <2>3, <2>4, <2>5, <2>6, AloneMoves
<1> QED  BY <1>1, <1>2, <1>3, <1>4

\* connectBlock.
LEMMA AloneConnect ==
    ASSUME IInv, AInv, NEW p \in Actor, connectBlock(p)
    PROVE  AInv'
<1> DEFINE s == call[p].attach
           b == Head(s)
           c == [call[p] EXCEPT !.pc = "connected"]
<1>0. TypeOK /\ Control /\ best \in Block /\ s \in Seq(Block)
  BY CallFields DEF IInv, TypeOK
<1>1. /\ UNCHANGED <<utxoTip, utxoStatus, calls, crashes>>
      /\ lock = p /\ call[p].pc = "connect"
      /\ \/ best' = b /\ flags' = flags /\ call' = [call EXCEPT ![p] = c]
         \/ b \in BadCommitment /\ Fails(p, SetStatusFlags(flags, {b}, "failed")) /\ best' = best
         \/ Fails(p, flags) /\ best' = best
  BY DEF connectBlock, At, Goto, utxoVars, nodeVars, counters
<1>2. s # <<>> /\ Parent[b] = best /\ b \in Block \ {Genesis} /\ b = s[1] /\ 1 \in 1..Len(s)
  <2>1. s # <<>> /\ Parent[b] = best /\ \A i \in 1..Len(s) : s[i] # Genesis
    BY <1>0, <1>1 DEF Control, InControl
  <2> QED  BY <1>0, <2>1, SMT
<1>3. CASE b \in BadCommitment /\ Fails(p, SetStatusFlags(flags, {b}, "failed")) /\ best' = best
  <2>1. b \in Bad
    BY <1>3 DEF Bad
  <2> QED  BY <1>1, <1>2, <1>3, <2>1, AloneFails
<1>4. CASE Fails(p, flags) /\ best' = best
  BY <1>1, <1>2, <1>4, AloneFails
<1>5. CASE best' = b /\ flags' = flags /\ call' = [call EXCEPT ![p] = c]
  <2>1. /\ c \in Call /\ c.pc = "connected" /\ c.node = call[p].node
        /\ c.op = call[p].op /\ c.detach = call[p].detach /\ c.attach = s
    BY MoveOn, SMT DEF Moves
  <2> HIDE DEF c
  <2>2. Alone => /\ utxoStatus = utxoTip
                 /\ ListsOK(call[p], best, flags)
                 /\ p = "sync" => SyncOK(call[p], best, flags)
                 /\ crashes = 0 => ChainOK(call[p], best, flags)
    BY <1>1, Moving DEF Moves
  <2>3. Chain[best'] = Chain[best] \cup {b}
    BY <1>2, <1>5, ChainOfParent
  <2>4. ASSUME Alone PROVE /\ ListsOK(c, best', flags') /\ call[p].op # "invalidate"
                           /\ ~KnownInvalid(flags, b)
    <3>1. /\ call[p].detach = <<>> /\ call[p].op # "invalidate"
          /\ \A i \in 1..Len(s) : /\ ~KnownInvalid(flags, s[i]) /\ s[i] \notin Chain[best]
                                  /\ \A j \in 1..Len(s) : s[i] = s[j] => i = j
      BY <1>1, <1>2, <2>2, <2>4 DEF ListsOK, Moves
    <3>2. \A i \in 1..Len(s) : s[i] \notin Chain[best'] \/ i = 1
      BY <1>2, <2>3, <3>1
    <3> QED  BY <1>2, <1>5, <2>1, <3>1, <3>2 DEF ListsOK, Moves
  <2>5. Alone => (p = "sync" => SyncOK(c, best', flags'))
    BY <1>1, <1>2, <1>5, <2>1, <2>2 DEF SyncOK, Moves
  <2>6. Alone /\ crashes = 0 => ChainOK(c, best', flags')
    BY <1>5, <2>1, <2>2, <2>3, <2>4 DEF ChainOK
  <2>7. call[p].pc \in Moves /\ c.pc \in Moves
    BY <1>1, <2>1 DEF Moves
  <2> QED  BY <1>1, <1>5, <2>1, <2>2, <2>4, <2>5, <2>6, <2>7, AloneMoves
<1> QED  BY <1>1, <1>3, <1>4, <1>5

\* reorganizeChain, after the notification of a block attached.
LEMMA AloneResumeConnected ==
    ASSUME IInv, AInv, NEW p \in Actor, ResumeConnected(p)
    PROVE  AInv'
<1> DEFINE s == call[p].attach
           c == [call[p] EXCEPT !.pc = "reorganize", !.attach = Tail(s)]
<1>0. TypeOK /\ Control /\ best \in Block /\ s \in Seq(Block)
  BY CallFields DEF IInv, TypeOK
<1>1. /\ UNCHANGED <<flags, best, calls, crashes>> /\ call[p].pc = "connected"
      /\ \/ UNCHANGED <<utxoTip, utxoStatus>>
         \/ utxoTip' = best /\ utxoStatus' = Head(s)
      /\ call' = [call EXCEPT ![p] = c]
  BY <1>0 DEF ResumeConnected, utxoVars, nodeVars, counters, TypeOK
<1>2. s # <<>> /\ Head(s) = s[1]
  BY <1>0, <1>1, SMT DEF Control, InControl
<1>3. /\ Tail(s) \in Seq(Block) /\ Len(Tail(s)) = Len(s) - 1 /\ Len(s) \in Nat \ {0}
      /\ \A i \in 1..Len(Tail(s)) : Tail(s)[i] = s[i + 1] /\ i + 1 \in 1..Len(s) /\ i + 1 # 1
  BY <1>0, <1>2, SMT
<1>4. /\ c \in Call /\ c.pc = "reorganize" /\ c.node = call[p].node
      /\ c.op = call[p].op /\ c.detach = call[p].detach /\ c.attach = Tail(s)
  <2>1. call[p] \in Call /\ Tail(s) \in Seq(Block)
    BY <1>0, <1>3 DEF TypeOK
  <2> QED  BY <2>1 DEF Call
<1> HIDE DEF c
<1>5. Alone => /\ utxoStatus = utxoTip
               /\ ListsOK(call[p], best, flags)
               /\ p = "sync" => SyncOK(call[p], best, flags)
               /\ crashes = 0 => ChainOK(call[p], best, flags)
  BY <1>1, Moving DEF Moves
<1>6. Alone => /\ s[1] = best /\ call[p].detach = <<>> /\ (call[p].op = "invalidate" => s = <<>>)
               /\ \A i \in 1..Len(s) : /\ ~KnownInvalid(flags, s[i])
                                       /\ i = 1 \/ s[i] \notin Chain[best]
                                       /\ \A j \in 1..Len(s) : s[i] = s[j] => i = j
  BY <1>1, <1>5 DEF ListsOK, Moves
<1> DEFINE t == Tail(s)
<1> HIDE DEF t
<1>7. ASSUME Alone PROVE ListsOK(c, best', flags')
  <2>1. \A i \in 1..Len(t) : /\ ~KnownInvalid(flags, t[i]) /\ t[i] \notin Chain[best]
                             /\ \A j \in 1..Len(t) : t[i] = t[j] => i = j
    <3> TAKE i \in 1..Len(t)
    <3>1. t[i] = s[i + 1] /\ i + 1 \in 1..Len(s) /\ i + 1 # 1
      BY <1>3 DEF t
    <3>2. ~KnownInvalid(flags, t[i]) /\ t[i] \notin Chain[best]
      BY <1>6, <1>7, <3>1
    <3>3. ASSUME NEW j \in 1..Len(t), t[i] = t[j] PROVE i = j
      <4>1. t[j] = s[j + 1] /\ j + 1 \in 1..Len(s)
        BY <1>3 DEF t
      <4>2. i + 1 = j + 1
        BY <1>6, <1>7, <3>1, <3>3, <4>1
      <4> QED  BY <4>2, SMT
    <3> QED  BY <3>2, <3>3
  <2> QED  BY <1>1, <1>2, <1>4, <1>6, <1>7, <2>1 DEF ListsOK, Moves, t
<1>8. Alone => (p = "sync" => SyncOK(c, best', flags'))
  <2>1. s[Len(s)] = IF t = <<>> THEN s[1] ELSE t[Len(t)]
    <3>1. CASE t = <<>>
      <4>1. Len(t) = 0
        BY <3>1
      <4>2. Len(s) = 1
        BY <1>3, <4>1, SMT DEF t
      <4> QED  BY <3>1, <4>2
    <3>2. CASE t # <<>>
      <4>1. t \in Seq(Block) /\ Len(t) = Len(s) - 1
        BY <1>3 DEF t
      <4>2. Len(t) \in 1..Len(t)
        BY <3>2, <4>1, SMT
      <4>3. t[Len(t)] = s[Len(t) + 1] /\ Len(t) + 1 = Len(s)
        BY <1>3, <4>1, <4>2, SMT DEF t
      <4> QED  BY <3>2, <4>3
    <3> QED  BY <3>1, <3>2
  <2>2. c.attach = t
    BY <1>4 DEF t
  <2> QED  BY <1>1, <1>2, <1>4, <1>5, <1>6, <2>1, <2>2 DEF SyncOK, Moves
<1>9. Alone /\ crashes = 0 => ChainOK(c, best', flags')
  BY <1>1, <1>2, <1>4, <1>5, <1>6 DEF ChainOK, Moves
<1>10. Alone => utxoStatus' = utxoTip'
  BY <1>1, <1>2, <1>5, <1>6
<1>11. call[p].pc \in Moves /\ c.pc \in Moves
  BY <1>1, <1>4 DEF Moves
<1> QED  BY <1>1, <1>4, <1>7, <1>8, <1>9, <1>10, <1>11, AloneMoves

\* The lists that getReorganizeNodes gives.
LEMMA NewLists ==
    ASSUME best \in Block, NEW b \in Block, b \notin Chain[best], NEW f,
           NEW c, c.pc = "reorganize", c.op # "invalidate",
           \/ c.detach = <<>> /\ c.attach = <<>>
           \/ c.attach = Branch(b) /\ \A i \in 1..Len(c.attach) : ~KnownInvalid(f, c.attach[i])
    PROVE  ListsOK(c, best, f)
<1>1. CASE c.detach = <<>> /\ c.attach = <<>>
  BY <1>1, SMT DEF ListsOK, Moves
<1>2. CASE c.attach = Branch(b) /\ \A i \in 1..Len(c.attach) : ~KnownInvalid(f, c.attach[i])
  <2>1. /\ \A i, j \in 1..Len(c.attach) : c.attach[i] = c.attach[j] => i = j
        /\ \A i \in 1..Len(c.attach) : c.attach[i] \notin Chain[best]
    BY <1>2, BranchOff, SMT
  <2> QED  BY <1>2, <2>1 DEF ListsOK, Moves
<1> QED  BY <1>1, <1>2

\* InvalidateBlock has detached its blocks.
LEMMA AllDetached ==
    ASSUME IInv, AInv, ChoosesTip
    PROVE  /\ lock = "rpc" /\ call["rpc"].pc = "reorganize"
           /\ Alone => utxoStatus = utxoTip
           /\ Alone /\ crashes = 0 => \A x \in Chain[best] : ~KnownInvalid(flags, x)
<1>1. /\ lock = "rpc" /\ call["rpc"].pc = "reorganize" /\ call["rpc"].op = "invalidate"
      /\ call["rpc"].detach = <<>> /\ "rpc" \in Actor
  BY DEF ChoosesTip, At
<1>2. Alone => utxoStatus = utxoTip /\ (crashes = 0 => ChainOK(call["rpc"], best, flags))
  BY <1>1, Moving DEF Moves
<1>3. Alone /\ crashes = 0 => Detaching(<<>>, best, flags)
  BY <1>1, <1>2 DEF ChainOK, Moves
<1>4. Alone /\ crashes = 0 => \A x \in Chain[best] : ~KnownInvalid(flags, x)
  BY <1>3, SMT DEF Detaching
<1> QED  BY <1>1, <1>2, <1>4

\* InvalidateBlock, when it has chosen another tip.
LEMMA AloneSwitch ==
    ASSUME IInv, AInv, SwitchToBestTip
    PROVE  AInv'
<1>0. TypeOK /\ "rpc" \in Actor /\ flags \in Status /\ Checked(flags) /\ best \in Block
  BY DEF IInv, TypeOK, Status, FlagsInv
<1>1. /\ UNCHANGED <<best, utxoTip, utxoStatus, calls, crashes>>
      /\ lock = "rpc" /\ call["rpc"].pc = "reorganize"
      /\ Alone => utxoStatus = utxoTip
      /\ Alone /\ crashes = 0 => \A x \in Chain[best] : ~KnownInvalid(flags, x)
  BY AllDetached DEF SwitchToBestTip, utxoVars, counters
<1>2. Chain[best] \subseteq Block
  BY <1>0, ChainElements
<1>3. PICK t \in BestTips :
        LET r == getReorganizeNodes(flags, t)
            v == verifyReorganizationValidity(r.flags, r.detach, r.attach)
        IN  \/ t = best /\ Return("rpc") /\ UNCHANGED flags
            \/ /\ t # best /\ v.ok /\ flags' = v.flags
               /\ call' = [call EXCEPT !["rpc"].op = "switch", !["rpc"].detach = r.detach,
                                       !["rpc"].attach = r.attach]
            \/ t # best /\ flags' = v.flags /\ Return("rpc")
  BY DEF SwitchToBestTip
<1> DEFINE r == getReorganizeNodes(flags, t)
           v == verifyReorganizationValidity(r.flags, r.detach, r.attach)
<1>4. t \in Block /\ (t # best => t \notin Chain[best])
  BY <1>0, BestTipsType
<1>5. \/ t = best /\ Return("rpc") /\ UNCHANGED flags
      \/ /\ t # best /\ v.ok /\ flags' = v.flags
         /\ call' = [call EXCEPT !["rpc"].op = "switch", !["rpc"].detach = r.detach,
                                 !["rpc"].attach = r.attach]
      \/ t # best /\ flags' = v.flags /\ Return("rpc")
  BY <1>3, Zenon
<1>6. r = getReorganizeNodes(flags, t) /\ v = verifyReorganizationValidity(r.flags, r.detach, r.attach)
  OBVIOUS
<1> HIDE DEF r, v
<1>7. CASE t = best /\ Return("rpc") /\ UNCHANGED flags
  BY <1>0, <1>1, <1>7, AloneReturn
<1>8. ASSUME t # best
      PROVE  /\ r.detach \in Seq(Block) /\ r.attach \in Seq(Block)
             /\ \A x \in Block : x \in Chain[best] /\ KnownInvalid(v.flags, x) => KnownInvalid(flags, x)
             /\ v.ok => \/ r.detach = <<>> /\ r.attach = <<>>
                        \/ /\ r.attach = Branch(t)
                           /\ \A i \in 1..Len(r.attach) : ~KnownInvalid(v.flags, r.attach[i])
  BY <1>0, <1>4, <1>6, <1>8, Reorganization, SMT
<1>9. CASE t # best /\ flags' = v.flags /\ Return("rpc")
  <2>1. Alone /\ crashes = 0 => \A x \in Chain[best'] : ~KnownInvalid(flags', x)
    BY <1>1, <1>2, <1>8, <1>9
  <2> QED  BY <1>0, <1>1, <1>9, <2>1, AloneReturn
<1>10. CASE /\ t # best /\ v.ok /\ flags' = v.flags
            /\ call' = [call EXCEPT !["rpc"].op = "switch", !["rpc"].detach = r.detach,
                                    !["rpc"].attach = r.attach]
  <2> DEFINE c == [call["rpc"] EXCEPT !.op = "switch", !.detach = r.detach, !.attach = r.attach]
  <2>1. /\ c \in Call /\ c.pc = "reorganize" /\ c.op = "switch" /\ c.attach = r.attach
        /\ c.detach = r.detach
    BY <1>0, <1>1, <1>8, <1>10 DEF TypeOK, Call
  <2>2. call' = [call EXCEPT !["rpc"] = c]
    BY <1>0, <1>10 DEF TypeOK
  <2> HIDE DEF c
  <2>3. ListsOK(c, best, flags')
    BY <1>0, <1>4, <1>8, <1>10, <2>1, NewLists
  <2>4. Alone /\ crashes = 0 => ChainOK(c, best', flags')
    BY <1>1, <1>2, <1>8, <1>10, <2>1 DEF ChainOK
  <2> QED  BY <1>0, <1>1, <2>1, <2>2, <2>3, <2>4, AloneGoes
<1> QED  BY <1>5, <1>7, <1>9, <1>10

\* A call of the RPC server returns, with or without a tip to go to.
LEMMA AloneEnds ==
    ASSUME IInv, AInv, NilTip \/ FinishRpc
    PROVE  AInv'
<1>1. /\ UNCHANGED <<flags, best, utxoTip, utxoStatus, calls, crashes>>
      /\ lock = "rpc" /\ Return("rpc") /\ "rpc" \in Actor
  BY DEF NilTip, FinishRpc, ChoosesTip, At, utxoVars, counters
<1>2. CASE NilTip
  BY <1>1, <1>2, AllDetached, AloneReturn DEF NilTip
<1>3. CASE FinishRpc
  <2>1. call["rpc"].op # "invalidate"
    BY <1>3 DEF FinishRpc
  <2> QED  BY <1>1, <2>1, NoneInvalid, AloneReturn
<1> QED  BY <1>2, <1>3

\* A call of the RPC server begins, or begins and ends, without another.
LEMMA AloneCall ==
    ASSUME IInv, AInv, Free("rpc"), calls' = calls + 1, UNCHANGED <<best, utxoTip, utxoStatus, crashes>>,
           NEW c \in Call, call' = [call EXCEPT !["rpc"] = c],
           Alone => ListsOK(c, best, flags'),
           crashes = 0 /\ (\A x \in Chain[best] : ~KnownInvalid(flags, x)) => ChainOK(c, best, flags')
    PROVE  AInv'
<1>1. calls \in Nat /\ "rpc" \in Actor
  BY DEF IInv, TypeOK
<1>2. calls' # 0
  BY <1>1, SMT
<1>3. ASSUME ~Overlap
      PROVE  /\ Alone /\ \A q \in Actor : call[q].pc = "idle"
             /\ utxoStatus' = utxoTip'
             /\ ListsOK(c, best', flags')
             /\ crashes' = 0 => ChainOK(c, best', flags')
  <2>1. Alone /\ \A q \in Actor : call[q].pc = "idle"
    BY <1>3 DEF Alone, Free
  <2>2. crashes = 0 => \A x \in Chain[best] : ~KnownInvalid(flags, x)
    BY <2>1, NoneInvalid
  <2> QED  BY <2>1, <2>2 DEF AInv, StatusNamesDisk
<1> QED  BY <1>1, <1>2, <1>3, AloneStep

\* A call of the RPC server that returns at once.
LEMMA AloneShort ==
    ASSUME IInv, AInv, Free("rpc"), calls' = calls + 1,
           UNCHANGED <<best, utxoTip, utxoStatus, crashes, call>>,
           crashes = 0 /\ (\A x \in Chain[best] : ~KnownInvalid(flags, x)) =>
              \A x \in Chain[best] : ~KnownInvalid(flags', x)
    PROVE  AInv'
<1> DEFINE c == call["rpc"]
<1>1. c \in Call /\ c.pc = "idle" /\ call' = [call EXCEPT !["rpc"] = c]
  BY DEF IInv, TypeOK, Free
<1>2. Alone => ListsOK(c, best, flags')
  <2>1. Alone => c.detach = <<>> /\ c.attach = <<>>
    BY <1>1 DEF AInv, ListsOK, Moves
  <2> QED  BY <1>1, <2>1 DEF ListsOK, Moves
<1>3. crashes = 0 /\ (\A x \in Chain[best] : ~KnownInvalid(flags, x)) => ChainOK(c, best, flags')
  BY <1>1 DEF ChainOK, Moves
<1> HIDE DEF c
<1> QED  BY <1>1, <1>2, <1>3, AloneCall

\* InvalidateBlock of a block off the best chain.
LEMMA AloneInvalidateSide ==
    ASSUME IInv, AInv, NEW b \in Block, InvalidateSideBlock(b)
    PROVE  AInv'
<1> DEFINE S == {d \in Block : HaveBlock(d) /\ d # b /\ b \in Chain[d] /\ ~KnownInvalid(flags, d)}
<1>1. /\ UNCHANGED <<best, utxoTip, utxoStatus, crashes, call>>
      /\ Free("rpc") /\ calls' = calls + 1 /\ b \notin Chain[best]
      /\ flags' = UnsetStatusFlags(SetStatusFlags(SetStatusFlags(flags, {b}, "failed"), S, "ancestor"),
                                   S \cup {b}, {"valid"})
  BY DEF InvalidateSideBlock, utxoVars
<1>2. flags \in Status /\ Checked(flags) /\ best \in Block
  BY DEF IInv, TypeOK, Status, FlagsInv
<1>3. S \in SUBSET Block /\ \A x \in S : b \in Chain[x]
  OBVIOUS
<1> HIDE DEF S
<1>4. \A x \in Block : KnownInvalid(flags', x) <=> KnownInvalid(flags, x) \/ x = b \/ x \in S
  BY <1>1, <1>2, <1>3, Invalidation, SMT
<1>5. \A x \in Chain[best] : x \in Block /\ b \notin Chain[x] /\ x # b
  BY <1>1, <1>2, ChainOfAncestor
<1>6. \A x \in Chain[best] : KnownInvalid(flags', x) => KnownInvalid(flags, x)
  BY <1>3, <1>4, <1>5
<1> QED  BY <1>1, <1>6, AloneShort

\* The blocks of the best chain from b on are the ones to detach.
LEMMA StartsDetaching ==
    ASSUME best \in Block, NEW b \in Chain[best], NEW f, NEW s \in Seq(Block),
           \A x \in Chain[best] : KnownInvalid(f, x) <=> b \in Chain[x],
           \A x \in Chain[best] : b \in Chain[x] <=> \E i \in 1..Len(s) : s[i] = x,
           \A i \in 1..Len(s) : s[i] \in Chain[best],
           \A i, j \in 1..Len(s) : i < j => Height(s[i]) > Height(s[j])
    PROVE  Detaching(s, best, f)
<1>1. \A y \in Chain[best] : y \in Block /\ Chain[y] \subseteq Chain[best]
  BY ChainOfAncestor
<1>2. ASSUME NEW y \in Chain[best], NEW x \in Chain[y], KnownInvalid(f, x)
      PROVE  KnownInvalid(f, y)
  <2>1. x \in Chain[best] /\ b \in Chain[x]
    BY <1>1, <1>2
  <2>2. b \in Chain[y]
    BY <1>1, <2>1, ChainOfAncestor
  <2> QED  BY <2>2
<1> QED  BY <1>2 DEF Detaching

\* InvalidateBlock of a block of the best chain.
LEMMA AloneInvalidateBest ==
    ASSUME IInv, AInv, NEW b \in Block, InvalidateBestBlock(b)
    PROVE  AInv'
<1> DEFINE S == {x \in Chain[best] : b \in Chain[x] /\ x # b /\ ~KnownInvalid(flags, x)}
<1>1. /\ UNCHANGED <<best, utxoTip, utxoStatus, crashes>>
      /\ Free("rpc") /\ calls' = calls + 1 /\ b \in Chain[best]
  BY DEF InvalidateBestBlock, utxoVars
<1>2. flags' = UnsetStatusFlags(SetStatusFlags(SetStatusFlags(flags, {b}, "failed"), S, "ancestor"),
                                S \cup {b}, {"valid"})
  BY DEF InvalidateBestBlock
<1>3. PICK s \in FromTheTip(S \cup {b}) :
        \/ call' = [call EXCEPT !["rpc"] = [Idle EXCEPT !.pc = "reorganize", !.op = "invalidate",
                                                        !.detach = s]]
        \/ Head(s) # best /\ UNCHANGED call
  BY DEF InvalidateBestBlock
<1>4. flags \in Status /\ Checked(flags) /\ best \in Block
  BY DEF IInv, TypeOK, Status, FlagsInv
<1>5. /\ Chain[best] \subseteq Block /\ S \cup {b} \in SUBSET Block /\ S \in SUBSET Block
      /\ b \in Chain[b] /\ S \cup {b} \subseteq Chain[best]
  BY <1>1, <1>4, ChainElements
<1>6. ASSUME \A x \in Chain[best] : ~KnownInvalid(flags, x), NEW x \in Chain[best]
      PROVE  x \in S \cup {b} <=> b \in Chain[x]
  BY <1>5, <1>6
<1> HIDE DEF S
<1>7. \A x \in Block : KnownInvalid(flags', x) <=> KnownInvalid(flags, x) \/ x = b \/ x \in S
  BY <1>2, <1>4, <1>5, Invalidation, SMT
<1>8. /\ s \in Seq(Block) /\ \A i \in 1..Len(s) : s[i] \in S \cup {b}
      /\ \A x \in S \cup {b} : \E i \in 1..Len(s) : s[i] = x
      /\ \A i, j \in 1..Len(s) : i < j => Height(s[i]) > Height(s[j])
  <2>1. s \in Seq(Block) /\ \A i \in 1..Len(s) : s[i] \in S \cup {b}
    BY <1>3, <1>5, FromTheTipType
  <2>2. DOMAIN s = 1..Len(s)
    BY <2>1, SMT
  <2>3. /\ Range(s) = S \cup {b}
        /\ \A i, j \in DOMAIN s : i < j => Len(Path[s[i]]) > Len(Path[s[j]])
    BY <1>3 DEF FromTheTip
  <2> QED  BY <2>1, <2>2, <2>3 DEF Range, Height
<1>9. ASSUME \A x \in Chain[best] : ~KnownInvalid(flags, x)
      PROVE  Detaching(s, best, flags') /\ s # <<>>
  <2>1. \A x \in Chain[best] : b \in Chain[x] <=> \E i \in 1..Len(s) : s[i] = x
    BY <1>6, <1>8, <1>9
  <2>2. \A x \in Chain[best] : KnownInvalid(flags', x) <=> b \in Chain[x]
    BY <1>5, <1>6, <1>7, <1>9
  <2>3. Detaching(s, best, flags')
    BY <1>1, <1>4, <1>5, <1>8, <2>1, <2>2, StartsDetaching
  <2>4. s # <<>>
    BY <1>8, SMTT(30)
  <2> QED  BY <2>3, <2>4
<1>10. CASE call' = [call EXCEPT !["rpc"] = [Idle EXCEPT !.pc = "reorganize", !.op = "invalidate",
                                                         !.detach = s]]
  <2> DEFINE c == [Idle EXCEPT !.pc = "reorganize", !.op = "invalidate", !.detach = s]
  <2>1. c \in Call /\ c.pc = "reorganize" /\ c.op = "invalidate" /\ c.attach = <<>> /\ c.detach = s
    <3>1. <<>> \in Seq(Block)
      BY SMT
    <3> QED  BY <1>8, <3>1 DEF Idle, Call
  <2>2. call' = [call EXCEPT !["rpc"] = c]
    BY <1>10
  <2> HIDE DEF c
  <2>3. ListsOK(c, best, flags')
    BY <2>1, SMT DEF ListsOK, Moves
  <2>4. crashes = 0 /\ (\A x \in Chain[best] : ~KnownInvalid(flags, x)) => ChainOK(c, best, flags')
    BY <1>9, <2>1 DEF ChainOK, Moves
  <2> QED  BY <1>1, <2>1, <2>2, <2>3, <2>4, AloneCall
<1>11. CASE Head(s) # best /\ UNCHANGED call
  <2>1. ~(\A x \in Chain[best] : ~KnownInvalid(flags, x))
    BY <1>4, <1>8, <1>9, <1>11, HeadIsTip
  <2> QED  BY <1>1, <1>11, <2>1, AloneShort
<1> QED  BY <1>3, <1>10, <1>11

\* ReconsiderBlock.
LEMMA AloneReconsider ==
    ASSUME IInv, AInv, NEW b \in Block, ReconsiderBlock(b)
    PROVE  AInv'
<1> DEFINE S == {d \in Block : HaveBlock(d) /\ d # b /\ b \in Chain[d]}
           f == UnsetStatusFlags(UnsetStatusFlags(flags, {b}, {"ancestor", "failed"}), S, {"ancestor"})
<1>1. /\ UNCHANGED <<best, utxoTip, utxoStatus, crashes>>
      /\ Free("rpc") /\ calls' = calls + 1
  BY DEF ReconsiderBlock, utxoVars
<1>2. PICK t \in ReconsiderTips(b) :
         LET r == getReorganizeNodes(f, t)
             v == verifyReorganizationValidity(r.flags, r.detach, r.attach)
         IN  \/ flags' = f /\ UNCHANGED <<stored, lock, call>>
             \/ Work[t] > Work[best] /\ flags' = v.flags /\ stored' = flags' /\ UNCHANGED <<lock, call>>
             \/ /\ Work[t] > Work[best] /\ v.ok /\ flags' = v.flags /\ stored' = flags' /\ lock' = "rpc"
                /\ call' = [call EXCEPT !["rpc"] = [Idle EXCEPT !.pc = "reorganize", !.op = "reconsider",
                                                       !.detach = r.detach, !.attach = r.attach]]
  BY Zenon DEF ReconsiderBlock
<1> DEFINE r == getReorganizeNodes(f, t)
           v == verifyReorganizationValidity(r.flags, r.detach, r.attach)
<1>3. flags \in Status /\ Checked(flags) /\ best \in Block
  BY DEF IInv, TypeOK, Status, FlagsInv
<1>4. t \in Block /\ Chain[best] \subseteq Block
  BY <1>2, <1>3, ChainElements DEF ReconsiderTips, InactiveTips
<1>5. /\ f \in Status /\ Checked(f)
      /\ \A x \in Block : KnownInvalid(f, x) => KnownInvalid(flags, x)
  <2>1. S \in SUBSET Block
    OBVIOUS
  <2> HIDE DEF S
  <2> QED  BY <1>3, <2>1, Reconsideration, SMT
<1> HIDE DEF f, S
<1>6. \/ flags' = f /\ UNCHANGED call
      \/ Work[t] > Work[best] /\ flags' = v.flags /\ UNCHANGED call
      \/ /\ Work[t] > Work[best] /\ v.ok /\ flags' = v.flags
         /\ call' = [call EXCEPT !["rpc"] = [Idle EXCEPT !.pc = "reorganize", !.op = "reconsider",
                                                !.detach = r.detach, !.attach = r.attach]]
  BY <1>2, Zenon
<1>7. r = getReorganizeNodes(f, t) /\ v = verifyReorganizationValidity(r.flags, r.detach, r.attach)
  OBVIOUS
<1> HIDE DEF r, v
<1>8. ASSUME Work[t] > Work[best]
      PROVE  /\ t \notin Chain[best] /\ r.detach \in Seq(Block) /\ r.attach \in Seq(Block)
             /\ \A x \in Block : x \in Chain[best] /\ KnownInvalid(v.flags, x) => KnownInvalid(f, x)
             /\ v.ok => \/ r.detach = <<>> /\ r.attach = <<>>
                        \/ /\ r.attach = Branch(t)
                           /\ \A i \in 1..Len(r.attach) : ~KnownInvalid(v.flags, r.attach[i])
  <2>1. t \notin Chain[best]
    BY <1>3, <1>4, <1>8, HeavierIsOff
  <2> QED  BY <1>3, <1>4, <1>5, <1>7, <2>1, Reorganization, SMTT(30)
<1>9. CASE flags' = f /\ UNCHANGED call
  BY <1>1, <1>4, <1>5, <1>9, AloneShort
<1>10. CASE Work[t] > Work[best] /\ flags' = v.flags /\ UNCHANGED call
  <2>1. \A x \in Chain[best] : KnownInvalid(flags', x) => KnownInvalid(flags, x)
    BY <1>4, <1>5, <1>8, <1>10
  <2> QED  BY <1>1, <1>10, <2>1, AloneShort
<1>11. CASE /\ Work[t] > Work[best] /\ v.ok /\ flags' = v.flags
            /\ call' = [call EXCEPT !["rpc"] = [Idle EXCEPT !.pc = "reorganize", !.op = "reconsider",
                                                   !.detach = r.detach, !.attach = r.attach]]
  <2> DEFINE c == [Idle EXCEPT !.pc = "reorganize", !.op = "reconsider",
                               !.detach = r.detach, !.attach = r.attach]
  <2>1. /\ c \in Call /\ c.pc = "reorganize" /\ c.op = "reconsider" /\ c.attach = r.attach
        /\ c.detach = r.detach
    <3>1. <<>> \in Seq(Block)
      BY SMT
    <3> QED  BY <1>8, <1>11, <3>1 DEF Idle, Call
  <2>2. call' = [call EXCEPT !["rpc"] = c]
    BY <1>11
  <2> HIDE DEF c
  <2>3. ListsOK(c, best, flags')
    BY <1>3, <1>4, <1>8, <1>11, <2>1, NewLists
  <2>4. crashes = 0 /\ (\A x \in Chain[best] : ~KnownInvalid(flags, x)) => ChainOK(c, best, flags')
    BY <1>4, <1>5, <1>8, <1>11, <2>1 DEF ChainOK
  <2> QED  BY <1>1, <2>1, <2>2, <2>3, <2>4, AloneCall
<1> QED  BY <1>6, <1>9, <1>10, <1>11

\* The process ends and starts again.
LEMMA AloneCrash ==
    ASSUME IInv, AInv, Crash
    PROVE  AInv'
<1>1. /\ UNCHANGED <<best, utxoTip, utxoStatus, calls>> /\ crashes' = crashes + 1
      /\ call' = [p \in Actor |-> Idle] /\ crashes \in Nat
  BY DEF Crash, utxoVars, IInv, TypeOK
<1>2. \A p \in Actor : call'[p] = Idle
  BY <1>1
<1>3. Idle.pc = "idle" /\ Idle.detach = <<>> /\ Idle.attach = <<>> /\ "sync" \in Actor /\ "rpc" \in Actor
  BY DEF Idle
<1>4. crashes' # 0
  BY <1>1, SMT
<1>5. ListsOK(Idle, best', flags') /\ SyncOK(Idle, best', flags')
  BY <1>3 DEF ListsOK, SyncOK, Moves
<1>6. /\ \A p \in Actor : ListsOK(call'[p], best', flags')
      /\ SyncOK(call'["sync"], best', flags')
      /\ call'["rpc"].pc = "idle"
  BY <1>2, <1>3, <1>5
<1> QED  BY <1>1, <1>4, <1>6 DEF AInv, Alone, StatusNamesDisk, ListsOK, SyncOK, Invalid, KnownInvalid

\* Every step keeps it.
LEMMA NextAInv == IInv /\ AInv /\ [Next]_vars => AInv'
<1> SUFFICES ASSUME IInv, AInv, [Next]_vars PROVE AInv'
  OBVIOUS
<1>1. CASE UNCHANGED vars
  BY <1>1, AloneFrame DEF vars, nodeVars, utxoVars, counters
<1>2. CASE Arrival
  BY <1>2, AloneArrival DEF Arrival
<1>3. CASE RpcCall
  BY <1>3, AloneInvalidateSide, AloneInvalidateBest, AloneReconsider DEF RpcCall
<1>4. ASSUME NEW p \in Actor, Step(p)
      PROVE  AInv'
  BY <1>4, AloneStartDisconnect, AloneDisconnect, AloneResumeDisconnected, AloneStartConnect,
     AloneConnect, AloneResumeConnected DEF Step
<1>5. CASE SyncStep
  BY <1>4, <1>5, AloneAccept, AloneConnectBest, AloneFinishAccept, AloneResumeAccepted,
     AloneProcessOrphans DEF SyncStep
<1>6. CASE RpcStep
  BY <1>4, <1>6, AloneSwitch, AloneEnds DEF RpcStep
<1>7. CASE Crash
  BY <1>7, AloneCrash
<1> QED  BY <1>1, <1>2, <1>3, <1>5, <1>6, <1>7 DEF Next
=============================================================================
