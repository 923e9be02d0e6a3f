----------------------- MODULE ChainProcessInvariant ------------------------
(***************************************************************************)
(* Every step of ChainProcess preserves IInv: chainLock is held where the  *)
(* code holds it, the lists of a reorganization hold only checked blocks,  *)
(* the flags and the orphans are consistent, and the best chain is sound,  *)
(* however the calls of the two goroutines overlap.                        *)
(***************************************************************************)
EXTENDS ChainProcessLemmas

USE Zenon DEF Pcs, Ops, Flag, Actor

\* The node starts with the invariant.
LEMMA InitIInv == Init => IInv
<1> SUFFICES ASSUME Init PROVE IInv
  OBVIOUS
<1>0. Genesis \in Block /\ None \notin Block
  BY ChainAssumption
<1>1. TypeOK
  <2>1. None \notin Actor /\ <<>> \in Seq(Block)
    BY ChainAssumption, SMT
  <2>2. Idle \in Call
    BY <2>1 DEF Call, Idle
  <2>3. call \in [Actor -> Call] /\ \A p \in Actor : lock # p
    BY <2>1, <2>2 DEF Init
  <2>4. IsInjective(orphans)
    BY SMT DEF Init, IsInjective
  <2> QED  BY <1>0, <2>1, <2>3, <2>4 DEF Init, TypeOK
<1>2. Control
  <2>1. None \notin Actor
    BY ChainAssumption
  <2>2. \A p \in Actor : call[p] = Idle /\ lock # p
    BY <2>1 DEF Init
  <2>3. "sync" \in Actor /\ "rpc" \in Actor
    OBVIOUS
  <2> QED  BY <2>2, <2>3, SMT DEF Control, InControl, Idle, Holds, Moves
<1>3. FlagsInv
  <2>1. flags \in Status
    BY DEF Init, Status
  <2>2. Genesis \notin BadScript
    BY ChainAssumption
  <2>3. \A b \in Block : "data" \in flags[b] => b = Genesis
    BY DEF Init
  <2>4. Chain[Genesis] = {Genesis}
    BY <1>0, GenesisHeight, ChainElements, SMT
  <2>5. Checked(flags)
    BY <2>2 DEF Init, Checked, KnownValid
  <2>6. Known(flags)
    BY <2>3, <2>4 DEF Known
  <2>7. Blamed(flags)
    BY DEF Init, Blamed, KnownInvalid
  <2> QED  BY <2>5, <2>6, <2>7 DEF FlagsInv, Init
<1>4. OrphanInv
  BY ChainAssumption, SMT DEF OrphanInv, Init, Idle, Moves
<1>5. BestIsSound
  <2>1. Chain[Genesis] = {Genesis}
    BY <1>0, GenesisHeight, ChainElements, SMT
  <2>2. Genesis \notin Bad
    BY ChainAssumption DEF Bad
  <2> QED  BY <2>1, <2>2 DEF BestIsSound, Init
<1> QED  BY <1>1, <1>2, <1>3, <1>4, <1>5 DEF IInv

\* removeOrphanBlock takes one block out of the orphans.
LEMMA RemoveOrphan ==
    ASSUME NEW s \in Seq(Block), IsInjective(s), NEW i \in 1..Len(s),
           NEW t, t = removeOrphanBlock(s, i)
    PROVE  /\ t \in Seq(Block) /\ Len(t) = Len(s) - 1 /\ IsInjective(t)
           /\ \A j \in 1..Len(t) : \E k \in 1..Len(s) : t[j] = s[k] /\ k # i
<1>1. /\ t \in Seq(Block) /\ Len(t) = Len(s) - 1
      /\ \A j \in 1..Len(t) : t[j] = IF j < i THEN s[j] ELSE s[j + 1]
  <2> DEFINE u == SubSeq(s, 1, i - 1)  w == SubSeq(s, i + 1, Len(s))
  <2>1. u \in Seq(Block) /\ Len(u) = i - 1 /\ \A j \in 1..Len(u) : u[j] = s[j]
    BY SMT
  <2>2. w \in Seq(Block) /\ Len(w) = Len(s) - i /\ \A j \in 1..Len(w) : w[j] = s[i + j]
    BY SMT
  <2>3. t = u \o w
    BY DEF removeOrphanBlock
  <2> HIDE DEF u, w
  <2>4. t \in Seq(Block) /\ Len(t) = Len(u) + Len(w)
    <3>1. u \in Seq(Block) /\ w \in Seq(Block)
      BY <2>1, <2>2
    <3> QED  BY ONLY <3>1, <2>3
  <2>5. ASSUME NEW j \in 1..Len(t), j < i
        PROVE  t[j] = s[j]
    BY <2>1, <2>2, <2>3, <2>5, SMT
  <2>6. ASSUME NEW j \in 1..Len(t), ~(j < i)
        PROVE  t[j] = s[j + 1]
    <3>1. t[j] = w[j - Len(u)]
      BY <2>1, <2>2, <2>3, <2>4, <2>6, SMTT(30)
    <3>2. j - Len(u) \in 1..Len(w) /\ i + (j - Len(u)) = j + 1
      BY <2>1, <2>2, <2>4, <2>6, SMT
    <3> QED  BY <2>2, <3>1, <3>2
  <2>7. Len(t) = Len(s) - 1
    BY <2>1, <2>2, <2>4, SMT
  <2> QED  BY <2>4, <2>5, <2>6, <2>7
<1>2. DOMAIN s = 1..Len(s) /\ DOMAIN t = 1..Len(t)
  BY <1>1, SMT
<1>3. ASSUME NEW a \in DOMAIN t, NEW b \in DOMAIN t, t[a] = t[b]
      PROVE  a = b
  <2> DEFINE k(j) == IF j < i THEN j ELSE j + 1
  <2>1. k(a) \in DOMAIN s /\ k(b) \in DOMAIN s /\ s[k(a)] = s[k(b)]
    <3>1. ASSUME NEW j \in DOMAIN t
          PROVE  k(j) \in DOMAIN s /\ t[j] = s[k(j)]
      BY <1>1, <1>2, <3>1, SMT
    <3> QED  BY <1>3, <3>1
  <2>2. k(a) = k(b)
    BY <2>1 DEF IsInjective
  <2> QED  BY <2>2, <1>2, SMT
<1>4. ASSUME NEW j \in 1..Len(t)
      PROVE  \E k \in 1..Len(s) : t[j] = s[k] /\ k # i
  BY <1>1, <1>4, SMT
<1> QED  BY <1>1, <1>3, <1>4 DEF IsInjective

\* addOrphanBlock adds one at their end.
LEMMA AppendOrphan ==
    ASSUME NEW s \in Seq(Block), IsInjective(s), NEW b \in Block, \A i \in 1..Len(s) : s[i] # b
    PROVE  /\ Append(s, b) \in Seq(Block) /\ Len(Append(s, b)) = Len(s) + 1
           /\ IsInjective(Append(s, b))
           /\ \A i \in 1..Len(Append(s, b)) :
                 Append(s, b)[i] = b \/ \E k \in 1..Len(s) : Append(s, b)[i] = s[k]
BY SMT DEF IsInjective

\* A block whose parent is unknown becomes an orphan, in place of the oldest one when
\* there is no room (ProcessBlock, addOrphanBlock).
LEMMA OrphanStep ==
    ASSUME IInv, NEW b \in Block \ {Genesis}, ProcessOrphanBlock(b)
    PROVE  IInv'
<1> DEFINE s == orphans
<1>0. /\ UNCHANGED <<flags, stored, best, utxoTip, utxoStatus, lock, call, calls, crashes>>
      /\ Free("sync") /\ addOrphanBlock(b)
      /\ ~HaveBlock(b) /\ \A i \in 1..Len(s) : s[i] # b
  BY SMT DEF ProcessOrphanBlock, IInv, TypeOK, nodeVars, utxoVars, counters, Range
<1>1. /\ s \in Seq(Block) /\ IsInjective(s) /\ oldestOrphan \in Block \cup {None}
      /\ Len(s) <= MaxOrphans + (IF oldestOrphan = None THEN 1 ELSE 0)
      /\ \A i \in 1..Len(s) : s[i] # Genesis /\ ~HaveBlock(s[i])
      /\ MaxOrphans \in Nat \ {0} /\ None \notin Block
  BY ChainAssumption DEF IInv, TypeOK, OrphanInv
<1>2. PICK n \in 0..Len(s) :
        LET kept == SubSeq(s, n + 1, Len(s))
            oldest == IF oldestOrphan = None /\ kept # <<>> THEN Head(kept) ELSE oldestOrphan
        IN  IF Len(kept) + 1 > MaxOrphans
            THEN /\ \/ /\ oldest \notin Range(kept)
                       /\ orphans' = Append(kept, b)
                    \/ \E i \in DOMAIN kept :
                          /\ kept[i] = oldest
                          /\ orphans' = Append(removeOrphanBlock(kept, i), b)
                 /\ oldestOrphan' = None
            ELSE /\ orphans' = Append(kept, b)
                 /\ oldestOrphan' = oldest
  BY <1>0 DEF addOrphanBlock
<1> DEFINE kept == SubSeq(s, n + 1, Len(s))
           oldest == IF oldestOrphan = None /\ kept # <<>> THEN Head(kept) ELSE oldestOrphan
           Good(t) == /\ t \in Seq(Block) /\ IsInjective(t)
                      /\ \A i \in 1..Len(t) : t[i] # Genesis /\ ~HaveBlock(t[i]) /\ t[i] # b
<1>3. Good(kept) /\ Len(kept) <= Len(s) /\ Len(kept) \in Nat
  <2>1. /\ kept \in Seq(Block) /\ Len(kept) = Len(s) - n /\ IsInjective(kept)
        /\ \A j \in 1..Len(kept) : \E k \in 1..Len(s) : kept[j] = s[k]
    <3>1. s \in Seq(Block) /\ IsInjective(s)
      BY <1>1
    <3>2. n \in Nat /\ n <= Len(s) /\ Len(s) \in Nat
      BY <3>1, SMT
    <3> HIDE DEF s
    <3>3. /\ kept \in Seq(Block) /\ Len(kept) = Len(s) - n
          /\ \A j \in 1..Len(kept) : kept[j] = s[j + n]
      BY <3>1, <3>2, SMT
    <3> HIDE DEF kept
    <3>4. \A j \in 1..Len(kept) : j + n \in 1..Len(s)
      BY <3>2, <3>3, SMT
    <3>5. IsInjective(kept)
      <4>1. DOMAIN kept = 1..Len(kept) /\ DOMAIN s = 1..Len(s) /\ Len(kept) \in Nat
        BY <3>1, <3>3, SMT
      <4>2. ASSUME NEW i \in 1..Len(kept), NEW j \in 1..Len(kept), kept[i] = kept[j]
            PROVE  i = j
        <5>1. s[i + n] = s[j + n] /\ i + n \in DOMAIN s /\ j + n \in DOMAIN s
          BY <3>3, <3>4, <4>1, <4>2
        <5>2. i + n = j + n
          BY <3>1, <5>1 DEF IsInjective
        <5> QED  BY <5>2, <3>2, SMT
      <4> QED  BY <4>1, <4>2 DEF IsInjective
    <3> QED  BY <3>3, <3>4, <3>5
  <2>2. \A i \in 1..Len(kept) : kept[i] # Genesis /\ ~HaveBlock(kept[i]) /\ kept[i] # b
    BY <2>1, <1>0, <1>1
  <2>3. Len(s) \in Nat /\ n \in Nat /\ n <= Len(s)
    BY <1>1, SMT
  <2>4. Len(kept) <= Len(s) /\ Len(kept) \in Nat
    <3> HIDE DEF kept, s
    <3> QED  BY <2>1, <2>3, SMT
  <2> QED  BY <2>1, <2>2, <2>4
<1>4. (Len(kept) + 1 > MaxOrphans) =>
         /\ oldestOrphan' = None
         /\ \/ orphans' = Append(kept, b) /\ Len(kept) <= MaxOrphans
            \/ \E i \in 1..Len(kept) : orphans' = Append(removeOrphanBlock(kept, i), b)
  <2>1. (Len(kept) + 1 > MaxOrphans) =>
             /\ \/ oldest \notin Range(kept) /\ orphans' = Append(kept, b)
                \/ \E i \in DOMAIN kept : orphans' = Append(removeOrphanBlock(kept, i), b)
             /\ oldestOrphan' = None
    BY <1>2
  <2>2. DOMAIN kept = 1..Len(kept)
    BY <1>3, SMT
  <2>3. ASSUME Len(kept) + 1 > MaxOrphans, oldest \notin Range(kept)
        PROVE  Len(kept) <= MaxOrphans
    <3>1. CASE oldestOrphan # None
      BY <3>1, <1>1, <1>3, SMT
    <3>2. CASE oldestOrphan = None
      <4>1. Len(kept) >= 1
        BY <2>3, <1>1, <1>3, SMT
      <4> HIDE DEF kept
      <4>2. kept # <<>> /\ Head(kept) = kept[1] /\ 1 \in DOMAIN kept
        BY <4>1, <1>3, SMT
      <4>3. oldest \in Range(kept)
        BY <4>2, <3>2 DEF Range
      <4> QED  BY <4>3, <2>3
    <3> QED  BY <3>1, <3>2
  <2> HIDE DEF kept, oldest
  <2> QED  BY <2>1, <2>2, <2>3
<1>5. ~(Len(kept) + 1 > MaxOrphans) =>
         /\ orphans' = Append(kept, b)
         /\ oldestOrphan' \in Block \cup {None}
  <2>1. ~(Len(kept) + 1 > MaxOrphans) => orphans' = Append(kept, b) /\ oldestOrphan' = oldest
    BY <1>2
  <2>2. oldest \in Block \cup {None}
    BY <1>1, <1>3, SMT
  <2> QED  BY <2>1, <2>2
<1> HIDE DEF kept, oldest
<1>6. ASSUME NEW t, Good(t), Len(t) <= MaxOrphans, orphans' = Append(t, b),
             oldestOrphan' \in Block \cup {None}, Len(t) + 1 <= MaxOrphans \/ oldestOrphan' = None
      PROVE  IInv'
  <2>1. /\ orphans' \in Seq(Block) /\ Len(orphans') = Len(t) + 1 /\ IsInjective(orphans')
        /\ \A i \in 1..Len(orphans') :
              orphans'[i] = b \/ \E k \in 1..Len(t) : orphans'[i] = t[k]
    BY <1>6, AppendOrphan, SMT
  <2>2. TypeOK'
    BY <2>1, <1>0, <1>6 DEF IInv, TypeOK
  <2>3. Control' /\ FlagsInv' /\ BestIsSound'
    BY <1>0 DEF IInv, Control, FlagsInv, BestIsSound, InControl, Checked, Blamed, Known, KnownValid, KnownInvalid
  <2>4. Len(orphans') <= MaxOrphans + (IF oldestOrphan' = None THEN 1 ELSE 0)
    BY <2>1, <1>6, <1>1, SMT
  <2>5. \A i \in 1..Len(orphans') : orphans'[i] # Genesis /\ ~HaveBlock(orphans'[i])
    BY <2>1, <1>0, <1>6
  <2>6. call'["sync"].pc # "accept"
    BY <1>0 DEF Free
  <2>7. OrphanInv'
    BY <2>4, <2>5, <2>6, <1>0 DEF OrphanInv, IInv, HaveBlock
  <2> QED  BY <2>2, <2>3, <2>7 DEF IInv
<1>7. ASSUME NEW i \in 1..Len(kept), Len(kept) + 1 > MaxOrphans, oldestOrphan' = None,
             orphans' = Append(removeOrphanBlock(kept, i), b)
      PROVE  IInv'
  <2> DEFINE t == removeOrphanBlock(kept, i)
  <2>1. /\ t \in Seq(Block) /\ Len(t) = Len(kept) - 1 /\ IsInjective(t)
        /\ \A j \in 1..Len(t) : \E k \in 1..Len(kept) : t[j] = kept[k] /\ k # i
    BY <1>3, RemoveOrphan
  <2> HIDE DEF t
  <2>2. Good(t) /\ Len(t) <= MaxOrphans
    BY <2>1, <1>1, <1>3, SMT
  <2> QED  BY <2>2, <1>6, <1>7 DEF t
<1> QED  BY <1>1, <1>3, <1>4, <1>5, <1>6, <1>7, SMT

\* ProcessBlock takes chainLock for a block whose parent is known.
LEMMA ArrivalStep ==
    ASSUME IInv, NEW b \in Block \ {Genesis}, ProcessBlock(b)
    PROVE  IInv'
<1>0. /\ UNCHANGED <<flags, stored, best, orphans, oldestOrphan, utxoTip, utxoStatus, calls, crashes>>
      /\ lock = None /\ call["sync"].pc = "idle" /\ lock' = "sync" /\ ~HaveBlock(b) /\ HaveBlock(Parent[b])
      /\ \A i \in 1..Len(orphans) : orphans[i] # b
      /\ TypeOK /\ Control /\ FlagsInv /\ OrphanInv /\ BestIsSound
  BY SMT DEF ProcessBlock, Free, IInv, TypeOK, nodeVars, orphanVars, utxoVars, counters, Range
<1>1. <<>> \in Seq(Block) /\ None \notin Actor
  BY ChainAssumption, SMT
<1> DEFINE c == [Idle EXCEPT !.pc = "accept", !.node = b]
<1>2. c \in Call /\ c.pc = "accept" /\ c.node = b /\ c.detach = <<>> /\ c.attach = <<>> /\ c.queue = <<>>
  BY <1>1 DEF Call, Idle
<1>3. call' = [call EXCEPT !["sync"] = c]
  BY DEF ProcessBlock
<1> HIDE DEF c
<1>4. /\ call' \in [Actor -> Call] /\ call'["sync"] = c /\ call'["rpc"] = call["rpc"]
  BY <1>0, <1>2, <1>3 DEF TypeOK
<1>5. TypeOK'
  BY <1>0, <1>2, <1>4 DEF TypeOK
<1>6. Control'
  <2>1. call["rpc"].pc \notin Holds
    BY <1>0, <1>1 DEF Control
  <2> QED  BY <1>0, <1>2, <1>4, <2>1, SMT DEF Control, InControl, Holds, Moves
<1>7. FlagsInv' /\ BestIsSound'
  BY <1>0 DEF FlagsInv, BestIsSound, InControl, Checked, Blamed, Known, KnownValid, KnownInvalid
<1>8. OrphanInv'
  BY <1>0, <1>2, <1>4, SMT DEF OrphanInv, HaveBlock, Moves
<1> QED  BY <1>5, <1>6, <1>7, <1>8 DEF IInv

\* A step that leaves alone which blocks have nodes.
LEMMA OrphanFrame ==
    ASSUME TypeOK, Control, OrphanInv, UNCHANGED <<orphans, oldestOrphan>>,
           \A b \in Block : "data" \in flags'[b] <=> "data" \in flags[b],
           call'["sync"].queue \in {<<>>, call["sync"].queue},
           call'["sync"].pc # "accept",
           call'["sync"].pc \in {"best", "accepted"} \cup Moves =>
              /\ call["sync"].pc \in {"best", "accepted"} \cup Moves
              /\ call'["sync"].node = call["sync"].node
    PROVE  OrphanInv'
<1>1. call["sync"].queue \in Seq(Block) /\ orphans \in Seq(Block) /\ "sync" \in Actor
  BY CallFields DEF TypeOK
<1>2. \A i \in 1..Len(orphans) : orphans[i] \in Block
  BY <1>1, SMT
<1> DEFINE q == call["sync"].queue
<1>3. \A i \in 1..Len(q) : "data" \in flags'[q[i]]
  <2>1. \A i \in 1..Len(q) : "data" \in flags[q[i]] /\ q[i] \in Block
    BY <1>1, SMT DEF OrphanInv, HaveBlock
  <2> QED  BY <2>1
<1>4. \A i \in 1..Len(call'["sync"].queue) : "data" \in flags'[call'["sync"].queue[i]]
  <2>1. CASE call'["sync"].queue = <<>>
    BY <2>1, SMT
  <2>2. CASE call'["sync"].queue = q
    BY <2>2, <1>3
  <2> QED  BY <2>1, <2>2
<1>5. \A i \in 1..Len(orphans) : orphans[i] # Genesis /\ "data" \notin flags'[orphans[i]]
  BY <1>2 DEF OrphanInv, HaveBlock
<1>6. Len(orphans) <= MaxOrphans + (IF oldestOrphan = None THEN 1 ELSE 0)
  BY DEF OrphanInv
<1>7. call'["sync"].pc \in {"best", "accepted"} \cup Moves => "data" \in flags'[call'["sync"].node]
  <2>1. call["sync"].pc # "idle" => call["sync"].node \in Block
    BY <1>1 DEF Control, InControl
  <2> QED  BY <2>1 DEF OrphanInv, HaveBlock, Moves
<1> QED  BY <1>4, <1>5, <1>6, <1>7 DEF OrphanInv, HaveBlock

\* A step that changes status flags, but not which blocks have nodes.
LEMMA NewFlags ==
    ASSUME TypeOK, FlagsInv, flags' \in Status, Checked(flags'),
           \A x \in Block : "data" \in flags'[x] <=> "data" \in flags[x],
           calls' = 0 => calls = 0 /\ (Blamed(flags) => Blamed(flags')),
           stored' \in {stored, flags, flags'}
    PROVE  FlagsInv' /\ stored' \in Status
<1>1. Known(flags')
  <2>1. \A x \in Block : Chain[x] \subseteq Block
    BY ChainElements
  <2> QED  BY <2>1 DEF FlagsInv, Known
<1>2. Checked(stored') /\ Known(stored') /\ (calls' = 0 => Blamed(stored'))
  BY <1>1 DEF FlagsInv
<1>3. Checked(flags)' /\ Checked(stored)' /\ Known(flags)' /\ Known(stored)'
  BY <1>1, <1>2 DEF Checked, Known, KnownValid
<1>4. calls' = 0 => Blamed(flags)' /\ Blamed(stored)'
  BY <1>2 DEF FlagsInv, Blamed, KnownInvalid
<1> QED  BY <1>3, <1>4 DEF FlagsInv, TypeOK, Status

\* A step changes no more than status flags.
LEMMA CallStays ==
    ASSUME IInv, FlagsMove, calls' \in Nat,
           UNCHANGED <<best, orphans, oldestOrphan, utxoTip, utxoStatus, lock, call, crashes>>,
           call["sync"].pc # "accept"
    PROVE  IInv'
<1>0. TypeOK /\ Control /\ FlagsInv /\ OrphanInv /\ BestIsSound
  BY DEF IInv
<1>1. FlagsInv' /\ stored' \in Status
  BY <1>0, NewFlags DEF FlagsMove
<1>2. TypeOK'
  BY <1>0, <1>1 DEF TypeOK, Status, FlagsMove
<1>3. Control' /\ BestIsSound'
  BY <1>0 DEF Control, InControl, BestIsSound
<1>4. OrphanInv'
  BY <1>0, OrphanFrame DEF FlagsMove
<1> QED  BY <1>1, <1>2, <1>3, <1>4 DEF IInv

\* A call of p that holds chainLock returns.
LEMMA CallReturns ==
    ASSUME IInv, FlagsMove, NEW p \in Actor, lock = p, Return(p),
           UNCHANGED <<best, orphans, oldestOrphan, utxoTip, utxoStatus, calls, crashes>>
    PROVE  IInv'
<1>0. TypeOK /\ Control /\ FlagsInv /\ OrphanInv /\ BestIsSound
  BY DEF IInv
<1>1. <<>> \in Seq(Block) /\ None \notin Actor
  BY ChainAssumption, SMT
<1>2. Idle \in Call
  BY <1>1 DEF Call, Idle
<1>3. /\ call' \in [Actor -> Call] /\ call'[p] = Idle /\ lock' = None
      /\ \A q \in Actor \ {p} : call'[q] = call[q]
  BY <1>0, <1>2 DEF Return, TypeOK
<1>4. Idle.pc = "idle" /\ Idle.detach = <<>> /\ Idle.attach = <<>> /\ Idle.queue = <<>>
  BY DEF Idle
<1>5. \A q \in Actor \ {p} : call[q].pc \notin Holds
  BY <1>0 DEF Control
<1>6. Control'
  <2>1. \A q \in Actor : call'[q].pc \notin Holds /\ lock' # q
    BY <1>1, <1>3, <1>4, <1>5 DEF Holds
  <2>2. \A q \in Actor : InControl(q, call'[q], best')
    BY <1>0, <1>3, <1>4, SMT DEF Control, InControl, Moves
  <2> QED  BY <2>1, <2>2 DEF Control, InControl
<1>7. FlagsInv' /\ stored' \in Status
  BY <1>0, NewFlags DEF FlagsMove
<1>8. TypeOK'
  BY <1>0, <1>1, <1>3, <1>7 DEF TypeOK, Status, FlagsMove
<1>9. OrphanInv'
  <2>1. \/ call'["sync"] = Idle
        \/ call'["sync"] = call["sync"] /\ call["sync"].pc # "accept"
    BY <1>3, <1>5 DEF Holds
  <2> QED  BY <1>0, <1>4, <2>1, OrphanFrame DEF FlagsMove, Moves
<1>10. BestIsSound'
  BY <1>0 DEF BestIsSound
<1> QED  BY <1>6, <1>7, <1>8, <1>9, <1>10 DEF IInv

\* A call of p goes on, or starts, with the record c.
LEMMA CallContinues ==
    ASSUME IInv, FlagsMove, NEW p \in Actor, NEW c \in Call, call' = [call EXCEPT ![p] = c],
           lock \in {None, p}, lock' = IF c.pc \in Holds THEN p ELSE None,
           best' \in Block, Chain[best'] \cap Bad = {}, InControl(p, c, best'), c.pc # "idle",
           utxoTip' \in Block, utxoStatus' \in Block, calls' \in Nat,
           UNCHANGED <<orphans, oldestOrphan, crashes>>,
           p = "sync" => /\ c.node = call[p].node /\ c.queue = call[p].queue
                         /\ call[p].pc \in {"best", "accepted"} \cup Moves
                         /\ c.pc \in {"accepted"} \cup Moves
    PROVE  IInv'
<1>0. TypeOK /\ Control /\ FlagsInv /\ OrphanInv /\ BestIsSound
  BY DEF IInv
<1>1. None \notin Actor
  BY ChainAssumption
<1>2. call' \in [Actor -> Call] /\ call'[p] = c /\ \A q \in Actor \ {p} : call'[q] = call[q]
  BY <1>0 DEF TypeOK
<1>3. \A q \in Actor \ {p} : call[q].pc \notin Holds
  BY <1>0, <1>1, SMT DEF Control
<1>4. Control'
  <2>1. \A q \in Actor : call'[q].pc \in Holds <=> lock' = q
    BY <1>1, <1>2, <1>3
  <2>2. \A q \in Actor \ {p} : InControl(q, call[q], best')
    BY <1>0, <1>3 DEF Control, InControl, Holds
  <2>3. \A q \in Actor : InControl(q, call'[q], best')
    BY <1>2, <2>2
  <2> QED  BY <2>1, <2>3 DEF Control, InControl
<1>5. FlagsInv' /\ stored' \in Status
  BY <1>0, NewFlags DEF FlagsMove
<1>6. TypeOK'
  BY <1>0, <1>1, <1>2, <1>3, <1>5 DEF TypeOK, Status, FlagsMove, Holds
<1>7. OrphanInv'
  <2>1. \/ p = "sync" /\ call'["sync"] = c
        \/ call'["sync"] = call["sync"] /\ call["sync"].pc # "accept"
    BY <1>2, <1>3 DEF Holds
  <2>2. CASE p = "sync" /\ call'["sync"] = c
    BY <1>0, <2>2, OrphanFrame DEF FlagsMove, Moves
  <2>3. CASE call'["sync"] = call["sync"] /\ call["sync"].pc # "accept"
    BY <1>0, <2>3, OrphanFrame DEF FlagsMove
  <2> QED  BY <2>1, <2>2, <2>3
<1>8. BestIsSound'
  BY DEF BestIsSound
<1> QED  BY <1>4, <1>5, <1>6, <1>7, <1>8 DEF IInv

\* maybeAcceptBlock refuses the block or stores it.
LEMMA AcceptStep ==
    ASSUME IInv, maybeAcceptBlock
    PROVE  IInv'
<1> DEFINE b == call["sync"].node
<1>0. TypeOK /\ Control /\ FlagsInv /\ OrphanInv /\ BestIsSound /\ "sync" \in Actor /\ "rpc" \in Actor
  BY DEF IInv
<1>1. /\ UNCHANGED <<best, orphans, oldestOrphan, utxoTip, utxoStatus, calls, crashes>>
      /\ lock = "sync" /\ call["sync"].pc = "accept"
      /\ \/ Return("sync") /\ UNCHANGED <<flags, stored>>
         \/ /\ ~KnownInvalid(flags, Parent[b])
            /\ flags' = [flags EXCEPT ![b] = {"data"}] /\ stored' = flags'
            /\ Goto("sync", "best") /\ UNCHANGED lock
  BY DEF maybeAcceptBlock, At, orphanVars, utxoVars, counters, nodeVars
<1>2. b \in Block \ {Genesis} /\ Parent[b] \in Block
  BY <1>0, <1>1, ParentType DEF Control, InControl
<1>3. CASE Return("sync") /\ UNCHANGED <<flags, stored>>
  <2>1. FlagsMove
    BY <1>0, <1>1, <1>3 DEF FlagsMove, FlagsInv, TypeOK, Status
  <2> QED  BY <1>0, <1>1, <1>3, <2>1, CallReturns
<1>4. CASE /\ ~KnownInvalid(flags, Parent[b])
           /\ flags' = [flags EXCEPT ![b] = {"data"}] /\ stored' = flags'
           /\ Goto("sync", "best") /\ UNCHANGED lock
  <2> DEFINE c == [call["sync"] EXCEPT !.pc = "best"]
  <2>1. /\ c \in Call /\ c.pc = "best" /\ c.node = b /\ c.queue = call["sync"].queue
        /\ c.detach = call["sync"].detach /\ c.attach = call["sync"].attach
    BY <1>0 DEF TypeOK, Call
  <2>2. call' = [call EXCEPT !["sync"] = c]
    BY <1>4 DEF Goto
  <2> HIDE DEF c
  <2>3. call' \in [Actor -> Call] /\ call'["sync"] = c /\ call'["rpc"] = call["rpc"]
    BY <1>0, <2>1, <2>2 DEF TypeOK
  <2>4. /\ flags' \in Status /\ flags'[b] = {"data"}
        /\ \A x \in Block \ {b} : flags'[x] = flags[x]
    BY <1>0, <1>2, <1>4 DEF TypeOK, Status
  <2>5. TypeOK'
    BY <1>0, <1>1, <1>4, <2>1, <2>3, <2>4 DEF TypeOK, Status
  <2>6. Control'
    <3>1. InControl("sync", call["sync"], best) /\ InControl("rpc", call["rpc"], best)
      BY <1>0 DEF Control
    <3>2. InControl("sync", c, best)
      BY <1>2, <2>1, <3>1 DEF InControl, Moves
    <3>3. /\ call'["sync"].pc \in Holds <=> lock' = "sync"
          /\ call'["rpc"].pc \in Holds <=> lock' = "rpc"
      BY <1>0, <1>1, <1>4, <2>1, <2>3 DEF Control, Holds
    <3>4. best' = best
      BY <1>1
    <3> QED  BY <2>3, <3>1, <3>2, <3>3, <3>4 DEF Control
  <2>7. Checked(flags')
    BY <1>0, <2>4, SMT DEF FlagsInv, Checked, KnownValid
  <2>8. Blamed(flags) => Blamed(flags')
    BY <2>4 DEF Blamed, KnownInvalid
  <2>9. Known(flags')
    <3>1. "data" \notin flags[b] /\ "data" \in flags[Parent[b]]
      BY <1>0, <1>1 DEF OrphanInv, HaveBlock
    <3>2. ASSUME NEW x \in Block, "data" \in flags'[x], NEW a \in Chain[x]
          PROVE  "data" \in flags'[a]
      <4>1. a \in Block
        BY ChainElements
      <4>2. CASE a = b
        BY <4>2, <2>4
      <4>3. CASE a # b /\ x # b
        BY <4>3, <4>1, <3>2, <2>4, <1>0 DEF FlagsInv, Known
      <4>4. CASE a # b /\ x = b
        <5>1. a \in Chain[Parent[b]]
          BY <4>4, <1>2, ChainOfParent, SMT
        <5> QED  BY <5>1, <4>1, <4>4, <3>1, <1>0, <1>2, <2>4 DEF FlagsInv, Known
      <4> QED  BY <4>2, <4>3, <4>4
    <3> QED  BY <3>2 DEF Known
  <2>10. FlagsInv'
    <3>1. Checked(flags)' /\ Checked(stored)' /\ Known(flags)' /\ Known(stored)'
      BY <1>4, <2>7, <2>9 DEF Checked, Known, KnownValid
    <3>2. calls' = 0 => Blamed(flags)' /\ Blamed(stored)'
      BY <1>0, <1>1, <1>4, <2>8 DEF FlagsInv, Blamed, KnownInvalid
    <3> QED  BY <3>1, <3>2 DEF FlagsInv
  <2>11. OrphanInv'
    <3>1. \A x \in Block : "data" \in flags[x] => "data" \in flags'[x]
      BY <2>4
    <3>2. \A i \in 1..Len(orphans) : orphans[i] \in Block \ {b}
      BY <1>0, <1>1, SMT DEF OrphanInv, TypeOK
    <3>3. \A i \in 1..Len(orphans) : orphans[i] # Genesis /\ "data" \notin flags'[orphans[i]]
      BY <3>2, <2>4, <1>0, <1>1 DEF OrphanInv, HaveBlock
    <3>4. \A i \in 1..Len(c.queue) : "data" \in flags'[c.queue[i]]
      <4>1. c.queue \in Seq(Block) /\ \A i \in 1..Len(c.queue) : "data" \in flags[c.queue[i]]
        BY <2>1, <1>0, CallFields DEF OrphanInv, HaveBlock
      <4> QED  BY <3>1, <4>1, SMT
    <3>5. "data" \in flags'[b]
      BY <2>4
    <3>6. Len(orphans) <= MaxOrphans + (IF oldestOrphan = None THEN 1 ELSE 0)
      BY <1>0 DEF OrphanInv
    <3> QED  BY <3>3, <3>4, <3>5, <3>6, <1>1, <2>1, <2>3 DEF OrphanInv, HaveBlock
  <2>12. BestIsSound'
    BY <1>0, <1>1 DEF BestIsSound
  <2> QED  BY <2>5, <2>6, <2>10, <2>11, <2>12 DEF IInv
<1> QED  BY <1>1, <1>3, <1>4

\* connectBestChain extends the best chain, leaves the block on a side chain, or starts
\* a reorganization.
LEMMA ConnectBestStep ==
    ASSUME IInv, connectBestChain
    PROVE  IInv'
<1> DEFINE b == call["sync"].node
           r == getReorganizeNodes(flags, b)
           v == verifyReorganizationValidity(r.flags, r.detach, r.attach)
<1>0. TypeOK /\ Control /\ FlagsInv /\ OrphanInv /\ BestIsSound /\ "sync" \in Actor /\ "rpc" \in Actor
  BY DEF IInv
<1>1. /\ UNCHANGED <<best, orphans, oldestOrphan, utxoTip, utxoStatus, calls, crashes>>
      /\ lock = "sync" /\ call["sync"].pc = "best"
  BY DEF connectBestChain, At, orphanVars, utxoVars, counters
<1>2. b \in Block \ {Genesis} /\ Parent[b] \in Block /\ best \in Block /\ flags \in Status /\ Checked(flags)
  BY <1>0, <1>1, ParentType DEF Control, InControl, TypeOK, Status, FlagsInv
<1>3. Chain[best'] \cap Bad = {} /\ calls' \in Nat /\ utxoTip' \in Block /\ utxoStatus' \in Block
  BY <1>0, <1>1 DEF BestIsSound, TypeOK
<1>4. ASSUME NEW c \in Call, call' = [call EXCEPT !["sync"] = c], c.node = b,
             c.queue = call["sync"].queue, FlagsMove,
             \/ /\ c.pc = "reorganize" /\ lock' = lock
                /\ c.op = "process" \/ (c.op = "extend" /\ b \notin BadScript)
             \/ c.pc = "accepted" /\ lock' = None,
             \A i \in 1..Len(c.detach) : c.detach[i] # Genesis,
             \A i \in 1..Len(c.attach) : c.attach[i] \notin BadScript \cup {Genesis}
      PROVE  IInv'
  <2>1. InControl("sync", c, best')
    BY <1>2, <1>4 DEF InControl, Moves
  <2>2. c.pc # "idle" /\ lock' = IF c.pc \in Holds THEN "sync" ELSE None
    BY <1>1, <1>4 DEF Holds
  <2>3. call["sync"].pc \in {"best", "accepted"} \cup Moves /\ c.pc \in {"accepted"} \cup Moves
    BY <1>1, <1>4 DEF Moves
  <2> QED  BY <1>0, <1>1, <1>2, <1>3, <1>4, <2>1, <2>2, <2>3, CallContinues
<1>6. /\ call["sync"] \in Call
      /\ \A i \in 1..Len(call["sync"].detach) : call["sync"].detach[i] # Genesis
      /\ \A i \in 1..Len(call["sync"].attach) : call["sync"].attach[i] \notin BadScript \cup {Genesis}
  BY <1>0 DEF TypeOK, Control, InControl
<1>7. CASE /\ Parent[b] = best /\ checkConnectBlock(b)
           /\ flags' = SetStatusFlags(flags, {b}, "valid") /\ stored' = flags'
           /\ call' = [call EXCEPT !["sync"].pc = "reorganize", !["sync"].op = "extend",
                                   !["sync"].attach = <<b>>]
           /\ UNCHANGED lock
  <2> DEFINE c == [call["sync"] EXCEPT !.pc = "reorganize", !.op = "extend", !.attach = <<b>>]
  <2>1. /\ c \in Call /\ c.pc = "reorganize" /\ c.op = "extend" /\ c.node = b /\ c.attach = <<b>>
        /\ c.queue = call["sync"].queue /\ c.detach = call["sync"].detach
    <3>1. <<b>> \in Seq(Block)
      BY <1>2, SMT
    <3> QED  BY <1>6, <3>1 DEF Call
  <2>2. call' = [call EXCEPT !["sync"] = c]
    BY <1>0, <1>7 DEF TypeOK
  <2> HIDE DEF c
  <2>3. b \notin BadScript
    BY <1>7 DEF checkConnectBlock
  <2>4. /\ flags' \in Status /\ Checked(flags') /\ (Blamed(flags) => Blamed(flags'))
        /\ \A x \in Block : "data" \in flags'[x] <=> "data" \in flags[x]
    BY <1>2, <1>7, <2>3, ValidFlag, SMT
  <2>7. FlagsMove
    BY <1>1, <1>7, <2>4 DEF FlagsMove
  <2>5. \A i \in 1..Len(c.attach) : c.attach[i] \notin BadScript \cup {Genesis}
    BY <1>2, <2>1, <2>3, SMT
  <2>6. /\ c.pc = "reorganize" /\ c.op = "extend" /\ b \notin BadScript /\ lock' = lock
        /\ \A i \in 1..Len(c.detach) : c.detach[i] # Genesis
    BY <1>6, <1>7, <2>1, <2>3
  <2> QED  BY <1>4, <2>1, <2>2, <2>5, <2>6, <2>7
<1>8. CASE /\ Parent[b] = best /\ ~checkConnectBlock(b)
           /\ flags' = SetStatusFlags(flags, {b}, "failed") /\ stored' = flags'
           /\ Return("sync")
  <2>1. b \in Bad
    BY <1>8 DEF checkConnectBlock, Bad
  <2>2. /\ flags' \in Status /\ Checked(flags') /\ (Blamed(flags) => Blamed(flags'))
        /\ \A x \in Block : "data" \in flags'[x] <=> "data" \in flags[x]
    BY <1>2, <1>8, <2>1, FailedFlag, SMT
  <2>3. FlagsMove
    BY <1>1, <1>8, <2>2 DEF FlagsMove
  <2> QED  BY <1>0, <1>1, <1>8, <2>3, CallReturns
<1>9. CASE Goto("sync", "accepted") /\ lock' = None /\ UNCHANGED <<flags, stored>>
  <2> DEFINE c == [call["sync"] EXCEPT !.pc = "accepted"]
  <2>1. /\ c \in Call /\ c.pc = "accepted" /\ c.node = b
        /\ c.queue = call["sync"].queue /\ c.detach = call["sync"].detach /\ c.attach = call["sync"].attach
    BY <1>6 DEF Call
  <2>2. call' = [call EXCEPT !["sync"] = c]
    BY <1>9 DEF Goto
  <2> HIDE DEF c
  <2>3. FlagsMove
    BY <1>1, <1>2, <1>9 DEF FlagsMove
  <2> QED  BY <1>4, <1>6, <1>9, <2>1, <2>2, <2>3
<1>10. ASSUME MoreWork(b), flags' = v.flags
       PROVE  /\ flags' \in Status /\ Checked(flags') /\ (Blamed(flags) => Blamed(flags'))
              /\ \A x \in Block : "data" \in flags'[x] <=> "data" \in flags[x]
              /\ r.detach \in Seq(Block) /\ \A i \in 1..Len(r.detach) : r.detach[i] # Genesis
              /\ r.attach \in Seq(Block) /\ \A i \in 1..Len(r.attach) : r.attach[i] # Genesis
              /\ v.ok => \A i \in 1..Len(r.attach) : r.attach[i] \notin BadScript
  <2>1. b \notin Chain[best]
    BY <1>2, <1>10, HeavierIsOff DEF MoreWork
  <2> HIDE DEF b
  <2>2. r = getReorganizeNodes(flags, b) /\ v = verifyReorganizationValidity(r.flags, r.detach, r.attach)
    OBVIOUS
  <2>3. flags \in Status /\ Checked(flags) /\ best \in Block /\ b \in Block
    BY <1>2
  <2> HIDE DEF r, v
  <2>4. /\ v.flags \in Status /\ Checked(v.flags) /\ (Blamed(flags) => Blamed(v.flags))
        /\ \A x \in Block : "data" \in v.flags[x] <=> "data" \in flags[x]
        /\ r.detach \in Seq(Block) /\ \A i \in 1..Len(r.detach) : r.detach[i] # Genesis
        /\ r.attach \in Seq(Block) /\ \A i \in 1..Len(r.attach) : r.attach[i] # Genesis
        /\ v.ok => \A i \in 1..Len(r.attach) : r.attach[i] \notin BadScript
    BY ONLY <2>1, <2>2, <2>3, Reorganization
  <2> QED  BY <1>10, <2>4
<1>11. CASE /\ MoreWork(b) /\ v.ok /\ flags' = v.flags
            /\ call' = [call EXCEPT !["sync"].pc = "reorganize", !["sync"].op = "process",
                                    !["sync"].detach = r.detach, !["sync"].attach = r.attach]
            /\ UNCHANGED <<stored, lock>>
  <2> HIDE DEF r, v
  <2> DEFINE c == [call["sync"] EXCEPT !.pc = "reorganize", !.op = "process",
                                       !.detach = r.detach, !.attach = r.attach]
  <2>1. /\ c \in Call /\ c.pc = "reorganize" /\ c.op = "process" /\ c.node = b /\ c.attach = r.attach
        /\ c.queue = call["sync"].queue /\ c.detach = r.detach
    BY <1>6, <1>10, <1>11 DEF Call
  <2>2. call' = [call EXCEPT !["sync"] = c]
    BY <1>0, <1>11 DEF TypeOK
  <2> HIDE DEF c
  <2>3. \A i \in 1..Len(c.attach) : c.attach[i] \notin BadScript \cup {Genesis}
    BY <1>10, <1>11, <2>1
  <2>4. /\ c.pc = "reorganize" /\ c.op = "process" /\ lock' = lock
        /\ \A i \in 1..Len(c.detach) : c.detach[i] # Genesis
    BY <1>10, <1>11, <2>1
  <2>5. FlagsMove
    BY <1>1, <1>10, <1>11 DEF FlagsMove
  <2>6. \/ /\ c.pc = "reorganize" /\ lock' = lock
           /\ c.op = "process" \/ (c.op = "extend" /\ b \notin BadScript)
        \/ c.pc = "accepted" /\ lock' = None
    BY <2>4
  <2> QED  BY <1>4, <2>1, <2>2, <2>3, <2>4, <2>5, <2>6
<1>12. CASE MoreWork(b) /\ flags' = v.flags /\ stored' = flags' /\ Return("sync")
  <2> HIDE DEF r, v
  <2>1. FlagsMove
    BY <1>1, <1>10, <1>12 DEF FlagsMove
  <2> QED  BY <1>0, <1>1, <1>12, <2>1, CallReturns
<1> HIDE DEF r, v
<1>13. \/ /\ Parent[b] = best /\ checkConnectBlock(b)
          /\ flags' = SetStatusFlags(flags, {b}, "valid") /\ stored' = flags'
          /\ call' = [call EXCEPT !["sync"].pc = "reorganize", !["sync"].op = "extend",
                                  !["sync"].attach = <<b>>]
          /\ UNCHANGED lock
       \/ /\ Parent[b] = best /\ ~checkConnectBlock(b)
          /\ flags' = SetStatusFlags(flags, {b}, "failed") /\ stored' = flags'
          /\ Return("sync")
       \/ Goto("sync", "accepted") /\ lock' = None /\ UNCHANGED <<flags, stored>>
       \/ /\ MoreWork(b) /\ v.ok /\ flags' = v.flags
          /\ call' = [call EXCEPT !["sync"].pc = "reorganize", !["sync"].op = "process",
                                  !["sync"].detach = r.detach, !["sync"].attach = r.attach]
          /\ UNCHANGED <<stored, lock>>
       \/ MoreWork(b) /\ flags' = v.flags /\ stored' = flags' /\ Return("sync")
  BY Zenon DEF connectBestChain, nodeVars, r, v
<1> QED  BY <1>7, <1>8, <1>9, <1>11, <1>12, <1>13

\* The flags stay as they are.
LEMMA FlagsStay ==
    ASSUME IInv, UNCHANGED <<flags, calls>>, stored' \in {stored, flags}
    PROVE  FlagsMove
BY DEF FlagsMove, FlagsInv, TypeOK, Status, IInv

\* maybeAcceptBlock goes on to the notification when the chain has moved.
LEMMA FinishAcceptStep ==
    ASSUME IInv, FinishAccept
    PROVE  IInv'
<1> DEFINE b == call["sync"].node
           c == [call["sync"] EXCEPT !.pc = "accepted"]
<1>0. TypeOK /\ Control /\ FlagsInv /\ OrphanInv /\ BestIsSound /\ "sync" \in Actor
  BY DEF IInv
<1>1. /\ UNCHANGED <<best, orphans, oldestOrphan, utxoTip, utxoStatus, calls, crashes>>
      /\ lock = "sync" /\ call["sync"].pc = "reorganize" /\ lock' = None
      /\ call' = [call EXCEPT !["sync"] = c]
      /\ \/ UNCHANGED <<flags, stored>>
         \/ flags' = SetStatusFlags(flags, {b}, "valid") /\ stored' = flags' /\ call["sync"].op = "extend"
         \/ flags' = flags /\ stored' = flags'
  BY DEF FinishAccept, At, Goto, orphanVars, utxoVars, counters, nodeVars
<1>2. b \in Block \ {Genesis} /\ best \in Block /\ flags \in Status /\ Checked(flags)
  BY <1>0, <1>1 DEF Control, InControl, TypeOK, Status, FlagsInv
<1>3. /\ c \in Call /\ c.pc = "accepted" /\ c.node = b /\ c.queue = call["sync"].queue
      /\ c.detach = call["sync"].detach /\ c.attach = call["sync"].attach
  BY <1>0 DEF TypeOK, Call
<1> HIDE DEF c
<1>4. InControl("sync", c, best')
  BY <1>0, <1>1, <1>2, <1>3 DEF Control, InControl, Moves
<1>5. FlagsMove
  <2>1. CASE flags' = flags /\ stored' \in {stored, flags}
    BY <2>1, <1>1, FlagsStay
  <2>2. CASE flags' = SetStatusFlags(flags, {b}, "valid") /\ stored' = flags' /\ call["sync"].op = "extend"
    <3>1. b \notin BadScript
      BY <1>0, <1>1, <2>2 DEF Control, InControl, Moves
    <3> QED  BY <1>1, <1>2, <2>2, <3>1, ValidFlag, SMT DEF FlagsMove
  <2> QED  BY <1>1, <2>1, <2>2
<1>6. /\ c.pc \notin Holds /\ c.pc # "idle" /\ c.pc \in {"accepted"} \cup Moves
      /\ call["sync"].pc \in {"best", "accepted"} \cup Moves
  BY <1>1, <1>3 DEF Holds, Moves
<1>7. Chain[best'] \cap Bad = {} /\ calls' \in Nat /\ utxoTip' \in Block /\ utxoStatus' \in Block
  BY <1>0, <1>1 DEF BestIsSound, TypeOK
<1> QED  BY <1>0, <1>1, <1>2, <1>3, <1>4, <1>5, <1>6, <1>7, CallContinues

\* ProcessBlock takes chainLock again after the notification.
LEMMA ResumeAcceptedStep ==
    ASSUME IInv, ResumeAccepted
    PROVE  IInv'
<1> DEFINE b == call["sync"].node
           q == call["sync"].queue
           c == [call["sync"] EXCEPT !.pc = "orphans", !.op = "none", !.queue = Append(q, b)]
<1>0. TypeOK /\ Control /\ FlagsInv /\ OrphanInv /\ BestIsSound /\ "sync" \in Actor /\ "rpc" \in Actor
  BY DEF IInv
<1>1. /\ UNCHANGED <<flags, stored, best, orphans, oldestOrphan, utxoTip, utxoStatus, calls, crashes>>
      /\ lock = None /\ call["sync"].pc = "accepted" /\ lock' = "sync"
  BY DEF ResumeAccepted, orphanVars, utxoVars, counters, nodeVars
<1>2. call' = [call EXCEPT !["sync"] = c]
  BY <1>0 DEF ResumeAccepted, TypeOK
<1>3. b \in Block \ {Genesis} /\ q \in Seq(Block)
  BY <1>0, <1>1, CallFields DEF Control, InControl
<1>4. /\ c \in Call /\ c.pc = "orphans" /\ c.node = b /\ c.queue = Append(q, b)
      /\ c.detach = call["sync"].detach /\ c.attach = call["sync"].attach
  <2>1. Append(q, b) \in Seq(Block)
    BY <1>3, SMT
  <2> QED  BY <1>0, <2>1 DEF TypeOK, Call
<1> HIDE DEF c
<1>5. call' \in [Actor -> Call] /\ call'["sync"] = c /\ call'["rpc"] = call["rpc"]
  BY <1>0, <1>2, <1>4 DEF TypeOK
<1>6. None \notin Actor
  BY ChainAssumption
<1>7. TypeOK'
  BY <1>0, <1>1, <1>4, <1>5, ZenonT(40) DEF TypeOK
<1>8. Control'
  <2>1. call["rpc"].pc \notin Holds
    BY <1>0, <1>1, <1>6 DEF Control
  <2>2. InControl("sync", c, best)
    BY <1>0, <1>3, <1>4 DEF Control, InControl, Moves
  <2> QED  BY <1>0, <1>1, <1>4, <1>5, <2>1, <2>2, SMT DEF Control, InControl, Holds
<1>9. FlagsInv' /\ BestIsSound'
  BY <1>0, <1>1 DEF FlagsInv, BestIsSound, Checked, Blamed, Known, KnownValid, KnownInvalid
<1>10. OrphanInv'
  <2>1. \A i \in 1..Len(c.queue) : "data" \in flags[c.queue[i]]
    <3>1. "data" \in flags[b] /\ \A i \in 1..Len(q) : "data" \in flags[q[i]]
      BY <1>0, <1>1 DEF OrphanInv, HaveBlock
    <3>2. Len(c.queue) = Len(q) + 1 /\ \A i \in 1..Len(c.queue) : c.queue[i] = IF i <= Len(q) THEN q[i] ELSE b
      BY <1>3, <1>4, SMT
    <3> QED  BY <1>3, <3>1, <3>2, SMT
  <2> QED  BY <1>0, <1>1, <1>4, <1>5, <2>1 DEF OrphanInv, HaveBlock, Moves
<1> QED  BY <1>7, <1>8, <1>9, <1>10 DEF IInv

\* processOrphans accepts the orphans of the blocks accepted, one after the other.
LEMMA ProcessOrphansStep ==
    ASSUME IInv, processOrphans
    PROVE  IInv'
<1> DEFINE q == call["sync"].queue
<1>0. TypeOK /\ Control /\ FlagsInv /\ OrphanInv /\ BestIsSound /\ "sync" \in Actor /\ "rpc" \in Actor
  BY DEF IInv
<1>1. /\ UNCHANGED <<flags, stored, best, oldestOrphan, utxoTip, utxoStatus, calls, crashes>>
      /\ lock = "sync" /\ call["sync"].pc = "orphans"
      /\ \/ Return("sync") /\ UNCHANGED orphans
         \/ /\ q # <<>> /\ call' = [call EXCEPT !["sync"].queue = Tail(@)]
            /\ UNCHANGED <<orphans, lock>>
         \/ /\ q # <<>> /\ UNCHANGED lock
            /\ \E i \in DOMAIN orphans :
                  /\ IsFirstOrphan(i, Head(q))
                  /\ orphans' = removeOrphanBlock(orphans, i)
                  /\ call' = [call EXCEPT !["sync"].pc = "accept", !["sync"].node = orphans[i]]
  BY DEF processOrphans, At, orphanVars, utxoVars, counters, nodeVars
<1>2. /\ q \in Seq(Block) /\ orphans \in Seq(Block) /\ call["sync"] \in Call /\ IsInjective(orphans)
      /\ \A i \in 1..Len(q) : "data" \in flags[q[i]]
      /\ \A i \in 1..Len(orphans) : orphans[i] \in Block \ {Genesis} /\ "data" \notin flags[orphans[i]]
  BY <1>0, CallFields, SMT DEF TypeOK, OrphanInv, HaveBlock
<1>3. FlagsInv' /\ BestIsSound'
  BY <1>0, <1>1 DEF FlagsInv, BestIsSound, Checked, Blamed, Known, KnownValid, KnownInvalid
<1>4. CASE Return("sync") /\ UNCHANGED orphans
  BY <1>0, <1>1, <1>4, FlagsStay, CallReturns
<1>5. CASE /\ q # <<>> /\ call' = [call EXCEPT !["sync"].queue = Tail(@)]
           /\ UNCHANGED <<orphans, lock>>
  <2> DEFINE c == [call["sync"] EXCEPT !.queue = Tail(q)]
  <2>1. /\ c \in Call /\ c.pc = "orphans" /\ c.node = call["sync"].node /\ c.queue = Tail(q)
        /\ c.op = call["sync"].op
        /\ c.detach = call["sync"].detach /\ c.attach = call["sync"].attach
    <3>1. Tail(q) \in Seq(Block)
      BY <1>2, <1>5, SMT
    <3> QED  BY <1>1, <1>2, <3>1 DEF Call
  <2>2. call' = [call EXCEPT !["sync"] = c]
    BY <1>5
  <2> HIDE DEF c
  <2>3. call' \in [Actor -> Call] /\ call'["sync"] = c /\ call'["rpc"] = call["rpc"]
    BY <1>0, <2>1, <2>2 DEF TypeOK
  <2>4. TypeOK'
    BY <1>0, <1>1, <1>5, <2>1, <2>3 DEF TypeOK
  <2>5. Control'
    <3>1. InControl("sync", c, best)
      BY <1>0, <1>1, <2>1 DEF Control, InControl, Moves
    <3>2. \A p \in Actor : call'[p].pc \in Holds <=> lock' = p
      BY <1>0, <1>1, <1>5, <2>1, <2>3 DEF Control, Holds
    <3>3. \A p \in Actor : InControl(p, call'[p], best')
      BY <1>0, <1>1, <1>5, <2>1, <2>3, <3>1 DEF Control
    <3> QED  BY <3>2, <3>3 DEF Control, InControl
  <2>6. OrphanInv'
    <3>1. \A i \in 1..Len(c.queue) : "data" \in flags[c.queue[i]]
      <4>1. Len(Tail(q)) = Len(q) - 1 /\ \A i \in 1..Len(Tail(q)) : Tail(q)[i] = q[i + 1]
        BY <1>2, <1>5, SMT
      <4>2. Len(q) \in Nat \ {0}
        BY <1>2, <1>5, SMT
      <4>3. \A i \in 1..Len(Tail(q)) : i + 1 \in 1..Len(q)
        BY <4>1, <4>2, SMT
      <4> QED  BY <1>2, <2>1, <4>1, <4>3, SMT
    <3> QED  BY <1>0, <1>1, <1>5, <2>1, <2>3, <3>1 DEF OrphanInv, HaveBlock, Moves
  <2> QED  BY <1>3, <2>4, <2>5, <2>6 DEF IInv
<1>6. ASSUME NEW i \in DOMAIN orphans, q # <<>>, UNCHANGED lock, IsFirstOrphan(i, Head(q)),
             orphans' = removeOrphanBlock(orphans, i),
             call' = [call EXCEPT !["sync"].pc = "accept", !["sync"].node = orphans[i]]
      PROVE  IInv'
  <2> DEFINE b == orphans[i]
             c == [call["sync"] EXCEPT !.pc = "accept", !.node = b]
  <2>1. i \in 1..Len(orphans) /\ b \in Block \ {Genesis} /\ "data" \notin flags[b]
    BY <1>2, SMT
  <2>2. Parent[b] = Head(q) /\ Head(q) = q[1] /\ 1 \in 1..Len(q)
    BY <1>2, <1>6, SMT DEF IsFirstOrphan
  <2>3. /\ c \in Call /\ c.pc = "accept" /\ c.node = b /\ c.queue = q
        /\ c.detach = call["sync"].detach /\ c.attach = call["sync"].attach
    BY <1>2, <2>1 DEF Call
  <2>4. call' = [call EXCEPT !["sync"] = c]
    BY <1>0, <1>6 DEF TypeOK
  <2> HIDE DEF c
  <2>5. call' \in [Actor -> Call] /\ call'["sync"] = c /\ call'["rpc"] = call["rpc"]
    BY <1>0, <2>3, <2>4 DEF TypeOK
  <2>6. /\ orphans' \in Seq(Block) /\ Len(orphans') = Len(orphans) - 1 /\ IsInjective(orphans')
        /\ \A j \in 1..Len(orphans') : \E k \in 1..Len(orphans) : orphans'[j] = orphans[k] /\ k # i
    <3>1. orphans \in Seq(Block) /\ IsInjective(orphans)
      BY <1>2
    <3>2. orphans' = removeOrphanBlock(orphans, i) /\ i \in 1..Len(orphans)
      BY <1>6, <2>1
    <3> QED  BY <3>1, <3>2, RemoveOrphan, SMT
  <2>7. TypeOK'
    BY <1>0, <1>1, <1>6, <2>3, <2>5, <2>6 DEF TypeOK
  <2>8. Control'
    <3>1. InControl("sync", c, best)
      BY <1>0, <1>1, <2>1, <2>3 DEF Control, InControl, Moves
    <3>2. \A p \in Actor : call'[p].pc \in Holds <=> lock' = p
      BY <1>0, <1>1, <1>6, <2>3, <2>5 DEF Control, Holds
    <3>3. \A p \in Actor : InControl(p, call'[p], best')
      BY <1>0, <1>1, <1>6, <2>3, <2>5, <3>1 DEF Control
    <3> QED  BY <3>2, <3>3 DEF Control, InControl
  <2>9. OrphanInv'
    <3>1. \A k \in 1..Len(orphans) : k # i => orphans[k] # b
      BY <1>2, <2>1, SMT DEF IsInjective
    <3>2. \A j \in 1..Len(orphans') : /\ orphans'[j] # Genesis /\ "data" \notin flags[orphans'[j]]
                                      /\ orphans'[j] # b
      <4> SUFFICES ASSUME NEW j \in 1..Len(orphans')
                   PROVE  /\ orphans'[j] # Genesis /\ "data" \notin flags[orphans'[j]]
                          /\ orphans'[j] # b
        OBVIOUS
      <4>1. PICK k \in 1..Len(orphans) : orphans'[j] = orphans[k] /\ k # i
        BY <2>6
      <4> QED  BY <1>2, <3>1, <4>1
    <3>3. "data" \in flags[Parent[b]]
      BY <1>2, <2>2
    <3>4. Len(orphans') <= MaxOrphans + (IF oldestOrphan' = None THEN 1 ELSE 0)
      <4>1. Len(orphans) <= MaxOrphans + (IF oldestOrphan = None THEN 1 ELSE 0) /\ MaxOrphans \in Nat
        BY <1>0, ChainAssumption DEF OrphanInv
      <4> QED  BY <1>1, <1>2, <2>6, <4>1, SMT
    <3> QED  BY <1>1, <1>2, <2>1, <2>3, <2>5, <3>2, <3>3, <3>4, SMTT(30) DEF OrphanInv, HaveBlock, Moves
  <2> QED  BY <1>3, <2>7, <2>8, <2>9 DEF IInv
<1> QED  BY <1>1, <1>4, <1>5, <1>6

\* A reorganization, or a connectBlock, fails.
LEMMA FailsStep ==
    ASSUME IInv, NEW p \in Actor, lock = p, NEW f \in Status, Fails(p, f),
           Checked(f), Blamed(flags) => Blamed(f),
           \A x \in Block : "data" \in f[x] <=> "data" \in flags[x],
           UNCHANGED <<best, orphans, oldestOrphan, utxoTip, utxoStatus, calls, crashes>>
    PROVE  IInv'
<1>1. FlagsMove
  BY DEF FlagsMove, Fails
<1>2. Return(p)
  BY DEF Fails
<1> QED  BY <1>1, <1>2, CallReturns

\* InControl of a call that moves on with shorter lists.
LEMMA StaysInControl ==
    ASSUME IInv, NEW p \in Actor, call[p].pc \in Moves, NEW c \in Call, c.pc \in Moves,
           c.node = call[p].node, c.op = call[p].op,
           NEW tip, c.pc = "disconnect" => c.detach # <<>> /\ Head(c.detach) = tip,
           c.pc = "connect" => /\ c.attach # <<>> /\ Parent[Head(c.attach)] = tip
                               /\ Head(c.attach) \notin BadPrefix,
           c.pc = "connected" => c.attach # <<>>,
           c.detach = call[p].detach \/ (call[p].detach # <<>> /\ c.detach = Tail(call[p].detach)),
           c.attach = call[p].attach \/ (call[p].attach # <<>> /\ c.attach = Tail(call[p].attach))
    PROVE  InControl(p, c, tip)
<1>1. /\ InControl(p, call[p], best)
      /\ call[p].detach \in Seq(Block) /\ call[p].attach \in Seq(Block)
  BY CallFields DEF IInv, Control
<1>2. ASSUME NEW s \in Seq(Block), s # <<>>, NEW i \in 1..Len(Tail(s))
      PROVE  Tail(s)[i] = s[i + 1] /\ i + 1 \in 1..Len(s)
  BY <1>2, SMT
<1>3. \A i \in 1..Len(c.detach) : c.detach[i] # Genesis
  <2>1. \A i \in 1..Len(call[p].detach) : call[p].detach[i] # Genesis
    BY <1>1 DEF InControl
  <2>2. CASE c.detach = call[p].detach
    BY <2>1, <2>2
  <2>3. CASE call[p].detach # <<>> /\ c.detach = Tail(call[p].detach)
    BY <1>1, <1>2, <2>1, <2>3, SMT
  <2> QED  BY <2>2, <2>3
<1>4. \A i \in 1..Len(c.attach) : c.attach[i] \notin BadScript \cup {Genesis}
  <2>1. \A i \in 1..Len(call[p].attach) : call[p].attach[i] \notin BadScript \cup {Genesis}
    BY <1>1 DEF InControl
  <2>2. CASE c.attach = call[p].attach
    BY <2>1, <2>2
  <2>3. CASE call[p].attach # <<>> /\ c.attach = Tail(call[p].attach)
    BY <1>1, <1>2, <2>1, <2>3, SMT
  <2> QED  BY <2>2, <2>3
<1> QED  BY <1>1, <1>3, <1>4 DEF InControl, Moves

\* reorganizeChain starts with the next block to detach.
LEMMA StartDisconnectStep ==
    ASSUME IInv, NEW p \in Actor, StartDisconnect(p)
    PROVE  IInv'
<1>0. TypeOK /\ Control /\ FlagsInv /\ BestIsSound
  BY DEF IInv
<1>1. /\ UNCHANGED <<best, orphans, oldestOrphan, utxoTip, utxoStatus, calls, crashes>>
      /\ lock = p /\ call[p].pc = "reorganize" /\ call[p].detach # <<>>
      /\ \/ /\ Head(call[p].detach) = best /\ stored' = flags /\ flags' = flags /\ lock' = lock
            /\ call' = [call EXCEPT ![p] = [call[p] EXCEPT !.pc = "disconnect"]]
         \/ Fails(p, flags)
  BY DEF StartDisconnect, At, Goto, orphanVars, utxoVars, counters
<1>2. flags \in Status /\ Checked(flags) /\ best \in Block
  BY <1>0 DEF TypeOK, Status, FlagsInv
<1>3. CASE Fails(p, flags)
  BY <1>1, <1>2, <1>3, FailsStep
<1>4. CASE /\ Head(call[p].detach) = best /\ stored' = flags /\ flags' = flags /\ lock' = lock
           /\ call' = [call EXCEPT ![p] = [call[p] EXCEPT !.pc = "disconnect"]]
  <2> DEFINE c == [call[p] EXCEPT !.pc = "disconnect"]
  <2>1. /\ c \in Call /\ c.pc = "disconnect" /\ c.node = call[p].node /\ c.queue = call[p].queue
        /\ c.op = call[p].op /\ c.detach = call[p].detach /\ c.attach = call[p].attach
    BY MoveOn, SMT DEF Moves
  <2>2. call' = [call EXCEPT ![p] = c]
    BY <1>4
  <2> HIDE DEF c
  <2>3. InControl(p, c, best')
    BY <1>1, <1>4, <2>1, StaysInControl DEF Moves
  <2>4. FlagsMove
    BY <1>1, <1>4, FlagsStay
  <2>5. /\ Chain[best'] \cap Bad = {} /\ best' \in Block /\ calls' \in Nat
        /\ utxoTip' \in Block /\ utxoStatus' \in Block
    BY <1>0, <1>1 DEF BestIsSound, TypeOK
  <2>6. /\ lock' = IF c.pc \in Holds THEN p ELSE None
        /\ c.pc # "idle" /\ c.pc \in {"accepted"} \cup Moves
        /\ call[p].pc \in {"best", "accepted"} \cup Moves
    BY <1>1, <1>4, <2>1 DEF Holds, Moves
  <2> QED  BY <1>1, <2>1, <2>2, <2>3, <2>4, <2>5, <2>6, CallContinues
<1> QED  BY <1>1, <1>3, <1>4

\* disconnectBlock moves the tip to the block before, and unlocks for the notification.
LEMMA DisconnectStep ==
    ASSUME IInv, NEW p \in Actor, disconnectBlock(p)
    PROVE  IInv'
<1> DEFINE c == [call[p] EXCEPT !.pc = "disconnected", !.detach = Tail(call[p].detach)]
<1>0. TypeOK /\ Control /\ FlagsInv /\ BestIsSound
  BY DEF IInv
<1>1. /\ UNCHANGED <<flags, stored, orphans, oldestOrphan, calls, crashes>>
      /\ lock = p /\ call[p].pc = "disconnect" /\ lock' = None
      /\ best' = Parent[best] /\ utxoTip' = best' /\ utxoStatus' = best'
  BY DEF disconnectBlock, At, orphanVars, nodeVars, counters
<1>2. call' = [call EXCEPT ![p] = c]
  BY <1>0 DEF disconnectBlock, TypeOK
<1>3. /\ call[p].detach # <<>> /\ Head(call[p].detach) = best
      /\ \A i \in 1..Len(call[p].detach) : call[p].detach[i] # Genesis
      /\ call[p].detach \in Seq(Block)
  BY <1>0, <1>1, CallFields DEF Control, InControl
<1>4. best \in Block \ {Genesis} /\ Parent[best] \in Block
  <2>1. Head(call[p].detach) = call[p].detach[1] /\ 1 \in 1..Len(call[p].detach) /\ best \in Block
    BY <1>0, <1>3, SMT DEF TypeOK
  <2> QED  BY <1>3, <2>1, ParentType
<1>5. /\ c \in Call /\ c.pc = "disconnected" /\ c.node = call[p].node /\ c.queue = call[p].queue
      /\ c.op = call[p].op /\ c.detach = Tail(call[p].detach) /\ c.attach = call[p].attach
  <2>1. Tail(call[p].detach) \in Seq(Block)
    BY <1>3, SMT
  <2> QED  BY <1>0, <2>1 DEF TypeOK, Call
<1> HIDE DEF c
<1>6. InControl(p, c, best')
  BY <1>1, <1>3, <1>5, StaysInControl DEF Moves
<1>7. FlagsMove
  BY <1>1, FlagsStay
<1>8. Chain[best'] \cap Bad = {} /\ best' \in Block /\ calls' \in Nat
  BY <1>0, <1>1, <1>4, ChainOfParent DEF BestIsSound, TypeOK
<1>9. /\ lock' = IF c.pc \in Holds THEN p ELSE None
      /\ c.pc # "idle" /\ c.pc \in {"accepted"} \cup Moves
      /\ call[p].pc \in {"best", "accepted"} \cup Moves
  BY <1>1, <1>5 DEF Holds, Moves
<1> QED  BY <1>1, <1>2, <1>5, <1>6, <1>7, <1>8, <1>9, CallContinues

\* reorganizeChain goes on after the notification of a block detached.
LEMMA ResumeDisconnectedStep ==
    ASSUME IInv, NEW p \in Actor, ResumeDisconnected(p)
    PROVE  IInv'
<1> DEFINE c == [call[p] EXCEPT !.pc = "reorganize"]
<1>0. TypeOK /\ Control /\ FlagsInv /\ BestIsSound
  BY DEF IInv
<1>1. /\ UNCHANGED <<flags, stored, best, orphans, oldestOrphan, utxoTip, utxoStatus, calls, crashes>>
      /\ lock = None /\ call[p].pc = "disconnected" /\ lock' = p
      /\ call' = [call EXCEPT ![p] = c]
  BY DEF ResumeDisconnected, Goto, orphanVars, utxoVars, nodeVars, counters
<1>2. /\ c \in Call /\ c.pc = "reorganize" /\ c.node = call[p].node /\ c.queue = call[p].queue
      /\ c.op = call[p].op /\ c.detach = call[p].detach /\ c.attach = call[p].attach
  BY MoveOn, SMT DEF Moves
<1> HIDE DEF c
<1>3. InControl(p, c, best')
  BY <1>1, <1>2, StaysInControl DEF Moves
<1>4. FlagsMove
  BY <1>1, FlagsStay
<1>5. /\ Chain[best'] \cap Bad = {} /\ best' \in Block /\ calls' \in Nat
      /\ utxoTip' \in Block /\ utxoStatus' \in Block
  BY <1>0, <1>1 DEF BestIsSound, TypeOK
<1>6. /\ lock' = IF c.pc \in Holds THEN p ELSE None
      /\ c.pc # "idle" /\ c.pc \in {"accepted"} \cup Moves
      /\ call[p].pc \in {"best", "accepted"} \cup Moves
  BY <1>1, <1>2 DEF Holds, Moves
<1> QED  BY <1>1, <1>2, <1>3, <1>4, <1>5, <1>6, CallContinues

\* reorganizeChain goes on to the next block to attach, or fails on its prefix rule.
LEMMA StartConnectStep ==
    ASSUME IInv, NEW p \in Actor, StartConnect(p)
    PROVE  IInv'
<1> DEFINE b == Head(call[p].attach)
<1>0. TypeOK /\ Control /\ FlagsInv /\ BestIsSound
  BY DEF IInv
<1>1. /\ UNCHANGED <<best, orphans, oldestOrphan, utxoTip, utxoStatus, calls, crashes>>
      /\ lock = p /\ call[p].pc = "reorganize" /\ call[p].attach # <<>>
      /\ \/ b \in BadPrefix /\ Fails(p, SetStatusFlags(flags, {b}, "failed"))
         \/ /\ b \notin BadPrefix /\ Parent[b] = best /\ stored' = flags /\ flags' = flags /\ lock' = lock
            /\ call' = [call EXCEPT ![p] = [call[p] EXCEPT !.pc = "connect"]]
         \/ Fails(p, flags)
  BY DEF StartConnect, At, Goto, orphanVars, utxoVars, counters
<1>2. flags \in Status /\ Checked(flags) /\ best \in Block
  BY <1>0 DEF TypeOK, Status, FlagsInv
<1>3. CASE Fails(p, flags)
  BY <1>1, <1>2, <1>3, FailsStep
<1>4. CASE b \in BadPrefix /\ Fails(p, SetStatusFlags(flags, {b}, "failed"))
  <2> DEFINE f == SetStatusFlags(flags, {b}, "failed")
  <2>1. b \in Block /\ b \in Bad
    BY <1>4, ChainAssumption DEF Bad
  <2>2. /\ f \in Status /\ Checked(f) /\ (Blamed(flags) => Blamed(f))
        /\ \A x \in Block : "data" \in f[x] <=> "data" \in flags[x]
    BY <1>2, <2>1, FailedFlag, SMT
  <2> HIDE DEF f
  <2>3. Fails(p, f)
    BY <1>4 DEF f
  <2> QED  BY <1>1, <2>2, <2>3, FailsStep
<1>5. CASE /\ b \notin BadPrefix /\ Parent[b] = best /\ stored' = flags /\ flags' = flags /\ lock' = lock
           /\ call' = [call EXCEPT ![p] = [call[p] EXCEPT !.pc = "connect"]]
  <2> DEFINE c == [call[p] EXCEPT !.pc = "connect"]
  <2>1. /\ c \in Call /\ c.pc = "connect" /\ c.node = call[p].node /\ c.queue = call[p].queue
        /\ c.op = call[p].op /\ c.detach = call[p].detach /\ c.attach = call[p].attach
    BY MoveOn, SMT DEF Moves
  <2>2. call' = [call EXCEPT ![p] = c]
    BY <1>5
  <2> HIDE DEF c
  <2>3. InControl(p, c, best')
    BY <1>1, <1>5, <2>1, StaysInControl DEF Moves
  <2>4. FlagsMove
    BY <1>1, <1>5, FlagsStay
  <2>5. /\ Chain[best'] \cap Bad = {} /\ best' \in Block /\ calls' \in Nat
        /\ utxoTip' \in Block /\ utxoStatus' \in Block
    BY <1>0, <1>1 DEF BestIsSound, TypeOK
  <2>6. /\ lock' = IF c.pc \in Holds THEN p ELSE None
        /\ c.pc # "idle" /\ c.pc \in {"accepted"} \cup Moves
        /\ call[p].pc \in {"best", "accepted"} \cup Moves
    BY <1>1, <1>5, <2>1 DEF Holds, Moves
  <2> QED  BY <1>1, <2>1, <2>2, <2>3, <2>4, <2>5, <2>6, CallContinues
<1> QED  BY <1>1, <1>3, <1>4, <1>5

\* connectBlock moves the tip to the block, or fails on its commitment.
LEMMA ConnectStep ==
    ASSUME IInv, NEW p \in Actor, connectBlock(p)
    PROVE  IInv'
<1> DEFINE b == Head(call[p].attach)
<1>0. TypeOK /\ Control /\ FlagsInv /\ BestIsSound
  BY DEF IInv
<1>1. /\ UNCHANGED <<orphans, oldestOrphan, utxoTip, utxoStatus, calls, crashes>>
      /\ lock = p /\ call[p].pc = "connect"
      /\ \/ /\ b \notin BadCommitment /\ best' = b /\ UNCHANGED <<flags, stored>> /\ lock' = None
            /\ call' = [call EXCEPT ![p] = [call[p] EXCEPT !.pc = "connected"]]
         \/ b \in BadCommitment /\ Fails(p, SetStatusFlags(flags, {b}, "failed")) /\ best' = best
         \/ Fails(p, flags) /\ best' = best
  BY DEF connectBlock, At, Goto, orphanVars, utxoVars, nodeVars, counters
<1>2. flags \in Status /\ Checked(flags) /\ best \in Block
  BY <1>0 DEF TypeOK, Status, FlagsInv
<1>3. CASE Fails(p, flags) /\ best' = best
  BY <1>1, <1>2, <1>3, FailsStep
<1>4. CASE b \in BadCommitment /\ Fails(p, SetStatusFlags(flags, {b}, "failed")) /\ best' = best
  <2> DEFINE f == SetStatusFlags(flags, {b}, "failed")
  <2>1. b \in Block /\ b \in Bad
    BY <1>4, ChainAssumption DEF Bad
  <2>2. /\ f \in Status /\ Checked(f) /\ (Blamed(flags) => Blamed(f))
        /\ \A x \in Block : "data" \in f[x] <=> "data" \in flags[x]
    BY <1>2, <2>1, FailedFlag, SMT
  <2> HIDE DEF f
  <2>3. Fails(p, f)
    BY <1>4 DEF f
  <2> QED  BY <1>1, <1>4, <2>2, <2>3, FailsStep
<1>5. CASE /\ b \notin BadCommitment /\ best' = b /\ UNCHANGED <<flags, stored>> /\ lock' = None
           /\ call' = [call EXCEPT ![p] = [call[p] EXCEPT !.pc = "connected"]]
  <2> DEFINE c == [call[p] EXCEPT !.pc = "connected"]
  <2>1. /\ c \in Call /\ c.pc = "connected" /\ c.node = call[p].node /\ c.queue = call[p].queue
        /\ c.op = call[p].op /\ c.detach = call[p].detach /\ c.attach = call[p].attach
    BY MoveOn, SMT DEF Moves
  <2>2. call' = [call EXCEPT ![p] = c]
    BY <1>5
  <2> HIDE DEF c
  <2>3. /\ call[p].attach # <<>> /\ Parent[b] = best /\ b \notin BadPrefix
        /\ call[p].attach \in Seq(Block)
        /\ \A i \in 1..Len(call[p].attach) : call[p].attach[i] \notin BadScript \cup {Genesis}
    BY <1>0, <1>1, CallFields DEF Control, InControl
  <2>4. b = call[p].attach[1] /\ 1 \in 1..Len(call[p].attach)
    BY <2>3, SMT
  <2>5. b \in Block \ {Genesis} /\ b \notin Bad
    BY <1>5, <2>3, <2>4, SMT DEF Bad
  <2>6. Chain[b] = Chain[best] \cup {b}
    BY <2>3, <2>5, ChainOfParent
  <2>7. InControl(p, c, best')
    BY <1>1, <2>1, <2>3, StaysInControl DEF Moves
  <2>8. FlagsMove
    BY <1>1, <1>5, FlagsStay
  <2>9. /\ Chain[best'] \cap Bad = {} /\ best' \in Block /\ calls' \in Nat
        /\ utxoTip' \in Block /\ utxoStatus' \in Block
    BY <1>0, <1>1, <1>5, <2>5, <2>6, SMTT(30) DEF BestIsSound, TypeOK
  <2>10. /\ lock' = IF c.pc \in Holds THEN p ELSE None
         /\ c.pc # "idle" /\ c.pc \in {"accepted"} \cup Moves
         /\ call[p].pc \in {"best", "accepted"} \cup Moves
    BY <1>1, <1>5, <2>1 DEF Holds, Moves
  <2> QED  BY <1>1, <2>1, <2>2, <2>7, <2>8, <2>9, <2>10, CallContinues
<1> QED  BY <1>1, <1>3, <1>4, <1>5

\* reorganizeChain goes on after the notification of a block attached.
LEMMA ResumeConnectedStep ==
    ASSUME IInv, NEW p \in Actor, ResumeConnected(p)
    PROVE  IInv'
<1> DEFINE c == [call[p] EXCEPT !.pc = "reorganize", !.attach = Tail(call[p].attach)]
<1>0. TypeOK /\ Control /\ FlagsInv /\ BestIsSound
  BY DEF IInv
<1>1. /\ UNCHANGED <<flags, stored, best, orphans, oldestOrphan, calls, crashes>>
      /\ lock = None /\ call[p].pc = "connected" /\ lock' = p
      /\ \/ UNCHANGED <<utxoTip, utxoStatus>>
         \/ utxoTip' = best /\ utxoStatus' = Head(call[p].attach)
  BY DEF ResumeConnected, orphanVars, utxoVars, nodeVars, counters
<1>2. call' = [call EXCEPT ![p] = c]
  BY <1>0 DEF ResumeConnected, TypeOK
<1>3. call[p].attach # <<>> /\ call[p].attach \in Seq(Block)
  BY <1>0, <1>1, CallFields DEF Control, InControl
<1>4. /\ c \in Call /\ c.pc = "reorganize" /\ c.node = call[p].node /\ c.queue = call[p].queue
      /\ c.op = call[p].op /\ c.detach = call[p].detach /\ c.attach = Tail(call[p].attach)
  <2>1. Tail(call[p].attach) \in Seq(Block)
    BY <1>3, SMT
  <2> QED  BY <1>0, <2>1 DEF TypeOK, Call
<1> HIDE DEF c
<1>5. InControl(p, c, best')
  BY <1>1, <1>3, <1>4, StaysInControl DEF Moves
<1>6. FlagsMove
  BY <1>1, FlagsStay
<1>7. /\ Chain[best'] \cap Bad = {} /\ best' \in Block /\ calls' \in Nat
      /\ utxoTip' \in Block /\ utxoStatus' \in Block
  <2>1. Head(call[p].attach) \in Block
    BY <1>3, SMT
  <2> QED  BY <1>0, <1>1, <2>1 DEF BestIsSound, TypeOK
<1>8. /\ lock' = IF c.pc \in Holds THEN p ELSE None
      /\ c.pc # "idle" /\ c.pc \in {"accepted"} \cup Moves
      /\ call[p].pc \in {"best", "accepted"} \cup Moves
  BY <1>1, <1>4 DEF Holds, Moves
<1> QED  BY <1>1, <1>2, <1>4, <1>5, <1>6, <1>7, <1>8, CallContinues

\* InvalidateBlock reorganizes to the best of the other tips.
LEMMA SwitchStep ==
    ASSUME IInv, SwitchToBestTip
    PROVE  IInv'
<1>0. TypeOK /\ Control /\ FlagsInv /\ BestIsSound /\ "rpc" \in Actor
  BY DEF IInv
<1>1. /\ UNCHANGED <<best, orphans, oldestOrphan, utxoTip, utxoStatus, calls, crashes>>
      /\ lock = "rpc" /\ call["rpc"].pc = "reorganize"
  BY DEF SwitchToBestTip, ChoosesTip, At, orphanVars, utxoVars, counters
<1>2. flags \in Status /\ Checked(flags) /\ best \in Block
  BY <1>0 DEF TypeOK, Status, FlagsInv
<1>3. PICK t \in BestTips :
        LET r == getReorganizeNodes(flags, t)
            v == verifyReorganizationValidity(r.flags, r.detach, r.attach)
        IN  \/ /\ t = best /\ stored' = flags /\ Return("rpc") /\ UNCHANGED flags
            \/ /\ t # best /\ v.ok /\ flags' = v.flags /\ stored' = flags
               /\ call' = [call EXCEPT !["rpc"].op = "switch", !["rpc"].detach = r.detach,
                                       !["rpc"].attach = r.attach]
               /\ UNCHANGED lock
            \/ /\ t # best /\ ~v.ok /\ flags' = v.flags /\ stored' = flags' /\ Return("rpc")
  BY DEF SwitchToBestTip
<1> DEFINE r == getReorganizeNodes(flags, t)
           v == verifyReorganizationValidity(r.flags, r.detach, r.attach)
<1>4. t \in Block /\ (t # best => t \notin Chain[best])
  BY <1>0, BestTipsType
<1>5. \/ /\ t = best /\ stored' = flags /\ Return("rpc") /\ UNCHANGED flags
      \/ /\ t # best /\ v.ok /\ flags' = v.flags /\ stored' = flags
         /\ call' = [call EXCEPT !["rpc"].op = "switch", !["rpc"].detach = r.detach,
                                 !["rpc"].attach = r.attach]
         /\ UNCHANGED lock
      \/ /\ t # best /\ flags' = v.flags /\ stored' = flags' /\ Return("rpc")
  BY <1>3, Zenon
<1>6. r = getReorganizeNodes(flags, t) /\ v = verifyReorganizationValidity(r.flags, r.detach, r.attach)
  OBVIOUS
<1> HIDE DEF r, v
<1>7. CASE t = best /\ stored' = flags /\ Return("rpc") /\ UNCHANGED flags
  BY <1>0, <1>1, <1>7, FlagsStay, CallReturns
<1>8. ASSUME t # best, flags' = v.flags
      PROVE  /\ flags' \in Status /\ Checked(flags') /\ (Blamed(flags) => Blamed(flags'))
             /\ \A x \in Block : "data" \in flags'[x] <=> "data" \in flags[x]
             /\ r.detach \in Seq(Block) /\ \A i \in 1..Len(r.detach) : r.detach[i] # Genesis
             /\ r.attach \in Seq(Block) /\ \A i \in 1..Len(r.attach) : r.attach[i] # Genesis
             /\ v.ok => \A i \in 1..Len(r.attach) : r.attach[i] \notin BadScript
  BY <1>2, <1>4, <1>6, <1>8, Reorganization, SMTT(30)
<1>9. CASE t # best /\ flags' = v.flags /\ stored' = flags' /\ Return("rpc")
  <2>1. FlagsMove
    BY <1>1, <1>8, <1>9 DEF FlagsMove
  <2> QED  BY <1>0, <1>1, <1>9, <2>1, CallReturns
<1>10. CASE /\ t # best /\ v.ok /\ flags' = v.flags /\ stored' = flags
            /\ call' = [call EXCEPT !["rpc"].op = "switch", !["rpc"].detach = r.detach,
                                    !["rpc"].attach = r.attach]
            /\ UNCHANGED lock
  <2> DEFINE c == [call["rpc"] EXCEPT !.op = "switch", !.detach = r.detach, !.attach = r.attach]
  <2>1. /\ c \in Call /\ c.pc = "reorganize" /\ c.op = "switch" /\ c.attach = r.attach
        /\ c.detach = r.detach
    BY <1>0, <1>1, <1>8, <1>10 DEF TypeOK, Call
  <2>2. call' = [call EXCEPT !["rpc"] = c]
    BY <1>0, <1>10 DEF TypeOK
  <2> HIDE DEF c
  <2>3. InControl("rpc", c, best')
    BY <1>8, <1>10, <2>1 DEF InControl, Moves
  <2>4. FlagsMove
    BY <1>1, <1>8, <1>10 DEF FlagsMove
  <2>5. /\ Chain[best'] \cap Bad = {} /\ best' \in Block /\ calls' \in Nat
        /\ utxoTip' \in Block /\ utxoStatus' \in Block
    BY <1>0, <1>1 DEF BestIsSound, TypeOK
  <2>6. lock' = (IF c.pc \in Holds THEN "rpc" ELSE None) /\ c.pc # "idle"
    BY <1>1, <1>10, <2>1 DEF Holds
  <2> QED  BY <1>0, <1>1, <2>1, <2>2, <2>3, <2>4, <2>5, <2>6, CallContinues
<1> QED  BY <1>5, <1>7, <1>9, <1>10

\* InvalidateBlock finds no other tip.
LEMMA NilTipStep ==
    ASSUME IInv, NilTip
    PROVE  IInv'
<1>1. /\ UNCHANGED <<flags, best, orphans, oldestOrphan, utxoTip, utxoStatus, calls, crashes>>
      /\ lock = "rpc" /\ stored' = flags /\ Return("rpc") /\ "rpc" \in Actor
  BY DEF NilTip, ChoosesTip, At, orphanVars, utxoVars, counters
<1> QED  BY <1>1, FlagsStay, CallReturns

\* A call of the RPC server returns.
LEMMA FinishRpcStep ==
    ASSUME IInv, FinishRpc
    PROVE  IInv'
<1>1. /\ UNCHANGED <<flags, best, orphans, oldestOrphan, utxoTip, utxoStatus, calls, crashes>>
      /\ lock = "rpc" /\ stored' \in {flags, stored} /\ Return("rpc") /\ "rpc" \in Actor
  BY DEF FinishRpc, At, orphanVars, utxoVars, counters
<1> QED  BY <1>1, FlagsStay, CallReturns

\* A call of the RPC server begins: nobody holds chainLock.
LEMMA CallBegins ==
    ASSUME IInv, NEW p \in Actor, Free(p)
    PROVE  /\ lock = None /\ call[p].pc = "idle"
           /\ \A q \in Actor : call[q].pc \notin Holds
           /\ call["sync"].pc # "accept"
<1>1. None \notin Actor /\ "sync" \in Actor
  BY ChainAssumption
<1> QED  BY <1>1 DEF IInv, Control, Free, Holds

\* InvalidateBlock of a block off the best chain.
LEMMA InvalidateSideStep ==
    ASSUME IInv, NEW b \in Block, InvalidateSideBlock(b)
    PROVE  IInv'
<1> DEFINE S == {d \in Block : HaveBlock(d) /\ d # b /\ b \in Chain[d] /\ ~KnownInvalid(flags, d)}
<1>0. /\ UNCHANGED <<best, orphans, oldestOrphan, utxoTip, utxoStatus, lock, call, crashes>>
      /\ Free("rpc") /\ calls' = calls + 1 /\ stored' = flags'
      /\ flags' = UnsetStatusFlags(SetStatusFlags(SetStatusFlags(flags, {b}, "failed"), S, "ancestor"),
                                   S \cup {b}, {"valid"})
  BY DEF InvalidateSideBlock, orphanVars, utxoVars
<1>1. flags \in Status /\ Checked(flags) /\ calls \in Nat /\ "rpc" \in Actor
  BY DEF IInv, TypeOK, Status, FlagsInv
<1>2. S \in SUBSET Block
  OBVIOUS
<1> HIDE DEF S
<1>3. /\ flags' \in Status /\ Checked(flags')
      /\ \A x \in Block : "data" \in flags'[x] <=> "data" \in flags[x]
  BY <1>0, <1>1, <1>2, Invalidation, SMTT(30)
<1>4. calls' # 0 /\ calls' \in Nat
  BY <1>0, <1>1, SMT
<1>5. stored' = flags'
  BY <1>0
<1>6. FlagsMove
  BY <1>3, <1>4, <1>5 DEF FlagsMove
<1>7. Free("rpc") /\ UNCHANGED <<best, orphans, oldestOrphan, utxoTip, utxoStatus, lock, call, crashes>>
  BY <1>0
<1> QED  BY <1>1, <1>4, <1>6, <1>7, CallBegins, CallStays

\* InvalidateBlock of a block of the best chain.
LEMMA InvalidateBestStep ==
    ASSUME IInv, NEW b \in Block, InvalidateBestBlock(b)
    PROVE  IInv'
<1> DEFINE S == {x \in Chain[best] : b \in Chain[x] /\ x # b /\ ~KnownInvalid(flags, x)}
<1>0. TypeOK /\ FlagsInv /\ BestIsSound /\ "rpc" \in Actor
  BY DEF IInv
<1>1. /\ UNCHANGED <<stored, best, orphans, oldestOrphan, utxoTip, utxoStatus, crashes>>
      /\ Free("rpc") /\ calls' = calls + 1
      /\ b # Genesis /\ b \in Chain[best]
  BY DEF InvalidateBestBlock, orphanVars, utxoVars
<1>2. flags' = UnsetStatusFlags(SetStatusFlags(SetStatusFlags(flags, {b}, "failed"), S, "ancestor"),
                                S \cup {b}, {"valid"})
  BY DEF InvalidateBestBlock
<1>3. PICK detach \in FromTheTip(S \cup {b}) :
        \/ /\ lock' = "rpc"
           /\ call' = [call EXCEPT !["rpc"] = [Idle EXCEPT !.pc = "reorganize", !.op = "invalidate",
                                                           !.detach = detach]]
        \/ UNCHANGED <<lock, call>>
  BY DEF InvalidateBestBlock
<1>4. flags \in Status /\ Checked(flags) /\ calls \in Nat /\ best \in Block
  BY <1>0 DEF TypeOK, Status, FlagsInv
<1>5. S \cup {b} \in SUBSET (Block \ {Genesis})
  <2>1. Chain[best] \subseteq Block
    BY <1>4, ChainElements
  <2>2. Chain[Genesis] = {Genesis}
    BY GenesisHeight, ChainElements, SMT
  <2> QED  BY <1>1, <2>1, <2>2
<1> HIDE DEF S
<1>6. /\ flags' \in Status /\ Checked(flags')
      /\ \A x \in Block : "data" \in flags'[x] <=> "data" \in flags[x]
  BY <1>2, <1>4, <1>5, Invalidation, SMTT(30)
<1>7. FlagsMove /\ calls' \in Nat
  BY <1>1, <1>4, <1>6, SMT DEF FlagsMove
<1>8. detach \in Seq(Block) /\ \A i \in 1..Len(detach) : detach[i] # Genesis
  <2>1. detach \in Seq(Block) /\ \A i \in 1..Len(detach) : detach[i] \in S \cup {b}
    BY <1>3, <1>5, FromTheTipType
  <2> QED  BY <1>5, <2>1
<1>9. CASE UNCHANGED <<lock, call>>
  BY <1>0, <1>1, <1>7, <1>9, CallBegins, CallStays
<1>10. CASE /\ lock' = "rpc"
            /\ call' = [call EXCEPT !["rpc"] = [Idle EXCEPT !.pc = "reorganize", !.op = "invalidate",
                                                            !.detach = detach]]
  <2> DEFINE c == [Idle EXCEPT !.pc = "reorganize", !.op = "invalidate", !.detach = detach]
  <2>1. c \in Call /\ c.pc = "reorganize" /\ c.op = "invalidate" /\ c.attach = <<>> /\ c.detach = detach
    <3>1. <<>> \in Seq(Block)
      BY SMT
    <3> QED  BY <1>8, <3>1 DEF Idle, Call
  <2>2. call' = [call EXCEPT !["rpc"] = c]
    BY <1>10
  <2> HIDE DEF c
  <2>3. InControl("rpc", c, best')
    BY <1>8, <2>1, SMT DEF InControl, Moves
  <2>4. /\ Chain[best'] \cap Bad = {} /\ best' \in Block
        /\ utxoTip' \in Block /\ utxoStatus' \in Block
    BY <1>0, <1>1 DEF BestIsSound, TypeOK
  <2>5. lock = None /\ lock' = (IF c.pc \in Holds THEN "rpc" ELSE None) /\ c.pc # "idle"
    BY <1>0, <1>1, <1>10, <2>1, CallBegins DEF Holds
  <2> QED  BY <1>0, <1>1, <1>7, <2>1, <2>2, <2>3, <2>4, <2>5, CallContinues
<1> QED  BY <1>3, <1>9, <1>10

\* ReconsiderBlock clears the flags and may reorganize.
LEMMA ReconsiderStep ==
    ASSUME IInv, NEW b \in Block, ReconsiderBlock(b)
    PROVE  IInv'
<1> DEFINE S == {d \in Block : HaveBlock(d) /\ d # b /\ b \in Chain[d]}
           f == UnsetStatusFlags(UnsetStatusFlags(flags, {b}, {"ancestor", "failed"}), S, {"ancestor"})
<1>0. TypeOK /\ FlagsInv /\ BestIsSound /\ "rpc" \in Actor
  BY DEF IInv
<1>1. /\ UNCHANGED <<best, orphans, oldestOrphan, utxoTip, utxoStatus, crashes>>
      /\ Free("rpc") /\ calls' = calls + 1
  BY DEF ReconsiderBlock, orphanVars, utxoVars
<1>2. PICK t \in ReconsiderTips(b) :
         LET r == getReorganizeNodes(f, t)
             v == verifyReorganizationValidity(r.flags, r.detach, r.attach)
         IN  \/ flags' = f /\ UNCHANGED <<stored, lock, call>>
             \/ Work[t] > Work[best] /\ flags' = v.flags /\ stored' = flags' /\ UNCHANGED <<lock, call>>
             \/ /\ Work[t] > Work[best] /\ v.ok /\ flags' = v.flags /\ stored' = flags' /\ lock' = "rpc"
                /\ call' = [call EXCEPT !["rpc"] = [Idle EXCEPT !.pc = "reorganize", !.op = "reconsider",
                                                       !.detach = r.detach, !.attach = r.attach]]
  BY Zenon DEF ReconsiderBlock
<1> DEFINE r == getReorganizeNodes(f, t)
           v == verifyReorganizationValidity(r.flags, r.detach, r.attach)
<1>3. flags \in Status /\ Checked(flags) /\ calls \in Nat /\ best \in Block
  BY <1>0 DEF TypeOK, Status, FlagsInv
<1>4. t \in Block
  BY <1>2, <1>3 DEF ReconsiderTips, InactiveTips
<1>5. /\ f \in Status /\ Checked(f)
      /\ \A x \in Block : "data" \in f[x] <=> "data" \in flags[x]
  <2>1. S \in SUBSET Block
    OBVIOUS
  <2> HIDE DEF S
  <2> QED  BY <1>3, <2>1, Reconsideration, SMT
<1> HIDE DEF f, S
<1>6. \/ flags' = f /\ UNCHANGED <<stored, lock, call>>
      \/ Work[t] > Work[best] /\ flags' = v.flags /\ stored' = flags' /\ UNCHANGED <<lock, call>>
      \/ /\ Work[t] > Work[best] /\ v.ok /\ flags' = v.flags /\ stored' = flags' /\ lock' = "rpc"
         /\ call' = [call EXCEPT !["rpc"] = [Idle EXCEPT !.pc = "reorganize", !.op = "reconsider",
                                                !.detach = r.detach, !.attach = r.attach]]
  BY <1>2, Zenon
<1>7. r = getReorganizeNodes(f, t) /\ v = verifyReorganizationValidity(r.flags, r.detach, r.attach)
  BY ZenonT(40)
<1> HIDE DEF r, v
<1>8. ASSUME Work[t] > Work[best], flags' = v.flags
      PROVE  /\ flags' \in Status /\ Checked(flags')
             /\ \A x \in Block : "data" \in flags'[x] <=> "data" \in f[x]
             /\ r.detach \in Seq(Block) /\ \A i \in 1..Len(r.detach) : r.detach[i] # Genesis
             /\ r.attach \in Seq(Block) /\ \A i \in 1..Len(r.attach) : r.attach[i] # Genesis
             /\ v.ok => \A i \in 1..Len(r.attach) : r.attach[i] \notin BadScript
  <2>1. t \notin Chain[best]
    BY <1>3, <1>4, <1>8, HeavierIsOff
  <2> QED  BY <1>3, <1>4, <1>5, <1>7, <1>8, <2>1, Reorganization, SMTT(30)
<1>9. CASE flags' = f /\ UNCHANGED <<stored, lock, call>>
  <2>1. FlagsMove /\ calls' \in Nat
    BY <1>1, <1>3, <1>5, <1>9, SMTT(30) DEF FlagsMove
  <2> QED  BY <1>0, <1>1, <1>9, <2>1, CallBegins, CallStays
<1>10. ASSUME Work[t] > Work[best], flags' = v.flags, stored' = flags'
       PROVE  FlagsMove /\ calls' \in Nat
  BY <1>1, <1>3, <1>5, <1>8, <1>10, SMTT(30) DEF FlagsMove
<1>11. CASE Work[t] > Work[best] /\ flags' = v.flags /\ stored' = flags' /\ UNCHANGED <<lock, call>>
  BY <1>0, <1>1, <1>10, <1>11, CallBegins, CallStays
<1>12. CASE /\ Work[t] > Work[best] /\ v.ok /\ flags' = v.flags /\ stored' = flags' /\ lock' = "rpc"
            /\ call' = [call EXCEPT !["rpc"] = [Idle EXCEPT !.pc = "reorganize", !.op = "reconsider",
                                                   !.detach = r.detach, !.attach = r.attach]]
  <2> DEFINE c == [Idle EXCEPT !.pc = "reorganize", !.op = "reconsider",
                               !.detach = r.detach, !.attach = r.attach]
  <2>1. /\ c \in Call /\ c.pc = "reorganize" /\ c.op = "reconsider" /\ c.attach = r.attach
        /\ c.detach = r.detach
    <3>1. <<>> \in Seq(Block)
      BY SMT
    <3> QED  BY <1>8, <1>12, <3>1 DEF Idle, Call
  <2>2. call' = [call EXCEPT !["rpc"] = c]
    BY <1>12
  <2> HIDE DEF c
  <2>3. InControl("rpc", c, best')
    BY <1>8, <1>12, <2>1 DEF InControl, Moves
  <2>4. /\ Chain[best'] \cap Bad = {} /\ best' \in Block
        /\ utxoTip' \in Block /\ utxoStatus' \in Block
    BY <1>0, <1>1 DEF BestIsSound, TypeOK
  <2>5. lock = None /\ lock' = (IF c.pc \in Holds THEN "rpc" ELSE None) /\ c.pc # "idle"
    BY <1>0, <1>1, <1>12, <2>1, CallBegins DEF Holds
  <2>6. FlagsMove /\ calls' \in Nat
    BY <1>10, <1>12
  <2> QED  BY <1>0, <1>1, <2>1, <2>2, <2>3, <2>4, <2>5, <2>6, CallContinues
<1> QED  BY <1>6, <1>9, <1>11, <1>12

\* The process ends and starts again from what was stored.
LEMMA CrashStep ==
    ASSUME IInv, Crash
    PROVE  IInv'
<1>0. TypeOK /\ FlagsInv /\ BestIsSound
  BY DEF IInv
<1>1. /\ UNCHANGED <<best, utxoTip, utxoStatus, calls>>
      /\ stored' = flags' /\ orphans' = <<>> /\ oldestOrphan' = None /\ lock' = None
      /\ crashes' = crashes + 1 /\ call' = [p \in Actor |-> Idle]
      /\ flags' = SetStatusFlags(stored, Chain[best], "valid")
  BY DEF Crash, utxoVars
<1>2. Chain[best] \subseteq Block /\ best \in Block /\ stored \in Status
  BY <1>0, ChainElements DEF TypeOK, Status
<1>3. flags' \in Status /\ \A x \in Block : flags'[x] = IF x \in Chain[best] THEN stored[x] \cup {"valid"}
                                                        ELSE stored[x]
  BY <1>1, <1>2 DEF SetStatusFlags, Status
<1>4. None \notin Actor /\ <<>> \in Seq(Block) /\ \A p \in Actor : call'[p] = Idle
  BY <1>1, ChainAssumption, SMT
<1>5. Idle \in Call
  BY <1>4 DEF Call, Idle
<1>6. TypeOK'
  <2>1. IsInjective(orphans')
    BY <1>1, SMT DEF IsInjective
  <2> QED  BY <1>0, <1>1, <1>3, <1>4, <1>5, <2>1, SMTT(30) DEF TypeOK, Status
<1>7. Control'
  <2>1. \A p \in Actor : call'[p].pc \notin Holds /\ lock' # p
    BY <1>1, <1>4 DEF Holds, Idle
  <2>2. \A p \in Actor : InControl(p, call'[p], best')
    BY <1>4, SMT DEF InControl, Idle, Moves
  <2> QED  BY <2>1, <2>2 DEF Control, InControl
<1>8. FlagsInv'
  <2>1. \A x \in Block : KnownInvalid(flags', x) <=> KnownInvalid(stored, x)
    BY <1>3 DEF KnownInvalid
  <2>2. Blamed(stored) => Blamed(flags')
    BY <2>1 DEF Blamed
  <2>3. Checked(flags')
    BY <1>0, <1>3 DEF FlagsInv, Checked, KnownValid, BestIsSound, Bad
  <2>4. Known(flags')
    <3>1. \A x \in Block : Chain[x] \subseteq Block
      BY ChainElements
    <3>2. ASSUME NEW x \in Block
          PROVE  "data" \in flags'[x] <=> "data" \in stored[x]
      <4>1. flags'[x] = IF x \in Chain[best] THEN stored[x] \cup {"valid"} ELSE stored[x]
        BY <1>3
      <4> QED  BY <4>1, SMT
    <3> QED  BY <1>0, <3>1, <3>2 DEF FlagsInv, Known
  <2>5. Checked(flags)' /\ Checked(stored)' /\ Known(flags)' /\ Known(stored)'
    BY <1>1, <2>3, <2>4 DEF Checked, Known, KnownValid
  <2>6. calls' = 0 => Blamed(flags)' /\ Blamed(stored)'
    BY <1>0, <1>1, <2>2 DEF FlagsInv, Blamed, KnownInvalid
  <2> QED  BY <2>5, <2>6 DEF FlagsInv
<1>9. OrphanInv'
  BY <1>1, <1>4, ChainAssumption, SMT DEF OrphanInv, Idle, Moves
<1>10. BestIsSound'
  BY <1>0, <1>1 DEF BestIsSound
<1> QED  BY <1>6, <1>7, <1>8, <1>9, <1>10 DEF IInv

\* Every step keeps the invariant.
LEMMA NextIInv == IInv /\ [Next]_vars => IInv'
<1> SUFFICES ASSUME IInv, [Next]_vars PROVE IInv'
  BY ZenonT(40)
<1>1. CASE UNCHANGED vars
  BY <1>1, SMT DEF vars, nodeVars, orphanVars, utxoVars, counters, IInv, TypeOK, Control, InControl, FlagsInv,
              OrphanInv, BestIsSound, Checked, Blamed, Known, KnownValid, KnownInvalid, HaveBlock
<1>2. CASE Arrival
  BY <1>2, OrphanStep, ArrivalStep DEF Arrival
<1>3. CASE RpcCall
  BY <1>3, InvalidateSideStep, InvalidateBestStep, ReconsiderStep DEF RpcCall
<1>4. ASSUME NEW p \in Actor, Step(p)
      PROVE  IInv'
  BY <1>4, StartDisconnectStep, DisconnectStep, ResumeDisconnectedStep, StartConnectStep, ConnectStep,
     ResumeConnectedStep DEF Step
<1>5. CASE SyncStep
  BY <1>4, <1>5, AcceptStep, ConnectBestStep, FinishAcceptStep, ResumeAcceptedStep,
     ProcessOrphansStep, ZenonT(40) DEF SyncStep
<1>6. CASE RpcStep
  BY <1>4, <1>6, SwitchStep, NilTipStep, FinishRpcStep DEF RpcStep
<1>7. CASE Crash
  BY <1>7, CrashStep
<1> QED  BY <1>1, <1>2, <1>3, <1>5, <1>6, <1>7 DEF Next
=============================================================================
