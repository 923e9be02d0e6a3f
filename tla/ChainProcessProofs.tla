------------------------- MODULE ChainProcessProofs -------------------------
(***************************************************************************)
(* What holds of ChainProcess for every block tree: the three invariants,  *)
(* and the properties that follow from them.                               *)
(***************************************************************************)
EXTENDS ChainProcessInvariant, ChainProcessAlone, ChainProcessMostWork

USE Zenon DEF Pcs, Ops, Flag, Actor

\* The invariant of a node whose two goroutines process blocks, and invalidate and
\* reconsider them, with crashes in between.
THEOREM ChainInvariance == Spec => []IInv
BY InitIInv, NextIInv, PTL DEF Spec

\* The best chain never has a block that breaks a rule (BestIsSound), however the calls
\* of the two goroutines overlap.
THEOREM BestAlwaysSound == Spec => []BestIsSound
<1>1. IInv => BestIsSound
  BY DEF IInv
<1> QED  BY <1>1, ChainInvariance, PTL

\* The invariant of calls that do not overlap.
THEOREM AloneInvariance == Spec => []AInv
<1>1. Init => AInv
  BY InitAInv
<1> QED  BY <1>1, NextAInv, ChainInvariance, PTL DEF Spec

\* Unless calls overlap, the chain state that is stored names the tip that the UTXO
\* set on disk belongs to (StatusNamesDisk).
THEOREM StatusAlwaysNamesDisk == Spec => [](Alone => StatusNamesDisk)
<1>1. AInv => (Alone => StatusNamesDisk)
  BY DEF AInv
<1> QED  BY <1>1, AloneInvariance, PTL

\* Unless calls overlap, a sound block that maybeAcceptBlock accepts leaves a best chain
\* with at least its work (AcceptedIsBest), crashes before it or not.
THEOREM AcceptedAlwaysBest == Spec => [](Alone => AcceptedIsBest)
<1>1. AInv => (Alone => AcceptedIsBest)
  BY DEF AInv, SyncOK, Invalid, AcceptedIsBest
<1> QED  BY <1>1, AloneInvariance, PTL

\* Unless calls overlap, the status flags keep invalid blocks off the best chain, call only
\* checked blocks valid, and blame no block for the failure of another (FlagsSound).
THEOREM FlagsAlwaysSound == Spec => [](Alone => FlagsSound)
<1>1. IInv /\ AInv => (Alone => FlagsSound)
  <2> SUFFICES ASSUME IInv, AInv, Alone PROVE FlagsSound
    OBVIOUS
  <2>1. TypeOK /\ ValidWasChecked
    BY DEF IInv, FlagsInv, Checked, ValidWasChecked
  <2>2. OnlyBadIsInvalid
    BY DEF IInv, FlagsInv, Blamed, OnlyBadIsInvalid
  <2>3. ASSUME Quiet, crashes = 0 PROVE \A b \in Chain[best] : ~KnownInvalid(flags, b)
    BY <2>3, NoneInvalid DEF Quiet
  <2>4. ASSUME calls = 0, NEW b \in Chain[best] PROVE ~KnownInvalid(flags, b)
    <3>1. best \in Block
      BY <2>1 DEF TypeOK
    <3>2. b \in Block /\ Chain[b] \subseteq Chain[best]
      BY <3>1, ChainOfAncestor
    <3> QED  BY <2>2, <2>4, <3>2 DEF OnlyBadIsInvalid, IInv, BestIsSound
  <2>5. BestNotInvalid
    BY <2>3, <2>4 DEF BestNotInvalid
  <2> QED  BY <2>1, <2>2, <2>5 DEF FlagsSound
<1> QED  BY <1>1, ChainInvariance, AloneInvariance, PTL

\* No known sound chain has more work than the best chain once no call is in progress
\* (MostWork), if no rule is left to connectBlock: with one, run chain_attach shows a
\* reorganization that fails half way.
THEOREM MostWorkAlways == Spec => [](CheckedAhead => MostWork)
<1>1. Init => BInv
  BY InitBInv
<1>2. Spec => []BInv
  BY <1>1, NextBInv, ChainInvariance, AloneInvariance, PTL DEF Spec
<1>3. IInv /\ BInv => (CheckedAhead => MostWork)
  <2> SUFFICES ASSUME IInv, BInv, CheckedAhead, Quiet, crashes = 0, calls = 0,
                      NEW b \in Block, HaveBlock(b), Chain[b] \cap Bad = {}
               PROVE  Work[b] <= Work[best]
    BY DEF MostWork
  <2>1. call["sync"].pc = "idle"
    BY DEF Quiet
  <2>2. Sound(flags, b)
    BY DEF Sound, HaveBlock
  <2> QED  BY <2>1, <2>2, AllReached DEF Moves
<1> QED  BY <1>2, <1>3, ChainInvariance, PTL

\* Unless calls overlap, InvalidateBlock finds a tip to go to and the orphans stay
\* bounded (SearchesSound).
THEOREM SearchesAlwaysSound == Spec => [](Alone => SearchesSound)
<1>1. IInv /\ AInv => (Alone => SearchesSound)
  <2> SUFFICES ASSUME IInv, AInv, Alone PROVE SearchesSound
    OBVIOUS
  <2>1. OrphansBounded
    <3>1. MaxOrphans \in Nat /\ Len(orphans) \in Nat
      BY ChainAssumption, SMT DEF IInv, TypeOK
    <3> QED  BY <3>1, SMT DEF IInv, OrphanInv, OrphansBounded
  <2>2. ASSUME ChoosesTip, crashes = 0 PROVE BestTips # {}
    <3> DEFINE S == {t \in InactiveTips \cup {best} : ~KnownInvalid(flags, t)}
    <3>1. best \in Block /\ best \in Chain[best]
      BY ChainElements DEF IInv, TypeOK
    <3>2. ~KnownInvalid(flags, best)
      BY <2>2, <3>1, AllDetached
    <3>3. S \in SUBSET Block /\ S # {}
      BY <3>1, <3>2 DEF InactiveTips
    <3>4. PICK t \in S : \A u \in S : Work[u] <= Work[t]
      <4> HIDE DEF S
      <4> QED  BY <3>3, Heaviest
    <3>5. t \in BestTips
      BY <3>4 DEF BestTips
    <3> QED  BY <3>5
  <2> QED  BY <2>1, <2>2 DEF SearchesSound, AlwaysATip
<1> QED  BY <1>1, ChainInvariance, AloneInvariance, PTL
=============================================================================
