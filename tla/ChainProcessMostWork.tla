------------------------ MODULE ChainProcessMostWork ------------------------
(***************************************************************************)
(* Every step of ChainProcess preserves BInv: until an RPC call, and as    *)
(* long as connectBlock refuses no block, the block with the most work is  *)
(* the tip or the block on the way to it.                                  *)
(***************************************************************************)
EXTENDS ChainProcessLemmas

USE Zenon DEF Pcs, Ops, Flag, Actor

\* The node starts with it.
LEMMA InitBInv == Init => BInv
<1> SUFFICES ASSUME Init PROVE BInv
  OBVIOUS
<1>1. call["sync"] = Idle /\ best = Genesis /\ "sync" \in Actor
  BY DEF Init
<1>2. Idle.pc = "idle"
  BY DEF Idle
<1>3. Linked(call["sync"], best)
  BY <1>1, <1>2 DEF Linked, Moves
<1>4. ASSUME NEW b \in Block, Sound(flags, b) PROVE Reached(call["sync"], best, b)
  <2>1. b = Genesis
    BY <1>4 DEF Init, Sound
  <2>2. Work[Genesis] \in Nat
    BY ChainAssumption
  <2> QED  BY <1>1, <1>2, <2>1, <2>2, SMT DEF Reached, Moves
<1> QED  BY <1>3, <1>4 DEF BInv

\* A step that goes on with the record c of ProcessBlock.
LEMMA MostWorkStep ==
    ASSUME IInv, BInv, NEW c \in Call, call' = [call EXCEPT !["sync"] = c], UNCHANGED <<calls, crashes>>,
           calls = 0 /\ CheckedAhead =>
               /\ Linked(c, best')
               /\ crashes = 0 => \A b \in Block : Sound(flags', b) => Reached(c, best', b)
    PROVE  BInv'
<1>1. call'["sync"] = c
  BY DEF IInv, TypeOK
<1>2. BInv' = (calls' = 0 /\ CheckedAhead =>
                  /\ Linked(call'["sync"], best')
                  /\ crashes' = 0 =>
                        \A b \in Block : Sound(flags', b) => Reached(call'["sync"], best', b))
  BY DEF BInv, Linked, Sound, Reached
<1> QED  BY <1>1, <1>2

\* ProcessBlock returns, or stays off the best chain.
LEMMA MostWorkStays ==
    ASSUME IInv, BInv, NEW c \in Call, call' = [call EXCEPT !["sync"] = c], UNCHANGED <<calls, crashes>>,
           c.pc \notin Moves,
           calls = 0 /\ CheckedAhead /\ crashes = 0 =>
               \A b \in Block : Sound(flags', b) => Work[b] <= Work[best'] \/ (c.pc = "best" /\ b = c.node)
    PROVE  BInv'
<1>1. Linked(c, best')
  BY DEF Linked
<1>2. calls = 0 /\ CheckedAhead /\ crashes = 0 =>
         \A b \in Block : Sound(flags', b) => Reached(c, best', b)
  BY DEF Reached
<1> QED  BY <1>1, <1>2, MostWorkStep

\* A step that changes none of its variables keeps it.
LEMMA MostWorkFrame ==
    ASSUME BInv, UNCHANGED <<flags, best, call, calls, crashes>>
    PROVE  BInv'
<1>1. flags' = flags /\ best' = best /\ call' = call /\ calls' = calls /\ crashes' = crashes
  OBVIOUS
<1> QED  BY <1>1 DEF BInv

\* A call that is not moving the best chain has reached every sound block.
LEMMA AllReached ==
    ASSUME BInv, calls = 0, CheckedAhead, crashes = 0,
           call["sync"].pc \notin Moves \/ call["sync"].attach = <<>>,
           NEW b \in Block, Sound(flags, b)
    PROVE  Work[b] <= Work[best] \/ (call["sync"].pc = "best" /\ b = call["sync"].node)
BY DEF BInv, Reached

\* A block arrives (ProcessBlock).
LEMMA MostWorkArrival ==
    ASSUME IInv, BInv, NEW b \in Block \ {Genesis}, ProcessOrphanBlock(b) \/ ProcessBlock(b)
    PROVE  BInv'
<1>1. CASE ProcessOrphanBlock(b)
  BY <1>1, MostWorkFrame DEF ProcessOrphanBlock, nodeVars, counters
<1>2. CASE ProcessBlock(b)
  <2> DEFINE c == [Idle EXCEPT !.pc = "accept", !.node = b]
  <2>1. /\ UNCHANGED <<flags, best, calls, crashes>> /\ call["sync"].pc = "idle"
        /\ call' = [call EXCEPT !["sync"] = c]
    BY <1>2 DEF ProcessBlock, Free, nodeVars, counters
  <2>2. c \in Call /\ c.pc = "accept"
    BY IdleCall DEF Idle, Call
  <2> HIDE DEF c
  <2>3. calls = 0 /\ CheckedAhead /\ crashes = 0 =>
           \A x \in Block : Sound(flags', x) => Work[x] <= Work[best']
    BY <2>1, AllReached DEF Moves
  <2>4. c.pc \notin Moves
    BY <2>2 DEF Moves
  <2> QED  BY <2>1, <2>2, <2>3, <2>4, MostWorkStays
<1> QED  BY <1>1, <1>2

\* maybeAcceptBlock.
LEMMA MostWorkAccept ==
    ASSUME IInv, BInv, maybeAcceptBlock
    PROVE  BInv'
<1> DEFINE b == call["sync"].node
           c == [call["sync"] EXCEPT !.pc = "best"]
<1>0. TypeOK /\ Control
  BY DEF IInv
<1>1. /\ UNCHANGED <<best, calls, crashes>> /\ call["sync"].pc = "accept"
      /\ \/ Return("sync") /\ UNCHANGED flags
         \/ flags' = [flags EXCEPT ![b] = {"data"}] /\ call' = [call EXCEPT !["sync"] = c]
  BY DEF maybeAcceptBlock, At, Goto, counters, nodeVars
<1>2. calls = 0 /\ CheckedAhead /\ crashes = 0 =>
         \A x \in Block : Sound(flags, x) => Work[x] <= Work[best]
  BY <1>1, AllReached DEF Moves
<1>3. CASE Return("sync") /\ UNCHANGED flags
  <2>1. call' = [call EXCEPT !["sync"] = Idle] /\ Idle.pc \notin Moves
    BY <1>3, IdleCall DEF Return, Moves
  <2> QED  BY <1>1, <1>2, <1>3, <2>1, IdleCall, MostWorkStays
<1>4. CASE flags' = [flags EXCEPT ![b] = {"data"}] /\ call' = [call EXCEPT !["sync"] = c]
  <2>1. c \in Call /\ c.pc = "best" /\ c.node = b /\ c.pc \notin Moves
    BY <1>0 DEF TypeOK, Call, Moves
  <2> HIDE DEF c
  <2>2. \A x \in Block : Sound(flags', x) => Sound(flags, x) \/ x = b
    BY <1>0, <1>4 DEF TypeOK, Sound
  <2>3. calls = 0 /\ CheckedAhead /\ crashes = 0 =>
           \A x \in Block : Sound(flags', x) => Work[x] <= Work[best'] \/ (c.pc = "best" /\ x = c.node)
    BY <1>1, <1>2, <2>1, <2>2
  <2> QED  BY <1>1, <1>4, <2>1, <2>3, MostWorkStays
<1> QED  BY <1>1, <1>3, <1>4

\* The branch of a block off the best chain, and the blocks of the best chain
\* above the fork, are linked.
LEMMA BranchLinked ==
    ASSUME best \in Block, NEW b \in Block, b \notin Chain[best], NEW c,
           c.detach = Downward(Fork(b)), c.attach = Branch(b)
    PROVE  Linked(c, best)
<1> DEFINE k == Fork(b)  n == Height(best)  h == Height(b)  d == c.detach  s == c.attach
<1>1. /\ n \in Nat \ {0} /\ h \in Nat \ {0} /\ k \in 1..h /\ k <= n
      /\ \A i \in 1..k : Path[b][i] = Path[best][i]
  BY ForkIsShared, PathType
<1>2. Len(d) = n - k /\ \A i \in 1..Len(d) : d[i] = Path[best][n + 1 - i]
  BY <1>1, DownwardElements, SMT
<1>3. Len(s) = h - k /\ \A i \in 1..Len(s) : s[i] = Path[b][k + i] /\ k + i \in 2..h
  BY BranchElements, SMT
<1>4. \A i \in 2..h : Parent[Path[b][i]] = Path[b][i - 1]
  BY ParentOnPath
<1>5. s # <<>>
  BY BranchOff
<1> HIDE DEF k, n, h, d, s
<1>6. Len(d) < n
  BY <1>1, <1>2, SMT
<1>7. ASSUME s # <<>> PROVE Parent[s[1]] = Path[best][n - Len(d)]
  <2>1. 1 \in 1..Len(s) \/ Len(s) = 0
    BY <1>1, <1>3, SMT
  <2>2. Len(s) # 0
    <3>1. s \in Seq(Block)
      BY BranchElements DEF s
    <3> QED  BY <1>7, <3>1, SMT
  <2>3. s[1] = Path[b][k + 1] /\ k + 1 \in 2..h
    BY <1>3, <2>1, <2>2
  <2>4. Parent[s[1]] = Path[b][(k + 1) - 1] /\ (k + 1) - 1 = k /\ k \in 1..k /\ n - Len(d) = k
    BY <1>1, <1>2, <1>4, <2>3, SMT
  <2> QED  BY <1>1, <2>4
<1>8. ASSUME NEW i \in 1..(Len(s) - 1) PROVE Parent[s[i + 1]] = s[i]
  <2>1. i + 1 \in 1..Len(s) /\ i \in 1..Len(s)
    BY <1>1, <1>3, SMT
  <2>2. s[i + 1] = Path[b][k + (i + 1)] /\ k + (i + 1) \in 2..h /\ s[i] = Path[b][k + i]
    BY <1>3, <2>1
  <2>3. (k + (i + 1)) - 1 = k + i
    BY <1>1, SMT
  <2> QED  BY <1>4, <2>2, <2>3
<1> QED  BY <1>2, <1>6, <1>7, <1>8 DEF Linked, n, d, s

\* There is nothing to detach or to attach.
LEMMA NothingLinked ==
    ASSUME NEW tip \in Block, NEW c, c.detach = <<>>, c.attach = <<>>
    PROVE  Linked(c, tip)
<1>1. Height(tip) \in Nat \ {0}
  BY PathType
<1> QED  BY <1>1, SMT DEF Linked

\* A block above one that is held for invalid is not sound.
LEMMA InvalidIsUnsound ==
    ASSUME NEW f, Blamed(f), NEW b \in Block, \E a \in Chain[b] : KnownInvalid(f, a)
    PROVE  ~Sound(f, b)
<1>1. PICK a \in Chain[b] : KnownInvalid(f, a)
  OBVIOUS
<1>2. a \in Block /\ Chain[a] \subseteq Chain[b]
  BY ChainOfAncestor
<1> QED  BY <1>1, <1>2 DEF Blamed, Sound

\* connectBestChain.
LEMMA MostWorkConnectBest ==
    ASSUME IInv, AInv, BInv, connectBestChain
    PROVE  BInv'
<1> DEFINE b == call["sync"].node
           r == getReorganizeNodes(flags, b)
           v == verifyReorganizationValidity(r.flags, r.detach, r.attach)
           Ready == calls = 0 /\ CheckedAhead /\ crashes = 0
<1>0. TypeOK /\ Control /\ FlagsInv /\ "sync" \in Actor /\ flags \in Status /\ best \in Block /\ Checked(flags)
  BY DEF IInv, FlagsInv, TypeOK, Status
<1>1. UNCHANGED <<best, calls, crashes>> /\ call["sync"].pc = "best"
  BY DEF connectBestChain, At, counters
<1>2. b \in Block \ {Genesis} /\ Work[b] \in Nat /\ Work[best] \in Nat
  BY <1>0, <1>1, ChainAssumption DEF Control, InControl
<1>3. Ready => \A x \in Block : Sound(flags, x) => Work[x] <= Work[best] \/ x = b
  BY <1>1, AllReached DEF Moves
<1>4. calls = 0 => call["sync"].detach = <<>> /\ call["sync"].attach = <<>>
  BY <1>0, <1>1 DEF AInv, Alone, ListsOK, Moves
<1>5. ASSUME NEW c \in Call, call' = [call EXCEPT !["sync"] = c], c.pc \notin Moves,
             \A x \in Block : Sound(flags', x) => Sound(flags, x),
             Ready /\ Sound(flags', b) => Work[b] <= Work[best]
      PROVE  BInv'
  <2>1. Ready => \A x \in Block : Sound(flags', x) => Work[x] <= Work[best']
    BY <1>1, <1>3, <1>5
  <2> HIDE DEF Ready
  <2> QED  BY <1>1, <1>5, <2>1, MostWorkStays DEF Ready
<1>6. ASSUME Return("sync"),
             \A x \in Block : Sound(flags', x) => Sound(flags, x),
             Ready /\ Sound(flags', b) => Work[b] <= Work[best]
      PROVE  BInv'
  <2>1. call' = [call EXCEPT !["sync"] = Idle] /\ Idle.pc \notin Moves
    BY <1>6, IdleCall DEF Return, Moves
  <2> QED  BY <1>5, <1>6, <2>1, IdleCall
<1>7. ASSUME NEW c \in Call, call' = [call EXCEPT !["sync"] = c], c.pc \in Moves, c.attach # <<>>,
             c.node = b, Work[best] <= Work[b], calls = 0 => Linked(c, best),
             \A x \in Block : Sound(flags', x) => Sound(flags, x)
      PROVE  BInv'
  <2>1. ASSUME Ready, NEW x \in Block, Sound(flags', x) PROVE Reached(c, best', x)
    <3>1. Work[x] <= Work[b]
      <4>1. Work[x] <= Work[best] \/ x = b
        BY <1>3, <1>7, <2>1
      <4>2. Work[x] \in Nat
        BY ChainAssumption
      <4> QED  BY <1>2, <1>7, <4>1, <4>2, SMT
    <3> QED  BY <1>7, <3>1 DEF Reached
  <2>2. calls = 0 => Linked(c, best')
    BY <1>1, <1>7
  <2> QED  BY <1>1, <1>7, <2>1, <2>2, MostWorkStep
<1>8. ASSUME Parent[b] = best, b \notin BadScript, flags' = SetStatusFlags(flags, {b}, "valid"),
             call' = [call EXCEPT !["sync"].pc = "reorganize", !["sync"].op = "extend",
                                  !["sync"].attach = <<b>>]
      PROVE  BInv'
  <2> DEFINE c == [call["sync"] EXCEPT !.pc = "reorganize", !.op = "extend", !.attach = <<b>>]
  <2>1. call' = [call EXCEPT !["sync"] = c]
    BY <1>8
  <2>2. /\ c \in Call /\ c.pc = "reorganize" /\ c.attach = <<b>> /\ c.node = b
        /\ c.detach = call["sync"].detach
    <3>1. <<b>> \in Seq(Block)
      BY <1>2, SMT
    <3> QED  BY <1>0, <3>1 DEF TypeOK, Call
  <2> HIDE DEF c
  <2>3. \A x \in Block : Sound(flags', x) => Sound(flags, x)
    BY <1>0, <1>2, <1>8, ValidFlag, SMT DEF Sound
  <2>4. Work[best] <= Work[b]
    <3>1. best \in Chain[b]
      BY <1>0, <1>2, <1>8, ChainOfParent, ChainElements, SMT
    <3> QED  BY <1>2, <3>1, WorkGrows
  <2>5. ASSUME calls = 0 PROVE Linked(c, best)
    <3>1. c.detach = <<>> /\ Len(c.attach) = 1 /\ c.attach[1] = b
      BY <1>4, <2>2, <2>5, SMT
    <3>2. Height(best) \in Nat \ {0} /\ Path[best][Height(best)] = best
      BY <1>0, PathType
    <3> QED  BY <1>8, <3>1, <3>2, SMT DEF Linked
  <2>6. c.pc \in Moves /\ c.attach # <<>>
    BY <2>2, SMT DEF Moves
  <2> QED  BY <1>7, <2>1, <2>2, <2>3, <2>4, <2>5, <2>6
<1>9. ASSUME b \in Bad, flags' = SetStatusFlags(flags, {b}, "failed"), Return("sync")
      PROVE  BInv'
  <2>1. \A x \in Block : Sound(flags', x) => Sound(flags, x)
    BY <1>0, <1>2, <1>9, FailedFlag, SMT DEF Sound
  <2>2. ~Sound(flags', b)
    BY <1>2, <1>9, ChainElements DEF Sound
  <2> QED  BY <1>6, <1>9, <2>1, <2>2
<1>10. ASSUME ~MoreWork(b), Goto("sync", "accepted"), flags' = flags
       PROVE  BInv'
  <2> DEFINE c == [call["sync"] EXCEPT !.pc = "accepted"]
  <2>1. call' = [call EXCEPT !["sync"] = c]
    BY <1>10 DEF Goto
  <2>2. c \in Call /\ c.pc \notin Moves
    BY <1>0 DEF TypeOK, Call, Moves
  <2>3. Work[b] <= Work[best]
    BY <1>2, <1>10, SMT DEF MoreWork
  <2> QED  BY <1>5, <1>10, <2>1, <2>2, <2>3
<1>11. ASSUME MoreWork(b)
       PROVE  /\ r.detach \in Seq(Block) /\ r.attach \in Seq(Block) /\ b \notin Chain[best]
              /\ Blamed(flags) => Blamed(v.flags)
              /\ \A x \in Block : Sound(v.flags, x) => Sound(flags, x)
              /\ v.ok => \/ /\ r.detach = <<>> /\ r.attach = <<>>
                            /\ \E a \in Chain[b] : KnownInvalid(v.flags, a)
                         \/ r.detach = Downward(Fork(b)) /\ r.attach = Branch(b)
              /\ ~v.ok => \E a \in Chain[b] : KnownInvalid(v.flags, a)
  <2>1. b \notin Chain[best]
    BY <1>0, <1>2, <1>11, HeavierIsOff DEF MoreWork
  <2>2. /\ r.detach \in Seq(Block) /\ r.attach \in Seq(Block)
        /\ Blamed(flags) => Blamed(v.flags)
        /\ \A x \in Block : "data" \in v.flags[x] <=> "data" \in flags[x]
        /\ v.ok => \/ /\ r.detach = <<>> /\ r.attach = <<>>
                      /\ \E a \in Chain[b] : KnownInvalid(v.flags, a)
                   \/ r.detach = Downward(Fork(b)) /\ r.attach = Branch(b)
        /\ ~v.ok => \E a \in Chain[b] : KnownInvalid(v.flags, a)
    BY ONLY <1>0, <1>2, <2>1, Reorganization
  <2> HIDE DEF r, v
  <2> QED  BY <2>1, <2>2 DEF Sound
<1>12. ASSUME MoreWork(b), flags' = v.flags, calls = 0, \E a \in Chain[b] : KnownInvalid(v.flags, a)
       PROVE  ~Sound(flags', b)
  <2>1. Blamed(v.flags)
    BY <1>0, <1>11, <1>12 DEF FlagsInv
  <2> HIDE DEF v
  <2> QED  BY <1>2, <1>12, <2>1, InvalidIsUnsound
<1>13. ASSUME MoreWork(b), ~v.ok, flags' = v.flags, Return("sync")
       PROVE  BInv'
  <2>1. \A x \in Block : Sound(flags', x) => Sound(flags, x)
    BY <1>11, <1>13
  <2>2. Ready => ~Sound(flags', b)
    BY <1>11, <1>12, <1>13
  <2> QED  BY <1>6, <1>13, <2>1, <2>2
<1>14. ASSUME MoreWork(b), v.ok, flags' = v.flags,
              call' = [call EXCEPT !["sync"].pc = "reorganize", !["sync"].op = "process",
                                   !["sync"].detach = r.detach, !["sync"].attach = r.attach]
       PROVE  BInv'
  <2> DEFINE c == [call["sync"] EXCEPT !.pc = "reorganize", !.op = "process",
                                       !.detach = r.detach, !.attach = r.attach]
  <2>1. call' = [call EXCEPT !["sync"] = c]
    BY <1>14
  <2>2. /\ c \in Call /\ c.pc = "reorganize" /\ c.op = "process" /\ c.node = b
        /\ c.detach = r.detach /\ c.attach = r.attach
    <3>1. call["sync"] \in Call /\ r.detach \in Seq(Block) /\ r.attach \in Seq(Block)
      BY <1>0, <1>11, <1>14 DEF TypeOK
    <3> HIDE DEF r
    <3> QED  BY <3>1 DEF Call
  <2>3. \A x \in Block : Sound(flags', x) => Sound(flags, x)
    BY <1>11, <1>14
  <2>4. b \notin Chain[best] /\ Work[best] <= Work[b]
    <3>1. b \notin Chain[best] /\ Work[b] > Work[best]
      BY <1>11, <1>14 DEF MoreWork
    <3> QED  BY <1>2, <3>1, SMT
  <2>5. \/ /\ c.detach = <<>> /\ c.attach = <<>> /\ (calls = 0 => ~Sound(flags', b))
        \/ c.detach = Downward(Fork(b)) /\ c.attach = Branch(b)
    BY <1>11, <1>12, <1>14, <2>2
  <2> HIDE DEF c, r, v
  <2>6. CASE c.detach = <<>> /\ c.attach = <<>> /\ (calls = 0 => ~Sound(flags', b))
    <3>1. Linked(c, best')
      BY <1>0, <1>1, <2>6, NothingLinked
    <3>2. ASSUME Ready, NEW x \in Block, Sound(flags', x) PROVE Reached(c, best', x)
      <4>1. x # b
        BY <2>6, <3>2
      <4>2. Work[x] <= Work[best']
        BY <1>1, <1>3, <2>3, <3>2, <4>1
      <4> QED  BY <2>6, <4>2 DEF Reached
    <3> QED  BY <1>1, <2>1, <2>2, <3>1, <3>2, MostWorkStep
  <2>7. CASE c.detach = Downward(Fork(b)) /\ c.attach = Branch(b)
    <3>1. Linked(c, best)
      BY <1>0, <1>2, <2>4, <2>7, BranchLinked
    <3>2. c.attach # <<>> /\ c.pc \in Moves
      BY <1>0, <1>2, <2>2, <2>4, <2>7, BranchOff DEF Moves
    <3> QED  BY <1>7, <2>1, <2>2, <2>3, <2>4, <3>1, <3>2
  <2> QED  BY <2>5, <2>6, <2>7
<1> QED
  <2> HIDE DEF r, v
  <2>1. \/ /\ Parent[b] = best /\ checkConnectBlock(b) /\ flags' = SetStatusFlags(flags, {b}, "valid")
           /\ call' = [call EXCEPT !["sync"].pc = "reorganize", !["sync"].op = "extend",
                                   !["sync"].attach = <<b>>]
        \/ /\ Parent[b] = best /\ ~checkConnectBlock(b) /\ flags' = SetStatusFlags(flags, {b}, "failed")
           /\ Return("sync")
        \/ ~MoreWork(b) /\ Goto("sync", "accepted") /\ flags' = flags
        \/ MoreWork(b) /\ ~v.ok /\ flags' = v.flags /\ Return("sync")
        \/ /\ MoreWork(b) /\ v.ok /\ flags' = v.flags
           /\ call' = [call EXCEPT !["sync"].pc = "reorganize", !["sync"].op = "process",
                                   !["sync"].detach = r.detach, !["sync"].attach = r.attach]
    BY Zenon DEF connectBestChain, nodeVars, r, v
  <2>2. (checkConnectBlock(b) => b \notin BadScript) /\ (~checkConnectBlock(b) => b \in Bad)
    BY DEF checkConnectBlock, Bad
  <2> QED  BY <2>1, <2>2, <1>8, <1>9, <1>10, <1>13, <1>14

\* maybeAcceptBlock, when the chain has moved.
LEMMA MostWorkFinishAccept ==
    ASSUME IInv, BInv, FinishAccept
    PROVE  BInv'
<1> DEFINE b == call["sync"].node
           c == [call["sync"] EXCEPT !.pc = "accepted"]
<1>0. TypeOK /\ Control /\ flags \in Status /\ Checked(flags) /\ "sync" \in Actor
  BY DEF IInv, FlagsInv, TypeOK, Status
<1>1. /\ UNCHANGED <<best, calls, crashes>>
      /\ call["sync"].pc = "reorganize" /\ call["sync"].attach = <<>>
      /\ call' = [call EXCEPT !["sync"] = c]
      /\ \/ flags' = flags
         \/ flags' = SetStatusFlags(flags, {b}, "valid") /\ call["sync"].op = "extend"
  BY DEF FinishAccept, At, Goto, counters, nodeVars
<1>2. b \in Block \ {Genesis} /\ (call["sync"].op = "extend" => b \notin BadScript)
  BY <1>0, <1>1 DEF Control, InControl, Moves
<1>3. c \in Call /\ c.pc \notin Moves
  BY <1>0 DEF TypeOK, Call, Moves
<1> HIDE DEF c
<1>4. \A x \in Block : Sound(flags', x) => Sound(flags, x)
  BY <1>0, <1>1, <1>2, ValidFlag DEF Sound
<1>5. calls = 0 /\ CheckedAhead /\ crashes = 0 =>
         \A x \in Block : Sound(flags', x) => Work[x] <= Work[best']
  BY <1>1, <1>4, AllReached
<1> QED  BY <1>1, <1>3, <1>5, MostWorkStays

\* ProcessBlock after the notification, and processOrphans.
LEMMA MostWorkOrphans ==
    ASSUME IInv, BInv, ResumeAccepted \/ processOrphans
    PROVE  BInv'
<1>0. /\ TypeOK /\ Control /\ "sync" \in Actor /\ call["sync"].queue \in Seq(Block)
      /\ orphans \in Seq(Block)
  BY CallFields DEF IInv, TypeOK
<1>1. UNCHANGED <<flags, best, calls, crashes>> /\ call["sync"].pc \in {"accepted", "orphans"}
  BY DEF ResumeAccepted, processOrphans, At, nodeVars, counters
<1>2. calls = 0 /\ CheckedAhead /\ crashes = 0 =>
         \A x \in Block : Sound(flags', x) => Work[x] <= Work[best']
  BY <1>1, AllReached DEF Moves
<1>3. ASSUME NEW c \in Call, call' = [call EXCEPT !["sync"] = c], c.pc \notin Moves
      PROVE  BInv'
  BY <1>1, <1>2, <1>3, MostWorkStays
<1>4. CASE ResumeAccepted
  <2> DEFINE c == [call["sync"] EXCEPT !.pc = "orphans", !.op = "none",
                                       !.queue = Append(call["sync"].queue, call["sync"].node)]
  <2>1. call' = [call EXCEPT !["sync"] = c] /\ call["sync"].pc = "accepted"
    BY <1>4 DEF ResumeAccepted
  <2>2. c \in Call /\ c.pc \notin Moves
    <3>1. call["sync"].node \in Block
      BY <1>0, <2>1 DEF Control, InControl
    <3>2. Append(call["sync"].queue, call["sync"].node) \in Seq(Block)
      BY <1>0, <3>1, SMT
    <3> QED  BY <1>0, <3>2 DEF TypeOK, Call, Moves
  <2> QED  BY <1>3, <2>1, <2>2
<1>5. CASE processOrphans
  <2> DEFINE q == call["sync"].queue
  <2>1. /\ call["sync"].pc = "orphans"
        /\ \/ Return("sync")
           \/ q # <<>> /\ call' = [call EXCEPT !["sync"].queue = Tail(@)]
           \/ \E i \in DOMAIN orphans :
                 call' = [call EXCEPT !["sync"].pc = "accept", !["sync"].node = orphans[i]]
    BY <1>5 DEF processOrphans, At
  <2>2. CASE Return("sync")
    BY <1>3, <2>2, IdleCall DEF Return, Moves
  <2>3. CASE q # <<>> /\ call' = [call EXCEPT !["sync"].queue = Tail(@)]
    <3> DEFINE c == [call["sync"] EXCEPT !.queue = Tail(q)]
    <3>1. c \in Call /\ c.pc \notin Moves
      <4>1. Tail(q) \in Seq(Block)
        BY <1>0, <2>3, SMT
      <4>2. call["sync"] \in Call
        BY <1>0 DEF TypeOK
      <4> QED  BY <2>1, <4>1, <4>2 DEF Call, Moves
    <3>2. call' = [call EXCEPT !["sync"] = c]
      BY <1>0, <2>3 DEF TypeOK
    <3> QED  BY <1>3, <3>1, <3>2
  <2>4. ASSUME NEW i \in DOMAIN orphans,
               call' = [call EXCEPT !["sync"].pc = "accept", !["sync"].node = orphans[i]]
        PROVE  BInv'
    <3> DEFINE c == [call["sync"] EXCEPT !.pc = "accept", !.node = orphans[i]]
    <3>1. c \in Call /\ c.pc \notin Moves
      <4>1. orphans[i] \in Block
        BY <1>0, SMT
      <4> QED  BY <1>0, <4>1 DEF TypeOK, Call, Moves
    <3>2. call' = [call EXCEPT !["sync"] = c]
      BY <2>4
    <3> QED  BY <1>3, <3>1, <3>2
  <2> QED  BY <2>1, <2>2, <2>3, <2>4
<1> QED  BY <1>4, <1>5

\* A reorganization that goes on and keeps its blocks to attach, or fails in spite
\* of the checks.
LEMMA MostWorkMoves ==
    ASSUME IInv, BInv, call["sync"].pc \in Moves, flags' = flags, UNCHANGED <<calls, crashes>>,
           NEW c \in Call, call' = [call EXCEPT !["sync"] = c], c.pc \in Moves,
           c.node = call["sync"].node, c.attach = call["sync"].attach,
           c.attach # <<>> \/ best' = best,
           calls = 0 /\ CheckedAhead => Linked(c, best')
    PROVE  BInv'
<1>1. c.pc # "best" /\ call["sync"].pc # "best"
  BY DEF Moves
<1>2. calls = 0 /\ CheckedAhead /\ crashes = 0 =>
         \A x \in Block : Sound(flags', x) => Reached(c, best', x)
  BY <1>1 DEF BInv, Reached
<1> QED  BY <1>2, MostWorkStep

\* A reorganization fails, where the invariant says nothing.
LEMMA MostWorkFails ==
    ASSUME IInv, BInv, NEW f, Fails("sync", f), UNCHANGED <<calls, crashes>>,
           ~(calls = 0 /\ CheckedAhead)
    PROVE  BInv'
<1>1. call' = [call EXCEPT !["sync"] = Idle]
  BY DEF Fails, Return
<1> QED  BY <1>1, IdleCall, MostWorkStep

\* reorganizeChain, before it detaches a block.
LEMMA MostWorkStartDisconnect ==
    ASSUME IInv, BInv, StartDisconnect("sync")
    PROVE  BInv'
<1> DEFINE s == call["sync"].detach
           c == [call["sync"] EXCEPT !.pc = "disconnect"]
<1>0. TypeOK /\ best \in Block /\ s \in Seq(Block) /\ "sync" \in Actor
  BY CallFields DEF IInv, TypeOK
<1>1. /\ UNCHANGED <<best, calls, crashes>> /\ flags' = flags
      /\ call["sync"].pc = "reorganize" /\ s # <<>>
      /\ \/ call' = [call EXCEPT !["sync"] = c]
         \/ Head(s) # best /\ Fails("sync", flags)
  BY DEF StartDisconnect, Fails, At, Goto, counters
<1>2. calls = 0 /\ CheckedAhead => Linked(call["sync"], best)
  BY DEF BInv
<1>3. CASE call' = [call EXCEPT !["sync"] = c]
  <2>1. /\ c \in Call /\ c.pc = "disconnect" /\ c.node = call["sync"].node
        /\ c.detach = s /\ c.attach = call["sync"].attach
    BY <1>0, MoveOn, SMT DEF Moves
  <2> HIDE DEF c
  <2>2. calls = 0 /\ CheckedAhead => Linked(c, best')
    BY <1>1, <1>2, <2>1 DEF Linked, Moves
  <2>3. c.pc \in Moves /\ call["sync"].pc \in Moves
    BY <1>1, <2>1 DEF Moves
  <2> QED  BY <1>1, <1>3, <2>1, <2>2, <2>3, MostWorkMoves
<1>4. CASE Head(s) # best /\ Fails("sync", flags)
  <2>1. Height(best) \in Nat /\ Path[best][Height(best)] = best
    BY <1>0, PathType
  <2>2. 1 \in 1..Len(s) /\ Head(s) = s[1] /\ Height(best) + 1 - 1 = Height(best)
    BY <1>0, <1>1, <2>1, SMT
  <2>3. ~(calls = 0 /\ CheckedAhead)
    BY <1>1, <1>2, <1>4, <2>1, <2>2 DEF Linked, Moves
  <2> QED  BY <1>1, <1>4, <2>3, MostWorkFails
<1> QED  BY <1>1, <1>3, <1>4

\* One block is detached.
LEMMA LinkedBelow ==
    ASSUME NEW tip \in Block, tip # Genesis, NEW c, c.detach \in Seq(Block), c.detach # <<>>,
           c.pc \in Moves, c.pc # "connected", Linked(c, tip),
           NEW d, d.detach = Tail(c.detach), d.attach = c.attach
    PROVE  Linked(d, Parent[tip])
<1> DEFINE q == Parent[tip]  n == Height(tip)  s == c.detach  t == Tail(s)
<1>1. /\ q \in Block /\ Height(q) \in Nat \ {0} /\ n = Height(q) + 1
      /\ \A i \in 1..Height(q) : Path[tip][i] = Path[q][i]
  BY ParentType, PathOfParent, PathType
<1>2. /\ t \in Seq(Block) /\ Len(t) = Len(s) - 1 /\ Len(s) \in Nat \ {0}
      /\ \A i \in 1..Len(t) : t[i] = s[i + 1] /\ i + 1 \in 1..Len(s)
  BY SMT
<1>3. /\ Len(s) < n
      /\ \A i \in 1..Len(s) : s[i] = Path[tip][n + 1 - i]
      /\ c.attach # <<>> => Parent[c.attach[1]] = Path[tip][n - Len(s)]
      /\ \A i \in 1..(Len(c.attach) - 1) : Parent[c.attach[i + 1]] = c.attach[i]
  BY DEF Linked
<1> HIDE DEF q, n, s, t
<1>4. Len(t) < Height(q)
  BY <1>1, <1>2, <1>3, SMT
<1>5. ASSUME NEW i \in 1..Len(t) PROVE t[i] = Path[q][Height(q) + 1 - i]
  <2>1. t[i] = Path[tip][n + 1 - (i + 1)]
    BY <1>2, <1>3
  <2>2. n + 1 - (i + 1) = Height(q) + 1 - i /\ Height(q) + 1 - i \in 1..Height(q)
    BY <1>1, <1>2, <1>4, SMT
  <2> QED  BY <1>1, <2>1, <2>2
<1>6. ASSUME c.attach # <<>> PROVE Parent[c.attach[1]] = Path[q][Height(q) - Len(t)]
  <2>1. n - Len(s) = Height(q) - Len(t) /\ Height(q) - Len(t) \in 1..Height(q)
    BY <1>1, <1>2, <1>4, SMT
  <2> QED  BY <1>1, <1>3, <1>6, <2>1
<1>7. d.detach = t /\ d.attach = c.attach
  BY DEF t, s
<1>8. Linked(d, q)
  BY <1>3, <1>4, <1>5, <1>6, <1>7 DEF Linked
<1> QED  BY <1>8 DEF q

\* disconnectBlock.
LEMMA MostWorkDisconnect ==
    ASSUME IInv, AInv, BInv, disconnectBlock("sync")
    PROVE  BInv'
<1> DEFINE s == call["sync"].detach
           c == [call["sync"] EXCEPT !.pc = "disconnected", !.detach = Tail(s)]
<1>0. TypeOK /\ Control /\ best \in Block /\ s \in Seq(Block) /\ "sync" \in Actor
  BY CallFields DEF IInv, TypeOK
<1>1. /\ UNCHANGED <<calls, crashes>> /\ flags' = flags
      /\ call["sync"].pc = "disconnect" /\ best' = Parent[best]
      /\ call' = [call EXCEPT !["sync"] = c]
  BY <1>0 DEF disconnectBlock, At, nodeVars, counters, TypeOK
<1>2. s # <<>> /\ best # Genesis
  <2>1. s # <<>> /\ Head(s) = best /\ \A i \in 1..Len(s) : s[i] # Genesis
    BY <1>0, <1>1 DEF Control, InControl
  <2> QED  BY <1>0, <2>1, SMT
<1>3. /\ c \in Call /\ c.pc = "disconnected" /\ c.node = call["sync"].node
      /\ c.detach = Tail(s) /\ c.attach = call["sync"].attach
  <2>1. Tail(s) \in Seq(Block)
    BY <1>0, <1>2, SMT
  <2> QED  BY <1>0, <2>1 DEF TypeOK, Call
<1> HIDE DEF c
<1>4. c.pc \in Moves /\ call["sync"].pc \in Moves /\ call["sync"].pc # "connected"
  BY <1>1, <1>3 DEF Moves
<1>5. calls = 0 /\ CheckedAhead => Linked(c, best')
  <2>1. calls = 0 /\ CheckedAhead => Linked(call["sync"], best)
    BY DEF BInv
  <2> QED  BY <1>0, <1>1, <1>2, <1>3, <1>4, <2>1, LinkedBelow
<1>6. calls = 0 => c.attach # <<>>
  BY <1>0, <1>2, <1>3, <1>4 DEF AInv, Alone, SyncOK
<1>7. CASE calls = 0
  BY <1>1, <1>3, <1>4, <1>5, <1>6, <1>7, MostWorkMoves
<1>8. CASE calls # 0
  BY <1>1, <1>3, <1>8, MostWorkStep
<1> QED  BY <1>7, <1>8

\* reorganizeChain, after the notification of a block detached.
LEMMA MostWorkResumeDisconnected ==
    ASSUME IInv, BInv, ResumeDisconnected("sync")
    PROVE  BInv'
<1> DEFINE c == [call["sync"] EXCEPT !.pc = "reorganize"]
<1>1. /\ UNCHANGED <<flags, best, calls, crashes>>
      /\ call["sync"].pc = "disconnected" /\ call' = [call EXCEPT !["sync"] = c]
  BY DEF ResumeDisconnected, Goto, nodeVars, counters
<1>2. /\ c \in Call /\ c.pc = "reorganize" /\ c.node = call["sync"].node
      /\ c.detach = call["sync"].detach /\ c.attach = call["sync"].attach
  BY MoveOn, SMT DEF Moves
<1> HIDE DEF c
<1>3. c.pc \in Moves /\ call["sync"].pc \in Moves
  BY <1>1, <1>2 DEF Moves
<1>4. calls = 0 /\ CheckedAhead => Linked(c, best')
  BY <1>1, <1>2 DEF BInv, Linked, Moves
<1> QED  BY <1>1, <1>2, <1>3, <1>4, MostWorkMoves

\* reorganizeChain, before it attaches a block.
LEMMA MostWorkStartConnect ==
    ASSUME IInv, BInv, StartConnect("sync")
    PROVE  BInv'
<1> DEFINE s == call["sync"].attach
           c == [call["sync"] EXCEPT !.pc = "connect"]
<1>0. TypeOK /\ best \in Block /\ s \in Seq(Block) /\ "sync" \in Actor
  BY CallFields DEF IInv, TypeOK
<1>1. /\ UNCHANGED <<best, calls, crashes>>
      /\ call["sync"].pc = "reorganize" /\ call["sync"].detach = <<>> /\ s # <<>>
      /\ \/ Head(s) \in BadPrefix /\ Fails("sync", SetStatusFlags(flags, {Head(s)}, "failed"))
         \/ flags' = flags /\ call' = [call EXCEPT !["sync"] = c]
         \/ Parent[Head(s)] # best /\ Fails("sync", flags)
  BY DEF StartConnect, At, Goto, counters
<1>2. calls = 0 /\ CheckedAhead => Linked(call["sync"], best)
  BY DEF BInv
<1>3. CASE Head(s) \in BadPrefix /\ Fails("sync", SetStatusFlags(flags, {Head(s)}, "failed"))
  <2>1. ~CheckedAhead
    BY <1>3 DEF CheckedAhead
  <2> QED  BY <1>1, <1>3, <2>1, MostWorkFails
<1>4. CASE Parent[Head(s)] # best /\ Fails("sync", flags)
  <2>1. Height(best) \in Nat /\ Path[best][Height(best)] = best
    BY <1>0, PathType
  <2>2. Head(s) = s[1] /\ Height(best) - Len(call["sync"].detach) = Height(best)
    BY <1>0, <1>1, <2>1, SMT
  <2>3. ~(calls = 0 /\ CheckedAhead)
    BY <1>1, <1>2, <1>4, <2>1, <2>2 DEF Linked, Moves
  <2> QED  BY <1>1, <1>4, <2>3, MostWorkFails
<1>5. CASE flags' = flags /\ call' = [call EXCEPT !["sync"] = c]
  <2>1. /\ c \in Call /\ c.pc = "connect" /\ c.node = call["sync"].node
        /\ c.detach = call["sync"].detach /\ c.attach = s
    BY <1>0, MoveOn, SMT DEF Moves
  <2> HIDE DEF c
  <2>2. calls = 0 /\ CheckedAhead => Linked(c, best')
    BY <1>1, <1>2, <2>1 DEF Linked, Moves
  <2>3. c.pc \in Moves /\ call["sync"].pc \in Moves
    BY <1>1, <2>1 DEF Moves
  <2> QED  BY <1>1, <1>5, <2>1, <2>2, <2>3, MostWorkMoves
<1> QED  BY <1>1, <1>3, <1>4, <1>5

\* connectBlock.
LEMMA MostWorkConnect ==
    ASSUME IInv, AInv, BInv, connectBlock("sync")
    PROVE  BInv'
<1> DEFINE s == call["sync"].attach
           c == [call["sync"] EXCEPT !.pc = "connected"]
<1>0. TypeOK /\ Control /\ s \in Seq(Block) /\ "sync" \in Actor
  BY CallFields DEF IInv, TypeOK
<1>1. /\ UNCHANGED <<calls, crashes>> /\ call["sync"].pc = "connect"
      /\ \/ best' = Head(s) /\ flags' = flags /\ call' = [call EXCEPT !["sync"] = c]
         \/ Head(s) \in BadCommitment /\ \E f : Fails("sync", f)
  BY DEF connectBlock, At, Goto, nodeVars, counters
<1>2. s # <<>>
  BY <1>0, <1>1 DEF Control, InControl
<1>3. CASE Head(s) \in BadCommitment /\ \E f : Fails("sync", f)
  <2>1. ~CheckedAhead
    BY <1>3 DEF CheckedAhead
  <2>2. PICK f : Fails("sync", f)
    BY <1>3
  <2> QED  BY <1>1, <2>1, <2>2, MostWorkFails
<1>4. CASE best' = Head(s) /\ flags' = flags /\ call' = [call EXCEPT !["sync"] = c]
  <2>1. /\ c \in Call /\ c.pc = "connected" /\ c.node = call["sync"].node
        /\ c.detach = call["sync"].detach /\ c.attach = s
    BY <1>0, MoveOn, SMT DEF Moves
  <2> HIDE DEF c
  <2>2. calls = 0 /\ CheckedAhead => Linked(call["sync"], best)
    BY DEF BInv
  <2>3. calls = 0 => call["sync"].detach = <<>>
    BY <1>0, <1>1 DEF AInv, Alone, ListsOK, Moves
  <2>4. Head(s) \in Block /\ Height(Head(s)) \in Nat \ {0}
    BY <1>0, <1>2, PathType, SMT
  <2>5. calls = 0 /\ CheckedAhead => Linked(c, best')
    BY <1>1, <1>4, <2>1, <2>2, <2>3, <2>4, SMT DEF Linked, Moves
  <2>6. c.pc \in Moves /\ call["sync"].pc \in Moves
    BY <1>1, <2>1 DEF Moves
  <2> QED  BY <1>1, <1>2, <1>4, <2>1, <2>5, <2>6, MostWorkMoves
<1> QED  BY <1>1, <1>3, <1>4

\* reorganizeChain, after the notification of a block attached.
LEMMA MostWorkResumeConnected ==
    ASSUME IInv, AInv, BInv, ResumeConnected("sync")
    PROVE  BInv'
<1> DEFINE s == call["sync"].attach
           c == [call["sync"] EXCEPT !.pc = "reorganize", !.attach = Tail(s)]
<1>0. TypeOK /\ Control /\ best \in Block /\ s \in Seq(Block) /\ "sync" \in Actor
  BY CallFields DEF IInv, TypeOK
<1>1. /\ UNCHANGED <<flags, best, calls, crashes>> /\ call["sync"].pc = "connected"
      /\ call' = [call EXCEPT !["sync"] = c]
  BY <1>0 DEF ResumeConnected, nodeVars, counters, TypeOK
<1>2. s # <<>>
  BY <1>0, <1>1 DEF Control, InControl
<1>3. /\ Tail(s) \in Seq(Block) /\ Len(Tail(s)) = Len(s) - 1 /\ Len(s) \in Nat \ {0}
      /\ \A i \in 1..Len(Tail(s)) : Tail(s)[i] = s[i + 1]
  BY <1>0, <1>2, SMT
<1>4. /\ c \in Call /\ c.pc = "reorganize" /\ c.node = call["sync"].node
      /\ c.detach = call["sync"].detach /\ c.attach = Tail(s)
  <2>1. call["sync"] \in Call /\ Tail(s) \in Seq(Block)
    BY <1>0, <1>3 DEF TypeOK
  <2> QED  BY <2>1 DEF Call
<1> HIDE DEF c
<1> DEFINE t == Tail(s)
<1>5. ASSUME calls = 0 PROVE s[1] = best /\ call["sync"].detach = <<>> /\ s[Len(s)] = c.node
  <2>1. Alone /\ ListsOK(call["sync"], best, flags) /\ SyncOK(call["sync"], best, flags)
    BY <1>0, <1>5 DEF AInv, Alone
  <2> QED  BY <1>1, <1>2, <1>4, <2>1 DEF ListsOK, SyncOK, Moves
<1>6. t = <<>> => Len(s) = 1
  <2>1. Len(t) = Len(s) - 1
    BY <1>3
  <2> HIDE DEF t
  <2> QED  BY <1>3, <2>1, SMT
<1>7. t # <<>> => 1 \in 1..Len(t) /\ t[1] = s[2] /\ 1 \in 1..(Len(s) - 1)
  <2>1. ASSUME t # <<>> PROVE 1 \in 1..Len(t) /\ 1 + 1 = 2
    BY <1>3, <2>1, SMT
  <2> QED  BY <1>3, <2>1
<1>8. \A i \in 1..(Len(t) - 1) : t[i + 1] = s[(i + 1) + 1] /\ t[i] = s[i + 1] /\ i + 1 \in 1..(Len(s) - 1)
  <2> TAKE i \in 1..(Len(t) - 1)
  <2>1. i + 1 \in 1..Len(t) /\ i \in 1..Len(t) /\ i + 1 \in 1..(Len(s) - 1)
    BY <1>3, SMT
  <2> QED  BY <1>3, <2>1
<1> HIDE DEF t
<1>9. ASSUME calls = 0, CheckedAhead PROVE Linked(c, best')
  <2>1. \A i \in 1..(Len(s) - 1) : Parent[s[i + 1]] = s[i]
    BY <1>1, <1>9 DEF BInv, Linked, Moves
  <2>2. c.detach = <<>> /\ c.attach = t /\ Len(c.detach) = 0
    BY <1>4, <1>5, <1>9, SMT DEF t
  <2>3. Height(best) \in Nat \ {0} /\ Path[best][Height(best)] = best
    BY <1>0, PathType
  <2>4. t # <<>> => Parent[t[1]] = best
    BY <1>5, <1>7, <1>9, <2>1, SMT
  <2>5. \A i \in 1..(Len(t) - 1) : Parent[t[i + 1]] = t[i]
    BY <1>8, <2>1
  <2> QED  BY <1>1, <2>2, <2>3, <2>4, <2>5, SMT DEF Linked
<1>10. ASSUME calls = 0, CheckedAhead, crashes = 0, NEW x \in Block, Sound(flags', x)
       PROVE  Reached(c, best', x)
  <2>1. Work[x] <= Work[c.node]
    BY <1>1, <1>2, <1>4, <1>10 DEF BInv, Reached, Moves
  <2>2. t = <<>> => c.node = best
    BY <1>5, <1>6, <1>10
  <2>3. c.attach = t /\ c.pc \in Moves
    BY <1>4 DEF Moves, t
  <2> QED  BY <1>1, <2>1, <2>2, <2>3 DEF Reached
<1> QED  BY <1>1, <1>4, <1>9, <1>10, MostWorkStep

\* Every step keeps it.
LEMMA NextBInv == IInv /\ AInv /\ BInv /\ [Next]_vars => BInv'
<1> SUFFICES ASSUME IInv, AInv, BInv, [Next]_vars PROVE BInv'
  OBVIOUS
<1>0. calls \in Nat /\ crashes \in Nat
  BY DEF IInv, TypeOK
<1>1. CASE UNCHANGED vars
  BY <1>1, MostWorkFrame DEF vars, nodeVars, counters
<1>2. CASE Arrival
  BY <1>2, MostWorkArrival DEF Arrival
<1>3. CASE RpcCall
  <2>1. calls' = calls + 1
    BY <1>3 DEF RpcCall, InvalidateSideBlock, InvalidateBestBlock, ReconsiderBlock
  <2>2. calls' # 0
    BY <1>0, <2>1, SMT
  <2> QED  BY <2>2 DEF BInv
<1>4. CASE SyncStep
  <2>1. CASE Step("sync")
    BY <2>1, MostWorkStartDisconnect, MostWorkDisconnect, MostWorkResumeDisconnected,
       MostWorkStartConnect, MostWorkConnect, MostWorkResumeConnected DEF Step
  <2> QED  BY <1>4, <2>1, MostWorkAccept, MostWorkConnectBest, MostWorkFinishAccept, MostWorkOrphans
              DEF SyncStep
<1>5. CASE RpcStep
  <2>1. call["rpc"].pc # "idle" /\ calls' = calls
    BY <1>5 DEF RpcStep, SwitchToBestTip, NilTip, FinishRpc, ChoosesTip, At, Step, StartDisconnect,
                disconnectBlock, ResumeDisconnected, StartConnect, connectBlock, ResumeConnected, counters
  <2>2. calls' # 0
    BY <2>1 DEF AInv
  <2> QED  BY <2>2 DEF BInv
<1>6. CASE Crash
  <2>1. call' = [p \in Actor |-> Idle] /\ crashes' = crashes + 1
    BY <1>6 DEF Crash
  <2>2. crashes' # 0 /\ call'["sync"].pc \notin Moves
    BY <1>0, <2>1, IdleCall, SMT DEF Moves
  <2> QED  BY <2>2 DEF BInv, Linked
<1> QED  BY <1>1, <1>2, <1>3, <1>4, <1>5, <1>6 DEF Next

\* Of finitely many blocks one has the most work.
LEMMA Heaviest ==
    ASSUME NEW S \in SUBSET Block, S # {}
    PROVE  \E t \in S : \A u \in S : Work[u] <= Work[t]
<1>0. \A b \in Block : Work[b] \in Nat
  BY ChainAssumption
<1>1. PICK s \in Seq(Block) : \A b \in Block : \E i \in 1..Len(s) : s[i] = b
  BY FiniteAssumption DEF IsFiniteSet
<1> DEFINE w == [i \in 1..Len(s) |-> Work[s[i]]]
           Bounded(k) == \E m \in Nat : \A i \in 1..k : w[i] <= m
           High == {k \in 0..Len(s) : ~Bounded(k)}
<1>2. Len(s) \in Nat /\ \A i \in 1..Len(s) : s[i] \in Block /\ w[i] = Work[s[i]] /\ w[i] \in Nat
  BY <1>0, SMT
<1> HIDE DEF w
<1>3. PICK m0 \in Nat : \A i \in 1..Len(s) : w[i] <= m0
  <2>1. ASSUME NEW k \in 1..Len(s), Bounded(k - 1) PROVE Bounded(k)
    <3>1. PICK m \in Nat : \A i \in 1..(k - 1) : w[i] <= m
      BY <2>1
    <3>2. m + w[k] \in Nat /\ \A i \in 1..k : w[i] \in Nat
      BY <1>2, <3>1, SMT
    <3>3. \A i \in 1..k : w[i] <= m + w[k]
      BY <1>2, <3>1, <3>2, SMT
    <3> QED  BY <3>2, <3>3
  <2>2. Bounded(0)
    BY SMT
  <2> HIDE DEF Bounded
  <2>3. High \in SUBSET Nat
    BY <1>2, SMT
  <2>4. ASSUME High # {} PROVE FALSE
    <3>1. PICK k \in High : \A j \in High : k <= j
      <4> HIDE DEF High
      <4> QED  BY <2>3, <2>4, LeastNumber
    <3>2. k \in 0..Len(s) /\ ~Bounded(k) /\ k # 0
      BY <2>2, <3>1
    <3>3. k \in 1..Len(s) /\ k - 1 \in 0..Len(s) /\ ~(k <= k - 1)
      BY <1>2, <3>2, SMT
    <3>4. Bounded(k - 1)
      BY <3>1, <3>3
    <3> QED  BY <2>1, <3>2, <3>3, <3>4
  <2>5. Bounded(Len(s))
    BY <1>2, <2>4, SMT
  <2> QED  BY <2>5 DEF Bounded
<1>4. ASSUME NEW b \in Block PROVE Work[b] <= m0
  <2>1. PICK i \in 1..Len(s) : s[i] = b
    BY <1>1
  <2>2. w[i] = Work[b] /\ w[i] <= m0
    BY <1>2, <1>3, <2>1
  <2> QED  BY <2>2
<1> DEFINE U == {m \in Nat : \A u \in S : Work[u] <= m}
<1>5. PICK M \in U : \A m \in U : M <= m
  <2>1. U \in SUBSET Nat /\ m0 \in U
    BY <1>3, <1>4
  <2> HIDE DEF U
  <2> QED  BY <2>1, LeastNumber
<1>6. ASSUME \A t \in S : Work[t] # M PROVE FALSE
  <2>1. PICK t \in S : TRUE
    OBVIOUS
  <2>2. \A u \in S : Work[u] \in Nat /\ Work[u] < M
    BY <1>0, <1>5, <1>6, SMT
  <2>3. M - 1 \in Nat
    BY <1>5, <2>1, <2>2, SMT
  <2>4. M - 1 \in U
    BY <1>5, <2>2, <2>3, SMT
  <2> QED  BY <1>5, <2>3, <2>4, SMT
<1> QED  BY <1>5, <1>6
=============================================================================
