------------------------- MODULE ChainProcessLemmas -------------------------
(***************************************************************************)
(* What the proofs about ChainProcess share: facts about the block tree,   *)
(* what getReorganizeNodes and verifyReorganizationValidity return, the    *)
(* inductive invariants, and what the pieces of a step do.                 *)
(***************************************************************************)
EXTENDS ChainProcess, WellFoundedInduction, TLAPS

USE Zenon

\* A set of natural numbers has a least element.
LEMMA LeastNumber ==
    ASSUME NEW S \in SUBSET Nat, S # {}
    PROVE  \E n \in S : \A m \in S : n <= m
<1> DEFINE R == {x \in Nat \X Nat : x[1] < x[2]}
<1>1. IsWellFoundedOn(R, Nat)
  BY NatLessThanWellFounded, Zenon DEF OpToRel
<1> HIDE DEF R
<1>2. PICK n \in S : \A m \in S : ~(<<m, n>> \in R)
  BY <1>1, WFMin, Zenon
<1>3. \A m \in S : ~(m < n)
  BY <1>2 DEF R
<1> QED  BY <1>3, SMT

\* The number of blocks on the path to b.
Height(b) == Len(Path[b])

\* The block before a block that is not genesis is a block.
LEMMA ParentType ==
    ASSUME NEW b \in Block, b # Genesis
    PROVE  Parent[b] \in Block
BY ChainAssumption

\* The path to a block is a sequence of blocks that ends with it.
LEMMA PathType ==
    ASSUME NEW b \in Block
    PROVE  /\ Path[b] \in Seq(Block)
           /\ Height(b) \in Nat \ {0}
           /\ Path[b][Height(b)] = b
           /\ \A i \in 1..Height(b) : Path[b][i] \in Block
<1>1. Path[b] \in Seq(Block) /\ Height(b) \in Nat
  BY PathAssumption, SMT DEF Height
<1>2. CASE b = Genesis
  <2>1. Path[b] = <<b>>
    BY <1>2, PathAssumption
  <2> QED  BY <1>1, <2>1, SMT DEF Height
<1>3. CASE b # Genesis
  <2>1. Path[b] = Append(Path[Parent[b]], b) /\ Path[Parent[b]] \in Seq(Block)
    BY <1>3, PathAssumption, ParentType
  <2> QED  BY <1>1, <2>1, SMT DEF Height
<1> QED  BY <1>2, <1>3

\* A path is the path to the block before, and the block.
LEMMA PathOfParent ==
    ASSUME NEW b \in Block, b # Genesis
    PROVE  /\ Height(b) = Height(Parent[b]) + 1
           /\ \A i \in 1..Height(Parent[b]) : Path[b][i] = Path[Parent[b]][i]
<1>1. Path[b] = Append(Path[Parent[b]], b) /\ Path[Parent[b]] \in Seq(Block)
  BY PathAssumption, ParentType
<1> QED  BY <1>1, SMT DEF Height

\* What the path to b has up to a block is the path to that block.
LEMMA PathPrefix ==
    ASSUME NEW b \in Block, NEW i \in 1..Height(b)
    PROVE  /\ Height(Path[b][i]) = i
           /\ \A j \in 1..i : Path[Path[b][i]][j] = Path[b][j]
<1>1. Path[Path[b][i]] = SubSeq(Path[b], 1, i) /\ Path[b] \in Seq(Block)
  BY PathAssumption DEF Height
<1>2. i \in Nat /\ i <= Len(Path[b]) /\ Len(Path[b]) \in Nat
  BY <1>1, SMT DEF Height
<1> QED  BY <1>1, <1>2, SMT DEF Height

\* Genesis is the one block of height 1.
LEMMA GenesisHeight ==
    Genesis \in Block /\ Height(Genesis) = 1 /\ \A b \in Block : Height(b) = 1 => b = Genesis
<1>1. Genesis \in Block
  BY ChainAssumption
<1>2. Height(Genesis) = 1
  <2>1. Path[Genesis] = <<Genesis>>
    BY PathAssumption, <1>1
  <2> QED BY <2>1, SMT DEF Height
<1>3. ASSUME NEW b \in Block, Height(b) = 1, b # Genesis
      PROVE  FALSE
  BY <1>3, PathOfParent, PathType, ParentType, SMT
<1> QED  BY <1>1, <1>2, <1>3

\* A chain has the blocks of the path, each at its height, genesis among them.
LEMMA ChainElements ==
    ASSUME NEW b \in Block
    PROVE  /\ Chain[b] \subseteq Block /\ b \in Chain[b] /\ Genesis \in Chain[b]
           /\ \A i \in 1..Height(b) : Path[b][i] \in Chain[b]
           /\ \A x \in Chain[b] : Height(x) \in 1..Height(b) /\ Path[b][Height(x)] = x
<1>1. Chain[b] = {Path[b][i] : i \in 1..Height(b)}
  <2>1. DOMAIN Path[b] = 1..Height(b)
    BY PathType, SMT DEF Height
  <2> QED  BY <2>1 DEF Chain, Range
<1>2. 1 \in 1..Height(b) /\ Height(b) \in 1..Height(b)
  BY PathType, SMT
<1>3. Path[b][1] \in Block /\ Height(Path[b][1]) = 1
  BY <1>2, PathType, PathPrefix
<1>4. Path[b][1] = Genesis
  BY <1>3, GenesisHeight
<1>5. \A x \in Chain[b] : Height(x) \in 1..Height(b) /\ Path[b][Height(x)] = x
  BY <1>1, PathPrefix, SMT
<1> QED  BY <1>1, <1>2, <1>4, <1>5, PathType, SMT

\* The chain of a block is the chain of the block before it, and the block.
LEMMA ChainOfParent ==
    ASSUME NEW b \in Block, b # Genesis
    PROVE  Chain[b] = Chain[Parent[b]] \cup {b} /\ b \notin Chain[Parent[b]]
<1> DEFINE p == Parent[b]
<1>1. p \in Block /\ Height(p) \in Nat \ {0} /\ Height(b) = Height(p) + 1
  BY ParentType, PathOfParent, PathType
<1>2. ASSUME NEW x \in Chain[b], x # b  PROVE x \in Chain[p]
  <2>1. Height(x) \in 1..Height(b) /\ Path[b][Height(x)] = x /\ Height(x) # Height(b)
    BY <1>2, ChainElements, PathType
  <2>2. Height(x) \in 1..Height(p)
    BY <1>1, <2>1, SMT
  <2> QED  BY <1>1, <2>1, <2>2, PathOfParent, ChainElements, SMTT(30)
<1>3. ASSUME NEW x \in Chain[p]  PROVE x \in Chain[b]
  <2>1. Height(x) \in 1..Height(p) /\ Path[p][Height(x)] = x
    BY <1>1, ChainElements
  <2>2. Path[b][Height(x)] = x /\ Height(x) \in 1..Height(b)
    BY <1>1, <2>1, PathOfParent, SMT
  <2> QED  BY <2>2, ChainElements
<1>4. b \notin Chain[p]
  BY <1>1, ChainElements, SMT
<1> QED  BY <1>2, <1>3, <1>4, ChainElements, SMT

\* The chain of a block of a chain is part of that chain.
LEMMA ChainOfAncestor ==
    ASSUME NEW b \in Block, NEW a \in Chain[b]
    PROVE  a \in Block /\ Chain[a] \subseteq Chain[b] /\ Height(a) <= Height(b)
<1>1. a \in Block /\ Height(a) \in 1..Height(b) /\ Path[b][Height(a)] = a /\ Height(b) \in Nat
  BY ChainElements, PathType
<1>2. ASSUME NEW x \in Chain[a]  PROVE x \in Chain[b]
  <2>1. Height(x) \in 1..Height(a) /\ Path[a][Height(x)] = x
    BY <1>1, ChainElements
  <2>2. Path[b][Height(x)] = x
    BY <1>1, <2>1, PathPrefix
  <2>3. Height(x) \in 1..Height(b)
    BY <1>1, <2>1, SMT
  <2> QED  BY <2>2, <2>3, ChainElements
<1> QED  BY <1>1, <1>2, SMT

\* Parents along a path.
LEMMA ParentOnPath ==
    ASSUME NEW b \in Block, NEW i \in 2..Height(b)
    PROVE  /\ Path[b][i] \in Block \ {Genesis}
           /\ Parent[Path[b][i]] = Path[b][i - 1]
<1> DEFINE x == Path[b][i]
<1>1. i \in 1..Height(b) /\ i - 1 \in 1..i /\ Height(b) \in Nat
  BY PathType, SMT
<1>2. x \in Block /\ Height(x) = i
  BY <1>1, PathType, PathPrefix
<1>3. x # Genesis
  BY <1>2, GenesisHeight, SMT
<1>7. Path[x][i - 1] = Path[b][i - 1]
  BY <1>1, PathPrefix
<1> HIDE DEF x
<1>8. Parent[x] \in Block
  BY <1>2, <1>3, ParentType
<1>9. Height(x) = Height(Parent[x]) + 1 /\ Height(Parent[x]) \in Nat
  BY <1>2, <1>3, <1>8, PathOfParent, PathType
<1>4. Height(Parent[x]) = i - 1 /\ i - 1 \in 1..Height(Parent[x])
  BY <1>1, <1>2, <1>9, SMT
<1>5. Parent[x] = Path[Parent[x]][i - 1]
  BY <1>4, <1>8, PathType
<1>6. Path[x][i - 1] = Path[Parent[x]][i - 1]
  BY <1>2, <1>3, <1>4, PathOfParent
<1> QED  BY <1>2, <1>3, <1>5, <1>6, <1>7 DEF x

\* Two chains that share a block share all below it.
LEMMA SharedPrefix ==
    ASSUME NEW a \in Block, NEW b \in Block, NEW i \in 1..Height(b), Path[b][i] \in Chain[a]
    PROVE  /\ i \in 1..Height(a)
           /\ \A j \in 1..i : Path[a][j] = Path[b][j]
<1> DEFINE x == Path[b][i]
<1>1. Height(x) = i /\ \A j \in 1..i : Path[x][j] = Path[b][j]
  BY PathPrefix
<1>2. i \in 1..Height(a) /\ Path[a][i] = x
  BY <1>1, ChainElements, SMT
<1>3. \A j \in 1..i : Path[x][j] = Path[a][j]
  BY <1>2, PathPrefix
<1> QED  BY <1>1, <1>2, <1>3

\* FindFork: a branch leaves the best chain at one height and does not come back.
LEMMA ForkIsShared ==
    ASSUME NEW b \in Block, best \in Block
    PROVE  /\ Fork(b) \in 1..Height(b) /\ Fork(b) <= Height(best)
           /\ \A i \in 1..Height(b) : Path[b][i] \in Chain[best] <=> i <= Fork(b)
           /\ \A i \in 1..Fork(b) : Path[b][i] = Path[best][i]
<1> DEFINE n == Height(b)
           IsFork(k) == \A i \in 1..n : Path[b][i] \in Chain[best] <=> i <= k
           Off == {i \in 1..n : Path[b][i] \notin Chain[best]}
<1>1. n \in Nat \ {0}
  BY PathType
<1>2. \E k \in 1..n : IsFork(k)
  <2>1. CASE Off = {}
    <3>1. n \in 1..n /\ IsFork(n)
      BY <2>1, <1>1, SMT
    <3> QED  BY <3>1
  <2>2. CASE Off # {}
    <3>1. PICK m \in Off : \A i \in Off : m <= i
      <4>1. Off \in SUBSET Nat
        BY SMT
      <4> QED  BY <4>1, <2>2, LeastNumber
    <3>2. Path[b][1] \in Chain[best]
      <4>1. 1 \in 1..n
        BY <1>1, SMT
      <4>2. Path[b][1] = Genesis
        BY <4>1, GenesisHeight, PathPrefix, PathType, SMT
      <4> QED  BY <4>2, ChainElements
    <3>3. m \in 1..n /\ m # 1
      BY <3>1, <3>2
    <3>4. ASSUME NEW i \in 1..n, Path[b][i] \in Chain[best]  PROVE i <= m - 1
      <4>1. \A j \in 1..i : Path[b][j] \in Chain[best]
        BY <3>4, SharedPrefix, ChainElements, SMT
      <4> QED  BY <3>1, <3>3, <4>1, SMT
    <3>5. ASSUME NEW i \in 1..n, i <= m - 1  PROVE Path[b][i] \in Chain[best]
      BY <3>1, <3>3, <3>5, SMT
    <3>6. IsFork(m - 1)
      BY <3>4, <3>5
    <3>7. m - 1 \in 1..n
      BY <3>3, <1>1, SMT
    <3> QED  BY <3>6, <3>7
  <2> QED  BY <2>1, <2>2
<1>3. Fork(b) \in 1..n /\ IsFork(Fork(b))
  <2>1. Fork(b) = CHOOSE k \in 1..n : IsFork(k)
    BY DEF Fork, FindFork, Height
  <2> HIDE DEF IsFork, n
  <2> QED  BY <1>2, <2>1
<1>4. Path[b][Fork(b)] \in Chain[best]
  BY <1>3, <1>1, SMT
<1>5. Fork(b) \in 1..Height(best) /\ \A i \in 1..Fork(b) : Path[best][i] = Path[b][i]
  BY <1>3, <1>4, SharedPrefix
<1> QED  BY <1>3, <1>5, SMT

-----------------------------------------------------------------------------
(* The status flags, and what a reorganization makes of them.                *)

\* A block that the flags f call valid had its scripts checked.
Checked(f) == \A b \in Block : KnownValid(f, b) => b \notin BadScript

\* A block that the flags f call invalid breaks a rule, or descends from one that does.
Blamed(f) == \A b \in Block : KnownInvalid(f, b) => Chain[b] \cap Bad # {}

\* With a block the node has every block below it.
Known(f) == \A b \in Block : "data" \in f[b] => \A a \in Chain[b] : "data" \in f[a]

\* The status of every block, in memory or stored.
Status == [Block -> SUBSET Flag]

\* No block of a chain has more work than its tip (blockNode.workSum).
LEMMA WorkGrows ==
    ASSUME NEW b \in Block, NEW a \in Chain[b]
    PROVE  Work[a] <= Work[b]
<1> DEFINE n == Height(b)
           More == {i \in 1..n : \E j \in 1..i : Work[Path[b][j]] > Work[Path[b][i]]}
<1>1. n \in Nat \ {0} /\ \A i \in 1..n : Path[b][i] \in Block /\ Work[Path[b][i]] \in Nat
  BY PathType, ChainAssumption
<1>2. ASSUME NEW i \in 2..n
      PROVE  Work[Path[b][i - 1]] < Work[Path[b][i]]
  <2>1. Path[b][i] \in Block \ {Genesis} /\ Parent[Path[b][i]] = Path[b][i - 1]
    BY ParentOnPath
  <2> QED  BY <2>1, ChainAssumption
<1>3. More = {}
  <2>1. SUFFICES ASSUME More # {}
                 PROVE  FALSE
    OBVIOUS
  <2>2. PICK i \in More : \A j \in More : i <= j
    <3>1. More \in SUBSET Nat
      BY SMT
    <3> HIDE DEF More
    <3> QED  BY <2>1, <3>1, LeastNumber
  <2>3. PICK j \in 1..i : Work[Path[b][j]] > Work[Path[b][i]]
    BY <2>2
  <2>4. i \in 1..n /\ j < i /\ i \in 2..n /\ i - 1 \in 1..n /\ j \in 1..(i - 1)
    BY <2>2, <2>3, <1>1, SMT
  <2>5. Work[Path[b][j]] > Work[Path[b][i - 1]]
    <3>1. Work[Path[b][i - 1]] < Work[Path[b][i]]
      BY <1>2, <2>4
    <3>2. Work[Path[b][j]] \in Nat /\ Work[Path[b][i]] \in Nat /\ Work[Path[b][i - 1]] \in Nat
      BY <1>1, <2>4, SMT
    <3> QED  BY <2>3, <3>1, <3>2, SMT
  <2>6. i - 1 \in More
    BY <2>4, <2>5
  <2> QED  BY <2>2, <2>4, <2>6, SMT
<1>4. PICK i \in 1..n : Path[b][i] = a
  BY ChainElements
<1>5. ~(Work[Path[b][i]] > Work[Path[b][n]])
  <2>1. n \in 1..n /\ i \in 1..n
    BY <1>1, SMT
  <2>2. n \notin More
    BY <1>3
  <2>3. ~ \E j \in 1..n : Work[Path[b][j]] > Work[Path[b][n]]
    BY <2>1, <2>2
  <2> QED  BY <2>1, <2>3
<1>6. Path[b][n] = b /\ Work[b] \in Nat /\ Work[a] \in Nat
  BY <1>1, <1>4, PathType, ChainAssumption
<1> QED  BY <1>4, <1>5, <1>6, SMT

\* What getReorganizeNodes attaches: the blocks of the branch, from the fork up, none
\* of them on the best chain.
LEMMA BranchElements ==
    ASSUME NEW b \in Block, best \in Block
    PROVE  /\ Branch(b) \in Seq(Block) /\ Len(Branch(b)) = Height(b) - Fork(b)
           /\ \A i \in 1..Len(Branch(b)) :
                 /\ Branch(b)[i] = Path[b][Fork(b) + i] /\ Fork(b) + i \in 2..Height(b)
                 /\ Branch(b)[i] \in Chain[b] \ Chain[best] /\ Branch(b)[i] # Genesis
           /\ \A i \in 1..Len(Branch(b)) : \A j \in 1..i : Branch(b)[j] \in Chain[Branch(b)[i]]
<1> DEFINE k == Fork(b)  n == Height(b)  s == Branch(b)
<1>1. k \in 1..n /\ n \in Nat \ {0} /\ Path[b] \in Seq(Block) /\ Len(Path[b]) = n
  BY ForkIsShared, PathType DEF Height
<1>2. s \in Seq(Block) /\ Len(s) = n - k /\ \A i \in 1..Len(s) : s[i] = Path[b][k + i]
  <2>1. s = SubSeq(Path[b], k + 1, Len(Path[b]))
    BY DEF Branch, Branches, Fork
  <2> HIDE DEF k, n, s
  <2> QED  BY <1>1, <2>1, SMT
<1>3. ASSUME NEW i \in 1..Len(s)
      PROVE  /\ k + i \in 2..n /\ k + i \in 1..n /\ s[i] = Path[b][k + i]
             /\ s[i] \in Chain[b] \ Chain[best] /\ s[i] # Genesis
             /\ \A j \in 1..i : s[j] \in Chain[s[i]]
  <2>1. k + i \in 2..n /\ k + i \in 1..n /\ ~(k + i <= k)
    BY <1>1, <1>2, SMT
  <2>2. s[i] = Path[b][k + i]
    BY <1>2
  <2>3. s[i] \in Chain[b] /\ s[i] \notin Chain[best]
    BY <2>1, <2>2, ForkIsShared, ChainElements
  <2>4. s[i] # Genesis
    BY <2>1, <2>2, ParentOnPath, SMT
  <2>5. ASSUME NEW j \in 1..i  PROVE s[j] \in Chain[s[i]]
    <3>1. k + j \in 1..(k + i) /\ j \in 1..Len(s)
      BY <1>1, SMT
    <3>2. Height(s[i]) = k + i /\ s[i] \in Block
      BY <2>1, <2>2, PathPrefix, PathType, SMT
    <3>3. Path[s[i]][k + j] = Path[b][k + j]
      BY <2>1, <2>2, <3>1, PathPrefix
    <3>4. s[j] = Path[b][k + j]
      BY <1>2, <3>1
    <3> QED  BY <3>1, <3>2, <3>3, <3>4, ChainElements
  <2> QED  BY <2>1, <2>2, <2>3, <2>4, <2>5
<1> QED  BY <1>2, <1>3

\* What getReorganizeNodes detaches: the blocks of the best chain, from the tip down.
LEMMA DownwardElements ==
    ASSUME best \in Block, NEW k \in 1..Height(best)
    PROVE  /\ Downward(k) \in Seq(Block) /\ Len(Downward(k)) = Height(best) - k
           /\ \A i \in 1..Len(Downward(k)) :
                 /\ Downward(k)[i] = Path[best][Height(best) + 1 - i]
                 /\ Height(best) + 1 - i \in (k + 1)..Height(best)
                 /\ Downward(k)[i] # Genesis
<1> DEFINE n == Height(best)  s == Downward(k)
<1>1. n \in Nat \ {0} /\ \A i \in 1..n : Path[best][i] \in Block
  BY PathType
<1>2. s = [i \in 1..(n - k) |-> Path[best][n + 1 - i]]
  BY DEF Downward, Height
<1>3. \A i \in 1..(n - k) : n + 1 - i \in (k + 1)..n /\ n + 1 - i \in 1..n /\ n + 1 - i \in 2..n
  BY <1>1, SMT
<1>4. s \in Seq(Block) /\ Len(s) = n - k
  <2>1. n - k \in Nat /\ s \in [1..(n - k) -> Block]
    BY <1>1, <1>2, <1>3, SMT
  <2> HIDE DEF s, n
  <2> QED  BY <2>1, SMT
<1>5. \A i \in 1..Len(s) : s[i] = Path[best][n + 1 - i]
  BY <1>2, <1>4
<1> QED  BY <1>3, <1>4, <1>5, ParentOnPath, SMT

\* getReorganizeNodes: it marks only blocks off the best chain that descend from an
\* invalid one, and returns no blocks or the two sides of the fork.
LEMMA ReorganizeNodes ==
    ASSUME NEW f \in Status, NEW b \in Block, best \in Block, b \notin Chain[best],
           NEW r, r = getReorganizeNodes(f, b)
    PROVE  /\ r.flags \in Status
           /\ \A x \in Block :
                 \/ r.flags[x] = f[x]
                 \/ /\ r.flags[x] = f[x] \cup {"ancestor"}
                    /\ x \notin Chain[best] /\ \E a \in Chain[x] : KnownInvalid(f, a)
           /\ \/ /\ r.detach = <<>> /\ r.attach = <<>>
                 /\ \E a \in Chain[b] : KnownInvalid(f, a)
              \/ /\ r.flags = f /\ r.detach = Downward(Fork(b)) /\ r.attach = Branch(b)
                 /\ \A i \in 1..Len(Branch(b)) : ~KnownInvalid(f, Branch(b)[i])
<1> DEFINE s == Branch(b)
           bad == {i \in DOMAIN s : KnownInvalid(f, s[i])}
           above == {s[j] : j \in {j \in DOMAIN s : \A i \in bad : i < j}}
<1>1. r = IF KnownInvalid(f, Parent[b])
          THEN [flags |-> SetStatusFlags(f, {b}, "ancestor"), detach |-> <<>>, attach |-> <<>>]
          ELSE IF bad # {}
          THEN [flags |-> SetStatusFlags(f, above, "ancestor"), detach |-> <<>>, attach |-> <<>>]
          ELSE [flags |-> f, detach |-> Downward(Fork(b)), attach |-> s]
  BY DEF getReorganizeNodes
<1>2. b # Genesis /\ "ancestor" \in Flag
  BY ChainElements DEF Flag
<1>3. s \in Seq(Block) /\ DOMAIN s = 1..Len(s)
  BY BranchElements, SMT
<1>4. CASE KnownInvalid(f, Parent[b])
  <2>1. Parent[b] \in Chain[b] /\ b \in Chain[b]
    BY <1>2, ChainOfParent, ChainElements, ParentType, SMT
  <2>2. r.flags = SetStatusFlags(f, {b}, "ancestor") /\ r.detach = <<>> /\ r.attach = <<>>
    BY <1>1, <1>4, SMT
  <2>3. r.flags \in Status /\ \A x \in Block : r.flags[x] = IF x \in {b} THEN f[x] \cup {"ancestor"} ELSE f[x]
    BY <1>2, <2>2, SMT DEF SetStatusFlags, Status
  <2> QED  BY <1>4, <2>1, <2>2, <2>3
<1>5. CASE ~KnownInvalid(f, Parent[b]) /\ bad # {}
  <2>0. PICK i \in bad : TRUE
    BY <1>5
  <2>1. i \in 1..Len(s) /\ KnownInvalid(f, s[i])
    BY <1>3
  <2>2. \E a \in Chain[b] : KnownInvalid(f, a)
    BY <2>1, BranchElements
  <2>3. ASSUME NEW x \in above
        PROVE  x \notin Chain[best] /\ \E a \in Chain[x] : KnownInvalid(f, a)
    <3>1. PICK j \in 1..Len(s) : x = s[j] /\ i < j
      BY <1>3, <2>1
    <3>2. i \in 1..j
      BY <3>1, <2>1, SMT
    <3> QED  BY <2>1, <3>1, <3>2, BranchElements
  <2>4. r.flags = SetStatusFlags(f, above, "ancestor") /\ r.detach = <<>> /\ r.attach = <<>>
    <3> HIDE DEF bad, above
    <3> QED  BY <1>1, <1>5, SMT
  <2>5. r.flags \in Status /\ \A x \in Block : r.flags[x] = IF x \in above THEN f[x] \cup {"ancestor"} ELSE f[x]
    <3> HIDE DEF above
    <3> QED  BY <1>2, <2>4, SMT DEF SetStatusFlags, Status
  <2> HIDE DEF above, bad
  <2> QED  BY <2>2, <2>3, <2>4, <2>5
<1>6. CASE ~KnownInvalid(f, Parent[b]) /\ bad = {}
  <2>1. r = [flags |-> f, detach |-> Downward(Fork(b)), attach |-> s]
    <3> HIDE DEF bad, above, s
    <3> QED  BY <1>1, <1>6
  <2>2. \A i \in 1..Len(s) : ~KnownInvalid(f, s[i])
    BY <1>3, <1>6
  <2> QED  BY <2>1, <2>2, SMT
<1> QED  BY <1>4, <1>5, <1>6

\* verifyReorganizationValidity: it marks as invalid only blocks to attach at or above
\* one that breaks a rule; when it accepts, every script of these blocks was checked.
LEMMA VerifyAttach ==
    ASSUME NEW f \in Status, Checked(f), NEW detach \in Seq(Block), NEW attach \in Seq(Block),
           NEW v, v = verifyReorganizationValidity(f, detach, attach)
    PROVE  /\ v.flags \in Status /\ v.ok \in BOOLEAN
           /\ \A x \in Block : /\ "data" \in v.flags[x] <=> "data" \in f[x]
                               /\ KnownInvalid(f, x) => KnownInvalid(v.flags, x)
                               /\ KnownInvalid(v.flags, x) =>
                                     \/ KnownInvalid(f, x)
                                     \/ \E i \in 1..Len(attach) :
                                           /\ x = attach[i]
                                           /\ \E j \in 1..i : attach[j] \in Bad
           /\ Checked(v.flags)
           /\ v.ok => /\ \A x \in Block : KnownInvalid(v.flags, x) => KnownInvalid(f, x)
                      /\ \A i \in 1..Len(attach) : attach[i] \notin BadScript
           /\ ~v.ok => \/ detach # <<>> /\ Head(detach) # best
                       \/ \E i \in 1..Len(attach) : KnownInvalid(v.flags, attach[i])
<1> DEFINE bad == {i \in DOMAIN attach : ~KnownValid(f, attach[i]) /\ ~checkConnectBlock(attach[i])}
           before == {i \in DOMAIN attach : \A j \in bad : i < j}
           after == {i \in DOMAIN attach : \E j \in bad : j < i}
           first == bad \ after
           Blocks(I) == {attach[i] : i \in I}
           B1 == Blocks(before)
           B2 == Blocks(first)
           B3 == Blocks(after)
           f1 == SetStatusFlags(f, B1, "valid")
           f2 == SetStatusFlags(f1, B2, "failed")
           f3 == SetStatusFlags(f2, B3, "ancestor")
<1>1. v = IF detach # <<>> /\ Head(detach) # best
          THEN [ok |-> FALSE, flags |-> f]
          ELSE [ok |-> bad = {}, flags |-> f3]
  BY DEF verifyReorganizationValidity
<1>2. DOMAIN attach = 1..Len(attach) /\ Len(attach) \in Nat
  BY SMT
<1>3. /\ \A i \in bad : i \in 1..Len(attach) /\ attach[i] \in Block /\ attach[i] \in Bad
      /\ \A i \in before : i \in 1..Len(attach) /\ i \notin bad /\ attach[i] \in Block /\ attach[i] \notin BadScript
      /\ \A i \in after : i \in 1..Len(attach) /\ \E j \in 1..i : attach[j] \in Bad
      /\ \A i \in bad : i \in first \/ i \in after
      /\ bad = {} => first = {} /\ after = {} /\ \A i \in 1..Len(attach) : i \in before
  <2>1. \A i \in 1..Len(attach) : attach[i] \in Block
    BY SMT
  <2>2. \A i \in bad : i \in 1..Len(attach) /\ attach[i] \in Bad
    BY <1>2 DEF checkConnectBlock, Bad
  <2>3. \A i \in before : i \in 1..Len(attach) /\ i \notin bad
    BY <1>2, SMT
  <2>4. \A i \in before : attach[i] \notin BadScript
    BY <2>1, <2>3, <1>2 DEF Checked, checkConnectBlock
  <2>5. \A i \in after : i \in 1..Len(attach) /\ \E j \in 1..i : attach[j] \in Bad
    BY <2>2, <1>2, SMT
  <2> QED  BY <1>2, <2>1, <2>2, <2>3, <2>4, <2>5
<1>4. "valid" \in Flag /\ "failed" \in Flag /\ "ancestor" \in Flag
  BY DEF Flag
<1>14. /\ \A x \in B1 : x \notin BadScript
       /\ \A x \in B2 \cup B3 : \E i \in 1..Len(attach) :
             x = attach[i] /\ \E j \in 1..i : attach[j] \in Bad
       /\ \A i \in bad : attach[i] \in B2 \cup B3 /\ attach[i] \in Block /\ i \in 1..Len(attach)
       /\ bad = {} => B2 = {} /\ B3 = {} /\ \A i \in 1..Len(attach) : attach[i] \notin BadScript
  <2>1. first \subseteq bad
    BY DEF first
  <2> HIDE DEF bad, before, after, first
  <2>2. \A x \in B1 : x \notin BadScript
    BY <1>3
  <2>3. \A x \in B3 : \E i \in 1..Len(attach) : x = attach[i] /\ \E j \in 1..i : attach[j] \in Bad
    BY <1>3
  <2>4. ASSUME NEW x \in B2
        PROVE  \E i \in 1..Len(attach) : x = attach[i] /\ \E j \in 1..i : attach[j] \in Bad
    <3>1. PICK i \in bad : x = attach[i]
      BY <2>1, <2>4
    <3>2. i \in 1..Len(attach) /\ i \in 1..i /\ attach[i] \in Bad
      BY <1>3, SMT
    <3> QED  BY <3>1, <3>2
  <2>5. \A i \in bad : attach[i] \in B2 \cup B3 /\ attach[i] \in Block /\ i \in 1..Len(attach)
    BY <1>3
  <2>6. bad = {} => B2 = {} /\ B3 = {} /\ \A i \in 1..Len(attach) : attach[i] \notin BadScript
    BY <1>3
  <2> QED  BY <2>2, <2>3, <2>4, <2>5, <2>6
<1> HIDE DEF bad, B1, B2, B3
<1>5. f1 \in Status /\ \A x \in Block : f1[x] = IF x \in B1 THEN f[x] \cup {"valid"} ELSE f[x]
  BY <1>4 DEF SetStatusFlags, Status
<1> HIDE DEF f1
<1>6. f2 \in Status /\ \A x \in Block : f2[x] = IF x \in B2 THEN f1[x] \cup {"failed"} ELSE f1[x]
  BY <1>4, <1>5 DEF SetStatusFlags, Status
<1> HIDE DEF f2
<1>7. f3 \in Status /\ \A x \in Block : f3[x] = IF x \in B3 THEN f2[x] \cup {"ancestor"} ELSE f2[x]
  BY <1>4, <1>6 DEF SetStatusFlags, Status
<1> HIDE DEF f3
<1>9. \A x \in Block : /\ "data" \in f3[x] <=> "data" \in f[x]
                       /\ KnownValid(f3, x) <=> KnownValid(f, x) \/ x \in B1
                       /\ KnownInvalid(f3, x) <=>
                             KnownInvalid(f, x) \/ x \in B2 \/ x \in B3
  <2> TAKE x \in Block
  <2>1. f1[x] = (IF x \in B1 THEN f[x] \cup {"valid"} ELSE f[x])
    BY <1>5
  <2>2. f2[x] = (IF x \in B2 THEN f1[x] \cup {"failed"} ELSE f1[x])
    BY <1>6
  <2>3. f3[x] = (IF x \in B3 THEN f2[x] \cup {"ancestor"} ELSE f2[x])
    BY <1>7
  <2>4. "data" \in f3[x] <=> "data" \in f[x]
    BY <2>1, <2>2, <2>3, SMT
  <2>5. "valid" \in f3[x] <=> "valid" \in f[x] \/ x \in B1
    BY <2>1, <2>2, <2>3, SMT
  <2>6. "failed" \in f3[x] <=> "failed" \in f[x] \/ x \in B2
    BY <2>1, <2>2, <2>3, SMT
  <2>7. "ancestor" \in f3[x] <=> "ancestor" \in f[x] \/ x \in B3
    BY <2>1, <2>2, <2>3, SMT
  <2> QED  BY <2>4, <2>5, <2>6, <2>7 DEF KnownValid, KnownInvalid
<1>10. Checked(f3)
  BY <1>14, <1>9 DEF Checked
<1>11. \A x \in Block : KnownInvalid(f3, x) =>
          KnownInvalid(f, x) \/ \E i \in 1..Len(attach) : x = attach[i] /\ \E j \in 1..i : attach[j] \in Bad
  BY <1>9, <1>14
<1>12. CASE detach # <<>> /\ Head(detach) # best
  <2>1. v.ok = FALSE /\ v.flags = f
    BY <1>1, <1>12, SMT
  <2> QED  BY <1>12, <2>1
<1>13. CASE ~(detach # <<>> /\ Head(detach) # best)
  <2>0. v = [ok |-> bad = {}, flags |-> f3]
    BY <1>1, <1>13
  <2>1. v.flags = f3
    BY <2>0, SMT
  <2>4. v.ok = (bad = {})
    BY <2>0, SMT
  <2>2. ASSUME bad = {}
        PROVE  /\ \A x \in Block : KnownInvalid(f3, x) => KnownInvalid(f, x)
               /\ \A i \in 1..Len(attach) : attach[i] \notin BadScript
    BY <2>2, <1>14, <1>9
  <2>3. ASSUME bad # {}
        PROVE  \E i \in 1..Len(attach) : KnownInvalid(f3, attach[i])
    <3>1. PICK i \in bad : TRUE
      BY <2>3
    <3> QED  BY <3>1, <1>14, <1>9
  <2> QED  BY <1>7, <1>9, <1>10, <1>11, <2>1, <2>2, <2>3, <2>4
<1> QED  BY <1>12, <1>13

\* The two together, as connectBestChain calls them: what the flags say afterwards,
\* and what is detached and attached.
LEMMA Reorganization ==
    ASSUME NEW f \in Status, Checked(f), best \in Block, NEW b \in Block, b \notin Chain[best],
           NEW r, r = getReorganizeNodes(f, b),
           NEW v, v = verifyReorganizationValidity(r.flags, r.detach, r.attach)
    PROVE  /\ v.flags \in Status /\ Checked(v.flags) /\ v.ok \in BOOLEAN
           /\ Blamed(f) => Blamed(v.flags)
           /\ \A x \in Block : /\ "data" \in v.flags[x] <=> "data" \in f[x]
                               /\ KnownInvalid(f, x) => KnownInvalid(v.flags, x)
                               /\ x \in Chain[best] /\ KnownInvalid(v.flags, x) => KnownInvalid(f, x)
           /\ r.detach \in Seq(Block) /\ \A i \in 1..Len(r.detach) : r.detach[i] # Genesis
           /\ r.attach \in Seq(Block) /\ \A i \in 1..Len(r.attach) : r.attach[i] # Genesis
           /\ v.ok => /\ \A i \in 1..Len(r.attach) : r.attach[i] \notin BadScript
                      /\ \/ /\ r.detach = <<>> /\ r.attach = <<>>
                            /\ \E a \in Chain[b] : KnownInvalid(v.flags, a)
                         \/ /\ r.detach = Downward(Fork(b)) /\ r.attach = Branch(b)
                            /\ \A i \in 1..Len(Branch(b)) : ~KnownInvalid(v.flags, Branch(b)[i])
           /\ ~v.ok => \E a \in Chain[b] : KnownInvalid(v.flags, a)
<1>1. /\ r.flags \in Status
      /\ \A x \in Block :
            \/ r.flags[x] = f[x]
            \/ /\ r.flags[x] = f[x] \cup {"ancestor"}
               /\ x \notin Chain[best] /\ \E a \in Chain[x] : KnownInvalid(f, a)
      /\ \/ /\ r.detach = <<>> /\ r.attach = <<>>
            /\ \E a \in Chain[b] : KnownInvalid(f, a)
         \/ /\ r.flags = f /\ r.detach = Downward(Fork(b)) /\ r.attach = Branch(b)
            /\ \A i \in 1..Len(Branch(b)) : ~KnownInvalid(f, Branch(b)[i])
  BY ReorganizeNodes, SMT
<1>2. \A x \in Block : /\ "data" \in r.flags[x] <=> "data" \in f[x]
                       /\ KnownValid(r.flags, x) => KnownValid(f, x)
                       /\ KnownInvalid(f, x) => KnownInvalid(r.flags, x)
                       /\ KnownInvalid(r.flags, x) =>
                            \/ KnownInvalid(f, x)
                            \/ x \notin Chain[best] /\ \E a \in Chain[x] : KnownInvalid(f, a)
  BY <1>1, SMT DEF KnownValid, KnownInvalid
<1>3. Checked(r.flags)
  BY <1>2 DEF Checked
<1>4. Chain[b] \subseteq Block /\ Chain[best] \subseteq Block
  BY ChainElements
<1>5. CASE r.detach = <<>> /\ r.attach = <<>> /\ \E a \in Chain[b] : KnownInvalid(f, a)
  <2>1. r.detach \in Seq(Block) /\ r.attach \in Seq(Block) /\ Len(r.detach) = 0 /\ Len(r.attach) = 0
    BY <1>5, SMT
  <2>2. /\ v.flags \in Status /\ Checked(v.flags) /\ v.ok \in BOOLEAN
        /\ \A x \in Block : /\ "data" \in v.flags[x] <=> "data" \in r.flags[x]
                            /\ KnownInvalid(r.flags, x) => KnownInvalid(v.flags, x)
                            /\ KnownInvalid(v.flags, x) => KnownInvalid(r.flags, x)
    <3>1. ~ \E i \in 1..Len(r.attach) : TRUE
      BY <2>1, SMT
    <3> QED  BY <1>1, <1>3, <2>1, <3>1, VerifyAttach, SMT
  <2>3. ASSUME Blamed(f)  PROVE Blamed(v.flags)
    <3> SUFFICES ASSUME NEW x \in Block, KnownInvalid(v.flags, x)
                 PROVE  Chain[x] \cap Bad # {}
      BY DEF Blamed
    <3>1. PICK a \in Chain[x] : KnownInvalid(f, a)
      BY <1>2, <2>2, ChainElements
    <3>2. a \in Block /\ Chain[a] \subseteq Chain[x]
      BY ChainOfAncestor
    <3> QED  BY <2>3, <3>1, <3>2 DEF Blamed
  <2>4. \E a \in Chain[b] : KnownInvalid(v.flags, a)
    BY <1>2, <1>4, <1>5, <2>2
  <2> QED  BY <1>2, <1>5, <2>1, <2>2, <2>3, <2>4, SMT
<1>6. CASE /\ r.flags = f /\ r.detach = Downward(Fork(b)) /\ r.attach = Branch(b)
           /\ \A i \in 1..Len(Branch(b)) : ~KnownInvalid(f, Branch(b)[i])
  <2>1. /\ r.attach \in Seq(Block)
        /\ \A i \in 1..Len(r.attach) : /\ r.attach[i] \in Chain[b] \ Chain[best] /\ r.attach[i] # Genesis
                                       /\ \A j \in 1..i : r.attach[j] \in Chain[r.attach[i]]
    BY <1>6, BranchElements, SMT
  <2>2. Fork(b) \in 1..Height(best)
    BY ForkIsShared, PathType, SMT
  <2>3. r.detach \in Seq(Block) /\ \A i \in 1..Len(r.detach) : r.detach[i] # Genesis
    BY <1>6, <2>2, DownwardElements
  <2>4. r.detach = <<>> \/ Head(r.detach) = best
    <3>1. CASE Len(r.detach) = 0
      BY <2>3, <3>1, SMT
    <3>2. CASE Len(r.detach) # 0
      <4>1. 1 \in 1..Len(r.detach)
        BY <2>3, <3>2, SMT
      <4>2. r.detach[1] = Path[best][Height(best) + 1 - 1]
        BY <1>6, <2>2, <4>1, DownwardElements, SMT
      <4>3. r.detach[1] = best
        BY <4>2, PathType, SMT
      <4> QED  BY <2>3, <4>1, <4>3, SMT
    <3> QED  BY <3>1, <3>2
  <2>5. /\ v.flags \in Status /\ Checked(v.flags) /\ v.ok \in BOOLEAN
        /\ \A x \in Block : /\ "data" \in v.flags[x] <=> "data" \in f[x]
                            /\ KnownInvalid(f, x) => KnownInvalid(v.flags, x)
                            /\ KnownInvalid(v.flags, x) =>
                                 \/ KnownInvalid(f, x)
                                 \/ \E i \in 1..Len(r.attach) :
                                       /\ x = r.attach[i]
                                       /\ \E j \in 1..i : r.attach[j] \in Bad
        /\ v.ok => /\ \A x \in Block : KnownInvalid(v.flags, x) => KnownInvalid(f, x)
                   /\ \A i \in 1..Len(r.attach) : r.attach[i] \notin BadScript
        /\ ~v.ok => \E i \in 1..Len(r.attach) : KnownInvalid(v.flags, r.attach[i])
    BY <1>6, <2>1, <2>3, <2>4, VerifyAttach, SMTT(30)
  <2>6. ASSUME Blamed(f)  PROVE Blamed(v.flags)
    BY <2>1, <2>5, <2>6, SMTT(30) DEF Blamed
  <2>7. \A x \in Block : x \in Chain[best] /\ KnownInvalid(v.flags, x) => KnownInvalid(f, x)
    BY <2>1, <2>5, SMT
  <2>8. ~v.ok => \E a \in Chain[b] : KnownInvalid(v.flags, a)
    BY <2>1, <2>5
  <2>9. v.ok => \A i \in 1..Len(Branch(b)) : ~KnownInvalid(v.flags, Branch(b)[i])
    <3>1. \A i \in 1..Len(Branch(b)) : Branch(b)[i] \in Block
      BY <1>6, <2>1, SMT
    <3> QED  BY <1>6, <2>5, <3>1
  <2> QED  BY <1>6, <2>1, <2>3, <2>5, <2>6, <2>7, <2>8, <2>9
<1> QED  BY <1>1, <1>5, <1>6

-----------------------------------------------------------------------------
(* The invariant of ChainProcessInvariant, whatever overlaps.                *)

\* Where a call holds chainLock, and where it moves the best chain.
Holds == {"accept", "best", "reorganize", "disconnect", "connect", "orphans"}
Moves == {"reorganize", "disconnect", "disconnected", "connect", "connected"}

\* What the call c of p knows where it is, when tip is the tip of the best chain.
InControl(p, c, tip) ==
    /\ c.pc = "disconnect" => c.detach # <<>> /\ Head(c.detach) = tip
    /\ c.pc = "connect" => /\ c.attach # <<>> /\ Parent[Head(c.attach)] = tip
                           /\ Head(c.attach) \notin BadPrefix
    /\ c.pc = "connected" => c.attach # <<>>
    /\ \A i \in 1..Len(c.detach) : c.detach[i] # Genesis
    /\ \A i \in 1..Len(c.attach) : c.attach[i] \notin BadScript \cup {Genesis}
    /\ p = "sync" => /\ c.pc # "idle" => c.node \in Block \ {Genesis}
                     /\ c.pc \in Moves => \/ c.op = "extend" /\ c.node \notin BadScript
                                          \/ c.op = "process"
    /\ p = "rpc" => /\ c.pc \in Moves \cup {"idle"}
                    /\ c.pc \in Moves => c.op \in {"invalidate", "switch", "reconsider"}

\* chainLock is held exactly by the call that is where it holds it.
Control ==
    \A p \in Actor : /\ call[p].pc \in Holds <=> lock = p
                     /\ InControl(p, call[p], best)

\* The flags in memory and the stored ones; an RPC call may blame any block.
FlagsInv ==
    /\ Checked(flags) /\ Checked(stored)
    /\ Known(flags) /\ Known(stored)
    /\ calls = 0 => Blamed(flags) /\ Blamed(stored)

\* The orphans are within their limit, which oldestOrphan lets them exceed by one, and are
\* never blocks that the node has.
OrphanInv ==
    /\ Len(orphans) <= MaxOrphans + (IF oldestOrphan = None THEN 1 ELSE 0)
    /\ \A i \in 1..Len(orphans) : orphans[i] # Genesis /\ ~HaveBlock(orphans[i])
    /\ \A i \in 1..Len(call["sync"].queue) : HaveBlock(call["sync"].queue[i])
    /\ call["sync"].pc = "accept" => /\ ~HaveBlock(call["sync"].node)
                                     /\ HaveBlock(Parent[call["sync"].node])
                                     /\ \A i \in 1..Len(orphans) : orphans[i] # call["sync"].node
    /\ call["sync"].pc \in {"best", "accepted"} \cup Moves => HaveBlock(call["sync"].node)

\* The inductive invariant, with overlapping calls.
IInv == TypeOK /\ Control /\ FlagsInv /\ OrphanInv /\ BestIsSound

\* What a step may do to the status flags.
FlagsMove ==
    /\ flags' \in Status /\ Checked(flags')
    /\ \A x \in Block : "data" \in flags'[x] <=> "data" \in flags[x]
    /\ calls' = 0 => calls = 0 /\ (Blamed(flags) => Blamed(flags'))
    /\ stored' \in {stored, flags, flags'}

-----------------------------------------------------------------------------
(* The invariant of ChainProcessAlone: one call at a time.                   *)

\* The calls of the two actors do not overlap, or there has been none of the RPC server.
Alone == ~Overlap \/ calls = 0

\* Block b or a block below it is held for invalid.
Invalid(f, b) == \E a \in Chain[b] : KnownInvalid(f, a)

\* The lists of a call c that moves the best chain away from tip.
ListsOK(c, tip, f) ==
    IF c.pc \in Moves
    THEN /\ c.pc = "connected" => c.attach[1] = tip
         /\ c.pc \in {"connect", "connected"} => c.detach = <<>>
         /\ \A i \in 1..Len(c.attach) :
               /\ ~KnownInvalid(f, c.attach[i])
               /\ c.attach[i] \notin Chain[tip] \/ (i = 1 /\ c.pc = "connected")
               /\ \A j \in 1..Len(c.attach) : c.attach[i] = c.attach[j] => i = j
         /\ c.op = "invalidate" => c.attach = <<>>
    ELSE c.detach = <<>> /\ c.attach = <<>>

\* Where a call c of ProcessBlock leads.
SyncOK(c, tip, f) ==
    /\ c.pc = "best" => ~KnownInvalid(f, c.node)
    /\ c.pc \in Moves => IF c.attach # <<>> THEN c.attach[Len(c.attach)] = c.node
                         ELSE c.detach = <<>> /\ (tip = c.node \/ Invalid(f, c.node))
    /\ c.pc = "accepted" => Work[c.node] <= Work[tip] \/ Invalid(f, c.node)

\* InvalidateBlock detaches the invalid blocks of the best chain, from its tip down.
Detaching(s, tip, f) ==
    /\ \A i \in 1..Len(s) : s[i] \in Chain[tip]
    /\ \A i, j \in 1..Len(s) : i < j => Height(s[i]) > Height(s[j])
    /\ \A x \in Chain[tip] : KnownInvalid(f, x) <=> \E i \in 1..Len(s) : s[i] = x
    /\ \A y \in Chain[tip] : \A x \in Chain[y] : KnownInvalid(f, x) => KnownInvalid(f, y)

\* Nobody else leaves an invalid block on the best chain.
ChainOK(c, tip, f) ==
    IF c.pc \in Moves /\ c.op = "invalidate" THEN Detaching(c.detach, tip, f)
    ELSE \A x \in Chain[tip] : ~KnownInvalid(f, x)

\* The inductive invariant of calls that do not overlap.
AInv ==
    /\ calls = 0 => call["rpc"].pc = "idle"
    /\ Alone => /\ call["sync"].pc = "idle" \/ call["rpc"].pc = "idle"
                /\ StatusNamesDisk
                /\ \A p \in Actor : ListsOK(call[p], best, flags)
                /\ SyncOK(call["sync"], best, flags)
                /\ crashes = 0 => ChainOK(call["rpc"], best, flags)

-----------------------------------------------------------------------------
(* The invariant of ChainProcessMostWork: ProcessBlock alone.                *)

\* The blocks to detach lead down from the tip, and the blocks to attach up from
\* where they end.
Linked(c, tip) ==
    c.pc \in Moves =>
        /\ Len(c.detach) < Height(tip)
        /\ \A i \in 1..Len(c.detach) : c.detach[i] = Path[tip][Height(tip) + 1 - i]
        /\ c.attach # <<>> /\ c.pc # "connected" =>
              Parent[c.attach[1]] = Path[tip][Height(tip) - Len(c.detach)]
        /\ \A i \in 1..(Len(c.attach) - 1) : Parent[c.attach[i + 1]] = c.attach[i]

\* A block that the node knows and no validation refuses.
Sound(f, b) == "data" \in f[b] /\ Chain[b] \cap Bad = {}

\* Block b has no more work than the tip, or than the tip will have.
Reached(c, tip, b) ==
    IF c.pc \in Moves /\ c.attach # <<>> THEN Work[b] <= Work[c.node]
    ELSE Work[b] <= Work[tip] \/ (c.pc = "best" /\ b = c.node)

\* Every rule that a block can break is checked before the chain is modified.
CheckedAhead == BadPrefix \cup BadCommitment = {}

\* What MostWork adds: a sound block that has more work than the tip is the one being
\* connected, or is on the way to it.
BInv ==
    calls = 0 /\ CheckedAhead =>
        /\ Linked(call["sync"], best)
        /\ crashes = 0 =>
              \A b \in Block : Sound(flags, b) => Reached(call["sync"], best, b)

-----------------------------------------------------------------------------
(* Pieces of a step.                                                         *)

USE Zenon DEF Pcs, Ops, Flag, Actor

\* The fields of a call in progress.
LEMMA CallFields ==
    ASSUME TypeOK, NEW p \in Actor
    PROVE  /\ call[p].pc \in Pcs /\ call[p].op \in Ops /\ call[p].node \in Block \cup {None}
           /\ call[p].detach \in Seq(Block) /\ call[p].attach \in Seq(Block)
           /\ call[p].queue \in Seq(Block)
BY DEF TypeOK, Call

\* A block whose scripts were checked is marked as valid.
LEMMA ValidFlag ==
    ASSUME NEW f \in Status, NEW b \in Block, NEW g, g = SetStatusFlags(f, {b}, "valid"),
           Checked(f), b \notin BadScript
    PROVE  /\ g \in Status /\ Checked(g) /\ (Blamed(f) => Blamed(g))
           /\ \A x \in Block : "data" \in g[x] <=> "data" \in f[x]
           /\ \A x \in Block : KnownInvalid(g, x) <=> KnownInvalid(f, x)
<1>1. g \in Status /\ g[b] = f[b] \cup {"valid"} /\ \A y \in Block \ {b} : g[y] = f[y]
  BY DEF SetStatusFlags, Status
<1>2. \A x \in Block : KnownInvalid(g, x) <=> KnownInvalid(f, x)
  BY <1>1 DEF KnownInvalid
<1>3. Checked(g)
  BY <1>1 DEF Checked, KnownValid
<1>4. Blamed(f) => Blamed(g)
  BY <1>2 DEF Blamed
<1> QED  BY <1>1, <1>2, <1>3, <1>4, ZenonT(40)

\* A block that breaks a rule is marked as failed.
LEMMA FailedFlag ==
    ASSUME NEW f \in Status, NEW b \in Block, NEW g, g = SetStatusFlags(f, {b}, "failed"),
           Checked(f), b \in Bad
    PROVE  /\ g \in Status /\ Checked(g) /\ (Blamed(f) => Blamed(g))
           /\ \A x \in Block : "data" \in g[x] <=> "data" \in f[x]
           /\ \A x \in Block : KnownInvalid(g, x) <=> KnownInvalid(f, x) \/ x = b
<1>1. g \in Status /\ g[b] = f[b] \cup {"failed"} /\ \A y \in Block \ {b} : g[y] = f[y]
  BY DEF SetStatusFlags, Status
<1>2. \A x \in Block : KnownInvalid(g, x) <=> KnownInvalid(f, x) \/ x = b
  BY <1>1 DEF KnownInvalid
<1>3. Chain[b] \cap Bad # {}
  BY ChainElements
<1>4. Checked(g)
  BY <1>1, SMT DEF Checked, KnownValid
<1>5. Blamed(f) => Blamed(g)
  BY <1>2, <1>3 DEF Blamed
<1> QED  BY <1>1, <1>2, <1>4, <1>5, SMT

\* A block with more work than the best tip is not on the best chain.
LEMMA HeavierIsOff ==
    ASSUME best \in Block, NEW b \in Block, Work[b] > Work[best]
    PROVE  b \notin Chain[best]
<1>1. Work[b] \in Nat /\ Work[best] \in Nat
  BY ChainAssumption
<1> QED  BY <1>1, WorkGrows, SMT

\* A step of the reorganization of p that keeps its lists.
LEMMA MoveOn ==
    ASSUME IInv, NEW p \in Actor, NEW pc \in Moves, NEW c,
           c = [call[p] EXCEPT !.pc = pc]
    PROVE  /\ c \in Call /\ c.pc = pc /\ c.node = call[p].node /\ c.queue = call[p].queue
           /\ c.op = call[p].op /\ c.detach = call[p].detach /\ c.attach = call[p].attach
BY DEF IInv, TypeOK, Call, Moves

\* The tips that InvalidateBlock chooses from.
LEMMA BestTipsType ==
    ASSUME TypeOK, NEW t \in BestTips
    PROVE  /\ t \in Block /\ ~KnownInvalid(flags, t)
           /\ t # best => t \notin Chain[best]
BY DEF BestTips, InactiveTips, TypeOK

\* What InvalidateBlock does to the flags.
LEMMA Invalidation ==
    ASSUME NEW f \in Status, NEW b \in Block, NEW S \in SUBSET Block, NEW g,
           g = UnsetStatusFlags(SetStatusFlags(SetStatusFlags(f, {b}, "failed"), S, "ancestor"),
                                S \cup {b}, {"valid"}),
           Checked(f)
    PROVE  /\ g \in Status /\ Checked(g)
           /\ \A x \in Block : "data" \in g[x] <=> "data" \in f[x]
           /\ \A x \in Block : KnownInvalid(g, x) <=> KnownInvalid(f, x) \/ x = b \/ x \in S
<1> DEFINE f1 == SetStatusFlags(f, {b}, "failed")
           f2 == SetStatusFlags(f1, S, "ancestor")
<1>1. f1 \in Status /\ \A x \in Block : f1[x] = IF x = b THEN f[x] \cup {"failed"} ELSE f[x]
  BY DEF SetStatusFlags, Status
<1> HIDE DEF f1
<1>2. f2 \in Status /\ \A x \in Block : f2[x] = IF x \in S THEN f1[x] \cup {"ancestor"} ELSE f1[x]
  BY <1>1 DEF SetStatusFlags, Status
<1> HIDE DEF f2
<1>3. g \in Status /\ \A x \in Block : g[x] = IF x \in S \cup {b} THEN f2[x] \ {"valid"} ELSE f2[x]
  BY <1>2 DEF UnsetStatusFlags, Status, f1, f2
<1>4. \A x \in Block : /\ "data" \in g[x] <=> "data" \in f[x]
                       /\ "valid" \in g[x] => "valid" \in f[x]
                       /\ "failed" \in g[x] <=> "failed" \in f[x] \/ x = b
                       /\ "ancestor" \in g[x] <=> "ancestor" \in f[x] \/ x \in S
  <2> TAKE x \in Block
  <2>1. f1[x] = IF x = b THEN f[x] \cup {"failed"} ELSE f[x]
    BY <1>1
  <2>2. f2[x] = IF x \in S THEN f1[x] \cup {"ancestor"} ELSE f1[x]
    BY <1>2
  <2>3. g[x] = IF x \in S \cup {b} THEN f2[x] \ {"valid"} ELSE f2[x]
    BY <1>3
  <2>4. "data" \in g[x] <=> "data" \in f[x]
    BY <2>1, <2>2, <2>3, SMT
  <2>5. "valid" \in g[x] => "valid" \in f[x]
    BY <2>1, <2>2, <2>3
  <2>6. "failed" \in g[x] <=> "failed" \in f[x] \/ x = b
    BY <2>1, <2>2, <2>3, SMT
  <2>7. "ancestor" \in g[x] <=> "ancestor" \in f[x] \/ x \in S
    BY <2>1, <2>2, <2>3, SMT
  <2> QED  BY <2>4, <2>5, <2>6, <2>7
<1>5. \A x \in Block : KnownInvalid(g, x) <=> KnownInvalid(f, x) \/ x = b \/ x \in S
  BY <1>4 DEF KnownInvalid
<1>6. Checked(g)
  BY <1>4 DEF Checked, KnownValid
<1> QED  BY <1>3, <1>4, <1>5, <1>6

\* The blocks of a list from the tip down.
LEMMA FromTheTipType ==
    ASSUME NEW S \in SUBSET Block, NEW s \in FromTheTip(S)
    PROVE  s \in Seq(Block) /\ \A i \in 1..Len(s) : s[i] \in S
<1>1. PICK n \in 1..Len(Path[best]) : s \in [1..n -> S]
  BY DEF FromTheTip
<1>2. n \in Nat
  BY <1>1, SMT
<1> QED  BY <1>1, <1>2, SMT

\* What ReconsiderBlock does to the flags.
LEMMA Reconsideration ==
    ASSUME NEW f \in Status, NEW b \in Block, NEW S \in SUBSET Block, NEW g,
           g = UnsetStatusFlags(UnsetStatusFlags(f, {b}, {"ancestor", "failed"}), S, {"ancestor"}),
           Checked(f)
    PROVE  /\ g \in Status /\ Checked(g)
           /\ \A x \in Block : "data" \in g[x] <=> "data" \in f[x]
           /\ \A x \in Block : KnownInvalid(g, x) => KnownInvalid(f, x)
<1> DEFINE f1 == UnsetStatusFlags(f, {b}, {"ancestor", "failed"})
<1>1. f1 \in Status /\ \A x \in Block : f1[x] = IF x = b THEN f[x] \ {"ancestor", "failed"} ELSE f[x]
  BY DEF UnsetStatusFlags, Status
<1> HIDE DEF f1
<1>2. g \in Status /\ \A x \in Block : g[x] = IF x \in S THEN f1[x] \ {"ancestor"} ELSE f1[x]
  BY <1>1 DEF UnsetStatusFlags, Status, f1
<1>3. \A x \in Block : /\ "data" \in g[x] <=> "data" \in f[x]
                       /\ "valid" \in g[x] <=> "valid" \in f[x]
                       /\ "failed" \in g[x] => "failed" \in f[x]
                       /\ "ancestor" \in g[x] => "ancestor" \in f[x]
  BY <1>1, <1>2
<1>4. \A x \in Block : KnownInvalid(g, x) => KnownInvalid(f, x)
  BY <1>3 DEF KnownInvalid
<1>5. Checked(g)
  BY <1>3 DEF Checked, KnownValid
<1> QED  BY <1>2, <1>3, <1>4, <1>5

\* The branch of a block off the best chain ends with it, has no block twice and none
\* of the best chain.
LEMMA BranchOff ==
    ASSUME best \in Block, NEW b \in Block, b \notin Chain[best]
    PROVE  /\ Branch(b) # <<>> /\ Branch(b)[Len(Branch(b))] = b
           /\ \A i, j \in 1..Len(Branch(b)) : Branch(b)[i] = Branch(b)[j] => i = j
           /\ \A i \in 1..Len(Branch(b)) : Branch(b)[i] \notin Chain[best]
<1> DEFINE k == Fork(b)  n == Height(b)  s == Branch(b)
<1>1. /\ n \in Nat \ {0} /\ Path[b][n] = b /\ k \in 1..n
      /\ s \in Seq(Block) /\ Len(s) = n - k
      /\ \A i \in 1..Len(s) : s[i] = Path[b][k + i] /\ k + i \in 2..n /\ s[i] \notin Chain[best]
  BY BranchElements, ForkIsShared, PathType
<1>2. k < n
  <2>1. n \in 1..n
    BY <1>1, SMT
  <2>2. ~(n <= k)
    BY <1>1, <2>1, ForkIsShared, SMT
  <2> QED  BY <1>1, <2>2, SMT
<1>3. \A i \in 1..n : Height(Path[b][i]) = i
  BY PathPrefix
<1> HIDE DEF k, n, s
<1>4. s # <<>> /\ Len(s) \in 1..Len(s) /\ k + Len(s) = n
  BY <1>1, <1>2, SMT
<1>5. s[Len(s)] = b
  BY <1>1, <1>4
<1>6. ASSUME NEW i \in 1..Len(s), NEW j \in 1..Len(s), s[i] = s[j]
      PROVE  i = j
  <2>1. k + i \in 1..n /\ k + j \in 1..n
    BY <1>1, SMT
  <2>2. k + i = k + j
    BY <1>1, <1>3, <1>6, <2>1
  <2> QED  BY <1>1, <2>2, SMT
<1> QED  BY <1>1, <1>4, <1>5, <1>6 DEF s

\* The record of no call.
LEMMA IdleCall == Idle \in Call /\ Idle.pc = "idle" /\ Idle.detach = <<>> /\ Idle.attach = <<>>
<1>1. <<>> \in Seq(Block)
  BY SMT
<1> QED  BY <1>1 DEF Idle, Call
=============================================================================
