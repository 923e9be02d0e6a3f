------------------------ MODULE ReapValidationProofs ------------------------
(***************************************************************************)
(* What holds of REAP validation for every set of outputs, every limit and *)
(* every tax: a block that passes takes the oldest expired outputs first,  *)
(* within its limits, and pays the owners their share; and the transaction *)
(* that the miner builds from the same candidates passes.                  *)
(***************************************************************************)
EXTENDS ReapValidation, FiniteSetTheorems, TLAPS

USE Zenon

-----------------------------------------------------------------------------
(* Sums over finite sets, and sequences in order.                            *)

\* A set of natural numbers has a least element.
LEMMA LeastNumber ==
    ASSUME NEW S \in SUBSET Nat, S # {}
    PROVE  \E n \in S : \A m \in S : n <= m
<1> DEFINE R == {x \in Nat \X Nat : x[1] < x[2]}
<1>1. IsWellFoundedOn(R, Nat)
  BY NatLessThanWellFounded, Zenon DEF OpToRel
<1> HIDE DEF R
<1>2. PICK n \in S : \A m \in S : ~(<<m, n>> \in R)
  BY <1>1, WFMin, Zenon
<1>3. \A m \in S : ~(m < n)
  BY <1>2 DEF R
<1> QED  BY <1>3, SMT

\* Among subsets of a finite set one is smallest.
LEMMA SmallestSet ==
    ASSUME NEW S, IsFiniteSet(S), NEW D \in SUBSET SUBSET S, D # {}
    PROVE  \E T \in D : \A U \in SUBSET T : U \in D => U = T
<1> DEFINE N == {Cardinality(T) : T \in D}
<1>1. \A T \in SUBSET S : IsFiniteSet(T) /\ Cardinality(T) \in Nat
  BY FS_Subset, FS_CardinalityType
<1>2. N \in SUBSET Nat /\ N # {}
  BY <1>1
<1>3. PICK n \in N : \A m \in N : n <= m
  BY <1>2, LeastNumber
<1>4. PICK T \in D : Cardinality(T) = n
  BY <1>3
<1>5. ASSUME NEW U \in SUBSET T, U \in D PROVE U = T
  <2>1. Cardinality(T) <= Cardinality(U)
    BY <1>3, <1>4, <1>5
  <2>2. IsFiniteSet(T) /\ Cardinality(U) <= Cardinality(T)
    BY <1>1, <1>5, FS_Subset
  <2>3. Cardinality(T) = Cardinality(U)
    BY <1>1, <2>1, <2>2, SMT
  <2> QED  BY <2>2, <2>3, FS_Subset
<1> QED  BY <1>5

\* The element of a set that a sum takes out first.
Some(s) == CHOOSE x \in s : TRUE

\* The element that a sum takes next.
LEMMA SomeIn == ASSUME NEW s, s # {} PROVE Some(s) \in s
  BY DEF Some

\* g adds up f over every subset of S.
IsSum(g, f, S) ==
    g = [s \in SUBSET S |-> IF s = {} THEN 0 ELSE f[Some(s)] + g[s \ {Some(s)}]]

\* What the community module's sum is: the value of a function that sums up every subset.
LEMMA SumIsChosen ==
    ASSUME NEW f, NEW S
    PROVE  SumFunctionOnSet(f, S) = (CHOOSE g : IsSum(g, f, S))[S]
  BY Zenon DEF SumFunctionOnSet, FoldFunctionOnSet, MapThenFoldSet, IsSum, Some

\* Such a function, one element at a time.
LEMMA SumUnfolds ==
    ASSUME NEW f, NEW S, NEW g, IsSum(g, f, S), NEW s \in SUBSET S
    PROVE  g[s] = IF s = {} THEN 0 ELSE f[Some(s)] + g[s \ {Some(s)}]
  BY Zenon DEF IsSum

\* Two such functions agree on a finite set.
LEMMA SumUnique ==
    ASSUME NEW f, NEW S, IsFiniteSet(S), NEW T \in SUBSET S,
           NEW g, IsSum(g, f, S), NEW h, IsSum(h, f, T)
    PROVE  g[T] = h[T]
<1> DEFINE D == {s \in SUBSET T : g[s] # h[s]}
<1>1. SUFFICES ASSUME D # {} PROVE FALSE
  OBVIOUS
<1>2. IsFiniteSet(T)
  BY FS_Subset
<1>a. D \in SUBSET SUBSET T
  OBVIOUS
<1> HIDE DEF D
<1>3. PICK s \in D : \A u \in SUBSET s : u \in D => u = s
  BY <1>1, <1>2, <1>a, SmallestSet, SMT
<1> USE DEF D
<1>4. s \in SUBSET T /\ s \in SUBSET S /\ g[s] # h[s]
  BY <1>3
<1>5. CASE s = {}
  BY <1>4, <1>5, SumUnfolds
<1>6. CASE s # {}
  <2> DEFINE u == s \ {Some(s)}
  <2>1. Some(s) \in s
    BY <1>6, SomeIn
  <2>2. u \in SUBSET s /\ u # s /\ u \in SUBSET T
    BY <2>1, <1>4
  <2>3. g[u] = h[u]
    BY <2>2, <1>3
  <2>4. g[s] = f[Some(s)] + g[u] /\ h[s] = f[Some(s)] + h[u]
    BY <1>4, <1>6, SumUnfolds, SMT
  <2> QED  BY <2>3, <2>4, <1>4
<1> QED  BY <1>5, <1>6

\* There is one for every finite set.
LEMMA SumExists ==
    ASSUME NEW f, NEW S, IsFiniteSet(S)
    PROVE  \E g : IsSum(g, f, S)
<1> DEFINE D == {s \in SUBSET S : ~\E g : IsSum(g, f, s)}
<1>1. SUFFICES ASSUME D # {} PROVE FALSE
  OBVIOUS
<1>a. D \in SUBSET SUBSET S
  OBVIOUS
<1> HIDE DEF D
<1>2. PICK T \in D : \A u \in SUBSET T : u \in D => u = T
  BY <1>1, <1>a, SmallestSet, SMT
<1> USE DEF D
<1>3. T \in SUBSET S /\ IsFiniteSet(T) /\ \A g : ~IsSum(g, f, T)
  BY <1>2, FS_Subset
<1> DEFINE H(s) == CHOOSE g : IsSum(g, f, s)
           G == [s \in SUBSET T |-> IF s = {} THEN 0 ELSE f[Some(s)] + H(s \ {Some(s)})[s \ {Some(s)}]]
<1>4. ASSUME NEW u \in SUBSET T, u # T PROVE IsSum(H(u), f, u) /\ IsFiniteSet(u)
  <2>1. \E g : IsSum(g, f, u)
    BY <1>2, <1>3, <1>4
  <2> QED  BY <2>1, <1>3, <1>4, FS_Subset
<1> HIDE DEF H
<1>5. ASSUME NEW u \in SUBSET T, u # T PROVE G[u] = H(u)[u]
  <2>1. IsSum(H(u), f, u) /\ IsFiniteSet(u)
    BY <1>4, <1>5
  <2>2. CASE u = {}
    BY <2>1, <2>2, SumUnfolds
  <2>3. CASE u # {}
    <3> DEFINE v == u \ {Some(u)}
    <3>1. v \in SUBSET u /\ v # T /\ v \in SUBSET T
      BY <1>5, <2>3, SomeIn
    <3>2. IsSum(H(v), f, v)
      BY <3>1, <1>4
    <3> HIDE DEF v
    <3>3. H(u)[v] = H(v)[v]
      BY <2>1, <3>1, <3>2, SumUnique, SMT
    <3> USE DEF v
    <3>4. H(u)[u] = f[Some(u)] + H(u)[v]
      BY <2>1, <2>3, SumUnfolds, SMT
    <3>5. G[u] = f[Some(u)] + H(v)[v]
      BY <2>3
    <3> QED  BY <3>3, <3>4, <3>5
  <2> QED  BY <2>2, <2>3
<1>6. ASSUME NEW s \in SUBSET T PROVE G[s] = IF s = {} THEN 0 ELSE f[Some(s)] + G[s \ {Some(s)}]
  <2>1. CASE s # {}
    <3>1. s \ {Some(s)} \in SUBSET T /\ s \ {Some(s)} # T
      BY <2>1, <1>6, SomeIn
    <3>2. G[s \ {Some(s)}] = H(s \ {Some(s)})[s \ {Some(s)}]
      BY <3>1, <1>5
    <3> QED  BY <2>1, <3>2
  <2> QED  BY <2>1
<1>7. G = [s \in SUBSET T |-> IF s = {} THEN 0 ELSE f[Some(s)] + G[s \ {Some(s)}]]
  BY <1>6
<1>8. IsSum(G, f, T)
  BY <1>7, Zenon DEF IsSum
<1> QED  BY <1>3, <1>8

\* A sum is the first summand and the sum of the rest.
LEMMA SumFirst ==
    ASSUME NEW f, NEW S, IsFiniteSet(S)
    PROVE  /\ SumFunctionOnSet(f, {}) = 0
           /\ S # {} => SumFunctionOnSet(f, S) =
                           f[Some(S)] + SumFunctionOnSet(f, S \ {Some(S)})
<1> DEFINE H(s) == CHOOSE g : IsSum(g, f, s)
<1>1. \A s : IsFiniteSet(s) => IsSum(H(s), f, s)
  BY SumExists
<1>2. \A s : SumFunctionOnSet(f, s) = H(s)[s]
  BY SumIsChosen
<1> HIDE DEF H
<1>3. SumFunctionOnSet(f, {}) = 0
  <2>1. IsSum(H({}), f, {})
    BY <1>1, FS_EmptySet
  <2>2. H({})[{}] = 0
    BY <2>1, SumUnfolds
  <2> QED  BY <1>2, <2>2
<1>4. ASSUME S # {} PROVE SumFunctionOnSet(f, S) = f[Some(S)] + SumFunctionOnSet(f, S \ {Some(S)})
  <2> DEFINE T == S \ {Some(S)}
  <2>1. T \in SUBSET S /\ IsFiniteSet(T)
    BY FS_Subset
  <2>2. IsSum(H(S), f, S) /\ IsSum(H(T), f, T)
    BY <1>1, <2>1
  <2>3. H(S)[S] = f[Some(S)] + H(S)[T]
    BY <1>4, <2>2, SumUnfolds, SMT
  <2> HIDE DEF T
  <2>4. H(S)[T] = H(T)[T]
    BY <2>1, <2>2, SumUnique, SMT
  <2>5. SumFunctionOnSet(f, S) = f[Some(S)] + SumFunctionOnSet(f, T)
    BY <1>2, <2>3, <2>4
  <2> QED  BY <2>5 DEF T
<1> QED  BY <1>3, <1>4

\* A sum over no elements is 0.
LEMMA SumEmpty ==
    ASSUME NEW f
    PROVE  SumFunctionOnSet(f, {}) = 0
  BY SumFirst, FS_EmptySet

\* f takes integers to the elements of S.
Numbers(f, S) == \A x \in S : f[x] \in Int

\* A sum of integers is an integer.
LEMMA SumType ==
    ASSUME NEW f, NEW S, IsFiniteSet(S), Numbers(f, S)
    PROVE  SumFunctionOnSet(f, S) \in Int
<1> DEFINE D == {s \in SUBSET S : SumFunctionOnSet(f, s) \notin Int}
<1>1. SUFFICES ASSUME D # {} PROVE FALSE
  OBVIOUS
<1>2. D \in SUBSET SUBSET S
  OBVIOUS
<1> HIDE DEF D
<1>3. PICK T \in D : \A u \in SUBSET T : u \in D => u = T
  BY <1>1, <1>2, SmallestSet, SMT
<1>4. T \in SUBSET S /\ SumFunctionOnSet(f, T) \notin Int
  BY <1>3 DEF D
<1>5. IsFiniteSet(T)
  BY <1>4, FS_Subset
<1>6. T # {}
  BY <1>4, SumEmpty, SMT
<1>7. Some(T) \in T /\ T \ {Some(T)} \in SUBSET T /\ T \ {Some(T)} # T
  BY <1>6, SomeIn
<1>8. SumFunctionOnSet(f, T \ {Some(T)}) \in Int
  BY <1>3, <1>4, <1>7, SMT DEF D
<1>9. SumFunctionOnSet(f, T) = f[Some(T)] + SumFunctionOnSet(f, T \ {Some(T)})
  BY <1>5, <1>6, SumFirst
<1> QED  BY <1>4, <1>7, <1>8, <1>9, SMT DEF Numbers

\* Any summand may be the first.
LEMMA SumRemove ==
    ASSUME NEW f, NEW S, IsFiniteSet(S), Numbers(f, S), NEW a \in S
    PROVE  SumFunctionOnSet(f, S) = f[a] + SumFunctionOnSet(f, S \ {a})
<1> DEFINE Sum(s) == SumFunctionOnSet(f, s)
           D == {s \in SUBSET S : \E x \in s : Sum(s) # f[x] + Sum(s \ {x})}
<1>1. SUFFICES ASSUME D # {} PROVE FALSE
  OBVIOUS
<1>2. D \in SUBSET SUBSET S
  OBVIOUS
<1>3. ASSUME NEW s \in SUBSET S PROVE IsFiniteSet(s) /\ Sum(s) \in Int
  <2>1. IsFiniteSet(s) /\ Numbers(f, s)
    BY <1>3, FS_Subset DEF Numbers
  <2> QED  BY <2>1, SumType
<1>4. \A s \in SUBSET S : s # {} => Sum(s) = f[Some(s)] + Sum(s \ {Some(s)}) /\ Some(s) \in s
  BY <1>3, SumFirst, SomeIn
<1> HIDE DEF D, Sum
<1>5. PICK T \in D : \A u \in SUBSET T : u \in D => u = T
  BY <1>1, <1>2, SmallestSet, SMT
<1>6. PICK x \in T : Sum(T) # f[x] + Sum(T \ {x})
  BY <1>5 DEF D
<1>7. T \in SUBSET S
  BY <1>2, <1>5
<1> DEFINE y == Some(T)
           u == T \ {y}
           v == T \ {x}
           w == (T \ {x}) \ {y}
<1>8. y \in T /\ Sum(T) = f[y] + Sum(u)
  BY <1>4, <1>6, <1>7
<1>9. y # x
  BY <1>6, <1>8
<1> HIDE DEF y
<1>10. /\ u \in SUBSET S /\ u # T /\ u \in SUBSET T /\ x \in u /\ u \ {x} = w
       /\ v \in SUBSET S /\ v # T /\ v \in SUBSET T /\ y \in v /\ v \ {y} = w
       /\ w \in SUBSET S
  BY <1>6, <1>7, <1>8, <1>9
<1> HIDE DEF u, v, w
<1>11. \A s \in SUBSET S : s \notin D => \A z \in s : Sum(s) = f[z] + Sum(s \ {z})
  BY DEF D
<1>12. Sum(u) = f[x] + Sum(w) /\ Sum(v) = f[y] + Sum(w)
  BY <1>5, <1>10, <1>11, SMT
<1>13. f[x] \in Int /\ f[y] \in Int /\ Sum(w) \in Int
  BY <1>3, <1>6, <1>7, <1>8, <1>10 DEF Numbers
<1>14. Sum(T) = f[x] + Sum(v)
  BY <1>8, <1>12, <1>13, SMT
<1> QED  BY <1>6, <1>14 DEF v

\* A sum over one more element.
LEMMA SumAdd ==
    ASSUME NEW f, NEW S, IsFiniteSet(S), NEW a, a \notin S, Numbers(f, S \cup {a})
    PROVE  SumFunctionOnSet(f, S \cup {a}) = f[a] + SumFunctionOnSet(f, S)
<1>1. IsFiniteSet(S \cup {a}) /\ a \in S \cup {a} /\ (S \cup {a}) \ {a} = S
  BY FS_AddElement
<1> DEFINE T == S \cup {a}
<1> HIDE DEF T
<1>2. SumFunctionOnSet(f, T) = f[a] + SumFunctionOnSet(f, T \ {a})
  BY <1>1, SumRemove, SMT DEF T
<1> QED  BY <1>1, <1>2 DEF T

(***************************************************************************)
(* What two sums over the same set have to do with each other is shown on  *)
(* a smallest set where it fails: take one element away.                   *)
(***************************************************************************)

\* A sum of smaller numbers is no larger.
LEMMA SumSmaller ==
    ASSUME NEW f, NEW g, NEW S, IsFiniteSet(S), Numbers(f, S), Numbers(g, S),
           \A x \in S : f[x] <= g[x]
    PROVE  SumFunctionOnSet(f, S) <= SumFunctionOnSet(g, S)
<1> DEFINE F(s) == SumFunctionOnSet(f, s)
           G(s) == SumFunctionOnSet(g, s)
           D == {s \in SUBSET S : ~(F(s) <= G(s))}
<1>1. SUFFICES ASSUME D # {} PROVE FALSE
  OBVIOUS
<1>2. D \in SUBSET SUBSET S
  OBVIOUS
<1> HIDE DEF D
<1>3. PICK T \in D : \A u \in SUBSET T : u \in D => u = T
  BY <1>1, <1>2, SmallestSet, SMT
<1>4. T \in SUBSET S /\ ~(F(T) <= G(T))
  BY <1>3 DEF D
<1>5. IsFiniteSet(T) /\ Numbers(f, T) /\ Numbers(g, T)
  BY <1>4, FS_Subset DEF Numbers
<1>6. T # {}
  BY <1>4, SumEmpty, SMT
<1>7. PICK x \in T : TRUE
  BY <1>6
<1> DEFINE u == T \ {x}
<1>8. F(T) = f[x] + F(u) /\ G(T) = g[x] + G(u)
  BY <1>5, SumRemove, SMT
<1>9. u \in SUBSET T /\ u # T /\ u \in SUBSET S /\ IsFiniteSet(u) /\ Numbers(f, u) /\ Numbers(g, u)
  BY <1>4, <1>5, FS_Subset DEF Numbers
<1> HIDE DEF u
<1>10. F(u) <= G(u)
  BY <1>3, <1>9 DEF D
<1>11. F(u) \in Int /\ G(u) \in Int
  BY <1>9, SumType
<1>12. f[x] \in Int /\ g[x] \in Int /\ f[x] <= g[x]
  BY <1>4 DEF Numbers
<1> QED  BY <1>4, <1>8, <1>10, <1>11, <1>12, SMT

\* A sum depends on the values only.
LEMMA SumSame ==
    ASSUME NEW f, NEW g, NEW S, IsFiniteSet(S), Numbers(f, S),
           \A x \in S : f[x] = g[x]
    PROVE  SumFunctionOnSet(f, S) = SumFunctionOnSet(g, S)
<1>1. Numbers(g, S) /\ (\A x \in S : f[x] <= g[x]) /\ (\A x \in S : g[x] <= f[x])
  BY SMT DEF Numbers
<1>2. SumFunctionOnSet(f, S) <= SumFunctionOnSet(g, S)
  BY <1>1, SumSmaller
<1>3. SumFunctionOnSet(g, S) <= SumFunctionOnSet(f, S)
  BY <1>1, SumSmaller
<1>4. SumFunctionOnSet(g, S) \in Int /\ SumFunctionOnSet(f, S) \in Int
  BY <1>1, SumType
<1> QED  BY <1>2, <1>3, <1>4, SMT

\* A sum of zeros is 0.
LEMMA SumZero ==
    ASSUME NEW f, NEW S, IsFiniteSet(S), \A x \in S : f[x] = 0
    PROVE  SumFunctionOnSet(f, S) = 0
<1> DEFINE D == {s \in SUBSET S : SumFunctionOnSet(f, s) # 0}
<1>1. SUFFICES ASSUME D # {} PROVE FALSE
  OBVIOUS
<1>2. D \in SUBSET SUBSET S
  OBVIOUS
<1> HIDE DEF D
<1>3. PICK T \in D : \A u \in SUBSET T : u \in D => u = T
  BY <1>1, <1>2, SmallestSet, SMT
<1>4. T \in SUBSET S /\ SumFunctionOnSet(f, T) # 0
  BY <1>3 DEF D
<1>5. IsFiniteSet(T)
  BY <1>4, FS_Subset
<1>6. T # {}
  BY <1>4, SumEmpty
<1>7. Some(T) \in T /\ T \ {Some(T)} \in SUBSET T /\ T \ {Some(T)} # T
  BY <1>6, SomeIn
<1>8. SumFunctionOnSet(f, T \ {Some(T)}) = 0
  BY <1>3, <1>4, <1>7, SMT DEF D
<1>9. SumFunctionOnSet(f, T) = f[Some(T)] + SumFunctionOnSet(f, T \ {Some(T)})
  BY <1>5, <1>6, SumFirst
<1> QED  BY <1>4, <1>7, <1>8, <1>9, SMT

\* The sum over two disjoint sets.
LEMMA SumDisjoint ==
    ASSUME NEW f, NEW S, NEW R, IsFiniteSet(S), IsFiniteSet(R), S \cap R = {},
           Numbers(f, S), Numbers(f, R)
    PROVE  SumFunctionOnSet(f, S \cup R) = SumFunctionOnSet(f, S) + SumFunctionOnSet(f, R)
<1> DEFINE Sum(s) == SumFunctionOnSet(f, s)
           D == {s \in SUBSET R : Sum(S \cup s) # Sum(S) + Sum(s)}
<1>1. SUFFICES ASSUME D # {} PROVE FALSE
  OBVIOUS
<1>2. D \in SUBSET SUBSET R
  OBVIOUS
<1> HIDE DEF D
<1>3. PICK T \in D : \A u \in SUBSET T : u \in D => u = T
  BY <1>1, <1>2, SmallestSet
<1>4. T \in SUBSET R /\ Sum(S \cup T) # Sum(S) + Sum(T)
  BY <1>3 DEF D
<1>5. IsFiniteSet(T) /\ Numbers(f, T) /\ Sum(S) \in Int
  BY <1>4, FS_Subset, SumType DEF Numbers
<1>6. T # {}
  <2>1. SUFFICES ASSUME T = {} PROVE FALSE
    OBVIOUS
  <2>2. S \cup T = S /\ Sum(T) = 0
    BY <2>1, SumEmpty
  <2> HIDE DEF Sum
  <2>3. Sum(S \cup T) = Sum(S)
    BY <2>2, Zenon
  <2>4. Sum(S) + Sum(T) = Sum(S)
    BY <1>5, <2>2, SMT
  <2> QED  BY <1>4, <2>3, <2>4, Zenon
<1>7. PICK x \in T : TRUE
  BY <1>6
<1> DEFINE u == T \ {x}
           v == S \cup u
<1>8. u \in SUBSET T /\ u # T /\ u \in SUBSET R /\ IsFiniteSet(u) /\ Numbers(f, u)
  BY <1>4, <1>5, FS_Subset DEF Numbers
<1>9. x \notin v /\ S \cup T = v \cup {x} /\ Numbers(f, v \cup {x})
  BY <1>4, <1>5 DEF Numbers
<1>10. IsFiniteSet(v)
  BY <1>8, FS_Union
<1> HIDE DEF u, v
<1>11. Sum(v \cup {x}) = f[x] + Sum(v)
  BY <1>9, <1>10, SumAdd
<1>12. Sum(v) = Sum(S) + Sum(u)
  BY <1>3, <1>8 DEF D, v
<1>13. Sum(T) = f[x] + Sum(u)
  BY <1>5, SumRemove, SMT DEF u
<1>14. f[x] \in Int /\ Sum(u) \in Int
  BY <1>5, <1>8, SumType DEF Numbers
<1> HIDE DEF Sum
<1>15. Sum(S \cup T) = f[x] + (Sum(S) + Sum(u))
  BY <1>9, <1>11, <1>12
<1> QED  BY <1>4, <1>5, <1>13, <1>14, <1>15, SMT

\* More summands that are not negative make a larger sum.
LEMMA SumSubset ==
    ASSUME NEW f, NEW S, IsFiniteSet(S), NEW T \in SUBSET S, \A x \in S : f[x] \in Nat
    PROVE  /\ SumFunctionOnSet(f, T) <= SumFunctionOnSet(f, S)
           /\ SumFunctionOnSet(f, T) \in Nat
           /\ (\A x \in S \ T : f[x] = 0) => SumFunctionOnSet(f, T) = SumFunctionOnSet(f, S)
<1> DEFINE z == [x \in S |-> 0]
           R == S \ T
<1>1. /\ IsFiniteSet(T) /\ IsFiniteSet(R) /\ Numbers(f, T) /\ Numbers(f, R)
      /\ T \cap R = {} /\ T \cup R = S
  BY FS_Subset, SMT DEF Numbers
<1>2. /\ Numbers(z, T) /\ Numbers(z, R)
      /\ \A x \in T : z[x] = 0 /\ z[x] <= f[x]
      /\ \A x \in R : z[x] = 0 /\ z[x] <= f[x]
  BY SMT DEF Numbers
<1> HIDE DEF z
<1>3. SumFunctionOnSet(z, T) = 0 /\ SumFunctionOnSet(z, R) = 0
  BY <1>1, <1>2, SumZero
<1>4. SumFunctionOnSet(z, T) <= SumFunctionOnSet(f, T) /\ SumFunctionOnSet(z, R) <= SumFunctionOnSet(f, R)
  BY <1>1, <1>2, SumSmaller
<1>5. SumFunctionOnSet(f, T) \in Int /\ SumFunctionOnSet(f, R) \in Int
  BY <1>1, SumType
<1>6. SumFunctionOnSet(f, T \cup R) = SumFunctionOnSet(f, T) + SumFunctionOnSet(f, R)
  BY <1>1, SumDisjoint
<1>7. SumFunctionOnSet(f, S) = SumFunctionOnSet(f, T) + SumFunctionOnSet(f, R)
  BY <1>1, <1>6
<1>8. (\A x \in R : f[x] = 0) => SumFunctionOnSet(f, R) = 0
  BY <1>1, SumZero
<1> QED  BY <1>3, <1>4, <1>5, <1>7, <1>8, SMT

\* The summands may be named in another way.
LEMMA SumRenamed ==
    ASSUME NEW f, NEW g, NEW h, NEW S, IsFiniteSet(S), Numbers(f, S),
           \A x, y \in S : h[x] = h[y] => x = y,
           \A x \in S : f[x] = g[h[x]]
    PROVE  SumFunctionOnSet(f, S) = SumFunctionOnSet(g, {h[x] : x \in S})
<1> DEFINE F(s) == SumFunctionOnSet(f, s)
           H(s) == {h[x] : x \in s}
           D == {s \in SUBSET S : ~(IsFiniteSet(H(s)) /\ F(s) = SumFunctionOnSet(g, H(s)))}
<1>1. SUFFICES ASSUME D # {} PROVE FALSE
  OBVIOUS
<1>2. D \in SUBSET SUBSET S
  OBVIOUS
<1> HIDE DEF D
<1>3. PICK T \in D : \A u \in SUBSET T : u \in D => u = T
  BY <1>1, <1>2, SmallestSet, SMT
<1>4. T \in SUBSET S /\ ~(IsFiniteSet(H(T)) /\ F(T) = SumFunctionOnSet(g, H(T)))
  BY <1>3 DEF D
<1>5. IsFiniteSet(T) /\ Numbers(f, T)
  BY <1>4, FS_Subset DEF Numbers
<1>6. T # {}
  <2>1. SUFFICES ASSUME T = {} PROVE FALSE
    OBVIOUS
  <2>2. H(T) = {}
    BY <2>1
  <2>3. IsFiniteSet({}) /\ F({}) = 0 /\ SumFunctionOnSet(g, {}) = 0
    BY SumEmpty, FS_EmptySet
  <2> QED  BY <1>4, <2>1, <2>2, <2>3
<1>7. PICK x \in T : TRUE
  BY <1>6
<1> DEFINE u == T \ {x}
<1>8. u \in SUBSET T /\ u # T /\ u \in SUBSET S
  BY <1>4
<1>9. IsFiniteSet(H(u)) /\ F(u) = SumFunctionOnSet(g, H(u))
  BY <1>3, <1>8 DEF D
<1>10. h[x] \notin H(u) /\ H(T) = H(u) \cup {h[x]} /\ Numbers(g, H(u) \cup {h[x]})
  BY <1>4, <1>8, SMT DEF Numbers
<1>11. F(T) = f[x] + F(u)
  BY <1>5, SumRemove, SMT
<1> DEFINE v == H(u)
<1> HIDE DEF u, v
<1>12. SumFunctionOnSet(g, v \cup {h[x]}) = g[h[x]] + SumFunctionOnSet(g, v)
  BY <1>9, <1>10, SumAdd DEF v
<1>13. IsFiniteSet(v \cup {h[x]})
  BY <1>9, FS_AddElement DEF v
<1>14. H(T) = v \cup {h[x]} /\ F(u) = SumFunctionOnSet(g, v) /\ f[x] = g[h[x]]
  BY <1>4, <1>9, <1>10 DEF v
<1> HIDE DEF F, H
<1> QED  BY <1>4, <1>11, <1>12, <1>13, <1>14

\* The elements of S that k maps to s.
Group(k, S, s) == {x \in S : k[x] = s}

\* The summands may be added group by group: k names the group, K holds those
\* that matter.
LEMMA SumGroups ==
    ASSUME NEW f, NEW g, NEW k, NEW S, IsFiniteSet(S), NEW K, IsFiniteSet(K),
           \A x \in S : f[x] \in Nat,
           \A x \in S : f[x] # 0 => k[x] \in K,
           \A s \in K : g[s] = SumFunctionOnSet(f, Group(k, S, s))
    PROVE  SumFunctionOnSet(g, K) = SumFunctionOnSet(f, S)
<1> DEFINE In(L) == {x \in S : k[x] \in L}
           One(s) == Group(k, S, s)
           D == {L \in SUBSET K : SumFunctionOnSet(g, L) # SumFunctionOnSet(f, In(L))}
<1>1. \A T \in SUBSET S : IsFiniteSet(T) /\ Numbers(f, T)
  BY FS_Subset, SMT DEF Numbers
<1>2. ASSUME NEW s \in K PROVE g[s] = SumFunctionOnSet(f, One(s)) /\ g[s] \in Int
  <2>1. IsFiniteSet(One(s)) /\ Numbers(f, One(s))
    BY <1>1 DEF Group
  <2> HIDE DEF One
  <2>2. SumFunctionOnSet(f, One(s)) \in Int
    BY <2>1, SumType
  <2> QED  BY <2>2 DEF One
<1>3. SumFunctionOnSet(g, K) = SumFunctionOnSet(f, In(K))
  <2>1. SUFFICES ASSUME D # {} PROVE FALSE
    OBVIOUS
  <2>2. D \in SUBSET SUBSET K
    OBVIOUS
  <2> HIDE DEF D
  <2>3. PICK T \in D : \A u \in SUBSET T : u \in D => u = T
    BY <2>1, <2>2, SmallestSet, SMT
  <2>4. T \in SUBSET K /\ SumFunctionOnSet(g, T) # SumFunctionOnSet(f, In(T))
    BY <2>3 DEF D
  <2>5. IsFiniteSet(T) /\ Numbers(g, T)
    BY <1>2, <2>4, FS_Subset DEF Numbers
  <2>6. T # {}
    <3>1. SUFFICES ASSUME T = {} PROVE FALSE
      OBVIOUS
    <3>2. In(T) = {}
      BY <3>1
    <3>3. SumFunctionOnSet(g, {}) = 0 /\ SumFunctionOnSet(f, {}) = 0
      BY SumEmpty
    <3> QED  BY <2>4, <3>1, <3>2, <3>3
  <2>7. PICK s \in T : TRUE
    BY <2>6
  <2> DEFINE u == T \ {s}
  <2>8. u \in SUBSET T /\ u # T /\ u \in SUBSET K /\ s \in K
    BY <2>4
  <2>9. SumFunctionOnSet(g, T) = g[s] + SumFunctionOnSet(g, u)
    BY <2>5, SumRemove, SMT
  <2>10. In(T) = One(s) \cup In(u) /\ One(s) \cap In(u) = {}
    BY <2>7 DEF Group
  <2>11. /\ IsFiniteSet(One(s)) /\ Numbers(f, One(s))
         /\ IsFiniteSet(In(u)) /\ Numbers(f, In(u))
    BY <1>1 DEF Group
  <2> HIDE DEF u, In, One
  <2>12. SumFunctionOnSet(f, One(s) \cup In(u)) = SumFunctionOnSet(f, One(s)) + SumFunctionOnSet(f, In(u))
    BY <2>10, <2>11, SumDisjoint
  <2>13. SumFunctionOnSet(g, u) = SumFunctionOnSet(f, In(u))
    BY <2>3, <2>8 DEF D
  <2> QED  BY <1>2, <2>4, <2>8, <2>9, <2>10, <2>12, <2>13
<1>4. In(K) \in SUBSET S /\ \A x \in S \ In(K) : f[x] = 0
  OBVIOUS
<1> HIDE DEF In
<1>5. SumFunctionOnSet(f, In(K)) = SumFunctionOnSet(f, S)
  BY <1>4, SumSubset
<1> QED  BY <1>3, <1>5

\* R orders the elements of S strictly.
Orders(R, S) ==
    /\ \A x \in S : <<x, x>> \notin R
    /\ \A x, y, z \in S : <<x, y>> \in R /\ <<y, z>> \in R => <<x, z>> \in R
    /\ \A x, y \in S : x # y => <<x, y>> \in R \/ <<y, x>> \in R

\* In a strict order the elements below x are fewer than those below any y above x.
LEMMA RankGrows ==
    ASSUME NEW S, IsFiniteSet(S), NEW R, Orders(R, S), NEW x \in S, NEW y \in S, <<x, y>> \in R
    PROVE  Cardinality(Below(S, R, x)) < Cardinality(Below(S, R, y))
<1> DEFINE A == Below(S, R, x)
           B == Below(S, R, y)
<1>1. A \in SUBSET B /\ x \in B /\ x \notin A /\ B \in SUBSET S
  BY DEF Below, Orders
<1>2. IsFiniteSet(B)
  BY <1>1, FS_Subset
<1> HIDE DEF A, B
<1>3. IsFiniteSet(A) /\ Cardinality(A) <= Cardinality(B) /\ Cardinality(A) # Cardinality(B)
  BY <1>1, <1>2, FS_Subset
<1>4. Cardinality(A) \in Nat /\ Cardinality(B) \in Nat
  BY <1>2, <1>3, FS_CardinalityType
<1>5. Cardinality(A) < Cardinality(B)
  BY <1>3, <1>4, SMT
<1> QED  BY <1>5 DEF A, B

\* Every place below the number of elements is the rank of exactly one.
LEMMA RankExists ==
    ASSUME NEW S, IsFiniteSet(S), NEW R, Orders(R, S)
    PROVE  /\ Cardinality(S) \in Nat
           /\ \A x \in S : Cardinality(Below(S, R, x)) \in 0..(Cardinality(S) - 1)
           /\ \A i \in 1..Cardinality(S) : \E x \in S : Cardinality(Below(S, R, x)) = i - 1
           /\ \A x, y \in S : Cardinality(Below(S, R, x)) = Cardinality(Below(S, R, y)) => x = y
<1> DEFINE N == Cardinality(S)
           I == 0..(N - 1)
           r == [x \in S |-> Cardinality(Below(S, R, x))]
<1>1. N \in Nat
  BY FS_CardinalityType
<1>2. ASSUME NEW x \in S PROVE r[x] \in I
  <2>1. Below(S, R, x) \in SUBSET S /\ x \notin Below(S, R, x)
    BY DEF Below, Orders
  <2>2. IsFiniteSet(Below(S, R, x)) /\ Cardinality(Below(S, R, x)) <= N /\ Cardinality(Below(S, R, x)) # N
    BY <2>1, FS_Subset
  <2>3. Cardinality(Below(S, R, x)) \in Nat
    BY <2>2, FS_CardinalityType
  <2> HIDE DEF N
  <2> QED  BY <1>1, <2>2, <2>3, SMT
<1>3. ASSUME NEW x \in S, NEW y \in S, r[x] = r[y] PROVE x = y
  <2>1. SUFFICES ASSUME x # y PROVE FALSE
    OBVIOUS
  <2>2. r[x] \in Int /\ r[y] \in Int
    BY <1>1, <1>2, SMT
  <2>3. <<x, y>> \in R \/ <<y, x>> \in R
    BY <2>1 DEF Orders
  <2>4. r[x] < r[y] \/ r[y] < r[x]
    BY <2>3, RankGrows
  <2> HIDE DEF r
  <2> QED  BY <1>3, <2>2, <2>4, SMT
<1>4. r \in Injection(S, I)
  <2>1. r \in [S -> I]
    BY <1>2
  <2>2. IsInjective(r)
    BY <1>3, Zenon DEF IsInjective
  <2> QED  BY <2>1, <2>2 DEF Injection
<1>5. IsFiniteSet(I) /\ Cardinality(I) = N
  <2> HIDE DEF N
  <2> QED  BY <1>1, FS_Interval, SMT
<1> HIDE DEF r, I
<1>6. r \in Surjection(S, I)
  BY <1>4, <1>5, FS_Injection
<1>7. \A i \in I : \E x \in S : r[x] = i
  BY <1>6 DEF Surjection
<1>8. \A i \in 1..N : i - 1 \in I
  BY <1>1, SMT DEF I
<1> QED  BY <1>1, <1>2, <1>3, <1>7, <1>8 DEF r, I

\* InOrder lists the elements of S once each, ascending.
LEMMA InOrderLists ==
    ASSUME NEW S, IsFiniteSet(S), NEW R, Orders(R, S)
    PROVE  LET s == InOrder(S, R) IN
           /\ s \in Seq(S)
           /\ Len(s) = Cardinality(S)
           /\ Cardinality(S) \in Nat
           /\ \A i \in 1..Len(s) : s[i] \in S
           /\ \A i, j \in 1..Len(s) : i < j <=> <<s[i], s[j]>> \in R
           /\ \A x \in S : \E i \in 1..Len(s) : s[i] = x
<1> DEFINE s == InOrder(S, R)
           N == Cardinality(S)
           rank(x) == Cardinality(Below(S, R, x))
<1>1. N \in Nat
  BY RankExists
<1>2. \A i \in 1..N : s[i] \in S /\ rank(s[i]) = i - 1
  BY RankExists, SMT DEF InOrder
<1>3. s \in [1..N -> S] /\ s \in Seq(S) /\ Len(s) = N
  <2>1. s = [i \in 1..N |-> s[i]]
    BY SMT DEF InOrder
  <2> HIDE DEF s, N
  <2>2. s \in [1..N -> S]
    BY <1>2, <2>1
  <2> QED  BY <1>1, <2>2, SMT
<1>4. ASSUME NEW x \in S PROVE \E i \in 1..N : s[i] = x
  <2>1. rank(x) \in 0..(N-1)
    BY RankExists
  <2>2. rank(x) + 1 \in 1..N /\ (rank(x) + 1) - 1 = rank(x)
    <3> HIDE DEF rank, N
    <3> QED  BY <2>1, <1>1, SMT
  <2>3. s[rank(x) + 1] \in S /\ rank(s[rank(x) + 1]) = rank(x)
    BY <1>2, <2>2
  <2>4. s[rank(x) + 1] = x
    BY <2>3, RankExists, SMT
  <2> QED  BY <2>2, <2>4
<1>5. ASSUME NEW i \in 1..N, NEW j \in 1..N PROVE i < j <=> <<s[i], s[j]>> \in R
  <2>0. s[i] \in S /\ s[j] \in S /\ rank(s[i]) = i - 1 /\ rank(s[j]) = j - 1
    BY <1>2
  <2>1. ASSUME <<s[i], s[j]>> \in R PROVE i < j
    <3>1. rank(s[i]) < rank(s[j])
      BY <2>0, <2>1, RankGrows
    <3> HIDE DEF rank, s, N
    <3> QED  BY <1>1, <2>0, <3>1, SMT
  <2>2. ASSUME <<s[j], s[i]>> \in R PROVE j < i
    <3>1. rank(s[j]) < rank(s[i])
      BY <2>0, <2>2, RankGrows
    <3> HIDE DEF rank, s, N
    <3> QED  BY <1>1, <2>0, <3>1, SMT
  <2>3. ASSUME i < j PROVE <<s[i], s[j]>> \in R
    <3>1. s[i] # s[j]
      <4> HIDE DEF rank, s, N
      <4> QED  BY <1>1, <2>0, <2>3, SMT
    <3>2. <<s[i], s[j]>> \in R \/ <<s[j], s[i]>> \in R
      BY <2>0, <3>1 DEF Orders
    <3>3. ~(j < i)
      <4> HIDE DEF N
      <4> QED  BY <1>1, <2>3, SMT
    <3> QED  BY <2>2, <3>2, <3>3
  <2> QED  BY <2>1, <2>3
<1> HIDE DEF s, N
<1> QED  BY <1>1, <1>2, <1>3, <1>4, <1>5 DEF N, s

-----------------------------------------------------------------------------
(* The candidates, and a block that passed the validation.                   *)

\* An element of a sequence.
LEMMA ElementIn ==
    ASSUME NEW T, NEW s \in Seq(T), NEW i \in DOMAIN s
    PROVE  s[i] \in T
  BY SMT

\* A prefix of a sequence.
LEMMA PrefixOf ==
    ASSUME NEW T, NEW s \in Seq(T), NEW n \in Nat, n <= Len(s)
    PROVE  /\ SubSeq(s, 1, n) \in Seq(T)
           /\ Len(SubSeq(s, 1, n)) = n
           /\ DOMAIN SubSeq(s, 1, n) = 1..n
           /\ \A i \in 1..n : SubSeq(s, 1, n)[i] = s[i]
  BY SMT

\* There are n numbers from 1 to n.
LEMMA OneTo ==
    ASSUME NEW n \in Nat
    PROVE  IsFiniteSet(1..n) /\ Cardinality(1..n) = n
  BY FS_Interval, SMT

\* Views with any heights.
Ages == [OutPoint -> Int]

\* No output of a view was created at height 0: the genesis coinbase never
\* enters one.
LEMMA NoGenesisOutputs ==
    ASSUME NEW b \in Block, NEW t \in 0..NumTxs[b], NEW o \in OutPoint
    PROVE  Live[b][t][o] \in Int /\ Live[b][t][o] # 0
<1> DEFINE Bad(c) == \E i \in 0..NumTxs[c] : ~(Live[c][i][o] \in Int /\ Live[c][i][o] # 0)
           D == {Height[c] : c \in {x \in Block : Bad(x)}}
<1>0. \A c \in Block : /\ Height[c] \in Nat /\ NumTxs[c] \in Nat
                       /\ c # Genesis => Parent[c] \in Block /\ Height[c] = Height[Parent[c]] + 1
  BY TreeAssumption, TxAssumption
<1>1. SUFFICES ASSUME Bad(b) PROVE FALSE
  OBVIOUS
<1>2. D \in SUBSET Nat /\ D # {}
  BY <1>0, <1>1
<1>3. PICK n \in D : \A m \in D : n <= m
  <2> HIDE DEF D
  <2> QED  BY <1>2, LeastNumber
<1>4. PICK c \in Block : Bad(c) /\ Height[c] = n
  BY <1>3
<1> DEFINE E == {i \in 0..NumTxs[c] : ~(Live[c][i][o] \in Int /\ Live[c][i][o] # 0)}
<1>5. E \in SUBSET Nat /\ E # {}
  BY <1>0, <1>4, SMT
<1>6. PICK k \in E : \A m \in E : k <= m
  <2> HIDE DEF E
  <2> QED  BY <1>5, LeastNumber
<1>7. k \in 0..NumTxs[c] /\ ~(Live[c][k][o] \in Int /\ Live[c][k][o] # 0)
  BY <1>6
<1>8. CASE k = 0
  <2>1. Live[c][0] = ViewAt(Parent[c])
    BY LiveAssumption
  <2>2. CASE c = Genesis
    <3>1. Live[c][0] = EmptyView
      BY <2>1, <2>2, TreeAssumption DEF ViewAt
    <3> QED  BY <1>7, <1>8, <3>1, SMT DEF EmptyView, None
  <2>3. CASE c # Genesis
    <3> DEFINE p == Parent[c]
    <3>1. p \in Block /\ Height[p] < n /\ Height[p] \in Nat /\ NumTxs[p] \in Nat
      BY <1>0, <1>4, <2>3, SMT
    <3>2. p # NoBlock
      BY <3>1, TreeAssumption
    <3>3. Live[c][0] = Live[p][NumTxs[p]]
      BY <2>1, <3>2 DEF ViewAt
    <3>4. Bad(p)
      BY <1>7, <1>8, <3>1, <3>3, SMT
    <3>5. Height[p] \in D
      BY <3>1, <3>4
    <3> HIDE DEF D, p, Bad
    <3>6. n <= Height[p]
      BY <1>3, <3>5
    <3>7. n \in Nat
      BY <1>2, <1>3
    <3> QED  BY <3>1, <3>6, <3>7, SMT
  <2> QED  BY <2>2, <2>3
<1>9. CASE k # 0
  <2>1. k - 1 \in 0..NumTxs[c] /\ k \in 1..NumTxs[c] /\ k - 1 \notin E
    BY <1>0, <1>6, <1>7, <1>9, SMT
  <2>2. Live[c][k - 1][o] \in Int /\ Live[c][k - 1][o] # 0
    BY <2>1
  <2>3. Live[c][k] = ApplyTx(Live[c][k - 1], Ins[c][k], Created(c, k), Height[c])
    BY <2>1, LiveAssumption
  <2>4. Live[c][k][o] = IF o \in Created(c, k) \cap Spendable THEN Height[c]
                        ELSE IF o \in Ins[c][k] THEN None ELSE Live[c][k - 1][o]
    BY <2>3 DEF ApplyTx
  <2>5. o \in Created(c, k) => Height[c] # 0
    BY <1>0, TreeAssumption, SMT DEF Created
  <2> QED  BY <1>0, <1>7, <2>2, <2>4, <2>5, SMT DEF None
<1> QED  BY <1>8, <1>9

\* The creation heights of a view: a height or None, never 0.
LEMMA ViewType ==
    ASSUME NEW b \in Block
    PROVE  /\ ViewAt(b) \in Ages
           /\ \A o \in OutPoint : ViewAt(b)[o] # 0 /\ ViewAt(b)[o] >= None
<1>1. b # NoBlock /\ NumTxs[b] \in Nat
  BY TreeAssumption, TxAssumption
<1>2. NumTxs[b] \in 0..NumTxs[b]
  BY <1>1, SMT
<1>3. Live[b][NumTxs[b]] \in View
  BY <1>2, LiveAssumption
<1>4. \A c \in CreateHeight : c \in Int /\ c >= None
  BY TreeAssumption, SMT DEF CreateHeight, None
<1>5. \A o \in OutPoint : Live[b][NumTxs[b]][o] # 0
  BY <1>2, NoGenesisOutputs
<1> QED  BY <1>1, <1>3, <1>4, <1>5 DEF ViewAt, View, Ages

\* compareReapInputOrderKey orders the outputs strictly: by expiry, amount and outpoint.
LEMMA ReapOrders ==
    ASSUME NEW v \in Ages, NEW S \in SUBSET OutPoint
    PROVE  Orders(ReapOrder(v), S)
<1>1. \A o \in OutPoint : Expiry(v, o) \in Int /\ Amount[o] \in Int /\ OutPointRank[o] \in Int
  <2>1. \A o \in OutPoint : v[o] \in Int /\ Amount[o] \in Nat /\ OutPointRank[o] \in Nat
    BY TxAssumption, ReapAssumption DEF Ages
  <2> QED  BY <2>1, ParamAssumption, SMT DEF Expiry, CalculateExpiryKey
<1>2. \A o, p \in OutPoint : <<o, p>> \in ReapOrder(v) <=> ReapLess(v, o, p)
  BY DEF ReapOrder
<1>3. \A o \in OutPoint : ~ReapLess(v, o, o)
  BY <1>1, SMT DEF ReapLess
<1>4. \A o, p, q \in OutPoint : ReapLess(v, o, p) /\ ReapLess(v, p, q) => ReapLess(v, o, q)
  BY <1>1, SMT DEF ReapLess
<1>5. \A o, p \in OutPoint : o # p => ReapLess(v, o, p) \/ ReapLess(v, p, o)
  BY <1>1, ReapAssumption, SMT DEF ReapLess
<1> QED  BY <1>2, <1>3, <1>4, <1>5 DEF Orders

\* ReapPrefixCandidates: the first n expired outputs, in the order of the REAP bucket.
LEMMA Candidates ==
    ASSUME NEW v \in Ages, NEW h, NEW n \in Nat
    PROVE  LET rows == ExpiredRows(v, h)
               s == ReapPrefixCandidates(v, h, n)
               all == InOrder(rows, ReapOrder(v)) IN
           /\ all \in Seq(OutPoint) /\ Len(all) \in Nat
           /\ s \in Seq(OutPoint) /\ Len(s) = IF n < Len(all) THEN n ELSE Len(all)
           /\ \A i \in 1..Len(s) : i \in 1..Len(all) /\ s[i] = all[i]
           /\ \A i \in 1..Len(all) : all[i] \in rows
           /\ \A o \in rows : \E i \in 1..Len(all) : all[i] = o
           /\ \A i, j \in 1..Len(all) : i < j <=> ReapLess(v, all[i], all[j])
<1> DEFINE rows == ExpiredRows(v, h)
           all == InOrder(rows, ReapOrder(v))
           s == ReapPrefixCandidates(v, h, n)
           m == IF n < Len(all) THEN n ELSE Len(all)
<1>1. rows \in SUBSET OutPoint
  BY DEF ExpiredRows
<1>2. IsFiniteSet(rows)
  BY <1>1, ReapAssumption, FS_Subset
<1> HIDE DEF rows
<1>3. Orders(ReapOrder(v), rows)
  BY <1>1, ReapOrders
<1>4. /\ all \in Seq(rows) /\ Len(all) \in Nat
      /\ \A i \in 1..Len(all) : all[i] \in rows
      /\ \A i, j \in 1..Len(all) : i < j <=> <<all[i], all[j]>> \in ReapOrder(v)
      /\ \A x \in rows : \E i \in 1..Len(all) : all[i] = x
  BY <1>2, <1>3, InOrderLists, SMT
<1>5. s = SubSeq(all, 1, m)
  BY DEF ReapPrefixCandidates, rows
<1> HIDE DEF all, s
<1>6. all \in Seq(OutPoint)
  BY <1>1, <1>4, SMT
<1>7. m \in Nat /\ m <= Len(all)
  BY <1>4, SMT
<1>8. s \in Seq(OutPoint) /\ Len(s) = m /\ \A i \in 1..Len(s) : i \in 1..Len(all) /\ s[i] = all[i]
  BY <1>5, <1>6, <1>7, SMT
<1>9. \A i, j \in 1..Len(all) : <<all[i], all[j]>> \in ReapOrder(v) <=> ReapLess(v, all[i], all[j])
  BY <1>1, <1>4 DEF ReapOrder
<1> QED  BY <1>4, <1>6, <1>8, <1>9 DEF rows, all, s

\* A REAP transaction that passes the rules in force at height h over view v:
\* its inputs are the first rows.
LEMMA ReapSpendsFirst ==
    ASSUME NEW v \in Ages, NEW h, NEW ins \in Seq(OutPoint),
           ins = ReapPrefixCandidates(v, h, Len(ins)),
           NEW o \in Range(ins), NEW p \in ExpiredRows(v, h), p \notin Range(ins)
    PROVE  ReapLess(v, o, p) /\ o \in ExpiredRows(v, h)
<1> DEFINE all == InOrder(ExpiredRows(v, h), ReapOrder(v))
           n == Len(ins)
<1>1. n \in Nat
  BY SMT
<1>2. /\ Len(all) \in Nat
      /\ n = IF n < Len(all) THEN n ELSE Len(all)
      /\ \A i \in 1..n : i \in 1..Len(all) /\ ins[i] = all[i]
      /\ \A i \in 1..Len(all) : all[i] \in ExpiredRows(v, h)
      /\ \A x \in ExpiredRows(v, h) : \E i \in 1..Len(all) : all[i] = x
      /\ \A i, j \in 1..Len(all) : i < j <=> ReapLess(v, all[i], all[j])
  <2> HIDE DEF n
  <2> DEFINE s == ReapPrefixCandidates(v, h, n)
  <2>1. /\ Len(all) \in Nat /\ Len(s) = IF n < Len(all) THEN n ELSE Len(all)
        /\ \A i \in 1..Len(s) : i \in 1..Len(all) /\ s[i] = all[i]
        /\ \A i \in 1..Len(all) : all[i] \in ExpiredRows(v, h)
        /\ \A x \in ExpiredRows(v, h) : \E i \in 1..Len(all) : all[i] = x
        /\ \A i, j \in 1..Len(all) : i < j <=> ReapLess(v, all[i], all[j])
    BY <1>1, Candidates, SMT
  <2>2. s = ins /\ Len(s) = n
    BY DEF n
  <2> HIDE DEF s
  <2> QED  BY <2>1, <2>2
<1>3. PICK i \in 1..n : ins[i] = o
  BY SMT DEF Range
<1>4. PICK j \in 1..Len(all) : all[j] = p
  BY <1>2
<1> HIDE DEF all
<1>5. j \notin 1..n
  BY <1>2, <1>4, SMTT(30) DEF Range
<1>6. i < j
  BY <1>1, <1>2, <1>3, <1>4, <1>5, SMT
<1>7. i \in 1..Len(all) /\ all[i] = o
  BY <1>2, <1>3
<1> QED  BY <1>2, <1>4, <1>6, <1>7

\* What the first REAP transaction of a block spends, it alone spends.
LEMMA OnlyReap ==
    ASSUME txs \in Seq(Tx), checkReapBlockHardening(txs, NextHeight),
           checkReapGlobalPrefix(txs, NextHeight, V),
           NextHeight >= ReapConsensusAtHeight,
           NEW i \in DOMAIN txs, txs[i].reap
    PROVE  /\ Reaped = Range(txs[i].ins)
           /\ {j \in DOMAIN txs : txs[j].reap} = {i}
           /\ txs[i].ins = ReapPrefixCandidates(V, NextHeight, Len(txs[i].ins))
<1>1. \A j \in DOMAIN txs : txs[j].reap => j = i
  BY DEF checkReapBlockHardening
<1>2. {j \in DOMAIN txs : txs[j].reap} = {i}
  BY <1>1
<1>3. IsFirstReap(txs, i)
  BY <1>1, SMT DEF IsFirstReap
<1>4. Reaped = Range(txs[i].ins)
  BY <1>2 DEF Reaped
<1> QED  BY <1>2, <1>3, <1>4 DEF checkReapGlobalPrefix

\* The state between two steps.
TypeOK ==
    /\ tip \in Block
    /\ txs \in Seq(Tx)
    /\ verdict \in {"open", "accepted", "rejected"}

\* What an accepted block has passed.
Inv ==
    /\ TypeOK
    /\ Accepted => checkConnectBlock(txs, NextHeight, V)

\* The fields of a transaction of the block.
LEMMA TxFields ==
    ASSUME txs \in Seq(Tx), NEW i \in DOMAIN txs
    PROVE  /\ txs[i].reap \in BOOLEAN
           /\ txs[i].ins \in Seq(OutPoint)
           /\ txs[i].outs \in Seq([script : Script, value : Int])
           /\ \A j \in DOMAIN txs[i].ins : txs[i].ins[j] \in OutPoint
           /\ \A j \in DOMAIN txs[i].outs : txs[i].outs[j].value \in Int
<1>1. txs[i] \in Tx
  BY SMT
<1>2. /\ txs[i].reap \in BOOLEAN
      /\ txs[i].ins \in Seq(OutPoint)
      /\ txs[i].outs \in Seq([script : Script, value : Int])
  BY <1>1, Zenon DEF Tx
<1>3. \A j \in DOMAIN txs[i].ins : txs[i].ins[j] \in OutPoint
  BY <1>2, SMT
<1>4. ASSUME NEW j \in DOMAIN txs[i].outs PROVE txs[i].outs[j].value \in Int
  <2>1. txs[i].outs[j] \in [script : Script, value : Int]
    BY <1>2, ElementIn
  <2> QED  BY <2>1, Zenon
<1> QED  BY <1>2, <1>3, <1>4

\* The height of the block, its view, and what it counts as expired.
LEMMA Arithmetic ==
    ASSUME TypeOK
    PROVE  /\ NextHeight \in Nat /\ V \in Ages
           /\ \A o \in OutPoint : V[o] # 0 /\ V[o] >= None
           /\ \A o \in OutPoint : Expired(o) <=> o \in ExpiredRows(V, NextHeight)
<1>1. NextHeight \in Nat
  BY TreeAssumption, SMT DEF TypeOK, NextHeight
<1>2. V \in Ages /\ \A o \in OutPoint : V[o] # 0 /\ V[o] >= None
  BY ViewType DEF TypeOK, V
<1>3. \A o \in OutPoint : Expired(o) <=> o \in ExpiredRows(V, NextHeight)
  BY <1>1, <1>2, ParamAssumption, ScanAssumption, SMT
  DEF Expired, ExpiredRows, shouldIndexCreateHeight, Expiry, CalculateExpiryKey, None, Ages
<1> QED  BY <1>1, <1>2, <1>3

\* OldestFirst follows from the invariant: checkReapGlobalPrefix compares the inputs with
\* the first expired rows, so that what the block leaves comes after all that it takes.
LEMMA OldestFirstHolds ==
    ASSUME Inv
    PROVE  OldestFirst
<1>1. SUFFICES ASSUME Accepted, NextHeight >= ReapConsensusAtHeight,
                      NEW o \in Reaped, NEW p \in {q \in OutPoint : Expired(q)} \ Reaped
               PROVE  V[o] < V[p] \/ (V[o] = V[p] /\ Amount[o] <= Amount[p])
  BY DEF OldestFirst
<1>2. PICK i \in DOMAIN txs : txs[i].reap /\ o \in Range(txs[i].ins)
  BY <1>1 DEF Reaped
<1>3. /\ Reaped = Range(txs[i].ins)
      /\ txs[i].ins = ReapPrefixCandidates(V, NextHeight, Len(txs[i].ins))
  BY <1>1, <1>2, OnlyReap DEF Inv, TypeOK, checkConnectBlock
<1>4. txs[i].ins \in Seq(OutPoint)
  BY TxFields DEF Inv, TypeOK
<1>a. p \in OutPoint /\ Expired(p) /\ p \notin Reaped
  BY <1>1
<1>5. p \in ExpiredRows(V, NextHeight) /\ V \in Ages
  BY <1>a, Arithmetic DEF Inv
<1>6. ReapLess(V, o, p) /\ o \in ExpiredRows(V, NextHeight)
  BY <1>2, <1>3, <1>4, <1>5, <1>a, ReapSpendsFirst
<1>7. /\ o \in OutPoint /\ p \in OutPoint
      /\ V[o] \in Int /\ V[p] \in Int /\ Amount[o] \in Int /\ Amount[p] \in Int
  BY <1>5, <1>6, TxAssumption, SMT DEF ExpiredRows, Ages
<1> QED  BY <1>6, <1>7, ParamAssumption, SMT DEF ReapLess, Expiry, CalculateExpiryKey

\* What the tier limits leave: the last input followed a list under both caps.
LEMMA TierBound ==
    ASSUME NEW ins \in Seq(OutPoint),
           ReapDustMaxInputs = 0 => Len(ins) <= ReapMaxInputs,
           ReapDustMaxInputs > 0 =>
               \A i \in DOMAIN ins : ~TierLimitReached(SubSeq(ins, 1, i - 1))
    PROVE  Len(ins) <= PrefixCandidateLimit
<1>1. /\ ReapMaxInputs \in Nat \ {0} /\ ReapDustMaxInputs \in Nat
      /\ Len(ins) \in Nat
  BY ReapAssumption, SMT
<1>2. CASE ReapDustMaxInputs = 0 \/ Len(ins) = 0
  BY <1>1, <1>2, SMT DEF PrefixCandidateLimit
<1>3. CASE ReapDustMaxInputs > 0 /\ Len(ins) # 0
  <2> DEFINE n == Len(ins)
             pre == SubSeq(ins, 1, n - 1)
             S == {i \in DOMAIN pre : IsDust(Amount[pre[i]])}
  <2>1. n \in DOMAIN ins
    BY <1>1, <1>3, SMT
  <2>2. ~TierLimitReached(pre)
    BY <1>3, <2>1
  <2>a. n - 1 \in Nat /\ n - 1 <= Len(ins)
    BY <1>1, <1>3, SMT
  <2>3. Len(pre) = n - 1 /\ DOMAIN pre = 1..(n - 1)
    BY <2>a, PrefixOf
  <2> HIDE DEF pre
  <2>4. IsFiniteSet(DOMAIN pre)
    BY <2>a, <2>3, OneTo
  <2>5. Cardinality(S) \in Nat
    <3>1. S \in SUBSET DOMAIN pre
      OBVIOUS
    <3> HIDE DEF S
    <3> QED  BY <2>4, <3>1, FS_Subset, FS_CardinalityType
  <2>6. DustCount(pre) = Cardinality(S) /\ NormalCount(pre) = (n - 1) - Cardinality(S)
    BY <2>3 DEF DustCount, NormalCount
  <2> HIDE DEF S
  <2>7. Cardinality(S) < ReapDustMaxInputs /\ (n - 1) - Cardinality(S) < ReapMaxInputs
    BY <1>1, <1>3, <2>2, <2>5, <2>6, SMT DEF TierLimitReached
  <2> QED  BY <1>1, <1>3, <2>5, <2>7, SMT DEF PrefixCandidateLimit
<1> QED  BY <1>1, <1>2, <1>3, SMT

\* A sequence has no more elements than places.
LEMMA RangeBound ==
    ASSUME NEW T, NEW s \in Seq(T)
    PROVE  IsFiniteSet(Range(s)) /\ Cardinality(Range(s)) <= Len(s)
<1>1. s \in Surjection(1..Len(s), Range(s)) /\ Len(s) \in Nat
  BY SMT DEF Surjection, Range
<1>2. IsFiniteSet(1..Len(s)) /\ Cardinality(1..Len(s)) = Len(s)
  BY OneTo, SMT
<1> QED  BY <1>1, <1>2, FS_Surjection, SMT

\* ReapIsBounded follows from the invariant: checkReapBlockHardening leaves one REAP
\* transaction, and checkReapConsensusHardening limits its inputs and its weight.
LEMMA ReapIsBoundedHolds ==
    ASSUME Inv
    PROVE  ReapIsBounded
<1>1. SUFFICES ASSUME Accepted, NextHeight >= ReapConsensusAtHeight
               PROVE  /\ Cardinality(Reaped) <= PrefixCandidateLimit
                      /\ ReapMaxWeight > 0 =>
                            SumFunctionOnSet([i \in DOMAIN txs |-> Weight(txs[i].ins, txs[i].outs)],
                                             {i \in DOMAIN txs : txs[i].reap}) <= ReapMaxWeight
  BY DEF ReapIsBounded
<1> DEFINE S == {i \in DOMAIN txs : txs[i].reap}
           w == [i \in DOMAIN txs |-> Weight(txs[i].ins, txs[i].outs)]
<1>2. /\ ReapMaxInputs \in Nat /\ ReapDustMaxInputs \in Nat /\ ReapMaxWeight \in Nat
      /\ PrefixCandidateLimit \in Nat
  BY ReapAssumption, SMT DEF PrefixCandidateLimit
<1>3. CASE S = {}
  <2>1. Reaped = {}
    BY <1>3 DEF Reaped
  <2>2. Cardinality(Reaped) = 0
    BY <2>1, FS_EmptySet
  <2>3. SumFunctionOnSet(w, S) = 0
    BY <1>3, SumEmpty
  <2> HIDE DEF w, S
  <2>4. Cardinality(Reaped) <= PrefixCandidateLimit /\ SumFunctionOnSet(w, S) <= ReapMaxWeight
    BY <1>2, <2>2, <2>3, SMT
  <2> QED  BY <2>4 DEF w, S
<1>4. CASE S # {}
  <2>1. PICK i \in DOMAIN txs : txs[i].reap
    BY <1>4
  <2>2. Reaped = Range(txs[i].ins) /\ S = {i}
    BY <1>1, <2>1, OnlyReap DEF Inv, TypeOK, checkConnectBlock
  <2>3. txs[i].ins \in Seq(OutPoint)
    BY TxFields DEF Inv, TypeOK
  <2>4. checkReapConsensusHardening(txs[i], NextHeight, SpentBy(txs, V, i - 1))
    BY <1>1 DEF Inv, checkConnectBlock, CheckTransactionInputs
  <2>5. /\ ReapDustMaxInputs = 0 => Len(txs[i].ins) <= ReapMaxInputs
        /\ ReapDustMaxInputs > 0 =>
               \A j \in DOMAIN txs[i].ins : ~TierLimitReached(SubSeq(txs[i].ins, 1, j - 1))
        /\ ReapMaxWeight > 0 => Weight(txs[i].ins, txs[i].outs) <= ReapMaxWeight
    BY <1>1, <2>1, <2>4, Zenon DEF checkReapConsensusHardening
  <2>6. Len(txs[i].ins) <= PrefixCandidateLimit
    BY <2>3, <2>5, TierBound
  <2>7. /\ Cardinality(Reaped) <= Len(txs[i].ins)
        /\ Cardinality(Reaped) \in Nat /\ Len(txs[i].ins) \in Nat
    <3>1. IsFiniteSet(Reaped) /\ Cardinality(Reaped) <= Len(txs[i].ins)
      BY <2>2, <2>3, RangeBound
    <3>2. Len(txs[i].ins) \in Nat
      BY <2>3, SMT
    <3> QED  BY <3>1, <3>2, FS_CardinalityType
  <2>8. Cardinality(Reaped) <= PrefixCandidateLimit
    BY <1>2, <2>6, <2>7, SMT
  <2>9. w[i] = Weight(txs[i].ins, txs[i].outs) /\ w[i] \in Int
    <3>1. Len(txs[i].outs) \in Nat
      BY TxFields, SMT DEF Inv, TypeOK
    <3>2. {InputWeight, OutputWeight, BaseWeight} \subseteq Nat
      BY ReapAssumption
    <3>3. Weight(txs[i].ins, txs[i].outs) \in Int
      BY <2>7, <3>1, <3>2, SMTT(30) DEF Weight
    <3> QED  BY <3>3
  <2>10. IsFiniteSet({i}) /\ {i} \ {i} = {} /\ Numbers(w, {i})
    BY <2>9, FS_Singleton DEF Numbers
  <2> HIDE DEF w, S
  <2>11. SumFunctionOnSet(w, {i}) = w[i] + SumFunctionOnSet(w, {i} \ {i})
    BY <2>10, SumRemove
  <2>12. SumFunctionOnSet(w, {i}) = w[i] + 0
    BY <2>10, <2>11, SumEmpty
  <2>13. SumFunctionOnSet(w, S) = w[i]
    BY <2>2, <2>9, <2>12, SMT
  <2>14. ReapMaxWeight > 0 => SumFunctionOnSet(w, S) <= ReapMaxWeight
    BY <2>5, <2>9, <2>13
  <2> QED  BY <2>8, <2>14 DEF w, S
<1> QED  BY <1>3, <1>4

-----------------------------------------------------------------------------
(* The tax, and what the owners keep.                                        *)

\* What the division of integers gives.
LEMMA DivBounds ==
    ASSUME NEW x \in Int, NEW d \in Nat \ {0}
    PROVE  /\ x \div d \in Int
           /\ d * (x \div d) <= x
           /\ x < d * (x \div d) + d
  BY SMT

\* Only one number has these bounds.
LEMMA DivUnique ==
    ASSUME NEW x \in Int, NEW d \in Nat \ {0}, NEW q \in Int, d * q <= x, x < d * q + d
    PROVE  x \div d = q
<1> DEFINE p == x \div d
<1>1. p \in Int /\ d * p <= x /\ x < d * p + d
  BY DivBounds
<1> HIDE DEF p
<1>2. d * p < d * q + d /\ d * q < d * p + d
  BY <1>1, SMT
<1>3. ~(p >= q + 1)
  <2>1. SUFFICES ASSUME p >= q + 1 PROVE FALSE
    OBVIOUS
  <2>2. d * p >= d * (q + 1)
    BY <1>1, <2>1, SMT
  <2>3. d * (q + 1) = d * q + d
    BY SMT
  <2> QED  BY <1>1, <1>2, <2>2, <2>3, SMT
<1>4. ~(q >= p + 1)
  <2>1. SUFFICES ASSUME q >= p + 1 PROVE FALSE
    OBVIOUS
  <2>2. d * q >= d * (p + 1)
    BY <1>1, <2>1, SMT
  <2>3. d * (p + 1) = d * p + d
    BY <1>1, SMT
  <2> QED  BY <1>1, <1>2, <2>2, <2>3, SMT
<1>5. p = q
  BY <1>1, <1>3, <1>4, SMT
<1> QED  BY <1>5 DEF p

\* The tax, rounded down, is at most the amount, and what it leaves is the amount's
\* remaining fraction, rounded up.
LEMMA TaxAndShare ==
    ASSUME NEW a \in Nat, NEW n \in Nat, NEW d \in Nat \ {0}, n <= d
    PROVE  /\ (a * n) \div d \in Int
           /\ (a * n) \div d >= 0 /\ (a * n) \div d <= a
           /\ -((-a * (d - n)) \div d) = a - ((a * n) \div d)
<1> DEFINE q == (a * n) \div d
<1>0. a * n \in Int /\ a * n >= 0 /\ a * n <= a * d
  BY SMT
<1>1. q \in Int /\ d * q <= a * n /\ a * n < d * q + d
  BY <1>0, DivBounds
<1> HIDE DEF q
<1>2. q <= a
  <2>1. SUFFICES ASSUME q >= a + 1 PROVE FALSE
    BY <1>1, SMT
  <2>2. d * q >= d * (a + 1)
    BY <1>1, <2>1, SMT
  <2>3. d * (a + 1) = a * d + d
    BY SMT
  <2> QED  BY <1>0, <1>1, <2>2, <2>3, SMT
<1>3. q >= 0
  <2>1. SUFFICES ASSUME q + 1 <= 0 PROVE FALSE
    BY <1>1, SMT
  <2>2. d * (q + 1) <= 0
    BY <1>1, <2>1, SMT
  <2>3. d * (q + 1) = d * q + d
    BY <1>1, SMT
  <2> QED  BY <1>0, <1>1, <2>2, <2>3, SMT
<1>4. (-a * (d - n)) \div d = q - a
  <2> DEFINE x == -a * (d - n)
  <2>1. x = a * n - a * d
    BY SMT
  <2>2. d * (q - a) = d * q - a * d
    BY <1>1, SMT
  <2>3. x \in Int /\ q - a \in Int
    BY <1>0, <1>1, SMT
  <2>4. a * d \in Int /\ d * q \in Int
    BY <1>1, SMT
  <2> HIDE DEF x
  <2>5. d * (q - a) <= x /\ x < d * (q - a) + d
    BY <1>0, <1>1, <2>1, <2>2, <2>4, SMT
  <2>6. x \div d = q - a
    BY <2>3, <2>5, DivUnique
  <2> QED  BY <2>6 DEF x
<1>5. -(q - a) = a - q
  BY <1>1, SMT
<1> QED  BY <1>1, <1>2, <1>3, <1>4, <1>5 DEF q

\* What calcTax leaves of an output is the owner's share of it.
LEMMA RefundIsShare ==
    ASSUME NEW o \in OutPoint
    PROVE  /\ Refund(Amount[o]) \in Nat
           /\ Refund(Amount[o]) <= Amount[o]
           /\ Share(o) = Refund(Amount[o])
<1> DEFINE a == Amount[o]
           q == (a * ReapTaxNumerator) \div ReapTaxDenominator
           z == -((-a * (ReapTaxDenominator - ReapTaxNumerator)) \div ReapTaxDenominator)
<1>1. a \in Nat /\ ReapTaxNumerator \in Nat /\ ReapTaxDenominator \in Nat \ {0}
      /\ ReapTaxNumerator <= ReapTaxDenominator /\ ReapDustThresholdSat \in Nat
  BY TxAssumption, ReapAssumption
<1> HIDE DEF a
<1>2. q \in Int /\ q >= 0 /\ q <= a /\ z = a - q
  BY <1>1, TaxAndShare
<1>3. a = 0 => q = 0
  BY <1>1, <1>2, SMT
<1>4. Refund(a) = IF IsDust(a) THEN a - a ELSE a - q
  BY DEF Refund, Tax, reapTaxForValue
<1>5. Share(o) = IF a < ReapDustThresholdSat THEN 0 ELSE z
  BY DEF Share, a
<1> HIDE DEF q, z
<1>6. Refund(a) \in Nat /\ Refund(a) <= a /\ Share(o) = Refund(a)
  BY <1>1, <1>2, <1>3, <1>4, <1>5, SMT DEF IsDust
<1> QED  BY <1>6 DEF a

\* The refunds that checkReapTaxRules adds up, input by input.
LEMMA RefundsAre ==
    ASSUME NEW ins \in Seq(OutPoint)
    PROVE  /\ IsFiniteSet(DOMAIN ins)
           /\ \A i \in DOMAIN ins : /\ ins[i] \in OutPoint
                                    /\ Refunds(ins)[i] = Refund(Amount[ins[i]])
                                    /\ Refunds(ins)[i] \in Nat
                                    /\ Refunds(ins)[i] <= Amount[ins[i]]
                                    /\ Share(ins[i]) = Refunds(ins)[i]
<1>1. IsFiniteSet(DOMAIN ins)
  BY OneTo, SMT
<1>2. \A i \in DOMAIN ins : ins[i] \in OutPoint /\ Refunds(ins)[i] = Refund(Amount[ins[i]])
  BY ElementIn DEF Refunds
<1> QED  BY <1>1, <1>2, RefundIsShare

\* What a script has lost to a list of inputs is at most what they refund to it.
LEMMA ShareIsRefunded ==
    ASSUME NEW ins \in Seq(OutPoint), NEW s,
           NEW lost \in SUBSET {i \in DOMAIN ins : PkScript[ins[i]] = s}
    PROVE  /\ SumFunctionOnSet([j \in DOMAIN ins |-> Share(ins[j])], lost) \in Int
           /\ RefundByScript(ins, s) \in Int
           /\ SumFunctionOnSet([j \in DOMAIN ins |-> Share(ins[j])], lost) <= RefundByScript(ins, s)
           /\ s \notin Refunded(ins) => RefundByScript(ins, s) = 0
<1> DEFINE I == {i \in DOMAIN ins : PkScript[ins[i]] = s}
           f == [j \in DOMAIN ins |-> Share(ins[j])]
           r == Refunds(ins)
<1>1. I \in SUBSET DOMAIN ins /\ lost \in SUBSET I /\ lost \in SUBSET DOMAIN ins
  OBVIOUS
<1>2. IsFiniteSet(I) /\ IsFiniteSet(lost)
  <2> HIDE DEF I
  <2> QED  BY <1>1, RefundsAre, FS_Subset
<1>3. \A i \in DOMAIN ins : f[i] = r[i] /\ r[i] \in Nat
  BY RefundsAre
<1>4. s \notin Refunded(ins) => \A i \in I : r[i] = 0
  BY <1>3, SMT DEF Refunded
<1>5. RefundByScript(ins, s) = SumFunctionOnSet(r, I)
  BY DEF RefundByScript
<1> HIDE DEF f, r, I
<1>6. Numbers(f, lost) /\ \A x \in lost : f[x] = r[x]
  BY <1>1, <1>3, SMT DEF Numbers
<1>7. SumFunctionOnSet(f, lost) = SumFunctionOnSet(r, lost)
  BY <1>2, <1>6, SumSame
<1>8. \A x \in I : r[x] \in Nat
  BY <1>1, <1>3
<1>9. SumFunctionOnSet(r, lost) <= SumFunctionOnSet(r, I) /\ SumFunctionOnSet(r, lost) \in Nat
  BY <1>1, <1>2, <1>8, SumSubset
<1>10. SumFunctionOnSet(r, I) \in Int
  BY <1>2, <1>8, SumType, SMT DEF Numbers
<1>11. (\A i \in I : r[i] = 0) => SumFunctionOnSet(r, I) = 0
  BY <1>2, SumZero
<1> QED  BY <1>4, <1>5, <1>7, <1>9, <1>10, <1>11, SMT DEF f

\* OwnersKeepTheirShare follows from the invariant: checkReapTaxRules compares what every
\* script is paid with the sum of its refunds.
LEMMA OwnersKeepTheirShareHolds ==
    ASSUME Inv
    PROVE  OwnersKeepTheirShare
<1>1. SUFFICES ASSUME Accepted, NextHeight >= EnableAtHeight, NEW s \in Script, NEW i \in DOMAIN txs
               PROVE  LET ins == txs[i].ins
                          lost == {j \in DOMAIN ins : Expired(ins[j]) /\ PkScript[ins[j]] = s}
                      IN  \/ lost = {}
                          \/ PaidTo(txs[i], s) >=
                                 SumFunctionOnSet([j \in DOMAIN ins |-> Share(ins[j])], lost)
  BY DEF OwnersKeepTheirShare
<1> DEFINE tx == txs[i]
           ins == tx.ins
           v == SpentBy(txs, V, i - 1)
           lost == {j \in DOMAIN ins : Expired(ins[j]) /\ PkScript[ins[j]] = s}
           paid == [j \in DOMAIN tx.outs |-> tx.outs[j].value]
           share == SumFunctionOnSet([j \in DOMAIN ins |-> Share(ins[j])], lost)
<1>2. /\ tx.reap \in BOOLEAN /\ ins \in Seq(OutPoint)
      /\ \A j \in DOMAIN ins : ins[j] \in OutPoint
  BY TxFields DEF Inv, TypeOK
<1>3. checkExpirySpendRules(tx, NextHeight, v) /\ checkReapTaxRules(tx, NextHeight, v)
  BY <1>1 DEF Inv, checkConnectBlock, CheckTransactionInputs
<1>4. NextHeight \in Nat /\ V \in Ages
  BY Arithmetic DEF Inv
<1>5. CASE ~tx.reap
  <2>1. ASSUME NEW j \in DOMAIN ins, Expired(ins[j])  PROVE FALSE
    <3>1. ins[j] \in Range(ins) /\ ins[j] \in OutPoint
      BY <1>2 DEF Range
    <3>2. v[ins[j]] # None /\ ~(NextHeight >= Expiry(v, ins[j]))
      BY <1>1, <1>3, <1>5, <3>1 DEF checkExpirySpendRules
    <3>3. v[ins[j]] = V[ins[j]]
      BY <3>1, <3>2 DEF SpentBy
    <3>4. V[ins[j]] \in Int
      BY <1>4, <3>1 DEF Ages
    <3> QED  BY <1>4, <2>1, <3>2, <3>3, <3>4, ParamAssumption DEF Expired, Expiry, CalculateExpiryKey
  <2>2. lost = {}
    BY <2>1
  <2> QED  BY <2>2
<1>6. CASE tx.reap
  <2>1. /\ {tx.outs[j].script : j \in DOMAIN tx.outs} = Refunded(ins)
        /\ \A t \in Refunded(ins) : PaidTo(tx, t) = RefundByScript(ins, t)
    BY <1>1, <1>3, <1>6 DEF checkReapTaxRules
  <2>2. lost \in SUBSET {j \in DOMAIN ins : PkScript[ins[j]] = s}
    OBVIOUS
  <2>3. s \notin Refunded(ins) => PaidTo(tx, s) = 0
    <3>1. s \notin Refunded(ins) => {j \in DOMAIN tx.outs : tx.outs[j].script = s} = {}
      BY <2>1
    <3> HIDE DEF tx
    <3> QED  BY <3>1, SumEmpty DEF PaidTo
  <2> HIDE DEF lost, ins
  <2>4. /\ share \in Int /\ RefundByScript(ins, s) \in Int /\ share <= RefundByScript(ins, s)
        /\ s \notin Refunded(ins) => RefundByScript(ins, s) = 0
    BY <1>2, <2>2, ShareIsRefunded
  <2>5. PaidTo(tx, s) = RefundByScript(ins, s)
    BY <2>1, <2>3, <2>4
  <2>6. PaidTo(tx, s) >= share
    BY <2>4, <2>5
  <2> QED  BY <2>6 DEF ins, lost
<1> QED  BY <1>2, <1>5, <1>6

-----------------------------------------------------------------------------
(* The transaction that the miner builds.                                    *)

\* The longest prefix that fits is one that fits.
LEMMA LongestIn ==
    ASSUME NEW k \in Nat, NEW N \in SUBSET (0..k), N # {}
    PROVE  Longest(N) \in N /\ \A m \in N : m <= Longest(N)
<1> DEFINE D == {k - m : m \in N}
<1>0. \A m \in N : m \in Nat /\ m <= k
  BY SMT
<1>1. D \in SUBSET Nat /\ D # {}
  <2>1. \A m \in N : k - m \in Nat
    BY <1>0, SMT
  <2> QED  BY <2>1, Zenon
<1>2. PICK d \in D : \A m \in D : d <= m
  <2> HIDE DEF D
  <2> QED  BY <1>1, LeastNumber
<1>3. PICK n \in N : d = k - n
  BY <1>2
<1>4. ASSUME NEW m \in N PROVE m <= n
  <2>1. k - m \in D
    OBVIOUS
  <2>2. k - n <= k - m
    BY <1>2, <1>3, <2>1
  <2> QED  BY <1>0, <1>3, <2>2, SMT
<1> QED  BY <1>3, <1>4 DEF Longest

\* A prefix of a prefix.
LEMMA PrefixOfPrefix ==
    ASSUME NEW T, NEW s \in Seq(T), NEW m \in Nat, m <= Len(s), NEW n \in Nat, n <= m
    PROVE  SubSeq(SubSeq(s, 1, m), 1, n) = SubSeq(s, 1, n)
  BY SMT

\* BuildBlueprint orders the scripts that it pays strictly.
LEMMA ScriptOrders ==
    ASSUME NEW S \in SUBSET Script
    PROVE  Orders(ScriptOrder, S)
<1>1. \A s \in Script : ScriptRank[s] \in Int
  BY ReapAssumption, SMT
<1>2. \A s, t \in Script : ScriptRank[s] = ScriptRank[t] => s = t
  BY ReapAssumption
<1>3. \A s, t \in Script : <<s, t>> \in ScriptOrder <=> ScriptRank[s] < ScriptRank[t]
  BY DEF ScriptOrder
<1> QED  BY <1>1, <1>2, <1>3, SMT DEF Orders

\* The outputs of a blueprint: one for each refunded script, in some order.
LEMMA BlueprintOutputs ==
    ASSUME NEW ins \in Seq(OutPoint), NEW h
    PROVE  LET scripts == InOrder(Refunded(ins), ScriptOrder)
               outs == BuildBlueprint(ins, h).outs IN
           /\ IsFiniteSet(Refunded(ins)) /\ Len(scripts) \in Nat
           /\ DOMAIN outs = 1..Len(scripts) /\ IsFiniteSet(DOMAIN outs)
           /\ \A i \in DOMAIN outs : /\ scripts[i] \in Refunded(ins)
                                     /\ outs[i].script = scripts[i]
                                     /\ outs[i].value = RefundByScript(ins, scripts[i])
           /\ \A i, j \in DOMAIN outs : scripts[i] = scripts[j] => i = j
           /\ \A s \in Refunded(ins) : \E i \in DOMAIN outs : scripts[i] = s
<1> DEFINE scripts == InOrder(Refunded(ins), ScriptOrder)
           outs == BuildBlueprint(ins, h).outs
           S == {j \in DOMAIN ins : Refunds(ins)[j] > 0}
<1>1. IsFiniteSet(S)
  BY RefundsAre, FS_Subset
<1>2. Refunded(ins) = {PkScript[ins[i]] : i \in S}
  BY DEF Refunded
<1>3. IsFiniteSet(Refunded(ins)) /\ Refunded(ins) \in SUBSET Script
  <2> DEFINE f == [i \in S |-> PkScript[ins[i]]]
  <2>1. \A i \in S : PkScript[ins[i]] \in Script
    BY RefundsAre, ReapAssumption
  <2>2. f \in Surjection(S, Refunded(ins))
    BY <1>2 DEF Surjection
  <2>3. IsFiniteSet(Refunded(ins))
    <3> HIDE DEF f, S
    <3> QED  BY <1>1, <2>2, FS_Surjection
  <2> QED  BY <1>2, <2>1, <2>3
<1>4. Orders(ScriptOrder, Refunded(ins))
  BY <1>3, ScriptOrders
<1>5. /\ scripts \in Seq(Refunded(ins)) /\ Len(scripts) \in Nat
      /\ \A i \in 1..Len(scripts) : scripts[i] \in Refunded(ins)
      /\ \A i, j \in 1..Len(scripts) : i < j <=> <<scripts[i], scripts[j]>> \in ScriptOrder
      /\ \A x \in Refunded(ins) : \E i \in 1..Len(scripts) : scripts[i] = x
  BY <1>3, <1>4, InOrderLists, SMT
<1>6. outs = [i \in DOMAIN scripts |->
                 [script |-> scripts[i], value |-> RefundByScript(ins, scripts[i])]]
  BY DEF BuildBlueprint
<1> HIDE DEF scripts, outs
<1>7. DOMAIN scripts = 1..Len(scripts)
  BY <1>5, SMT
<1>8. \A i, j \in 1..Len(scripts) : scripts[i] = scripts[j] => i = j
  <2>1. \A x \in Refunded(ins) : <<x, x>> \notin ScriptOrder
    BY <1>4 DEF Orders
  <2>2. \A i, j \in 1..Len(scripts) : scripts[i] = scripts[j] => ~(i < j)
    BY <1>5, <2>1
  <2> QED  BY <2>2, SMT
<1>9. /\ DOMAIN outs = 1..Len(scripts)
      /\ \A i \in DOMAIN outs : /\ outs[i].script = scripts[i]
                                /\ outs[i].value = RefundByScript(ins, scripts[i])
  BY <1>6, <1>7
<1>10. IsFiniteSet(DOMAIN outs)
  BY <1>5, <1>9, OneTo
<1> QED  BY <1>3, <1>5, <1>8, <1>9, <1>10 DEF scripts, outs

\* Every output of the REAP transaction pays something.
LEMMA RefundedIsPositive ==
    ASSUME NEW ins \in Seq(OutPoint), NEW s \in Refunded(ins)
    PROVE  RefundByScript(ins, s) \in Int /\ RefundByScript(ins, s) > 0
<1> DEFINE I == {i \in DOMAIN ins : PkScript[ins[i]] = s}
           r == Refunds(ins)
<1>1. PICK j \in DOMAIN ins : r[j] > 0 /\ PkScript[ins[j]] = s
  BY DEF Refunded
<1>2. j \in I /\ I \in SUBSET DOMAIN ins
  BY <1>1
<1>3. \A i \in I : r[i] \in Nat
  BY RefundsAre
<1>4. RefundByScript(ins, s) = SumFunctionOnSet(r, I)
  BY DEF RefundByScript
<1> HIDE DEF I, r
<1>5. IsFiniteSet(I)
  BY <1>2, RefundsAre, FS_Subset
<1>6. Numbers(r, I)
  BY <1>3, SMT DEF Numbers
<1>7. SumFunctionOnSet(r, I) = r[j] + SumFunctionOnSet(r, I \ {j})
  BY <1>2, <1>5, <1>6, SumRemove, SMT
<1>8. I \ {j} \in SUBSET I
  OBVIOUS
<1>9. SumFunctionOnSet(r, I \ {j}) \in Nat
  BY <1>3, <1>5, <1>8, SumSubset
<1>10. r[j] \in Nat
  BY <1>2, <1>3
<1> QED  BY <1>1, <1>4, <1>7, <1>9, <1>10, SMT

\* What the miner pays out is what the consensus rules demand.
LEMMA BlueprintPaysRefunds ==
    ASSUME NEW ins \in Seq(OutPoint), NEW h
    PROVE  LET tx == BuildBlueprint(ins, h) IN
           /\ \A i \in DOMAIN tx.outs : tx.outs[i].value > 0
           /\ OutTotal(tx) = SumFunction(Refunds(ins))
           /\ {tx.outs[i].script : i \in DOMAIN tx.outs} = Refunded(ins)
           /\ \A s \in Refunded(ins) : PaidTo(tx, s) = RefundByScript(ins, s)
<1> DEFINE tx == BuildBlueprint(ins, h)
           outs == tx.outs
           scripts == InOrder(Refunded(ins), ScriptOrder)
           D == DOMAIN outs
           val == [i \in D |-> outs[i].value]
           g == [s \in Refunded(ins) |-> RefundByScript(ins, s)]
           k == [i \in DOMAIN ins |-> PkScript[ins[i]]]
           r == Refunds(ins)
<1>1. /\ IsFiniteSet(Refunded(ins)) /\ IsFiniteSet(D)
      /\ \A i \in D : /\ scripts[i] \in Refunded(ins)
                      /\ outs[i].script = scripts[i]
                      /\ outs[i].value = RefundByScript(ins, scripts[i])
      /\ \A i, j \in D : scripts[i] = scripts[j] => i = j
      /\ \A s \in Refunded(ins) : \E i \in D : scripts[i] = s
  BY BlueprintOutputs
<1>2. OutTotal(tx) = SumFunctionOnSet(val, D)
  BY DEF OutTotal, SumFunction, SumFunctionOnSet, FoldFunction
<1>3. \A s \in Refunded(ins) :
          PaidTo(tx, s) = SumFunctionOnSet(val, {i \in D : outs[i].script = s})
  BY DEF PaidTo
<1>4. SumFunction(r) = SumFunctionOnSet(r, DOMAIN ins)
  BY DEF SumFunction, SumFunctionOnSet, FoldFunction, Refunds
<1> HIDE DEF scripts, tx
<1>5. \A i \in D : outs[i].value \in Int /\ outs[i].value > 0
  BY <1>1, RefundedIsPositive, SMT
<1>6. {outs[i].script : i \in D} = Refunded(ins)
  BY <1>1, SMT
<1>7. ASSUME NEW s \in Refunded(ins)
      PROVE  SumFunctionOnSet(val, {i \in D : outs[i].script = s}) = RefundByScript(ins, s)
  <2>1. PICK i \in D : scripts[i] = s
    BY <1>1
  <2>2. {j \in D : outs[j].script = s} = {i}
    BY <1>1, <2>1, SMT
  <2>3. val[i] = RefundByScript(ins, s) /\ val[i] \in Int
    BY <1>1, <1>5, <2>1
  <2>a. SumFunctionOnSet(val, {j \in D : outs[j].script = s}) = SumFunctionOnSet(val, {i})
    BY <2>2, Zenon
  <2> HIDE DEF val
  <2>4. IsFiniteSet({i}) /\ {i} \ {i} = {} /\ Numbers(val, {i})
    BY <2>3, FS_Singleton DEF Numbers
  <2>5. SumFunctionOnSet(val, {i}) = val[i] + SumFunctionOnSet(val, {i} \ {i})
    BY <2>4, SumRemove
  <2>6. SumFunctionOnSet(val, {i}) = val[i] + 0
    BY <2>4, <2>5, SumEmpty
  <2>7. SumFunctionOnSet(val, {i}) = RefundByScript(ins, s)
    BY <2>3, <2>6, SMT
  <2> QED  BY <2>7, <2>a, Zenon
<1>8. SumFunctionOnSet(val, D) = SumFunctionOnSet(g, Refunded(ins))
  <2>1. \A x \in D : val[x] = g[scripts[x]]
    BY <1>1
  <2>2. Numbers(val, D)
    BY <1>5 DEF Numbers
  <2>3. {scripts[x] : x \in D} = Refunded(ins)
    BY <1>1, SMTT(30)
  <2> HIDE DEF val, g, D
  <2>4. SumFunctionOnSet(val, D) = SumFunctionOnSet(g, {scripts[x] : x \in D})
    BY <1>1, <2>1, <2>2, SumRenamed, SMT
  <2> QED  BY <2>3, <2>4
<1>9. SumFunctionOnSet(g, Refunded(ins)) = SumFunctionOnSet(r, DOMAIN ins)
  <2>1. IsFiniteSet(DOMAIN ins) /\ \A x \in DOMAIN ins : r[x] \in Nat
    BY RefundsAre
  <2>2. \A x \in DOMAIN ins : r[x] # 0 => k[x] \in Refunded(ins)
    BY <2>1, SMT DEF Refunded
  <2>3. ASSUME NEW s \in Refunded(ins)
        PROVE  g[s] = SumFunctionOnSet(r, Group(k, DOMAIN ins, s))
    <3>1. Group(k, DOMAIN ins, s) = {x \in DOMAIN ins : PkScript[ins[x]] = s}
      BY DEF Group
    <3>2. g[s] = RefundByScript(ins, s)
      OBVIOUS
    <3> HIDE DEF k, g
    <3> QED  BY <3>1, <3>2 DEF RefundByScript
  <2>4. \A s \in Refunded(ins) : g[s] = SumFunctionOnSet(r, Group(k, DOMAIN ins, s))
    BY <2>3
  <2> DEFINE S == DOMAIN ins
             K == Refunded(ins)
  <2>5. /\ IsFiniteSet(S) /\ IsFiniteSet(K)
        /\ \A x \in S : r[x] \in Nat
        /\ \A x \in S : r[x] # 0 => k[x] \in K
        /\ \A s \in K : g[s] = SumFunctionOnSet(r, Group(k, S, s))
    BY <1>1, <2>1, <2>2, <2>4, Zenon
  <2> HIDE DEF g, k, r, S, K
  <2>6. SumFunctionOnSet(g, K) = SumFunctionOnSet(r, S)
    BY <2>5, SumGroups, SMT
  <2> QED  BY <2>6 DEF S, K
<1>10. OutTotal(tx) = SumFunction(r)
  BY <1>2, <1>4, <1>8, <1>9
<1>11. \A s \in Refunded(ins) : PaidTo(tx, s) = RefundByScript(ins, s)
  BY <1>3, <1>7
<1> QED  BY <1>5, <1>6, <1>10, <1>11 DEF tx

\* A prefix of the candidates is the list of candidates of its own length.
LEMMA PrefixOfCandidates ==
    ASSUME NEW v \in Ages, NEW h, NEW lim \in Nat, NEW n \in Nat,
           n <= Len(ReapPrefixCandidates(v, h, lim))
    PROVE  SubSeq(ReapPrefixCandidates(v, h, lim), 1, n) = ReapPrefixCandidates(v, h, n)
<1> DEFINE all == InOrder(ExpiredRows(v, h), ReapOrder(v))
           m == IF lim < Len(all) THEN lim ELSE Len(all)
<1>1. all \in Seq(OutPoint) /\ Len(all) \in Nat /\ Len(ReapPrefixCandidates(v, h, lim)) = m
  BY Candidates
<1>2. /\ ReapPrefixCandidates(v, h, lim) = SubSeq(all, 1, m)
      /\ ReapPrefixCandidates(v, h, n) = SubSeq(all, 1, IF n < Len(all) THEN n ELSE Len(all))
  BY DEF ReapPrefixCandidates
<1> HIDE DEF all
<1>3. m \in Nat /\ m <= Len(all) /\ n <= m
  BY <1>1, SMT
<1>4. (IF n < Len(all) THEN n ELSE Len(all)) = n
  BY <1>1, <1>3, SMT
<1>5. SubSeq(SubSeq(all, 1, m), 1, n) = SubSeq(all, 1, n)
  BY <1>1, <1>3, PrefixOfPrefix
<1> QED  BY <1>2, <1>4, <1>5

\* Facts about the inputs of a prefix of the expired rows.
LEMMA CandidateInputs ==
    ASSUME NEW v \in Ages, NEW h, NEW n \in Nat
    PROVE  LET ins == ReapPrefixCandidates(v, h, n) IN
           /\ ins \in Seq(OutPoint)
           /\ \A i \in DOMAIN ins : /\ ins[i] \in OutPoint /\ v[ins[i]] # None
                                    /\ h >= Expiry(v, ins[i])
                                    /\ i > 1 => ~ReapLess(v, ins[i], ins[i-1])
<1> DEFINE ins == ReapPrefixCandidates(v, h, n)
           all == InOrder(ExpiredRows(v, h), ReapOrder(v))
<1>1. /\ ins \in Seq(OutPoint) /\ Len(all) \in Nat
      /\ \A i \in 1..Len(ins) : i \in 1..Len(all) /\ ins[i] = all[i]
      /\ \A i \in 1..Len(all) : all[i] \in ExpiredRows(v, h)
      /\ \A i, j \in 1..Len(all) : i < j <=> ReapLess(v, all[i], all[j])
  BY Candidates, ZenonT(60)
<1> HIDE DEF ins, all
<1>2. ASSUME NEW i \in DOMAIN ins
      PROVE  /\ ins[i] \in OutPoint /\ v[ins[i]] # None /\ h >= Expiry(v, ins[i])
             /\ i > 1 => ~ReapLess(v, ins[i], ins[i-1])
  <2>1. i \in 1..Len(ins) /\ i \in 1..Len(all) /\ ins[i] = all[i] /\ Len(ins) \in Nat
    BY <1>1, SMT
  <2>2. ins[i] \in ExpiredRows(v, h)
    BY <1>1, <2>1
  <2>3. v[ins[i]] > 0 /\ Expiry(v, ins[i]) <= h /\ ins[i] \in OutPoint
    BY <2>2 DEF ExpiredRows, shouldIndexCreateHeight
  <2>4. ASSUME i > 1 PROVE ~ReapLess(v, ins[i], ins[i-1])
    <3>1. i - 1 \in 1..Len(ins)
      BY <2>1, <2>4, SMT
    <3>2. i - 1 \in 1..Len(all) /\ ins[i-1] = all[i-1]
      BY <1>1, <3>1
    <3>3. ~(i < i - 1)
      BY <2>1, SMT
    <3> QED  BY <1>1, <2>1, <3>2, <3>3
  <2>5. v[ins[i]] # None
    BY <2>3, SMT DEF None
  <2>6. h >= Expiry(v, ins[i])
    BY <2>3
  <2> QED  BY <2>3, <2>4, <2>5, <2>6
<1> QED  BY <1>1, <1>2 DEF ins

\* The REAP transaction of the miner pays out no more than it spends.
LEMMA InputsCoverOutputs ==
    ASSUME NEW ins \in Seq(OutPoint), NEW h
    PROVE  InTotal(BuildBlueprint(ins, h)) >= OutTotal(BuildBlueprint(ins, h))
<1> DEFINE r == Refunds(ins)
           a == [i \in DOMAIN ins |-> Amount[ins[i]]]
<1>1. InTotal(BuildBlueprint(ins, h)) = SumFunctionOnSet(a, DOMAIN ins)
  BY DEF InTotal, BuildBlueprint, SumFunction
<1>2. OutTotal(BuildBlueprint(ins, h)) = SumFunctionOnSet(r, DOMAIN ins)
  <2>1. OutTotal(BuildBlueprint(ins, h)) = SumFunction(r)
    BY BlueprintPaysRefunds
  <2>2. DOMAIN r = DOMAIN ins
    BY DEF Refunds
  <2> HIDE DEF r
  <2> QED  BY <2>1, <2>2 DEF SumFunction
<1>3. /\ IsFiniteSet(DOMAIN ins)
      /\ \A i \in DOMAIN ins : ins[i] \in OutPoint /\ r[i] \in Nat /\ r[i] <= Amount[ins[i]]
  BY RefundsAre
<1>4. \A i \in DOMAIN ins : a[i] \in Int /\ r[i] \in Int /\ r[i] <= a[i]
  BY <1>3, TxAssumption, SMT
<1>5. Numbers(a, DOMAIN ins) /\ Numbers(r, DOMAIN ins)
  BY <1>4 DEF Numbers
<1> HIDE DEF a, r
<1>6. SumFunctionOnSet(r, DOMAIN ins) <= SumFunctionOnSet(a, DOMAIN ins)
  BY <1>3, <1>4, <1>5, SumSmaller
<1>7. SumFunctionOnSet(r, DOMAIN ins) \in Int /\ SumFunctionOnSet(a, DOMAIN ins) \in Int
  BY <1>3, <1>5, SumType
<1> QED  BY <1>1, <1>2, <1>6, <1>7

\* A blueprint of the first candidates is accepted when no limit was reached
\* before its last input and its weight is within the limit.
LEMMA BlueprintAccepted ==
    ASSUME NEW v \in Ages, NEW h \in Nat, h >= EnableAtHeight, NEW n \in Nat \ {0},
           NEW ins, ins = ReapPrefixCandidates(v, h, n), Len(ins) = n,
           \A i \in 1..n : ~CapReached(SubSeq(ins, 1, i - 1)),
           ReapMaxWeight > 0 => Weight(ins, BuildBlueprint(ins, h).outs) <= ReapMaxWeight
    PROVE  checkConnectBlock(<<BuildBlueprint(ins, h)>>, h, v)
<1> DEFINE tx == BuildBlueprint(ins, h)
           t == <<tx>>
<1>1. /\ ins \in Seq(OutPoint)
      /\ \A i \in DOMAIN ins : /\ ins[i] \in OutPoint /\ v[ins[i]] # None
                               /\ h >= Expiry(v, ins[i])
                               /\ i > 1 => ~ReapLess(v, ins[i], ins[i-1])
  BY CandidateInputs
<1>2. /\ tx.reap = TRUE /\ tx.ins = ins
      /\ tx.marker = [height |-> h, count |-> Len(ins), digest |-> ins]
  BY DEF BuildBlueprint
<1>3. DOMAIN t = {1} /\ t[1] = tx
  BY SMT
<1>4. SpentBy(t, v, 1 - 1) = v
  <2>1. 1..(1 - 1) = {}
    BY SMT
  <2> QED  BY <2>1 DEF SpentBy, Ages
<1>5. \A o \in Range(ins) : v[o] # None /\ h >= Expiry(v, o)
  BY <1>1 DEF Range
<1>6. checkReapTaxRules(tx, h, v)
  <2>1. /\ \A i \in DOMAIN tx.outs : tx.outs[i].value > 0
        /\ OutTotal(tx) = SumFunction(Refunds(ins))
        /\ {tx.outs[i].script : i \in DOMAIN tx.outs} = Refunded(ins)
        /\ \A s \in Refunded(ins) : PaidTo(tx, s) = RefundByScript(ins, s)
    BY <1>1, BlueprintPaysRefunds
  <2> HIDE DEF tx
  <2> QED  BY <1>2, <1>5, <2>1 DEF checkReapTaxRules
<1>7. InTotal(tx) >= OutTotal(tx)
  BY <1>1, InputsCoverOutputs
<1>8. ReapMaxWeight > 0 => Weight(tx.ins, tx.outs) <= ReapMaxWeight
  BY <1>2
<1> HIDE DEF tx
<1>9. checkReapConsensusHardening(tx, h, v)
  <2>1. ReapDustMaxInputs = 0 => Len(ins) <= ReapMaxInputs
    <3>1. n \in 1..n /\ n - 1 \in Nat /\ n - 1 <= Len(ins)
      BY SMT
    <3>2. ~CapReached(SubSeq(ins, 1, n - 1))
      BY <3>1
    <3>3. Len(SubSeq(ins, 1, n - 1)) = n - 1
      BY <1>1, <3>1, PrefixOf
    <3>4. ReapDustMaxInputs = 0 => ~(n - 1 >= ReapMaxInputs)
      BY <3>2, <3>3 DEF CapReached
    <3> QED  BY <3>4, ReapAssumption, SMT
  <2>2. ReapDustMaxInputs > 0 => \A i \in DOMAIN ins : ~TierLimitReached(SubSeq(ins, 1, i - 1))
    <3>1. DOMAIN ins = 1..n
      BY <1>1, SMTT(30)
    <3>2. ReapDustMaxInputs > 0 => ReapDustMaxInputs # 0
      BY ReapAssumption, SMT
    <3> QED  BY <3>1, <3>2 DEF CapReached
  <2>3. \A i \in DOMAIN ins : /\ v[ins[i]] # None
                              /\ i > 1 => ~ReapLess(v, ins[i], ins[i-1])
    BY <1>1
  <2> QED  BY <1>2, <1>8, <2>1, <2>2, <2>3, Zenon DEF checkReapConsensusHardening
<1>10. CheckTransactionInputs(tx, h, v)
  <2>1. checkReapMarker(tx, h)
    BY <1>2 DEF checkReapMarker
  <2>2. checkExpirySpendRules(tx, h, v)
    BY <1>2, <1>5 DEF checkExpirySpendRules
  <2> QED  BY <1>2, <1>5, <1>6, <1>7, <1>9, <2>1, <2>2 DEF CheckTransactionInputs
<1>11. checkReapBlockHardening(t, h)
  BY <1>3 DEF checkReapBlockHardening
<1>12. checkReapGlobalPrefix(t, h, v)
  BY <1>2, <1>3 DEF checkReapGlobalPrefix
<1>13. \A i \in DOMAIN t : CheckTransactionInputs(t[i], h, SpentBy(t, v, i - 1))
  BY <1>3, <1>4, <1>10
<1> HIDE DEF t
<1>14. checkConnectBlock(t, h, v)
  BY <1>11, <1>12, <1>13 DEF checkConnectBlock
<1> QED  BY <1>14 DEF t, tx

\* An empty block passes: the miner may go without a REAP transaction.
LEMMA NothingAccepted ==
    ASSUME NEW h, NEW v
    PROVE  checkConnectBlock(<<>>, h, v)
<1>1. DOMAIN <<>> = {}
  BY SMT
<1> QED  BY <1>1 DEF checkConnectBlock, checkReapBlockHardening, checkReapGlobalPrefix

\* The first candidate is always selected: no limit is reached by no inputs.
LEMMA FirstIsTaken ==
    ASSUME NEW cands \in Seq(OutPoint)
    PROVE  Takes(cands, 1)
<1> DEFINE e == SubSeq(cands, 1, 1 - 1)
<1>1. Len(e) = 0 /\ DOMAIN e = {}
  BY SMT
<1> HIDE DEF e
<1>2. {i \in DOMAIN e : IsDust(Amount[e[i]])} = {}
  BY <1>1
<1>3. DustCount(e) = 0
  BY <1>2, FS_EmptySet DEF DustCount
<1>4. NormalCount(e) = 0
  BY <1>1, <1>3, SMT DEF NormalCount
<1>5. ~CapReached(e)
  BY <1>1, <1>3, <1>4, ReapAssumption, SMTT(30) DEF CapReached, TierLimitReached
<1>6. ~(1 > 1)
  BY SMT
<1> QED  BY <1>5, <1>6 DEF Takes, e

\* SelectPrefixCandidates keeps a prefix of the candidates, each of which it
\* takes, and at least one when there is one.
LEMMA Selected ==
    ASSUME NEW cands \in Seq(OutPoint)
    PROVE  \E n \in 0..Len(cands) :
               /\ SelectPrefixCandidates(cands) = SubSeq(cands, 1, n)
               /\ \A i \in 1..n : Takes(cands, i)
               /\ Len(cands) > 0 => n > 0
<1> DEFINE k == Len(cands)
           N == {n \in 0..k : \A i \in 1..n : Takes(cands, i)}
           n == Longest(N)
<1>1. k \in Nat
  BY SMT
<1>2. N \in SUBSET (0..k)
  OBVIOUS
<1>3. 0 \in N
  <2>1. 0 \in 0..k /\ 1..0 = {}
    BY <1>1, SMT
  <2> QED  BY <2>1
<1>4. k > 0 => 1 \in N
  <2>1. k > 0 => 1 \in 0..k
    BY <1>1, SMT
  <2>2. \A i \in 1..1 : i = 1
    BY SMT
  <2> QED  BY <2>1, <2>2, FirstIsTaken
<1>5. SelectPrefixCandidates(cands) = SubSeq(cands, 1, n)
  BY DEF SelectPrefixCandidates
<1>6. n \in N /\ \A m \in N : m <= n
  <2> HIDE DEF N
  <2> QED  BY <1>1, <1>2, <1>3, LongestIn
<1>7. n \in 0..k /\ \A i \in 1..n : Takes(cands, i)
  BY <1>6
<1>8. k > 0 => 1 <= n
  BY <1>4, <1>6
<1> HIDE DEF n, N
<1>9. k > 0 => n > 0
  BY <1>7, <1>8, SMT
<1> QED  BY <1>5, <1>7, <1>9

\* A sequence of one element.
LEMMA OneElement ==
    ASSUME NEW T, NEW s \in Seq(T), Len(s) = 1
    PROVE  s = <<s[1]>>
  BY SMT

\* MinedReapAccepted follows from the invariant: what the miner builds from the candidates
\* passes every check of the validation.
LEMMA MinedReapAcceptedHolds ==
    ASSUME Inv
    PROVE  MinedReapAccepted
<1>1. SUFFICES ASSUME NextHeight >= EnableAtHeight
               PROVE  /\ checkConnectBlock(Mined, NextHeight, V)
                      /\ Mined = <<>> =>
                            \A o \in OutPoint : Expired(o) =>
                                \E p \in OutPoint : Expired(p) /\
                                    LET w == Weight(<<p>>, BuildBlueprint(<<p>>, NextHeight).outs)
                                    IN  \/ MaxTxWeight > 0 /\ w >= MaxTxWeight
                                        \/ ReapMaxWeight > 0 /\ w > ReapMaxWeight
  BY DEF MinedReapAccepted
<1> DEFINE h == NextHeight
           v == V
           cands == ReapPrefixCandidates(v, h, PrefixCandidateLimit)
           plan == SelectPrefixCandidates(cands)
           N == {n \in 1..Len(plan) : Fits(plan, n, h, MaxTxWeight)}
<1>2. /\ h \in Nat /\ v \in Ages /\ h >= EnableAtHeight
      /\ \A o \in OutPoint : Expired(o) <=> o \in ExpiredRows(v, h)
  BY <1>1, Arithmetic DEF Inv
<1>3. PrefixCandidateLimit \in Nat \ {0}
  BY ReapAssumption, SMT DEF PrefixCandidateLimit
<1>4. Mined = IF N = {} THEN <<>> ELSE <<BuildBlueprint(Trimmed(plan, Longest(N)), h)>>
  BY DEF Mined, BuildBudgetedBlueprint
<1>5. checkConnectBlock(<<>>, h, v)
  BY NothingAccepted
<1> HIDE DEF h, v
<1>6. cands \in Seq(OutPoint)
  BY <1>2, <1>3, CandidateInputs
<1> HIDE DEF cands
<1>7. PICK l \in 0..Len(cands) :
               /\ plan = SubSeq(cands, 1, l)
               /\ \A i \in 1..l : Takes(cands, i)
               /\ Len(cands) > 0 => l > 0
  BY <1>6, Selected
<1>8. Len(cands) \in Nat /\ l \in Nat /\ l <= Len(cands)
  BY <1>6, SMT
<1>9. plan \in Seq(OutPoint) /\ Len(plan) = l
  BY <1>6, <1>7, <1>8, PrefixOf, SMT
<1> HIDE DEF plan
<1>10. ASSUME NEW n \in 1..l
       PROVE  /\ n \in Nat \ {0} /\ n <= Len(cands)
              /\ Trimmed(plan, n) = SubSeq(cands, 1, n)
              /\ Trimmed(plan, n) = ReapPrefixCandidates(v, h, n)
              /\ Len(Trimmed(plan, n)) = n
  <2>1. n \in Nat \ {0} /\ n <= l /\ n <= Len(cands)
    BY <1>8, SMT
  <2>2. SubSeq(plan, 1, n) = SubSeq(cands, 1, n)
    BY <1>6, <1>7, <1>8, <2>1, PrefixOfPrefix
  <2>3. SubSeq(cands, 1, n) = ReapPrefixCandidates(v, h, n)
    BY <1>2, <1>3, <2>1, PrefixOfCandidates DEF cands
  <2>4. Len(SubSeq(cands, 1, n)) = n
    BY <1>6, <2>1, PrefixOf
  <2> QED  BY <2>1, <2>2, <2>3, <2>4 DEF Trimmed
<1>11. ASSUME N # {}
       PROVE  checkConnectBlock(Mined, h, v)
  <2> DEFINE n == Longest(N)
             ins == Trimmed(plan, n)
  <2>1. N \in SUBSET (0..l)
    BY <1>8, <1>9, SMT
  <2>2. n \in N
    <3> HIDE DEF N
    <3> QED  BY <1>8, <1>11, <2>1, LongestIn
  <2>3. n \in 1..l /\ Fits(plan, n, h, MaxTxWeight)
    BY <1>9, <2>2
  <2> HIDE DEF N, n
  <2>4. /\ n \in Nat \ {0} /\ n <= Len(cands) /\ ins = SubSeq(cands, 1, n)
        /\ ins = ReapPrefixCandidates(v, h, n) /\ Len(ins) = n
    BY <1>10, <2>3
  <2>5. ASSUME NEW i \in 1..n PROVE ~CapReached(SubSeq(ins, 1, i - 1))
    <3>1. i \in 1..l /\ i - 1 \in Nat /\ i - 1 <= n
      BY <1>8, <2>3, <2>4, SMT
    <3>2. ~CapReached(SubSeq(cands, 1, i - 1))
      BY <1>7, <3>1 DEF Takes
    <3>3. SubSeq(ins, 1, i - 1) = SubSeq(cands, 1, i - 1)
      BY <1>6, <2>4, <3>1, PrefixOfPrefix, SMT
    <3> QED  BY <3>2, <3>3
  <2>6. ReapMaxWeight > 0 => Weight(ins, BuildBlueprint(ins, h).outs) <= ReapMaxWeight
    <3>1. BuildBlueprint(ins, h).ins = ins
      BY DEF BuildBlueprint
    <3> HIDE DEF ins
    <3> QED  BY <2>3, <3>1 DEF Fits, ins
  <2> HIDE DEF ins
  <2>7. checkConnectBlock(<<BuildBlueprint(ins, h)>>, h, v)
    BY <1>2, <2>4, <2>5, <2>6, BlueprintAccepted
  <2> QED  BY <1>4, <1>11, <2>7 DEF ins, n
<1>12. checkConnectBlock(Mined, h, v)
  BY <1>4, <1>5, <1>11
<1>13. ASSUME Mined = <<>>, NEW o \in OutPoint, Expired(o)
       PROVE  \E p \in OutPoint : Expired(p) /\
                  LET w == Weight(<<p>>, BuildBlueprint(<<p>>, h).outs)
                  IN  \/ MaxTxWeight > 0 /\ w >= MaxTxWeight
                      \/ ReapMaxWeight > 0 /\ w > ReapMaxWeight
  <2>1. N = {}
    BY <1>4, <1>13, SMT
  <2> DEFINE all == InOrder(ExpiredRows(v, h), ReapOrder(v))
  <2>b. PrefixCandidateLimit \in Nat
    BY <1>3
  <2>2. /\ Len(all) \in Nat
        /\ Len(cands) = IF PrefixCandidateLimit < Len(all) THEN PrefixCandidateLimit ELSE Len(all)
        /\ \A i \in 1..Len(cands) : i \in 1..Len(all) /\ cands[i] = all[i]
        /\ \A i \in 1..Len(all) : all[i] \in ExpiredRows(v, h)
        /\ \A x \in ExpiredRows(v, h) : \E i \in 1..Len(all) : all[i] = x
    BY <1>2, <2>b, Candidates, SMT DEF cands
  <2> HIDE DEF all
  <2>3. Len(cands) > 0
    <3>1. o \in ExpiredRows(v, h)
      BY <1>2, <1>13
    <3>2. PICK i \in 1..Len(all) : all[i] = o
      BY <2>2, <3>1
    <3>3. Len(all) > 0
      BY <2>2, SMT
    <3> QED  BY <1>3, <2>2, <3>3, SMT
  <2>4. 1 \in 1..Len(cands) /\ 1 \in 1..l
    BY <1>7, <1>8, <2>3, SMT
  <2> DEFINE p == cands[1]
  <2>5. p \in ExpiredRows(v, h)
    BY <2>2, <2>4
  <2>a. p \in OutPoint
    BY <2>5 DEF ExpiredRows
  <2>6. p \in OutPoint /\ Expired(p)
    BY <1>2, <2>5, <2>a, Zenon
  <2>7. SubSeq(cands, 1, 1) = <<p>>
    <3>1. 1 <= Len(cands)
      BY <1>8, <2>3, SMT
    <3>2. /\ SubSeq(cands, 1, 1) \in Seq(OutPoint) /\ Len(SubSeq(cands, 1, 1)) = 1
          /\ \A i \in 1..1 : SubSeq(cands, 1, 1)[i] = cands[i]
      BY <1>6, <3>1, PrefixOf, SMT
    <3>3. SubSeq(cands, 1, 1)[1] = p
      BY <3>2, SMT
    <3>4. SubSeq(cands, 1, 1) = <<SubSeq(cands, 1, 1)[1]>>
      BY <3>2, OneElement
    <3> QED  BY <3>3, <3>4
  <2>8. Trimmed(plan, 1) = <<p>>
    BY <1>10, <2>4, <2>7
  <2>9. ~Fits(plan, 1, h, MaxTxWeight)
    BY <1>9, <2>1, <2>4
  <2> HIDE DEF p, N
  <2> DEFINE outs == BuildBlueprint(<<p>>, h).outs
             w == Weight(<<p>>, outs)
  <2>10. BuildBlueprint(<<p>>, h).ins = <<p>>
    BY DEF BuildBlueprint
  <2>11. \/ MaxTxWeight > 0 /\ ~(w < MaxTxWeight)
         \/ ReapMaxWeight > 0 /\ ~(w <= ReapMaxWeight)
    BY <2>8, <2>9, <2>10, Zenon DEF Fits
  <2>12. w \in Int
    <3>1. <<p>> \in Seq(OutPoint)
      BY <2>6, SMT
    <3>a. DOMAIN outs = 1..Len(InOrder(Refunded(<<p>>), ScriptOrder))
          /\ Len(InOrder(Refunded(<<p>>), ScriptOrder)) \in Nat
      BY <3>1, BlueprintOutputs
    <3>b. outs = [i \in DOMAIN InOrder(Refunded(<<p>>), ScriptOrder) |-> outs[i]]
      BY DEF BuildBlueprint
    <3> HIDE DEF outs
    <3>2. Len(outs) \in Nat
      BY <3>a, <3>b, SMT
    <3>3. Len(<<p>>) = 1
      OBVIOUS
    <3>4. {InputWeight, OutputWeight, BaseWeight} \subseteq Nat
      BY ReapAssumption
    <3> QED  BY <3>2, <3>3, <3>4, SMT DEF Weight
  <2>13. MaxTxWeight \in Nat /\ ReapMaxWeight \in Nat
    BY ReapAssumption, ProposalsAssumption
  <2> HIDE DEF outs
  <2>14. (MaxTxWeight > 0 /\ w >= MaxTxWeight) \/ (ReapMaxWeight > 0 /\ w > ReapMaxWeight)
    <3> HIDE DEF w
    <3> QED  BY <2>11, <2>12, <2>13, SMT
  <2> QED  BY <2>6, <2>14 DEF outs
<1> QED  BY <1>12, <1>13 DEF h, v

\* A block with the verdict accepted has passed checkConnectBlock on its tip.
THEOREM ReapInvariance == Spec => []Inv
<1>1. Init => Inv
  <2>1. <<>> \in Seq(Tx)
    BY SMT
  <2> QED  BY <2>1, TreeAssumption DEF Init, Inv, TypeOK, Accepted
<1>2. Inv /\ [Next]_vars => Inv'
  <2> SUFFICES ASSUME Inv, [Next]_vars PROVE Inv'
    OBVIOUS
  <2>1. ASSUME NEW tx \in Proposals[tip], AddTx(tx)  PROVE Inv'
    <3>1. tx \in Tx
      BY ProposalsAssumption DEF Inv, TypeOK
    <3>2. txs' \in Seq(Tx) /\ verdict' = "open" /\ tip' \in Block
      BY <2>1, <3>1, SMT DEF AddTx, Inv, TypeOK
    <3> QED  BY <3>2 DEF Inv, TypeOK, Accepted
  <2>2. CASE CheckConnectBlock
    <3>1. tip' = tip /\ txs' = txs
      BY <2>2 DEF CheckConnectBlock
    <3>2. NextHeight' = NextHeight /\ V' = V
      BY <3>1 DEF NextHeight, V
    <3>3. Accepted' => checkConnectBlock(txs, NextHeight, V)
      BY <2>2 DEF CheckConnectBlock, Accepted
    <3>4. TypeOK'
      BY <2>2, <3>1 DEF CheckConnectBlock, Inv, TypeOK
    <3>5. Accepted' => checkConnectBlock(txs', NextHeight', V')
      BY <3>1, <3>2, <3>3
    <3> QED  BY <3>4, <3>5 DEF Inv
  <2>3. ASSUME NEW b \in Block, NextBlock(b)  PROVE Inv'
    <3>1. <<>> \in Seq(Tx)
      BY SMT
    <3> QED  BY <2>3, <3>1 DEF NextBlock, Inv, TypeOK, Accepted
  <2>4. CASE Restart
    <3>1. <<>> \in Seq(Tx)
      BY SMT
    <3> QED  BY <2>4, <3>1 DEF Restart, Inv, TypeOK, Accepted
  <2>5. CASE UNCHANGED vars
    <3>1. tip' = tip /\ txs' = txs /\ verdict' = verdict
      BY <2>5 DEF vars
    <3>2. NextHeight' = NextHeight /\ V' = V /\ (Accepted' <=> Accepted)
      BY <3>1 DEF NextHeight, V, Accepted
    <3>3. TypeOK'
      BY <3>1 DEF Inv, TypeOK
    <3>4. Accepted' => checkConnectBlock(txs', NextHeight', V')
      BY <3>1, <3>2 DEF Inv
    <3> QED  BY <3>3, <3>4 DEF Inv
  <2> QED  BY <2>1, <2>2, <2>3, <2>4, <2>5 DEF Next
<1> QED  BY <1>1, <1>2, PTL DEF Spec

\* Every block that the validation accepts reaps the oldest expired outputs first
\* (OldestFirst), for every set of outputs, every limit and every tax.
THEOREM OldestAlwaysFirst == Spec => []OldestFirst
  BY ReapInvariance, OldestFirstHolds, PTL

\* Every accepted block reaps a bounded number of outputs with a bounded weight
\* (ReapIsBounded).
THEOREM ReapAlwaysBounded == Spec => []ReapIsBounded
  BY ReapInvariance, ReapIsBoundedHolds, PTL

\* Every accepted block pays the owners of the outputs it reaps what the tax leaves them
\* (OwnersKeepTheirShare).
THEOREM OwnersAlwaysKeepTheirShare == Spec => []OwnersKeepTheirShare
  BY ReapInvariance, OwnersKeepTheirShareHolds, PTL

\* On every tip the validation accepts what the miner selects, trims and builds
\* (MinedReapAccepted).
THEOREM MinedReapAlwaysAccepted == Spec => []MinedReapAccepted
  BY ReapInvariance, MinedReapAcceptedHolds, PTL
=============================================================================
