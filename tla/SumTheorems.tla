------------------------------ MODULE SumTheorems ------------------------------
(***************************************************************************)
(* Sums of natural numbers over finite sets, as SumFunction folds them: a  *)
(* sum is the number of units it adds up, so that facts about sums are     *)
(* facts about finite sets.                                                *)
(***************************************************************************)
EXTENDS FiniteSetsExt, FiniteSetTheorems, WellFoundedInduction, TLAPS

\* A set of natural numbers has a least element.
LEMMA LeastNat ==
  ASSUME NEW T \in SUBSET Nat, T # {}
  PROVE  \E x \in T : \A y \in T : x <= y
<1> DEFINE R == {ss \in Nat \X Nat : ss[1] < ss[2]}
<1>1. IsWellFoundedOn(R, Nat)
  BY NatLessThanWellFounded DEF OpToRel
<1>2. \A y, z \in Nat : <<y, z>> \in R <=> y < z
  OBVIOUS
<1> HIDE DEF R
<1>3. PICK x \in T : \A y \in T : ~ (<<y, x>> \in R)
  BY <1>1, WFMin
<1>4. x \in Nat /\ \A y \in T : y \in Nat
  OBVIOUS
<1>5. \A y \in T : ~(y < x)
  BY <1>2, <1>3, <1>4
<1> QED
  BY <1>4, <1>5

\* A finite one has a greatest element: the one with the fewest above it.
LEMMA GreatestNat ==
  ASSUME NEW T \in SUBSET Nat, T # {}, IsFiniteSet(T)
  PROVE  \E x \in T : \A y \in T : y <= x
<1> DEFINE Above(x) == {y \in T : y > x}
           Counts == {Cardinality(Above(x)) : x \in T}
<1>t. \A y \in T : y \in Nat
  OBVIOUS
<1>0. \A x \in T : IsFiniteSet(Above(x)) /\ Cardinality(Above(x)) \in Nat
  BY FS_Subset, FS_CardinalityType
<1>1. PICK n \in Counts : \A k \in Counts : n <= k
  <2>1. Counts \in SUBSET Nat /\ Counts # {}
    BY <1>0
  <2> HIDE DEF Counts
  <2> QED
    BY <2>1, LeastNat
<1>2. PICK x \in T : n = Cardinality(Above(x))
  BY <1>1
<1>3. SUFFICES ASSUME NEW y \in T, y > x
               PROVE  FALSE
  BY <1>t
<1>4. Above(y) \subseteq Above(x) /\ y \in Above(x) /\ y \notin Above(y)
  <2>1. \A z \in T : z > y => z > x
    BY <1>3, <1>t
  <2>2. ~(y > y)
    BY <1>t
  <2> QED
    BY <1>3, <2>1, <2>2
<1>5. Cardinality(Above(y)) < Cardinality(Above(x))
  <2> HIDE DEF Above
  <2>1. Above(y) # Above(x)
    BY <1>4
  <2> QED
    BY <1>0, <1>4, <2>1, FS_Subset
<1>6. Cardinality(Above(y)) \in Counts
  OBVIOUS
<1>7. Cardinality(Above(x)) <= Cardinality(Above(y))
  BY <1>1, <1>2, <1>6
<1>8. Cardinality(Above(x)) \in Nat /\ Cardinality(Above(y)) \in Nat
  BY <1>0
<1> HIDE DEF Above
<1> QED
  BY <1>5, <1>7, <1>8

--------------------------------------------------------------------------------

\* The units that the values of a function have on a set.
UnitsOf(f, s) == {p \in s \X Nat : p[2] \in 1 .. f[p[1]]}

\* A function that can be summed.
Summable(f) == IsFiniteSet(DOMAIN f) /\ \A x \in DOMAIN f : f[x] \in Nat

\* There are finitely many units.
LEMMA UnitsFinite ==
  ASSUME NEW f, Summable(f), NEW s \in SUBSET DOMAIN f
  PROVE  IsFiniteSet(UnitsOf(f, s)) /\ Cardinality(UnitsOf(f, s)) \in Nat
<1> DEFINE S == DOMAIN f
           T == {f[x] : x \in S}
<1>1. IsFiniteSet(S) /\ \A x \in S : f[x] \in Nat
  BY DEF Summable
<1>2. CASE S = {}
  <2>1. UnitsOf(f, s) = {}
    BY <1>2 DEF UnitsOf
  <2> QED
    BY <2>1, FS_EmptySet
<1>3. CASE S # {}
  <2>1. T \in SUBSET Nat /\ T # {}
    BY <1>1, <1>3
  <2>2. IsFiniteSet(T)
    <3> DEFINE g == [x \in S |-> f[x]]
    <3>1. g \in Surjection(S, T)
      BY DEF Surjection
    <3> HIDE DEF g, S, T
    <3> QED
      BY <1>1, <3>1, FS_Surjection
  <2>3. PICK top \in T : \A y \in T : y <= top
    <3> HIDE DEF T
    <3> QED
      BY <2>1, <2>2, GreatestNat
  <2>4. UnitsOf(f, s) \subseteq S \X (1 .. top)
    <3>1. \A x \in S : f[x] \in Nat /\ f[x] <= top /\ top \in Nat
      BY <1>1, <2>1, <2>3
    <3> QED
      BY <3>1 DEF UnitsOf
  <2>8. top \in Int /\ 1 \in Int
    BY <2>1
  <2>5. IsFiniteSet(1 .. top)
    BY <2>8, FS_Interval
  <2>6. IsFiniteSet(S \X (1 .. top))
    BY <1>1, <2>5, FS_Product
  <2>7. IsFiniteSet(UnitsOf(f, s))
    BY <2>4, <2>6, FS_Subset
  <2> QED
    BY <2>7, FS_CardinalityType
<1> QED
  BY <1>2, <1>3

\* One element after the other.
LEMMA UnitsStep ==
  ASSUME NEW f, Summable(f), NEW s \in SUBSET DOMAIN f, NEW x \in s
  PROVE  Cardinality(UnitsOf(f, s)) = f[x] + Cardinality(UnitsOf(f, s \ {x}))
<1> DEFINE U == UnitsOf(f, s \ {x})
           V == {x} \X (1 .. f[x])
<1>1. f[x] \in Nat
  BY DEF Summable
<1>2. UnitsOf(f, s) = U \cup V
  BY <1>1 DEF UnitsOf
<1>3. U \cap V = {}
  BY DEF UnitsOf
<1>4. IsFiniteSet(U) /\ Cardinality(U) \in Nat
  BY UnitsFinite
<1>5. IsFiniteSet(V) /\ Cardinality(V) = f[x]
  <2>1. IsFiniteSet(1 .. f[x]) /\ Cardinality(1 .. f[x]) = f[x]
    BY <1>1, FS_Interval
  <2>2. IsFiniteSet({x}) /\ Cardinality({x}) = 1
    BY FS_Singleton
  <2>3. IsFiniteSet(V) /\ Cardinality(V) = Cardinality({x}) * Cardinality(1 .. f[x])
    BY <2>1, <2>2, FS_Product
  <2> QED
    BY <1>1, <2>1, <2>2, <2>3
<1> HIDE DEF U, V
<1>6. Cardinality(U \cup V) = Cardinality(U) + Cardinality(V) - Cardinality(U \cap V)
  BY <1>4, <1>5, FS_Union
<1>7. Cardinality(U \cap V) = 0
  BY <1>3, FS_EmptySet
<1> QED
  BY <1>1, <1>2, <1>4, <1>5, <1>6, <1>7 DEF U

\* SumFunction counts the units.  Its recursion has one solution, because a smallest set
\* on which two solutions differ would have a smaller one.
LEMMA SumIsCount ==
  ASSUME NEW f, Summable(f)
  PROVE  SumFunction(f) = Cardinality(UnitsOf(f, DOMAIN f))
<1> DEFINE S == DOMAIN f
           Pick(s) == CHOOSE x \in s : TRUE
           Step(h) == [s \in SUBSET S |->
                          IF s = {} THEN 0 ELSE f[Pick(s)] + h[s \ {Pick(s)}]]
           Eq(h) == h = Step(h)
           g == [s \in SUBSET S |-> Cardinality(UnitsOf(f, s))]
           iter == CHOOSE h : Eq(h)
<1>1. SumFunction(f) = iter[S]
  BY DEF SumFunction, SumFunctionOnSet, FoldFunctionOnSet, MapThenFoldSet
<1>2. \A s \in SUBSET S : s # {} => Pick(s) \in s
  OBVIOUS
<1>3. \A s \in SUBSET S : g[s] = IF s = {} THEN 0 ELSE f[Pick(s)] + g[s \ {Pick(s)}]
  <2> SUFFICES ASSUME NEW s \in SUBSET S
               PROVE  g[s] = IF s = {} THEN 0 ELSE f[Pick(s)] + g[s \ {Pick(s)}]
    OBVIOUS
  <2>1. CASE s = {}
    <3>1. UnitsOf(f, s) = {}
      BY <2>1 DEF UnitsOf
    <3> QED
      BY <2>1, <3>1, FS_EmptySet
  <2>2. CASE s # {}
    <3>1. Pick(s) \in s /\ s \ {Pick(s)} \in SUBSET S
      BY <1>2, <2>2
    <3> HIDE DEF Pick
    <3>2. Cardinality(UnitsOf(f, s)) = f[Pick(s)] + Cardinality(UnitsOf(f, s \ {Pick(s)}))
      BY <3>1, UnitsStep
    <3> QED
      BY <2>2, <3>1, <3>2
  <2> QED
    BY <2>1, <2>2
<1>4. Eq(g)
  <2> HIDE DEF Pick
  <2>1. Step(g) = [s \in SUBSET S |-> g[s]]
    BY <1>3
  <2> QED
    BY <2>1
<1> HIDE DEF g
<1>5. Eq(iter)
  <2> HIDE DEF Eq
  <2> QED
    BY <1>4, Zenon
<1> HIDE DEF iter
<1>6. \A s \in SUBSET S : iter[s] = IF s = {} THEN 0 ELSE f[Pick(s)] + iter[s \ {Pick(s)}]
  <2> HIDE DEF Pick
  <2> QED
    BY <1>5
<1> HIDE DEF Eq, Step, Pick
<1>7. ASSUME NEW w \in SUBSET S, iter[w] # g[w]
      PROVE  FALSE
  <2> DEFINE Bad == {s \in SUBSET S : iter[s] # g[s]}
             Sizes == {Cardinality(s) : s \in Bad}
  <2>1. \A s \in SUBSET S : IsFiniteSet(s) /\ Cardinality(s) \in Nat
    BY FS_Subset, FS_CardinalityType DEF Summable
  <2>2. Sizes \in SUBSET Nat /\ Sizes # {}
    BY <1>7, <2>1
  <2>3. PICK n \in Sizes : \A m \in Sizes : n <= m
    <3> HIDE DEF Sizes
    <3> QED
      BY <2>2, LeastNat
  <2>4. PICK s \in Bad : Cardinality(s) = n
    BY <2>3
  <2>5. s # {}
    BY <1>3, <1>6, <2>4
  <2>6. Pick(s) \in s /\ s \ {Pick(s)} \in SUBSET S
    BY <1>2, <2>4, <2>5
  <2>7. s \ {Pick(s)} \in Bad
    BY <1>3, <1>6, <2>4, <2>5, <2>6
  <2>8. Cardinality(s \ {Pick(s)}) = Cardinality(s) - 1
    BY <2>1, <2>4, <2>6, FS_RemoveElement
  <2>9. Cardinality(s \ {Pick(s)}) \in Sizes
    BY <2>7
  <2>10. n <= Cardinality(s \ {Pick(s)})
    BY <2>3, <2>9
  <2>11. n \in Nat
    BY <2>2, <2>3
  <2> HIDE DEF Sizes, Bad
  <2> QED
    BY <2>4, <2>8, <2>10, <2>11
<1>8. iter[S] = g[S]
  BY <1>7
<1> QED
  BY <1>1, <1>8 DEF g

\* A sum of natural numbers is one.
LEMMA SumType ==
  ASSUME NEW f, Summable(f)
  PROVE  SumFunction(f) \in Nat
<1>1. SumFunction(f) = Cardinality(UnitsOf(f, DOMAIN f))
  BY SumIsCount
<1> QED
  BY <1>1, UnitsFinite

\* A part of a function can be summed.
LEMMA RestrictSummable ==
  ASSUME NEW f, Summable(f), NEW A \in SUBSET DOMAIN f
  PROVE  /\ Summable([x \in A |-> f[x]])
         /\ SumFunction([x \in A |-> f[x]]) = Cardinality(UnitsOf(f, A))
         /\ SumFunction([x \in A |-> f[x]]) \in Nat
<1> DEFINE g == [x \in A |-> f[x]]
<1>1. DOMAIN g = A /\ \A x \in A : g[x] = f[x]
  OBVIOUS
<1> HIDE DEF g
<1>2. IsFiniteSet(A)
  BY FS_Subset DEF Summable
<1>3. Summable(g)
  BY <1>1, <1>2 DEF Summable
<1>4. UnitsOf(g, A) = UnitsOf(f, A)
  BY <1>1 DEF UnitsOf
<1>5. SumFunction(g) = Cardinality(UnitsOf(g, A))
  BY <1>1, <1>3, SumIsCount
<1> QED
  BY <1>3, <1>4, <1>5, SumType DEF g

\* The sum over the whole is that over two parts.
LEMMA SumSplit ==
  ASSUME NEW f, Summable(f), NEW A \in SUBSET DOMAIN f
  PROVE  SumFunction(f) = SumFunction([x \in A |-> f[x]])
                          + SumFunction([x \in DOMAIN f \ A |-> f[x]])
<1> DEFINE B == DOMAIN f \ A
<1>1. B \in SUBSET DOMAIN f
  OBVIOUS
<1>2. /\ SumFunction([x \in A |-> f[x]]) = Cardinality(UnitsOf(f, A))
      /\ SumFunction([x \in B |-> f[x]]) = Cardinality(UnitsOf(f, B))
  BY <1>1, RestrictSummable
<1>3. UnitsOf(f, DOMAIN f) = UnitsOf(f, A) \cup UnitsOf(f, B)
  BY DEF UnitsOf
<1>4. UnitsOf(f, A) \cap UnitsOf(f, B) = {}
  BY DEF UnitsOf
<1>5. /\ IsFiniteSet(UnitsOf(f, A)) /\ Cardinality(UnitsOf(f, A)) \in Nat
      /\ IsFiniteSet(UnitsOf(f, B)) /\ Cardinality(UnitsOf(f, B)) \in Nat
  BY <1>1, UnitsFinite
<1>6. SumFunction(f) = Cardinality(UnitsOf(f, DOMAIN f))
  BY SumIsCount
<1> HIDE DEF B
<1>7. Cardinality(UnitsOf(f, A) \cup UnitsOf(f, B))
        = Cardinality(UnitsOf(f, A)) + Cardinality(UnitsOf(f, B))
          - Cardinality(UnitsOf(f, A) \cap UnitsOf(f, B))
  BY <1>5, FS_Union
<1>8. Cardinality(UnitsOf(f, A) \cap UnitsOf(f, B)) = 0
  BY <1>4, FS_EmptySet
<1>9. SumFunction(f) = Cardinality(UnitsOf(f, A)) + Cardinality(UnitsOf(f, B))
  <2> DEFINE a == Cardinality(UnitsOf(f, A))
             b == Cardinality(UnitsOf(f, B))
             c == Cardinality(UnitsOf(f, A) \cap UnitsOf(f, B))
  <2>1. SumFunction(f) = a + b - c
    BY <1>3, <1>6, <1>7, Zenon
  <2>2. a \in Nat /\ b \in Nat /\ c = 0
    BY <1>5, <1>8
  <2> HIDE DEF a, b, c
  <2>3. SumFunction(f) = a + b
    BY <2>1, <2>2
  <2> QED
    BY <2>3 DEF a, b
<1> QED
  BY <1>2, <1>9, Zenon DEF B

\* One summand after the other.
LEMMA SumAdd ==
  ASSUME NEW f, Summable(f), NEW x \in DOMAIN f
  PROVE  SumFunction(f) = f[x] + SumFunction([y \in DOMAIN f \ {x} |-> f[y]])
<1> DEFINE A == DOMAIN f \ {x}
<1>1. A \in SUBSET DOMAIN f
  OBVIOUS
<1> HIDE DEF A
<1>2. SumFunction([y \in A |-> f[y]]) = Cardinality(UnitsOf(f, A))
  BY <1>1, RestrictSummable
<1>3. Cardinality(UnitsOf(f, DOMAIN f)) = f[x] + Cardinality(UnitsOf(f, A))
  BY UnitsStep DEF A
<1>4. SumFunction(f) = Cardinality(UnitsOf(f, DOMAIN f))
  BY SumIsCount
<1> QED
  BY <1>2, <1>3, <1>4 DEF A

\* The sum of nothing.
LEMMA SumEmpty ==
  ASSUME NEW f, DOMAIN f = {}
  PROVE  SumFunction(f) = 0
<1>1. Summable(f)
  BY FS_EmptySet DEF Summable
<1>2. UnitsOf(f, DOMAIN f) = {}
  BY DEF UnitsOf
<1>3. SumFunction(f) = Cardinality(UnitsOf(f, DOMAIN f))
  BY <1>1, SumIsCount
<1> QED
  BY <1>2, <1>3, FS_EmptySet

\* Induction up to a number.
LEMMA UpwardInduction ==
  ASSUME NEW n \in Nat, NEW T, 0 \in T, \A k \in 1 .. n : k - 1 \in T => k \in T
  PROVE  0 .. n \subseteq T
<1> DEFINE Bad == {k \in 0 .. n : k \notin T}
<1> SUFFICES ASSUME Bad # {} PROVE FALSE
  OBVIOUS
<1>1. Bad \in SUBSET Nat
  OBVIOUS
<1>2. PICK k \in Bad : \A j \in Bad : k <= j
  <2> HIDE DEF Bad
  <2> QED
    BY <1>1, LeastNat
<1>3. k \in 1 .. n
  BY <1>2
<1>4. k - 1 \in 0 .. n /\ ~(k <= k - 1)
  BY <1>3
<1>5. k - 1 \in T
  BY <1>2, <1>4
<1> QED
  BY <1>2, <1>3, <1>5

\* The sum of a function over a set.
SumOver(f, S) == SumFunction([y \in S |-> f[y]])

\* Sums over finite sets are numbers, and one more element adds its value.
LEMMA SumInsert ==
  ASSUME NEW f, NEW S, IsFiniteSet(S), \A y \in S : f[y] \in Nat
  PROVE  /\ SumOver(f, S) \in Nat
         /\ \A x : x \notin S /\ f[x] \in Nat =>
               SumOver(f, S \cup {x}) = SumOver(f, S) + f[x]
<1> DEFINE h == [y \in S |-> f[y]]
<1>1. Summable(h) /\ SumOver(f, S) = SumFunction(h)
  BY DEF Summable, SumOver
<1>2. SumFunction(h) \in Nat
  <2> HIDE DEF h
  <2> QED
    BY <1>1, SumType
<1>3. ASSUME NEW x, x \notin S, f[x] \in Nat
      PROVE  SumOver(f, S \cup {x}) = SumOver(f, S) + f[x]
  <2> DEFINE B == S \cup {x}
             g == [y \in B |-> f[y]]
  <2>1. IsFiniteSet(B)
    BY FS_AddElement
  <2>2. Summable(g) /\ DOMAIN g = B /\ x \in B
    BY <1>3, <2>1 DEF Summable
  <2>3. [y \in B \ {x} |-> g[y]] = h /\ g[x] = f[x]
    <3>1. B \ {x} = S
      BY <1>3
    <3> QED
      BY <3>1
  <2>4. SumOver(f, S \cup {x}) = SumFunction(g)
    BY DEF SumOver
  <2>5. SumFunction(g) = g[x] + SumFunction([y \in B \ {x} |-> g[y]])
    <3> HIDE DEF g, B
    <3> QED
      BY <2>2, SumAdd
  <2>6. SumFunction(g) = f[x] + SumFunction(h)
    BY <2>3, <2>5
  <2> HIDE DEF g, h
  <2> QED
    BY <1>1, <1>2, <1>3, <2>4, <2>6
<1> QED
  BY <1>1, <1>2, <1>3
================================================================================
