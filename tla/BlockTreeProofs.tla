---------------------------- MODULE BlockTreeProofs ----------------------------
(***************************************************************************)
(* Facts about the chains of a tree of blocks.                             *)
(***************************************************************************)
EXTENDS BlockTree, FiniteSetTheorems, TLAPS

\* A chain holds the block it ends in, and only blocks.
LEMMA ChainType ==
  ASSUME NEW b \in Block
  PROVE  Chain[b] \subseteq Block /\ b \in Chain[b]
  BY DEF Chain

\* A set of blocks that holds the parents of its members holds their chains.
LEMMA ChainInClosed ==
  ASSUME NEW S \in SUBSET Block, ClosedUnderPrev(S), NEW b \in S
  PROVE  Chain[b] \subseteq S
  BY DEF Chain

\* The chain of a parent is part of the chain of its child.
LEMMA ChainOfPrev ==
  ASSUME NEW b \in Block, Prev[b] \in Block
  PROVE  Chain[Prev[b]] \subseteq Chain[b]
<1> SUFFICES ASSUME NEW a \in Chain[Prev[b]]
             PROVE  a \in Chain[b]
  OBVIOUS
<1>1. a \in Block
  BY ChainType
<1>2. ASSUME NEW S \in SUBSET Block, b \in S, ClosedUnderPrev(S)
      PROVE  a \in S
  <2>1. Prev[b] \in S
    BY <1>2, TreeAssumption DEF ClosedUnderPrev
  <2> QED
    BY <2>1, <1>2, ChainInClosed
<1> QED
  BY <1>1, <1>2 DEF Chain

\* The chain of a block is the block and the chain of its parent.
LEMMA ChainUnfold ==
  ASSUME NEW b \in Block, b # Genesis
  PROVE  /\ Prev[b] \in Block
         /\ Chain[b] = {b} \cup Chain[Prev[b]]
<1>1. Prev[b] \in Block
  BY TreeAssumption
<1>2. {b} \cup Chain[Prev[b]] \subseteq Chain[b]
  BY <1>1, ChainType, ChainOfPrev
<1>3. Chain[b] \subseteq {b} \cup Chain[Prev[b]]
  <2> DEFINE S == {b} \cup Chain[Prev[b]]
  <2>1. S \in SUBSET Block
    BY <1>1, ChainType
  <2>2. ClosedUnderPrev(S)
    <3> SUFFICES ASSUME NEW a \in S, Prev[a] # Null
                 PROVE  Prev[a] \in S
      BY DEF ClosedUnderPrev
    <3>1. CASE a = b
      BY <3>1, <1>1, ChainType
    <3>2. CASE a \in Chain[Prev[b]]
      <4>1. a \in Block /\ Prev[a] \in Block
        BY <3>2, <1>1, ChainType, TreeAssumption
      <4>2. ASSUME NEW T \in SUBSET Block, Prev[b] \in T, ClosedUnderPrev(T)
            PROVE  Prev[a] \in T
        BY <4>2, <4>1, <3>2, ChainInClosed DEF ClosedUnderPrev
      <4> QED
        BY <4>1, <4>2, <1>1 DEF Chain
    <3> QED
      BY <3>1, <3>2
  <2> QED
    BY <2>1, <2>2, ChainInClosed
<1> QED
  BY <1>1, <1>2, <1>3

\* The chain of the genesis block is that block.
LEMMA ChainOfGenesis ==
  Chain[Genesis] = {Genesis}
<1>1. {Genesis} \in SUBSET Block /\ ClosedUnderPrev({Genesis})
  BY TreeAssumption DEF ClosedUnderPrev
<1> QED
  BY <1>1, ChainInClosed, ChainType, TreeAssumption

\* The chain of an ancestor is part of the chain.
LEMMA ChainOfAncestor ==
  ASSUME NEW b \in Block, NEW a \in Chain[b]
  PROVE  a \in Block /\ Chain[a] \subseteq Chain[b]
<1>1. ClosedUnderPrev(Chain[b])
  <2> SUFFICES ASSUME NEW c \in Chain[b], Prev[c] # Null
               PROVE  Prev[c] \in Chain[b]
    BY DEF ClosedUnderPrev
  <2>1. c \in Block /\ Prev[c] \in Block
    BY ChainType, TreeAssumption
  <2>2. ASSUME NEW T \in SUBSET Block, b \in T, ClosedUnderPrev(T)
        PROVE  Prev[c] \in T
    BY <2>1, <2>2, ChainInClosed DEF ClosedUnderPrev
  <2> QED
    BY <2>1, <2>2 DEF Chain
<1> QED
  BY <1>1, ChainType, ChainInClosed

\* Induction along the tree: a set that holds the genesis block, and every block whose
\* parent it holds, holds all blocks.
LEMMA TreeInduction ==
  ASSUME NEW S \in SUBSET Block, Genesis \in S,
         \A b \in Block \ {Genesis} : Prev[b] \in S => b \in S
  PROVE  S = Block
<1> SUFFICES ASSUME NEW b \in Block \ S
             PROVE  FALSE
  OBVIOUS
<1> DEFINE T == Block \ S
<1>1. ClosedUnderPrev(T)
  BY TreeAssumption DEF ClosedUnderPrev
<1>2. Chain[b] \subseteq T
  BY <1>1, ChainInClosed
<1> QED
  BY <1>2, RootedAssumption

\* No block is an ancestor of its parent.
LEMMA NotOwnAncestor ==
  ASSUME NEW b \in Block, b # Genesis
  PROVE  b \notin Chain[Prev[b]]
<1> DEFINE S == {c \in Block : c # Genesis => c \notin Chain[Prev[c]]}
<1>1. Genesis \in S
  BY TreeAssumption
<1>2. ASSUME NEW c \in Block \ {Genesis}, Prev[c] \in S, c \in Chain[Prev[c]]
      PROVE  FALSE
  <2>1. Prev[c] \in Block
    BY <1>2
  <2>2. Prev[c] \in Chain[c]
    BY <2>1, ChainUnfold, ChainType
  <2>3. Prev[c] # Genesis
    BY <1>2, ChainOfGenesis
  <2>4. Prev[Prev[c]] \in Block /\ Chain[Prev[c]] = {Prev[c]} \cup Chain[Prev[Prev[c]]]
    BY <2>1, <2>3, ChainUnfold
  <2>5. CASE c = Prev[c]
    BY <2>5, <2>1, <2>3, <1>2
  <2>6. CASE c \in Chain[Prev[Prev[c]]]
    <3>1. Chain[c] \subseteq Chain[Prev[Prev[c]]]
      BY <2>6, <2>4, ChainOfAncestor
    <3> QED
      BY <3>1, <2>2, <2>3, <1>2
  <2> QED
    BY <1>2, <2>4, <2>5, <2>6
<1>3. S = Block
  BY <1>1, <1>2, TreeInduction
<1> QED
  BY <1>3

\* What the recursion of nHeight computes: the number of the proper ancestors.
LEMMA HeightRecursion ==
    /\ nHeight \in [Block -> Nat]
    /\ nHeight[Genesis] = 0
    /\ \A b \in Block \ {Genesis} : nHeight[b] = nHeight[Prev[b]] + 1
<1> DEFINE f == [b \in Block |-> Cardinality(Chain[b]) - 1]
           Eq(h) == h = [b \in Block |-> IF Prev[b] = Null THEN 0 ELSE h[Prev[b]] + 1]
<1>1. \A b \in Block : Cardinality(Chain[b]) \in Nat
  BY RootedAssumption, FS_CardinalityType
<1>2. Cardinality(Chain[Genesis]) = 1
  BY ChainOfGenesis, FS_Singleton
<1>3. ASSUME NEW b \in Block \ {Genesis}
      PROVE  Prev[b] \in Block /\ Cardinality(Chain[b]) = Cardinality(Chain[Prev[b]]) + 1
  <2>1. Prev[b] \in Block /\ Chain[b] = Chain[Prev[b]] \cup {b}
    BY ChainUnfold
  <2>2. IsFiniteSet(Chain[Prev[b]]) /\ b \notin Chain[Prev[b]]
    BY <2>1, RootedAssumption, NotOwnAncestor
  <2> QED
    BY <2>1, <2>2, FS_AddElement
<1>4. Eq(f)
  <2>1. ASSUME NEW b \in Block
        PROVE  f[b] = IF Prev[b] = Null THEN 0 ELSE f[Prev[b]] + 1
    <3>1. CASE b = Genesis
      BY <3>1, <1>2, TreeAssumption
    <3>2. CASE b # Genesis
      <4>1. Prev[b] \in Block /\ Prev[b] # Null
        BY <3>2, TreeAssumption
      <4>2. f[b] = Cardinality(Chain[b]) - 1 /\ f[Prev[b]] = Cardinality(Chain[Prev[b]]) - 1
        BY <4>1
      <4> HIDE DEF f
      <4> QED
        BY <4>1, <4>2, <3>2, <1>1, <1>3
    <3> QED
      BY <3>1, <3>2
  <2> HIDE DEF f
  <2> QED
    BY <2>1 DEF f
<1>5. nHeight = CHOOSE h : Eq(h)
  BY DEF nHeight
<1> HIDE DEF f, Eq
<1>6. Eq(nHeight)
  BY <1>4, <1>5
<1>7. \A b \in Block : nHeight[b] = IF Prev[b] = Null THEN 0 ELSE nHeight[Prev[b]] + 1
  BY <1>6 DEF Eq
<1> DEFINE S == {b \in Block : nHeight[b] \in Nat}
<1>8. S = Block
  <2>1. Genesis \in S
    BY <1>7, TreeAssumption
  <2>2. \A b \in Block \ {Genesis} : Prev[b] \in S => b \in S
    BY <1>7, TreeAssumption
  <2> HIDE DEF S
  <2>3. S \in SUBSET Block
    BY DEF S
  <2> QED
    BY <2>1, <2>2, <2>3, TreeInduction
<1>9. nHeight = [b \in Block |-> IF Prev[b] = Null THEN 0 ELSE nHeight[Prev[b]] + 1]
  BY <1>6 DEF Eq
<1>10. nHeight \in [Block -> Nat]
  <2> DEFINE g == [b \in Block |-> IF Prev[b] = Null THEN 0 ELSE nHeight[Prev[b]] + 1]
  <2>1. \A b \in Block : g[b] = nHeight[b]
    BY <1>7
  <2>2. g \in [Block -> Nat]
    BY <2>1, <1>8
  <2> QED
    BY <2>2, <1>9
<1> QED
  BY <1>7, <1>10, TreeAssumption

\* What the recursion of nChainTrust computes: the units of trust of the blocks of the
\* chain, counted.
LEMMA TrustRecursion ==
    /\ nChainTrust \in [Block -> Nat]
    /\ nChainTrust[Genesis] = BlockTrust[Genesis]
    /\ \A b \in Block \ {Genesis} :
          nChainTrust[b] = BlockTrust[b] + nChainTrust[Prev[b]]
<1> DEFINE Units(b) == {x \in Chain[b] \X Nat : x[2] \in 1..BlockTrust[x[1]]}
           f == [b \in Block |-> Cardinality(Units(b))]
           Eq(h) == h = [b \in Block |->
                           BlockTrust[b] + (IF Prev[b] = Null THEN 0 ELSE h[Prev[b]])]
<1>1. ASSUME NEW b \in Block
      PROVE  /\ IsFiniteSet({b} \X (1..BlockTrust[b]))
             /\ Cardinality({b} \X (1..BlockTrust[b])) = BlockTrust[b]
             /\ BlockTrust[b] \in Nat
  <2>1. BlockTrust[b] \in Nat
    BY TrustAssumption
  <2>2. IsFiniteSet({b}) /\ Cardinality({b}) = 1
    BY FS_Singleton
  <2>3. IsFiniteSet(1..BlockTrust[b]) /\ Cardinality(1..BlockTrust[b]) = BlockTrust[b]
    BY <2>1, FS_Interval, SMTT(20)
  <2>4. /\ IsFiniteSet({b} \X (1..BlockTrust[b]))
        /\ Cardinality({b} \X (1..BlockTrust[b])) = Cardinality({b}) * Cardinality(1..BlockTrust[b])
    BY <2>2, <2>3, FS_Product
  <2> QED
    BY <2>1, <2>2, <2>3, <2>4
<1>2. Units(Genesis) = {Genesis} \X (1..BlockTrust[Genesis])
  BY ChainOfGenesis
<1>3. ASSUME NEW b \in Block \ {Genesis}
      PROVE  /\ Prev[b] \in Block
             /\ Units(b) = Units(Prev[b]) \cup ({b} \X (1..BlockTrust[b]))
             /\ Units(Prev[b]) \cap ({b} \X (1..BlockTrust[b])) = {}
  <2>1. Prev[b] \in Block /\ Chain[b] = {b} \cup Chain[Prev[b]] /\ b \notin Chain[Prev[b]]
    BY ChainUnfold, NotOwnAncestor
  <2> QED
    BY <2>1
<1> HIDE DEF Units
<1> DEFINE F == {b \in Block : IsFiniteSet(Units(b))}
<1>4. F = Block
  <2>1. Genesis \in F
    BY <1>1, <1>2, TreeAssumption
  <2>2. ASSUME NEW b \in Block \ {Genesis}, Prev[b] \in F
        PROVE  b \in F
    <3> DEFINE U == Units(Prev[b])
               V == {b} \X (1..BlockTrust[b])
    <3>1. IsFiniteSet(U) /\ IsFiniteSet(V) /\ Units(b) = U \cup V
      BY <1>1, <1>3, <2>2
    <3> HIDE DEF U, V
    <3>2. IsFiniteSet(U \cup V)
      BY <3>1, FS_Union
    <3> QED
      BY <3>1, <3>2
  <2>3. F \in SUBSET Block
    OBVIOUS
  <2> HIDE DEF F
  <2> QED
    BY <2>1, <2>2, <2>3, TreeInduction
<1>5. \A b \in Block : IsFiniteSet(Units(b)) /\ Cardinality(Units(b)) \in Nat
  BY <1>4, FS_CardinalityType
<1>6. ASSUME NEW b \in Block \ {Genesis}
      PROVE  Cardinality(Units(b)) = BlockTrust[b] + Cardinality(Units(Prev[b]))
  <2> DEFINE U == Units(Prev[b])
             V == {b} \X (1..BlockTrust[b])
  <2>1. IsFiniteSet(U) /\ Cardinality(U) \in Nat
    BY <1>3, <1>5
  <2>2. IsFiniteSet(V) /\ Cardinality(V) = BlockTrust[b] /\ BlockTrust[b] \in Nat
    BY <1>1
  <2>3. Units(b) = U \cup V /\ U \cap V = {}
    BY <1>3
  <2> HIDE DEF U, V
  <2>4. Cardinality(U \cup V) = Cardinality(U) + Cardinality(V) - Cardinality(U \cap V)
    BY <2>1, <2>2, FS_Union
  <2>5. Cardinality(U \cap V) = 0
    BY <2>3, FS_EmptySet
  <2> QED
    BY <2>1, <2>2, <2>3, <2>4, <2>5 DEF U
<1>7. Eq(f)
  <2>1. ASSUME NEW b \in Block
        PROVE  f[b] = BlockTrust[b] + (IF Prev[b] = Null THEN 0 ELSE f[Prev[b]])
    <3>1. CASE b = Genesis
      <4>1. f[b] = BlockTrust[b] /\ BlockTrust[b] \in Nat
        BY <3>1, <1>1, <1>2
      <4> HIDE DEF f
      <4> QED
        BY <3>1, <4>1, TreeAssumption
    <3>2. CASE b # Genesis
      <4>1. Prev[b] \in Block /\ Prev[b] # Null
        BY <3>2, TreeAssumption
      <4>2. f[b] = Cardinality(Units(b)) /\ f[Prev[b]] = Cardinality(Units(Prev[b]))
        BY <4>1
      <4> HIDE DEF f
      <4> QED
        BY <4>1, <4>2, <3>2, <1>6
    <3> QED
      BY <3>1, <3>2
  <2> HIDE DEF f
  <2> QED
    BY <2>1 DEF f
<1>8. nChainTrust = CHOOSE h : Eq(h)
  BY DEF nChainTrust
<1> HIDE DEF f, Eq
<1>9. Eq(nChainTrust)
  BY <1>7, <1>8
<1> DEFINE g == [b \in Block |->
                    BlockTrust[b] + (IF Prev[b] = Null THEN 0 ELSE nChainTrust[Prev[b]])]
<1>10. nChainTrust = g
  BY <1>9 DEF Eq
<1>11. \A b \in Block :
          nChainTrust[b] = BlockTrust[b] + (IF Prev[b] = Null THEN 0 ELSE nChainTrust[Prev[b]])
  BY <1>9 DEF Eq
<1> HIDE DEF g
<1> DEFINE S == {b \in Block : nChainTrust[b] \in Nat}
<1>12. S = Block
  <2>1. Genesis \in S
    BY <1>11, TreeAssumption, TrustAssumption
  <2>2. \A b \in Block \ {Genesis} : Prev[b] \in S => b \in S
    BY <1>11, TreeAssumption, TrustAssumption
  <2>3. S \in SUBSET Block
    OBVIOUS
  <2> HIDE DEF S
  <2> QED
    BY <2>1, <2>2, <2>3, TreeInduction
<1>13. nChainTrust \in [Block -> Nat]
  <2>1. \A b \in Block : g[b] \in Nat
    BY <1>10, <1>12
  <2>2. g \in [Block -> Nat]
    BY <2>1 DEF g
  <2> QED
    BY <2>2, <1>10
<1>14. nChainTrust[Genesis] = BlockTrust[Genesis]
  BY <1>11, TreeAssumption, TrustAssumption
<1>15. \A b \in Block \ {Genesis} : nChainTrust[b] = BlockTrust[b] + nChainTrust[Prev[b]]
  BY <1>11, TreeAssumption
<1> QED
  BY <1>13, <1>14, <1>15

\* Heights grow along a chain.
LEMMA ChainHeight ==
  ASSUME NEW b \in Block, NEW a \in Chain[b]
  PROVE  nHeight[a] <= nHeight[b]
<1> DEFINE S == {c \in Chain[b] : nHeight[c] <= nHeight[b]}
<1>0. nHeight \in [Block -> Nat]
  BY HeightRecursion
<1>1. S \in SUBSET Block /\ b \in S
  BY <1>0, ChainType
<1>2. ClosedUnderPrev(S)
  <2> SUFFICES ASSUME NEW c \in S, Prev[c] # Null
               PROVE  Prev[c] \in S
    BY DEF ClosedUnderPrev
  <2>1. c \in Block /\ c # Genesis /\ Prev[c] \in Block /\ Prev[c] \in Chain[c]
    BY <1>1, ChainUnfold, ChainType, TreeAssumption
  <2>2. Prev[c] \in Chain[b]
    BY <2>1, ChainOfAncestor
  <2>3. nHeight[c] = nHeight[Prev[c]] + 1
    BY <2>1, HeightRecursion
  <2> QED
    BY <2>1, <2>2, <2>3, <1>0
<1> QED
  BY <1>1, <1>2, ChainInClosed

\* A block is no ancestor of its parent, and an ancestor other than the block itself is
\* lower.
LEMMA AncestorLower ==
  ASSUME NEW b \in Block, NEW a \in Chain[b], a # b
  PROVE  b # Genesis /\ a \in Chain[Prev[b]] /\ nHeight[a] < nHeight[b]
<1>1. b # Genesis
  BY ChainOfGenesis
<1>2. Prev[b] \in Block /\ a \in Chain[Prev[b]]
  BY <1>1, ChainUnfold
<1>3. a \in Block /\ nHeight[a] <= nHeight[Prev[b]]
  BY <1>2, ChainHeight, ChainType
<1> QED
  BY <1>1, <1>2, <1>3, HeightRecursion

\* Trust does not fall along a chain.
LEMMA ChainTrust ==
  ASSUME NEW b \in Block, NEW a \in Chain[b]
  PROVE  nChainTrust[a] <= nChainTrust[b]
<1>0. nChainTrust \in [Block -> Nat] /\ BlockTrust \in [Block -> Nat \ {0}]
  BY TrustRecursion, TrustAssumption
<1> DEFINE S == {c \in Chain[b] : nChainTrust[c] <= nChainTrust[b]}
<1>1. S \in SUBSET Block /\ b \in S
  BY <1>0, ChainType
<1>2. ClosedUnderPrev(S)
  <2> SUFFICES ASSUME NEW c \in S, Prev[c] # Null
               PROVE  Prev[c] \in S
    BY DEF ClosedUnderPrev
  <2>1. c \in Block /\ c # Genesis /\ Prev[c] \in Block /\ Prev[c] \in Chain[c]
    BY <1>1, ChainUnfold, ChainType, TreeAssumption
  <2>2. Prev[c] \in Chain[b]
    BY <2>1, ChainOfAncestor
  <2>3. nChainTrust[c] = BlockTrust[c] + nChainTrust[Prev[c]]
    BY <2>1, TrustRecursion
  <2> QED
    BY <2>1, <2>2, <2>3, <1>0
<1> QED
  BY <1>1, <1>2, ChainInClosed

\* A block has less trust than the blocks that descend from it.
LEMMA AncestorLessTrusted ==
  ASSUME NEW b \in Block, NEW a \in Chain[b], a # b
  PROVE  nChainTrust[a] < nChainTrust[b]
<1>1. b # Genesis /\ Prev[b] \in Block /\ a \in Chain[Prev[b]]
  BY AncestorLower, ChainUnfold
<1>2. a \in Block /\ nChainTrust[a] <= nChainTrust[Prev[b]]
  BY <1>1, ChainTrust, ChainType
<1>3. nChainTrust[b] = BlockTrust[b] + nChainTrust[Prev[b]]
  BY <1>1, TrustRecursion
<1> QED
  BY <1>1, <1>2, <1>3, TrustRecursion, TrustAssumption

\* Of two blocks of a chain one is an ancestor of the other.
LEMMA ChainLinear ==
  ASSUME NEW b \in Block, NEW x \in Chain[b], NEW y \in Chain[b]
  PROVE  x \in Chain[y] \/ y \in Chain[x]
<1> DEFINE S == {c \in Chain[b] : c \in Chain[y] \/ y \in Chain[c]}
<1>1. S \in SUBSET Block /\ b \in S /\ y \in Block
  BY ChainType
<1>2. ClosedUnderPrev(S)
  <2> SUFFICES ASSUME NEW c \in S, Prev[c] # Null
               PROVE  Prev[c] \in S
    BY DEF ClosedUnderPrev
  <2>1. c \in Block /\ c # Genesis /\ Prev[c] \in Block /\ Chain[c] = {c} \cup Chain[Prev[c]]
    BY <1>1, ChainUnfold, TreeAssumption
  <2>2. Prev[c] \in Chain[c]
    BY <2>1, ChainType
  <2>3. Prev[c] \in Chain[b]
    BY <2>2, <2>1, ChainOfAncestor
  <2>4. CASE c \in Chain[y]
    BY <2>4, <2>2, <2>3, <1>1, ChainOfAncestor
  <2>5. CASE y \in Chain[c]
    BY <2>5, <2>1, <2>2, <2>3
  <2> QED
    BY <2>4, <2>5
<1> QED
  BY <1>1, <1>2, ChainInClosed

\* Two children of a block are not in one chain.
LEMMA OneChild ==
  ASSUME NEW b \in Block, NEW x \in Chain[b], NEW y \in Chain[b],
         Prev[x] = Prev[y], Prev[x] \in Block
  PROVE  x = y
<1>1. x \in Block /\ y \in Block /\ x # Genesis /\ y # Genesis
  BY ChainType, TreeAssumption
<1>2. nHeight[x] = nHeight[y]
  BY <1>1, HeightRecursion
<1>3. nHeight \in [Block -> Nat]
  BY HeightRecursion
<1> QED
  BY <1>1, <1>2, <1>3, ChainLinear, AncestorLower

================================================================================
