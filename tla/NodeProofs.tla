------------------------------- MODULE NodeProofs -------------------------------
(***************************************************************************)
(* The node with its memory pool, and the node with its wallet and its     *)
(* minter, implement Ledger, so that what is proved of Ledger holds of     *)
(* them.  The pool fits the best chain, the wallet knows what the chain    *)
(* holds for it and marks what it spends, blocks of the minter connect,    *)
(* its work is refused only if the tip moved, and it aborts the program    *)
(* only for a named reason.                                                *)
(*                                                                         *)
(* SetBestChain and the wallet go through transactions in loops, which the *)
(* modules write as folds.  A fold is shown to be a run, a sequence of     *)
(* states each made from the one before by one transaction; what a loop    *)
(* does follows by induction over its run.                                 *)
(***************************************************************************)
EXTENDS Minter, LedgerProofs

\* The memory pool does not disturb the coins: what the node does to them is what
\* SetBestChain does.
THEOREM PoolKeepsLedger ==
  Spec => LedgerSpec
<1>1. Init => LedgerInit
  BY DEF Init
<1>2. [Next]_vars => [LedgerNext]_ledgerVars
  BY DEF Next, vars, AcceptTx, HoldOrphanTx, ChangeView, SetBestChainDone, Restart,
         LedgerNext
<1> QED
  BY <1>1, <1>2, PTL DEF Spec, LedgerSpec

\* With the pool, the coins are those of the best chain, reorganisations disconnect
\* without a fault, and a block has one verdict.
THEOREM NodeKeepsCoins ==
  Spec => []CoinsExact /\ []DisconnectsClean /\ VerdictStable
  BY PoolKeepsLedger, CoinsAreThoseOfTheChain, ReorganisationsDisconnect,
     VerdictsAreStable, PTL

\* With the pool, the money supply is that of the coins.
THEOREM NodeKeepsSupply ==
  ASSUME SameUnits, GrantsUnparked, ParkedKeptBelow
  PROVE  Spec => []SupplyExact
  BY PoolKeepsLedger, SupplyIsThatOfTheCoins, PTL

--------------------------------------------------------------------------------
\* The loops over transactions.

\* What each loop does with a transaction, or with a block in a scan of the chain.
LoopOp(loop, a, x, t) ==
    IF loop = "resurrect" THEN Resurrect(x, t, a)
    ELSE IF loop = "delete" THEN Delete(x, t)
    ELSE IF loop = "reaccept" THEN AcceptUnchecked(x, t)
    ELSE IF loop = "sync" THEN SyncWithWallets(x, t, a)
    ELSE IF loop = "disable" THEN DisableTransaction(x, t)
    ELSE IF loop = "back" THEN SyncResurrected(x, t, a)
    ELSE IF loop = "scan" THEN SyncBlock(x, t)
    ELSE IF loop = "select" THEN TrySelect(a, x, t)
    ELSE TryConnect(a, x, t)

Loop(loop, a, x, v) == FoldLeft(LAMBDA y, t : LoopOp(loop, a, y, t), x, v)

\* The greatest element of numbers up to n.
LEMMA MaxUpto ==
  ASSUME NEW n \in Nat, NEW s \in SUBSET (1 .. n), s # {}
  PROVE  Max(s) \in s /\ \A y \in s : y <= Max(s)
<1>1. IsFiniteSet(s)
  <2>1. n \in Int /\ 1 \in Int
    OBVIOUS
  <2> QED
    BY <2>1, FS_Interval, FS_Subset
<1>2. s \in SUBSET Nat /\ \A y \in s : y \in Nat
  OBVIOUS
<1>3. \E x \in s : \A y \in s : y <= x
  BY <1>1, <1>2, GreatestNat
<1>4. \E x \in s : \A y \in s : x >= y
  BY <1>2, <1>3
<1>5. Max(s) \in s /\ \A y \in s : Max(s) >= y
  BY <1>4 DEF Max
<1> QED
  BY <1>2, <1>5

\* The states that a loop over v goes through.
IsRun(p, n, del, f, pool, v) ==
    /\ p[0] = pool /\ p[n] = Loop(del, f, pool, v)
    /\ \A i \in 1 .. n : p[i] = LoopOp(del, f, p[i - 1], v[i])

\* A loop is a sequence of states, each made from the one before.
LEMMA LoopSteps ==
  ASSUME NEW del, NEW f, NEW pool, NEW v, NEW n \in Nat, DOMAIN v = 1 .. n
  PROVE  \E p : IsRun(p, n, del, f, pool, v)
<1> DEFINE S == 1 .. n
           Step(h) == [s \in SUBSET S |->
                          IF s = {} THEN pool ELSE LoopOp(del, f, h[s \ {Max(s)}], v[Max(s)])]
           Eq(h) == h = Step(h)
           iter == CHOOSE h : Eq(h)
<1>1. Loop(del, f, pool, v) = iter[S]
  BY DEF Loop, FoldLeft, MapThenFoldSet
<1>2. \A s \in SUBSET S : IsFiniteSet(s) /\ Cardinality(s) \in 0 .. n
  <2>1. n \in Int /\ 1 \in Int
    OBVIOUS
  <2>2. IsFiniteSet(S) /\ Cardinality(S) = n
    <3>1. Cardinality(1 .. n) = IF 1 > n THEN 0 ELSE n - 1 + 1
      BY <2>1, FS_Interval
    <3> QED
      BY <2>1, <3>1, FS_Interval
  <2> SUFFICES ASSUME NEW s \in SUBSET S
               PROVE  IsFiniteSet(s) /\ Cardinality(s) \in 0 .. n
    OBVIOUS
  <2> HIDE DEF S
  <2>3. IsFiniteSet(s) /\ Cardinality(s) <= Cardinality(S)
    BY <2>2, FS_Subset
  <2>4. Cardinality(s) \in Nat
    BY <2>3, FS_CardinalityType
  <2> QED
    BY <2>2, <2>3, <2>4
<1>3. \A s \in SUBSET S : s # {} =>
         /\ Max(s) \in s /\ s \ {Max(s)} \in SUBSET S
         /\ Cardinality(s \ {Max(s)}) = Cardinality(s) - 1
  <2> SUFFICES ASSUME NEW s \in SUBSET S, s # {}
               PROVE  /\ Max(s) \in s /\ s \ {Max(s)} \in SUBSET S
                      /\ Cardinality(s \ {Max(s)}) = Cardinality(s) - 1
    OBVIOUS
  <2>1. Max(s) \in s
    BY MaxUpto
  <2> QED
    BY <1>2, <2>1, FS_RemoveElement
<1> DEFINE Good(h, k) == \A s \in SUBSET S : Cardinality(s) <= k => h[s] = Step(h)[s]
           T == {k \in 0 .. n : \E h : Good(h, k)}
<1>4. 0 \in T
  <2> DEFINE h == [s \in SUBSET S |-> pool]
  <2>1. \A s \in SUBSET S : Cardinality(s) <= 0 => s = {}
    BY <1>2, FS_EmptySet
  <2>2. Good(h, 0)
    BY <2>1
  <2> HIDE DEF Good, h
  <2>3. \E g : Good(g, 0)
    BY <2>2
  <2> QED
    BY <2>3
<1>5. ASSUME NEW k \in 1 .. n, k - 1 \in T
      PROVE  k \in T
  <2>1. PICK g : Good(g, k - 1)
    BY <1>5
  <2> DEFINE h == Step(g)
  <2>2. ASSUME NEW s \in SUBSET S, Cardinality(s) <= k
        PROVE  h[s] = Step(h)[s]
    <3>1. CASE s = {}
      BY <3>1
    <3>2. CASE s # {}
      <4> DEFINE r == s \ {Max(s)}
      <4>1. r \in SUBSET S /\ Cardinality(r) <= k - 1
        <5>1. r \in SUBSET S /\ Cardinality(r) = Cardinality(s) - 1
          BY <1>3, <3>2
        <5>2. Cardinality(s) \in Int /\ k \in Int
          BY <1>2
        <5> HIDE DEF r, S
        <5> QED
          BY <2>2, <5>1, <5>2
      <4>2. g[r] = h[r]
        BY <2>1, <4>1
      <4>3. h[s] = LoopOp(del, f, g[r], v[Max(s)])
        BY <3>2
      <4>4. Step(h)[s] = LoopOp(del, f, h[r], v[Max(s)])
        BY <3>2
      <4> HIDE DEF h
      <4> QED
        BY <4>2, <4>3, <4>4
    <3> QED
      BY <3>1, <3>2
  <2>3. Good(h, k)
    BY <2>2
  <2> HIDE DEF Good, h
  <2> QED
    BY <2>3
<1>6. n \in T
  <2> HIDE DEF T
  <2>1. 0 .. n \subseteq T
    BY <1>4, <1>5, UpwardInduction
  <2> QED
    BY <2>1
<1>7. \E h : Eq(h)
  <2>1. PICK g : Good(g, n)
    BY <1>6
  <2> DEFINE h == Step(g)
  <2>2. \A s \in SUBSET S : g[s] = h[s]
    <3>1. \A s \in SUBSET S : Cardinality(s) <= n
      BY <1>2
    <3> QED
      BY <2>1, <3>1
  <2>3. \A s \in SUBSET S : h[s] = Step(h)[s]
    <3> SUFFICES ASSUME NEW s \in SUBSET S PROVE h[s] = Step(h)[s]
      OBVIOUS
    <3>1. CASE s = {}
      BY <3>1
    <3>2. CASE s # {}
      <4> DEFINE r == s \ {Max(s)}
      <4>1. g[r] = h[r]
        BY <1>3, <2>2, <3>2
      <4>2. h[s] = LoopOp(del, f, g[r], v[Max(s)]) /\ Step(h)[s] = LoopOp(del, f, h[r], v[Max(s)])
        BY <3>2
      <4> HIDE DEF h
      <4> QED
        BY <4>1, <4>2
    <3> QED
      BY <3>1, <3>2
  <2>4. h = Step(h)
    BY <2>3
  <2> QED
    BY <2>4
<1>8. iter = Step(iter)
  <2>1. Eq(iter)
    <3> HIDE DEF Eq
    <3> QED
      BY <1>7
  <2> QED
    BY <2>1
<1> HIDE DEF iter
<1> DEFINE p == [i \in 0 .. n |-> iter[1 .. i]]
<1>9. p[0] = pool /\ p[n] = iter[S]
  <2>1. iter[{}] = pool
    BY <1>8
  <2>2. 1 .. 0 = {}
    OBVIOUS
  <2> QED
    BY <2>1, <2>2
<1>10. \A i \in 1 .. n : p[i] = LoopOp(del, f, p[i - 1], v[i])
  <2> SUFFICES ASSUME NEW i \in 1 .. n PROVE p[i] = LoopOp(del, f, p[i - 1], v[i])
    OBVIOUS
  <2>1. (1 .. i) \in SUBSET S /\ i \in 1 .. i
    OBVIOUS
  <2>2. Max(1 .. i) = i
    <3>1. i \in Nat /\ (1 .. i) \in SUBSET (1 .. i) /\ 1 .. i # {}
      BY <2>1
    <3> DEFINE a == 1 .. i
    <3>2. Max(a) \in a /\ \A y \in a : y <= Max(a)
      <4> HIDE DEF a
      <4>1. a \in SUBSET (1 .. i) /\ a # {}
        BY <3>1 DEF a
      <4> QED
        BY <3>1, <4>1, MaxUpto
    <3> QED
      BY <2>1, <3>2
  <2>3. (1 .. i) \ {i} = 1 .. (i - 1)
    OBVIOUS
  <2> DEFINE a == 1 .. i
             c == a \ {Max(a)}
  <2>4. iter[a] = LoopOp(del, f, iter[c], v[Max(a)])
    <3>1. a # {} /\ a \in SUBSET S
      BY <2>1
    <3> HIDE DEF a
    <3> QED
      BY <1>8, <3>1
  <2>5. c = 1 .. (i - 1) /\ Max(a) = i
    BY <2>2, <2>3
  <2>6. i - 1 \in 0 .. n /\ i \in 0 .. n
    OBVIOUS
  <2> QED
    BY <2>4, <2>5, <2>6
<1>11. IsRun(p, n, del, f, pool, v)
  BY <1>1, <1>9, <1>10 DEF IsRun
<1> QED
  BY <1>11

\* The loops of SetBestChain.
LEMMA LoopsOfSetBestChain ==
  ASSUME NEW f
  PROVE  /\ PoolResurrected(f) = Loop("resurrect", f, Pool, vResurrect)
         /\ PoolAfter(f) = Loop("delete", f, PoolResurrected(f), vDelete)
<1>1. ASSUME NEW pool, NEW v
      PROVE  FoldLeft(Delete, pool, v) = Loop("delete", f, pool, v)
  BY DEF Loop, FoldLeft, MapThenFoldSet, LoopOp
<1>2. PoolResurrected(f) = Loop("resurrect", f, Pool, vResurrect)
  BY DEF Loop, FoldLeft, MapThenFoldSet, LoopOp, PoolResurrected
<1>3. PoolAfter(f) = Loop("delete", f, PoolResurrected(f), vDelete)
  BY <1>1 DEF PoolAfter
<1> QED
  BY <1>2, <1>3
\* The elements of a sequence.
Elements(v) == {v[i] : i \in DOMAIN v}

\* A concatenation has the elements of its parts.
LEMMA ConcatElements ==
  ASSUME NEW v \in Seq(Tx), NEW w \in Seq(Tx)
  PROVE  v \o w \in Seq(Tx) /\ Elements(v \o w) = Elements(v) \cup Elements(w)
<1> DEFINE m == Len(v)
           n == Len(w)
<1>1. /\ m \in Nat /\ n \in Nat /\ DOMAIN v = 1 .. m /\ DOMAIN w = 1 .. n
      /\ v \o w \in Seq(Tx) /\ Len(v \o w) = m + n /\ DOMAIN (v \o w) = 1 .. (m + n)
  OBVIOUS
<1>2. \A i \in 1 .. (m + n) : (v \o w)[i] = IF i <= m THEN v[i] ELSE w[i - m]
  OBVIOUS
<1>3. ASSUME NEW x \in Elements(v \o w)
      PROVE  x \in Elements(v) \cup Elements(w)
  <2>1. PICK i \in 1 .. (m + n) : x = (v \o w)[i]
    BY <1>1 DEF Elements
  <2>2. CASE i <= m
    <3>1. i \in 1 .. m /\ x = v[i]
      BY <1>1, <1>2, <2>1, <2>2
    <3> QED
      BY <1>1, <3>1 DEF Elements
  <2>3. CASE ~(i <= m)
    <3>1. i - m \in 1 .. n /\ x = w[i - m]
      BY <1>1, <1>2, <2>1, <2>3
    <3> QED
      BY <1>1, <3>1 DEF Elements
  <2> QED
    BY <2>2, <2>3
<1>4. ASSUME NEW x \in Elements(v)
      PROVE  x \in Elements(v \o w)
  <2>1. PICK i \in 1 .. m : x = v[i]
    BY <1>1 DEF Elements
  <2>2. i \in 1 .. (m + n) /\ i <= m
    BY <1>1
  <2>3. (v \o w)[i] = x
    BY <1>2, <2>1, <2>2
  <2> QED
    BY <1>1, <2>2, <2>3 DEF Elements
<1>5. ASSUME NEW x \in Elements(w)
      PROVE  x \in Elements(v \o w)
  <2>1. PICK i \in 1 .. n : x = w[i]
    BY <1>1 DEF Elements
  <2>2. i + m \in 1 .. (m + n) /\ ~(i + m <= m) /\ (i + m) - m = i
    BY <1>1
  <2>3. (v \o w)[i + m] = x
    BY <1>2, <2>1, <2>2
  <2> QED
    BY <1>1, <2>2, <2>3 DEF Elements
<1> QED
  BY <1>1, <1>3, <1>4, <1>5

\* TxsAbove collects what the blocks above the shared ones hold.
LEMMA TxsAboveExact ==
  ASSUME NEW b \in Block, NEW S, Genesis \in S, \A a \in S \cap Block : Chain[a] \subseteq S
  PROVE  /\ TxsAbove(b, S) \in Seq(Tx)
         /\ Elements(TxsAbove(b, S)) = UNION {TxsOf(a) : a \in Chain[b] \ S}
<1> DEFINE C == Chain[b]
           n == nHeight[b]
           Step(h) == [a \in C |-> IF a \in S THEN <<>> ELSE h[Prev[a]] \o Vtx[a]]
           Eq(h) == h = Step(h)
           queue == CHOOSE h : Eq(h)
<1>1. TxsAbove(b, S) = queue[b]
  BY DEF TxsAbove
<1>2. n \in Nat /\ \A a \in C : a \in Block /\ nHeight[a] \in 0 .. n
  <2>1. nHeight \in [Block -> Nat]
    BY HeightRecursion
  <2> QED
    BY <2>1, ChainType, ChainHeight
<1>3. \A a \in C : a \notin S =>
         /\ a # Genesis /\ Prev[a] \in C /\ nHeight[Prev[a]] = nHeight[a] - 1
         /\ Chain[a] \ S = {a} \cup (Chain[Prev[a]] \ S)
  <2> SUFFICES ASSUME NEW a \in C, a \notin S
               PROVE  /\ a # Genesis /\ Prev[a] \in C /\ nHeight[Prev[a]] = nHeight[a] - 1
                      /\ Chain[a] \ S = {a} \cup (Chain[Prev[a]] \ S)
    OBVIOUS
  <2>1. a \in Block /\ a # Genesis
    BY <1>2, RootedAssumption
  <2>2. Prev[a] \in Block /\ Chain[a] = {a} \cup Chain[Prev[a]]
    BY <2>1, ChainUnfold
  <2>3. Chain[a] \subseteq C
    BY ChainOfAncestor
  <2>4. Prev[a] \in C
    BY <2>2, <2>3, ChainType
  <2>5. nHeight[a] = nHeight[Prev[a]] + 1 /\ nHeight[Prev[a]] \in Nat
    BY <1>2, <2>1, <2>4, HeightRecursion
  <2>6. nHeight[Prev[a]] = nHeight[a] - 1
    BY <2>5
  <2> QED
    BY <2>1, <2>2, <2>4, <2>6
<1>4. \A a \in C : a \in S => Chain[a] \ S = {}
  BY <1>2
<1>5. b \in C
  BY ChainType
<1> HIDE DEF C
<1> DEFINE Good(h, k) == \A a \in C : nHeight[a] <= k => h[a] = Step(h)[a]
           T == {k \in 0 .. n : \E h : Good(h, k)}
<1>6. 0 \in T
  <2> DEFINE h == [a \in C |-> <<>>]
  <2>1. \A a \in C : nHeight[a] <= 0 => a \in S
    <3> SUFFICES ASSUME NEW a \in C, nHeight[a] <= 0, a \notin S PROVE FALSE
      OBVIOUS
    <3>1. nHeight[Prev[a]] = nHeight[a] - 1 /\ nHeight[Prev[a]] \in 0 .. n /\ nHeight[a] \in 0 .. n
      BY <1>2, <1>3
    <3> QED
      BY <1>2, <3>1
  <2>2. Good(h, 0)
    BY <2>1
  <2> HIDE DEF Good, h
  <2>3. \E g : Good(g, 0)
    BY <2>2
  <2> QED
    BY <1>2, <2>3
<1>7. ASSUME NEW k \in 1 .. n, k - 1 \in T
      PROVE  k \in T
  <2>1. PICK g : Good(g, k - 1)
    BY <1>7
  <2> DEFINE h == Step(g)
  <2>2. ASSUME NEW a \in C, nHeight[a] <= k
        PROVE  h[a] = Step(h)[a]
    <3>1. CASE a \in S
      BY <3>1
    <3>2. CASE a \notin S
      <4> DEFINE r == Prev[a]
      <4>1. r \in C /\ nHeight[r] <= k - 1
        <5>1. r \in C /\ nHeight[r] = nHeight[a] - 1
          BY <1>3, <3>2
        <5>2. nHeight[a] \in Int /\ k \in Int
          BY <1>2
        <5> HIDE DEF r
        <5> QED
          BY <2>2, <5>1, <5>2
      <4>2. g[r] = h[r]
        BY <2>1, <4>1
      <4>3. h[a] = g[r] \o Vtx[a]
        BY <3>2
      <4>4. Step(h)[a] = h[r] \o Vtx[a]
        BY <3>2
      <4> HIDE DEF h
      <4> QED
        BY <4>2, <4>3, <4>4
    <3> QED
      BY <3>1, <3>2
  <2>3. Good(h, k)
    BY <2>2
  <2> HIDE DEF Good, h
  <2>4. \E h1 : Good(h1, k)
    BY <2>3
  <2> QED
    BY <1>2, <2>4
<1>8. n \in T
  <2> HIDE DEF T
  <2>1. 0 .. n \subseteq T
    BY <1>2, <1>6, <1>7, UpwardInduction
  <2> QED
    BY <1>2, <2>1
<1>9. \E h : Eq(h)
  <2>1. PICK g : Good(g, n)
    BY <1>8
  <2> DEFINE h == Step(g)
  <2>2. \A a \in C : g[a] = h[a]
    <3>1. \A a \in C : nHeight[a] <= n
      BY <1>2
    <3> QED
      BY <2>1, <3>1
  <2>3. \A a \in C : h[a] = Step(h)[a]
    <3> SUFFICES ASSUME NEW a \in C PROVE h[a] = Step(h)[a]
      OBVIOUS
    <3>1. CASE a \in S
      BY <3>1
    <3>2. CASE a \notin S
      <4>1. g[Prev[a]] = h[Prev[a]]
        BY <1>3, <2>2, <3>2
      <4>2. h[a] = g[Prev[a]] \o Vtx[a] /\ Step(h)[a] = h[Prev[a]] \o Vtx[a]
        BY <3>2
      <4> HIDE DEF h
      <4> QED
        BY <4>1, <4>2
    <3> QED
      BY <3>1, <3>2
  <2>4. h = Step(h)
    BY <2>3
  <2> QED
    BY <2>4
<1>10. queue = Step(queue)
  <2>1. Eq(queue)
    <3> HIDE DEF Eq
    <3> QED
      BY <1>9
  <2> QED
    BY <2>1
<1> HIDE DEF queue, T
<1> DEFINE Held(a) == UNION {TxsOf(c) : c \in Chain[a] \ S}
           R == {k \in 0 .. n : \A a \in C : nHeight[a] <= k =>
                                   queue[a] \in Seq(Tx) /\ Elements(queue[a]) = Held(a)}
<1>11. \A a \in C : a \in S => queue[a] \in Seq(Tx) /\ Elements(queue[a]) = Held(a)
  <2> SUFFICES ASSUME NEW a \in C, a \in S
               PROVE  queue[a] \in Seq(Tx) /\ Elements(queue[a]) = Held(a)
    OBVIOUS
  <2>1. queue[a] = <<>>
    BY <1>10
  <2>2. Held(a) = {}
    BY <1>4
  <2>3. Elements(<<>>) = {}
    BY DEF Elements
  <2> HIDE DEF Held
  <2> QED
    BY <2>1, <2>2, <2>3
<1>12. 0 \in R
  <2>1. \A a \in C : nHeight[a] <= 0 => a \in S
    <3> SUFFICES ASSUME NEW a \in C, nHeight[a] <= 0, a \notin S PROVE FALSE
      OBVIOUS
    <3>1. nHeight[Prev[a]] = nHeight[a] - 1 /\ nHeight[Prev[a]] \in 0 .. n /\ nHeight[a] \in 0 .. n
      BY <1>2, <1>3
    <3> QED
      BY <1>2, <3>1
  <2> HIDE DEF Held
  <2> QED
    BY <1>2, <1>11, <2>1
<1>13. ASSUME NEW k \in 1 .. n, k - 1 \in R
       PROVE  k \in R
  <2>1. ASSUME NEW a \in C, nHeight[a] <= k
        PROVE  queue[a] \in Seq(Tx) /\ Elements(queue[a]) = Held(a)
    <3>1. CASE a \notin S
      <4> DEFINE r == Prev[a]
      <4>1. r \in C /\ nHeight[r] = nHeight[a] - 1 /\ Chain[a] \ S = {a} \cup (Chain[r] \ S)
        BY <1>3, <3>1
      <4>2. nHeight[r] <= k - 1
        <5>1. nHeight[a] \in Int /\ k \in Int
          BY <1>2
        <5> HIDE DEF r
        <5> QED
          BY <2>1, <4>1, <5>1
      <4>3. queue[r] \in Seq(Tx) /\ Elements(queue[r]) = Held(r)
        BY <1>13, <4>1, <4>2
      <4>4. Vtx[a] \in Seq(Tx) /\ Elements(Vtx[a]) = TxsOf(a)
        BY <1>2, BlockAssumption DEF Elements, TxsOf
      <4>5. queue[a] = queue[r] \o Vtx[a]
        BY <1>10, <3>1
      <4>6. Held(a) = Held(r) \cup TxsOf(a)
        BY <4>1
      <4> HIDE DEF Held, r
      <4>7. queue[a] \in Seq(Tx) /\ Elements(queue[a]) = Elements(queue[r]) \cup Elements(Vtx[a])
        BY <4>3, <4>4, <4>5, ConcatElements
      <4> QED
        BY <4>3, <4>4, <4>6, <4>7
    <3> QED
      BY <1>11, <3>1
  <2> HIDE DEF Held
  <2> QED
    BY <1>2, <2>1
<1>14. n \in R
  <2> HIDE DEF R
  <2>1. 0 .. n \subseteq R
    BY <1>2, <1>12, <1>13, UpwardInduction
  <2> QED
    BY <1>2, <2>1
<1>15. queue[b] \in Seq(Tx) /\ Elements(queue[b]) = Held(b)
  <2> HIDE DEF Held
  <2>1. n <= n
    BY <1>2
  <2> QED
    BY <1>5, <1>14, <2>1
<1> QED
  BY <1>1, <1>15 DEF C

\* A chain holds what is below its blocks; so do the blocks up to the last checkpoint.
LEMMA SharedClosed ==
  ASSUME NEW x \in Block
  PROVE  /\ Genesis \in Chain[x] /\ \A a \in Chain[x] \cap Block : Chain[a] \subseteq Chain[x]
         /\ Genesis \in Chain[x] \cup Checkpointed
         /\ \A a \in (Chain[x] \cup Checkpointed) \cap Block :
               Chain[a] \subseteq Chain[x] \cup Checkpointed
<1>1. Genesis \in Chain[x] /\ \A a \in Chain[x] \cap Block : Chain[a] \subseteq Chain[x]
  BY RootedAssumption, ChainOfAncestor
<1>2. ASSUME NEW a \in Checkpointed, NEW c \in Chain[a]
      PROVE  c \in Checkpointed
  <2>1. a \in Block /\ c \in Block /\ nHeight[c] <= nHeight[a]
    BY ChainType, ChainHeight DEF Checkpointed
  <2>2. nHeight[a] \in Nat /\ nHeight[c] \in Nat /\ nHeight[a] <= TotalBlocksEstimate
    BY <2>1, HeightRecursion DEF Checkpointed
  <2> QED
    BY <2>1, <2>2, DownloadAssumption DEF Checkpointed
<1> QED
  BY <1>1, <1>2

\* The lists of SetBestChain.
LEMMA ListsOfSetBestChain ==
  ASSUME pindexBest \in Block, pindexNew \in Block
  PROVE  /\ vResurrect \in Seq(Tx) /\ vDelete \in Seq(Tx)
         /\ Elements(vResurrect) =
               UNION {TxsOf(a) : a \in Chain[pindexBest] \ (Chain[pindexNew] \cup Checkpointed)}
         /\ Elements(vDelete) =
               UNION {TxsOf(a) : a \in Chain[pindexNew] \ Chain[pindexBest]}
  BY SharedClosed, TxsAboveExact DEF vResurrect, vDelete

--------------------------------------------------------------------------------
\* What a pool has to be.

PoolType == [tx : SUBSET Tx, next : [OutPoint -> Tx \cup {Null}]]

\* Its two maps agree, and it holds nothing that is minted or wrong in itself.
PoolOK(pool) ==
    /\ pool \in PoolType
    /\ \A t \in pool.tx : Kind[t] \in {"user", "unpark"} /\ CheckTransaction(t)
    /\ \A o \in OutPoint : \A t \in Tx : pool.next[o] = t <=> t \in pool.tx /\ o \in Vin[t]

\* It neither holds nor conflicts with given transactions.
Apart(pool, txs) ==
    \A t \in pool.tx : t \notin txs /\ \A u \in txs : Vin[t] \cap Vin[u] = {}

\* What a pool transaction spends is in coins c, in the pool or was minted, or comes from
\* one of the transactions that are exempt or still to be resurrected, or is spent by one
\* of those that are still to be deleted.
Based(pool, c, back, gone) ==
    \A t \in pool.tx : \A o \in Vin[t] :
        \/ o[2] \in c[o[1]].vout
        \/ o[1] \in pool.tx
        \/ Kind[o[1]] \in {"coinbase", "coinstake", "grant"}
        \/ o[1] \in back
        \/ \E u \in gone : o \in Vin[u]

\* A transaction is none of given ones and spends nothing they spend.
Foreign(t, txs) == \A u \in txs : u # t /\ Vin[t] \cap Vin[u] = {}

\* The transactions are among those deleted, the one at hand and those that follow.
Covered(all, txs, t, gone) == all \subseteq txs \cup {t} \cup gone

\* What a transaction creates is in coins c or spent by given transactions.
Settled(t, c, txs) ==
    \A n \in DOMAIN Vout[t] : n \in c[t].vout \/ \E u \in txs : <<t, n>> \in Vin[u]

\* A transaction spends outputs.
LEMMA VinPoints ==
  ASSUME NEW t \in Tx
  PROVE  \A o \in Vin[t] : o \in OutPoint /\ o = <<o[1], o[2]>> /\ o[1] \in Tx
                           /\ o[2] \in DOMAIN Vout[o[1]]
  BY TxAssumption DEF OutPoint

\* Transactions leave a pool with what they spend.
LEMMA EraseOK ==
  ASSUME NEW pool, PoolOK(pool), NEW T
  PROVE  PoolOK(Erase(pool, T)) /\ Erase(pool, T).tx = pool.tx \ T
<1> DEFINE q == Erase(pool, T)
<1>1. q.tx = pool.tx \ T
  BY DEF Erase
<1>2. \A o \in OutPoint : q.next[o] = IF \E t \in T \cap pool.tx : o \in Vin[t]
                                      THEN Null ELSE pool.next[o]
  BY DEF Erase
<1>3. q \in PoolType
  BY DEF Erase, PoolOK, PoolType
<1> HIDE DEF q
<1>4. ASSUME NEW o \in OutPoint, NEW u \in Tx
      PROVE  q.next[o] = u <=> u \in q.tx /\ o \in Vin[u]
  <2>1. pool.tx \subseteq Tx /\ \A t \in Tx : pool.next[o] = t <=> t \in pool.tx /\ o \in Vin[t]
    BY DEF PoolOK, PoolType
  <2>2. CASE \E t \in T \cap pool.tx : o \in Vin[t]
    <3>1. PICK t \in T \cap pool.tx : o \in Vin[t]
      BY <2>2
    <3>2. q.next[o] # u
      <4>1. q.next[o] = Null
        BY <1>2, <2>2
      <4>2. Null \notin Tx
        BY TxAssumption
      <4> QED
        BY <4>1, <4>2
    <3>3. pool.next[o] = t
      BY <2>1, <3>1
    <3>4. u \in pool.tx /\ o \in Vin[u] => u = t
      BY <2>1, <3>3
    <3> QED
      BY <1>1, <3>1, <3>2, <3>4
  <2>3. CASE ~ \E t \in T \cap pool.tx : o \in Vin[t]
    BY <1>1, <1>2, <2>1, <2>3
  <2> QED
    BY <2>2, <2>3
<1>5. PoolOK(q)
  BY <1>1, <1>3, <1>4 DEF PoolOK
<1> QED
  BY <1>1, <1>5 DEF q

\* A transaction enters a pool that spends nothing of what it spends.
LEMMA AddOK ==
  ASSUME NEW pool, PoolOK(pool), NEW t \in Tx, Kind[t] \in {"user", "unpark"},
         CheckTransaction(t), \A o \in Vin[t] : pool.next[o] = Null
  PROVE  PoolOK(AddUnchecked(pool, t)) /\ AddUnchecked(pool, t).tx = pool.tx \cup {t}
<1> DEFINE q == AddUnchecked(pool, t)
<1>1. q.tx = pool.tx \cup {t}
  BY DEF AddUnchecked
<1>2. \A o \in OutPoint : q.next[o] = IF o \in Vin[t] THEN t ELSE pool.next[o]
  BY DEF AddUnchecked
<1>3. q \in PoolType
  BY DEF AddUnchecked, PoolOK, PoolType
<1> HIDE DEF q
<1>4. ASSUME NEW o \in OutPoint, NEW u \in Tx
      PROVE  q.next[o] = u <=> u \in q.tx /\ o \in Vin[u]
  <2>1. pool.next[o] = u <=> u \in pool.tx /\ o \in Vin[u]
    BY DEF PoolOK
  <2>2. CASE o \in Vin[t]
    <3>1. pool.next[o] = Null /\ Null # u /\ q.next[o] = t
      BY <1>2, <2>2, TxAssumption
    <3> QED
      BY <1>1, <2>1, <2>2, <3>1
  <2>3. CASE o \notin Vin[t]
    BY <1>1, <1>2, <2>1, <2>3
  <2> QED
    BY <2>2, <2>3
<1>5. PoolOK(q)
  BY <1>1, <1>3, <1>4 DEF PoolOK
<1> QED
  BY <1>1, <1>5 DEF q

\* Dependents are in the pool, and what spends from the transaction or from a dependent
\* is one.
LEMMA DependentsClosed ==
  ASSUME NEW pool, PoolOK(pool), NEW t
  PROVE  /\ Dependents(pool, t) \subseteq pool.tx
         /\ \A x \in pool.tx : \A o \in Vin[x] :
               o[1] \in {t} \cup Dependents(pool, t) => x \in Dependents(pool, t)
<1>1. Dependents(pool, t) \subseteq pool.tx
  BY DEF Dependents
<1>2. ASSUME NEW x \in pool.tx, NEW o \in Vin[x], o[1] \in {t} \cup Dependents(pool, t)
      PROVE  x \in Dependents(pool, t)
  <2>1. x \in Tx
    BY DEF PoolOK, PoolType
  <2>2. o \in OutPoint /\ o = <<o[1], o[2]>> /\ o[1] \in Tx /\ o[2] \in DOMAIN Vout[o[1]]
    BY <2>1, VinPoints
  <2>3. pool.next[o] = x /\ x # Null
    BY <2>1, <2>2, TxAssumption DEF PoolOK
  <2>4. x \in Spenders(pool, o[1])
    BY <2>2, <2>3 DEF Spenders
  <2> SUFFICES ASSUME NEW S \in SUBSET pool.tx, Spenders(pool, t) \subseteq S,
                      \A s \in S : Spenders(pool, s) \subseteq S
               PROVE  x \in S
    BY DEF Dependents
  <2>5. CASE o[1] = t
    BY <2>4, <2>5
  <2>6. CASE o[1] \in Dependents(pool, t)
    <3>1. o[1] \in S
      BY <2>6 DEF Dependents
    <3> QED
      BY <2>4, <3>1
  <2> QED
    BY <1>2, <2>5, <2>6
<1> QED
  BY <1>1, <1>2

--------------------------------------------------------------------------------
\* One transaction of the loops.

\* A resurrected transaction keeps the pool apart from the shared blocks, and whether it
\* enters the pool or not nothing waits for it any more.
LEMMA ResurrectStep ==
  ASSUME NEW pool, PoolOK(pool), NEW t \in Tx, NEW f, NEW txs, NEW back, NEW gone,
         Apart(pool, txs), Foreign(t, txs), Based(pool, view, back \cup {t}, gone)
  PROVE  LET q == Resurrect(pool, t, f)
         IN  PoolOK(q) /\ Apart(q, txs) /\ Based(q, view, back, gone)
<1> DEFINE q == Resurrect(pool, t, f)
           D == {t} \cup Dependents(pool, t)
<1>0. Kind[t] \in {"coinbase", "coinstake", "grant", "unpark", "user"}
  BY TxAssumption
<1>1. CASE Kind[t] \notin {"user", "unpark"}
  <2>1. q = pool
    BY <1>1 DEF Resurrect
  <2>2. Based(pool, view, back, gone)
    BY <1>0, <1>1 DEF Based
  <2> QED
    BY <2>1, <2>2
<1>2. CASE Kind[t] \in {"user", "unpark"} /\ f /\ IsAcceptable(pool, t, view, pindexNew)
  <2>1. q = AddUnchecked(pool, t)
    BY <1>2 DEF Resurrect
  <2>2. PoolOK(q) /\ q.tx = pool.tx \cup {t}
    <3>1. CheckTransaction(t) /\ \A o \in Vin[t] : pool.next[o] = Null
      BY <1>2 DEF IsAcceptable, IsOffered
    <3> HIDE DEF q
    <3> QED
      BY <1>2, <2>1, <3>1, AddOK
  <2>3. HaveInputs(t, PoolView(pool, view))
    BY <1>2 DEF IsAcceptable
  <2> HIDE DEF q
  <2>4. Apart(q, txs)
    BY <2>2 DEF Apart, Foreign
  <2>5. Based(q, view, back, gone)
    <3> SUFFICES ASSUME NEW x \in q.tx, NEW o \in Vin[x]
                 PROVE  \/ o[2] \in view[o[1]].vout
                        \/ o[1] \in q.tx
                        \/ Kind[o[1]] \in {"coinbase", "coinstake", "grant"}
                        \/ o[1] \in back
                        \/ \E u \in gone : o \in Vin[u]
      BY DEF Based
    <3>1. CASE x = t
      <4>1. o[1] \in Tx /\ o[2] \in PoolView(pool, view)[o[1]].vout
        BY <2>3, <3>1, VinPoints DEF HaveInputs
      <4> QED
        BY <2>2, <4>1 DEF PoolView
    <3>2. CASE x \in pool.tx
      BY <2>2, <3>2 DEF Based
    <3> QED
      BY <2>2, <3>1, <3>2
  <2> QED
    BY <2>2, <2>4, <2>5 DEF q
<1>3. CASE Kind[t] \in {"user", "unpark"} /\ ~(f /\ IsAcceptable(pool, t, view, pindexNew))
  <2>1. q = Erase(pool, D)
    BY <1>3 DEF Resurrect, RemoveRecursive
  <2>2. PoolOK(q) /\ q.tx = pool.tx \ D
    BY <2>1, EraseOK
  <2>3. \A x \in pool.tx : \A o \in Vin[x] : o[1] \in D => x \in D
    BY DependentsClosed
  <2> HIDE DEF q
  <2>4. Apart(q, txs)
    BY <2>2 DEF Apart
  <2>5. Based(q, view, back, gone)
    <3>1. t \in D
      OBVIOUS
    <3> HIDE DEF D
    <3> QED
      BY <2>2, <2>3, <3>1 DEF Based
  <2> QED
    BY <2>2, <2>4, <2>5 DEF q
<1> QED
  BY <1>0, <1>1, <1>2, <1>3

\* A deleted transaction leaves the pool with all that conflicts, and what spends its
\* outputs finds them in the coins or is itself in conflict.
LEMMA DeleteStep ==
  ASSUME NEW pool, PoolOK(pool), NEW t \in Tx, NEW c, NEW txs, NEW exempt, NEW gone,
         Apart(pool, txs), Based(pool, c, exempt, gone \cup {t}),
         NEW all, Covered(all, txs, t, gone), Settled(t, c, all)
  PROVE  LET q == Delete(pool, t)
         IN  PoolOK(q) /\ Apart(q, txs \cup {t}) /\ Based(q, c, exempt, gone)
<1> DEFINE p == RemoveOne(pool, t)
           conflicts == {p.next[o] : o \in Vin[t]} \ {Null, t}
           D == conflicts \cup UNION {Dependents(p, x) : x \in conflicts}
           q == Delete(pool, t)
<1>1. PoolOK(p) /\ p.tx = pool.tx \ {t}
  BY EraseOK DEF RemoveOne
<1>2. q = Erase(p, D)
  BY DEF Delete, RemoveConflicts
<1> HIDE DEF p, q
<1>3. PoolOK(q) /\ q.tx = p.tx \ D
  <2> HIDE DEF D
  <2> QED
    BY <1>1, <1>2, EraseOK
<1>4. \A x \in p.tx : Vin[x] \cap Vin[t] # {} => x \in conflicts
  <2> SUFFICES ASSUME NEW x \in p.tx, NEW o, o \in Vin[x], o \in Vin[t]
               PROVE  x \in conflicts
    OBVIOUS
  <2>1. x \in Tx /\ x # t /\ x # Null
    BY <1>1, TxAssumption DEF PoolOK, PoolType
  <2>2. p.next[o] = x
    BY <1>1, <2>1, VinPoints DEF PoolOK
  <2> QED
    BY <2>1, <2>2
<1>5. \A x \in p.tx : \A o \in Vin[x] : o[1] \in D => x \in D
  <2> SUFFICES ASSUME NEW x \in p.tx, NEW o \in Vin[x], o[1] \in D
               PROVE  x \in D
    OBVIOUS
  <2>1. PICK y \in conflicts : o[1] \in {y} \cup Dependents(p, y)
    OBVIOUS
  <2>2. x \in Dependents(p, y)
    BY <1>1, <2>1, DependentsClosed
  <2> QED
    BY <2>1, <2>2
<1>6. conflicts \subseteq D
  OBVIOUS
<1> HIDE DEF conflicts, D
<1>7. q.tx \subseteq pool.tx /\ \A x \in q.tx : x \in p.tx /\ x # t /\ Vin[x] \cap Vin[t] = {}
  BY <1>1, <1>3, <1>4, <1>6
<1>8. Apart(q, txs \cup {t})
  BY <1>7 DEF Apart
<1>9. Based(q, c, exempt, gone)
  <2> SUFFICES ASSUME NEW x \in q.tx, NEW o \in Vin[x]
               PROVE  \/ o[2] \in c[o[1]].vout
                      \/ o[1] \in q.tx
                      \/ Kind[o[1]] \in {"coinbase", "coinstake", "grant"}
                      \/ o[1] \in exempt
                      \/ \E u \in gone : o \in Vin[u]
    BY DEF Based
  <2>1. x \in pool.tx /\ x \in p.tx /\ x \in Tx
    BY <1>7 DEF PoolOK, PoolType
  <2>2. \/ o[2] \in c[o[1]].vout
        \/ o[1] \in pool.tx
        \/ Kind[o[1]] \in {"coinbase", "coinstake", "grant"}
        \/ o[1] \in exempt
        \/ \E u \in gone \cup {t} : o \in Vin[u]
    BY <2>1 DEF Based
  <2>3. o \notin Vin[t]
    BY <1>7
  <2>4. CASE o[1] = t
    <3>1. o = <<t, o[2]>> /\ o[2] \in DOMAIN Vout[t]
      BY <2>1, <2>4, VinPoints
    <3>2. \A u \in txs \cup {t} : o \notin Vin[u]
      BY <1>8 DEF Apart
    <3>3. CASE o[2] \in c[t].vout
      BY <2>4, <3>3
    <3>4. CASE \E u \in all : o \in Vin[u]
      BY <2>4, <3>2, <3>4 DEF Covered
    <3> QED
      BY <3>1, <3>3, <3>4 DEF Settled
  <2>5. CASE o[1] # t /\ o[1] \in pool.tx
    <3>1. o[1] \in p.tx
      BY <1>1, <2>5
    <3>2. o[1] \notin D
      BY <1>3, <1>5, <2>1
    <3> QED
      BY <1>3, <3>1, <3>2
  <2> QED
    BY <2>2, <2>3, <2>4, <2>5
<1> QED
  BY <1>3, <1>8, <1>9 DEF q

--------------------------------------------------------------------------------
\* The loops.

\* What is left of a sequence after its first j elements.
LEMMA RestStep ==
  ASSUME NEW v \in Seq(Tx)
  PROVE  LET n == Len(v)
             Rest(j) == {v[k] : k \in (j + 1) .. n}
             Done(j) == {v[k] : k \in 1 .. j}
         IN  /\ n \in Nat /\ DOMAIN v = 1 .. n
             /\ Rest(0) = Elements(v) /\ Rest(n) = {} /\ Done(0) = {} /\ Done(n) = Elements(v)
             /\ \A j \in 1 .. n : /\ v[j] \in Tx /\ v[j] \in Elements(v)
                                  /\ Rest(j - 1) = Rest(j) \cup {v[j]}
                                  /\ Done(j) = Done(j - 1) \cup {v[j]}
<1> DEFINE n == Len(v)
           Rest(j) == {v[k] : k \in (j + 1) .. n}
           Done(j) == {v[k] : k \in 1 .. j}
<1>1. n \in Nat /\ DOMAIN v = 1 .. n /\ \A j \in 1 .. n : v[j] \in Tx
  OBVIOUS
<1>2. Rest(0) = Elements(v) /\ Rest(n) = {} /\ Done(0) = {} /\ Done(n) = Elements(v)
  BY <1>1 DEF Elements
<1>3. \A j \in 1 .. n : Rest(j - 1) = Rest(j) \cup {v[j]} /\ Done(j) = Done(j - 1) \cup {v[j]}
  <2> SUFFICES ASSUME NEW j \in 1 .. n
               PROVE  Rest(j - 1) = Rest(j) \cup {v[j]} /\ Done(j) = Done(j - 1) \cup {v[j]}
    OBVIOUS
  <2>1. ((j - 1) + 1) .. n = ((j + 1) .. n) \cup {j} /\ 1 .. j = (1 .. (j - 1)) \cup {j}
    BY <1>1
  <2> QED
    BY <2>1
<1>4. \A j \in 1 .. n : v[j] \in Elements(v)
  BY <1>1 DEF Elements
<1> QED
  BY <1>1, <1>2, <1>3, <1>4

\* The loop that puts transactions back.
LEMMA ResurrectLoop ==
  ASSUME NEW f, NEW pool, NEW v \in Seq(Tx), NEW txs, NEW exempt, NEW gone,
         PoolOK(pool), Apart(pool, txs), Based(pool, view, exempt \cup Elements(v), gone),
         \A t \in Elements(v) : Foreign(t, txs)
  PROVE  LET q == Loop("resurrect", f, pool, v)
         IN  PoolOK(q) /\ Apart(q, txs) /\ Based(q, view, exempt, gone)
<1> DEFINE n == Len(v)
           Rest(j) == {v[k] : k \in (j + 1) .. n}
<1>1. /\ n \in Nat /\ DOMAIN v = 1 .. n /\ Rest(0) = Elements(v) /\ Rest(n) = {}
      /\ \A j \in 1 .. n : /\ v[j] \in Tx /\ v[j] \in Elements(v)
                           /\ Rest(j - 1) = Rest(j) \cup {v[j]}
  BY RestStep
<1> HIDE DEF n, Rest
<1>2. PICK p : /\ p[0] = pool /\ p[n] = Loop("resurrect", f, pool, v)
               /\ \A i \in 1 .. n : p[i] = LoopOp("resurrect", f, p[i - 1], v[i])
  <2>1. \E p : IsRun(p, n, "resurrect", f, pool, v)
    BY <1>1, LoopSteps
  <2> QED
    BY <2>1 DEF IsRun
<1> DEFINE Good(j) == /\ PoolOK(p[j]) /\ Apart(p[j], txs)
                      /\ Based(p[j], view, exempt \cup Rest(j), gone)
           T == {j \in 0 .. n : Good(j)}
<1>3. 0 \in T
  <2>1. Based(p[0], view, exempt \cup Rest(0), gone)
    BY <1>1, <1>2
  <2>2. 0 \in 0 .. n
    BY <1>1
  <2> QED
    BY <1>2, <2>1, <2>2
<1>4. ASSUME NEW j \in 1 .. n, j - 1 \in T
      PROVE  j \in T
  <2> DEFINE t == v[j]
             o == p[j - 1]
             R == exempt \cup Rest(j)
             Q == exempt \cup Rest(j - 1)
  <2>1. t \in Tx /\ Foreign(t, txs)
    BY <1>1
  <2>2. PoolOK(o) /\ Apart(o, txs) /\ Based(o, view, Q, gone)
    BY <1>4
  <2>3. Q = R \cup {t}
    BY <1>1
  <2>4. p[j] = Resurrect(o, t, f)
    BY <1>2 DEF LoopOp
  <2> HIDE DEF t, o, R, Q
  <2>5. Based(o, view, R \cup {t}, gone)
    BY <2>2, <2>3 DEF Based
  <2>6. PoolOK(p[j]) /\ Apart(p[j], txs) /\ Based(p[j], view, R, gone)
    BY <2>1, <2>2, <2>4, <2>5, ResurrectStep
  <2>7. j \in 0 .. n
    BY <1>1
  <2> QED
    BY <2>6, <2>7 DEF R
<1>5. n \in T
  <2> HIDE DEF T
  <2>1. 0 .. n \subseteq T
    BY <1>1, <1>3, <1>4, UpwardInduction
  <2> QED
    BY <1>1, <2>1
<1>6. PoolOK(p[n]) /\ Apart(p[n], txs) /\ Based(p[n], view, exempt \cup Rest(n), gone)
  BY <1>5
<1>7. Based(p[n], view, exempt, gone)
  BY <1>1, <1>6
<1> QED
  BY <1>2, <1>6, <1>7

\* The loop that deletes.
LEMMA DeleteLoop ==
  ASSUME NEW f, NEW pool, NEW v \in Seq(Tx), NEW txs, NEW c, NEW exempt,
         PoolOK(pool), Apart(pool, txs), Based(pool, c, exempt, Elements(v)),
         \A t \in Elements(v) : Settled(t, c, txs \cup Elements(v))
  PROVE  LET q == Loop("delete", f, pool, v)
         IN  PoolOK(q) /\ Apart(q, txs \cup Elements(v)) /\ Based(q, c, exempt, {})
<1> DEFINE n == Len(v)
           Rest(j) == {v[k] : k \in (j + 1) .. n}
           Done(j) == {v[k] : k \in 1 .. j}
<1>1. /\ n \in Nat /\ DOMAIN v = 1 .. n /\ Rest(0) = Elements(v) /\ Rest(n) = {}
      /\ Done(0) = {} /\ Done(n) = Elements(v)
      /\ \A j \in 1 .. n : /\ v[j] \in Tx /\ v[j] \in Elements(v)
                           /\ Rest(j - 1) = Rest(j) \cup {v[j]}
                           /\ Done(j) = Done(j - 1) \cup {v[j]}
  BY RestStep
<1>2. \A j \in 1 .. n : Elements(v) \subseteq Done(j - 1) \cup {v[j]} \cup Rest(j)
  <2> SUFFICES ASSUME NEW j \in 1 .. n, NEW i \in 1 .. n
               PROVE  v[i] \in Done(j - 1) \cup {v[j]} \cup Rest(j)
    BY <1>1 DEF Elements
  <2>1. i \in 1 .. (j - 1) \/ i = j \/ i \in (j + 1) .. n
    BY <1>1
  <2> QED
    BY <2>1
<1> HIDE DEF n, Rest, Done
<1>3. PICK p : /\ p[0] = pool /\ p[n] = Loop("delete", f, pool, v)
               /\ \A i \in 1 .. n : p[i] = LoopOp("delete", f, p[i - 1], v[i])
  <2>1. \E p : IsRun(p, n, "delete", f, pool, v)
    BY <1>1, LoopSteps
  <2> QED
    BY <2>1 DEF IsRun
<1> DEFINE Good(j) == PoolOK(p[j]) /\ Apart(p[j], txs \cup Done(j)) /\ Based(p[j], c, exempt, Rest(j))
           T == {j \in 0 .. n : Good(j)}
<1>4. 0 \in T
  <2>1. Apart(p[0], txs \cup Done(0)) /\ Based(p[0], c, exempt, Rest(0))
    BY <1>1, <1>3 DEF Apart, Based
  <2> QED
    BY <1>1, <1>3, <2>1
<1>5. ASSUME NEW j \in 1 .. n, j - 1 \in T
      PROVE  j \in T
  <2> DEFINE t == v[j]
             o == p[j - 1]
             R == Rest(j)
             Q == Rest(j - 1)
             A == txs \cup Done(j - 1)
             B == txs \cup Done(j)
  <2>1. t \in Tx /\ t \in Elements(v)
    BY <1>1
  <2>2. PoolOK(o) /\ Apart(o, A) /\ Based(o, c, exempt, Q)
    BY <1>5
  <2>3. Q = R \cup {t} /\ B = A \cup {t}
    BY <1>1
  <2>4. p[j] = Delete(o, t)
    BY <1>3 DEF LoopOp
  <2> DEFINE all == txs \cup Elements(v)
  <2>5. Covered(all, A, t, R)
    BY <1>2 DEF Covered
  <2>7. Settled(t, c, all)
    BY <2>1
  <2> HIDE DEF t, o, R, Q, A, B, all
  <2>6. Based(o, c, exempt, R \cup {t})
    BY <2>2, <2>3 DEF Based
  <2>8. PoolOK(p[j]) /\ Apart(p[j], A \cup {t}) /\ Based(p[j], c, exempt, R)
    BY <2>1, <2>2, <2>4, <2>5, <2>6, <2>7, DeleteStep
  <2>9. Apart(p[j], B)
    BY <2>3, <2>8 DEF Apart
  <2>10. j \in 0 .. n
    BY <1>1
  <2> QED
    BY <2>8, <2>9, <2>10 DEF R, B
<1>6. n \in T
  <2> HIDE DEF T
  <2>1. 0 .. n \subseteq T
    BY <1>1, <1>4, <1>5, UpwardInduction
  <2> QED
    BY <1>1, <2>1
<1>7. PoolOK(p[n]) /\ Apart(p[n], txs \cup Done(n)) /\ Based(p[n], c, exempt, Rest(n))
  BY <1>6
<1>8. Apart(p[n], txs \cup Elements(v)) /\ Based(p[n], c, exempt, {})
  BY <1>1, <1>7 DEF Apart, Based
<1> QED
  BY <1>3, <1>7, <1>8

--------------------------------------------------------------------------------
\* SetBestChain.

\* A transaction of a block that was connected is none of those of the blocks below, and
\* spends nothing they spend.
LEMMA BlocksForeign ==
  ASSUME LInv, NEW b \in Connected, NEW a \in Chain[b], NEW c \in Chain[b], a \notin Chain[c],
         NEW t \in TxsOf(a), NEW u \in TxsOf(c)
  PROVE  u # t /\ Vin[t] \cap Vin[u] = {}
<1>1. Connected \in SUBSET Block /\ ClosedUnderPrev(Connected)
  BY TreeAssumption DEF LInv, CoinsTypeOK, UndoInv, Connected, ClosedUnderPrev
<1>2. b \in Block /\ a \in Connected /\ a \in Block /\ c \in Block
  BY <1>1, ChainInClosed
<1>3. a \in nUndoPos
  BY <1>2, RootedAssumption DEF Connected
<1>4. c \in Chain[a] /\ c # a
  BY <1>2, ChainLinear, ChainType
<1>5. PICK i \in DOMAIN Vtx[a] : t = Vtx[a][i]
  BY DEF TxsOf
<1>6. Applies(a, i) /\ t \in Tx
  BY <1>2, <1>3, <1>5, BlockAssumption DEF LInv, UndoInv
<1>7. u \in Upto(a, i - 1)
  <2>1. u \in Tx
    BY <1>2, BlockAssumption DEF TxsOf
  <2>2. c \in BlocksWith(u, a, i - 1)
    BY <1>4 DEF BlocksWith, TxsOf
  <2> QED
    BY <2>1, <2>2 DEF Upto
<1>8. ASSUME NEW o, o \in Vin[t], o \in Vin[u]
      PROVE  FALSE
  <2>1. o = <<o[1], o[2]>> /\ o[1] \in Tx /\ o[2] \in CoinsAt(a, i - 1)[o[1]].vout
    BY <1>5, <1>6, <1>8, VinPoints DEF Applies, HaveInputs
  <2>2. o[2] \in UnspentAt(o[1], a, i - 1)
    BY <2>1, CoinsVout
  <2> QED
    BY <1>7, <1>8, <2>1, <2>2 DEF UnspentAt
<1> QED
  BY <1>5, <1>6, <1>7, <1>8 DEF Applies

\* The transactions of the blocks that two chains share.
SharedTxs(b, x) == UNION {TxsOf(a) : a \in Chain[b] \cap Chain[x]}

\* The transactions of the two chains of SetBestChain: shared ones, those of its lists, and
\* those of blocks that it drops at or below the last checkpoint.
LEMMA ChainTxsSplit ==
  ASSUME pindexBest \in Connected, pindexNew \in Block, LInv
  PROVE  LET Shared == SharedTxs(pindexBest, pindexNew)
         IN  /\ Shared \cup Elements(vResurrect) \subseteq ChainTxs(pindexBest)
             /\ ChainTxs(pindexBest) \subseteq Shared \cup Elements(vResurrect) \cup CheckpointedTxs
             /\ ChainTxs(pindexNew) = Shared \cup Elements(vDelete)
<1> DEFINE B == pindexBest
           N == pindexNew
<1>1. Connected \in SUBSET Block /\ ClosedUnderPrev(Connected)
  BY TreeAssumption DEF LInv, CoinsTypeOK, UndoInv, Connected, ClosedUnderPrev
<1>2. B \in Block /\ Chain[B] \subseteq Connected
  BY <1>1, ChainInClosed
<1>3. /\ Elements(vResurrect) = UNION {TxsOf(a) : a \in Chain[B] \ (Chain[N] \cup Checkpointed)}
      /\ Elements(vDelete) = UNION {TxsOf(a) : a \in Chain[N] \ Chain[B]}
  BY <1>2, ListsOfSetBestChain
<1>4. ASSUME NEW a \in Chain[B] \cap Checkpointed
      PROVE  TxsOf(a) \subseteq CheckpointedTxs
  <2>1. CASE a = Genesis
    BY <2>1, BlockAssumption DEF TxsOf
  <2>2. CASE a # Genesis
    BY <1>2, <2>2 DEF CheckpointedTxs, Connected
  <2> QED
    BY <2>1, <2>2
<1>5. ChainTxs(B) \subseteq SharedTxs(B, N) \cup Elements(vResurrect) \cup CheckpointedTxs
  <2> SUFFICES ASSUME NEW a \in Chain[B], NEW t \in TxsOf(a)
               PROVE  t \in SharedTxs(B, N) \cup Elements(vResurrect) \cup CheckpointedTxs
    BY DEF ChainTxs
  <2>1. CASE a \in Chain[N]
    BY <2>1 DEF SharedTxs
  <2>2. CASE a \in Checkpointed
    BY <1>4, <2>2
  <2>3. CASE a \notin Chain[N] \cup Checkpointed
    BY <1>3, <2>3
  <2> QED
    BY <2>1, <2>2, <2>3
<1>6. /\ SharedTxs(B, N) \cup Elements(vResurrect) \subseteq ChainTxs(B)
      /\ ChainTxs(N) = SharedTxs(B, N) \cup Elements(vDelete)
  BY <1>3 DEF ChainTxs, SharedTxs
<1> QED
  BY <1>5, <1>6

\* When SetBestChain has moved the tip, the pool fits the new chain as it fitted the old.
LEMMA PoolFollowsTip ==
  ASSUME LInv, PoolOK(Pool), Apart(Pool, ChainTxs(pindexBest)),
         Based(Pool, pcoinsTip, CheckpointedTxs, {}),
         pc = "connect", viewBest = pindexNew, NEW f
  PROVE  /\ PoolOK(PoolAfter(f))
         /\ Apart(PoolAfter(f), ChainTxs(pindexNew))
         /\ Based(PoolAfter(f), view, CheckpointedTxs, {})
<1> DEFINE B == pindexBest
           N == pindexNew
           Shared == SharedTxs(B, N)
           Old == Elements(vResurrect)
           New == Elements(vDelete)
           Kept == CheckpointedTxs
<1>1. B \in Block /\ N \in Block /\ B \in Connected /\ N \in Connected
  BY DEF LInv, CoinsTypeOK, TipInv, ViewInv
<1>2. view = Tip(N) /\ pcoinsTip = Tip(B)
  <2>1. nTx \in Nat
    BY DEF LInv, CoinsTypeOK
  <2> QED
    BY <2>1 DEF LInv, TipInv, ViewInv
<1>3. vResurrect \in Seq(Tx) /\ vDelete \in Seq(Tx)
  BY <1>1, ListsOfSetBestChain
<1>4. /\ Shared \cup Old \subseteq ChainTxs(B) /\ ChainTxs(B) \subseteq Shared \cup Old \cup Kept
      /\ Shared \subseteq ChainTxs(N) /\ ChainTxs(N) = Shared \cup New
  BY <1>1, ChainTxsSplit
<1>5. /\ \A t \in Tx : pcoinsTip[t].vout = UnspentIn(t, B) /\ view[t].vout = UnspentIn(t, N)
      /\ ChainTxs(B) \subseteq Tx /\ ChainTxs(N) \subseteq Tx
  BY <1>1, <1>2, TipIsUnspent
<1>6. \A t \in Old : Foreign(t, Shared)
  <2> SUFFICES ASSUME NEW t \in Old, NEW u \in Shared
               PROVE  u # t /\ Vin[t] \cap Vin[u] = {}
    BY DEF Foreign
  <2>1. PICK a \in Chain[B] \ Chain[N] : t \in TxsOf(a)
    BY <1>1, ListsOfSetBestChain
  <2>2. PICK c \in Chain[B] \cap Chain[N] : u \in TxsOf(c)
    BY DEF SharedTxs
  <2>3. a \notin Chain[c]
    BY <1>1, <2>1, <2>2, ChainOfAncestor
  <2> QED
    BY <1>1, <2>1, <2>2, <2>3, BlocksForeign
<1> HIDE DEF B, N, Shared, Old, New, Kept
<1>7. Apart(Pool, Shared)
  BY <1>4 DEF Apart, B
<1>8. Based(Pool, view, Kept \cup Old, New)
  <2> SUFFICES ASSUME NEW x \in Pool.tx, NEW o \in Vin[x]
               PROVE  \/ o[2] \in view[o[1]].vout
                      \/ o[1] \in Pool.tx
                      \/ Kind[o[1]] \in {"coinbase", "coinstake", "grant"}
                      \/ o[1] \in Kept \cup Old
                      \/ \E u \in New : o \in Vin[u]
    BY DEF Based
  <2>1. x \in Tx
    BY DEF PoolOK, PoolType
  <2>2. o = <<o[1], o[2]>> /\ o[1] \in Tx /\ o[2] \in DOMAIN Vout[o[1]]
    BY <2>1, VinPoints
  <2>3. \/ o[2] \in pcoinsTip[o[1]].vout
        \/ o[1] \in Pool.tx
        \/ Kind[o[1]] \in {"coinbase", "coinstake", "grant"}
        \/ o[1] \in Kept
    BY DEF Based, Kept
  <2>4. CASE o[2] \in pcoinsTip[o[1]].vout
    <3>1. o[1] \in ChainTxs(B) /\ \A u \in ChainTxs(B) : o \notin Vin[u]
      BY <1>5, <2>2, <2>4 DEF UnspentIn
    <3>2. o[1] \notin Kept \cup Old => o[1] \in ChainTxs(N)
      BY <1>4, <3>1
    <3>3. o[1] \notin Kept \cup Old /\ o[2] \notin view[o[1]].vout => \E u \in ChainTxs(N) : o \in Vin[u]
      BY <1>5, <2>2, <3>2 DEF UnspentIn
    <3> QED
      BY <1>4, <3>1, <3>3
  <2> QED
    BY <2>3, <2>4
<1>9. \A t \in New : Settled(t, view, Shared \cup New)
  <2> SUFFICES ASSUME NEW t \in New, NEW n \in DOMAIN Vout[t]
               PROVE  n \in view[t].vout \/ \E u \in Shared \cup New : <<t, n>> \in Vin[u]
    BY DEF Settled
  <2>1. t \in Tx /\ t \in ChainTxs(N)
    BY <1>4, <1>5
  <2> QED
    BY <1>4, <1>5, <2>1 DEF UnspentIn
<1> DEFINE p == PoolResurrected(f)
           q == PoolAfter(f)
<1>10. PoolOK(p) /\ Apart(p, Shared) /\ Based(p, view, Kept, New)
  <2>1. p = Loop("resurrect", f, Pool, vResurrect)
    BY LoopsOfSetBestChain
  <2> HIDE DEF p
  <2> QED
    BY <1>3, <1>6, <1>7, <1>8, <2>1, ResurrectLoop DEF Old
<1>11. PoolOK(q) /\ Apart(q, Shared \cup New) /\ Based(q, view, Kept, {})
  <2>1. q = Loop("delete", f, p, vDelete)
    BY LoopsOfSetBestChain
  <2> HIDE DEF p, q
  <2> QED
    BY <1>3, <1>9, <1>10, <2>1, DeleteLoop DEF New
<1> QED
  BY <1>4, <1>11 DEF N, Kept, Apart

--------------------------------------------------------------------------------
\* The pool of every reachable state.

PoolInv ==
    /\ TotalsInv
    /\ PoolOK(Pool)
    /\ Apart(Pool, ChainTxs(pindexBest))
    /\ Based(Pool, pcoinsTip, CheckpointedTxs, {})
    /\ mapOrphanTransactions \subseteq Tx

\* A pool is the record of its two maps.
LEMMA PoolIsRecord ==
  ASSUME NEW pool \in PoolType
  PROVE  pool = [tx |-> pool.tx, next |-> pool.next]
  BY DEF PoolType

\* A transaction that the pool accepts fits the chain: what it spends is unspent in the
\* chain, or made by a pool transaction, and then no transaction of the chain knows it.
LEMMA AcceptedFits ==
  ASSUME PoolInv, NEW t \in Tx, IsAcceptable(Pool, t, pcoinsTip, pindexBest)
  PROVE  LET q == AddUnchecked(Pool, t)
         IN  /\ PoolOK(q)
             /\ Apart(q, ChainTxs(pindexBest))
             /\ Based(q, pcoinsTip, CheckpointedTxs, {})
<1> DEFINE q == AddUnchecked(Pool, t)
           B == pindexBest
           txs == ChainTxs(B)
<1>1. PoolOK(q) /\ q.tx = Pool.tx \cup {t}
  BY AddOK DEF PoolInv, IsAcceptable, IsOffered
<1>2. /\ B \in Block /\ B \in Connected /\ pcoinsTip = Tip(B)
      /\ SpendsKnown(B, Len(Vtx[B]))
  BY DEF PoolInv, TotalsInv, LInv, CoinsTypeOK, TipInv, UndoInv
<1>3. /\ \A p \in Tx : pcoinsTip[p].vout = UnspentIn(p, B)
      /\ txs \subseteq Tx
      /\ \A u \in txs : \A o \in Vin[u] : o[1] \in txs
  BY <1>2, TipIsUnspent DEF SpendsKnown
<1>4. Vin[t] # {}
  BY TxAssumption DEF IsAcceptable, IsOffered, Minted
<1>5. \A o \in Vin[t] : /\ o = <<o[1], o[2]>> /\ o[1] \in Tx
                        /\ o[2] \in PoolView(Pool, pcoinsTip)[o[1]].vout
  BY VinPoints DEF IsAcceptable, HaveInputs
<1>6. \A o \in Vin[t] : o[2] \in pcoinsTip[o[1]].vout \/ o[1] \in Pool.tx
  BY <1>5 DEF PoolView
<1>7. \A o \in Vin[t] : \A u \in txs : o \notin Vin[u]
  <2> SUFFICES ASSUME NEW o \in Vin[t], NEW u \in txs, o \in Vin[u]
               PROVE  FALSE
    OBVIOUS
  <2>1. CASE o[2] \in pcoinsTip[o[1]].vout
    BY <1>3, <1>5, <2>1 DEF UnspentIn
  <2>2. CASE o[1] \in Pool.tx
    <3>1. o[1] \in txs
      BY <1>3
    <3> QED
      BY <2>2, <3>1 DEF PoolInv, Apart
  <2> QED
    BY <1>6, <2>1, <2>2
<1>8. t \notin txs
  BY <1>4, <1>7
<1>9. Apart(Pool, txs) /\ Based(Pool, pcoinsTip, CheckpointedTxs, {})
  BY DEF PoolInv
<1> HIDE DEF q, txs
<1>10. Apart(q, txs)
  BY <1>1, <1>7, <1>8, <1>9 DEF Apart
<1>11. Based(q, pcoinsTip, CheckpointedTxs, {})
  BY <1>1, <1>6, <1>9 DEF Based
<1> QED
  BY <1>1, <1>10, <1>11 DEF q, txs

\* Nothing is wrong with an empty pool.
LEMMA EmptyPool ==
  ASSUME NEW txs, NEW c
  PROVE  LET q == [tx |-> {}, next |-> [o \in OutPoint |-> Null]]
         IN  PoolOK(q) /\ Apart(q, txs) /\ \A exempt : Based(q, c, exempt, {})
  BY TxAssumption DEF PoolOK, PoolType, Apart, Based

\* A step keeps the invariant.
LEMMA PoolInvStep ==
  ASSUME PoolInv, [Next]_vars
  PROVE  PoolInv'
<1>1. TotalsInv'
  <2>1. [LedgerNext]_ledgerVars
    BY DEF Next, vars, AcceptTx, HoldOrphanTx, ChangeView, SetBestChainDone, Restart,
       LedgerNext
  <2> QED
    BY <2>1, TotalsInvStep DEF PoolInv
<1>b. CheckpointedTxs \subseteq CheckpointedTxs'
  <2>1. nUndoPos \subseteq nUndoPos'
    BY DEF Next, vars, ledgerVars, diskVars, AcceptTx, HoldOrphanTx, ChangeView,
       SetBestChainDone,
           Restart, BeginSetBestChain, DisconnectTx, DisconnectBlock, ReachFork, ConnectTx,
           RefuseTx, ConnectBlock, FlushView, LedgerRestart
  <2> QED
    BY <2>1 DEF CheckpointedTxs, Checkpointed, TxsOf
<1>2. ASSUME UNCHANGED <<pindexBest, pcoinsTip, mapTx, mapNextTx>>, mapOrphanTransactions' \subseteq Tx
      PROVE  PoolInv'
  <2>1. Pool' = Pool
    BY <1>2 DEF Pool
  <2>2. ChainTxs(pindexBest)' = ChainTxs(pindexBest)
    BY <1>2 DEF ChainTxs, TxsOf
  <2> QED
    BY <1>1, <1>b, <1>2, <2>1, <2>2 DEF PoolInv, PoolOK, Apart, Based
<1>3. ASSUME NEW t \in Tx, AcceptTx(t)
      PROVE  PoolInv'
  <2> DEFINE q == AddUnchecked(Pool, t)
  <2>1. PoolOK(q) /\ Apart(q, ChainTxs(pindexBest)) /\ Based(q, pcoinsTip, CheckpointedTxs, {})
    BY <1>3, AcceptedFits DEF AcceptTx
  <2>2. UNCHANGED <<pindexBest, pcoinsTip>> /\ mapTx' = q.tx /\ mapNextTx' = q.next
    BY <1>3 DEF AcceptTx, ledgerVars
  <2>3. mapOrphanTransactions' \subseteq Tx
    BY <1>3 DEF AcceptTx, PoolInv
  <2> HIDE DEF q
  <2>4. Pool' = q
    BY <2>1, <2>2, PoolIsRecord DEF Pool, PoolOK
  <2>5. ChainTxs(pindexBest)' = ChainTxs(pindexBest)
    BY <2>2 DEF ChainTxs, TxsOf
  <2> QED
    BY <1>1, <1>b, <2>1, <2>2, <2>3, <2>4, <2>5 DEF PoolInv, PoolOK, Apart, Based
<1>4. ASSUME NEW t \in Tx, HoldOrphanTx(t)
      PROVE  PoolInv'
  <2>1. mapOrphanTransactions' \subseteq Tx
    BY <1>4 DEF HoldOrphanTx, LimitOrphanTxSize, PoolInv
  <2> QED
    BY <1>2, <1>4, <2>1 DEF HoldOrphanTx, ledgerVars
<1>5. CASE ChangeView
  <2>1. UNCHANGED <<pindexBest, pcoinsTip>>
    BY <1>5 DEF ChangeView, BeginSetBestChain, DisconnectTx, DisconnectBlock, ReachFork,
                ConnectTx, RefuseTx, ConnectBlock
  <2> QED
    BY <1>2, <1>5, <2>1 DEF ChangeView, poolVars, PoolInv
<1>6. ASSUME NEW f \in BOOLEAN, SetBestChainDone(f)
      PROVE  PoolInv'
  <2> DEFINE q == PoolAfter(f)
             txs == ChainTxs(pindexNew)
  <2>1. pc = "connect" /\ viewBest = pindexNew /\ pcoinsTip' = view /\ pindexBest' = pindexNew
    BY <1>6 DEF SetBestChainDone, FlushView
  <2>2. PoolOK(q) /\ Apart(q, txs) /\ Based(q, view, CheckpointedTxs, {})
    BY <2>1, PoolFollowsTip DEF PoolInv, TotalsInv
  <2>3. mapTx' = q.tx /\ mapNextTx' = q.next /\ mapOrphanTransactions' \subseteq Tx
    BY <1>6 DEF SetBestChainDone, PoolInv
  <2>5. ChainTxs(pindexBest)' = txs
    BY <2>1 DEF ChainTxs, TxsOf
  <2> HIDE DEF q, txs
  <2>4. Pool' = q
    BY <2>2, <2>3, PoolIsRecord DEF Pool, PoolOK
  <2> QED
    BY <1>1, <1>b, <2>1, <2>2, <2>3, <2>4, <2>5 DEF PoolInv, PoolOK, Apart, Based
<1>7. ASSUME NEW f \in BOOLEAN, Restart(f)
      PROVE  PoolInv'
  <2> DEFINE q == [tx |-> {}, next |-> [o \in OutPoint |-> Null]]
  <2>1. /\ PoolOK(q) /\ \A txs, c, exempt : Apart(q, txs) /\ Based(q, c, exempt, {})
    BY EmptyPool
  <2>2. Pool' = q /\ mapOrphanTransactions' = {}
    BY <1>7 DEF Restart, Pool, OutPoint
  <2> HIDE DEF q
  <2>3. PoolOK(Pool)' /\ Apart(Pool, ChainTxs(pindexBest))' /\ Based(Pool, pcoinsTip, CheckpointedTxs, {})'
    BY <2>1, <2>2 DEF PoolOK, Apart, Based
  <2> QED
    BY <1>1, <2>2, <2>3 DEF PoolInv
<1>8. CASE UNCHANGED vars
  BY <1>2, <1>8 DEF vars, ledgerVars, poolVars, PoolInv
<1> QED
  BY <1>3, <1>4, <1>5, <1>6, <1>7, <1>8 DEF Next

\* The invariant holds in every reachable state of the node.
LEMMA PoolInvHolds ==
  Spec => []PoolInv
<1>1. Init => PoolInv
  <2> SUFFICES ASSUME Init PROVE PoolInv
    OBVIOUS
  <2>1. TotalsInv
    BY TotalsInvInit DEF Init
  <2>2. Pool = [tx |-> {}, next |-> [o \in OutPoint |-> Null]]
    BY DEF Init, Pool
  <2> QED
    BY <2>1, <2>2, EmptyPool DEF Init, PoolInv
<1> QED
  BY <1>1, PoolInvStep, PTL DEF Spec

\* The coins, the totals, the pool and the orphans keep their types.
THEOREM PoolTypeCorrect ==
  Spec => []TypeOK
<1>1. PoolInv => TypeOK
  BY DEF PoolInv, TotalsInv, LInv, TotalsTypeOK, LedgerTypeOK, TypeOK, PoolOK, PoolType,
     Pool
<1> QED
  BY <1>1, PoolInvHolds, PTL

\* For every tree of blocks: mapNextTx is exactly what the pool spends, through
\* acceptance, removal with dependents, conflicts and resurrection.
THEOREM SpendersAreKnown ==
  Spec => []NextTxExact
<1>1. PoolInv => NextTxExact
  BY DEF PoolInv, PoolOK, Pool, NextTxExact
<1> QED
  BY <1>1, PoolInvHolds, PTL

\* For every reorganisation: the pool holds nothing of the best chain, and nothing that
\* spends what the chain spends.
THEOREM PoolStaysOutOfChain ==
  Spec => []PoolNotInChain
<1>1. PoolInv => PoolNotInChain
  BY DEF PoolInv, Apart, Pool, PoolNotInChain
<1> QED
  BY <1>1, PoolInvHolds, PTL

\* For every reorganisation: a pool transaction is left with inputs that are in the coins
\* or in the pool, but for those a disconnected block minted, and those of transactions
\* that were in blocks at or below the last checkpoint.
THEOREM PoolStaysConnected ==
  Spec => []PoolConnected
<1>1. PoolInv => PoolConnected
  BY DEF PoolInv, Based, Pool, PoolConnected
<1> QED
  BY <1>1, PoolInvHolds, PTL

--------------------------------------------------------------------------------
\* The minter.

\* What peers and the wallet do is a step of Ledger, or leaves its state alone.
LEMMA OtherStepIsLedgerStep ==
  WalletNext => [LedgerNext]_ledgerVars
<1> SUFFICES ASSUME WalletNext PROVE [LedgerNext]_ledgerVars
  OBVIOUS
<1>1. ASSUME NEW t \in Tx, WalletAcceptTx(t) \/ WalletHoldOrphanTx(t) \/ CommitTransaction(t)
      PROVE  UNCHANGED ledgerVars
  BY <1>1 DEF WalletAcceptTx, WalletHoldOrphanTx, CommitTransaction, AcceptTx, HoldOrphanTx
<1>2. FixSpentCoins \/ ReacceptWalletTransactions => UNCHANGED ledgerVars
  BY DEF FixSpentCoins, ReacceptWalletTransactions
<1>3. WalletChangeView => LedgerNext
  BY DEF WalletChangeView, LedgerNext
<1>4. WalletDisconnectBlock => LedgerNext
  BY DEF WalletDisconnectBlock, LedgerNext
<1>5. ASSUME NEW b \in Block, WalletConnectBlock(b) PROVE LedgerNext
  BY <1>5 DEF WalletConnectBlock, LedgerNext
<1>6. ASSUME NEW d \in BOOLEAN, NEW f \in BOOLEAN, WalletSetBestChainDone(d, f)
      PROVE  LedgerNext
  BY <1>6 DEF WalletSetBestChainDone, SetBestChainDone, LedgerNext
<1> QED
  BY <1>1, <1>2, <1>3, <1>4, <1>5, <1>6 DEF WalletNext

\* What the minter knows of the block it makes: a coinstake leads it, its grants are those
\* it computed, and as long as the tip stays it stands on it and the grants are due.
MintInv ==
  /\ mintPc \in {"stake", "grants"} => /\ txCoinStake \in Tx
                                       /\ Kind[txCoinStake] = "coinstake"
  /\ mintPc = "built" => /\ pblock \in Block
                         /\ \E t \in TxsOf(pblock) : Kind[t] = "coinstake"
                         /\ Granted(pblock) = vGrant
  /\ mintPc # "idle" /\ ~fMoved => pindexPrev = pindexBest
  /\ mintPc \in {"grants", "built"} /\ ~fMoved =>
        vGrant = Winners[pindexBest] \ ElectedCustodians(pindexBest)

\* The minter's reading of the tip stays true until the tip moves.
LEMMA MintInvInductive ==
  MintInv /\ [MinterNext]_minterVars => MintInv'
<1> SUFFICES ASSUME MintInv, [MinterNext]_minterVars PROVE MintInv'
  OBVIOUS
<1>1. CASE OtherStep
  <2>1. /\ UNCHANGED <<mintPc, pindexPrev, txCoinStake, vGrant, pblock>>
        /\ fMoved' = (fMoved \/ (mintPc # "idle" /\ pindexBest' # pindexBest))
    BY <1>1 DEF OtherStep
  <2>2. CASE pindexBest' = pindexBest
    <3>1. ~fMoved' => ~fMoved
      BY <2>1
    <3> QED
      BY <2>1, <2>2, <3>1 DEF MintInv, TxsOf, Granted, ElectedCustodians
  <2>3. CASE pindexBest' # pindexBest /\ mintPc # "idle"
    <3>1. fMoved'
      BY <2>1, <2>3
    <3> QED
      BY <2>1, <3>1 DEF MintInv, TxsOf, Granted
  <2>4. CASE mintPc = "idle"
    BY <2>1, <2>4 DEF MintInv
  <2> QED
    BY <2>2, <2>3, <2>4
<1>2. CASE ReadTip
  BY <1>2 DEF ReadTip, MintInv, vars, ledgerVars
<1>3. ASSUME NEW s \in Tx, CreateCoinStake(s) PROVE MintInv'
  BY <1>3 DEF CreateCoinStake, IsSignedStake, MintInv, vars, ledgerVars
<1>4. CASE GenerateCurrencyCoinBases
  <2>1. UNCHANGED <<pindexBest, pindexPrev, fMoved, txCoinStake>>
    BY <1>4 DEF GenerateCurrencyCoinBases, vars, ledgerVars
  <2> QED
    BY <1>4, <2>1 DEF GenerateCurrencyCoinBases, MintInv, Granted, ElectedCustodians, TxsOf
<1>5. CASE \/ NoBlock \/ DropStaleBlock \/ RefuseMintedBlock \/ OfferBlock
           \/ \E f \in BOOLEAN : MinterRestart(f)
  BY <1>5 DEF NoBlock, DropStaleBlock, RefuseMintedBlock, OfferBlock, MinterRestart, GiveUp,
              MintInv
<1>6. ASSUME NEW b \in Block, BuildBlock(b) PROVE MintInv'
  <2>1. UNCHANGED <<pindexBest, pindexPrev, fMoved, txCoinStake, vGrant>>
    BY <1>6 DEF BuildBlock, vars, ledgerVars
  <2>2. /\ mintPc = "grants"
        /\ Granted(b) = vGrant
        /\ Vtx[b] # <<>> /\ Head(Vtx[b]) = txCoinStake
        /\ \/ mintPc' = "built" /\ pblock' = b
           \/ mintPc' = "aborted"
    BY <1>6 DEF BuildBlock, AreGenerated
  <2>3. txCoinStake \in TxsOf(b) /\ Kind[txCoinStake] = "coinstake"
    <3>1. Vtx[b] \in Seq(Tx)
      BY BlockAssumption
    <3>2. 1 \in DOMAIN Vtx[b] /\ Head(Vtx[b]) = Vtx[b][1]
      BY <2>2, <3>1
    <3> QED
      BY <2>2, <3>2 DEF MintInv, TxsOf
  <2>4. CASE mintPc' = "built" /\ pblock' = b
    <3>1. Granted(b)' = Granted(b) /\ TxsOf(b)' = TxsOf(b)
      BY DEF Granted, TxsOf
    <3>2. Granted(pblock)' = vGrant' /\ \E t \in TxsOf(pblock)' : Kind[t] = "coinstake"
      BY <2>1, <2>2, <2>3, <2>4 DEF Granted, TxsOf
    <3>3. ElectedCustodians(pindexBest)' = ElectedCustodians(pindexBest)
      BY <2>1 DEF ElectedCustodians, Granted, TxsOf
    <3> QED
      BY <2>1, <2>2, <2>4, <3>2, <3>3 DEF MintInv
  <2>5. CASE mintPc' = "aborted"
    BY <2>1, <2>2, <2>5 DEF MintInv
  <2> QED
    BY <2>2, <2>4, <2>5
<1>7. CASE UNCHANGED minterVars
  BY <1>7 DEF minterVars, mintVars, vars, ledgerVars, MintInv, TxsOf, Granted,
              ElectedCustodians
<1> QED
  BY <1>1, <1>2, <1>3, <1>4, <1>5, <1>6, <1>7 DEF MinterNext

\* MintInv holds in every reachable state.
LEMMA MintInvHolds ==
  MinterSpec => []MintInv
<1>1. MinterInit => MintInv
  BY DEF MinterInit, MintInv
<1> QED
  BY <1>1, MintInvInductive, PTL DEF MinterSpec

\* For every tree of blocks and whatever peers, wallet and pool do, a block of the minter
\* that is not stale is refused by AcceptBlock only if the tip moved while it was made.
THEOREM RefusalsNeedAMove ==
  MinterSpec => RefusedOnlyIfMoved
<1>1. MintInv /\ RefuseMintedBlock => fMoved
  <2> SUFFICES ASSUME MintInv, RefuseMintedBlock, ~fMoved PROVE FALSE
    OBVIOUS
  <2>1. /\ mintPc = "built"
        /\ Prev[pblock] = pindexBest
        /\ ~CheckCustodianGrants(pblock) \/ pindexPrev # Prev[pblock]
    BY DEF RefuseMintedBlock
  <2>2. pindexPrev = pindexBest
    BY <2>1 DEF MintInv
  <2>3. CheckCustodianGrants(pblock)
    BY <2>1 DEF MintInv, CheckCustodianGrants
  <2> QED
    BY <2>1, <2>2, <2>3
<1>2. MintInv /\ [MinterNext]_minterVars => [RefuseMintedBlock => fMoved]_minterVars
  BY <1>1
<1> QED
  BY <1>2, MintInvHolds, PTL DEF MinterSpec, RefusedOnlyIfMoved

\* What the wallet and the minter do does not disturb the coins: a step of the node is a
\* step of SetBestChain, a restart, or leaves them alone.
THEOREM MintingKeepsLedger ==
  MinterSpec => LedgerSpec
<1>1. MinterInit => LedgerInit
  BY DEF MinterInit, WalletInit, Init
<1>2. MintInv /\ [MinterNext]_minterVars => [LedgerNext]_ledgerVars
  <2> SUFFICES ASSUME MintInv, [MinterNext]_minterVars PROVE [LedgerNext]_ledgerVars
    OBVIOUS
  <2>1. CASE OtherStep
    BY <2>1, OtherStepIsLedgerStep DEF OtherStep
  <2>2. CASE ReadTip \/ GenerateCurrencyCoinBases \/ NoBlock \/ DropStaleBlock
             \/ RefuseMintedBlock
    BY <2>2 DEF ReadTip, GenerateCurrencyCoinBases, NoBlock, DropStaleBlock,
                RefuseMintedBlock, vars
  <2>3. ASSUME NEW s \in Tx, CreateCoinStake(s) PROVE UNCHANGED ledgerVars
    BY <2>3 DEF CreateCoinStake, vars
  <2>4. ASSUME NEW b \in Block, BuildBlock(b) PROVE UNCHANGED ledgerVars
    BY <2>4 DEF BuildBlock, vars
  <2>5. CASE OfferBlock
    <3>1. BeginSetBestChain(pblock)
      BY <2>5 DEF OfferBlock
    <3>2. pblock \in Block
      BY <2>5 DEF OfferBlock, MintInv
    <3> QED
      BY <3>1, <3>2 DEF LedgerNext
  <2>6. ASSUME NEW f \in BOOLEAN, MinterRestart(f) PROVE LedgerNext
    BY <2>6 DEF MinterRestart, WalletRestart, Restart, LedgerNext
  <2>7. CASE UNCHANGED minterVars
    BY <2>7 DEF minterVars, vars
  <2> QED
    BY <2>1, <2>2, <2>3, <2>4, <2>5, <2>6, <2>7 DEF MinterNext
<1> QED
  BY <1>1, <1>2, MintInvHolds, PTL DEF MinterSpec, LedgerSpec

\* With wallet and minter too the coins are those of the best chain, reorganisations
\* disconnect without a fault, and a block has one verdict.
THEOREM MintingKeepsCoins ==
  MinterSpec => []CoinsExact /\ []DisconnectsClean /\ VerdictStable
  BY MintingKeepsLedger, CoinsAreThoseOfTheChain, ReorganisationsDisconnect,
     VerdictsAreStable, PTL

\* With wallet and minter too the money supply is that of the coins.
THEOREM MintingKeepsSupply ==
  ASSUME SameUnits, GrantsUnparked, ParkedKeptBelow
  PROVE  MinterSpec => []SupplyExact
  BY MintingKeepsLedger, SupplyIsThatOfTheCoins, PTL

--------------------------------------------------------------------------------
\* The loops of the wallet and of the minter.

\* They are loops like those over the pool.
LEMMA LoopsOfWallet ==
  ASSUME NEW x, NEW v, NEW b
  PROVE  /\ FoldLeft(AcceptUnchecked, x, v) = Loop("reaccept", b, x, v)
         /\ FoldLeft(LAMBDA w, t : SyncWithWallets(w, t, b), x, v) = Loop("sync", b, x, v)
         /\ FoldLeft(DisableTransaction, x, v) = Loop("disable", b, x, v)
         /\ FoldLeft(LAMBDA w, t : SyncResurrected(w, t, b), x, v) = Loop("back", b, x, v)
         /\ FoldLeft(SyncBlock, x, v) = Loop("scan", b, x, v)
         /\ FoldLeft(LAMBDA r, t : TryConnect(b, r, t), x, v) = Loop("try", b, x, v)
         /\ FoldLeft(LAMBDA r, t : TrySelect(b, r, t), x, v) = Loop("select", b, x, v)
<1>1. FoldLeft(AcceptUnchecked, x, v) = Loop("reaccept", b, x, v)
  BY DEF Loop, FoldLeft, MapThenFoldSet, LoopOp
<1>2. FoldLeft(LAMBDA w, t : SyncWithWallets(w, t, b), x, v) = Loop("sync", b, x, v)
  BY DEF Loop, FoldLeft, MapThenFoldSet, LoopOp
<1>3. FoldLeft(DisableTransaction, x, v) = Loop("disable", b, x, v)
  BY DEF Loop, FoldLeft, MapThenFoldSet, LoopOp
<1>4. FoldLeft(SyncBlock, x, v) = Loop("scan", b, x, v)
  BY DEF Loop, FoldLeft, MapThenFoldSet, LoopOp
<1>5. FoldLeft(LAMBDA r, t : TryConnect(b, r, t), x, v) = Loop("try", b, x, v)
  BY DEF Loop, FoldLeft, MapThenFoldSet, LoopOp
<1>6. FoldLeft(LAMBDA w, t : SyncResurrected(w, t, b), x, v) = Loop("back", b, x, v)
  BY DEF Loop, FoldLeft, MapThenFoldSet, LoopOp
<1>7. FoldLeft(LAMBDA r, t : TrySelect(b, r, t), x, v) = Loop("select", b, x, v)
  BY DEF Loop, FoldLeft, MapThenFoldSet, LoopOp
<1> QED
  BY <1>1, <1>2, <1>3, <1>4, <1>5, <1>6, <1>7

\* A block that connects on trial is in order on its own chain.
LEMMA TriedBlockIsInOrder ==
  ASSUME LInv, NEW b \in Block, Prev[b] = pindexBest, ConnectsAtTip(b)
  PROVE  \A i \in DOMAIN Vtx[b] : VerdictAt(b, i) = "ok"
<1> DEFINE n == Len(Vtx[b])
           first == [ok |-> ~Malformed(b, pcoinsTip), view |-> pcoinsTip]
<1>1. /\ n \in Nat /\ DOMAIN Vtx[b] = 1 .. n
      /\ b # Genesis /\ pindexBest \in Block
  <2>1. n \in Nat /\ DOMAIN Vtx[b] = 1 .. n
    BY BlockAssumption
  <2>2. pindexBest \in Block
    BY DEF LInv, CoinsTypeOK
  <2> HIDE DEF n, first
  <2>3. b # Genesis
    BY <2>2, TreeAssumption
  <2> QED
    BY <2>1, <2>2, <2>3
<1>2. pcoinsTip = CoinsAt(b, 0) /\ SpendsKnown(b, 0)
  <2>1. pcoinsTip = Tip(pindexBest) /\ SpendsKnown(pindexBest, Len(Vtx[pindexBest]))
    BY DEF LInv, TipInv, UndoInv
  <2> QED
    BY <1>1, <2>1, CoinsOfParent DEF SpendsKnown
<1>3. first.ok = ~Malformed(b, CoinsAt(b, 0)) /\ first.view = CoinsAt(b, 0)
  BY <1>2
<1>4. Loop("try", b, first, Vtx[b]).ok
  <2>1. FoldLeft(LAMBDA r, t : TryConnect(b, r, t), first, Vtx[b])
            = Loop("try", b, first, Vtx[b])
    BY DEF Loop, FoldLeft, MapThenFoldSet, LoopOp
  <2>2. FoldLeft(LAMBDA r, t : TryConnect(b, r, t), first, Vtx[b]).ok
    BY Zenon DEF ConnectsAtTip
  <2> HIDE DEF first
  <2> QED
    BY <2>1, <2>2, Zenon
<1> HIDE DEF n, first
<1>5. PICK r : /\ r[0] = first /\ r[n] = Loop("try", b, first, Vtx[b])
               /\ \A i \in 1 .. n : r[i] = LoopOp("try", b, r[i - 1], Vtx[b][i])
  <2>1. \E r : IsRun(r, n, "try", b, first, Vtx[b])
    BY <1>1, LoopSteps
  <2> QED
    BY <2>1 DEF IsRun
<1> DEFINE Good(i) == r[i].ok => /\ r[i].view = CoinsAt(b, i)
                                 /\ SpendsKnown(b, i)
                                 /\ ~Malformed(b, CoinsAt(b, 0))
                                 /\ \A j \in 1 .. i : VerdictAt(b, j) = "ok"
           T == {i \in 0 .. n : Good(i)}
<1>6. 0 \in T
  <2>1. 0 \in 0 .. n /\ 1 .. 0 = {}
    BY <1>1
  <2>2. r[0].ok => ~Malformed(b, CoinsAt(b, 0))
    BY <1>3, <1>5, Zenon
  <2> QED
    BY <1>2, <1>3, <1>5, <2>1, <2>2
<1>7. ASSUME NEW i \in 1 .. n, i - 1 \in T
      PROVE  i \in T
  <2> DEFINE t == Vtx[b][i]
             q == r[i - 1]
             c == CoinsAt(b, i - 1)
  <2>1. i \in 0 .. n
    BY <1>1
  <2>2. r[i] = TryConnect(b, q, t)
    BY <1>5 DEF LoopOp
  <2>3. /\ r[i].ok =>
              /\ q.ok
              /\ \/ t \in Minted
                 \/ CheckInputs(t, q.view, pindexBest, HasScriptChecks(b)) = "ok"
        /\ r[i].view = UpdateCoins(q.view, t, nHeight[b])
    <3> DEFINE ok == /\ q.ok
                     /\ \/ t \in Minted
                        \/ CheckInputs(t, q.view, pindexBest, HasScriptChecks(b)) = "ok"
               coins == UpdateCoins(q.view, t, nHeight[b])
    <3>1. r[i] = [ok |-> ok, view |-> coins]
      BY <2>2 DEF TryConnect
    <3> HIDE DEF ok, coins
    <3>2. r[i].ok = ok /\ r[i].view = coins
      BY <3>1
    <3> QED
      BY <3>2, Zenon DEF ok, coins
  <2>4. ASSUME r[i].ok
        PROVE  /\ r[i].view = CoinsAt(b, i)
               /\ SpendsKnown(b, i)
               /\ ~Malformed(b, CoinsAt(b, 0))
               /\ \A j \in 1 .. i : VerdictAt(b, j) = "ok"
    <3>1. /\ q.view = c /\ SpendsKnown(b, i - 1) /\ ~Malformed(b, CoinsAt(b, 0))
          /\ \A j \in 1 .. (i - 1) : VerdictAt(b, j) = "ok"
      BY <1>7, <2>3, <2>4
    <3>2. i = 1 => i - 1 = 0
      OBVIOUS
    <3>3. t \in Minted \/ CheckInputs(t, c, Prev[b], HasScriptChecks(b)) = "ok"
      BY <2>3, <2>4, <3>1
    <3>4. VerdictAt(b, i) = "ok"
      BY <3>1, <3>2, <3>3 DEF VerdictAt, VerdictOn
    <3>5. Applies(b, i)
      BY <1>1, <3>1, <3>4, VerdictApplies
    <3>6. SpendsKnown(b, i) /\ r[i].view = CoinsAt(b, i)
      BY <1>1, <2>3, <3>1, <3>5, SpendsKnownStep, UpdateAdvances
    <3>7. \A j \in 1 .. i : j \in 1 .. (i - 1) \/ j = i
      BY <1>1
    <3> QED
      BY <3>1, <3>4, <3>6, <3>7
  <2> QED
    BY <2>1, <2>4
<1>8. n \in T
  <2> HIDE DEF T
  <2>1. 0 .. n \subseteq T
    BY <1>1, <1>6, <1>7, UpwardInduction
  <2> QED
    BY <1>1, <2>1
<1> QED
  BY <1>1, <1>4, <1>5, <1>8

\* The blocks that the minter built and those that were taken from it are in order.
InOrder(b) == \A i \in DOMAIN Vtx[b] : VerdictAt(b, i) = "ok"

MintedInv ==
    /\ mintPc = "built" => InOrder(pblock)
    /\ \A b \in setMinted : b \in Block /\ InOrder(b)

\* For every tree of blocks: whatever happens between the trial and the connection, and
\* however often the block is connected again, a block of the minter is not refused.
THEOREM MintedBlocksAreGood ==
  MinterSpec => []MintedBlocksConnect
<1>1. MinterInit => MintedInv
  BY DEF MinterInit, MintedInv
<1>2. LInv /\ MintInv /\ MintedInv /\ [MinterNext]_minterVars => MintedInv'
  <2> SUFFICES ASSUME LInv, MintInv, MintedInv, [MinterNext]_minterVars PROVE MintedInv'
    OBVIOUS
  <2>1. ASSUME NEW b PROVE InOrder(b)' = InOrder(b)
    BY DEF InOrder, VerdictAt, VerdictOn
  <2>2. CASE UNCHANGED <<mintPc, pblock, setMinted>>
    BY <2>2 DEF MintedInv, InOrder
  <2>3. CASE mintPc' # "built" /\ UNCHANGED setMinted
    BY <2>3 DEF MintedInv, InOrder
  <2>4. ASSUME NEW b \in Block, BuildBlock(b) PROVE MintedInv'
    <3>1. CASE ConnectsAtTip(b)
      <4>1. InOrder(b)
        BY <2>4, <3>1, TriedBlockIsInOrder DEF BuildBlock, InOrder
      <4> QED
        BY <2>4, <3>1, <4>1 DEF BuildBlock, MintedInv, InOrder
    <3>2. CASE ~ConnectsAtTip(b)
      BY <2>3, <2>4, <3>2 DEF BuildBlock
    <3> QED
      BY <3>1, <3>2
  <2>5. CASE OfferBlock
    BY <2>5 DEF OfferBlock, GiveUp, MintedInv, MintInv, InOrder
  <2> QED
    BY <2>2, <2>3, <2>4, <2>5 DEF MinterNext, minterVars, mintVars, OtherStep, ReadTip,
       CreateCoinStake, GenerateCurrencyCoinBases, NoBlock, DropStaleBlock,
       RefuseMintedBlock,
       MinterRestart, GiveUp
<1>3. LInv /\ MintedInv => MintedBlocksConnect
  BY DEF LInv, VerdictInv, MintedInv, MintedBlocksConnect, InOrder
<1>4. MinterSpec => []LInv
  BY MintingKeepsLedger, LInvHolds, PTL
<1> QED
  BY <1>1, <1>2, <1>3, <1>4, MintInvHolds, PTL DEF MinterSpec


--------------------------------------------------------------------------------
\* What a wallet has to be.

WalletType == [tx : SUBSET Tx, block : [Tx -> Block \cup {Null}], spent : SUBSET Mine]

\* A transaction was last seen in a block that holds it, or in none.
IsSeenIn(t, b) == b # Null => t \in TxsOf(b)

WalletOK(w) ==
    /\ w \in WalletType
    /\ IsFiniteSet(w.tx)
    /\ \A o \in w.spent : o[1] \in w.tx
    /\ \A t \in Tx : IsSeenIn(t, w.block[t])

\* What the wallet makes of a transaction it is told of: its inputs are marked, and it is
\* known if it pays to the wallet or spends from it.
Synced(w, q, t) ==
    /\ w.tx \subseteq q.tx /\ w.spent \subseteq q.spent
    /\ IsMine(t) => t \in q.tx
    /\ Unit[t] = cUnit => /\ OwnInputs(w, t) \subseteq q.spent
                          /\ OwnInputs(w, t) # {} => t \in q.tx
    /\ \A o \in q.spent : o \in w.spent \/ (o \in Vin[t] /\ t \in q.tx)

\* WalletUpdateSpent marks what the wallet has of the inputs.
LEMMA UpdateSpentOK ==
  ASSUME NEW w, WalletOK(w), NEW t \in Tx
  PROVE  LET q == WalletUpdateSpent(w, t)
         IN  /\ WalletOK(q) /\ q.tx = w.tx
             /\ q.spent = IF Unit[t] = cUnit THEN w.spent \cup OwnInputs(w, t) ELSE w.spent
<1>1. OwnInputs(w, t) \subseteq Mine /\ \A o \in OwnInputs(w, t) : o[1] \in w.tx
  BY DEF OwnInputs
<1> QED
  BY <1>1 DEF WalletUpdateSpent, WalletOK, WalletType

\* AddToWallet.
LEMMA AddToWalletOK ==
  ASSUME NEW w, WalletOK(w), NEW t \in Tx, NEW b \in Block \cup {Null}, IsSeenIn(t, b)
  PROVE  LET q == AddToWallet(w, t, b)
         IN  /\ WalletOK(q) /\ q.tx = w.tx \cup {t}
             /\ q.spent = IF Unit[t] = cUnit THEN w.spent \cup OwnInputs(w, t) ELSE w.spent
<1> DEFINE v == [w EXCEPT !.tx = @ \cup {t},
                          !.block[t] = IF t \in w.tx /\ b = Null THEN @ ELSE b]
           q == AddToWallet(w, t, b)
<1>1. v.tx = w.tx \cup {t} /\ v.spent = w.spent /\ v \in WalletType
  BY DEF WalletOK, WalletType
<1>0. \A u \in Tx : v.block[u] = IF u = t /\ ~(t \in w.tx /\ b = Null) THEN b ELSE w.block[u]
  BY DEF WalletOK, WalletType
<1>2. q = WalletUpdateSpent(v, t)
  BY DEF AddToWallet
<1> HIDE DEF v, q
<1>3. IsFiniteSet(v.tx)
  BY <1>1, FS_AddElement DEF WalletOK
<1>4. WalletOK(v)
  BY <1>0, <1>1, <1>3 DEF WalletOK
<1>5. OwnInputs(v, t) = OwnInputs(w, t)
  BY <1>1, TxAssumption DEF OwnInputs
<1>6. /\ WalletOK(q) /\ q.tx = v.tx
      /\ q.spent = IF Unit[t] = cUnit THEN v.spent \cup OwnInputs(v, t) ELSE v.spent
  BY <1>2, <1>4, UpdateSpentOK
<1> QED
  BY <1>1, <1>5, <1>6 DEF q

\* SyncWithWallets of a transaction that is connected or enters the pool.
LEMMA SyncOK ==
  ASSUME NEW w, WalletOK(w), NEW t \in Tx, NEW b \in Block \cup {Null}, IsSeenIn(t, b)
  PROVE  WalletOK(SyncWithWallets(w, t, b)) /\ Synced(w, SyncWithWallets(w, t, b), t)
<1> DEFINE q == SyncWithWallets(w, t, b)
<1>1. \A o \in OwnInputs(w, t) : o \in Vin[t]
  BY DEF OwnInputs
<1>2. CASE Unit[t] = cUnit /\ (t \in w.tx \/ IsMine(t) \/ IsFromMe(w, t))
  <2>1. q = AddToWallet(w, t, b)
    BY <1>2 DEF SyncWithWallets
  <2> HIDE DEF q
  <2>2. /\ WalletOK(q) /\ q.tx = w.tx \cup {t}
        /\ q.spent = IF Unit[t] = cUnit THEN w.spent \cup OwnInputs(w, t) ELSE w.spent
    BY <2>1, AddToWalletOK
  <2> QED
    BY <1>1, <1>2, <2>2 DEF Synced, q
<1>3. CASE ~(Unit[t] = cUnit /\ (t \in w.tx \/ IsMine(t) \/ IsFromMe(w, t)))
  <2>1. q = WalletUpdateSpent(w, t)
    BY <1>3 DEF SyncWithWallets
  <2>2. /\ WalletOK(q) /\ q.tx = w.tx
        /\ q.spent = IF Unit[t] = cUnit THEN w.spent \cup OwnInputs(w, t) ELSE w.spent
    BY <2>1, UpdateSpentOK
  <2>3. ~IsMine(t) /\ (Unit[t] = cUnit => OwnInputs(w, t) = {})
    BY <1>3 DEF IsMine, IsFromMe
  <2> HIDE DEF q
  <2> QED
    BY <2>2, <2>3 DEF Synced, q
<1> QED
  BY <1>2, <1>3

\* What the wallet makes of a transaction that is disconnected: the inputs of a coinstake
\* are free again.
Disabled(w, q, t) ==
    /\ q.tx = w.tx /\ q.spent \subseteq w.spent
    /\ \A o \in w.spent : o \in q.spent \/ (o \in Vin[t] /\ Kind[t] = "coinstake")
    /\ Kind[t] = "coinstake" /\ Unit[t] = cUnit => Vin[t] \cap q.spent = {}

LEMMA DisableOK ==
  ASSUME NEW w, WalletOK(w), NEW t \in Tx
  PROVE  WalletOK(DisableTransaction(w, t)) /\ Disabled(w, DisableTransaction(w, t), t)
<1> DEFINE q == DisableTransaction(w, t)
<1>1. \A o \in OwnInputs(w, t) : o \in Vin[t]
  BY DEF OwnInputs
<1>2. Vin[t] \cap w.spent \subseteq OwnInputs(w, t)
  BY DEF OwnInputs, WalletOK, WalletType
<1>3. CASE Kind[t] = "coinstake" /\ IsFromMe(w, t)
  <2>1. q = [w EXCEPT !.spent = @ \ OwnInputs(w, t)]
    BY <1>3 DEF DisableTransaction
  <2>2. WalletOK(q) /\ q.tx = w.tx /\ q.spent = w.spent \ OwnInputs(w, t)
    BY <2>1 DEF WalletOK, WalletType
  <2> HIDE DEF q
  <2> QED
    BY <1>1, <1>2, <1>3, <2>2 DEF Disabled, q
<1>4. CASE ~(Kind[t] = "coinstake" /\ IsFromMe(w, t))
  <2>1. q = w
    BY <1>4 DEF DisableTransaction
  <2>2. Kind[t] = "coinstake" /\ Unit[t] = cUnit => OwnInputs(w, t) = {}
    BY <1>4 DEF IsFromMe
  <2> HIDE DEF q
  <2> QED
    BY <1>2, <2>1, <2>2 DEF Disabled, q
<1> QED
  BY <1>3, <1>4

--------------------------------------------------------------------------------
\* The loops over the transactions of a block.

\* The wallet, or the transactions before, hold what the i-th transaction spends of it.
Reaches(w, v, i) ==
    \A o \in Vin[v[i]] \cap Mine : o[1] \in w.tx \/ \E j \in 1 .. (i - 1) : v[j] = o[1]

\* The inputs of a transaction are marked, and it is known if there are any.
MarkedIn(q, t) ==
    /\ Vin[t] \cap Mine \subseteq q.spent
    /\ Vin[t] \cap Mine # {} => t \in q.tx

\* What the wallet makes of the first k transactions it is told of.
SyncedUpto(w, q, v, k) ==
    /\ w.tx \subseteq q.tx /\ w.spent \subseteq q.spent
    /\ \A i \in 1 .. k : IsMine(v[i]) => v[i] \in q.tx
    /\ \A i \in 1 .. k : Unit[v[i]] = cUnit /\ Reaches(w, v, i) => MarkedIn(q, v[i])
    /\ \A o \in q.spent : o \in w.spent \/ \E i \in 1 .. k : o \in Vin[v[i]] /\ v[i] \in q.tx

\* What pays to the wallet.
LEMMA MineIsMine ==
  ASSUME NEW o \in Mine
  PROVE  o = <<o[1], o[2]>> /\ o[1] \in Tx /\ o \in OutPoint /\ IsMine(o[1])
         /\ Unit[o[1]] = cUnit /\ ~IsParked(o) /\ o[2] \in DOMAIN Vout[o[1]]
  BY WalletAssumption DEF IsMine, IsParked, OutPoint

\* One transaction more.
LEMMA SyncedStep ==
  ASSUME NEW w, NEW y, NEW q, NEW v, NEW k \in Nat \ {0},
         SyncedUpto(w, y, v, k - 1), Synced(y, q, v[k])
  PROVE  SyncedUpto(w, q, v, k)
<1>1. \A i \in 1 .. k : i \in 1 .. (k - 1) \/ i = k
  OBVIOUS
<1>2. 1 .. (k - 1) \subseteq 1 .. k /\ k \in 1 .. k
  OBVIOUS
<1>3. w.tx \subseteq y.tx /\ w.spent \subseteq y.spent
  BY DEF SyncedUpto
<1>4. y.tx \subseteq q.tx /\ y.spent \subseteq q.spent
  BY DEF Synced
<1>5. \A i \in 1 .. k : IsMine(v[i]) => v[i] \in q.tx
  BY <1>1, <1>4 DEF SyncedUpto, Synced
<1>6. ASSUME NEW i \in 1 .. k, Unit[v[i]] = cUnit, Reaches(w, v, i)
      PROVE  MarkedIn(q, v[i])
  <2>1. CASE i \in 1 .. (k - 1)
    <3>1. MarkedIn(y, v[i])
      BY <1>6, <2>1 DEF SyncedUpto
    <3> QED
      BY <1>4, <3>1 DEF MarkedIn
  <2>2. CASE i = k
    <3>1. \A o \in Vin[v[k]] \cap Mine : o[1] \in y.tx
      <4> SUFFICES ASSUME NEW o \in Vin[v[k]] \cap Mine, o[1] \notin w.tx
                   PROVE  o[1] \in y.tx
        BY <1>3
      <4>1. PICK j \in 1 .. (k - 1) : v[j] = o[1]
        BY <1>6, <2>2 DEF Reaches
      <4>2. IsMine(v[j])
        BY <4>1, MineIsMine
      <4> QED
        BY <4>1, <4>2 DEF SyncedUpto
    <3>2. OwnInputs(y, v[k]) = Vin[v[k]] \cap Mine
      BY <3>1 DEF OwnInputs
    <3> QED
      BY <1>6, <2>2, <3>2 DEF Synced, MarkedIn
  <2> QED
    BY <1>1, <2>1, <2>2
<1>7. ASSUME NEW o \in q.spent, o \notin w.spent
      PROVE  \E i \in 1 .. k : o \in Vin[v[i]] /\ v[i] \in q.tx
  <2>1. CASE o \in y.spent
    <3>1. PICK i \in 1 .. (k - 1) : o \in Vin[v[i]] /\ v[i] \in y.tx
      BY <1>7, <2>1 DEF SyncedUpto
    <3> QED
      BY <1>2, <1>4, <3>1
  <2>2. CASE o \notin y.spent
    BY <1>2, <1>7, <2>2 DEF Synced
  <2> QED
    BY <2>1, <2>2
<1> QED
  BY <1>3, <1>4, <1>5, <1>6, <1>7 DEF SyncedUpto

\* SyncWithWallets of every transaction of a block.
LEMMA SyncLoop ==
  ASSUME NEW w, WalletOK(w), NEW v \in Seq(Tx), NEW b \in Block \cup {Null},
         \A i \in DOMAIN v : IsSeenIn(v[i], b)
  PROVE  LET q == Loop("sync", b, w, v)
         IN  WalletOK(q) /\ SyncedUpto(w, q, v, Len(v))
<1> DEFINE n == Len(v)
<1>1. n \in Nat /\ DOMAIN v = 1 .. n /\ \A j \in 1 .. n : v[j] \in Tx
  OBVIOUS
<1> HIDE DEF n
<1>2. PICK p : /\ p[0] = w /\ p[n] = Loop("sync", b, w, v)
               /\ \A i \in 1 .. n : p[i] = LoopOp("sync", b, p[i - 1], v[i])
  <2>1. \E p : IsRun(p, n, "sync", b, w, v)
    BY <1>1, LoopSteps
  <2> QED
    BY <2>1 DEF IsRun
<1> DEFINE T == {j \in 0 .. n : WalletOK(p[j]) /\ SyncedUpto(w, p[j], v, j)}
<1>3. 0 \in T
  BY <1>1, <1>2 DEF SyncedUpto
<1>4. ASSUME NEW j \in 1 .. n, j - 1 \in T
      PROVE  j \in T
  <2> DEFINE y == p[j - 1]
             t == v[j]
  <2>1. j \in 0 .. n /\ j \in Nat \ {0} /\ t \in Tx /\ IsSeenIn(t, b)
    BY <1>1
  <2>2. WalletOK(y) /\ SyncedUpto(w, y, v, j - 1)
    BY <1>4
  <2>3. p[j] = SyncWithWallets(y, t, b)
    BY <1>2 DEF LoopOp
  <2> HIDE DEF y, t
  <2>4. WalletOK(p[j]) /\ Synced(y, p[j], t)
    BY <2>1, <2>2, <2>3, SyncOK
  <2>5. SyncedUpto(w, p[j], v, j)
    BY <2>1, <2>2, <2>4, SyncedStep DEF t
  <2> QED
    BY <2>1, <2>4, <2>5
<1>5. n \in T
  <2> HIDE DEF T
  <2>1. 0 .. n \subseteq T
    BY <1>1, <1>3, <1>4, UpwardInduction
  <2> QED
    BY <1>1, <2>1
<1> QED
  BY <1>2, <1>5 DEF n

\* What the wallet makes of transactions that it hears of again or not: marks are added
\* only for those it hears of.
Heard(w, q, T) ==
    /\ w.tx \subseteq q.tx /\ w.spent \subseteq q.spent
    /\ \A o \in q.spent : o \in w.spent \/ \E t \in T : o \in Vin[t] /\ t \in q.tx

\* SyncWithWallets of the transactions that are back in the pool.
LEMMA BackLoop ==
  ASSUME NEW w, WalletOK(w), NEW v \in Seq(Tx), NEW back
  PROVE  LET q == Loop("back", back, w, v)
         IN  WalletOK(q) /\ Heard(w, q, Elements(v) \cap back)
<1> DEFINE n == Len(v)
           B == Elements(v) \cap back
<1>1. n \in Nat /\ DOMAIN v = 1 .. n /\ \A j \in 1 .. n : v[j] \in Tx /\ v[j] \in Elements(v)
  BY DEF Elements
<1> HIDE DEF n
<1>2. PICK p : /\ p[0] = w /\ p[n] = Loop("back", back, w, v)
               /\ \A i \in 1 .. n : p[i] = LoopOp("back", back, p[i - 1], v[i])
  <2>1. \E p : IsRun(p, n, "back", back, w, v)
    BY <1>1, LoopSteps
  <2> QED
    BY <2>1 DEF IsRun
<1> DEFINE T == {j \in 0 .. n : WalletOK(p[j]) /\ Heard(w, p[j], B)}
<1>3. 0 \in T
  BY <1>1, <1>2 DEF Heard
<1>4. ASSUME NEW j \in 1 .. n, j - 1 \in T
      PROVE  j \in T
  <2> DEFINE y == p[j - 1]
             t == v[j]
             q == p[j]
  <2>1. j \in 0 .. n /\ t \in Tx /\ t \in Elements(v)
    BY <1>1
  <2>2. WalletOK(y) /\ Heard(w, y, B)
    BY <1>4
  <2>3. q = IF t \in back THEN SyncWithWallets(y, t, Null) ELSE y
    BY <1>2 DEF LoopOp, SyncResurrected
  <2> HIDE DEF y, t, q
  <2>4. CASE t \in back
    <3>1. WalletOK(q) /\ Synced(y, q, t)
      BY <2>1, <2>2, <2>3, <2>4, SyncOK DEF IsSeenIn
    <3>2. Heard(w, q, B)
      BY <2>1, <2>2, <2>4, <3>1 DEF Heard, Synced
    <3> QED
      BY <2>1, <3>1, <3>2 DEF q
  <2>5. CASE t \notin back
    BY <2>1, <2>2, <2>3, <2>5 DEF q
  <2> QED
    BY <2>4, <2>5
<1>5. n \in T
  <2> HIDE DEF T
  <2>1. 0 .. n \subseteq T
    BY <1>1, <1>3, <1>4, UpwardInduction
  <2> QED
    BY <1>1, <2>1
<1> QED
  BY <1>2, <1>5

\* What the wallet makes of disconnected transactions.
DisabledAll(w, q, T) ==
    /\ q.tx = w.tx /\ q.spent \subseteq w.spent
    /\ \A o \in w.spent : o \in q.spent \/ \E t \in T : o \in Vin[t] /\ Kind[t] = "coinstake"
    /\ \A t \in T : Kind[t] = "coinstake" /\ Unit[t] = cUnit => Vin[t] \cap q.spent = {}

\* SyncWithWallets of every transaction of a block that is disconnected.
LEMMA DisableLoop ==
  ASSUME NEW w, WalletOK(w), NEW v \in Seq(Tx), NEW b
  PROVE  LET q == Loop("disable", b, w, v)
         IN  WalletOK(q) /\ DisabledAll(w, q, Elements(v))
<1> DEFINE n == Len(v)
           Done(j) == {v[k] : k \in 1 .. j}
<1>1. /\ n \in Nat /\ DOMAIN v = 1 .. n
      /\ Done(0) = {} /\ Done(n) = Elements(v)
      /\ \A j \in 1 .. n : v[j] \in Tx /\ Done(j) = Done(j - 1) \cup {v[j]}
  BY RestStep
<1> HIDE DEF n, Done
<1>2. PICK p : /\ p[0] = w /\ p[n] = Loop("disable", b, w, v)
               /\ \A i \in 1 .. n : p[i] = LoopOp("disable", b, p[i - 1], v[i])
  <2>1. \E p : IsRun(p, n, "disable", b, w, v)
    BY <1>1, LoopSteps
  <2> QED
    BY <2>1 DEF IsRun
<1> DEFINE T == {j \in 0 .. n : WalletOK(p[j]) /\ DisabledAll(w, p[j], Done(j))}
<1>3. 0 \in T
  BY <1>1, <1>2 DEF DisabledAll
<1>4. ASSUME NEW j \in 1 .. n, j - 1 \in T
      PROVE  j \in T
  <2> DEFINE y == p[j - 1]
             t == v[j]
             q == p[j]
             D == Done(j - 1)
             E == Done(j)
  <2>1. j \in 0 .. n /\ t \in Tx /\ E = D \cup {t}
    BY <1>1
  <2>2. WalletOK(y) /\ DisabledAll(w, y, D)
    BY <1>4
  <2>3. q = DisableTransaction(y, t)
    BY <1>2 DEF LoopOp
  <2> HIDE DEF y, t, q, D, E
  <2>4. WalletOK(q) /\ Disabled(y, q, t)
    BY <2>1, <2>2, <2>3, DisableOK
  <2>5. DisabledAll(w, q, E)
    BY <2>1, <2>2, <2>4 DEF DisabledAll, Disabled
  <2> QED
    BY <2>1, <2>4, <2>5 DEF q, E
<1>5. n \in T
  <2> HIDE DEF T
  <2>1. 0 .. n \subseteq T
    BY <1>1, <1>3, <1>4, UpwardInduction
  <2> QED
    BY <1>1, <2>1
<1> QED
  BY <1>1, <1>2, <1>5

\* A scan of blocks adds to what the wallet knows and marks.
LEMMA ScanLoop ==
  ASSUME NEW w, WalletOK(w), NEW v, NEW n \in Nat, DOMAIN v = 1 .. n,
         \A i \in 1 .. n : v[i] \in Block
  PROVE  LET q == FoldLeft(SyncBlock, w, v)
         IN  WalletOK(q) /\ w.tx \subseteq q.tx /\ w.spent \subseteq q.spent
<1>1. FoldLeft(SyncBlock, w, v) = Loop("scan", Null, w, v)
  BY LoopsOfWallet
<1>2. PICK p : /\ p[0] = w /\ p[n] = Loop("scan", Null, w, v)
               /\ \A i \in 1 .. n : p[i] = LoopOp("scan", Null, p[i - 1], v[i])
  <2>1. \E p : IsRun(p, n, "scan", Null, w, v)
    BY LoopSteps
  <2> QED
    BY <2>1 DEF IsRun
<1> DEFINE T == {j \in 0 .. n : /\ WalletOK(p[j]) /\ w.tx \subseteq p[j].tx
                                /\ w.spent \subseteq p[j].spent}
<1>3. 0 \in T
  BY <1>2
<1>4. ASSUME NEW j \in 1 .. n, j - 1 \in T
      PROVE  j \in T
  <2> DEFINE y == p[j - 1]
             a == v[j]
             q == p[j]
  <2>1. j \in 0 .. n /\ a \in Block /\ Vtx[a] \in Seq(Tx)
    BY BlockAssumption
  <2>2. WalletOK(y) /\ w.tx \subseteq y.tx /\ w.spent \subseteq y.spent
    BY <1>4
  <2>3. q = SyncBlock(y, a)
    BY <1>2 DEF LoopOp
  <2> HIDE DEF y, a, q
  <2>4. q = Loop("sync", a, y, Vtx[a])
    BY <2>3, LoopsOfWallet DEF SyncBlock
  <2>5. WalletOK(q) /\ SyncedUpto(y, q, Vtx[a], Len(Vtx[a]))
    BY <2>1, <2>2, <2>4, SyncLoop DEF IsSeenIn, TxsOf
  <2>6. w.tx \subseteq q.tx /\ w.spent \subseteq q.spent
    BY <2>2, <2>5 DEF SyncedUpto
  <2> QED
    BY <2>1, <2>5, <2>6 DEF q
<1>5. n \in T
  <2> HIDE DEF T
  <2>1. 0 .. n \subseteq T
    BY <1>3, <1>4, UpwardInduction
  <2> QED
    BY <2>1
<1> QED
  BY <1>1, <1>2, <1>5

\* There is a block at every height of a chain.
LEMMA ChainHasHeights ==
  ASSUME NEW b \in Block, NEW h \in 0 .. nHeight[b]
  PROVE  \E a \in Chain[b] : nHeight[a] = h
<1> DEFINE S == {c \in Block : \A k \in 0 .. nHeight[c] : \E a \in Chain[c] : nHeight[a] = k}
<1>1. nHeight \in [Block -> Nat] /\ nHeight[Genesis] = 0
  BY HeightRecursion
<1>2. Genesis \in S
  BY <1>1, ChainType, TreeAssumption
<1>3. ASSUME NEW c \in Block \ {Genesis}, Prev[c] \in S
      PROVE  c \in S
  <2>1. /\ Prev[c] \in Block /\ Chain[c] = {c} \cup Chain[Prev[c]]
        /\ nHeight[c] = nHeight[Prev[c]] + 1
    BY ChainUnfold, HeightRecursion
  <2>2. \A k \in 0 .. nHeight[c] : k = nHeight[c] \/ k \in 0 .. nHeight[Prev[c]]
    BY <1>1, <2>1
  <2> QED
    BY <1>3, <2>1, <2>2
<1>4. S = Block
  <2>1. S \in SUBSET Block
    OBVIOUS
  <2> HIDE DEF S
  <2> QED
    BY <1>2, <1>3, <2>1, TreeInduction
<1> QED
  BY <1>4

\* The locator finds a block of the chain that was noted.
LEMMA LocatedOK ==
  ASSUME NEW noted \in Block, NEW best \in Block
  PROVE  LocatedBlock(noted, best) \in Chain[noted]
<1> DEFINE C == {b \in Chain[noted] : pnext[b] # Null \/ b \in {best, Genesis}}
           H == {nHeight[a] : a \in C}
<1>1. C \subseteq Block /\ Genesis \in C
  BY ChainType, RootedAssumption
<1>2. H \in SUBSET Nat /\ H # {}
  <2> HIDE DEF C
  <2> QED
    BY <1>1, HeightRecursion
<1>3. IsFiniteSet(H)
  <2> DEFINE top == nHeight[noted]
  <2>1. top \in Int /\ 0 \in Int /\ H \subseteq 0 .. top
    BY <1>1, HeightRecursion, ChainHeight
  <2>2. IsFiniteSet(0 .. top)
    BY <2>1, FS_Interval
  <2> HIDE DEF H
  <2> QED
    BY <2>1, <2>2, FS_Subset
<1>4. \E x \in H : \A y \in H : y <= x
  <2> HIDE DEF H
  <2> QED
    BY <1>2, <1>3, GreatestNat
<1>5. \E b \in C : \A a \in C : nHeight[a] <= nHeight[b]
  <2> HIDE DEF C
  <2> QED
    BY <1>4
<1>6. LocatedBlock(noted, best) = CHOOSE b \in C : \A a \in C : nHeight[a] <= nHeight[b]
  BY DEF LocatedBlock
<1>7. C \subseteq Chain[noted]
  OBVIOUS
<1> HIDE DEF C, H
<1> QED
  BY <1>5, <1>6, <1>7

\* ScanForWalletTransactions.
LEMMA RescanOK ==
  ASSUME NEW w, WalletOK(w), NEW last \in Block, NEW from \in Chain[last]
  PROVE  LET q == Rescan(w, from, last)
         IN  WalletOK(q) /\ w.tx \subseteq q.tx /\ w.spent \subseteq q.spent
<1> DEFINE low == nHeight[from]
           n == nHeight[last] - low + 1
           blocks == [i \in 1 .. n |-> CHOOSE b \in Chain[last] : nHeight[b] = low + i - 1]
<1>1. from \in Block /\ Chain[last] \subseteq Block
  BY ChainType
<1>2. low \in Nat /\ nHeight[last] \in Nat /\ low <= nHeight[last] /\ n \in Nat
  BY <1>1, HeightRecursion, ChainHeight
<1>3. ASSUME NEW i \in 1 .. n
      PROVE  blocks[i] \in Block
  <2>1. low + i - 1 \in 0 .. nHeight[last]
    BY <1>2
  <2>2. \E b \in Chain[last] : nHeight[b] = low + i - 1
    BY <2>1, ChainHasHeights
  <2> QED
    BY <1>1, <2>2
<1>4. DOMAIN blocks = 1 .. n /\ Rescan(w, from, last) = FoldLeft(SyncBlock, w, blocks)
  BY DEF Rescan
<1> HIDE DEF n, blocks
<1> QED
  BY <1>2, <1>3, <1>4, ScanLoop

--------------------------------------------------------------------------------
\* The pool beside the wallet.

\* The transactions of a finite set in some order.
LEMMA SetToSeqType ==
  ASSUME NEW S \in SUBSET Tx, IsFiniteSet(S)
  PROVE  SetToSeq(S) \in Seq(Tx)
<1>1. PICK n \in Nat : ExistsBijection(1 .. n, S)
  BY FS_NatBijection
<1>2. Cardinality(S) = n
  BY <1>1, FS_CountingElements
<1>3. \E f \in [1 .. n -> S] : IsInjective(f)
  BY <1>1 DEF ExistsBijection, Bijection, Injection
<1>4. SetToSeq(S) \in [1 .. n -> S]
  BY <1>2, <1>3 DEF SetToSeq
<1>5. SetToSeq(S) \in [1 .. n -> Tx]
  BY <1>4
<1> QED
  BY <1>5

\* accept without the checks of the inputs keeps the maps of the pool in agreement.
LEMMA ReacceptLoop ==
  ASSUME NEW pool, PoolOK(pool), NEW v \in Seq(Tx)
  PROVE  PoolOK(FoldLeft(AcceptUnchecked, pool, v))
<1> DEFINE n == Len(v)
<1>1. n \in Nat /\ DOMAIN v = 1 .. n /\ \A j \in 1 .. n : v[j] \in Tx
  OBVIOUS
<1> HIDE DEF n
<1>2. FoldLeft(AcceptUnchecked, pool, v) = Loop("reaccept", Null, pool, v)
  BY LoopsOfWallet
<1>3. PICK p : /\ p[0] = pool /\ p[n] = Loop("reaccept", Null, pool, v)
               /\ \A i \in 1 .. n : p[i] = LoopOp("reaccept", Null, p[i - 1], v[i])
  <2>1. \E p : IsRun(p, n, "reaccept", Null, pool, v)
    BY <1>1, LoopSteps
  <2> QED
    BY <2>1 DEF IsRun
<1> DEFINE T == {j \in 0 .. n : PoolOK(p[j])}
<1>4. 0 \in T
  BY <1>1, <1>3
<1>5. ASSUME NEW j \in 1 .. n, j - 1 \in T
      PROVE  j \in T
  <2> DEFINE y == p[j - 1]
             t == v[j]
  <2>1. j \in 0 .. n /\ t \in Tx /\ PoolOK(y)
    BY <1>1, <1>5
  <2>2. p[j] = IF IsOffered(y, t, pcoinsTip) THEN AddUnchecked(y, t) ELSE y
    BY <1>3 DEF LoopOp, AcceptUnchecked
  <2> HIDE DEF y, t
  <2>3. CASE IsOffered(y, t, pcoinsTip)
    BY <2>1, <2>2, <2>3, AddOK DEF IsOffered
  <2>4. CASE ~IsOffered(y, t, pcoinsTip)
    BY <2>1, <2>2, <2>4
  <2> QED
    BY <2>3, <2>4
<1>6. n \in T
  <2> HIDE DEF T
  <2>1. 0 .. n \subseteq T
    BY <1>1, <1>4, <1>5, UpwardInduction
  <2> QED
    BY <1>1, <2>1
<1> QED
  BY <1>2, <1>3, <1>6

\* So do the loops of SetBestChain, whatever the pool holds.
LEMMA LoopsKeepMaps ==
  ASSUME PoolOK(Pool), pindexBest \in Block, pindexNew \in Block, NEW f
  PROVE  PoolOK(PoolResurrected(f)) /\ PoolOK(PoolAfter(f))
<1> DEFINE all == [t \in Tx |-> [vout |-> DOMAIN Vout[t]]]
           p == PoolResurrected(f)
           q == PoolAfter(f)
           v == vResurrect
           d == vDelete
<1>1. v \in Seq(Tx) /\ d \in Seq(Tx)
  BY ListsOfSetBestChain
<1>2. p = Loop("resurrect", f, Pool, v) /\ q = Loop("delete", f, p, d)
  BY LoopsOfSetBestChain
<1>3. Elements(d) \subseteq Tx
  BY <1>1 DEF Elements
<1>4. \A t \in Tx : all[t].vout = DOMAIN Vout[t]
  OBVIOUS
<1> HIDE DEF p, q, v, d, all
<1>5. PoolOK(p)
  <2>1. Apart(Pool, {}) /\ \A t \in Elements(v) : Foreign(t, {})
    BY DEF Apart, Foreign
  <2>2. Based(Pool, view, {} \cup Elements(v), Tx)
    BY DEF Based, PoolOK, PoolType
  <2> QED
    BY <1>1, <1>2, <2>1, <2>2, ResurrectLoop
<1>6. PoolOK(q)
  <2>1. Apart(p, {})
    BY DEF Apart
  <2>2. Based(p, all, {}, Elements(d))
    BY <1>4, <1>5, VinPoints DEF Based, PoolOK, PoolType
  <2>3. \A t \in Elements(d) : Settled(t, all, {} \cup Elements(d))
    BY <1>3, <1>4 DEF Settled
  <2> QED
    BY <1>1, <1>2, <1>5, <2>1, <2>2, <2>3, DeleteLoop
<1> QED
  BY <1>5, <1>6 DEF p, q

--------------------------------------------------------------------------------
\* The wallet of every reachable state.

WalletInv ==
    /\ TotalsInv
    /\ PoolOK(Pool)
    /\ mapOrphanTransactions \subseteq Tx
    /\ WalletOK(TheWallet)
    /\ fFromMe \subseteq mapWallet
    /\ hashLocator \in Block
    /\ fStarting \in BOOLEAN
    /\ pnext \in [Block -> Block \cup {Null}]
    /\ fLost \in BOOLEAN

\* The minter's steps, seen from the rest of the node: it offers a block or does nothing.
QuietStep ==
    /\ UNCHANGED ledgerVars \/ \E b \in Block : BeginSetBestChain(b)
    /\ UNCHANGED <<poolVars, walletVars>>

\* The steps of the node.
NodeStep ==
    \/ WalletNext
    \/ \E f \in BOOLEAN : WalletRestart(f)
    \/ QuietStep

LEMMA MinterStepIsNodeStep ==
  ASSUME MintInv, [MinterNext]_minterVars
  PROVE  NodeStep /\ [LedgerNext]_ledgerVars
<1>1. CASE OtherStep
  BY <1>1, OtherStepIsLedgerStep DEF OtherStep, NodeStep
<1>2. CASE ReadTip \/ GenerateCurrencyCoinBases \/ NoBlock \/ DropStaleBlock
           \/ RefuseMintedBlock
  BY <1>2 DEF ReadTip, GenerateCurrencyCoinBases, NoBlock, DropStaleBlock,
              RefuseMintedBlock, vars, NodeStep, QuietStep
<1>3. ASSUME NEW s \in Tx, CreateCoinStake(s) PROVE NodeStep /\ UNCHANGED ledgerVars
  BY <1>3 DEF CreateCoinStake, vars, NodeStep, QuietStep
<1>4. ASSUME NEW b \in Block, BuildBlock(b) PROVE NodeStep /\ UNCHANGED ledgerVars
  BY <1>4 DEF BuildBlock, vars, NodeStep, QuietStep
<1>5. CASE OfferBlock
  <2>1. BeginSetBestChain(pblock) /\ UNCHANGED <<poolVars, walletVars>>
    BY <1>5 DEF OfferBlock
  <2>2. pblock \in Block
    BY <1>5 DEF OfferBlock, MintInv
  <2> QED
    BY <2>1, <2>2 DEF LedgerNext, NodeStep, QuietStep
<1>6. ASSUME NEW f \in BOOLEAN, MinterRestart(f) PROVE NodeStep /\ LedgerNext
  BY <1>6 DEF MinterRestart, WalletRestart, Restart, LedgerNext, NodeStep
<1>7. CASE UNCHANGED minterVars
  BY <1>7 DEF minterVars, vars, NodeStep, QuietStep
<1> QED
  BY <1>1, <1>2, <1>3, <1>4, <1>5, <1>6, <1>7 DEF MinterNext

\* A wallet is the record of its maps.
LEMMA WalletIsRecord ==
  ASSUME NEW q, WalletOK(q), WalletIs(q)
  PROVE  TheWallet' = q
  BY DEF WalletOK, WalletType, WalletIs, TheWallet

\* The maps of the pool after a step of the node.
LEMMA PoolMapsStep ==
  ASSUME WalletInv, NodeStep
  PROVE  PoolOK(Pool)' /\ mapOrphanTransactions' \subseteq Tx
<1>1. CASE UNCHANGED poolVars
  BY <1>1 DEF poolVars, Pool, WalletInv, PoolOK
<1>2. ASSUME NEW q, PoolOK(q), mapTx' = q.tx, mapNextTx' = q.next
      PROVE  PoolOK(Pool)'
  <2>1. Pool' = q
    BY <1>2, PoolIsRecord DEF Pool, PoolOK
  <2> QED
    BY <1>2, <2>1 DEF PoolOK
<1>3. ASSUME NEW t \in Tx, IsAcceptable(Pool, t, pcoinsTip, pindexBest)
      PROVE  PoolOK(AddUnchecked(Pool, t))
  BY <1>3, AddOK DEF WalletInv, IsAcceptable, IsOffered
<1>4. ASSUME NEW t \in Tx, WalletAcceptTx(t)
      PROVE  PoolOK(Pool)' /\ mapOrphanTransactions' \subseteq Tx
  BY <1>2, <1>3, <1>4 DEF WalletAcceptTx, AcceptTx, WalletInv
<1>5. ASSUME NEW t \in Tx, WalletHoldOrphanTx(t)
      PROVE  PoolOK(Pool)' /\ mapOrphanTransactions' \subseteq Tx
  <2>1. mapOrphanTransactions' \subseteq Tx
    BY <1>5 DEF WalletHoldOrphanTx, HoldOrphanTx, LimitOrphanTxSize, WalletInv
  <2>2. UNCHANGED <<mapTx, mapNextTx>>
    BY <1>5 DEF WalletHoldOrphanTx, HoldOrphanTx
  <2> QED
    BY <2>1, <2>2 DEF Pool, WalletInv, PoolOK
<1>6. ASSUME NEW t \in Tx, CommitTransaction(t)
      PROVE  PoolOK(Pool)' /\ mapOrphanTransactions' \subseteq Tx
  <2>1. CASE IsAcceptable(Pool, t, pcoinsTip, pindexBest)
    BY <1>2, <1>3, <1>6, <2>1 DEF CommitTransaction, WalletInv
  <2>2. CASE ~IsAcceptable(Pool, t, pcoinsTip, pindexBest)
    BY <1>1, <1>6, <2>2 DEF CommitTransaction, poolVars
  <2> QED
    BY <2>1, <2>2
<1>7. CASE FixSpentCoins \/ WalletChangeView \/ WalletDisconnectBlock
           \/ \E b \in Block : WalletConnectBlock(b)
  BY <1>1, <1>7 DEF FixSpentCoins, WalletChangeView, WalletDisconnectBlock,
     WalletConnectBlock
<1>8. ASSUME NEW d \in BOOLEAN, NEW f \in BOOLEAN, WalletSetBestChainDone(d, f)
      PROVE  PoolOK(Pool)' /\ mapOrphanTransactions' \subseteq Tx
  <2>1. PoolOK(PoolAfter(f))
    BY LoopsKeepMaps DEF WalletInv, TotalsInv, LInv, CoinsTypeOK
  <2> QED
    BY <1>2, <1>8, <2>1 DEF WalletSetBestChainDone, SetBestChainDone, WalletInv
<1>9. CASE ReacceptWalletTransactions
  <2> DEFINE loose == {t \in {u \in mapWallet : ~IsSkipped(u)} :
                          ~IsFound(t) /\ Kind[t] \notin {"coinbase", "coinstake"}}
             q == FoldLeft(AcceptUnchecked, Pool, SetToSeq(loose))
  <2>1. mapTx' = q.tx /\ mapNextTx' = q.next /\ UNCHANGED mapOrphanTransactions
    BY <1>9 DEF ReacceptWalletTransactions
  <2>2. loose \in SUBSET mapWallet
    OBVIOUS
  <2>3. mapWallet \in SUBSET Tx /\ IsFiniteSet(mapWallet)
    BY DEF WalletInv, WalletOK, WalletType, TheWallet
  <2> HIDE DEF loose
  <2>4. loose \in SUBSET Tx /\ IsFiniteSet(loose)
    BY <2>2, <2>3, FS_Subset
  <2>5. PoolOK(q)
    BY <2>4, SetToSeqType, ReacceptLoop DEF WalletInv
  <2> QED
    BY <1>2, <2>1, <2>5 DEF WalletInv
<1>10. ASSUME NEW f \in BOOLEAN, WalletRestart(f)
       PROVE  PoolOK(Pool)' /\ mapOrphanTransactions' \subseteq Tx
  <2> DEFINE q == [tx |-> {}, next |-> [o \in OutPoint |-> Null]]
  <2>1. PoolOK(q)
    BY EmptyPool
  <2>2. mapTx' = q.tx /\ mapNextTx' = q.next /\ mapOrphanTransactions' = {}
    BY <1>10 DEF WalletRestart, Restart
  <2> HIDE DEF q
  <2> QED
    BY <1>2, <2>1, <2>2
<1> QED
  BY <1>1, <1>4, <1>5, <1>6, <1>7, <1>8, <1>9, <1>10 DEF NodeStep, WalletNext, QuietStep

\* What a step of the node does to the wallet.
WalletMoves(w, q) ==
    \/ \E t \in Tx : WalletAcceptTx(t) /\ Synced(w, q, t)
    \/ \E t \in Tx : /\ CommitTransaction(t)
                     /\ q.tx = w.tx \cup {t} /\ q.spent = w.spent \cup OwnInputs(w, t)
    \/ FixSpentCoins /\ q.tx = w.tx
    \/ WalletDisconnectBlock /\ DisabledAll(w, q, TxsOf(viewBest))
    \/ \E b \in Block : WalletConnectBlock(b) /\ SyncedUpto(w, q, Vtx[b], Len(Vtx[b]))
    \/ \E d, f \in BOOLEAN :
          /\ WalletSetBestChainDone(d, f)
          /\ Heard(w, q, Elements(vResurrect) \cap PoolResurrected(f).tx)
    \/ ReacceptWalletTransactions /\ q.tx = w.tx /\ w.spent \subseteq q.spent
    \/ /\ \E f \in BOOLEAN : WalletRestart(f)
       /\ w.tx \subseteq q.tx /\ w.spent \subseteq q.spent
    \/ /\ \/ \E t \in Tx : WalletHoldOrphanTx(t)
          \/ WalletChangeView
          \/ QuietStep
       /\ q.tx = w.tx /\ q.spent = w.spent

\* The wallet after a step is a wallet.
LEMMA WalletStep ==
  ASSUME WalletInv, NodeStep
  PROVE  /\ WalletOK(TheWallet)' /\ mapWallet \subseteq mapWallet'
         /\ WalletMoves(TheWallet, TheWallet')
<1> DEFINE w == TheWallet
           q == TheWallet'
<1>1. WalletOK(w) /\ w.tx = mapWallet /\ w.spent = vfSpent /\ w.block = hashBlock
  BY DEF WalletInv, TheWallet
<1>2. q.tx = mapWallet' /\ q.spent = vfSpent' /\ q.block = hashBlock'
  BY DEF TheWallet
<1>3. pindexBest \in Block /\ pindexNew \in Block /\ viewBest \in Block
  BY DEF WalletInv, TotalsInv, LInv, CoinsTypeOK
<1>4. ASSUME NEW x, WalletOK(x), WalletIs(x) PROVE q = x
  BY <1>4, WalletIsRecord
<1> SUFFICES WalletOK(q) /\ w.tx \subseteq q.tx /\ WalletMoves(w, q)
  BY <1>1, <1>2 DEF WalletOK
<1> HIDE DEF w, q
<1>5. CASE UNCHANGED walletVars /\ \/ \E t \in Tx : WalletHoldOrphanTx(t)
                                   \/ WalletChangeView
                                   \/ QuietStep
  <2>1. q = w
    BY <1>5 DEF q, w, TheWallet, walletVars
  <2> QED
    BY <1>1, <1>5, <2>1 DEF WalletMoves
<1>6. ASSUME NEW t \in Tx, WalletAcceptTx(t)
      PROVE  WalletOK(q) /\ w.tx \subseteq q.tx /\ WalletMoves(w, q)
  <2> DEFINE x == SyncWithWallets(w, t, Null)
  <2>1. WalletOK(x) /\ Synced(w, x, t)
    BY <1>1, SyncOK DEF IsSeenIn
  <2>2. WalletIs(x)
    BY <1>6 DEF WalletAcceptTx, w
  <2> HIDE DEF x
  <2>3. q = x
    BY <1>4, <2>1, <2>2
  <2> QED
    BY <1>6, <2>1, <2>3 DEF WalletMoves, Synced
<1>7. ASSUME NEW t \in Tx, CommitTransaction(t)
      PROVE  WalletOK(q) /\ w.tx \subseteq q.tx /\ WalletMoves(w, q)
  <2> DEFINE x == AddToWallet(w, t, Null)
  <2>1. /\ WalletOK(x) /\ x.tx = w.tx \cup {t}
        /\ x.spent = IF Unit[t] = cUnit THEN w.spent \cup OwnInputs(w, t) ELSE w.spent
    BY <1>1, AddToWalletOK DEF IsSeenIn
  <2>2. WalletIs(x) /\ Unit[t] = cUnit
    BY <1>7 DEF CommitTransaction, w
  <2> HIDE DEF x
  <2>3. q = x
    BY <1>4, <2>1, <2>2
  <2> QED
    BY <1>7, <2>1, <2>2, <2>3 DEF WalletMoves
<1>8. CASE FixSpentCoins
  <2>1. q.tx = w.tx /\ q.block = w.block
    BY <1>1, <1>2, <1>8 DEF FixSpentCoins
  <2>2. q.spent \subseteq Mine /\ \A o \in q.spent : o[1] \in w.tx
    BY <1>1, <1>2, <1>8 DEF FixSpentCoins, WalletOK, WalletType
  <2>3. q = [tx |-> q.tx, block |-> q.block, spent |-> q.spent]
    BY DEF q, TheWallet
  <2>4. WalletOK(q)
    BY <1>1, <2>1, <2>2, <2>3 DEF WalletOK, WalletType
  <2> QED
    BY <1>8, <2>1, <2>4 DEF WalletMoves
<1>9. CASE WalletDisconnectBlock
  <2> DEFINE x == FoldLeft(DisableTransaction, w, Vtx[viewBest])
             v == Vtx[viewBest]
  <2>1. v \in Seq(Tx) /\ Elements(v) = TxsOf(viewBest)
    BY <1>3, BlockAssumption DEF Elements, TxsOf
  <2>2. x = Loop("disable", Null, w, v)
    BY LoopsOfWallet
  <2>3. WalletIs(x)
    BY <1>9 DEF WalletDisconnectBlock, w
  <2> HIDE DEF x, v
  <2>4. WalletOK(x) /\ DisabledAll(w, x, TxsOf(viewBest))
    BY <1>1, <2>1, <2>2, DisableLoop
  <2>5. q = x
    BY <1>4, <2>3, <2>4
  <2> QED
    BY <1>9, <2>4, <2>5 DEF WalletMoves, DisabledAll
<1>10. ASSUME NEW b \in Block, WalletConnectBlock(b)
       PROVE  WalletOK(q) /\ w.tx \subseteq q.tx /\ WalletMoves(w, q)
  <2> DEFINE x == SyncBlock(w, b)
  <2>1. Vtx[b] \in Seq(Tx)
    BY BlockAssumption
  <2>2. x = Loop("sync", b, w, Vtx[b])
    BY LoopsOfWallet DEF SyncBlock
  <2>3. WalletIs(x)
    BY <1>10 DEF WalletConnectBlock, w
  <2> HIDE DEF x
  <2>4. WalletOK(x) /\ SyncedUpto(w, x, Vtx[b], Len(Vtx[b]))
    BY <1>1, <2>1, <2>2, SyncLoop DEF IsSeenIn, TxsOf
  <2>5. q = x
    BY <1>4, <2>3, <2>4
  <2> QED
    BY <1>10, <2>4, <2>5 DEF WalletMoves, SyncedUpto
<1>11. ASSUME NEW d \in BOOLEAN, NEW f \in BOOLEAN, WalletSetBestChainDone(d, f)
       PROVE  WalletOK(q) /\ w.tx \subseteq q.tx /\ WalletMoves(w, q)
  <2> DEFINE back == PoolResurrected(f).tx
             x == FoldLeft(LAMBDA y, t : SyncResurrected(y, t, back), w, vResurrect)
             v == vResurrect
  <2>1. v \in Seq(Tx)
    BY <1>3, ListsOfSetBestChain
  <2>2. x = Loop("back", back, w, v)
    BY LoopsOfWallet
  <2>3. WalletIs(x)
    BY <1>11 DEF WalletSetBestChainDone, w
  <2> HIDE DEF x, v
  <2>4. WalletOK(x) /\ Heard(w, x, Elements(v) \cap back)
    BY <1>1, <2>1, <2>2, BackLoop
  <2>5. q = x
    BY <1>4, <2>3, <2>4
  <2> QED
    BY <1>11, <2>4, <2>5 DEF WalletMoves, Heard, v
<1>12. CASE ReacceptWalletTransactions
  <2>1. q.tx = w.tx /\ q.block = w.block /\ w.spent \subseteq q.spent
    BY <1>1, <1>2, <1>12 DEF ReacceptWalletTransactions
  <2>2. q.spent \subseteq Mine /\ \A o \in q.spent : o[1] \in w.tx
    BY <1>1, <1>2, <1>12 DEF ReacceptWalletTransactions, WalletOK, WalletType, OwnInputs, w,
                             TheWallet
  <2>3. q = [tx |-> q.tx, block |-> q.block, spent |-> q.spent]
    BY DEF q, TheWallet
  <2>4. WalletOK(q)
    BY <1>1, <2>1, <2>2, <2>3 DEF WalletOK, WalletType
  <2> QED
    BY <1>12, <2>1, <2>4 DEF WalletMoves
<1>13. ASSUME NEW f \in BOOLEAN, WalletRestart(f)
       PROVE  WalletOK(q) /\ w.tx \subseteq q.tx /\ WalletMoves(w, q)
  <2> DEFINE noted == IF f THEN pindexBest ELSE hashLocator
             from == LocatedBlock(noted, pindexBest')
  <2>1. IF nHeight[pindexBest'] > nHeight[from]
        THEN \E last \in Scanned(from) : WalletIs(Rescan(w, from, last))
        ELSE UNCHANGED <<mapWallet, hashBlock, vfSpent>>
    BY <1>13 DEF WalletRestart, w
  <2> HIDE DEF from
  <2>2. CASE UNCHANGED <<mapWallet, hashBlock, vfSpent>>
    <3>1. q = w
      BY <2>2 DEF q, w, TheWallet
    <3> QED
      BY <1>1, <1>13, <3>1 DEF WalletMoves
  <2>3. ASSUME NEW last \in Scanned(from), WalletIs(Rescan(w, from, last))
        PROVE  WalletOK(q) /\ w.tx \subseteq q.tx /\ WalletMoves(w, q)
    <3> DEFINE x == Rescan(w, from, last)
    <3>1. last \in Block /\ from \in Chain[last]
      BY DEF Scanned
    <3>2. WalletOK(x) /\ w.tx \subseteq x.tx /\ w.spent \subseteq x.spent
      BY <1>1, <3>1, RescanOK
    <3> HIDE DEF x
    <3>3. q = x
      BY <1>4, <2>3, <3>2 DEF x
    <3> QED
      BY <1>13, <3>2, <3>3 DEF WalletMoves
  <2> QED
    BY <2>1, <2>2, <2>3
<1> QED
  BY <1>5, <1>6, <1>7, <1>8, <1>9, <1>10, <1>11, <1>12, <1>13
     DEF NodeStep, QuietStep, WalletNext, WalletHoldOrphanTx, WalletChangeView

\* A step keeps the invariant.
LEMMA WalletInvStep ==
  ASSUME WalletInv, NodeStep, [LedgerNext]_ledgerVars
  PROVE  WalletInv'
<1>1. TotalsInv'
  BY TotalsInvStep DEF WalletInv
<1>2. WalletOK(TheWallet)' /\ mapWallet \subseteq mapWallet'
  BY WalletStep
<1>3. PoolOK(Pool)' /\ mapOrphanTransactions' \subseteq Tx
  BY PoolMapsStep
<1>4. fStarting' \in BOOLEAN /\ hashLocator' \in Block
  <2>1. pindexBest \in Block /\ pindexNew \in Block /\ pindexBest' \in Block
    BY <1>1 DEF WalletInv, TotalsInv, LInv, CoinsTypeOK
  <2> QED
    BY <2>1 DEF WalletInv, NodeStep, QuietStep, WalletNext, WalletAcceptTx,
       WalletHoldOrphanTx,
        CommitTransaction, FixSpentCoins, WalletChangeView, WalletDisconnectBlock,
        WalletConnectBlock, WalletSetBestChainDone, ReacceptWalletTransactions,
        WalletRestart,
        walletVars
<1>5. fFromMe' \subseteq mapWallet'
  <2>1. CASE fFromMe' = fFromMe
    BY <1>2, <2>1 DEF WalletInv
  <2>2. ASSUME NEW t \in Tx, CommitTransaction(t)
        PROVE  fFromMe' \subseteq mapWallet'
    <3>1. WalletOK(TheWallet) /\ TheWallet.tx = mapWallet
      BY DEF WalletInv, TheWallet
    <3>2. mapWallet' = AddToWallet(TheWallet, t, Null).tx
      BY <2>2 DEF CommitTransaction, WalletIs
    <3>3. mapWallet' = mapWallet \cup {t}
      BY <3>1, <3>2, AddToWalletOK DEF IsSeenIn
    <3> QED
      BY <2>2, <3>3 DEF CommitTransaction, WalletInv
  <2> QED
    BY <2>1, <2>2 DEF NodeStep, QuietStep, WalletNext, WalletAcceptTx, WalletHoldOrphanTx,
        FixSpentCoins, WalletChangeView, WalletDisconnectBlock,
        WalletConnectBlock, WalletSetBestChainDone, ReacceptWalletTransactions,
        WalletRestart,
        walletVars
<1>6. pnext' \in [Block -> Block \cup {Null}] /\ fLost' \in BOOLEAN
  <2>1. Relinked \in [Block -> Block \cup {Null}]
    <3>1. \A a \in Block : (\E b \in vConnect : Prev[b] = a) =>
              (CHOOSE b \in vConnect : Prev[b] = a) \in Block
      <4>1. vConnect \subseteq Block
        BY ChainType DEF WalletInv, TotalsInv, LInv, CoinsTypeOK, vConnect
      <4> QED
        BY <4>1
    <3> QED
      BY <3>1 DEF Relinked, WalletInv
  <2> QED
    BY <2>1 DEF WalletInv, NodeStep, QuietStep, WalletNext, WalletAcceptTx,
       WalletHoldOrphanTx,
        CommitTransaction, FixSpentCoins, WalletChangeView, WalletDisconnectBlock,
        WalletConnectBlock, WalletSetBestChainDone, ReacceptWalletTransactions,
        WalletRestart,
        walletVars
<1> QED
  BY <1>1, <1>2, <1>3, <1>4, <1>5, <1>6 DEF WalletInv

--------------------------------------------------------------------------------
\* The types.

MintTypeOK ==
    /\ mintPc \in {"idle", "tip", "stake", "grants", "built", "aborted"}
    /\ pindexPrev \in Block
    /\ txCoinStake \in {t \in Tx : Kind[t] = "coinstake"} \cup {Null}
    /\ vGrant \subseteq {Custodian[t] : t \in DOMAIN Custodian}
    /\ pblock \in Block \cup {Null}
    /\ fMoved \in BOOLEAN
    /\ setMinted \subseteq Block
    /\ txCoinStake = Null <=> mintPc \in {"idle", "tip"}
    /\ pblock = Null <=> mintPc # "built"

\* A step keeps the types of the minter's variables.
LEMMA MintTypeStep ==
  ASSUME MintTypeOK, pindexBest \in Block, [MinterNext]_minterVars
  PROVE  MintTypeOK'
<1>1. CASE OtherStep
  <2>1. fMoved' \in BOOLEAN
    BY <1>1 DEF OtherStep, MintTypeOK
  <2> QED
    BY <1>1, <2>1 DEF OtherStep, MintTypeOK
<1>2. CASE ReadTip
  BY <1>2 DEF ReadTip, MintTypeOK
<1>3. ASSUME NEW s \in Tx, CreateCoinStake(s) PROVE MintTypeOK'
  BY <1>3, TxAssumption DEF CreateCoinStake, IsSignedStake, MintTypeOK
<1>4. CASE GenerateCurrencyCoinBases
  <2>1. Winners[pindexPrev] \subseteq {Custodian[t] : t \in DOMAIN Custodian}
    BY CustodianAssumption DEF MintTypeOK
  <2> QED
    BY <1>4, <2>1 DEF GenerateCurrencyCoinBases, MintTypeOK
<1>5. CASE \/ NoBlock \/ DropStaleBlock \/ RefuseMintedBlock
           \/ \E f \in BOOLEAN : MinterRestart(f)
  BY <1>5, TreeAssumption DEF NoBlock, DropStaleBlock, RefuseMintedBlock, MinterRestart,
     GiveUp,
                              MintTypeOK
<1>6. ASSUME NEW b \in Block, BuildBlock(b) PROVE MintTypeOK'
  BY <1>6, TreeAssumption DEF BuildBlock, MintTypeOK
<1>7. CASE OfferBlock
  <2>1. pblock \in Block
    BY <1>7, TreeAssumption DEF OfferBlock, MintTypeOK
  <2> QED
    BY <1>7, <2>1, TreeAssumption DEF OfferBlock, GiveUp, MintTypeOK
<1>8. CASE UNCHANGED minterVars
  BY <1>8 DEF minterVars, mintVars, MintTypeOK
<1> QED
  BY <1>1, <1>2, <1>3, <1>4, <1>5, <1>6, <1>7, <1>8 DEF MinterNext

\* An empty wallet.
LEMMA EmptyWallet ==
  ASSUME WalletInit
  PROVE  WalletInv
<1>1. TotalsInv
  BY TotalsInvInit DEF WalletInit, Init
<1>2. Pool = [tx |-> {}, next |-> [o \in OutPoint |-> Null]]
  BY DEF WalletInit, Init, Pool
<1>3. PoolOK(Pool)
  BY <1>2, EmptyPool
<1>4. TheWallet = [tx |-> {}, block |-> [t \in Tx |-> Null], spent |-> {}]
  BY DEF WalletInit, TheWallet
<1>5. WalletOK(TheWallet)
  BY <1>4, FS_EmptySet DEF WalletOK, WalletType, IsSeenIn
<1> QED
  BY <1>1, <1>3, <1>5, TreeAssumption DEF WalletInit, Init, WalletInv

\* The invariant holds in every reachable state.
LEMMA WalletInvHolds ==
  MinterSpec => [](WalletInv /\ MintInv /\ MintTypeOK)
<1>1. MinterInit => WalletInv /\ MintTypeOK
  BY EmptyWallet, TreeAssumption DEF MinterInit, MintTypeOK
<1>2. WalletInv /\ MintInv /\ MintTypeOK /\ [MinterNext]_minterVars => (WalletInv /\ MintTypeOK)'
  <2> SUFFICES ASSUME WalletInv, MintInv, MintTypeOK, [MinterNext]_minterVars
               PROVE  WalletInv' /\ MintTypeOK'
    OBVIOUS
  <2>1. pindexBest \in Block
    BY DEF WalletInv, TotalsInv, LInv, CoinsTypeOK
  <2> QED
    BY <2>1, MinterStepIsNodeStep, WalletInvStep, MintTypeStep
<1> QED
  BY <1>1, <1>2, MintInvHolds, PTL DEF MinterSpec

\* The pool knows the spender of every output also beside the wallet, which at a start
\* puts transactions back without looking at their inputs.
THEOREM SpendersAreKnownToMinter ==
  MinterSpec => []NextTxExact
<1>1. WalletInv => NextTxExact
  BY DEF WalletInv, PoolOK, NextTxExact, Pool
<1> QED
  BY <1>1, WalletInvHolds, PTL

\* The variables of the whole node, with wallet and minter, keep their types.
THEOREM MinterTypeCorrect ==
  MinterSpec => []MinterTypeOK
<1>1. WalletInv /\ MintTypeOK => MinterTypeOK
  <2> SUFFICES ASSUME WalletInv, MintTypeOK PROVE MinterTypeOK
    OBVIOUS
  <2>1. TypeOK
    BY DEF WalletInv, TotalsInv, LInv, TotalsTypeOK, LedgerTypeOK, TypeOK, PoolOK,
       PoolType, Pool
  <2>2. /\ mapWallet \subseteq Tx /\ hashBlock \in [Tx -> Block \cup {Null}]
        /\ vfSpent \subseteq Mine /\ \A o \in vfSpent : o[1] \in mapWallet
    BY DEF WalletInv, WalletOK, WalletType, TheWallet
  <2>3. vfSpent \subseteq Mine \cap OutputsOf(mapWallet)
    BY <2>2, MineIsMine DEF OutputsOf
  <2>4. WalletTypeOK
    BY <2>1, <2>2, <2>3 DEF WalletTypeOK, WalletInv
  <2> QED
    BY <2>4 DEF MinterTypeOK, MintTypeOK
<1> QED
  BY <1>1, WalletInvHolds, PTL


--------------------------------------------------------------------------------
\* What the wallet knows of the chain.

\* Of two blocks one at most descends from the other.
LEMMA ChainAntisymmetric ==
  ASSUME NEW a \in Block, NEW c \in Block, a \in Chain[c], c \in Chain[a]
  PROVE  a = c
<1>1. CASE c = Genesis
  BY <1>1, ChainOfGenesis
<1>2. CASE c # Genesis /\ a # c
  <2>1. a \in Chain[Prev[c]] /\ Prev[c] \in Block /\ c \notin Chain[Prev[c]]
    BY <1>2, ChainUnfold, NotOwnAncestor
  <2> QED
    BY <2>1, ChainOfAncestor
<1> QED
  BY <1>1, <1>2

\* The transactions of a chain whose blocks were connected spend different outputs.
LEMMA ChainDisjoint ==
  ASSUME LInv, NEW b \in Connected, NEW t \in ChainTxs(b), NEW u \in ChainTxs(b), t # u
  PROVE  Vin[t] \cap Vin[u] = {}
<1>1. Connected \in SUBSET Block /\ ClosedUnderPrev(Connected)
  BY TreeAssumption DEF LInv, CoinsTypeOK, UndoInv, Connected, ClosedUnderPrev
<1>2. PICK a \in Chain[b] : t \in TxsOf(a)
  BY DEF ChainTxs
<1>3. PICK c \in Chain[b] : u \in TxsOf(c)
  BY DEF ChainTxs
<1>4. b \in Block /\ a \in Connected /\ a \in Block /\ c \in Connected /\ c \in Block
  BY <1>1, ChainInClosed
<1>5. CASE a \notin Chain[c]
  BY <1>2, <1>3, <1>5, BlocksForeign
<1>6. CASE c \notin Chain[a]
  BY <1>2, <1>3, <1>6, BlocksForeign
<1>7. CASE a \in Chain[c] /\ c \in Chain[a]
  <2>1. a = c
    BY <1>4, <1>7, ChainAntisymmetric
  <2>2. DOMAIN Vtx[a] \subseteq Int /\ \A i \in DOMAIN Vtx[a] : Vtx[a][i] \in Tx
    BY <1>4, BlockAssumption
  <2>3. ASSUME NEW i \in DOMAIN Vtx[a], NEW j \in DOMAIN Vtx[a], j < i
        PROVE  Vin[Vtx[a][i]] \cap Vin[Vtx[a][j]] = {}
    <3>1. a \in nUndoPos
      BY <1>4, <2>3, BlockAssumption DEF Connected
    <3>2. Applies(a, i)
      BY <3>1 DEF LInv, UndoInv
    <3>3. Vtx[a][j] \in Upto(a, i - 1)
      <4>1. a \in Chain[a] /\ j <= i - 1
        BY <1>4, <2>2, <2>3, ChainType
      <4> QED
        BY <2>2, <4>1 DEF Upto, BlocksWith
    <3>4. ASSUME NEW o, o \in Vin[Vtx[a][i]], o \in Vin[Vtx[a][j]]
          PROVE  FALSE
      <4>1. o = <<o[1], o[2]>> /\ o[1] \in Tx /\ o[2] \in CoinsAt(a, i - 1)[o[1]].vout
        BY <2>2, <3>2, <3>4, VinPoints DEF Applies, HaveInputs
      <4>2. o[2] \in UnspentAt(o[1], a, i - 1)
        BY <4>1, CoinsVout
      <4> QED
        BY <3>3, <3>4, <4>1, <4>2 DEF UnspentAt
    <3> QED
      BY <3>4
  <2>4. PICK i \in DOMAIN Vtx[a] : t = Vtx[a][i]
    BY <1>2 DEF TxsOf
  <2>5. PICK j \in DOMAIN Vtx[a] : u = Vtx[a][j]
    BY <1>3, <2>1 DEF TxsOf
  <2>6. j < i \/ i < j
    BY <2>2, <2>4, <2>5
  <2> QED
    BY <2>3, <2>4, <2>5, <2>6
<1> QED
  BY <1>5, <1>6, <1>7

\* The wallet knows the transactions of the blocks that were connected, whatever the best
\* chain is, that pay to it or spend from it.
KnownInv ==
    \A b \in Connected : \A t \in TxsOf(b) : IsMine(t) \/ Vin[t] \cap Mine # {} => t \in mapWallet

\* Where SetBestChain is with its view.
ViewPlace ==
    /\ pc = "idle" => viewBest = pindexBest
    /\ pc = "disconnect" => viewBest \in Chain[pindexBest]

\* The outputs of the wallet that the payments of a chain spend are marked.
UserMarked(b) ==
    \A t \in ChainTxs(b) : Kind[t] = "user" => Vin[t] \cap Mine \subseteq vfSpent

\* Until a stop loses blocks, payments of the best chain are marked all the time, and those
\* of the new chain as far as it is connected.
OwnInv ==
    /\ KnownInv
    /\ \A b \in nUndoPos : InOrder(b)
    /\ ViewPlace
    /\ ~fLost => UserMarked(pindexBest)
    /\ ~fLost /\ pc = "connect" => UserMarked(viewBest)

\* SetBestChain moves its view along the chains.
LEMMA ViewPlaceStep ==
  ASSUME CoinsTypeOK, ViewPlace, [LedgerNext]_ledgerVars
  PROVE  ViewPlace'
<1>1. pindexBest \in Block /\ viewBest \in Block /\ pindexNew \in Block
  BY DEF CoinsTypeOK
<1>2. pindexBest \in Chain[pindexBest]
  BY <1>1, ChainType
<1>3. CASE DisconnectBlock
  <2>1. viewBest \in Chain[pindexBest] /\ viewBest # Genesis
    BY <1>1, <1>3, RootedAssumption DEF DisconnectBlock, ViewPlace
  <2>2. Prev[viewBest] \in Chain[viewBest] /\ Chain[viewBest] \subseteq Chain[pindexBest]
    BY <1>1, <2>1, ChainUnfold, ChainType, ChainOfAncestor
  <2> QED
    BY <1>3, <2>2 DEF DisconnectBlock, ViewPlace
<1>4. CASE ~DisconnectBlock
  BY <1>2, <1>4 DEF LedgerNext, ledgerVars, viewVars, diskVars, totalVars,
     BeginSetBestChain,
      DisconnectTx, ReachFork, ConnectTx, RefuseTx, ConnectBlock, FlushView,
      LedgerRestart, NoView,
      ViewPlace
<1> QED
  BY <1>3, <1>4

\* When a block is connected the wallet marks what its transactions spend.
LEMMA ConnectMarks ==
  ASSUME SameUnits, LInv, ValuesInv, KnownInv, NEW b \in Block, ConnectBlock(b),
         NEW w, NEW q, w.tx = mapWallet, SyncedUpto(w, q, Vtx[b], Len(Vtx[b]))
  PROVE  \A t \in TxsOf(b) : MarkedIn(q, t) /\ (IsMine(t) => t \in q.tx)
<1> SUFFICES ASSUME NEW i \in DOMAIN Vtx[b]
             PROVE  MarkedIn(q, Vtx[b][i]) /\ (IsMine(Vtx[b][i]) => Vtx[b][i] \in q.tx)
  BY DEF TxsOf
<1> DEFINE t == Vtx[b][i]
<1>1. t \in Tx /\ i \in 1 .. Len(Vtx[b]) /\ i \in Int
  BY BlockAssumption
<1>2. Applies(b, i) /\ viewBest \in Connected /\ viewBest \in Block
  BY ConnectFacts
<1>3. b # Genesis /\ Prev[b] = viewBest
  BY NextBlockView DEF ConnectBlock, IsNextBlock
<1>4. Connected \in SUBSET Block /\ ClosedUnderPrev(Connected)
  BY TreeAssumption DEF LInv, CoinsTypeOK, UndoInv, Connected, ClosedUnderPrev
<1>5. IsMine(t) => t \in q.tx
  BY <1>1 DEF SyncedUpto
<1>6. CASE Vin[t] \cap Mine = {}
  BY <1>5, <1>6 DEF MarkedIn
<1>7. CASE Vin[t] \cap Mine # {}
  <2>1. Unit[t] = cUnit
    BY <1>1, <1>7, MineIsMine DEF SameUnits, AreInputsSameUnit
  <2>2. ASSUME NEW o \in Vin[t] \cap Mine
        PROVE  o[1] \in w.tx \/ \E j \in 1 .. (i - 1) : Vtx[b][j] = o[1]
    <3>1. o[1] \in Tx /\ o[2] \in CoinsAt(b, i - 1)[o[1]].vout /\ IsMine(o[1])
      BY <1>2, <2>2, MineIsMine DEF Applies, HaveInputs
    <3>2. o[1] \in Upto(b, i - 1)
      <4>1. o[2] \in UnspentAt(o[1], b, i - 1)
        BY <3>1, CoinsVout
      <4> QED
        BY <4>1 DEF UnspentAt
    <3>3. PICK a \in Chain[b] : \E j \in DOMAIN Vtx[a] : Vtx[a][j] = o[1] /\ (a = b => j <= i - 1)
      BY <3>2 DEF Upto, BlocksWith
    <3>4. PICK j \in DOMAIN Vtx[a] : Vtx[a][j] = o[1] /\ (a = b => j <= i - 1)
      BY <3>3
    <3>5. CASE a = b
      <4>1. j \in 1 .. (i - 1)
        BY <1>1, <3>4, <3>5, BlockAssumption
      <4> QED
        BY <3>4, <3>5, <4>1
    <3>6. CASE a # b
      <4>1. a \in Chain[viewBest]
        BY <1>3, <3>6, ChainUnfold
      <4>2. a \in Connected
        BY <1>2, <1>4, <4>1, ChainInClosed
      <4> QED
        BY <3>1, <3>4, <4>2 DEF KnownInv, TxsOf
    <3> QED
      BY <3>5, <3>6
  <2>3. Reaches(w, Vtx[b], i)
    BY <2>2 DEF Reaches
  <2> QED
    BY <1>1, <1>5, <2>1, <2>3 DEF SyncedUpto
<1> QED
  BY <1>6, <1>7

\* What FixSpentCoins marks: outputs that the chain spends; what it frees is unspent.
LEMMA FixedMarks ==
  ASSUME LInv, FixSpentCoins
  PROVE  /\ \A o \in vfSpent' \ vfSpent : \E t \in ChainTxs(pindexBest) : o \in Vin[t]
         /\ \A t \in ChainTxs(pindexBest) : Vin[t] \cap vfSpent \subseteq vfSpent'
<1> DEFINE B == pindexBest
           found == {o \in Mine : o[1] \in mapWallet /\ pcoinsTip[o[1]].vout # {}}
<1>1. B \in Block /\ pcoinsTip = Tip(B)
  BY DEF LInv, TipInv, CoinsTypeOK
<1>2. \A t \in Tx : pcoinsTip[t].vout = UnspentIn(t, B)
  BY <1>1, TipIsUnspent
<1>3. vfSpent' = (vfSpent \ found) \cup {o \in found : o[2] \notin pcoinsTip[o[1]].vout}
  BY DEF FixSpentCoins
<1>4. \A o \in found : o[1] \in Tx /\ o = <<o[1], o[2]>> /\ o[2] \in DOMAIN Vout[o[1]]
  BY MineIsMine
<1>5. ASSUME NEW o \in vfSpent' \ vfSpent
      PROVE  \E t \in ChainTxs(B) : o \in Vin[t]
  <2>1. o \in found /\ o[2] \notin pcoinsTip[o[1]].vout
    BY <1>3
  <2>2. UnspentIn(o[1], B) # {} /\ o[2] \notin UnspentIn(o[1], B)
    BY <1>2, <1>4, <2>1
  <2>3. o[1] \in ChainTxs(B)
    BY <2>2 DEF UnspentIn
  <2>4. \E u \in ChainTxs(B) : <<o[1], o[2]>> \in Vin[u]
    BY <1>4, <2>1, <2>2, <2>3 DEF UnspentIn
  <2> QED
    BY <1>4, <2>1, <2>4
<1>6. ASSUME NEW t \in ChainTxs(B), NEW o \in Vin[t] \cap vfSpent
      PROVE  o \in vfSpent'
  <2>1. CASE o \notin found
    BY <1>3, <2>1
  <2>2. CASE o \in found
    <3>1. o[2] \notin UnspentIn(o[1], B)
      BY <1>4, <1>6, <2>2 DEF UnspentIn
    <3> QED
      BY <1>2, <1>3, <1>4, <2>2, <3>1
  <2> QED
    BY <2>1, <2>2
<1> QED
  BY <1>5, <1>6

\* What the wallet gives back when a block is disconnected is not spent by the rest of the
\* chain.
LEMMA DisconnectKeeps ==
  ASSUME LInv, NEW b \in Connected, viewBest \in Chain[b], NEW w, NEW q,
         DisabledAll(w, q, TxsOf(viewBest)),
         NEW t \in ChainTxs(b), Kind[t] # "coinstake" \/ t \notin TxsOf(viewBest)
  PROVE  Vin[t] \cap w.spent \subseteq q.spent
<1> SUFFICES ASSUME NEW o \in Vin[t] \cap w.spent, o \notin q.spent
             PROVE  FALSE
  OBVIOUS
<1>1. PICK u \in TxsOf(viewBest) : o \in Vin[u] /\ Kind[u] = "coinstake"
  BY DEF DisabledAll
<1>2. u \in ChainTxs(b) /\ u # t
  BY <1>1 DEF ChainTxs
<1> QED
  BY <1>1, <1>2, ChainDisjoint

\* The steps of SetBestChain that the wallet does not hear of leave the tip where it is and
\* connect nothing.
LEMMA QuietLedger ==
  ASSUME CoinsTypeOK, ViewPlace,
         \/ \E t \in Tx : WalletHoldOrphanTx(t)
         \/ WalletChangeView
         \/ QuietStep
  PROVE  /\ UNCHANGED <<pindexBest, nUndoPos, nRestarts, fStarting>>
         /\ pc' = "connect" => viewBest' = viewBest /\ (pc = "connect" \/ viewBest \in Chain[pindexBest])
         /\ viewBest' = viewBest \/ ~fClean' \/ \E b \in Block : verdict'[b] \in {"invalid", "error"}
<1>0. UNCHANGED fStarting
  BY DEF WalletHoldOrphanTx, WalletChangeView, QuietStep, walletVars
<1>1. CASE UNCHANGED ledgerVars
  BY <1>0, <1>1 DEF ledgerVars, viewVars, diskVars
<1>2. CASE \E b \in Block : BeginSetBestChain(b)
  BY <1>0, <1>2 DEF BeginSetBestChain, diskVars, ViewPlace
<1>3. CASE DisconnectTx \/ ReachFork
  BY <1>0, <1>3 DEF DisconnectTx, ReachFork, NoView, diskVars, ViewPlace
<1>4. ASSUME NEW b \in Block, ConnectTx(b) \/ RefuseTx(b)
      PROVE  /\ UNCHANGED <<pindexBest, nUndoPos, nRestarts>>
             /\ pc' = "connect" => viewBest' = viewBest /\ pc = "connect"
             /\ viewBest' = viewBest \/ \E a \in Block : verdict'[a] \in {"invalid", "error"}
  <2>1. CASE ConnectTx(b)
    BY <2>1 DEF ConnectTx, diskVars
  <2>2. CASE RefuseTx(b)
    <3>1. TxVerdict(b) \in {"invalid", "error"} /\ verdict'[b] = TxVerdict(b)
      BY <2>2 DEF RefuseTx, TxVerdict, CheckInputs, CoinsTypeOK
    <3> QED
      BY <2>2, <3>1 DEF RefuseTx, NoView, diskVars
  <2> QED
    BY <1>4, <2>1, <2>2
<1>5. CASE WalletChangeView
  BY <1>0, <1>2, <1>3, <1>4, <1>5 DEF WalletChangeView
<1>6. CASE QuietStep
  BY <1>1, <1>2, <1>6 DEF QuietStep
<1>7. CASE \E t \in Tx : WalletHoldOrphanTx(t)
  BY <1>1, <1>7 DEF WalletHoldOrphanTx, HoldOrphanTx
<1> QED
  BY <1>5, <1>6, <1>7

\* Only ConnectBlock connects a block.
LEMMA NothingConnected ==
  ASSUME CoinsTypeOK, ViewPlace, NodeStep, ~ \E b \in Block : WalletConnectBlock(b)
  PROVE  UNCHANGED nUndoPos
<1>1. \A t \in Tx : WalletAcceptTx(t) \/ CommitTransaction(t) => UNCHANGED nUndoPos
  BY DEF WalletAcceptTx, AcceptTx, CommitTransaction, ledgerVars, diskVars
<1>2. FixSpentCoins \/ ReacceptWalletTransactions => UNCHANGED nUndoPos
  BY DEF FixSpentCoins, ReacceptWalletTransactions, ledgerVars, diskVars
<1>3. WalletDisconnectBlock => UNCHANGED nUndoPos
  BY DEF WalletDisconnectBlock, DisconnectBlock, diskVars
<1>4. \A d, f \in BOOLEAN : WalletSetBestChainDone(d, f) => UNCHANGED nUndoPos
  BY DEF WalletSetBestChainDone, SetBestChainDone, FlushView
<1>5. \A f \in BOOLEAN : WalletRestart(f) => UNCHANGED nUndoPos
  BY DEF WalletRestart, Restart, LedgerRestart
<1>6. (\E t \in Tx : WalletHoldOrphanTx(t)) \/ WalletChangeView \/ QuietStep
          => UNCHANGED nUndoPos
  BY QuietLedger
<1> QED
  BY <1>1, <1>2, <1>3, <1>4, <1>5, <1>6 DEF NodeStep, WalletNext

\* A step keeps what the wallet knows.
LEMMA KnownStep ==
  ASSUME SameUnits, WalletInv, OwnInv, NodeStep
  PROVE  KnownInv' /\ \A b \in nUndoPos' : InOrder(b)
<1> DEFINE w == TheWallet
           q == TheWallet'
<1>1. LInv /\ ValuesInv /\ CoinsTypeOK
  BY DEF WalletInv, TotalsInv, LInv
<1>2. w.tx = mapWallet /\ w.spent = vfSpent /\ q.tx = mapWallet' /\ q.spent = vfSpent'
  BY DEF TheWallet
<1>3. mapWallet \subseteq mapWallet' /\ WalletMoves(w, q)
  BY WalletStep
<1> HIDE DEF w, q
<1>4. CASE UNCHANGED nUndoPos
  BY <1>3, <1>4 DEF OwnInv, KnownInv, Connected
<1>5. ASSUME NEW b \in Block, WalletConnectBlock(b), SyncedUpto(w, q, Vtx[b], Len(Vtx[b]))
      PROVE  KnownInv' /\ \A a \in nUndoPos' : InOrder(a)
  <2>1. ConnectBlock(b) /\ nUndoPos' = nUndoPos \cup {b}
    BY <1>5 DEF WalletConnectBlock, ConnectBlock
  <2>2. \A t \in TxsOf(b) : MarkedIn(q, t) /\ (IsMine(t) => t \in q.tx)
    BY <1>1, <1>2, <1>5, <2>1, ConnectMarks DEF OwnInv
  <2>3. KnownInv'
    <3>1. Connected' = Connected \cup {b}
      BY <2>1 DEF Connected
    <3>2. \A t \in TxsOf(b) : IsMine(t) \/ Vin[t] \cap Mine # {} => t \in mapWallet'
      BY <1>2, <2>2 DEF MarkedIn
    <3> QED
      BY <1>3, <3>1, <3>2 DEF OwnInv, KnownInv
  <2>4. InOrder(b)
    BY <1>1, <2>1, ConnectFacts DEF InOrder
  <2> QED
    BY <2>1, <2>3, <2>4 DEF OwnInv
<1>6. ASSUME NEW b \in Block, WalletConnectBlock(b)
      PROVE  SyncedUpto(w, q, Vtx[b], Len(Vtx[b]))
  <2> DEFINE x == SyncBlock(w, b)
  <2>1. Vtx[b] \in Seq(Tx) /\ WalletOK(w)
    BY BlockAssumption DEF WalletInv, w
  <2>2. x = Loop("sync", b, w, Vtx[b])
    BY LoopsOfWallet DEF SyncBlock
  <2>3. WalletIs(x)
    BY <1>6 DEF WalletConnectBlock, w
  <2> HIDE DEF x
  <2>4. WalletOK(x) /\ SyncedUpto(w, x, Vtx[b], Len(Vtx[b]))
    BY <2>1, <2>2, SyncLoop DEF IsSeenIn, TxsOf
  <2>5. q = x
    BY <2>3, <2>4, WalletIsRecord DEF q
  <2> QED
    BY <2>4, <2>5
<1> QED
  BY <1>1, <1>4, <1>5, <1>6, NothingConnected DEF OwnInv

\* A step keeps the payments marked.
LEMMA OwnInvStep ==
  ASSUME SameUnits, WalletInv, OwnInv, NodeStep, [LedgerNext]_ledgerVars
  PROVE  OwnInv'
<1> DEFINE w == TheWallet
           q == TheWallet'
<1>1. /\ LInv /\ ValuesInv /\ CoinsTypeOK /\ pindexBest \in Connected /\ pindexBest \in Block
      /\ pindexNew \in Block /\ viewBest \in Block
  BY DEF WalletInv, TotalsInv, LInv, TipInv, CoinsTypeOK
<1>2. w.tx = mapWallet /\ w.spent = vfSpent /\ q.tx = mapWallet' /\ q.spent = vfSpent'
  BY DEF TheWallet
<1>3. WalletOK(q) /\ mapWallet \subseteq mapWallet' /\ WalletMoves(w, q)
  BY WalletStep
<1>4. ViewPlace' /\ KnownInv' /\ (\A b \in nUndoPos : InOrder(b))'
  BY <1>1, ViewPlaceStep, KnownStep DEF OwnInv, InOrder, VerdictAt, VerdictOn
<1> SUFFICES ASSUME ~fLost'
             PROVE  UserMarked(pindexBest)' /\ (pc = "connect" => UserMarked(viewBest))'
  BY <1>4 DEF OwnInv
<1>5. /\ UserMarked(pindexBest) /\ (pc = "connect" => UserMarked(viewBest))
      /\ \A f \in BOOLEAN : WalletRestart(f) => UNCHANGED pindexBest
  <2>1. ~fLost
    BY DEF NodeStep, QuietStep, WalletNext, WalletAcceptTx, WalletHoldOrphanTx,
       CommitTransaction, FixSpentCoins, WalletChangeView, WalletDisconnectBlock,
       WalletConnectBlock, WalletSetBestChainDone, ReacceptWalletTransactions,
       WalletRestart,
       walletVars
  <2>2. \A f \in BOOLEAN : WalletRestart(f) => UNCHANGED pindexBest
    BY DEF WalletRestart
  <2> QED
    BY <2>1, <2>2 DEF OwnInv
<1> HIDE DEF w, q
<1>6. ASSUME NEW b, UserMarked(b), vfSpent \subseteq vfSpent'
      PROVE  \A t \in ChainTxs(b) : Kind[t] = "user" => Vin[t] \cap Mine \subseteq vfSpent'
  BY <1>6 DEF UserMarked
<1>7. CASE UNCHANGED ledgerVars /\ vfSpent \subseteq vfSpent'
  <2>1. UNCHANGED <<nUndoPos, pindexBest, viewBest, pc>>
    BY <1>7 DEF ledgerVars, viewVars, diskVars
  <2>2. UserMarked(pindexBest)'
    BY <1>5, <1>6, <1>7, <2>1 DEF UserMarked
  <2>3. (pc = "connect" => UserMarked(viewBest))'
    BY <1>5, <1>6, <1>7, <2>1 DEF UserMarked
  <2> QED
    BY <2>1, <2>2, <2>3
<1>8. CASE FixSpentCoins
  <2>1. UNCHANGED <<nUndoPos, pindexBest, pc>> /\ pc = "idle"
    BY <1>8 DEF FixSpentCoins, ledgerVars, diskVars
  <2>2. UserMarked(pindexBest)'
    BY <1>1, <1>5, <1>8, <2>1, FixedMarks DEF UserMarked
  <2> QED
    BY <2>1, <2>2
<1>9. CASE WalletDisconnectBlock /\ DisabledAll(w, q, TxsOf(viewBest))
  <2>1. /\ UNCHANGED <<nUndoPos, pindexBest, pc>> /\ pc = "disconnect"
        /\ viewBest \in Chain[pindexBest]
    BY <1>9 DEF WalletDisconnectBlock, DisconnectBlock, diskVars, OwnInv, ViewPlace
  <2>2. \A t \in ChainTxs(pindexBest) : Kind[t] # "coinstake" => Vin[t] \cap w.spent \subseteq q.spent
    BY <1>1, <1>9, <2>1, DisconnectKeeps
  <2>3. UserMarked(pindexBest)'
    BY <1>2, <1>5, <2>1, <2>2 DEF UserMarked
  <2> QED
    BY <2>1, <2>3
<1>10. ASSUME NEW b \in Block, WalletConnectBlock(b), SyncedUpto(w, q, Vtx[b], Len(Vtx[b]))
       PROVE  UserMarked(pindexBest)' /\ (pc = "connect" => UserMarked(viewBest))'
  <2>1. ConnectBlock(b)
    BY <1>10 DEF WalletConnectBlock
  <2>2. /\ UNCHANGED <<pindexBest, pc>> /\ pc = "connect" /\ viewBest' = b
        /\ nUndoPos' = nUndoPos \cup {b} /\ Prev[b] = viewBest
    BY <2>1 DEF ConnectBlock, IsNextBlock
  <2>3. \A t \in TxsOf(b) : MarkedIn(q, t) /\ (IsMine(t) => t \in q.tx)
    BY <1>1, <1>2, <1>10, <2>1, ConnectMarks DEF OwnInv
  <2>4. vfSpent \subseteq vfSpent'
    BY <1>2, <1>10 DEF SyncedUpto
  <2>5. UserMarked(pindexBest)'
    BY <1>5, <1>6, <2>2, <2>4 DEF UserMarked
  <2>6. ChainTxs(b) = TxsOf(b) \cup ChainTxs(viewBest)
    <3>1. b # Genesis
      BY <1>1, <2>1, NextBlockView DEF ConnectBlock
    <3>2. Chain[b] = {b} \cup Chain[viewBest]
      BY <2>2, <3>1, ChainUnfold
    <3> QED
      BY <3>2 DEF ChainTxs
  <2>7. UserMarked(viewBest)'
    <3>1. \A t \in ChainTxs(viewBest) : Kind[t] = "user" => Vin[t] \cap Mine \subseteq vfSpent'
      BY <1>5, <1>6, <2>2, <2>4
    <3>2. \A t \in TxsOf(b) : Vin[t] \cap Mine \subseteq vfSpent'
      BY <1>2, <2>3 DEF MarkedIn
    <3> QED
      BY <2>2, <2>6, <3>1, <3>2 DEF UserMarked
  <2> QED
    BY <2>2, <2>5, <2>7
<1>11. ASSUME NEW d \in BOOLEAN, NEW f \in BOOLEAN, WalletSetBestChainDone(d, f),
              vfSpent \subseteq vfSpent'
       PROVE  UserMarked(pindexBest)' /\ (pc = "connect" => UserMarked(viewBest))'
  <2>1. /\ UNCHANGED nUndoPos /\ pc = "connect" /\ pc' = "idle" /\ pindexBest' = pindexNew
        /\ viewBest = pindexNew
    BY <1>11 DEF WalletSetBestChainDone, SetBestChainDone, FlushView, NoView, diskVars
  <2>2. UserMarked(pindexBest)'
    BY <1>5, <1>6, <1>11, <2>1 DEF UserMarked
  <2> QED
    BY <2>1, <2>2
<1>12. ASSUME NEW f \in BOOLEAN, WalletRestart(f), vfSpent \subseteq vfSpent'
       PROVE  UserMarked(pindexBest)' /\ (pc = "connect" => UserMarked(viewBest))'
  <2>1. UNCHANGED pindexBest /\ pc' = "idle"
    BY <1>5, <1>12 DEF WalletRestart, Restart, LedgerRestart, NoView
  <2>2. UserMarked(pindexBest)'
    BY <1>5, <1>6, <1>12, <2>1 DEF UserMarked
  <2> QED
    BY <2>1, <2>2
<1>13. CASE /\ vfSpent' = vfSpent
            /\ \/ \E t \in Tx : WalletHoldOrphanTx(t)
               \/ WalletChangeView
               \/ QuietStep
  <2>1. /\ UNCHANGED <<pindexBest, nUndoPos>>
        /\ pc' = "connect" => /\ viewBest' = viewBest
                              /\ pc = "connect" \/ viewBest \in Chain[pindexBest]
    BY <1>1, <1>13, QuietLedger DEF OwnInv
  <2>2. UserMarked(pindexBest)'
    BY <1>5, <1>13, <2>1 DEF UserMarked
  <2>3. ASSUME pc' = "connect" PROVE UserMarked(viewBest)'
    <3>1. viewBest \in Chain[pindexBest] => ChainTxs(viewBest) \subseteq ChainTxs(pindexBest)
      BY <1>1, ChainOfAncestor DEF ChainTxs
    <3>2. UserMarked(viewBest)
      BY <1>5, <2>1, <2>3, <3>1 DEF UserMarked
    <3> QED
      BY <1>13, <2>1, <2>3, <3>2 DEF UserMarked
  <2> QED
    BY <2>1, <2>2, <2>3
<1>14. CASE \E t \in Tx : WalletAcceptTx(t) /\ Synced(w, q, t)
  BY <1>2, <1>7, <1>14 DEF WalletAcceptTx, AcceptTx, Synced
<1>15. CASE \E t \in Tx : CommitTransaction(t) /\ q.spent = w.spent \cup OwnInputs(w, t)
  BY <1>2, <1>7, <1>15 DEF CommitTransaction
<1>16. CASE ReacceptWalletTransactions /\ w.spent \subseteq q.spent
  BY <1>2, <1>7, <1>16 DEF ReacceptWalletTransactions
<1>17. CASE \E d, f \in BOOLEAN :
               /\ WalletSetBestChainDone(d, f)
               /\ Heard(w, q, Elements(vResurrect) \cap PoolResurrected(f).tx)
  BY <1>2, <1>11, <1>17 DEF Heard
<1> QED
  BY <1>2, <1>3, <1>8, <1>9, <1>10, <1>12, <1>13, <1>14, <1>15, <1>16, <1>17 DEF WalletMoves

\* An empty wallet knows all of an empty chain.
LEMMA OwnInvInit ==
  ASSUME WalletInit
  PROVE  OwnInv
<1>1. /\ nUndoPos = {} /\ pindexBest = Genesis /\ viewBest = Genesis /\ pc = "idle"
  BY DEF WalletInit, Init, LedgerInit
<1>2. TxsOf(Genesis) = {} /\ ChainTxs(Genesis) = {}
  BY BlockAssumption, ChainOfGenesis DEF ChainTxs, TxsOf
<1> QED
  BY <1>1, <1>2 DEF OwnInv, KnownInv, Connected, ViewPlace, UserMarked

\* The blocks below a connected one were connected.
LEMMA ConnectedChain ==
  ASSUME LInv, NEW b \in Connected, NEW a \in Chain[b]
  PROVE  a \in Connected /\ a \in Block /\ b \in Block
<1>1. Connected \in SUBSET Block /\ ClosedUnderPrev(Connected)
  BY TreeAssumption DEF LInv, CoinsTypeOK, UndoInv, Connected, ClosedUnderPrev
<1> QED
  BY <1>1, ChainInClosed

\* The wallet knows each transaction of the best chain that pays to it or spends from it,
\* and has marked what its payments spend, through reorganisations, refused blocks, repairs
\* and stops, until a stop loses blocks.
THEOREM WalletKnowsItsOwn ==
  ASSUME SameUnits
  PROVE  MinterSpec => []OwnTransactionsKnown
<1>1. MinterInit => OwnInv
  BY OwnInvInit DEF MinterInit
<1>2. WalletInv /\ MintInv /\ OwnInv /\ [MinterNext]_minterVars => OwnInv'
  BY MinterStepIsNodeStep, OwnInvStep
<1>3. WalletInv /\ OwnInv => OwnTransactionsKnown
  <2> SUFFICES ASSUME WalletInv, OwnInv, NEW t \in ChainTxs(pindexBest)
               PROVE  /\ IsMine(t) => t \in mapWallet
                      /\ ~fLost /\ Kind[t] = "user" => Vin[t] \cap Mine \subseteq vfSpent
    BY DEF OwnTransactionsKnown
  <2>1. pindexBest \in Connected
    BY DEF WalletInv, TotalsInv, LInv, TipInv
  <2>2. PICK a \in Chain[pindexBest] : t \in TxsOf(a)
    BY DEF ChainTxs
  <2>3. a \in Connected
    BY <2>1, ConnectedChain DEF WalletInv, TotalsInv
  <2> QED
    BY <2>2, <2>3 DEF OwnInv, KnownInv, UserMarked
<1> QED
  BY <1>1, <1>2, <1>3, WalletInvHolds, PTL DEF MinterSpec

--------------------------------------------------------------------------------
\* The marks, as long as nothing is refused and the node does not stop.

\* Marked outputs are spent in a chain, or by a payment that the wallet knows.
MarksIn(b) ==
    \A o \in vfSpent :
        \E t \in ChainTxs(b) \cup {u \in mapWallet : Kind[u] = "user"} : o \in Vin[t]

\* What a chain spends is marked.
ChainMarked(b) == \A t \in ChainTxs(b) : Vin[t] \cap Mine \subseteq vfSpent

ExactInv ==
    ~SomeRefused /\ nRestarts = 0 =>
        /\ ~fStarting
        /\ ChainMarked(viewBest)
        /\ MarksIn(viewBest)

\* An unpark transaction that passes spends nothing of the wallet: its input is parked.
LEMMA UnparkSpendsParked ==
  ASSUME NEW t \in Tx, Kind[t] = "unpark", NEW c, NEW b, NEW f,
         CheckInputs(t, c, b, f) = "ok"
  PROVE  Vin[t] \cap Mine = {}
<1>1. IsValidUnpark(t, c, b)
  BY DEF CheckInputs
<1>2. \A o \in Vin[t] : IsParked(o)
  BY <1>1 DEF IsValidUnpark
<1> QED
  BY <1>2, MineIsMine

\* A transaction of a block in order that spends from the wallet is a payment or a
\* coinstake, in shares.
LEMMA SpendersInBlock ==
  ASSUME NEW b \in Block, InOrder(b), NEW t \in TxsOf(b), Vin[t] \cap Mine # {}
  PROVE  Kind[t] = "user" \/ (Kind[t] = "coinstake" /\ Unit[t] = cUnit)
<1>1. PICK i \in DOMAIN Vtx[b] : t = Vtx[b][i]
  BY DEF TxsOf
<1>2. t \in Tx /\ t \notin Minted /\ 1 \in DOMAIN Vtx[b]
  <2>1. t \in Tx /\ 1 \in DOMAIN Vtx[b]
    BY <1>1, BlockAssumption
  <2> QED
    BY <2>1, TxAssumption
<1>3. CheckTransaction(t)
  <2>1. VerdictOn(b, 1, CoinsAt(b, 0)) = "ok"
    BY <1>2 DEF InOrder, VerdictAt
  <2>2. ~Malformed(b, CoinsAt(b, 0))
    BY <2>1 DEF VerdictOn
  <2> QED
    BY <1>1, <2>2 DEF Malformed
<1>4. ASSUME Kind[t] = "unpark" PROVE FALSE
  <2>1. CheckInputs(t, CoinsAt(b, i - 1), Prev[b], HasScriptChecks(b)) = "ok"
    BY <1>1, <1>2 DEF InOrder, VerdictAt, VerdictOn
  <2> QED
    BY <1>2, <1>4, <2>1, UnparkSpendsParked
<1> QED
  BY <1>2, <1>3, <1>4, TxAssumption DEF CheckTransaction, Minted, cUnit

\* What goes back to the pool and is marked in the wallet are payments.
LEMMA BackArePayments ==
  ASSUME WalletInv, OwnInv, NEW f,
         NEW t \in Elements(vResurrect) \cap PoolResurrected(f).tx, Vin[t] \cap Mine # {}
  PROVE  Kind[t] = "user"
<1>1. LInv /\ PoolOK(Pool) /\ pindexBest \in Block /\ pindexNew \in Block /\ pindexBest \in Connected
  BY DEF WalletInv, TotalsInv, LInv, TipInv, CoinsTypeOK
<1>2. Kind[t] \in {"user", "unpark"}
  BY <1>1, LoopsKeepMaps DEF PoolOK
<1>3. PICK a \in Chain[pindexBest] : t \in TxsOf(a)
  <2>1. Elements(vResurrect) =
            UNION {TxsOf(a) : a \in Chain[pindexBest] \ (Chain[pindexNew] \cup Checkpointed)}
    BY <1>1, ListsOfSetBestChain
  <2> QED
    BY <2>1
<1>4. a \in Connected /\ a \in Block
  BY <1>1, ConnectedChain
<1>5. a \in nUndoPos
  BY <1>3, <1>4, BlockAssumption DEF Connected, TxsOf
<1>6. Kind[t] = "user" \/ (Kind[t] = "coinstake" /\ Unit[t] = cUnit)
  BY <1>3, <1>4, <1>5, SpendersInBlock DEF OwnInv
<1> QED
  BY <1>2, <1>6

\* A node that did not stop so far has not stopped before.
LEMMA NoStop ==
  ASSUME LInv, [LedgerNext]_ledgerVars, nRestarts' = 0
  PROVE  nRestarts = 0 /\ \A f \in BOOLEAN : ~LedgerRestart(f)
<1>1. nRestarts \in Nat
  BY LedgerRestartAssumption DEF LInv, CoinsTypeOK
<1>2. \A f \in BOOLEAN : ~LedgerRestart(f)
  BY <1>1 DEF LedgerRestart
<1>3. nRestarts' = nRestarts
  BY <1>2, OtherSteps DEF ConnectBlock
<1> QED
  BY <1>2, <1>3

\* A step keeps the marks those of the chain.
LEMMA ExactInvStep ==
  ASSUME SameUnits, WalletInv, OwnInv, ExactInv, NodeStep, [LedgerNext]_ledgerVars, WalletInv'
  PROVE  ExactInv'
<1> SUFFICES ASSUME ~SomeRefused', nRestarts' = 0
             PROVE  ~fStarting' /\ ChainMarked(viewBest)' /\ MarksIn(viewBest)'
  BY DEF ExactInv
<1> DEFINE w == TheWallet
           q == TheWallet'
<1>1. /\ LInv /\ ValuesInv /\ CoinsTypeOK /\ pindexBest \in Connected /\ pindexBest \in Block
      /\ viewBest \in Connected /\ viewBest \in Block /\ nRestarts \in Nat
  <2>1. LInv /\ ValuesInv /\ CoinsTypeOK
    BY DEF WalletInv, TotalsInv, LInv
  <2>2. pindexBest \in Connected /\ viewBest \in Connected
    BY <2>1 DEF LInv, TipInv, ViewInv
  <2>3. pindexBest \in Block /\ viewBest \in Block /\ nRestarts \in Nat
    BY <2>1, LedgerRestartAssumption DEF CoinsTypeOK
  <2> QED
    BY <2>1, <2>2, <2>3
<1>2. w.tx = mapWallet /\ w.spent = vfSpent /\ q.tx = mapWallet' /\ q.spent = vfSpent'
  BY DEF TheWallet
<1>3. WalletOK(w) /\ WalletOK(q) /\ mapWallet \subseteq mapWallet' /\ WalletMoves(w, q)
  BY WalletStep DEF WalletInv
<1>4. vfSpent \subseteq Mine /\ vfSpent' \subseteq Mine
  BY <1>2, <1>3 DEF WalletOK, WalletType
<1>5. nRestarts = 0 /\ \A f \in BOOLEAN : ~LedgerRestart(f)
  BY <1>1, NoStop
<1>6. ~SomeRefused
  BY <1>1, VerdictsKept DEF SomeRefused
<1>7. ~fStarting /\ ChainMarked(viewBest) /\ MarksIn(viewBest)
  BY <1>5, <1>6 DEF ExactInv
<1>8. ViewPlace /\ fClean'
  BY DEF OwnInv, WalletInv, TotalsInv, LInv
<1> HIDE DEF w, q
<1>9. ASSUME ~fStarting', viewBest' = viewBest, vfSpent \subseteq vfSpent',
             \A o \in vfSpent' \ vfSpent : \E t \in mapWallet' : Kind[t] = "user" /\ o \in Vin[t]
      PROVE  ~fStarting' /\ ChainMarked(viewBest)' /\ MarksIn(viewBest)'
  <2>1. ChainMarked(viewBest)'
    BY <1>7, <1>9 DEF ChainMarked
  <2>2. ASSUME NEW o \in vfSpent'
        PROVE  \E t \in ChainTxs(viewBest) \cup {u \in mapWallet' : Kind[u] = "user"} : o \in Vin[t]
    BY <1>3, <1>7, <1>9 DEF MarksIn
  <2>3. MarksIn(viewBest)'
    BY <1>9, <2>2 DEF MarksIn
  <2> QED
    BY <1>9, <2>1, <2>3
<1>10. ASSUME NEW t \in Tx, WalletAcceptTx(t), Synced(w, q, t)
       PROVE  ~fStarting' /\ ChainMarked(viewBest)' /\ MarksIn(viewBest)'
  <2>1. fStarting' = fStarting /\ viewBest' = viewBest /\ Kind[t] \in {"user", "unpark"}
        /\ CheckInputs(t, PoolView(Pool, pcoinsTip), pindexBest, TRUE) = "ok"
    BY <1>10 DEF WalletAcceptTx, AcceptTx, IsAcceptable, IsOffered, ledgerVars, viewVars
  <2>2. vfSpent \subseteq vfSpent'
    BY <1>2, <1>10 DEF Synced
  <2>3. ASSUME NEW o \in vfSpent' \ vfSpent
        PROVE  Kind[t] = "user" /\ o \in Vin[t] /\ t \in mapWallet'
    <3>1. o \in Vin[t] /\ t \in mapWallet' /\ o \in Mine
      BY <1>2, <1>4, <1>10 DEF Synced
    <3> QED
      BY <2>1, <3>1, UnparkSpendsParked
  <2> QED
    BY <1>7, <1>9, <2>1, <2>2, <2>3
<1>11. ASSUME NEW t \in Tx, CommitTransaction(t), q.tx = w.tx \cup {t},
              q.spent = w.spent \cup OwnInputs(w, t)
       PROVE  ~fStarting' /\ ChainMarked(viewBest)' /\ MarksIn(viewBest)'
  <2>1. fStarting' = fStarting /\ viewBest' = viewBest /\ Kind[t] = "user"
    BY <1>11 DEF CommitTransaction, ledgerVars, viewVars
  <2>2. \A o \in vfSpent' \ vfSpent : o \in Vin[t] /\ t \in mapWallet'
    BY <1>2, <1>11 DEF OwnInputs
  <2> QED
    BY <1>2, <1>7, <1>9, <1>11, <2>1, <2>2
<1>12. CASE FixSpentCoins
  <2>1. fStarting' = fStarting /\ viewBest' = viewBest /\ viewBest = pindexBest /\ mapWallet' = mapWallet
    BY <1>8, <1>12 DEF FixSpentCoins, ledgerVars, viewVars, ViewPlace
  <2>2. ChainMarked(viewBest)'
    BY <1>1, <1>7, <1>12, <2>1, FixedMarks DEF ChainMarked
  <2>3. \A o \in vfSpent' \ vfSpent : \E t \in ChainTxs(viewBest) : o \in Vin[t]
    BY <1>1, <1>12, <2>1, FixedMarks
  <2>4. MarksIn(viewBest)'
    BY <1>7, <2>1, <2>3 DEF MarksIn
  <2> QED
    BY <1>7, <2>1, <2>2, <2>4
<1>13. CASE WalletDisconnectBlock /\ DisabledAll(w, q, TxsOf(viewBest))
  <2> DEFINE low == Prev[viewBest]
  <2>1. /\ fStarting' = fStarting /\ viewBest' = low /\ viewBest \notin Chain[pindexNew]
        /\ pindexNew \in Block
    BY <1>1, <1>13 DEF WalletDisconnectBlock, DisconnectBlock, CoinsTypeOK
  <2>2. viewBest # Genesis
    BY <2>1, RootedAssumption
  <2>3. Chain[viewBest] = {viewBest} \cup Chain[low] /\ viewBest \notin Chain[low]
    BY <1>1, <2>2, ChainUnfold, NotOwnAncestor
  <2>4. ChainTxs(viewBest) = TxsOf(viewBest) \cup ChainTxs(low)
    BY <2>3 DEF ChainTxs
  <2>5. viewBest \in nUndoPos
    BY <1>1, <2>2 DEF Connected
  <2>6. \A t \in ChainTxs(low) : t \notin TxsOf(viewBest)
    <3> SUFFICES ASSUME NEW a \in Chain[low], NEW t \in TxsOf(a)
                 PROVE  t \notin TxsOf(viewBest)
      BY DEF ChainTxs
    <3>1. a \in Chain[viewBest] /\ viewBest \in Chain[viewBest] /\ low \in Block
      BY <1>1, <2>2, <2>3, ChainUnfold
    <3>2. viewBest \notin Chain[a]
      BY <2>3, <3>1, ChainOfAncestor
    <3> QED
      BY <1>1, <3>1, <3>2, BlocksForeign
  <2>7. \A t \in ChainTxs(low) : Vin[t] \cap vfSpent \subseteq vfSpent'
    BY <1>1, <1>2, <1>13, <2>3, <2>4, <2>6, DisconnectKeeps
  <2>8. ChainMarked(viewBest)'
    BY <1>7, <2>1, <2>4, <2>7 DEF ChainMarked
  <2>9. ASSUME NEW o \in vfSpent'
        PROVE  \E t \in ChainTxs(low) \cup {u \in mapWallet' : Kind[u] = "user"} : o \in Vin[t]
    <3>1. o \in vfSpent /\ mapWallet' = mapWallet
      BY <1>2, <1>13 DEF DisabledAll
    <3>2. PICK t \in ChainTxs(viewBest) \cup {u \in mapWallet : Kind[u] = "user"} : o \in Vin[t]
      BY <1>7, <3>1 DEF MarksIn
    <3>3. CASE t \in TxsOf(viewBest)
      <4>1. Vin[t] \cap Mine # {}
        BY <1>4, <3>2
      <4>2. Kind[t] = "user" \/ (Kind[t] = "coinstake" /\ Unit[t] = cUnit)
        BY <1>1, <2>5, <3>3, <4>1, SpendersInBlock DEF OwnInv
      <4>3. ~(Kind[t] = "coinstake" /\ Unit[t] = cUnit)
        BY <1>2, <1>13, <3>2, <3>3 DEF DisabledAll
      <4>4. t \in mapWallet
        BY <1>1, <3>3, <4>1 DEF OwnInv, KnownInv
      <4> QED
        BY <3>1, <3>2, <4>2, <4>3, <4>4
    <3> QED
      BY <2>4, <3>1, <3>2, <3>3
  <2>10. MarksIn(viewBest)'
    BY <2>1, <2>9 DEF MarksIn
  <2> QED
    BY <1>7, <2>1, <2>8, <2>10
<1>14. ASSUME NEW b \in Block, WalletConnectBlock(b), SyncedUpto(w, q, Vtx[b], Len(Vtx[b]))
       PROVE  ~fStarting' /\ ChainMarked(viewBest)' /\ MarksIn(viewBest)'
  <2>1. ConnectBlock(b) /\ fStarting' = fStarting
    BY <1>14 DEF WalletConnectBlock
  <2>2. viewBest' = b /\ Prev[b] = viewBest
    BY <2>1 DEF ConnectBlock, IsNextBlock
  <2>3. \A t \in TxsOf(b) : MarkedIn(q, t)
    BY <1>1, <1>2, <1>14, <2>1, ConnectMarks DEF OwnInv
  <2>4. ChainTxs(b) = TxsOf(b) \cup ChainTxs(viewBest)
    <3>1. b # Genesis
      BY <1>1, <2>1, NextBlockView DEF ConnectBlock
    <3>2. Chain[b] = {b} \cup Chain[viewBest]
      BY <2>2, <3>1, ChainUnfold
    <3> QED
      BY <3>2 DEF ChainTxs
  <2>5. vfSpent \subseteq vfSpent'
    BY <1>2, <1>14 DEF SyncedUpto
  <2>6. ChainMarked(viewBest)'
    BY <1>2, <1>7, <2>2, <2>3, <2>4, <2>5 DEF ChainMarked, MarkedIn
  <2>7. ASSUME NEW o \in vfSpent'
        PROVE  \E t \in ChainTxs(b) \cup {u \in mapWallet' : Kind[u] = "user"} : o \in Vin[t]
    <3>1. CASE o \in vfSpent
      BY <1>3, <1>7, <2>4, <3>1 DEF MarksIn
    <3>2. CASE o \notin vfSpent
      <4>1. PICK i \in 1 .. Len(Vtx[b]) : o \in Vin[Vtx[b][i]]
        BY <1>2, <1>14, <3>2 DEF SyncedUpto
      <4>2. Vtx[b][i] \in TxsOf(b)
        BY BlockAssumption DEF TxsOf
      <4> QED
        BY <2>4, <4>1, <4>2
    <3> QED
      BY <3>1, <3>2
  <2>8. MarksIn(viewBest)'
    BY <2>2, <2>7 DEF MarksIn
  <2> QED
    BY <1>7, <2>1, <2>6, <2>8
<1>15. ASSUME NEW d \in BOOLEAN, NEW f \in BOOLEAN, WalletSetBestChainDone(d, f),
              Heard(w, q, Elements(vResurrect) \cap PoolResurrected(f).tx)
       PROVE  ~fStarting' /\ ChainMarked(viewBest)' /\ MarksIn(viewBest)'
  <2>1. viewBest' = viewBest /\ fStarting' = fStarting
    BY <1>15 DEF WalletSetBestChainDone, SetBestChainDone, FlushView, NoView
  <2>2. vfSpent \subseteq vfSpent'
    BY <1>2, <1>15 DEF Heard
  <2>3. ASSUME NEW o \in vfSpent' \ vfSpent
        PROVE  \E t \in mapWallet' : Kind[t] = "user" /\ o \in Vin[t]
    <3>1. PICK t \in Elements(vResurrect) \cap PoolResurrected(f).tx : o \in Vin[t] /\ t \in mapWallet'
      BY <1>2, <1>15 DEF Heard
    <3>2. Vin[t] \cap Mine # {}
      BY <1>4, <3>1
    <3> QED
      BY <3>1, <3>2, BackArePayments
  <2> QED
    BY <1>7, <1>9, <2>1, <2>2, <2>3
<1>16. CASE ReacceptWalletTransactions \/ \E f \in BOOLEAN : WalletRestart(f)
  BY <1>5, <1>7, <1>16 DEF ReacceptWalletTransactions, WalletRestart, Restart
<1>17. CASE /\ vfSpent' = vfSpent
            /\ \/ \E t \in Tx : WalletHoldOrphanTx(t)
               \/ WalletChangeView
               \/ QuietStep
  <2>1. fStarting' = fStarting /\ viewBest' = viewBest
    BY <1>1, <1>8, <1>17, QuietLedger DEF SomeRefused
  <2> QED
    BY <1>7, <1>9, <1>17, <2>1
<1> QED
  BY <1>2, <1>3, <1>10, <1>11, <1>12, <1>13, <1>14, <1>15, <1>16, <1>17 DEF WalletMoves

\* Nothing is marked in an empty wallet.
LEMMA ExactInvInit ==
  ASSUME WalletInit
  PROVE  ExactInv
<1>1. ChainTxs(Genesis) = {}
  BY BlockAssumption, ChainOfGenesis DEF ChainTxs, TxsOf
<1> QED
  BY <1>1 DEF WalletInit, Init, LedgerInit, ExactInv, ChainMarked, MarksIn

\* As long as no block is refused and the node does not stop, the marks are those of the
\* best chain and of payments that the wallet knows: the stake of a block that was
\* disconnected is free again.
THEOREM MarksAreThoseOfTheChain ==
  ASSUME SameUnits
  PROVE  MinterSpec => []MarksFollowChain
<1>1. MinterInit => OwnInv /\ ExactInv
  BY OwnInvInit, ExactInvInit DEF MinterInit
<1>2. WalletInv /\ MintInv /\ OwnInv /\ ExactInv /\ [MinterNext]_minterVars /\ WalletInv'
        => OwnInv' /\ ExactInv'
  BY MinterStepIsNodeStep, OwnInvStep, ExactInvStep
<1>3. OwnInv /\ ExactInv => MarksFollowChain
  <2> SUFFICES ASSUME OwnInv, ExactInv, pc = "idle", ~SomeRefused, nRestarts = 0, NEW o \in Mine
               PROVE  /\ (\E t \in ChainTxs(pindexBest) : o \in Vin[t]) => o \in vfSpent
                      /\ o \in vfSpent =>
                            \E t \in ChainTxs(pindexBest) \cup {u \in mapWallet : Kind[u] = "user"} :
                                o \in Vin[t]
    BY DEF MarksFollowChain
  <2>1. viewBest = pindexBest /\ ChainMarked(viewBest) /\ MarksIn(viewBest)
    BY DEF OwnInv, ViewPlace, ExactInv
  <2> QED
    BY <2>1 DEF ChainMarked, MarksIn
<1> QED
  BY <1>1, <1>2, <1>3, WalletInvHolds, PTL DEF MinterSpec

--------------------------------------------------------------------------------
\* The minter's coinstake.

\* Until the node stops, the stored successors are those of the best chain.
LinksFit ==
    nRestarts = 0 =>
        \A a \in Block : pnext[a] # Null =>
            pnext[a] \in Chain[pindexBest] /\ Prev[pnext[a]] = a

\* A step keeps them so.
LEMMA LinksFitStep ==
  ASSUME WalletInv, OwnInv, LinksFit, NodeStep, [LedgerNext]_ledgerVars
  PROVE  LinksFit'
<1> SUFFICES ASSUME nRestarts' = 0, NEW a \in Block, pnext'[a] # Null
             PROVE  pnext'[a] \in Chain[pindexBest'] /\ Prev[pnext'[a]] = a
  BY DEF LinksFit
<1>1. LInv /\ CoinsTypeOK /\ ViewPlace
  BY DEF WalletInv, TotalsInv, LInv, OwnInv
<1>2. nRestarts = 0 /\ \A f \in BOOLEAN : ~WalletRestart(f)
  BY <1>1, NoStop DEF WalletRestart, Restart
<1>3. CASE UNCHANGED <<pnext, pindexBest>>
  BY <1>2, <1>3 DEF LinksFit
<1>4. ASSUME NEW d \in BOOLEAN, NEW f \in BOOLEAN, WalletSetBestChainDone(d, f)
      PROVE  pnext'[a] \in Chain[pindexBest'] /\ Prev[pnext'[a]] = a
  <2>1. pnext' = Relinked /\ pindexBest' = pindexNew
    BY <1>4 DEF WalletSetBestChainDone, SetBestChainDone, FlushView
  <2>2. CASE \E b \in vConnect : Prev[b] = a
    <3>1. pnext'[a] = CHOOSE b \in vConnect : Prev[b] = a
      BY <2>1, <2>2 DEF Relinked
    <3>2. pnext'[a] \in vConnect /\ Prev[pnext'[a]] = a
      BY <2>2, <3>1
    <3> QED
      BY <2>1, <3>2 DEF vConnect
  <2>3. CASE ~ \E b \in vConnect : Prev[b] = a
    <3>1. ~(\E b \in vDisconnect : Prev[b] = a) /\ pnext'[a] = pnext[a]
      BY <2>1, <2>3 DEF Relinked
    <3>2. pnext[a] \in Chain[pindexBest] /\ Prev[pnext[a]] = a
      BY <1>2, <3>1 DEF LinksFit
    <3> QED
      BY <2>1, <3>1, <3>2 DEF vDisconnect
  <2> QED
    BY <2>2, <2>3
<1>5. \A t \in Tx : WalletAcceptTx(t) \/ CommitTransaction(t) => UNCHANGED <<pnext, pindexBest>>
  BY DEF WalletAcceptTx, AcceptTx, CommitTransaction, ledgerVars
<1>6. FixSpentCoins \/ ReacceptWalletTransactions => UNCHANGED <<pnext, pindexBest>>
  BY DEF FixSpentCoins, ReacceptWalletTransactions, ledgerVars
<1>7. WalletDisconnectBlock => UNCHANGED <<pnext, pindexBest>>
  BY DEF WalletDisconnectBlock, DisconnectBlock
<1>8. \A b \in Block : WalletConnectBlock(b) => UNCHANGED <<pnext, pindexBest>>
  BY DEF WalletConnectBlock, ConnectBlock
<1>9. (\E t \in Tx : WalletHoldOrphanTx(t)) \/ WalletChangeView \/ QuietStep
          => UNCHANGED <<pnext, pindexBest>>
  BY <1>1, QuietLedger DEF WalletHoldOrphanTx, WalletChangeView, QuietStep, walletVars
<1> QED
  BY <1>2, <1>3, <1>4, <1>5, <1>6, <1>7, <1>8, <1>9 DEF NodeStep, WalletNext

\* Until then what is in the main chain is in the best chain.
LEMMA MainIsBest ==
  ASSUME LinksFit, nRestarts = 0, pindexBest \in Block, NEW b \in Block, IsInMainChain(b)
  PROVE  b \in Chain[pindexBest]
<1>1. CASE b = pindexBest
  BY <1>1, ChainType
<1>2. CASE pnext[b] # Null
  <2>1. pnext[b] \in Chain[pindexBest] /\ Prev[pnext[b]] = b
    BY <1>2 DEF LinksFit
  <2>2. pnext[b] \in Block /\ Chain[pnext[b]] \subseteq Chain[pindexBest]
    BY <2>1, ChainOfAncestor
  <2>3. pnext[b] # Genesis
    BY <2>1, TreeAssumption
  <2> QED
    BY <2>1, <2>2, <2>3, ChainUnfold, ChainType
<1> QED
  BY <1>1, <1>2 DEF IsInMainChain

\* What the minter's coinstake stands on: it is well made, spends what the wallet owns and
\* the chain of b does not spend, and what it spends was minted long enough ago.
StakeOK(s, b) ==
    /\ Kind[s] = "coinstake" /\ CheckTransaction(s)
    /\ s \notin BadTime \cup BadInput /\ PaysFee(s, b)
    /\ Vin[s] \subseteq Mine
    /\ \A u \in ChainTxs(b) : Vin[u] \cap Vin[s] = {}
    /\ \A o \in Vin[s] : \A a \in Chain[b] :
          o[1] \in TxsOf(a) /\ Kind[o[1]] \in {"coinbase", "coinstake"} =>
              nHeight[b] + 1 - nHeight[a] >= Maturity[Kind[o[1]]]

\* As long as the wallet is not misled and the tip stays, it stands on that of the tip.
StakeInv ==
    mintPc \in {"stake", "grants"} /\ ~fMoved /\ ~SomeRefused /\ nRestarts = 0 =>
        StakeOK(txCoinStake, pindexBest)

\* A transaction is in one block of a chain.
LEMMA InOneBlock ==
  ASSUME LInv, NEW b \in Connected, NEW a \in Chain[b], NEW c \in Chain[b],
         NEW t, t \in TxsOf(a), t \in TxsOf(c)
  PROVE  a = c
<1>1. a \in Block /\ c \in Block
  BY ConnectedChain
<1>2. a \in Chain[c]
  BY BlocksForeign
<1>3. c \in Chain[a]
  BY BlocksForeign
<1> QED
  BY <1>1, <1>2, <1>3, ChainAntisymmetric

\* What AvailableCoins offers to the minter can be staked on the tip.
LEMMA FoundStakeOK ==
  ASSUME WalletInv, OwnInv, ExactInv, LinksFit, MintInv, ~SomeRefused, nRestarts = 0,
         ~fMoved, NEW s \in Tx, CreateCoinStake(s)
  PROVE  StakeOK(s, pindexBest)
<1> DEFINE B == pindexBest
<1>1. LInv /\ B \in Block /\ B \in Connected
  BY DEF WalletInv, TotalsInv, LInv, TipInv, CoinsTypeOK
<1>2. /\ pc = "idle" /\ IsSignedStake(s) /\ Vin[s] \subseteq AvailableCoins
      /\ pindexPrev = pindexBest
  BY DEF CreateCoinStake, MintInv
<1>3. \A o \in Vin[s] : o \in Mine /\ o \notin vfSpent /\ IsMatureInWallet(o[1])
  BY <1>2 DEF AvailableCoins
<1>4. ChainMarked(B)
  BY <1>2 DEF ExactInv, OwnInv, ViewPlace
<1>5. \A u \in ChainTxs(B) : Vin[u] \cap Vin[s] = {}
  BY <1>3, <1>4 DEF ChainMarked
<1>6. ASSUME NEW o \in Vin[s], NEW a \in Chain[B], o[1] \in TxsOf(a),
             Kind[o[1]] \in {"coinbase", "coinstake"}
      PROVE  nHeight[B] + 1 - nHeight[a] >= Maturity[Kind[o[1]]]
  <2> DEFINE t == o[1]
             M == Maturity[Kind[t]]
             q == hashBlock[t]
  <2>1. t \in Tx /\ M \in Nat /\ MaturityMargin \in Nat
    BY <1>6, VinPoints, TxAssumption, WalletAssumption
  <2>2. nHeight[B] \in Nat /\ nHeight[a] \in Nat /\ nHeight[a] <= nHeight[B]
    BY <1>1, ChainHeight, ChainType, HeightRecursion
  <2>3. DepthInMainChain(t) >= M + MaturityMargin
    BY <1>3, <1>6 DEF IsMatureInWallet
  <2>4. CASE q # Null /\ IsInMainChain(q)
    <3>0. q \in Chain[B]
      <4>1. q \in Block
        BY <2>1, <2>4 DEF WalletInv, WalletOK, WalletType, TheWallet
      <4> QED
        BY <1>1, <2>4, <4>1, MainIsBest
    <3>1. t \in TxsOf(q)
      BY <2>1, <2>4 DEF WalletInv, WalletOK, TheWallet, IsSeenIn
    <3>2. q = a
      BY <1>1, <1>6, <3>0, <3>1, InOneBlock
    <3>3. DepthInMainChain(t) = nHeight[B] - nHeight[a] + 1
      BY <2>4, <3>2 DEF DepthInMainChain
    <3> HIDE DEF M, t, q
    <3> QED
      BY <2>1, <2>2, <2>3, <3>3 DEF M, t
  <2>5. CASE ~(q # Null /\ IsInMainChain(q))
    <3>1. DepthInMainChain(t) = 0
      BY <2>5 DEF DepthInMainChain
    <3> HIDE DEF M, t, q
    <3>2. M = 0
      BY <2>1, <2>3, <3>1
    <3> QED
      BY <2>2, <3>2 DEF M, t
  <2> QED
    BY <2>4, <2>5
<1> QED
  BY <1>2, <1>3, <1>5, <1>6 DEF StakeOK, IsSignedStake

\* A step keeps StakeInv: the coinstake is found on a tip, and forgotten or misled when the
\* tip moves.
LEMMA StakeInvStep ==
  ASSUME WalletInv, OwnInv, ExactInv, LinksFit, MintInv, StakeInv, [LedgerNext]_ledgerVars,
         [MinterNext]_minterVars
  PROVE  StakeInv'
<1> SUFFICES ASSUME mintPc' \in {"stake", "grants"}, ~fMoved', ~SomeRefused', nRestarts' = 0
             PROVE  StakeOK(txCoinStake, pindexBest)'
  BY DEF StakeInv
<1>1. LInv /\ nRestarts \in Nat
  BY LedgerRestartAssumption DEF WalletInv, TotalsInv, LInv, CoinsTypeOK
<1>2. ~SomeRefused /\ nRestarts = 0
  <2>1. ~SomeRefused
    BY <1>1, VerdictsKept DEF SomeRefused
  <2> QED
    BY <1>1, <2>1, NoStop
<1>3. ASSUME mintPc \in {"stake", "grants"}, ~fMoved, UNCHANGED <<txCoinStake, pindexBest>>
      PROVE  StakeOK(txCoinStake, pindexBest)'
  BY <1>2, <1>3 DEF StakeInv, StakeOK
<1>4. CASE OtherStep
  BY <1>3, <1>4 DEF OtherStep
<1>5. ASSUME NEW s \in Tx, CreateCoinStake(s) PROVE StakeOK(txCoinStake, pindexBest)'
  <2>1. txCoinStake' = s /\ pindexBest' = pindexBest /\ ~fMoved
    BY <1>5 DEF CreateCoinStake, vars, ledgerVars
  <2>2. StakeOK(s, pindexBest)
    BY <1>2, <1>5, <2>1, FoundStakeOK
  <2> QED
    BY <2>1, <2>2 DEF StakeOK
<1>6. CASE GenerateCurrencyCoinBases \/ UNCHANGED minterVars
  BY <1>3, <1>6 DEF GenerateCurrencyCoinBases, minterVars, mintVars, vars, ledgerVars
<1>7. CASE ReadTip \/ NoBlock \/ DropStaleBlock \/ RefuseMintedBlock \/ OfferBlock
           \/ (\E f \in BOOLEAN : MinterRestart(f)) \/ \E b \in Block : BuildBlock(b)
  BY <1>7 DEF ReadTip, NoBlock, DropStaleBlock, RefuseMintedBlock, OfferBlock,
     MinterRestart,
              GiveUp, BuildBlock
<1> QED
  BY <1>4, <1>5, <1>6, <1>7 DEF MinterNext

--------------------------------------------------------------------------------
\* The selection beside the trial.

\* Coins d hold what coins c hold, but for what s spends.
HoldsBut(s, c, d) ==
    \A p \in Tx : \A n \in c[p].vout :
        <<p, n>> \notin Vin[s] => n \in d[p].vout /\ d[p].nHeight = c[p].nHeight

\* The checks that the minter makes of a transaction, and those of its trial connect.
PassesAlone(t, c, b) == CheckInputs(t, c, b, TRUE) = "ok"
PassesIn(x, t, c, b) == CheckInputs(t, c, b, HasScriptChecks(x)) = "ok"

\* What passes on the coins of the selection passes on those of the trial.
LEMMA ChecksCarry ==
  ASSUME NEW s \in Tx, NEW c, NEW d, HoldsBut(s, c, d), NEW t \in Tx, Vin[t] \cap Vin[s] = {},
         NEW b, PassesAlone(t, c, b), NEW x \in Block
  PROVE  PassesIn(x, t, d, b)
<1>1. HaveInputs(t, c) /\ ~IsImmature(t, c, nHeight[b] + 1)
  BY DEF PassesAlone, CheckInputs
<1>2. \A o \in Vin[t] : o[2] \in d[o[1]].vout /\ d[o[1]].nHeight = c[o[1]].nHeight
  <2> SUFFICES ASSUME NEW o \in Vin[t]
               PROVE  o[2] \in d[o[1]].vout /\ d[o[1]].nHeight = c[o[1]].nHeight
    OBVIOUS
  <2>1. o = <<o[1], o[2]>> /\ o[1] \in Tx /\ o[2] \in c[o[1]].vout /\ o \notin Vin[s]
    BY <1>1, VinPoints DEF HaveInputs
  <2> QED
    BY <2>1 DEF HoldsBut
<1>3. HaveInputs(t, d) /\ ~IsImmature(t, d, nHeight[b] + 1)
  BY <1>1, <1>2 DEF HaveInputs, IsImmature
<1>4. CASE Kind[t] = "unpark"
  <2>1. IsValidUnpark(t, c, b)
    BY <1>1, <1>4 DEF PassesAlone, CheckInputs
  <2>2. IsValidUnpark(t, d, b)
    BY <1>2, <2>1 DEF IsValidUnpark
  <2> QED
    BY <1>1, <1>3, <1>4, <2>2 DEF PassesAlone, PassesIn, CheckInputs
<1>5. CASE Kind[t] # "unpark"
  BY <1>1, <1>3, <1>5 DEF PassesAlone, PassesIn, CheckInputs
<1> QED
  BY <1>4, <1>5

\* The coins of a transaction p that were a become e when t is applied at height h.
AreUpdated(a, e, p, t, h) ==
    IF p = t THEN e = FullCoins(t, h)
    ELSE /\ \A n : n \in e.vout <=> n \in a.vout /\ n \notin SpentBy(p, t)
         /\ e.vout # {} => e.nHeight = a.nHeight

LEMMA UpdatedCoins ==
  ASSUME NEW c, NEW t \in Tx, NEW h, NEW p \in Tx
  PROVE  AreUpdated(c[p], UpdateCoins(c, t, h)[p], p, t, h)
  BY DEF UpdateCoins, Spend, Pruned, AreUpdated

\* Both go on with a pool transaction.
LEMMA BothUpdated ==
  ASSUME NEW s \in Tx, NEW c, NEW d, HoldsBut(s, c, d), NEW t \in Tx, NEW h
  PROVE  HoldsBut(s, UpdateCoins(c, t, h), UpdateCoins(d, t, h))
<1> DEFINE e == UpdateCoins(c, t, h)
           f == UpdateCoins(d, t, h)
<1> SUFFICES ASSUME NEW p \in Tx, NEW n \in e[p].vout, <<p, n>> \notin Vin[s]
             PROVE  n \in f[p].vout /\ f[p].nHeight = e[p].nHeight
  BY DEF HoldsBut
<1>1. AreUpdated(c[p], e[p], p, t, h) /\ AreUpdated(d[p], f[p], p, t, h)
  BY UpdatedCoins
<1> HIDE DEF e, f
<1>2. CASE p = t
  BY <1>1, <1>2 DEF AreUpdated
<1>3. CASE p # t
  <2>1. n \in c[p].vout /\ n \notin SpentBy(p, t)
    BY <1>1, <1>3 DEF AreUpdated
  <2>2. n \in d[p].vout /\ d[p].nHeight = c[p].nHeight
    BY <2>1 DEF HoldsBut
  <2>3. n \in f[p].vout
    BY <1>1, <1>3, <2>1, <2>2 DEF AreUpdated
  <2> QED
    BY <1>1, <1>3, <2>1, <2>2, <2>3 DEF AreUpdated
<1> QED
  BY <1>2, <1>3

\* The trial goes on alone, with a transaction that spends nothing but what s spends.
LEMMA TrialUpdated ==
  ASSUME NEW s \in Tx, NEW c, NEW d, HoldsBut(s, c, d), NEW t \in Tx, NEW h,
         c[t].vout = {}, Vin[t] \subseteq Vin[s]
  PROVE  HoldsBut(s, c, UpdateCoins(d, t, h))
<1> DEFINE f == UpdateCoins(d, t, h)
<1> SUFFICES ASSUME NEW p \in Tx, NEW n \in c[p].vout, <<p, n>> \notin Vin[s]
             PROVE  n \in f[p].vout /\ f[p].nHeight = c[p].nHeight
  BY DEF HoldsBut
<1>1. p # t /\ n \notin SpentBy(p, t)
  BY DEF SpentBy
<1>2. n \in d[p].vout /\ d[p].nHeight = c[p].nHeight
  BY DEF HoldsBut
<1>3. AreUpdated(d[p], f[p], p, t, h)
  BY UpdatedCoins
<1> HIDE DEF f
<1>4. n \in f[p].vout
  BY <1>1, <1>2, <1>3 DEF AreUpdated
<1> QED
  BY <1>1, <1>2, <1>3, <1>4 DEF AreUpdated

\* The coinstake passes on the coins of the tip.
LEMMA StakePasses ==
  ASSUME LInv, NEW s \in Tx, StakeOK(s, pindexBest), NEW x \in Block,
         \A o \in Vin[s] : o[1] \in ChainTxs(pindexBest)
  PROVE  CheckInputs(s, pcoinsTip, pindexBest, HasScriptChecks(x)) = "ok"
<1> DEFINE B == pindexBest
           h == nHeight[B] + 1
<1>1. B \in Block /\ B \in Connected /\ CoinsExact
  BY TipCoinsExact DEF LInv, TipInv, CoinsTypeOK
<1>2. ASSUME NEW o \in Vin[s]
      PROVE  /\ o[2] \in pcoinsTip[o[1]].vout /\ ~IsParked(o)
             /\ Kind[o[1]] \in {"coinbase", "coinstake"} =>
                   ~(h - pcoinsTip[o[1]].nHeight < Maturity[Kind[o[1]]])
  <2>1. o \in Mine /\ o = <<o[1], o[2]>> /\ o[1] \in Tx /\ o[2] \in DOMAIN Vout[o[1]] /\ ~IsParked(o)
    BY VinPoints, MineIsMine DEF StakeOK
  <2>2. o[2] \in UnspentIn(o[1], B)
    <3>1. \A u \in ChainTxs(B) : <<o[1], o[2]>> \notin Vin[u]
      BY <2>1 DEF StakeOK
    <3> QED
      BY <2>1, <3>1 DEF UnspentIn
  <2>3. o[2] \in pcoinsTip[o[1]].vout
    BY <1>1, <2>1, <2>2 DEF CoinsExact
  <2>4. PICK a \in Chain[B] : o[1] \in TxsOf(a) /\ pcoinsTip[o[1]].nHeight = nHeight[a]
    BY <1>1, <2>1, <2>3 DEF CoinsExact
  <2>5. ASSUME Kind[o[1]] \in {"coinbase", "coinstake"}
        PROVE  ~(h - nHeight[a] < Maturity[Kind[o[1]]])
    <3>1. nHeight[B] + 1 - nHeight[a] >= Maturity[Kind[o[1]]]
      BY <2>4, <2>5 DEF StakeOK
    <3>2. nHeight[B] \in Nat /\ nHeight[a] \in Nat /\ Maturity[Kind[o[1]]] \in Nat
      BY <1>1, <2>1, <2>5, ChainType, HeightRecursion, TxAssumption
    <3> QED
      BY <3>1, <3>2
  <2> QED
    BY <2>1, <2>3, <2>4, <2>5
<1>3. HaveInputs(s, pcoinsTip)
  BY <1>2 DEF HaveInputs
<1>4. ~IsImmature(s, pcoinsTip, h)
  <2> HIDE DEF h
  <2> QED
    BY <1>2 DEF IsImmature
<1>5. ~SpendsParked(s)
  BY <1>2 DEF SpendsParked
<1> QED
  BY <1>3, <1>4, <1>5 DEF CheckInputs, StakeOK, VerifiesScripts

\* A block that the minter puts together connects, if its coinstake stands on the tip and
\* neither conflicts with the pool nor stakes what is not in the chain.
LEMMA BuiltBlockConnects ==
  ASSUME LInv, PoolOK(Pool), NEW b \in Block, Prev[b] = pindexBest,
         txCoinStake \in Tx, Vtx[b] # <<>>, Head(Vtx[b]) = txCoinStake,
         StakeOK(txCoinStake, pindexBest), AreGenerated(b), AreSelectable(b),
         \A t \in mapTx : Vin[t] \cap Vin[txCoinStake] = {},
         \A o \in Vin[txCoinStake] : o[1] \in ChainTxs(pindexBest)
  PROVE  ConnectsAtTip(b)
<1> DEFINE B == pindexBest
           s == txCoinStake
           v == Vtx[b]
           n == Len(v)
           h == nHeight[b]
           txs == ChainTxs(B)
           ready == [ok |-> TRUE, view |-> pcoinsTip]
           first == [ok |-> ~Malformed(b, pcoinsTip), view |-> pcoinsTip]
<1>1. /\ n \in Nat /\ n >= 1 /\ DOMAIN v = 1 .. n /\ \A i \in 1 .. n : v[i] \in Tx
      /\ v[1] = s /\ \A i, j \in 1 .. n : v[i] = v[j] => i = j
      /\ b # Genesis /\ B \in Block /\ B \in Connected
  <2>1. v \in Seq(Tx) /\ \A i, j \in DOMAIN v : v[i] = v[j] => i = j
    BY BlockAssumption
  <2>2. B \in Block /\ B \in Connected
    BY DEF LInv, CoinsTypeOK, TipInv
  <2>3. b # Genesis
    BY <2>2, TreeAssumption
  <2> HIDE DEF v, s
  <2>4. v # <<>> /\ Head(v) = s
    BY DEF v, s
  <2>5. n \in Nat /\ n >= 1 /\ DOMAIN v = 1 .. n /\ v[1] = s
    BY <2>1, <2>4
  <2> QED
    BY <2>1, <2>2, <2>3, <2>5
<1>2. h = nHeight[B] + 1
  BY <1>1, HeightRecursion
<1>3. /\ \A p \in Tx : pcoinsTip[p].vout = UnspentIn(p, B)
      /\ txs \subseteq Tx
      /\ \A u \in txs : \A o \in Vin[u] : o[1] \in txs
  BY <1>1, TipIsUnspent DEF LInv, TipInv, UndoInv, SpendsKnown
<1>4. \A p \in Tx : p \notin txs => pcoinsTip[p].vout = {}
  BY <1>3 DEF UnspentIn
<1>5. s \notin Minted /\ s \notin txs /\ Vin[s] # {}
  <2>1. Kind[s] = "coinstake" /\ s \notin Minted
    BY DEF StakeOK, Minted
  <2>2. Vin[s] # {}
    BY <2>1, TxAssumption
  <2> QED
    BY <2>1, <2>2 DEF StakeOK
<1>6. \A t \in TxsOf(b) \cap Minted : t \notin txs
  <2> SUFFICES ASSUME NEW t \in TxsOf(b) \cap Minted, NEW a \in Chain[B], t \in TxsOf(a)
               PROVE  FALSE
    BY DEF ChainTxs
  <2>1. a \in Chain[b] \ {b}
    BY <1>1, ChainUnfold, NotOwnAncestor
  <2> QED
    BY <2>1, MintedAssumption DEF TxsOf
<1>7. \A t \in TxsOf(b) \cap Minted : Vin[t] = {} /\ CheckTransaction(t)
  BY <1>1, TxAssumption DEF AreGenerated, Minted
<1>8. CheckInputs(s, pcoinsTip, B, HasScriptChecks(b)) = "ok"
  BY StakePasses
<1>9. Loop("select", s, ready, v).ok
  <2>1. FoldLeft(LAMBDA r, t : TrySelect(s, r, t), ready, v).ok
    BY DEF AreSelectable
  <2> HIDE DEF s, ready, v
  <2> QED
    BY <2>1, LoopsOfWallet
<1>10. ready.view = pcoinsTip /\ first.view = pcoinsTip
  OBVIOUS
<1>11. ~Malformed(b, pcoinsTip) => first.ok
  OBVIOUS
<1>12. Loop("try", b, first, v).ok => ConnectsAtTip(b)
  <2>1. FoldLeft(LAMBDA r, t : TryConnect(b, r, t), first, v).ok => ConnectsAtTip(b)
    BY DEF ConnectsAtTip
  <2> HIDE DEF first, v
  <2> QED
    BY <2>1, LoopsOfWallet
<1> HIDE DEF n, ready, first, h, txs, s, v
<1>13. PICK p : /\ p[0] = ready /\ p[n] = Loop("select", s, ready, v)
                /\ \A i \in 1 .. n : p[i] = LoopOp("select", s, p[i - 1], v[i])
  <2>1. \E p : IsRun(p, n, "select", s, ready, v)
    BY <1>1, LoopSteps
  <2> QED
    BY <2>1 DEF IsRun
<1>14. PICK r : /\ r[0] = first /\ r[n] = Loop("try", b, first, v)
                /\ \A i \in 1 .. n : r[i] = LoopOp("try", b, r[i - 1], v[i])
  <2>1. \E r : IsRun(r, n, "try", b, first, v)
    BY <1>1, LoopSteps
  <2> QED
    BY <2>1 DEF IsRun
<1> DEFINE Passes(t, c) == t \in Minted \/ CheckInputs(t, c, B, HasScriptChecks(b)) = "ok"
<1>15. ASSUME NEW i \in 1 .. n
       PROVE  /\ r[i].view = UpdateCoins(r[i - 1].view, v[i], h)
              /\ r[i - 1].ok /\ Passes(v[i], r[i - 1].view) => r[i].ok
  <2> DEFINE q == r[i - 1]
             t == v[i]
             ok == /\ q.ok
                   /\ t \in Minted \/ CheckInputs(t, q.view, B, HasScriptChecks(b)) = "ok"
             coins == UpdateCoins(q.view, t, h)
  <2>1. r[i] = [ok |-> ok, view |-> coins]
    BY <1>14 DEF LoopOp, TryConnect, h
  <2> HIDE DEF ok, coins
  <2>2. r[i].ok = ok /\ r[i].view = coins
    BY <2>1
  <2> QED
    BY <2>2, Zenon DEF ok, coins
<1>16. ASSUME NEW i \in 1 .. n
       PROVE  IF v[i] = s \/ v[i] \in Minted THEN p[i] = p[i - 1]
              ELSE /\ p[i].view = UpdateCoins(p[i - 1].view, v[i], h)
                   /\ p[i].ok => /\ p[i - 1].ok /\ v[i] \in mapTx
                                 /\ CheckInputs(v[i], p[i - 1].view, B, TRUE) = "ok"
  <2> DEFINE q == p[i - 1]
             t == v[i]
             ok == q.ok /\ t \in mapTx /\ CheckInputs(t, q.view, B, TRUE) = "ok"
             coins == UpdateCoins(q.view, t, h)
  <2>1. p[i] = TrySelect(s, q, t)
    BY <1>13 DEF LoopOp
  <2>2. CASE t = s \/ t \in Minted
    BY <2>1, <2>2 DEF TrySelect
  <2>3. CASE ~(t = s \/ t \in Minted)
    <3>1. p[i] = [ok |-> ok, view |-> coins]
      BY <1>2, <2>1, <2>3 DEF TrySelect
    <3> HIDE DEF ok, coins
    <3>2. p[i].ok = ok /\ p[i].view = coins
      BY <3>1
    <3>3. p[i].ok => ok
      BY <3>2
    <3> QED
      BY <2>3, <3>2, <3>3, Zenon DEF ok, coins
  <2> QED
    BY <2>2, <2>3
<1> DEFINE Fits(t) == t \in Minted \/ t = s \/ (t \in mapTx /\ t \notin txs)
           Good(i) == p[i].ok =>
               /\ i # 0 => HoldsBut(s, p[i].view, r[i].view)
               /\ i = 0 => p[i].view = pcoinsTip /\ r[i].view = pcoinsTip
               /\ \A q \in Tx : q \in Minted \/ q \in txs => p[i].view[q].vout \subseteq pcoinsTip[q].vout
               /\ \A j \in 1 .. i : Fits(v[j]) /\ Passes(v[j], r[j - 1].view)
           T == {i \in 0 .. n : Good(i)}
<1>17. 0 \in T
  BY <1>1, <1>10, <1>13, <1>14
<1>18. ASSUME NEW i \in 1 .. n, i - 1 \in T
       PROVE  i \in T
  <2> SUFFICES ASSUME p[i].ok
               PROVE  /\ HoldsBut(s, p[i].view, r[i].view)
                      /\ \A q \in Tx : q \in Minted \/ q \in txs =>
                            p[i].view[q].vout \subseteq pcoinsTip[q].vout
                      /\ Fits(v[i]) /\ Passes(v[i], r[i - 1].view)
                      /\ p[i - 1].ok
    <3>1. i \in 0 .. n /\ i # 0 /\ \A j \in 1 .. i : j = i \/ j \in 1 .. (i - 1)
      BY <1>1
    <3> HIDE DEF Fits, Passes
    <3> QED
      BY <1>18, <3>1
  <2> DEFINE t == v[i]
             c == p[i - 1].view
             d == r[i - 1].view
  <2>1. /\ t \in Tx /\ t \in TxsOf(b) /\ (i = 1 <=> t = s) /\ i - 1 \in 0 .. n
        /\ i - 1 = 0 <=> i = 1
    BY <1>1 DEF TxsOf, v
  <2>2. r[i].view = UpdateCoins(d, t, h)
    BY <1>15
  <2>3. ASSUME p[i - 1].ok
        PROVE  /\ i # 1 => HoldsBut(s, c, d)
               /\ i = 1 => c = pcoinsTip /\ d = pcoinsTip
               /\ \A q \in Tx : q \in Minted \/ q \in txs => c[q].vout \subseteq pcoinsTip[q].vout
    BY <1>18, <2>1, <2>3
  <2> HIDE DEF c, d
  <2>4. CASE t = s
    <3>1. p[i] = p[i - 1] /\ c = pcoinsTip /\ d = pcoinsTip
      BY <1>16, <2>1, <2>3, <2>4
    <3>2. c[s].vout = {} /\ HoldsBut(s, c, c)
      BY <1>4, <1>5, <2>1, <2>4, <3>1 DEF HoldsBut
    <3>3. HoldsBut(s, c, r[i].view)
      BY <2>1, <2>2, <2>4, <3>1, <3>2, TrialUpdated
    <3> QED
      BY <1>8, <2>3, <2>4, <3>1, <3>3 DEF c, d
  <2>5. CASE t \in Minted
    <3>1. p[i] = p[i - 1] /\ i # 1
      BY <1>5, <1>16, <2>1, <2>5
    <3>2. c[t].vout = {} /\ Vin[t] = {}
      BY <1>4, <1>6, <1>7, <2>1, <2>3, <2>5, <3>1
    <3>3. HoldsBut(s, c, r[i].view)
      BY <2>1, <2>2, <2>3, <3>1, <3>2, TrialUpdated DEF s
    <3> QED
      BY <2>3, <2>5, <3>1, <3>3 DEF c, d
  <2>6. CASE t # s /\ t \notin Minted
    <3>1. /\ p[i].view = UpdateCoins(c, t, h) /\ p[i - 1].ok /\ t \in mapTx
          /\ CheckInputs(t, c, B, TRUE) = "ok"
      BY <1>16, <2>6 DEF c
    <3>2. i # 1 /\ HoldsBut(s, c, d) /\ s \in Tx
      BY <2>1, <2>3, <2>6, <3>1 DEF s
    <3>3. CheckInputs(t, d, B, HasScriptChecks(b)) = "ok"
      <4>1. s \in Tx /\ t \in Tx /\ Vin[t] \cap Vin[s] = {}
        BY <2>1, <3>1, <3>2 DEF s
      <4>2. HoldsBut(s, c, d) /\ CheckInputs(t, c, B, TRUE) = "ok"
        BY <3>1, <3>2
      <4> HIDE DEF t, s
      <4> QED
        <5>1. PassesAlone(t, c, B)
          BY <4>2 DEF PassesAlone
        <5>2. PassesIn(b, t, d, B)
          BY <4>1, <4>2, <5>1, ChecksCarry
        <5> QED
          BY <5>2 DEF PassesIn
    <3>4. HoldsBut(s, p[i].view, r[i].view)
      BY <2>1, <2>2, <3>1, <3>2, BothUpdated
    <3>5. t \notin txs
      <4> SUFFICES ASSUME t \in txs PROVE FALSE
        OBVIOUS
      <4>1. PICK o : o \in Vin[t]
        BY <2>1, <2>6, TxAssumption
      <4>2. o = <<o[1], o[2]>> /\ o[1] \in txs /\ o[1] \in Tx
        BY <1>3, <2>1, <4>1, VinPoints
      <4>3. o[2] \in c[o[1]].vout
        BY <3>1, <4>1 DEF CheckInputs, HaveInputs
      <4>4. o[2] \in UnspentIn(o[1], B)
        BY <1>3, <2>3, <3>1, <4>2, <4>3
      <4> QED
        BY <4>1, <4>2, <4>4 DEF UnspentIn, txs
    <3>6. ASSUME NEW q \in Tx, q \in Minted \/ q \in txs
          PROVE  p[i].view[q].vout \subseteq pcoinsTip[q].vout
      <4>1. q # t /\ c[q].vout \subseteq pcoinsTip[q].vout
        BY <2>3, <2>6, <3>1, <3>5, <3>6
      <4>2. AreUpdated(c[q], UpdateCoins(c, t, h)[q], q, t, h)
        BY <2>1, UpdatedCoins
      <4> QED
        BY <3>1, <4>1, <4>2 DEF AreUpdated
    <3> QED
      BY <3>1, <3>3, <3>4, <3>5, <3>6 DEF d
  <2> QED
    BY <2>4, <2>5, <2>6
<1>19. \A j \in 1 .. n : Fits(v[j]) /\ Passes(v[j], r[j - 1].view)
  <2> HIDE DEF T
  <2>1. 0 .. n \subseteq T
    BY <1>1, <1>17, <1>18, UpwardInduction
  <2>2. n \in T /\ p[n].ok
    BY <1>1, <1>9, <1>13, <2>1
  <2> HIDE DEF Fits, Passes
  <2> QED
    BY <2>2 DEF T
<1>20. ~Malformed(b, pcoinsTip)
  <2> SUFFICES ASSUME NEW i \in 1 .. n
               PROVE  CheckTransaction(v[i]) /\ pcoinsTip[v[i]].vout = {}
    BY <1>1 DEF Malformed, v
  <2>1. v[i] \in Tx /\ v[i] \in TxsOf(b) /\ Fits(v[i])
    BY <1>1, <1>19 DEF TxsOf, v
  <2>2. CASE v[i] \in Minted
    BY <1>4, <1>6, <1>7, <2>1, <2>2
  <2>3. CASE v[i] = s
    BY <1>4, <1>5, <2>1, <2>3 DEF StakeOK, s
  <2>4. CASE v[i] \in mapTx /\ v[i] \notin txs
    BY <1>4, <2>1, <2>4 DEF PoolOK, Pool
  <2> QED
    BY <2>1, <2>2, <2>3, <2>4
<1> DEFINE U == {i \in 0 .. n : r[i].ok}
<1>21. 0 \in U
  BY <1>1, <1>11, <1>14, <1>20
<1>22. ASSUME NEW i \in 1 .. n, i - 1 \in U
       PROVE  i \in U
  <2>1. i \in 0 .. n
    BY <1>1
  <2> HIDE DEF Passes
  <2> QED
    BY <1>15, <1>19, <1>22, <2>1
<1>23. r[n].ok
  <2> HIDE DEF U
  <2>1. 0 .. n \subseteq U
    BY <1>1, <1>21, <1>22, UpwardInduction
  <2> QED
    BY <1>1, <2>1 DEF U
<1> QED
  BY <1>12, <1>14, <1>23

\* The program does not abort for a block of its own making, unless the tip moved, a pool
\* transaction spends the stake, the stake is change of a payment that is not in the chain,
\* or the wallet was misled by a refused block or a stop.
THEOREM AbortsNeedAReason ==
  ASSUME SameUnits
  PROVE  MinterSpec => []AbortsOnlyIfMisled
<1> DEFINE Inv == OwnInv /\ ExactInv /\ LinksFit /\ StakeInv /\ AbortsOnlyIfMisled
<1>1. MinterInit => Inv
  <2>1. MinterInit => LinksFit
    BY DEF MinterInit, WalletInit, LinksFit
  <2> QED
    BY <2>1, ExactInvInit, OwnInvInit DEF MinterInit, StakeInv, AbortsOnlyIfMisled
<1>2. WalletInv /\ MintInv /\ Inv /\ [MinterNext]_minterVars /\ WalletInv' => Inv'
  <2> SUFFICES ASSUME WalletInv, MintInv, Inv, [MinterNext]_minterVars, WalletInv'
               PROVE  Inv'
    OBVIOUS
  <2>1. NodeStep /\ [LedgerNext]_ledgerVars
    BY MinterStepIsNodeStep
  <2>2. OwnInv' /\ ExactInv' /\ LinksFit'
    BY <2>1, OwnInvStep, ExactInvStep, LinksFitStep
  <2>3. StakeInv'
    BY <2>1, StakeInvStep
  <2>4. ASSUME NEW b \in Block, BuildBlock(b) PROVE AbortsOnlyIfMisled'
    <3>1. /\ UNCHANGED <<mapTx, txCoinStake, pindexBest, verdict, nRestarts, fMoved>>
          /\ mintPc = "grants" /\ Prev[b] = pindexBest /\ Vtx[b] # <<>>
          /\ Head(Vtx[b]) = txCoinStake /\ AreGenerated(b) /\ AreSelectable(b)
          /\ ~ConnectsAtTip(b) \/ mintPc' = "built"
      BY <2>4 DEF BuildBlock, vars, ledgerVars, poolVars
    <3> SUFFICES ASSUME ~ConnectsAtTip(b), ~fMoved, ~SomeRefused, ~(nRestarts > 0),
                        \A t \in mapTx : Vin[t] \cap Vin[txCoinStake] = {},
                        \A o \in Vin[txCoinStake] : o[1] \in ChainTxs(pindexBest)
                 PROVE  FALSE
      BY <3>1 DEF AbortsOnlyIfMisled, SomeRefused
    <3>2. LInv /\ PoolOK(Pool) /\ nRestarts \in Nat /\ txCoinStake \in Tx
      <4>1. LInv /\ PoolOK(Pool)
        BY DEF WalletInv, TotalsInv
      <4>2. nRestarts \in Nat
        BY <4>1, LedgerRestartAssumption DEF LInv, CoinsTypeOK
      <4>3. txCoinStake \in Tx
        BY <3>1 DEF MintInv
      <4> QED
        BY <4>1, <4>2, <4>3
    <3>3. StakeOK(txCoinStake, pindexBest)
      BY <3>1, <3>2 DEF StakeInv
    <3> QED
      BY <3>1, <3>2, <3>3, BuiltBlockConnects
  <2>5. ASSUME mintPc' # "aborted" PROVE AbortsOnlyIfMisled'
    BY <2>5 DEF AbortsOnlyIfMisled
  <2>6. ASSUME UNCHANGED minterVars PROVE AbortsOnlyIfMisled'
    <3>1. UNCHANGED <<mapTx, txCoinStake, pindexBest, verdict, nRestarts, fMoved, mintPc>>
      BY <2>6 DEF minterVars, mintVars, vars, ledgerVars, poolVars
    <3> QED
      BY <3>1 DEF AbortsOnlyIfMisled, SomeRefused
  <2>7. mintPc' # "aborted" \/ UNCHANGED minterVars \/ \E b \in Block : BuildBlock(b)
    BY DEF MinterNext, OtherStep, ReadTip, CreateCoinStake, GenerateCurrencyCoinBases,
       NoBlock,
           DropStaleBlock, RefuseMintedBlock, OfferBlock, MinterRestart, GiveUp
  <2> QED
    BY <2>2, <2>3, <2>4, <2>5, <2>6, <2>7
<1>3. Inv => AbortsOnlyIfMisled
  OBVIOUS
<1> QED
  BY <1>1, <1>2, <1>3, WalletInvHolds, PTL DEF MinterSpec

================================================================================
