----------------------------- MODULE LedgerProofs -----------------------------
(***************************************************************************)
(* Proofs about Ledger, for every tree of blocks, whatever transactions    *)
(* they hold and however often the node moves between branches.            *)
(*                                                                         *)
(* The coins a view should hold after the first i transactions of block b  *)
(* are a function of the constants, CoinsAt(b, i).  The invariant says     *)
(* that the view holds them, and that the undo data on disk of a block is  *)
(* what leads from CoinsAt(b, i) back to CoinsAt(b, i - 1).                *)
(***************************************************************************)
EXTENDS Ledger, BlockTreeProofs, SumTheorems

\* The blocks that hold t among the chain of b up to its i-th transaction.
BlocksWith(t, b, i) ==
    {a \in Chain[b] : \E j \in DOMAIN Vtx[a] : Vtx[a][j] = t /\ (a = b => j <= i)}

\* The transactions up to there.
Upto(b, i) == {t \in Tx : BlocksWith(t, b, i) # {}}

\* The outputs of t they leave unspent.
UnspentAt(t, b, i) ==
    {n \in DOMAIN Vout[t] : t \in Upto(b, i) /\ \A u \in Upto(b, i) : <<t, n>> \notin Vin[u]}

CoinsAt(b, i) ==
    [t \in Tx |->
        IF UnspentAt(t, b, i) = {} THEN Pruned
        ELSE [vout |-> UnspentAt(t, b, i),
              nHeight |-> nHeight[CHOOSE a : a \in BlocksWith(t, b, i)]]]

\* All transactions of a block.
Tip(b) == CoinsAt(b, Len(Vtx[b]))

\* No transaction up to the i-th of b spends from one that is not there.
SpendsKnown(b, i) == \A u \in Upto(b, i) : \A o \in Vin[u] : o[1] \in Upto(b, i)

\* The i-th transaction of b is new to the chain, and what it spends is there.
Applies(b, i) ==
    /\ SpendsKnown(b, i - 1)
    /\ Vtx[b][i] \notin Upto(b, i - 1)
    /\ HaveInputs(Vtx[b][i], CoinsAt(b, i - 1))

\* The undo data of the first k transactions of b.
UndoAt(b, k) == [i \in 1 .. k |-> TxUndo(CoinsAt(b, i - 1), Vtx[b][i])]

--------------------------------------------------------------------------------
\* One transaction.

\* The coins of a transaction are the outputs it has, and none without them.
Normal(c) ==
    /\ c \in [Tx -> CCoins]
    /\ \A p \in Tx : /\ c[p].vout \subseteq DOMAIN Vout[p]
                     /\ c[p].vout = {} => c[p] = Pruned
                     /\ c[p].vout # {} => c[p].nHeight # 0

\* DisconnectBlock undoes what ConnectBlock did: applied to the coins that UpdateCoins
\* left, with the undo data it collected, it finds no fault and restores what was there.
LEMMA UndoRestores ==
  ASSUME NEW c, Normal(c), NEW t \in Tx, NEW h \in Nat,
         HaveInputs(t, c), c[t] = Pruned
  PROVE  /\ IsClean(UpdateCoins(c, t, h), t, TxUndo(c, t), h)
         /\ RestoreCoins(UpdateCoins(c, t, h), t, TxUndo(c, t)) = c
<1> DEFINE d == UpdateCoins(c, t, h)
           u == TxUndo(c, t)
<1>1. d[t] = FullCoins(t, h)
  BY DEF UpdateCoins
<1>2. ASSUME NEW p \in Tx
      PROVE  SpentBy(p, t) \subseteq c[p].vout
  BY <1>2 DEF HaveInputs, SpentBy
<1>3. SpentBy(t, t) = {}
  BY TxAssumption DEF SpentBy
<1>4. ASSUME NEW p \in Tx, SpentBy(p, t) # {}
      PROVE  /\ u[p] # 0 <=> d[p].vout = {}
             /\ SpentBy(p, t) \cap d[p].vout = {}
             /\ u[p] # 0 => [vout |-> SpentBy(p, t), nHeight |-> u[p]] = c[p]
             /\ u[p] = 0 => [vout |-> d[p].vout \cup SpentBy(p, t),
                             nHeight |-> d[p].nHeight] = c[p]
  <2>1. p # t /\ SpentBy(p, t) \subseteq c[p].vout
    BY <1>2, <1>3, <1>4
  <2>2. d[p] = Spend(c[p], SpentBy(p, t))
    BY <2>1, <1>4 DEF UpdateCoins
  <2>3. u[p] = IF c[p].vout \ SpentBy(p, t) = {} THEN c[p].nHeight ELSE 0
    BY <1>4 DEF TxUndo
  <2>4. c[p] \in CCoins /\ c[p].vout # {} /\ c[p].nHeight # 0
    BY <2>1, <1>4 DEF Normal
  <2>5. CASE c[p].vout \ SpentBy(p, t) = {}
    <3>1. c[p].vout = SpentBy(p, t)
      BY <2>5, <2>1
    <3>2. d[p] = Pruned /\ u[p] = c[p].nHeight
      BY <2>5, <2>2, <2>3 DEF Spend
    <3> QED
      BY <3>1, <3>2, <2>4 DEF Pruned, CCoins
  <2>6. CASE c[p].vout \ SpentBy(p, t) # {}
    <3>1. d[p] = [vout |-> c[p].vout \ SpentBy(p, t), nHeight |-> c[p].nHeight] /\ u[p] = 0
      BY <2>6, <2>2, <2>3 DEF Spend
    <3>2. d[p].vout \cup SpentBy(p, t) = c[p].vout
      BY <3>1, <2>1
    <3> QED
      BY <3>1, <3>2, <2>4, <2>6 DEF CCoins
  <2> QED
    BY <2>5, <2>6
<1>5. IsClean(d, t, u, h)
  BY <1>1, <1>4 DEF IsClean
<1>6. RestoreCoins(d, t, u) = c
  <2>1. ASSUME NEW p \in Tx
        PROVE  RestoreCoins(d, t, u)[p] = c[p]
    <3>1. CASE p = t
      BY <3>1 DEF RestoreCoins
    <3>2. CASE p # t /\ SpentBy(p, t) = {}
      BY <3>2 DEF RestoreCoins, UpdateCoins
    <3>3. CASE p # t /\ SpentBy(p, t) # {}
      <4> HIDE DEF d, u
      <4> QED
        BY <3>3, <1>4 DEF RestoreCoins
    <3> QED
      BY <3>1, <3>2, <3>3
  <2> QED
    BY <2>1 DEF RestoreCoins, Normal
<1> QED
  BY <1>5, <1>6

--------------------------------------------------------------------------------
\* The coins along a chain.

\* The coins along a chain are as CCoins have to be: a transaction is in a block above
\* the genesis block.
LEMMA CoinsNormal ==
  ASSUME NEW b \in Block, NEW i
  PROVE  Normal(CoinsAt(b, i))
<1>1. ASSUME NEW p \in Tx, UnspentAt(p, b, i) # {}
      PROVE  nHeight[CHOOSE a : a \in BlocksWith(p, b, i)] \in Nat \ {0}
  <2>1. BlocksWith(p, b, i) # {}
    BY <1>1 DEF UnspentAt, Upto
  <2>2. PICK a : a = CHOOSE x : x \in BlocksWith(p, b, i)
    OBVIOUS
  <2>3. a \in BlocksWith(p, b, i)
    BY <2>1, <2>2
  <2>4. a \in Block /\ a # Genesis
    BY <2>3, ChainType, BlockAssumption DEF BlocksWith
  <2>5. Prev[a] \in Block /\ nHeight[a] = nHeight[Prev[a]] + 1 /\ nHeight \in [Block -> Nat]
    BY <2>4, ChainUnfold, HeightRecursion
  <2> QED
    BY <2>2, <2>4, <2>5
<1>2. ASSUME NEW p \in Tx
      PROVE  UnspentAt(p, b, i) \subseteq DOMAIN Vout[p] /\ DOMAIN Vout[p] \subseteq Nat
  BY TxAssumption DEF UnspentAt
<1>3. ASSUME NEW p \in Tx
      PROVE  /\ CoinsAt(b, i)[p] \in CCoins
             /\ CoinsAt(b, i)[p].vout \subseteq DOMAIN Vout[p]
             /\ CoinsAt(b, i)[p].vout = {} => CoinsAt(b, i)[p] = Pruned
             /\ CoinsAt(b, i)[p].vout # {} => CoinsAt(b, i)[p].nHeight # 0
  <2>1. CASE UnspentAt(p, b, i) = {}
    BY <2>1 DEF CoinsAt, Pruned, CCoins
  <2>2. CASE UnspentAt(p, b, i) # {}
    BY <2>2, <1>1, <1>2 DEF CoinsAt, CCoins
  <2> QED
    BY <2>1, <2>2
<1> QED
  BY <1>3 DEF Normal, CoinsAt

\* The outputs of a coin are the unspent ones.
LEMMA CoinsVout ==
  ASSUME NEW b, NEW i, NEW p \in Tx
  PROVE  CoinsAt(b, i)[p].vout = UnspentAt(p, b, i)
  BY DEF CoinsAt, Pruned

\* A transaction that is not there has no coins.
LEMMA CoinsOfUnknown ==
  ASSUME NEW b, NEW i, NEW t \in Tx, t \notin Upto(b, i)
  PROVE  CoinsAt(b, i)[t] = Pruned
  BY DEF CoinsAt, UnspentAt

\* The coins before the first transaction of a block are those of its parent.
LEMMA CoinsOfParent ==
  ASSUME NEW b \in Block, b # Genesis
  PROVE  /\ Prev[b] \in Block
         /\ Upto(b, 0) = Upto(Prev[b], Len(Vtx[Prev[b]]))
         /\ CoinsAt(b, 0) = Tip(Prev[b])
<1> DEFINE q == Prev[b]
<1>1. q \in Block /\ Chain[b] = {b} \cup Chain[q] /\ b \notin Chain[q]
  BY ChainUnfold, NotOwnAncestor
<1>2. ASSUME NEW a \in Block
      PROVE  DOMAIN Vtx[a] = 1 .. Len(Vtx[a]) /\ Len(Vtx[a]) \in Nat
  BY BlockAssumption
<1>3. ASSUME NEW t
      PROVE  BlocksWith(t, b, 0) = BlocksWith(t, q, Len(Vtx[q]))
  <2>1. ASSUME NEW a \in BlocksWith(t, b, 0)
        PROVE  a \in BlocksWith(t, q, Len(Vtx[q]))
    <3>1. PICK j \in DOMAIN Vtx[a] : Vtx[a][j] = t /\ (a = b => j <= 0)
      BY DEF BlocksWith
    <3>2. a \in Block
      BY <1>1, ChainType DEF BlocksWith
    <3>3. a # b
      BY <3>1, <3>2, <1>2
    <3>4. a \in Chain[q]
      BY <3>3, <1>1 DEF BlocksWith
    <3> QED
      BY <3>1, <3>2, <3>4, <1>2 DEF BlocksWith
  <2>2. ASSUME NEW a \in BlocksWith(t, q, Len(Vtx[q]))
        PROVE  a \in BlocksWith(t, b, 0)
    BY <1>1 DEF BlocksWith
  <2> QED
    BY <2>1, <2>2
<1>4. Upto(b, 0) = Upto(q, Len(Vtx[q]))
  BY <1>3 DEF Upto
<1>5. ASSUME NEW t
      PROVE  UnspentAt(t, b, 0) = UnspentAt(t, q, Len(Vtx[q]))
  BY <1>4 DEF UnspentAt
<1>6. CoinsAt(b, 0) = Tip(q)
  BY <1>3, <1>5 DEF CoinsAt, Tip
<1> QED
  BY <1>1, <1>4, <1>6

\* What the i-th transaction of a block adds to the transactions before it.
LEMMA UptoStep ==
  ASSUME NEW b \in Block, NEW i \in DOMAIN Vtx[b]
  PROVE  /\ Upto(b, i) = Upto(b, i - 1) \cup {Vtx[b][i]}
         /\ \A p \in Tx \ {Vtx[b][i]} : BlocksWith(p, b, i) = BlocksWith(p, b, i - 1)
         /\ Vtx[b][i] \notin Upto(b, i - 1) => BlocksWith(Vtx[b][i], b, i) = {b}
<1> DEFINE t == Vtx[b][i]
<1>1. t \in Tx /\ DOMAIN Vtx[b] \subseteq Int /\ i \in Int /\ b \in Chain[b]
  BY BlockAssumption, ChainType
<1>2. ASSUME NEW p \in Tx \ {t}
      PROVE  BlocksWith(p, b, i) = BlocksWith(p, b, i - 1)
  <2>1. ASSUME NEW a \in Chain[b]
        PROVE  a \in BlocksWith(p, b, i) <=> a \in BlocksWith(p, b, i - 1)
    <3>1. CASE a # b
      BY <3>1 DEF BlocksWith
    <3>2. CASE a = b
      <4>1. \A j \in DOMAIN Vtx[b] : Vtx[b][j] = p => (j <= i <=> j <= i - 1)
        BY <1>1, <1>2
      <4> QED
        BY <3>2, <4>1 DEF BlocksWith
    <3> QED
      BY <3>1, <3>2
  <2> QED
    BY <2>1 DEF BlocksWith
<1>3. b \in BlocksWith(t, b, i)
  BY <1>1 DEF BlocksWith
<1>4. BlocksWith(t, b, i) \subseteq BlocksWith(t, b, i - 1) \cup {b}
  BY DEF BlocksWith
<1>5. Upto(b, i) = Upto(b, i - 1) \cup {t}
  <2>1. ASSUME NEW p \in Tx
        PROVE  p \in Upto(b, i) <=> p \in Upto(b, i - 1) \cup {t}
    BY <1>2, <1>3 DEF Upto
  <2> QED
    BY <2>1, <1>1 DEF Upto
<1>6. t \notin Upto(b, i - 1) => BlocksWith(t, b, i) = {b}
  BY <1>1, <1>3, <1>4 DEF Upto
<1> QED
  BY <1>2, <1>5, <1>6

\* A transaction that applies keeps the inputs of all transactions known.
LEMMA SpendsKnownStep ==
  ASSUME NEW b \in Block, NEW i \in DOMAIN Vtx[b], Applies(b, i)
  PROVE  SpendsKnown(b, i)
<1> DEFINE t == Vtx[b][i]
<1>1. t \in Tx /\ Upto(b, i) = Upto(b, i - 1) \cup {t}
  BY UptoStep, BlockAssumption
<1>2. ASSUME NEW o \in Vin[t]
      PROVE  o[1] \in Upto(b, i - 1)
  <2>1. o[1] \in Tx /\ o[2] \in CoinsAt(b, i - 1)[o[1]].vout
    BY <1>1, TxAssumption DEF Applies, HaveInputs
  <2>2. o[2] \in UnspentAt(o[1], b, i - 1)
    BY <2>1, CoinsVout
  <2> QED
    BY <2>2 DEF UnspentAt
<1> QED
  BY <1>1, <1>2 DEF Applies, SpendsKnown

\* UpdateCoins takes the coins from one transaction of a block to the next.
LEMMA UpdateAdvances ==
  ASSUME NEW b \in Block, NEW i \in DOMAIN Vtx[b], Applies(b, i)
  PROVE  UpdateCoins(CoinsAt(b, i - 1), Vtx[b][i], nHeight[b]) = CoinsAt(b, i)
<1> DEFINE t == Vtx[b][i]
           c == CoinsAt(b, i - 1)
<1>1. t \in Tx
  BY BlockAssumption
<1>2. /\ Upto(b, i) = Upto(b, i - 1) \cup {t}
      /\ \A p \in Tx \ {t} : BlocksWith(p, b, i) = BlocksWith(p, b, i - 1)
      /\ BlocksWith(t, b, i) = {b}
  BY UptoStep DEF Applies
<1>3. UpdateCoins(c, t, nHeight[b])[t] = CoinsAt(b, i)[t]
  <2>1. UnspentAt(t, b, i) = DOMAIN Vout[t]
    <3>1. ASSUME NEW u \in Upto(b, i), NEW n
          PROVE  <<t, n>> \notin Vin[u]
      <4>1. CASE u = t
        BY <4>1, <1>1, TxAssumption
      <4>2. CASE u \in Upto(b, i - 1)
        BY <4>2 DEF Applies, SpendsKnown
      <4> QED
        BY <4>1, <4>2, <1>2
    <3> QED
      BY <3>1, <1>2 DEF UnspentAt
  <2>2. DOMAIN Vout[t] # {}
    <3>1. Vout[t] \in Seq(Nat) /\ Vout[t] # <<>>
      BY <1>1, TxAssumption
    <3>2. Len(Vout[t]) # 0
      BY <3>1
    <3>3. Len(Vout[t]) \in Nat /\ DOMAIN Vout[t] = 1 .. Len(Vout[t])
      BY <3>1
    <3>4. 1 \in DOMAIN Vout[t]
      BY <3>2, <3>3
    <3> QED
      BY <3>4
  <2>3. (CHOOSE a : a \in BlocksWith(t, b, i)) = b
    BY <1>2
  <2>4. CoinsAt(b, i)[t] = FullCoins(t, nHeight[b])
    BY <2>1, <2>2, <2>3, <1>1 DEF CoinsAt, FullCoins
  <2> QED
    BY <2>4, <1>1 DEF UpdateCoins
<1>4. ASSUME NEW p \in Tx, p # t
      PROVE  UpdateCoins(c, t, nHeight[b])[p] = CoinsAt(b, i)[p]
  <2>1. UnspentAt(p, b, i) = UnspentAt(p, b, i - 1) \ SpentBy(p, t)
    BY <1>2, <1>4 DEF UnspentAt, SpentBy
  <2>2. BlocksWith(p, b, i) = BlocksWith(p, b, i - 1)
    BY <1>2, <1>4
  <2>3. SpentBy(p, t) \subseteq UnspentAt(p, b, i - 1)
    BY <1>4, CoinsVout DEF Applies, HaveInputs, SpentBy
  <2>4. CASE SpentBy(p, t) = {}
    BY <2>1, <2>2, <2>4, <1>4 DEF UpdateCoins, CoinsAt
  <2>5. CASE SpentBy(p, t) # {}
    <3>1. UpdateCoins(c, t, nHeight[b])[p] = Spend(c[p], SpentBy(p, t))
      BY <2>5, <1>4 DEF UpdateCoins
    <3>2. c[p] = [vout |-> UnspentAt(p, b, i - 1),
                  nHeight |-> nHeight[CHOOSE a : a \in BlocksWith(p, b, i - 1)]]
      BY <2>3, <2>5, <1>4 DEF CoinsAt
    <3> QED
      BY <3>1, <3>2, <2>1, <2>2, <1>4, SMTT(30) DEF Spend, CoinsAt
  <2> QED
    BY <2>4, <2>5
<1>5. \A p \in Tx : UpdateCoins(c, t, nHeight[b])[p] = CoinsAt(b, i)[p]
  BY <1>3, <1>4
<1>6. /\ UpdateCoins(c, t, nHeight[b]) = [p \in Tx |-> UpdateCoins(c, t, nHeight[b])[p]]
      /\ CoinsAt(b, i) = [p \in Tx |-> CoinsAt(b, i)[p]]
  BY DEF UpdateCoins, CoinsAt
<1> QED
  BY <1>5, <1>6

--------------------------------------------------------------------------------
\* The invariant.

\* What ConnectBlock says of the i-th transaction of b, on the coins that precede it.
VerdictOn(b, i, c) ==
    IF i = 1 /\ Malformed(b, c) THEN "invalid"
    ELSE IF Vtx[b][i] \in Minted THEN "ok"
    ELSE CheckInputs(Vtx[b][i], c, Prev[b], HasScriptChecks(b))

VerdictAt(b, i) == VerdictOn(b, i, CoinsAt(b, i - 1))

\* The blocks that were connected once.
Connected == nUndoPos \cup {Genesis}

\* Their transactions applied, and their undo data leads back.
UndoInv ==
    /\ \A b \in Connected : SpendsKnown(b, Len(Vtx[b]))
    /\ \A b \in nUndoPos :
          /\ b # Genesis /\ Prev[b] \in Connected
          /\ \A i \in DOMAIN Vtx[b] : Applies(b, i)
          /\ vtxundo[b] = UndoAt(b, Len(Vtx[b]))

\* pcoinsTip holds the coins of the tip, and the database those of its best block.
TipInv ==
    /\ pindexBest \in Connected /\ pcoinsTip = Tip(pindexBest)
    /\ coinsBest \in Connected /\ pcoinsdbview = Tip(coinsBest)

\* The first nTx transactions of b are in the view.
PartlyConnected(b) ==
    /\ nTx <= Len(Vtx[b])
    /\ view = CoinsAt(b, nTx)
    /\ blockundo = UndoAt(b, nTx)
    /\ \A i \in 1 .. nTx : Applies(b, i) /\ VerdictAt(b, i) = "ok"

ViewInv ==
    /\ viewBest \in Connected
    /\ pc = "disconnect" =>
          /\ nTx <= Len(Vtx[viewBest])
          /\ viewBest \in Chain[pindexNew] => nTx = Len(Vtx[viewBest])
          /\ view = CoinsAt(viewBest, nTx)
    /\ pc # "connect" => blockundo = <<>>
    /\ pc = "connect" /\ nTx = 0 => view = Tip(viewBest)
    /\ pc = "connect" /\ nTx > 0 =>
          /\ viewBest # pindexNew
          /\ \A b \in Block : IsNextBlock(b) => PartlyConnected(b)

\* A verdict is that of the first transaction that is not in order.
VerdictInv ==
    \A b \in Block :
        /\ verdict[b] = "ok" => \A i \in DOMAIN Vtx[b] : VerdictAt(b, i) = "ok"
        /\ verdict[b] \in {"invalid", "error"} =>
              \E i \in DOMAIN Vtx[b] : /\ VerdictAt(b, i) = verdict[b]
                                       /\ \A j \in 1 .. (i - 1) : VerdictAt(b, j) = "ok"

LInv == CoinsTypeOK /\ UndoInv /\ TipInv /\ ViewInv /\ VerdictInv /\ fClean

--------------------------------------------------------------------------------
\* A transaction that ConnectBlock takes is new to the chain: a minted one by its time,
\* any other because it would have spent its own inputs.
LEMMA VerdictApplies ==
  ASSUME NEW b \in Block, NEW i \in DOMAIN Vtx[b],
         SpendsKnown(b, i - 1), VerdictAt(b, i) = "ok"
  PROVE  Applies(b, i)
<1> DEFINE t == Vtx[b][i]
<1>1. t \in Tx /\ i \in Int /\ DOMAIN Vtx[b] \subseteq Int
  BY BlockAssumption
<1>2. CASE t \in Minted
  <2>1. Vin[t] = {}
    BY <1>1, <1>2, TxAssumption
  <2>2. ASSUME NEW a \in BlocksWith(t, b, i - 1)
        PROVE  FALSE
    <3>1. PICK j \in DOMAIN Vtx[a] : Vtx[a][j] = t /\ (a = b => j <= i - 1)
      BY DEF BlocksWith
    <3>2. CASE a = b
      BY <3>1, <3>2, <1>1, BlockAssumption
    <3>3. CASE a # b
      BY <3>1, <3>3, <1>2, MintedAssumption DEF BlocksWith
    <3> QED
      BY <3>2, <3>3
  <2> QED
    BY <2>1, <2>2 DEF Applies, Upto, HaveInputs
<1>3. CASE t \notin Minted
  <2>1. CheckInputs(t, CoinsAt(b, i - 1), Prev[b], HasScriptChecks(b)) = "ok"
    BY <1>3 DEF VerdictAt, VerdictOn
  <2>2. HaveInputs(t, CoinsAt(b, i - 1))
    BY <2>1 DEF CheckInputs
  <2>3. PICK o \in Vin[t] : TRUE
    BY <1>1, <1>3, TxAssumption
  <2>4. o = <<o[1], o[2]>> /\ o[1] \in Tx
    BY <1>1, TxAssumption
  <2>5. o[2] \in UnspentAt(o[1], b, i - 1)
    BY <2>2, <2>4, CoinsVout DEF HaveInputs
  <2>6. t \notin Upto(b, i - 1)
    BY <2>3, <2>4, <2>5 DEF UnspentAt
  <2> QED
    BY <2>2, <2>6 DEF Applies
<1> QED
  BY <1>2, <1>3

\* The view on the way to the next block.
LEMMA NextBlockView ==
  ASSUME LInv, pc = "connect", NEW b \in Block, IsNextBlock(b)
  PROVE  /\ b # Genesis /\ viewBest # pindexNew
         /\ PartlyConnected(b)
         /\ SpendsKnown(b, nTx)
<1>1. b # Genesis /\ viewBest \in Block /\ b \in Chain[pindexNew] /\ pindexNew \in Block
  BY TreeAssumption DEF LInv, CoinsTypeOK, IsNextBlock
<1>2. viewBest # pindexNew
  BY <1>1, NotOwnAncestor DEF IsNextBlock
<1>3. nTx \in Nat /\ Len(Vtx[b]) \in Nat /\ DOMAIN Vtx[b] = 1 .. Len(Vtx[b])
  BY BlockAssumption DEF LInv, CoinsTypeOK
<1>4. CASE nTx = 0
  <2>1. view = CoinsAt(b, 0) /\ Upto(b, 0) = Upto(viewBest, Len(Vtx[viewBest]))
    BY <1>1, <1>4, CoinsOfParent DEF LInv, ViewInv, IsNextBlock
  <2>2. SpendsKnown(viewBest, Len(Vtx[viewBest]))
    BY DEF LInv, UndoInv, ViewInv
  <2>3. blockundo = <<>>
    BY <1>4 DEF LInv, CoinsTypeOK
  <2>4. UndoAt(b, 0) = <<>>
    BY DEF UndoAt
  <2> QED
    BY <1>1, <1>2, <1>3, <1>4, <2>1, <2>2, <2>3, <2>4 DEF SpendsKnown, PartlyConnected
<1>5. CASE nTx > 0
  <2>1. PartlyConnected(b)
    BY <1>5 DEF LInv, ViewInv
  <2>2. nTx \in DOMAIN Vtx[b] /\ Applies(b, nTx)
    BY <1>3, <1>5, <2>1 DEF PartlyConnected
  <2> QED
    BY <1>1, <1>2, <2>1, <2>2, SpendsKnownStep
<1> QED
  BY <1>3, <1>4, <1>5

\* CheckInputs on the view of SetBestChain gives the verdict of the block's own chain.
LEMMA NextVerdict ==
  ASSUME LInv, pc = "connect", NEW b \in Block, IsNextBlock(b), nTx < Len(Vtx[b])
  PROVE  /\ nTx + 1 \in DOMAIN Vtx[b]
         /\ TxVerdict(b) = VerdictAt(b, nTx + 1)
<1>1. PartlyConnected(b)
  BY NextBlockView
<1>2. nTx \in Nat /\ Len(Vtx[b]) \in Nat /\ DOMAIN Vtx[b] = 1 .. Len(Vtx[b])
  BY BlockAssumption DEF LInv, CoinsTypeOK
<1>3. nTx = 0 <=> nTx + 1 = 1
  BY <1>2
<1>4. (nTx + 1) - 1 = nTx
  BY <1>2
<1>5. CoinsAt(b, (nTx + 1) - 1) = view /\ Prev[b] = viewBest
  BY <1>1, <1>4 DEF PartlyConnected, IsNextBlock
<1>6. TxVerdict(b) = VerdictOn(b, nTx + 1, view)
  BY <1>3, <1>5 DEF TxVerdict, VerdictOn
<1>7. VerdictAt(b, nTx + 1) = VerdictOn(b, nTx + 1, view)
  BY <1>5 DEF VerdictAt
<1> QED
  BY <1>2, <1>6, <1>7

\* The verdicts there are.
LEMMA VerdictType ==
  ASSUME NEW b, NEW i
  PROVE  VerdictAt(b, i) \in {"ok", "invalid", "error"}
  BY DEF VerdictAt, VerdictOn, CheckInputs

\* Append keeps the type of a sequence.
LEMMA AppendType ==
  ASSUME NEW S, NEW s \in Seq(S), NEW x \in S
  PROVE  Append(s, x) \in Seq(S) /\ Len(Append(s, x)) = Len(s) + 1
  OBVIOUS

\* The undo data of one more transaction.
LEMMA UndoStep ==
  ASSUME NEW b \in Block, NEW k \in Nat, UndoAt(b, k) \in Seq([Tx -> Nat])
  PROVE  /\ UndoAt(b, k + 1) = Append(UndoAt(b, k), TxUndo(CoinsAt(b, k), Vtx[b][k + 1]))
         /\ UndoAt(b, k + 1) \in Seq([Tx -> Nat])
         /\ Len(UndoAt(b, k + 1)) = k + 1
<1> DEFINE x == TxUndo(CoinsAt(b, k), Vtx[b][k + 1])
           U(i) == TxUndo(CoinsAt(b, i - 1), Vtx[b][i])
<1>1. x \in [Tx -> Nat]
  BY CoinsNormal DEF TxUndo, Normal, CCoins
<1>2. x = U(k + 1)
  <2>1. (k + 1) - 1 = k
    OBVIOUS
  <2> QED
    BY <2>1
<1> HIDE DEF x, U
<1>3. UndoAt(b, k) = [i \in 1 .. k |-> U(i)] /\ UndoAt(b, k + 1) = [i \in 1 .. (k + 1) |-> U(i)]
  BY DEF UndoAt, U
<1>4. Len(UndoAt(b, k)) = k
  BY <1>3
<1>5. UndoAt(b, k + 1) = Append(UndoAt(b, k), x)
  BY <1>2, <1>3, <1>4
<1>6. UndoAt(b, k + 1) \in Seq([Tx -> Nat]) /\ Len(UndoAt(b, k + 1)) = k + 1
  <2>1. /\ Append(UndoAt(b, k), x) \in Seq([Tx -> Nat])
        /\ Len(Append(UndoAt(b, k), x)) = Len(UndoAt(b, k)) + 1
    BY <1>1, AppendType
  <2> QED
    BY <2>1, <1>4, <1>5
<1> QED
  BY <1>5, <1>6 DEF x

\* DisconnectBlock finds the coins as it should, and takes them one transaction back.
LEMMA DisconnectFindsCoins ==
  ASSUME LInv, pc = "disconnect", viewBest \notin Chain[pindexNew], nTx > 0
  PROVE  LET t == Vtx[viewBest][nTx]
             undo == vtxundo[viewBest][nTx]
         IN  /\ IsClean(view, t, undo, nHeight[viewBest])
             /\ RestoreCoins(view, t, undo) = CoinsAt(viewBest, nTx - 1)
<1> DEFINE b == viewBest
           t == Vtx[b][nTx]
           c == CoinsAt(b, nTx - 1)
<1>1. b \in Block /\ pindexNew \in Block /\ nTx \in Nat
  BY DEF LInv, CoinsTypeOK
<1>2. b \in nUndoPos
  BY <1>1, RootedAssumption DEF LInv, ViewInv, Connected
<1>3. Len(Vtx[b]) \in Nat /\ DOMAIN Vtx[b] = 1 .. Len(Vtx[b])
  BY <1>1, BlockAssumption
<1>4. nTx \in 1 .. Len(Vtx[b]) /\ view = CoinsAt(b, nTx)
  BY <1>1, <1>3 DEF LInv, ViewInv
<1>5. nTx \in DOMAIN Vtx[b] /\ t \in Tx
  BY <1>1, <1>3, <1>4, BlockAssumption
<1>6. Applies(b, nTx)
  BY <1>2, <1>5 DEF LInv, UndoInv
<1>7. view = UpdateCoins(c, t, nHeight[b])
  BY <1>1, <1>4, <1>5, <1>6, UpdateAdvances
<1>8. vtxundo[b][nTx] = TxUndo(c, t)
  <2>1. vtxundo[b] = UndoAt(b, Len(Vtx[b]))
    BY <1>2 DEF LInv, UndoInv
  <2> QED
    BY <2>1, <1>4 DEF UndoAt
<1>9. Normal(c) /\ c[t] = Pruned /\ HaveInputs(t, c) /\ nHeight[b] \in Nat
  BY <1>1, <1>5, <1>6, CoinsNormal, CoinsOfUnknown, HeightRecursion DEF Applies
<1> HIDE DEF b, t, c
<1>10. /\ IsClean(UpdateCoins(c, t, nHeight[b]), t, TxUndo(c, t), nHeight[b])
       /\ RestoreCoins(UpdateCoins(c, t, nHeight[b]), t, TxUndo(c, t)) = c
  BY <1>5, <1>9, UndoRestores
<1>11. /\ IsClean(view, t, vtxundo[b][nTx], nHeight[b])
       /\ RestoreCoins(view, t, vtxundo[b][nTx]) = c
  BY <1>7, <1>8, <1>10
<1> QED
  BY <1>11 DEF b, t, c

\* A step that throws the view away keeps what is known of the view.
LEMMA NoViewInv ==
  ASSUME LInv, NoView, TipInv', UndoInv', nUndoPos \subseteq nUndoPos'
  PROVE  ViewInv'
  BY DEF NoView, ViewInv, TipInv, Connected

\* What does not touch what is on disk and the tip keeps what is known of them.
LEMMA SameTip ==
  ASSUME LInv, UNCHANGED <<pindexBest, pcoinsTip, diskVars>>
  PROVE  TipInv' /\ UndoInv'
  BY DEF LInv, TipInv, UndoInv, Connected, diskVars

\* Every step keeps the invariant.
LEMMA LInvStep ==
  ASSUME LInv, [LedgerNext]_ledgerVars
  PROVE  LInv'
<1> USE DEF viewVars, diskVars, totalVars, ledgerVars
<1>0. ASSUME NEW a \in Block
      PROVE  /\ Len(Vtx[a]) \in Nat
             /\ DOMAIN Vtx[a] = 1 .. Len(Vtx[a])
             /\ \A i \in DOMAIN Vtx[a] : Vtx[a][i] \in Tx
  BY BlockAssumption
<1>t. ASSUME NEW a \in Block, NEW i
      PROVE  CoinsAt(a, i) \in [Tx -> CCoins]
  BY CoinsNormal DEF Normal
<1>1. ASSUME NEW b \in Block, BeginSetBestChain(b)
      PROVE  LInv'
  <2>1. TipInv' /\ UndoInv'
    BY <1>1, SameTip DEF BeginSetBestChain
  <2>2. CoinsTypeOK'
    BY <1>1, <1>0 DEF BeginSetBestChain, LInv, CoinsTypeOK
  <2>3. ViewInv'
    BY <1>1, <1>0 DEF BeginSetBestChain, LInv, ViewInv, TipInv, Tip, Connected, CoinsTypeOK
  <2>4. VerdictInv' /\ fClean'
    BY <1>1 DEF BeginSetBestChain, LInv, VerdictInv
  <2> QED
    BY <2>1, <2>2, <2>3, <2>4 DEF LInv
<1>2. ASSUME DisconnectTx
      PROVE  LInv'
  <2>1. TipInv' /\ UndoInv'
    BY <1>2, SameTip DEF DisconnectTx
  <2>2. /\ fClean' /\ view' = CoinsAt(viewBest, nTx - 1) /\ nTx' = nTx - 1
        /\ UNCHANGED <<pc, pindexNew, viewBest, blockundo>>
    BY <1>2, DisconnectFindsCoins DEF DisconnectTx
  <2>3. nTx' \in Nat
    BY <1>2, <2>2 DEF DisconnectTx, LInv, CoinsTypeOK
  <2>4. CoinsTypeOK'
    BY <1>2, <2>2, <2>3, <1>t DEF DisconnectTx, LInv, CoinsTypeOK
  <2>5. ViewInv'
    BY <1>2, <2>2, <2>3, <1>0 DEF DisconnectTx, LInv, ViewInv, Connected, CoinsTypeOK
  <2>6. VerdictInv'
    BY <1>2 DEF DisconnectTx, LInv, VerdictInv
  <2> QED
    BY <2>1, <2>2, <2>4, <2>5, <2>6 DEF LInv
<1>3. ASSUME DisconnectBlock
      PROVE  LInv'
  <2>1. TipInv' /\ UndoInv'
    BY <1>3, SameTip DEF DisconnectBlock
  <2>2. viewBest \in nUndoPos /\ viewBest \in Block /\ viewBest # Genesis
    BY <1>3, RootedAssumption DEF DisconnectBlock, LInv, ViewInv, UndoInv, Connected,
       CoinsTypeOK
  <2>3. /\ Prev[viewBest] \in Block /\ Prev[viewBest] \in Connected
        /\ CoinsAt(viewBest, 0) = Tip(Prev[viewBest])
    BY <2>2, CoinsOfParent DEF LInv, UndoInv
  <2>4. CoinsTypeOK'
    BY <1>3, <2>3, <1>0 DEF DisconnectBlock, LInv, CoinsTypeOK
  <2>5. ViewInv'
    BY <1>3, <2>3, <1>0 DEF DisconnectBlock, LInv, ViewInv, Connected, Tip
  <2>6. VerdictInv' /\ fClean'
    BY <1>3 DEF DisconnectBlock, LInv, VerdictInv
  <2> QED
    BY <2>1, <2>4, <2>5, <2>6 DEF LInv
<1>4. ASSUME ReachFork
      PROVE  LInv'
  <2>1. TipInv' /\ UndoInv'
    BY <1>4, SameTip DEF ReachFork
  <2>2. CoinsTypeOK'
    BY <1>4 DEF ReachFork, LInv, CoinsTypeOK, ViewInv
  <2>3. ViewInv'
    BY <1>4 DEF ReachFork, LInv, ViewInv, Connected, Tip
  <2>4. VerdictInv' /\ fClean'
    BY <1>4 DEF ReachFork, LInv, VerdictInv
  <2> QED
    BY <2>1, <2>2, <2>3, <2>4 DEF LInv
<1>5. ASSUME NEW b \in Block, ConnectTx(b)
      PROVE  LInv'
  <2> DEFINE t == Vtx[b][nTx + 1]
  <2>1. TipInv' /\ UndoInv'
    BY <1>5, SameTip DEF ConnectTx
  <2>2. pc = "connect" /\ IsNextBlock(b) /\ nTx < Len(Vtx[b]) /\ nTx \in Nat
    BY <1>5 DEF ConnectTx, LInv, CoinsTypeOK
  <2>3. /\ b # Genesis /\ viewBest # pindexNew
        /\ nTx <= Len(Vtx[b]) /\ view = CoinsAt(b, nTx) /\ blockundo = UndoAt(b, nTx)
        /\ \A i \in 1 .. nTx : Applies(b, i) /\ VerdictAt(b, i) = "ok"
        /\ SpendsKnown(b, nTx)
    BY <2>2, NextBlockView DEF PartlyConnected
  <2>4. nTx + 1 \in DOMAIN Vtx[b] /\ VerdictAt(b, nTx + 1) = "ok"
    BY <1>5, <2>2, NextVerdict DEF ConnectTx
  <2>5. (nTx + 1) - 1 = nTx
    BY <2>2
  <2>6. Applies(b, nTx + 1)
    BY <2>3, <2>4, <2>5, VerdictApplies
  <2>7. view' = CoinsAt(b, nTx + 1)
    BY <1>5, <2>3, <2>4, <2>5, <2>6, UpdateAdvances DEF ConnectTx
  <2>8. /\ blockundo' = UndoAt(b, nTx + 1)
        /\ blockundo' \in Seq([Tx -> Nat]) /\ Len(blockundo') = nTx + 1
    <3>1. UndoAt(b, nTx) \in Seq([Tx -> Nat])
      BY <2>3 DEF LInv, CoinsTypeOK
    <3>2. blockundo' = Append(UndoAt(b, nTx), TxUndo(CoinsAt(b, nTx), Vtx[b][nTx + 1]))
      BY <1>5, <2>3 DEF ConnectTx
    <3> QED
      BY <3>1, <3>2, <2>2, UndoStep
  <2>9. CoinsTypeOK'
    BY <1>5, <2>2, <2>7, <2>8, <1>t DEF ConnectTx, LInv, CoinsTypeOK
  <2>10. ViewInv'
    <3>1. /\ pc' = "connect" /\ nTx' = nTx + 1 /\ viewBest' = viewBest
          /\ pindexNew' = pindexNew /\ nUndoPos' = nUndoPos
      BY <1>5 DEF ConnectTx
    <3>2. PartlyConnected(b)'
      <4>1. \A i \in 1 .. (nTx + 1) : Applies(b, i) /\ VerdictAt(b, i) = "ok"
        BY <2>2, <2>3, <2>4, <2>6
      <4>2. nTx + 1 <= Len(Vtx[b])
        BY <2>2, <1>0
      <4>3. nTx' <= Len(Vtx[b]) /\ view' = CoinsAt(b, nTx') /\ blockundo' = UndoAt(b, nTx')
        BY <4>2, <3>1, <2>7, <2>8
      <4>4. \A i \in 1 .. nTx' : Applies(b, i) /\ VerdictAt(b, i) = "ok"
        BY <4>1, <3>1
      <4> QED
        BY <4>3, <4>4 DEF PartlyConnected
    <3>3. ASSUME NEW a \in Block, IsNextBlock(a)'
          PROVE  a = b
      BY <3>1, <3>3, <2>2, OneChild DEF IsNextBlock, LInv, CoinsTypeOK
    <3> QED
      BY <3>1, <3>2, <3>3, <2>2, <2>3 DEF ViewInv, LInv, Connected
  <2>11. VerdictInv' /\ fClean'
    BY <1>5 DEF ConnectTx, LInv, VerdictInv
  <2> QED
    BY <2>1, <2>9, <2>10, <2>11 DEF LInv
<1>6. ASSUME NEW b \in Block, RefuseTx(b)
      PROVE  LInv'
  <2>1. TipInv' /\ UndoInv'
    BY <1>6, SameTip DEF RefuseTx
  <2>2. pc = "connect" /\ IsNextBlock(b) /\ nTx < Len(Vtx[b]) /\ nTx \in Nat
    BY <1>6 DEF RefuseTx, LInv, CoinsTypeOK
  <2>3. \A i \in 1 .. nTx : VerdictAt(b, i) = "ok"
    BY <2>2, NextBlockView DEF PartlyConnected
  <2>4. /\ nTx + 1 \in DOMAIN Vtx[b] /\ VerdictAt(b, nTx + 1) # "ok"
        /\ verdict' = [verdict EXCEPT ![b] = VerdictAt(b, nTx + 1)]
    BY <1>6, <2>2, NextVerdict DEF RefuseTx
  <2>5. VerdictAt(b, nTx + 1) \in {"invalid", "error"}
    BY <2>4, VerdictType
  <2>6. CoinsTypeOK'
    BY <1>6, <2>4, <2>5 DEF RefuseTx, NoView, LInv, CoinsTypeOK
  <2>7. ViewInv'
    BY <1>6, <2>1, NoViewInv DEF RefuseTx
  <2>8. VerdictInv'
    <3>1. verdict \in [Block -> {"none", "ok", "invalid", "error"}]
      BY DEF LInv, CoinsTypeOK
    <3>2. \A j \in 1 .. ((nTx + 1) - 1) : VerdictAt(b, j) = "ok"
      BY <2>2, <2>3
    <3> QED
      BY <3>1, <3>2, <2>4, <2>5 DEF VerdictInv, LInv
  <2>9. fClean'
    BY <1>6 DEF RefuseTx, LInv
  <2> QED
    BY <2>1, <2>6, <2>7, <2>8, <2>9 DEF LInv
<1>7. ASSUME NEW b \in Block, ConnectBlock(b)
      PROVE  LInv'
  <2>1. pc = "connect" /\ IsNextBlock(b) /\ nTx = Len(Vtx[b])
    BY <1>7 DEF ConnectBlock
  <2>2. /\ b # Genesis
        /\ view = CoinsAt(b, nTx) /\ blockundo = UndoAt(b, nTx)
        /\ \A i \in DOMAIN Vtx[b] : Applies(b, i) /\ VerdictAt(b, i) = "ok"
        /\ SpendsKnown(b, nTx)
    BY <2>1, <1>0, NextBlockView DEF PartlyConnected
  <2>3. Prev[b] \in Connected
    BY <2>1 DEF IsNextBlock, LInv, ViewInv
  <2>4. UndoInv'
    <3>1. nUndoPos' = nUndoPos \cup {b}
      BY <1>7 DEF ConnectBlock
    <3>2. vtxundo'[b] = UndoAt(b, Len(Vtx[b]))
      BY <1>7, <2>1, <2>2 DEF ConnectBlock, LInv, UndoInv, CoinsTypeOK
    <3>3. \A a \in nUndoPos : vtxundo'[a] = UndoAt(a, Len(Vtx[a]))
      BY <1>7, <3>2 DEF ConnectBlock, LInv, UndoInv, CoinsTypeOK
    <3> QED
      BY <3>1, <3>2, <3>3, <2>1, <2>2, <2>3 DEF UndoInv, Connected, LInv
  <2>5. TipInv'
    BY <1>7 DEF ConnectBlock, TipInv, LInv, Connected
  <2>6. CoinsTypeOK'
    BY <1>7 DEF ConnectBlock, LInv, CoinsTypeOK
  <2>7. ViewInv'
    BY <1>7, <2>1, <2>2 DEF ConnectBlock, ViewInv, Connected, Tip
  <2>8. VerdictInv'
    <3>1. verdict \in [Block -> {"none", "ok", "invalid", "error"}]
      BY DEF LInv, CoinsTypeOK
    <3> QED
      BY <1>7, <3>1, <2>2 DEF ConnectBlock, VerdictInv, LInv
  <2>9. fClean'
    BY <1>7 DEF ConnectBlock, LInv
  <2> QED
    BY <2>4, <2>5, <2>6, <2>7, <2>8, <2>9 DEF LInv
<1>8. ASSUME NEW f \in BOOLEAN, FlushView(f)
      PROVE  LInv'
  <2>1. view = Tip(viewBest) /\ viewBest \in Connected
    BY <1>8 DEF FlushView, LInv, ViewInv, CoinsTypeOK
  <2>2. TipInv'
    <3>1. pindexBest' \in Connected' /\ pcoinsTip' = Tip(pindexBest)'
      BY <1>8, <2>1 DEF FlushView, Connected
    <3>2. CASE f
      BY <1>8, <2>1, <3>1, <3>2 DEF FlushView, TipInv, Connected
    <3>3. CASE ~f
      BY <1>8, <3>1, <3>3 DEF FlushView, LInv, TipInv, Connected
    <3> QED
      BY <3>2, <3>3
  <2>3. UndoInv'
    BY <1>8 DEF FlushView, LInv, UndoInv, Connected
  <2>4. ViewInv'
    BY <1>8, <2>2, <2>3, NoViewInv DEF FlushView
  <2>5. CoinsTypeOK'
    BY <1>8 DEF FlushView, NoView, LInv, CoinsTypeOK
  <2>6. VerdictInv' /\ fClean'
    BY <1>8 DEF FlushView, LInv, VerdictInv
  <2> QED
    BY <2>2, <2>3, <2>4, <2>5, <2>6 DEF LInv
<1>9. ASSUME NEW f \in BOOLEAN, LedgerRestart(f)
      PROVE  LInv'
  <2>1. TipInv' /\ UndoInv'
    BY <1>9 DEF LedgerRestart, LInv, TipInv, UndoInv, Connected
  <2>2. ViewInv'
    BY <1>9, <2>1, NoViewInv DEF LedgerRestart
  <2>3. CoinsTypeOK'
    BY <1>9, LedgerRestartAssumption DEF LedgerRestart, NoView, LInv, CoinsTypeOK
  <2>4. VerdictInv' /\ fClean'
    BY <1>9 DEF LedgerRestart, LInv, VerdictInv
  <2> QED
    BY <2>1, <2>2, <2>3, <2>4 DEF LInv
<1>10. ASSUME UNCHANGED ledgerVars
       PROVE  LInv'
  <2>1. TipInv' /\ UndoInv'
    BY <1>10, SameTip
  <2>2. CoinsTypeOK' /\ fClean'
    BY <1>10 DEF LInv, CoinsTypeOK
  <2>3. ViewInv'
    BY <1>10 DEF LInv, ViewInv, Connected, PartlyConnected, IsNextBlock
  <2>4. VerdictInv'
    BY <1>10 DEF LInv, VerdictInv
  <2> QED
    BY <2>1, <2>2, <2>3, <2>4 DEF LInv
<1> QED
  BY <1>1, <1>2, <1>3, <1>4, <1>5, <1>6, <1>7, <1>8, <1>9, <1>10 DEF LedgerNext

\* The invariant holds after InitBlockIndex.
LEMMA LInvInit ==
  ASSUME LedgerInit
  PROVE  LInv
<1>1. Chain[Genesis] = {Genesis} /\ Vtx[Genesis] = <<>> /\ Genesis \in Block
  BY ChainOfGenesis, BlockAssumption, TreeAssumption
<1>2. \A i : Upto(Genesis, i) = {}
  BY <1>1 DEF Upto, BlocksWith
<1>3. Tip(Genesis) = [t \in Tx |-> Pruned]
  BY <1>2 DEF Tip, CoinsAt, UnspentAt
<1>4. SpendsKnown(Genesis, Len(Vtx[Genesis]))
  BY <1>2 DEF SpendsKnown
<1>5. CoinsTypeOK
  BY <1>1, LedgerRestartAssumption DEF LedgerInit, CoinsTypeOK, CCoins, Pruned
<1>6. UndoInv /\ TipInv
  BY <1>3, <1>4 DEF LedgerInit, UndoInv, TipInv, Connected
<1>7. ViewInv /\ VerdictInv /\ fClean
  BY DEF LedgerInit, ViewInv, VerdictInv, Connected
<1> QED
  BY <1>5, <1>6, <1>7 DEF LInv

\* The invariant holds throughout.
LEMMA LInvHolds ==
  LedgerSpec => []LInv
  BY LInvInit, LInvStep, PTL DEF LedgerSpec

--------------------------------------------------------------------------------

\* The coins, the view and the undo data keep their types.
THEOREM CoinsTypeCorrect ==
  LedgerSpec => []CoinsTypeOK
<1>1. LInv => CoinsTypeOK
  BY DEF LInv
<1> QED
  BY <1>1, LInvHolds, PTL

\* The coins after all transactions of a block are those its chain leaves unspent.
LEMMA TipIsUnspent ==
  ASSUME NEW b \in Block
  PROVE  /\ Upto(b, Len(Vtx[b])) = ChainTxs(b) /\ ChainTxs(b) \subseteq Tx
         /\ \A t \in Tx : Tip(b)[t].vout = UnspentIn(t, b)
<1> DEFINE k == Len(Vtx[b])
<1>1. k \in Nat /\ DOMAIN Vtx[b] = 1 .. k
  BY BlockAssumption
<1>2. ASSUME NEW p, NEW a \in Chain[b]
      PROVE  a \in BlocksWith(p, b, k) <=> p \in TxsOf(a)
  BY <1>1, <1>2 DEF BlocksWith, TxsOf
<1>3. \A p \in Tx : p \in Upto(b, k) <=> p \in ChainTxs(b)
  BY <1>2 DEF Upto, ChainTxs, BlocksWith
<1>4. ChainTxs(b) \subseteq Tx
  BY ChainType, BlockAssumption DEF ChainTxs, TxsOf
<1>5. Upto(b, k) = ChainTxs(b)
  BY <1>3, <1>4 DEF Upto
<1>6. \A t \in Tx : UnspentAt(t, b, k) = UnspentIn(t, b)
  BY <1>5 DEF UnspentAt, UnspentIn
<1> QED
  BY <1>4, <1>5, <1>6, CoinsVout DEF Tip

\* With the invariant the coins are exact.
LEMMA TipCoinsExact ==
  ASSUME LInv
  PROVE  CoinsExact
<1> SUFFICES ASSUME NEW t \in Tx
             PROVE  /\ pcoinsTip[t].vout = UnspentIn(t, pindexBest)
                    /\ pcoinsTip[t].vout # {} =>
                          \E a \in Chain[pindexBest] :
                              t \in TxsOf(a) /\ pcoinsTip[t].nHeight = nHeight[a]
  BY DEF CoinsExact
<1> DEFINE b == pindexBest
           k == Len(Vtx[b])
<1>1. b \in Block /\ pcoinsTip = CoinsAt(b, k)
  BY DEF LInv, TipInv, Tip, CoinsTypeOK
<1>2. k \in Nat /\ DOMAIN Vtx[b] = 1 .. k
  BY <1>1, BlockAssumption
<1>3. ASSUME NEW p, NEW a \in Chain[b]
      PROVE  a \in BlocksWith(p, b, k) <=> p \in TxsOf(a)
  BY <1>2, <1>3 DEF BlocksWith, TxsOf
<1>4. pcoinsTip[t].vout = UnspentAt(t, b, k)
  BY <1>1, CoinsVout
<1>5. pcoinsTip[t].vout = UnspentIn(t, b)
  BY <1>1, TipIsUnspent DEF Tip
<1>6. ASSUME pcoinsTip[t].vout # {}
      PROVE  \E a \in Chain[b] : t \in TxsOf(a) /\ pcoinsTip[t].nHeight = nHeight[a]
  <2>1. UnspentAt(t, b, k) # {} /\ BlocksWith(t, b, k) # {}
    BY <1>4, <1>5, <1>6 DEF UnspentAt, Upto
  <2>2. PICK a : a = CHOOSE x : x \in BlocksWith(t, b, k)
    OBVIOUS
  <2>3. a \in BlocksWith(t, b, k)
    BY <2>1, <2>2
  <2>4. pcoinsTip[t].nHeight = nHeight[a]
    BY <1>1, <2>1, <2>2 DEF CoinsAt
  <2>5. a \in Chain[b] /\ t \in TxsOf(a)
    BY <1>3, <2>3 DEF BlocksWith
  <2> QED
    BY <2>4, <2>5
<1> QED
  BY <1>5, <1>6

\* SetBestChain leaves in pcoinsTip what the chain of the tip creates and does not spend,
\* after any sequence of connected, disconnected and refused blocks and restarts.
THEOREM CoinsAreThoseOfTheChain ==
  LedgerSpec => []CoinsExact
  BY TipCoinsExact, LInvHolds, PTL

\* DisconnectBlock finds no fault in the coins or in the undo data, in any
\* reorganisation.
THEOREM ReorganisationsDisconnect ==
  LedgerSpec => []DisconnectsClean
<1>1. LInv => DisconnectsClean
  BY DEF LInv, DisconnectsClean
<1> QED
  BY <1>1, LInvHolds, PTL

\* A step does not change what ConnectBlock said of a block.
LEMMA VerdictsKept ==
  ASSUME LInv, [LedgerNext]_ledgerVars
  PROVE  \A b \in Block : verdict[b] # "none" => verdict'[b] = verdict[b]
<1>0. verdict \in [Block -> {"none", "ok", "invalid", "error"}]
  BY DEF LInv, CoinsTypeOK
<1>1. CASE UNCHANGED verdict
  BY <1>1
<1>2. ASSUME NEW b \in Block, RefuseTx(b)
      PROVE  verdict[b] # "none" => verdict'[b] = verdict[b]
  <2>1. pc = "connect" /\ IsNextBlock(b) /\ nTx < Len(Vtx[b]) /\ nTx \in Nat
    BY <1>2 DEF RefuseTx, LInv, CoinsTypeOK
  <2>2. \A i \in 1 .. nTx : VerdictAt(b, i) = "ok"
    BY <2>1, NextBlockView DEF PartlyConnected
  <2>3. /\ nTx + 1 \in DOMAIN Vtx[b] /\ VerdictAt(b, nTx + 1) # "ok"
        /\ verdict'[b] = VerdictAt(b, nTx + 1)
    BY <1>0, <1>2, <2>1, NextVerdict DEF RefuseTx
  <2>4. CASE verdict[b] = "ok"
    BY <2>3, <2>4 DEF LInv, VerdictInv
  <2>5. CASE verdict[b] \in {"invalid", "error"}
    <3>1. PICK i \in DOMAIN Vtx[b] : /\ VerdictAt(b, i) = verdict[b]
                                     /\ \A j \in 1 .. (i - 1) : VerdictAt(b, j) = "ok"
      BY <2>5 DEF LInv, VerdictInv
    <3>2. i \in Nat \ {0}
      BY BlockAssumption
    <3>3. ~(i <= nTx) /\ ~(nTx + 1 <= i - 1)
      BY <2>1, <2>2, <2>3, <2>5, <3>1, <3>2
    <3>4. i = nTx + 1
      BY <2>1, <3>2, <3>3
    <3> QED
      BY <2>3, <3>1, <3>4
  <2> QED
    BY <1>0, <2>4, <2>5
<1>3. ASSUME NEW b \in Block, ConnectBlock(b)
      PROVE  verdict[b] # "none" => verdict'[b] = verdict[b]
  <2>1. pc = "connect" /\ IsNextBlock(b) /\ nTx = Len(Vtx[b]) /\ verdict'[b] = "ok"
    BY <1>0, <1>3 DEF ConnectBlock
  <2>2. \A i \in DOMAIN Vtx[b] : VerdictAt(b, i) = "ok"
    BY <2>1, NextBlockView, BlockAssumption DEF PartlyConnected
  <2> QED
    BY <1>0, <2>1, <2>2 DEF LInv, VerdictInv
<1>4. CASE \E b \in Block : RefuseTx(b) \/ ConnectBlock(b)
  <2>1. PICK b \in Block : RefuseTx(b) \/ ConnectBlock(b)
    BY <1>4
  <2>2. \A a \in Block \ {b} : verdict'[a] = verdict[a]
    BY <1>0, <2>1 DEF RefuseTx, ConnectBlock
  <2> QED
    BY <1>2, <1>3, <2>1, <2>2
<1>5. UNCHANGED verdict \/ \E b \in Block : RefuseTx(b) \/ ConnectBlock(b)
  BY DEF LedgerNext, ledgerVars, BeginSetBestChain, DisconnectTx, DisconnectBlock,
              ReachFork, ConnectTx, FlushView, LedgerRestart
<1> QED
  BY <1>1, <1>4, <1>5

\* What ConnectBlock says of a block is a matter of the block and its ancestors: asked
\* again, after reorganisations and restarts, it says the same.
THEOREM VerdictsAreStable ==
  LedgerSpec => VerdictStable
<1>1. LInv /\ [LedgerNext]_ledgerVars =>
          [\A b \in Block : verdict[b] # "none" => verdict'[b] = verdict[b]]_ledgerVars
  BY VerdictsKept
<1> QED
  BY <1>1, LInvHolds, PTL DEF LedgerSpec, VerdictStable

--------------------------------------------------------------------------------
\* The money supply.

\* Outputs whose values can be summed.
HasValues(S) == IsFiniteSet(S) /\ \A o \in S : Vout[o[1]][o[2]] \in Nat

\* The value of outputs is that of two parts.
LEMMA ValueSplit ==
  ASSUME NEW S, HasValues(S), NEW A \in SUBSET S
  PROVE  /\ ValueOf(S) = ValueOf(A) + ValueOf(S \ A)
         /\ ValueOf(S) \in Nat /\ ValueOf(A) \in Nat /\ ValueOf(S \ A) \in Nat
<1> DEFINE f == [o \in S |-> Vout[o[1]][o[2]]]
           B == S \ A
<1>1. Summable(f) /\ DOMAIN f = S
  BY DEF Summable, HasValues
<1>2. \A T \in SUBSET S : [o \in T |-> f[o]] = [o \in T |-> Vout[o[1]][o[2]]]
  OBVIOUS
<1>3. \A T \in SUBSET S : ValueOf(T) = SumFunction([o \in T |-> f[o]])
  BY <1>2 DEF ValueOf
<1>4. ValueOf(S) = SumFunction(f)
  BY DEF ValueOf
<1> HIDE DEF f
<1>5. SumFunction(f) = SumFunction([o \in A |-> f[o]]) + SumFunction([o \in B |-> f[o]])
  BY <1>1, SumSplit
<1>6. B \in SUBSET S
  OBVIOUS
<1> HIDE DEF B
<1>7. ValueOf(S) = ValueOf(A) + ValueOf(B)
  BY <1>3, <1>4, <1>5, <1>6
<1>8. ValueOf(A) \in Nat /\ ValueOf(B) \in Nat
  BY <1>1, <1>3, <1>6, RestrictSummable
<1>9. ValueOf(S) \in Nat
  BY <1>7, <1>8
<1> QED
  BY <1>7, <1>8, <1>9 DEF B

\* No outputs have no value.
LEMMA ValueOfNone == ValueOf({}) = 0
  BY SumEmpty DEF ValueOf

\* Parts and unions of outputs with values have values.
LEMMA ValuesOfParts ==
  ASSUME NEW S, HasValues(S), NEW T
  PROVE  /\ \A A \in SUBSET S : HasValues(A)
         /\ HasValues(T) => HasValues(S \cup T)
<1>1. ASSUME NEW A \in SUBSET S
      PROVE  HasValues(A)
  BY FS_Subset DEF HasValues
<1>2. ASSUME HasValues(T)
      PROVE  HasValues(S \cup T)
  BY <1>2, FS_Union DEF HasValues
<1> QED
  BY <1>1, <1>2

\* The outputs of a transaction have values.
LEMMA TxOutputsHaveValues ==
  ASSUME NEW t \in Tx
  PROVE  HasValues(TxOutputs(t))
<1>1. Vout[t] \in Seq(Nat)
  BY TxAssumption
<1>2. Len(Vout[t]) \in Nat /\ DOMAIN Vout[t] = 1 .. Len(Vout[t])
  BY <1>1
<1>3. \A n \in DOMAIN Vout[t] : Vout[t][n] \in Nat
  BY <1>1
<1>4. IsFiniteSet(DOMAIN Vout[t])
  <2>1. Len(Vout[t]) \in Int /\ 1 \in Int
    BY <1>2
  <2>2. IsFiniteSet(1 .. Len(Vout[t]))
    BY <2>1, FS_Interval
  <2> QED
    BY <1>2, <2>2
<1>5. IsFiniteSet({t} \X DOMAIN Vout[t])
  BY <1>4, FS_Singleton, FS_Product
<1>6. \A o \in TxOutputs(t) : o[1] = t /\ o[2] \in DOMAIN Vout[t]
  BY DEF TxOutputs
<1> QED
  BY <1>3, <1>5, <1>6 DEF HasValues, TxOutputs

\* An unspent output is a pair.
LEMMA OutputsMember ==
  ASSUME NEW c, NEW o
  PROVE  o \in Outputs(c) <=> /\ o = <<o[1], o[2]>>
                              /\ o[1] \in Tx /\ o[2] \in c[o[1]].vout
  BY DEF Outputs

\* What a transaction does to the unspent outputs.
LEMMA OutputsStep ==
  ASSUME NEW b \in Block, NEW i \in DOMAIN Vtx[b], Applies(b, i)
  PROVE  LET t == Vtx[b][i]
             S == Outputs(CoinsAt(b, i - 1))
         IN  /\ Vin[t] \subseteq S
             /\ TxOutputs(t) \cap S = {}
             /\ Outputs(CoinsAt(b, i)) = (S \ Vin[t]) \cup TxOutputs(t)
<1> DEFINE t == Vtx[b][i]
           c == CoinsAt(b, i - 1)
           d == CoinsAt(b, i)
<1>1. t \in Tx
  BY BlockAssumption
<1>2. \A o \in Vin[t] : /\ o = <<o[1], o[2]>> /\ o[1] \in Tx
                        /\ o[1] # t /\ o[2] \in DOMAIN Vout[o[1]]
  BY <1>1, TxAssumption
<1>3. HaveInputs(t, c) /\ c[t] = Pruned /\ Normal(c)
  BY <1>1, CoinsOfUnknown, CoinsNormal DEF Applies
<1>4. d = UpdateCoins(c, t, nHeight[b])
  BY UpdateAdvances
<1> HIDE DEF t, c, d
<1>5. d[t].vout = DOMAIN Vout[t]
  BY <1>1, <1>4 DEF UpdateCoins, FullCoins
<1>6. \A p \in Tx : p # t => d[p].vout = c[p].vout \ SpentBy(p, t)
  <2> SUFFICES ASSUME NEW p \in Tx, p # t
               PROVE  d[p].vout = c[p].vout \ SpentBy(p, t)
    OBVIOUS
  <2>1. CASE SpentBy(p, t) = {}
    BY <1>4, <2>1 DEF UpdateCoins
  <2>2. CASE SpentBy(p, t) # {}
    <3>1. d[p] = Spend(c[p], SpentBy(p, t))
      BY <1>4, <2>2 DEF UpdateCoins
    <3> QED
      BY <3>1 DEF Spend, Pruned
  <2> QED
    BY <2>1, <2>2
<1>7. \A p \in Tx : c[p].vout \subseteq DOMAIN Vout[p]
  BY <1>3 DEF Normal
<1>8. Vin[t] \subseteq Outputs(c)
  BY <1>2, <1>3, OutputsMember DEF HaveInputs
<1>9. \A o \in TxOutputs(t) : o = <<o[1], o[2]>> /\ o[1] = t /\ o[2] \in DOMAIN Vout[t]
  BY DEF TxOutputs
<1>10. TxOutputs(t) \cap Outputs(c) = {}
  <2>1. c[t].vout = {}
    BY <1>3 DEF Pruned
  <2> QED
    BY <1>9, <2>1, OutputsMember
<1>11. Outputs(d) = (Outputs(c) \ Vin[t]) \cup TxOutputs(t)
  <2>1. ASSUME NEW o \in Outputs(d)
        PROVE  o \in (Outputs(c) \ Vin[t]) \cup TxOutputs(t)
    <3>1. o = <<o[1], o[2]>> /\ o[1] \in Tx /\ o[2] \in d[o[1]].vout
      BY <2>1, OutputsMember
    <3>2. CASE o[1] = t
      BY <1>5, <3>1, <3>2 DEF TxOutputs
    <3>3. CASE o[1] # t
      <4>1. o[2] \in c[o[1]].vout /\ o[2] \notin SpentBy(o[1], t)
        BY <1>6, <3>1, <3>3
      <4>2. o \in Outputs(c)
        BY <3>1, <4>1, OutputsMember
      <4>3. o \notin Vin[t]
        BY <1>7, <3>1, <4>1 DEF SpentBy
      <4> QED
        BY <4>2, <4>3
    <3> QED
      BY <3>2, <3>3
  <2>2. ASSUME NEW o \in TxOutputs(t)
        PROVE  o \in Outputs(d)
    BY <1>1, <1>5, <1>9, OutputsMember
  <2>3. ASSUME NEW o \in Outputs(c), o \notin Vin[t]
        PROVE  o \in Outputs(d)
    <3>1. o = <<o[1], o[2]>> /\ o[1] \in Tx /\ o[2] \in c[o[1]].vout
      BY <2>3, OutputsMember
    <3>2. o[1] # t
      BY <1>3, <3>1 DEF Pruned
    <3>3. o[2] \notin SpentBy(o[1], t)
      BY <2>3, <3>1 DEF SpentBy
    <3>4. o[2] \in d[o[1]].vout
      BY <1>6, <3>1, <3>2, <3>3
    <3> QED
      BY <3>1, <3>4, OutputsMember
  <2> QED
    BY <2>1, <2>2, <2>3
<1> QED
  BY <1>8, <1>10, <1>11 DEF t, c, d

\* What a transaction does to the value of the unspent outputs of some kind.
LEMMA ValueStep ==
  ASSUME NEW b \in Block, NEW i \in DOMAIN Vtx[b], Applies(b, i), NEW K,
         HasValues(Outputs(CoinsAt(b, i - 1)))
  PROVE  LET t == Vtx[b][i]
             old == ValueOf(Outputs(CoinsAt(b, i - 1)) \cap K)
             new == ValueOf(Outputs(CoinsAt(b, i)) \cap K)
             spent == ValueOf(Vin[t] \cap K)
             made == ValueOf(TxOutputs(t) \cap K)
         IN  /\ HasValues(Outputs(CoinsAt(b, i))) /\ HasValues(Vin[t])
             /\ old \in Nat /\ new \in Nat /\ spent \in Nat /\ made \in Nat
             /\ new + spent = old + made
<1> DEFINE t == Vtx[b][i]
           S == Outputs(CoinsAt(b, i - 1))
           D == Outputs(CoinsAt(b, i))
           I == Vin[t]
           O == TxOutputs(t)
<1>1. t \in Tx
  BY BlockAssumption
<1>2. I \subseteq S /\ O \cap S = {} /\ D = (S \ I) \cup O
  BY OutputsStep
<1>3. HasValues(O)
  BY <1>1, TxOutputsHaveValues
<1> HIDE DEF t, S, D, I, O
<1>4. HasValues(S)
  BY DEF S
<1>5. S \ I \in SUBSET S /\ I \in SUBSET S
  BY <1>2
<1>6. HasValues(S \ I) /\ HasValues(I)
  BY <1>4, <1>5, ValuesOfParts
<1>7. HasValues(D)
  BY <1>2, <1>3, <1>6, ValuesOfParts
<1>8. HasValues(S \cap K) /\ HasValues(D \cap K)
  <2>1. S \cap K \in SUBSET S /\ D \cap K \in SUBSET D
    OBVIOUS
  <2> QED
    BY <1>4, <1>7, <2>1, ValuesOfParts
<1>9. /\ ValueOf(S \cap K) = ValueOf(I \cap K) + ValueOf((S \cap K) \ (I \cap K))
      /\ ValueOf(S \cap K) \in Nat /\ ValueOf(I \cap K) \in Nat
      /\ ValueOf((S \cap K) \ (I \cap K)) \in Nat
  <2>1. I \cap K \in SUBSET (S \cap K)
    BY <1>2
  <2> QED
    BY <1>8, <2>1, ValueSplit
<1>10. /\ ValueOf(D \cap K) = ValueOf(O \cap K) + ValueOf((D \cap K) \ (O \cap K))
       /\ ValueOf(D \cap K) \in Nat /\ ValueOf(O \cap K) \in Nat
  <2>1. O \cap K \in SUBSET (D \cap K)
    BY <1>2
  <2> QED
    BY <1>8, <2>1, ValueSplit
<1>11. (D \cap K) \ (O \cap K) = (S \cap K) \ (I \cap K)
  BY <1>2
<1> DEFINE x == ValueOf((S \cap K) \ (I \cap K))
<1>12. x \in Nat /\ ValueOf(S \cap K) = ValueOf(I \cap K) + x /\ ValueOf(D \cap K) = ValueOf(O \cap K) + x
  BY <1>9, <1>10, <1>11
<1> HIDE DEF x
<1>13. ValueOf(D \cap K) + ValueOf(I \cap K) = ValueOf(S \cap K) + ValueOf(O \cap K)
  BY <1>9, <1>10, <1>12
<1> QED
  BY <1>6, <1>7, <1>9, <1>10, <1>13 DEF t, S, D, I, O

\* The first k transactions of a block.
First(b, k) == {Vtx[b][j] : j \in 1 .. k}

\* They grow by one transaction at a time to all of them.
LEMMA FirstStep ==
  ASSUME NEW b \in Block
  PROVE  /\ First(b, 0) = {} /\ First(b, Len(Vtx[b])) = TxsOf(b)
         /\ \A i \in DOMAIN Vtx[b] : /\ First(b, i) = First(b, i - 1) \cup {Vtx[b][i]}
                                     /\ Vtx[b][i] \notin First(b, i - 1)
         /\ \A k \in 0 .. Len(Vtx[b]) : IsFiniteSet(First(b, k)) /\ First(b, k) \subseteq TxsOf(b)
         /\ IsFiniteSet(TxsOf(b)) /\ TxsOf(b) \subseteq Tx
<1> DEFINE n == Len(Vtx[b])
<1>1. n \in Nat /\ DOMAIN Vtx[b] = 1 .. n /\ \A j \in 1 .. n : Vtx[b][j] \in Tx
  BY BlockAssumption
<1>2. First(b, 0) = {} /\ First(b, n) = TxsOf(b)
  BY <1>1 DEF First, TxsOf
<1>3. ASSUME NEW i \in DOMAIN Vtx[b]
      PROVE  /\ First(b, i) = First(b, i - 1) \cup {Vtx[b][i]}
             /\ Vtx[b][i] \notin First(b, i - 1)
  <2>1. 1 .. i = (1 .. i - 1) \cup {i} /\ \A j \in 1 .. i - 1 : j # i /\ j \in 1 .. n
    BY <1>1
  <2>2. First(b, i) = First(b, i - 1) \cup {Vtx[b][i]}
    BY <2>1 DEF First
  <2>3. \A j \in 1 .. i - 1 : Vtx[b][j] # Vtx[b][i]
    BY <1>1, <2>1, BlockAssumption
  <2> QED
    BY <2>2, <2>3 DEF First
<1>4. ASSUME NEW k \in 0 .. n
      PROVE  IsFiniteSet(First(b, k)) /\ First(b, k) \subseteq TxsOf(b)
  <2> DEFINE f == [j \in 1 .. k |-> Vtx[b][j]]
  <2>1. f \in Surjection(1 .. k, First(b, k))
    BY DEF Surjection, First
  <2>2. k \in Int /\ 1 \in Int
    BY <1>1
  <2>3. IsFiniteSet(1 .. k)
    BY <2>2, FS_Interval
  <2> HIDE DEF f
  <2>4. IsFiniteSet(First(b, k))
    BY <2>1, <2>3, FS_Surjection
  <2>5. \A j \in 1 .. k : j \in 1 .. n
    BY <1>1
  <2> QED
    BY <1>1, <2>4, <2>5 DEF First, TxsOf
<1>5. n \in 0 .. n
  BY <1>1
<1>6. IsFiniteSet(TxsOf(b))
  BY <1>2, <1>4, <1>5
<1>7. TxsOf(b) \subseteq Tx
  BY <1>1 DEF TxsOf
<1> QED
  BY <1>2, <1>3, <1>4, <1>6, <1>7

\* On outputs that have values a block leaves such, and what it spends has a value.
LEMMA BlockHasValues ==
  ASSUME NEW b \in Block, \A i \in DOMAIN Vtx[b] : Applies(b, i),
         HasValues(Outputs(CoinsAt(b, 0)))
  PROVE  /\ \A k \in 0 .. Len(Vtx[b]) : HasValues(Outputs(CoinsAt(b, k)))
         /\ \A t \in TxsOf(b) : HasValues(Vin[t]) /\ HasValues(TxOutputs(t))
<1> DEFINE n == Len(Vtx[b])
           T == {k \in 0 .. n : HasValues(Outputs(CoinsAt(b, k)))}
<1>1. n \in Nat /\ DOMAIN Vtx[b] = 1 .. n
  BY BlockAssumption
<1>2. 0 \in T
  BY <1>1
<1>3. ASSUME NEW k \in 1 .. n, k - 1 \in T
      PROVE  k \in T /\ HasValues(Vin[Vtx[b][k]])
  <2>1. k \in 0 .. n /\ HasValues(Outputs(CoinsAt(b, k - 1)))
    BY <1>1, <1>3
  <2>2. HasValues(Outputs(CoinsAt(b, k))) /\ HasValues(Vin[Vtx[b][k]])
    BY <1>1, <2>1, ValueStep
  <2> QED
    BY <2>1, <2>2
<1> HIDE DEF T
<1>4. 0 .. n \subseteq T
  BY <1>1, <1>2, <1>3, UpwardInduction
<1>5. ASSUME NEW t \in TxsOf(b)
      PROVE  HasValues(Vin[t]) /\ HasValues(TxOutputs(t))
  <2>1. PICK k \in 1 .. n : Vtx[b][k] = t
    BY <1>1 DEF TxsOf
  <2>2. k - 1 \in 0 .. n
    BY <1>1
  <2>3. t \in Tx
    BY FirstStep
  <2> QED
    BY <1>3, <1>4, <2>1, <2>2, <2>3, TxOutputsHaveValues
<1> QED
  BY <1>4, <1>5 DEF T

\* Of the outputs in K, the transactions of b in P create plus, those in M spend minus,
\* and the others create and spend none.
Changes(b, K, P, M, plus, minus) ==
    \A t \in TxsOf(b) :
        /\ ValueOf(TxOutputs(t) \cap K) = IF t \in P THEN plus[t] ELSE 0
        /\ ValueOf(Vin[t] \cap K) = IF t \in M THEN minus[t] ELSE 0

\* The value of the unspent outputs in K after b is the value before, with some made
\* and some spent.
Moves(b, K, made, spent) ==
    LET old == ValueOf(Outputs(CoinsAt(b, 0)) \cap K)
        new == ValueOf(Outputs(Tip(b)) \cap K)
    IN  /\ made \in Nat /\ spent \in Nat /\ old \in Nat /\ new \in Nat
        /\ new = old + (made - spent)

\* What a block then does to the value of the unspent outputs in K.
LEMMA BlockValue ==
  ASSUME NEW b \in Block, \A i \in DOMAIN Vtx[b] : Applies(b, i),
         HasValues(Outputs(CoinsAt(b, 0))),
         NEW K, NEW P, NEW M, NEW plus, NEW minus, Changes(b, K, P, M, plus, minus)
  PROVE  Moves(b, K, SumOver(plus, TxsOf(b) \cap P), SumOver(minus, TxsOf(b) \cap M))
<1> DEFINE n == Len(Vtx[b])
           Val(k) == ValueOf(Outputs(CoinsAt(b, k)) \cap K)
           made(k) == SumOver(plus, First(b, k) \cap P)
           spent(k) == SumOver(minus, First(b, k) \cap M)
           T == {k \in 0 .. n : /\ made(k) \in Nat /\ spent(k) \in Nat /\ Val(k) \in Nat
                                /\ Val(k) + spent(k) = Val(0) + made(k)}
<1>1. n \in Nat /\ DOMAIN Vtx[b] = 1 .. n /\ 0 \in 0 .. n /\ n \in 0 .. n
  BY BlockAssumption
<1>2. /\ \A k \in 0 .. n : HasValues(Outputs(CoinsAt(b, k)))
      /\ \A t \in TxsOf(b) : HasValues(Vin[t]) /\ HasValues(TxOutputs(t))
  BY BlockHasValues
<1>3. \A S : HasValues(S) => ValueOf(S \cap K) \in Nat
  <2> SUFFICES ASSUME NEW S, HasValues(S) PROVE ValueOf(S \cap K) \in Nat
    OBVIOUS
  <2>1. S \cap K \in SUBSET S
    OBVIOUS
  <2> QED
    BY <2>1, ValueSplit
<1>4. \A t \in TxsOf(b) : (t \in P => plus[t] \in Nat) /\ (t \in M => minus[t] \in Nat)
  <2> SUFFICES ASSUME NEW t \in TxsOf(b)
               PROVE  (t \in P => plus[t] \in Nat) /\ (t \in M => minus[t] \in Nat)
    OBVIOUS
  <2>1. ValueOf(TxOutputs(t) \cap K) \in Nat /\ ValueOf(Vin[t] \cap K) \in Nat
    BY <1>2, <1>3
  <2> QED
    BY <2>1 DEF Changes
<1>5. \A k \in 0 .. n : Val(k) \in Nat
  BY <1>2, <1>3
<1>6. 0 \in T
  <2>1. First(b, 0) = {}
    BY FirstStep
  <2>2. made(0) = 0 /\ spent(0) = 0
      BY <2>1, SumEmpty DEF SumOver
  <2> HIDE DEF made, spent, Val
  <2> QED
    BY <1>1, <1>5, <2>2
<1>7. ASSUME NEW k \in 1 .. n, k - 1 \in T
      PROVE  k \in T
  <2> DEFINE t == Vtx[b][k]
             j == k - 1
             F == First(b, j)
  <2>1. k \in DOMAIN Vtx[b] /\ k \in 0 .. n /\ j \in 0 .. n
    BY <1>1
  <2>2. /\ First(b, k) = F \cup {t} /\ t \notin F /\ IsFiniteSet(F)
        /\ F \cup {t} \subseteq TxsOf(b)
    BY <2>1, FirstStep
  <2>3. /\ \A y \in (F \cup {t}) \cap P : plus[y] \in Nat
        /\ \A y \in (F \cup {t}) \cap M : minus[y] \in Nat
    BY <1>4, <2>2
  <2>4. ValueOf(Outputs(CoinsAt(b, k)) \cap K) + ValueOf(Vin[t] \cap K)
          = ValueOf(Outputs(CoinsAt(b, k - 1)) \cap K) + ValueOf(TxOutputs(t) \cap K)
    BY <1>2, <2>1, ValueStep
  <2> DEFINE p == IF t \in P THEN plus[t] ELSE 0
             m == IF t \in M THEN minus[t] ELSE 0
  <2>5. ValueOf(TxOutputs(t) \cap K) = p /\ ValueOf(Vin[t] \cap K) = m
    BY <2>2 DEF Changes
  <2>6. p \in Nat /\ m \in Nat
    BY <1>4, <2>2
  <2> HIDE DEF F, t, p, m
  <2> DEFINE vk == Val(k)  vj == Val(j)  v0 == Val(0)
             ak == made(k)  aj == made(j)  sk == spent(k)  sj == spent(j)
  <2>7. aj \in Nat /\ ak \in Nat /\ ak = aj + p
    <3> DEFINE A == F \cap P
               B == (F \cup {t}) \cap P
               C == A \cup {t}
    <3>1. IsFiniteSet(A) /\ t \notin A /\ \A y \in A : plus[y] \in Nat
      BY <2>2, <2>3, FS_Subset
    <3>2. aj = SumOver(plus, A) /\ ak = SumOver(plus, B)
      BY <2>2 DEF F
    <3> HIDE DEF A, B, C, aj, ak
    <3>3. SumOver(plus, A) \in Nat
      BY <3>1, SumInsert
    <3>4. CASE t \in P
      <4>1. B = C /\ plus[t] \in Nat /\ p = plus[t]
        BY <2>3, <3>4 DEF A, B, C, p
      <4>2. SumOver(plus, C) = SumOver(plus, A) + plus[t]
        BY <3>1, <4>1, SumInsert DEF C
      <4> QED
        BY <2>6, <3>2, <3>3, <4>1, <4>2
    <3>5. CASE t \notin P
      <4>1. B = A /\ p = 0
        BY <3>5 DEF A, B, p
      <4> QED
        BY <3>2, <3>3, <4>1
    <3> QED
      BY <3>4, <3>5
  <2>8. sj \in Nat /\ sk \in Nat /\ sk = sj + m
    <3> DEFINE A == F \cap M
               B == (F \cup {t}) \cap M
               C == A \cup {t}
    <3>1. IsFiniteSet(A) /\ t \notin A /\ \A y \in A : minus[y] \in Nat
      BY <2>2, <2>3, FS_Subset
    <3>2. sj = SumOver(minus, A) /\ sk = SumOver(minus, B)
      BY <2>2 DEF F
    <3> HIDE DEF A, B, C, sj, sk
    <3>3. SumOver(minus, A) \in Nat
      BY <3>1, SumInsert
    <3>4. CASE t \in M
      <4>1. B = C /\ minus[t] \in Nat /\ m = minus[t]
        BY <2>3, <3>4 DEF A, B, C, m
      <4>2. SumOver(minus, C) = SumOver(minus, A) + minus[t]
        BY <3>1, <4>1, SumInsert DEF C
      <4> QED
        BY <2>6, <3>2, <3>3, <4>1, <4>2
    <3>5. CASE t \notin M
      <4>1. B = A /\ m = 0
        BY <3>5 DEF A, B, m
      <4> QED
        BY <3>2, <3>3, <4>1
    <3> QED
      BY <3>4, <3>5
  <2>9. vk + m = vj + p
    BY <2>4, <2>5
  <2>10. vj + sj = v0 + aj
    BY <1>7
  <2>11. vk \in Nat /\ vj \in Nat /\ v0 \in Nat
    BY <1>1, <1>5, <2>1
  <2>12. vk + sk = v0 + ak
    <3> HIDE DEF vk, vj, v0, ak, aj, sk, sj
    <3> QED
      BY <2>6, <2>7, <2>8, <2>9, <2>10, <2>11
  <2> QED
    BY <2>1, <2>7, <2>8, <2>11, <2>12
<1>8. n \in T
  <2> HIDE DEF T
  <2>1. 0 .. n \subseteq T
    BY <1>1, <1>6, <1>7, UpwardInduction
  <2> QED
    BY <1>1, <2>1
<1>9. First(b, n) = TxsOf(b)
  BY FirstStep
<1>10. /\ made(n) \in Nat /\ spent(n) \in Nat /\ Val(n) \in Nat /\ Val(0) \in Nat
       /\ Val(n) + spent(n) = Val(0) + made(n)
  BY <1>1, <1>5, <1>8
<1>11. Val(n) = Val(0) + (made(n) - spent(n))
  <2> HIDE DEF made, spent, Val
  <2> QED
    BY <1>10
<1> QED
  BY <1>9, <1>10, <1>11 DEF Moves, Tip

--------------------------------------------------------------------------------
\* The totals of a block.

\* The outputs in a unit, and the parked ones of the currency.
InUnit(u) == {o \in Tx \X Nat : Unit[o[1]] = u}
ParkedB == {o \in InUnit("B") : IsParked(o)}

\* What is summed over the transactions of a block.
OutOf == [t \in Tx |-> ValueOut(t)]
InOf == [t \in Tx |-> ValueIn(t)]
ParkOf == [t \in Tx |-> ParkedOut(t)]

\* The transactions that ConnectBlock adds up.
UnitTxs(u) == {t \in Tx : Unit[t] = u}
ParkTxs(u) == {t \in Tx : Unit[t] = u /\ t \notin Minted}
UnparkTxs(u) == {t \in Tx : Unit[t] = u /\ Kind[t] = "unpark"}

\* The sums of ConnectBlock as sums over the transactions of the block.
LEMMA TotalsAsSums ==
  ASSUME NEW b \in Block, NEW u
  PROVE  /\ Created(b, u) = SumOver(OutOf, TxsOf(b) \cap UnitTxs(u))
                            - SumOver(InOf, TxsOf(b) \cap UnitTxs(u))
         /\ NewlyParked(b, u) = SumOver(ParkOf, TxsOf(b) \cap ParkTxs(u))
                                - SumOver(InOf, TxsOf(b) \cap UnparkTxs(u))
<1> DEFINE A == TxsOf(b) \cap UnitTxs(u)
           B == TxsOf(b) \cap ParkTxs(u)
           C == TxsOf(b) \cap UnparkTxs(u)
<1>1. TxsOf(b) \subseteq Tx
  BY FirstStep
<1>2. /\ TxsIn(b, u) = A /\ TxsIn(b, u) \ Minted = B
      /\ {t \in TxsIn(b, u) : Kind[t] = "unpark"} = C
  BY <1>1 DEF TxsIn, UnitTxs, ParkTxs, UnparkTxs
<1>3. A \subseteq Tx /\ B \subseteq Tx /\ C \subseteq Tx
  BY <1>1
<1>4. Created(b, u) = SumValueOut(A) - SumValueIn(A)
  BY <1>2 DEF Created
<1>5. NewlyParked(b, u) = SumFunction([t \in B |-> ParkedOut(t)]) - SumValueIn(C)
  BY <1>2 DEF NewlyParked
<1> HIDE DEF A, B, C
<1>6. \A T \in SUBSET Tx : /\ [t \in T |-> OutOf[t]] = [t \in T |-> ValueOut(t)]
                           /\ [t \in T |-> InOf[t]] = [t \in T |-> ValueIn(t)]
                           /\ [t \in T |-> ParkOf[t]] = [t \in T |-> ParkedOut(t)]
  BY DEF OutOf, InOf, ParkOf
<1>7. SumValueOut(A) = SumOver(OutOf, A)
  BY <1>3, <1>6 DEF SumValueOut, SumOver
<1>8. SumValueIn(A) = SumOver(InOf, A) /\ SumValueIn(C) = SumOver(InOf, C)
  BY <1>3, <1>6 DEF SumValueIn, SumOver
<1>9. SumFunction([t \in B |-> ParkedOut(t)]) = SumOver(ParkOf, B)
  BY <1>3, <1>6 DEF SumOver
<1> QED
  BY <1>4, <1>5, <1>7, <1>8, <1>9 DEF A, B, C

\* They are numbers when what the block spends has a value.
LEMMA TotalsType ==
  ASSUME NEW b \in Block, NEW u,
         \A t \in TxsOf(b) : HasValues(Vin[t]) /\ HasValues(TxOutputs(t))
  PROVE  Created(b, u) \in Int /\ NewlyParked(b, u) \in Int
<1>1. TxsOf(b) \subseteq Tx /\ IsFiniteSet(TxsOf(b))
  BY FirstStep
<1>2. ASSUME NEW t \in TxsOf(b)
      PROVE  OutOf[t] \in Nat /\ InOf[t] \in Nat /\ ParkOf[t] \in Nat
  <2>1. ASSUME NEW S, HasValues(S) PROVE ValueOf(S) \in Nat
    <3>1. {} \in SUBSET S
      OBVIOUS
    <3> QED
      BY <2>1, <3>1, ValueSplit
  <2>2. {o \in TxOutputs(t) : IsParked(o)} \in SUBSET TxOutputs(t)
    OBVIOUS
  <2>3. HasValues({o \in TxOutputs(t) : IsParked(o)})
    BY <2>2, ValuesOfParts
  <2>4. ValueOut(t) \in Nat /\ ValueIn(t) \in Nat /\ ParkedOut(t) \in Nat
    BY <2>1, <2>3 DEF ValueOut, ValueIn, ParkedOut
  <2> QED
    BY <1>1, <2>4 DEF OutOf, InOf, ParkOf
<1>3. ASSUME NEW P
      PROVE  /\ SumOver(OutOf, TxsOf(b) \cap P) \in Nat
             /\ SumOver(InOf, TxsOf(b) \cap P) \in Nat
             /\ SumOver(ParkOf, TxsOf(b) \cap P) \in Nat
  <2> DEFINE S == TxsOf(b) \cap P
  <2>1. IsFiniteSet(S) /\ \A t \in S : OutOf[t] \in Nat /\ InOf[t] \in Nat /\ ParkOf[t] \in Nat
    BY <1>1, <1>2, FS_Subset
  <2> HIDE DEF S
  <2>2. SumOver(OutOf, S) \in Nat /\ SumOver(InOf, S) \in Nat /\ SumOver(ParkOf, S) \in Nat
    BY <2>1, SumInsert
  <2> QED
    BY <2>2 DEF S
<1> DEFINE a == SumOver(OutOf, TxsOf(b) \cap UnitTxs(u))
           c == SumOver(InOf, TxsOf(b) \cap UnitTxs(u))
           d == SumOver(ParkOf, TxsOf(b) \cap ParkTxs(u))
           e == SumOver(InOf, TxsOf(b) \cap UnparkTxs(u))
<1>4. a \in Nat /\ c \in Nat /\ d \in Nat /\ e \in Nat
  BY <1>3
<1>5. Created(b, u) = a - c /\ NewlyParked(b, u) = d - e
  BY TotalsAsSums
<1> HIDE DEF a, c, d, e
<1> QED
  BY <1>4, <1>5

\* No transaction spends outputs of another unit.  AcceptToMemoryPool sees to that for
\* the transactions of this node; ConnectBlock does not look at it.
SameUnits == \A t \in Tx : AreInputsSameUnit(t)

\* A grant pays the elected addresses and parks nothing.
GrantsUnparked == \A t \in Tx : Kind[t] = "grant" => \A n \in DOMAIN Vout[t] : Duration[t][n] = 0

\* Below the last checkpoint, where ConnectBlock runs no scripts, the parked outputs are
\* spent by unpark transactions only, as in the blocks that the checkpoints fix.
ParkedKeptBelow ==
    \A b \in Block : nHeight[b] < TotalBlocksEstimate =>
        \A t \in TxsOf(b) : SpendsParked(t) => Kind[t] = "unpark"

\* Outputs of transactions are pairs of a transaction and a number.
LEMMA TxOutputsPairs ==
  ASSUME NEW t \in Tx
  PROVE  /\ \A o \in TxOutputs(t) : /\ o \in Tx \X Nat /\ o[1] = t
                                    /\ o[2] \in DOMAIN Vout[t] /\ o[2] \in DOMAIN Duration[t]
         /\ \A o \in Vin[t] : o \in Tx \X Nat
<1>1. Vout[t] \in Seq(Nat) /\ Duration[t] \in Seq(Nat) /\ Len(Duration[t]) = Len(Vout[t])
  BY TxAssumption
<1>2. /\ Len(Vout[t]) \in Nat /\ DOMAIN Vout[t] = 1 .. Len(Vout[t])
      /\ DOMAIN Duration[t] = 1 .. Len(Duration[t])
  BY <1>1
<1>3. DOMAIN Vout[t] \subseteq Nat /\ DOMAIN Duration[t] = DOMAIN Vout[t]
  BY <1>1, <1>2
<1> QED
  BY <1>3, TxAssumption DEF TxOutputs

\* The money a block adds in a unit is what ConnectBlock adds to the supply.
LEMMA MoneyOfBlock ==
  ASSUME NEW b \in Block, \A i \in DOMAIN Vtx[b] : Applies(b, i),
         HasValues(Outputs(CoinsAt(b, 0))), SameUnits, NEW u
  PROVE  /\ ValueOf(Outputs(CoinsAt(b, 0)) \cap InUnit(u)) \in Nat
         /\ ValueOf(Outputs(Tip(b)) \cap InUnit(u))
              = ValueOf(Outputs(CoinsAt(b, 0)) \cap InUnit(u)) + Created(b, u)
<1> DEFINE K == InUnit(u)
           P == UnitTxs(u)
<1>1. TxsOf(b) \subseteq Tx
  BY FirstStep
<1>2. Changes(b, K, P, P, OutOf, InOf)
  <2> SUFFICES ASSUME NEW t \in TxsOf(b)
               PROVE  /\ ValueOf(TxOutputs(t) \cap K) = IF t \in P THEN OutOf[t] ELSE 0
                      /\ ValueOf(Vin[t] \cap K) = IF t \in P THEN InOf[t] ELSE 0
    BY DEF Changes
  <2>1. t \in Tx
    BY <1>1
  <2>2. /\ \A o \in TxOutputs(t) : o \in Tx \X Nat /\ Unit[o[1]] = Unit[t]
        /\ \A o \in Vin[t] : o \in Tx \X Nat /\ Unit[o[1]] = Unit[t]
    BY <2>1, TxOutputsPairs DEF SameUnits, AreInputsSameUnit
  <2>3. CASE Unit[t] = u
    <3>1. TxOutputs(t) \cap K = TxOutputs(t) /\ Vin[t] \cap K = Vin[t]
      BY <2>2, <2>3 DEF InUnit
    <3>2. t \in P
      BY <2>1, <2>3 DEF UnitTxs
    <3>3. ValueOf(TxOutputs(t)) = OutOf[t] /\ ValueOf(Vin[t]) = InOf[t]
      BY <2>1 DEF OutOf, InOf, ValueOut, ValueIn
    <3> HIDE DEF K, P
    <3> QED
      BY <3>1, <3>2, <3>3
  <2>4. CASE Unit[t] # u
    <3>1. TxOutputs(t) \cap K = {} /\ Vin[t] \cap K = {}
      BY <2>2, <2>4 DEF InUnit
    <3>2. t \notin P
      BY <2>4 DEF UnitTxs
    <3> HIDE DEF K, P
    <3> QED
      BY <3>1, <3>2, ValueOfNone
  <2> QED
    BY <2>3, <2>4
<1> DEFINE made == SumOver(OutOf, TxsOf(b) \cap P)
           spent == SumOver(InOf, TxsOf(b) \cap P)
           old == ValueOf(Outputs(CoinsAt(b, 0)) \cap K)
           new == ValueOf(Outputs(Tip(b)) \cap K)
<1>3. old \in Nat /\ new = old + (made - spent)
  <2>1. Moves(b, K, made, spent)
    <3> HIDE DEF K, P
    <3> QED
      BY <1>2, BlockValue
  <2> QED
    BY <2>1 DEF Moves
<1>4. Created(b, u) = made - spent
  BY TotalsAsSums
<1> QED
  BY <1>3, <1>4

\* What a transaction that ConnectBlock accepted parks and unparks.
LEMMA ParkedOfTx ==
  ASSUME NEW b \in Block, \A i \in DOMAIN Vtx[b] : VerdictAt(b, i) = "ok",
         SameUnits, GrantsUnparked, ParkedKeptBelow, NEW t \in TxsOf(b)
  PROVE  /\ t \in Tx
         /\ t \notin ParkTxs("B") => TxOutputs(t) \cap ParkedB = {}
         /\ t \in ParkTxs("B") => TxOutputs(t) \cap ParkedB = {o \in TxOutputs(t) : IsParked(o)}
         /\ t \notin UnparkTxs("B") => Vin[t] \cap ParkedB = {}
         /\ t \in UnparkTxs("B") => Vin[t] \cap ParkedB = Vin[t]
<1>1. PICK i \in DOMAIN Vtx[b] : Vtx[b][i] = t
  BY DEF TxsOf
<1>2. t \in Tx /\ 1 \in DOMAIN Vtx[b]
  BY <1>1, BlockAssumption
<1>3. CheckTransaction(t)
  <2>1. VerdictAt(b, 1) = "ok"
    BY <1>2
  <2>2. ~Malformed(b, CoinsAt(b, 1 - 1))
    BY <2>1 DEF VerdictAt, VerdictOn
  <2> QED
    BY <1>1, <2>2 DEF Malformed
<1>4. /\ \A o \in TxOutputs(t) : /\ o \in Tx \X Nat /\ o[1] = t
                                 /\ o[2] \in DOMAIN Vout[t] /\ o[2] \in DOMAIN Duration[t]
      /\ \A o \in Vin[t] : o \in Tx \X Nat /\ Unit[o[1]] = Unit[t]
  BY <1>2, TxOutputsPairs DEF SameUnits, AreInputsSameUnit
<1>5. ASSUME t \notin ParkTxs("B")
      PROVE  TxOutputs(t) \cap ParkedB = {}
  <2>1. CASE Unit[t] # "B"
    BY <1>4, <2>1 DEF ParkedB, InUnit
  <2>2. CASE Unit[t] = "B"
    <3>1. t \in Minted
      BY <1>2, <1>5, <2>2 DEF ParkTxs
    <3>2. Kind[t] = "grant"
      BY <1>3, <2>2, <3>1 DEF CheckTransaction, Minted
    <3>3. \A o \in TxOutputs(t) : ~IsParked(o)
      BY <1>2, <1>4, <3>2 DEF GrantsUnparked, IsParked
    <3> QED
      BY <3>3 DEF ParkedB
  <2> QED
    BY <2>1, <2>2
<1>6. ASSUME t \in ParkTxs("B")
      PROVE  TxOutputs(t) \cap ParkedB = {o \in TxOutputs(t) : IsParked(o)}
  BY <1>4, <1>6 DEF ParkTxs, ParkedB, InUnit
<1>7. CASE t \in Minted
  <2>1. Vin[t] = {} /\ Kind[t] # "unpark"
    BY <1>2, <1>7, TxAssumption DEF Minted
  <2> QED
    BY <1>2, <1>5, <1>6, <2>1 DEF UnparkTxs
<1>8. CASE t \notin Minted
  <2> DEFINE c == CoinsAt(b, i - 1)
  <2>1. CheckInputs(t, c, Prev[b], HasScriptChecks(b)) = "ok"
    BY <1>1, <1>8 DEF VerdictAt, VerdictOn
  <2> HIDE DEF c
  <2>2. ASSUME t \notin UnparkTxs("B")
        PROVE  Vin[t] \cap ParkedB = {}
    <3>1. CASE Unit[t] # "B"
      BY <1>4, <3>1 DEF ParkedB, InUnit
    <3>2. CASE Kind[t] # "unpark"
      <4>1. ~SpendsParked(t)
        <5>1. CASE HasScriptChecks(b)
          BY <2>1, <3>2, <5>1 DEF CheckInputs, VerifiesScripts
        <5>2. CASE ~HasScriptChecks(b)
          <6>1. nHeight[b] < TotalBlocksEstimate
            BY <5>2, HeightRecursion, DownloadAssumption DEF HasScriptChecks
          <6> QED
            BY <3>2, <6>1 DEF ParkedKeptBelow
        <5> QED
          BY <5>1, <5>2
      <4> QED
        BY <4>1 DEF SpendsParked, ParkedB
    <3> QED
      BY <1>2, <2>2, <3>1, <3>2 DEF UnparkTxs
  <2>3. ASSUME t \in UnparkTxs("B")
        PROVE  Vin[t] \cap ParkedB = Vin[t]
    <3>1. Unit[t] = "B" /\ Kind[t] = "unpark"
      BY <2>3 DEF UnparkTxs
    <3>2. IsValidUnpark(t, c, Prev[b])
      BY <2>1, <3>1 DEF CheckInputs
    <3>3. \A o \in Vin[t] : IsParked(o)
      BY <3>2 DEF IsValidUnpark
    <3> QED
      BY <1>4, <3>1, <3>3 DEF ParkedB, InUnit
  <2> QED
    BY <1>2, <1>5, <1>6, <2>2, <2>3
<1> QED
  BY <1>7, <1>8

\* The parked value a block adds is what ConnectBlock adds to the parked total.
LEMMA ParkedOfBlock ==
  ASSUME NEW b \in Block,
         \A i \in DOMAIN Vtx[b] : Applies(b, i), \A i \in DOMAIN Vtx[b] : VerdictAt(b, i) = "ok",
         HasValues(Outputs(CoinsAt(b, 0))), SameUnits, GrantsUnparked, ParkedKeptBelow
  PROVE  /\ ValueOf(Outputs(CoinsAt(b, 0)) \cap ParkedB) \in Nat
         /\ ValueOf(Outputs(Tip(b)) \cap ParkedB)
              = ValueOf(Outputs(CoinsAt(b, 0)) \cap ParkedB) + NewlyParked(b, "B")
<1> DEFINE P == ParkTxs("B")
           M == UnparkTxs("B")
<1>1. Changes(b, ParkedB, P, M, ParkOf, InOf)
  <2> SUFFICES ASSUME NEW t \in TxsOf(b)
               PROVE  /\ ValueOf(TxOutputs(t) \cap ParkedB) = IF t \in P THEN ParkOf[t] ELSE 0
                      /\ ValueOf(Vin[t] \cap ParkedB) = IF t \in M THEN InOf[t] ELSE 0
    BY DEF Changes
  <2> HIDE DEF P, M
  <2>1. t \in Tx
    BY ParkedOfTx
  <2>2. ValueOf({o \in TxOutputs(t) : IsParked(o)}) = ParkOf[t] /\ ValueOf(Vin[t]) = InOf[t]
    BY <2>1 DEF ParkOf, InOf, ParkedOut, ValueIn
  <2>3. ASSUME t \in P
        PROVE  ValueOf(TxOutputs(t) \cap ParkedB) = ParkOf[t]
    <3>1. TxOutputs(t) \cap ParkedB = {o \in TxOutputs(t) : IsParked(o)}
      BY <2>3, ParkedOfTx DEF P
    <3> QED
      BY <2>2, <3>1
  <2>4. ASSUME t \notin P
        PROVE  ValueOf(TxOutputs(t) \cap ParkedB) = 0
    <3>1. TxOutputs(t) \cap ParkedB = {}
      BY <2>4, ParkedOfTx DEF P
    <3> QED
      BY <3>1, ValueOfNone
  <2>5. ASSUME t \in M
        PROVE  ValueOf(Vin[t] \cap ParkedB) = InOf[t]
    <3>1. Vin[t] \cap ParkedB = Vin[t]
      BY <2>5, ParkedOfTx DEF M
    <3> QED
      BY <2>2, <3>1
  <2>6. ASSUME t \notin M
        PROVE  ValueOf(Vin[t] \cap ParkedB) = 0
    <3>1. Vin[t] \cap ParkedB = {}
      BY <2>6, ParkedOfTx DEF M
    <3> QED
      BY <3>1, ValueOfNone
  <2> QED
    BY <2>3, <2>4, <2>5, <2>6
<1> DEFINE made == SumOver(ParkOf, TxsOf(b) \cap P)
           spent == SumOver(InOf, TxsOf(b) \cap M)
           old == ValueOf(Outputs(CoinsAt(b, 0)) \cap ParkedB)
           new == ValueOf(Outputs(Tip(b)) \cap ParkedB)
<1>2. old \in Nat /\ new = old + (made - spent)
  <2>1. Moves(b, ParkedB, made, spent)
    <3> HIDE DEF P, M
    <3> QED
      BY <1>1, BlockValue
  <2> QED
    BY <2>1 DEF Moves
<1>3. NewlyParked(b, "B") = made - spent
  BY TotalsAsSums
<1> QED
  BY <1>2, <1>3

--------------------------------------------------------------------------------
\* The totals of the block indexes.

\* What is unspent after a block that was connected has a value.
ValuesInv == \A b \in Connected : HasValues(Outputs(Tip(b)))

TotalsTypeOK ==
    /\ mapMoneySupply \in [Block -> [Units -> Int]]
    /\ mapTotalParked \in [Block -> [Units -> Int]]

TotalsInv == LInv /\ ValuesInv /\ TotalsTypeOK

\* The totals of every block that was connected are those of its chain; the parked one
\* is lost when the node stops, and counted from 0 after that.
SupplyInv ==
    \A b \in Connected : \A u \in Units :
        mapMoneySupply[b][u] = ValueOf(Outputs(Tip(b)) \cap InUnit(u))

ParkedInv ==
    nRestarts = 0 =>
        \A b \in Connected : mapTotalParked[b]["B"] = ValueOf(Outputs(Tip(b)) \cap ParkedB)

\* ConnectBlock, seen from the blocks: b applies to the coins of its parent.
LEMMA ConnectFacts ==
  ASSUME LInv, ValuesInv, NEW b \in Block, ConnectBlock(b)
  PROVE  /\ viewBest \in Connected /\ viewBest \in Block
         /\ \A i \in DOMAIN Vtx[b] : Applies(b, i)
         /\ \A i \in DOMAIN Vtx[b] : VerdictAt(b, i) = "ok"
         /\ Tip(viewBest) = CoinsAt(b, 0) /\ HasValues(Outputs(CoinsAt(b, 0)))
         /\ Connected' = Connected \cup {b}
         /\ HasValues(Outputs(Tip(b)))
         /\ \A t \in TxsOf(b) : HasValues(Vin[t]) /\ HasValues(TxOutputs(t))
<1>1. pc = "connect" /\ IsNextBlock(b) /\ nTx = Len(Vtx[b])
  BY DEF ConnectBlock
<1>2. Len(Vtx[b]) \in Nat /\ DOMAIN Vtx[b] = 1 .. Len(Vtx[b])
  BY BlockAssumption
<1>3. b # Genesis /\ \A i \in DOMAIN Vtx[b] : Applies(b, i) /\ VerdictAt(b, i) = "ok"
  BY <1>1, <1>2, NextBlockView DEF PartlyConnected
<1>4. viewBest \in Connected /\ viewBest \in Block /\ Prev[b] = viewBest
  BY <1>1 DEF LInv, ViewInv, CoinsTypeOK, IsNextBlock
<1>5. CoinsAt(b, 0) = Tip(viewBest)
  BY <1>3, <1>4, CoinsOfParent
<1>6. HasValues(Outputs(CoinsAt(b, 0)))
  BY <1>4, <1>5 DEF ValuesInv
<1>7. /\ \A k \in 0 .. Len(Vtx[b]) : HasValues(Outputs(CoinsAt(b, k)))
      /\ \A t \in TxsOf(b) : HasValues(Vin[t]) /\ HasValues(TxOutputs(t))
  BY <1>3, <1>6, BlockHasValues
<1>8. HasValues(Outputs(Tip(b)))
  BY <1>2, <1>7 DEF Tip
<1>9. Connected' = Connected \cup {b}
  BY DEF ConnectBlock, Connected
<1> QED
  BY <1>3, <1>4, <1>5, <1>6, <1>7, <1>8, <1>9

\* The other steps leave the blocks that were connected and the totals alone, but for
\* the parked totals that a restart loses.
LEMMA OtherSteps ==
  ASSUME [LedgerNext]_ledgerVars
  PROVE  \/ \E b \in Block : ConnectBlock(b)
         \/ \E f \in BOOLEAN : LedgerRestart(f) /\ UNCHANGED <<nUndoPos, mapMoneySupply>>
         \/ UNCHANGED <<nUndoPos, totalVars, nRestarts>>
  BY DEF LedgerNext, ledgerVars, diskVars, totalVars, viewVars, BeginSetBestChain,
     DisconnectTx,
         DisconnectBlock, ReachFork, ConnectTx, RefuseTx, FlushView, LedgerRestart

\* A step keeps the totals numbers.
LEMMA TotalsInvStep ==
  ASSUME TotalsInv, [LedgerNext]_ledgerVars
  PROVE  TotalsInv'
<1>1. LInv'
  BY LInvStep DEF TotalsInv
<1>2. CASE UNCHANGED <<nUndoPos, totalVars, nRestarts>>
  BY <1>1, <1>2 DEF TotalsInv, ValuesInv, Connected, TotalsTypeOK, totalVars
<1>3. ASSUME NEW f \in BOOLEAN, LedgerRestart(f), UNCHANGED <<nUndoPos, mapMoneySupply>>
      PROVE  TotalsInv'
  BY <1>1, <1>3 DEF TotalsInv, ValuesInv, Connected, TotalsTypeOK, LedgerRestart
<1>4. ASSUME NEW b \in Block, ConnectBlock(b)
      PROVE  TotalsInv'
  <2>1. /\ viewBest \in Block /\ Connected' = Connected \cup {b}
        /\ HasValues(Outputs(Tip(b)))
        /\ \A t \in TxsOf(b) : HasValues(Vin[t]) /\ HasValues(TxOutputs(t))
    BY <1>4, ConnectFacts DEF TotalsInv
  <2>2. ValuesInv'
    BY <2>1 DEF TotalsInv, ValuesInv
  <2>3. \A u \in Units : Created(b, u) \in Int /\ NewlyParked(b, u) \in Int
    BY <2>1, TotalsType
  <2>4. mapMoneySupply' \in [Block -> [Units -> Int]]
    <3>1. mapMoneySupply[viewBest] \in [Units -> Int]
      BY <2>1 DEF TotalsInv, TotalsTypeOK
    <3>2. [u \in Units |-> mapMoneySupply[viewBest][u] + Created(b, u)] \in [Units -> Int]
      BY <2>3, <3>1
    <3> QED
      BY <1>4, <3>2 DEF ConnectBlock, TotalsInv, TotalsTypeOK
  <2>5. mapTotalParked' \in [Block -> [Units -> Int]]
    <3>1. mapTotalParked[viewBest] \in [Units -> Int]
      BY <2>1 DEF TotalsInv, TotalsTypeOK
    <3>2. [u \in Units |-> IF u = "S" THEN 0
                           ELSE mapTotalParked[viewBest][u] + NewlyParked(b, u)] \in [Units -> Int]
      BY <2>3, <3>1
    <3> QED
      BY <1>4, <3>2 DEF ConnectBlock, TotalsInv, TotalsTypeOK
  <2> QED
    BY <1>1, <2>2, <2>4, <2>5 DEF TotalsInv, TotalsTypeOK
<1> QED
  BY <1>2, <1>3, <1>4, OtherSteps

\* Nothing is unspent at the start.
LEMMA NothingAtGenesis == Outputs(Tip(Genesis)) = {}
<1>1. Chain[Genesis] = {Genesis} /\ Vtx[Genesis] = <<>> /\ Genesis \in Block
  BY ChainOfGenesis, BlockAssumption, TreeAssumption
<1>2. \A i : Upto(Genesis, i) = {}
  BY <1>1 DEF Upto, BlocksWith
<1>3. Tip(Genesis) = [t \in Tx |-> Pruned]
  BY <1>2 DEF Tip, CoinsAt, UnspentAt
<1> QED
  BY <1>3 DEF Outputs, Pruned

\* The invariant holds at the start.
LEMMA TotalsInvInit ==
  LedgerInit => TotalsInv
<1> SUFFICES ASSUME LedgerInit PROVE TotalsInv
  OBVIOUS
<1>1. LInv
  BY LInvInit
<1>2. HasValues(Outputs(Tip(Genesis)))
  BY NothingAtGenesis, FS_EmptySet DEF HasValues
<1>3. ValuesInv
  BY <1>2 DEF LedgerInit, ValuesInv, Connected
<1>4. TotalsTypeOK
  BY DEF LedgerInit, TotalsTypeOK
<1> QED
  BY <1>1, <1>3, <1>4 DEF TotalsInv

\* It holds in every reachable state.
LEMMA TotalsInvHolds ==
  LedgerSpec => []TotalsInv
  BY TotalsInvInit, TotalsInvStep, PTL DEF LedgerSpec

\* The coins, the undo data and the totals of the block indexes keep their types: what
\* ConnectBlock adds to the totals is a number, whatever the block holds.
THEOREM LedgerTypeCorrect ==
  LedgerSpec => []LedgerTypeOK
<1>1. TotalsInv => LedgerTypeOK
  BY DEF TotalsInv, LInv, TotalsTypeOK, LedgerTypeOK
<1> QED
  BY <1>1, TotalsInvHolds, PTL

\* A step keeps the totals of all connected blocks those of their chains.
LEMMA SupplyInvStep ==
  ASSUME SameUnits, GrantsUnparked, ParkedKeptBelow,
         TotalsInv, SupplyInv, ParkedInv, [LedgerNext]_ledgerVars
  PROVE  SupplyInv' /\ ParkedInv'
<1>1. CASE UNCHANGED <<nUndoPos, totalVars, nRestarts>>
  BY <1>1 DEF SupplyInv, ParkedInv, Connected, totalVars
<1>2. ASSUME NEW f \in BOOLEAN, LedgerRestart(f), UNCHANGED <<nUndoPos, mapMoneySupply>>
      PROVE  SupplyInv' /\ ParkedInv'
  <2>1. nRestarts' # 0
    BY <1>2 DEF LedgerRestart, TotalsInv, LInv, CoinsTypeOK
  <2> QED
    BY <1>2, <2>1 DEF SupplyInv, ParkedInv, Connected
<1>3. ASSUME NEW b \in Block, ConnectBlock(b)
      PROVE  SupplyInv' /\ ParkedInv'
  <2>1. /\ viewBest \in Connected /\ viewBest \in Block
        /\ Tip(viewBest) = CoinsAt(b, 0) /\ Connected' = Connected \cup {b}
    BY <1>3, ConnectFacts DEF TotalsInv
  <2>2. /\ \A i \in DOMAIN Vtx[b] : Applies(b, i)
        /\ \A i \in DOMAIN Vtx[b] : VerdictAt(b, i) = "ok"
        /\ HasValues(Outputs(CoinsAt(b, 0)))
    BY <1>3, ConnectFacts DEF TotalsInv
  <2>3. /\ \A a \in Block \ {b} : mapMoneySupply'[a] = mapMoneySupply[a]
        /\ \A a \in Block \ {b} : mapTotalParked'[a] = mapTotalParked[a]
        /\ \A u \in Units : mapMoneySupply'[b][u] = mapMoneySupply[viewBest][u] + Created(b, u)
        /\ mapTotalParked'[b]["B"] = mapTotalParked[viewBest]["B"] + NewlyParked(b, "B")
        /\ nRestarts' = nRestarts
    BY <1>3 DEF ConnectBlock, TotalsInv, TotalsTypeOK, Units
  <2>4. Connected \subseteq Block
    BY TreeAssumption DEF TotalsInv, LInv, CoinsTypeOK, Connected
  <2>5. SupplyInv'
    <3>1. ASSUME NEW u \in Units
          PROVE  mapMoneySupply'[b][u] = ValueOf(Outputs(Tip(b)) \cap InUnit(u))
      <4>1. mapMoneySupply[viewBest][u] = ValueOf(Outputs(CoinsAt(b, 0)) \cap InUnit(u))
        BY <2>1 DEF SupplyInv
      <4>2. ValueOf(Outputs(Tip(b)) \cap InUnit(u))
              = ValueOf(Outputs(CoinsAt(b, 0)) \cap InUnit(u)) + Created(b, u)
        BY <2>2, MoneyOfBlock
      <4> QED
        BY <2>3, <4>1, <4>2
    <3> QED
      BY <2>1, <2>3, <2>4, <3>1 DEF SupplyInv
  <2>6. ParkedInv'
    <3> SUFFICES ASSUME nRestarts = 0, NEW a \in Connected'
                 PROVE  mapTotalParked'[a]["B"] = ValueOf(Outputs(Tip(a)) \cap ParkedB)
      BY <2>3 DEF ParkedInv
    <3>1. CASE a = b
      <4>1. mapTotalParked[viewBest]["B"] = ValueOf(Outputs(CoinsAt(b, 0)) \cap ParkedB)
        BY <2>1 DEF ParkedInv
      <4>2. ValueOf(Outputs(Tip(b)) \cap ParkedB)
              = ValueOf(Outputs(CoinsAt(b, 0)) \cap ParkedB) + NewlyParked(b, "B")
        BY <2>2, ParkedOfBlock
      <4> QED
        BY <2>3, <3>1, <4>1, <4>2
    <3>2. CASE a # b
      BY <2>1, <2>3, <2>4, <3>2 DEF ParkedInv
    <3> QED
      BY <3>1, <3>2
  <2> QED
    BY <2>5, <2>6
<1> QED
  BY <1>1, <1>2, <1>3, OtherSteps

\* The money supply of the tip is the value of the unspent outputs, and its parked total
\* that of the parked ones, after any reorganisations: when no transaction mixes units
\* and no grant parks, which AcceptToMemoryPool and CheckCustodianGrants see to and
\* ConnectBlock takes for granted, and when the blocks that are connected without their
\* scripts spend no parked output otherwise.
THEOREM SupplyIsThatOfTheCoins ==
  ASSUME SameUnits, GrantsUnparked, ParkedKeptBelow
  PROVE  LedgerSpec => []SupplyExact
<1>1. LedgerInit => SupplyInv /\ ParkedInv
  <2> SUFFICES ASSUME LedgerInit PROVE SupplyInv /\ ParkedInv
    OBVIOUS
  <2>1. \A K : ValueOf(Outputs(Tip(Genesis)) \cap K) = 0
    <3> SUFFICES ASSUME NEW K PROVE ValueOf(Outputs(Tip(Genesis)) \cap K) = 0
      OBVIOUS
    <3>1. Outputs(Tip(Genesis)) \cap K = {}
      BY NothingAtGenesis
    <3> QED
      BY <3>1, ValueOfNone
  <2>2. Connected = {Genesis} /\ Genesis \in Block
    BY TreeAssumption DEF LedgerInit, Connected
  <2> QED
    BY <2>1, <2>2 DEF LedgerInit, SupplyInv, ParkedInv, Units
<1>2. TotalsInv /\ SupplyInv /\ ParkedInv /\ [LedgerNext]_ledgerVars => (SupplyInv /\ ParkedInv)'
  BY SupplyInvStep
<1>3. TotalsInv /\ SupplyInv /\ ParkedInv => SupplyExact
  <2> SUFFICES ASSUME TotalsInv, SupplyInv, ParkedInv PROVE SupplyExact
    OBVIOUS
  <2>1. pindexBest \in Connected /\ pcoinsTip = Tip(pindexBest) /\ pcoinsTip \in [Tx -> CCoins]
    BY DEF TotalsInv, LInv, TipInv, CoinsTypeOK
  <2>2. Outputs(pcoinsTip) \subseteq Tx \X Nat
    BY <2>1 DEF Outputs, CCoins
  <2>3. \A u : OutputsIn(pcoinsTip, u) = Outputs(pcoinsTip) \cap InUnit(u)
    BY <2>2 DEF OutputsIn, InUnit
  <2>4. {o \in OutputsIn(pcoinsTip, "B") : IsParked(o)} = Outputs(pcoinsTip) \cap ParkedB
    BY <2>3 DEF ParkedB
  <2>5. \A u \in Units : mapMoneySupply[pindexBest][u] = ValueOf(OutputsIn(pcoinsTip, u))
    <3> SUFFICES ASSUME NEW u \in Units
                 PROVE  mapMoneySupply[pindexBest][u] = ValueOf(OutputsIn(pcoinsTip, u))
      OBVIOUS
    <3> DEFINE A == OutputsIn(pcoinsTip, u)
               B == Outputs(pcoinsTip) \cap InUnit(u)
    <3>1. A = B
      BY <2>3
    <3>2. mapMoneySupply[pindexBest][u] = ValueOf(B)
      BY <2>1 DEF SupplyInv
    <3> HIDE DEF A, B
    <3>3. mapMoneySupply[pindexBest][u] = ValueOf(A)
      BY <3>1, <3>2
    <3> QED
      BY <3>3 DEF A
  <2>6. nRestarts = 0 => mapTotalParked[pindexBest]["B"]
                           = ValueOf({o \in OutputsIn(pcoinsTip, "B") : IsParked(o)})
    <3> DEFINE A == {o \in OutputsIn(pcoinsTip, "B") : IsParked(o)}
               B == Outputs(pcoinsTip) \cap ParkedB
    <3>1. A = B
      BY <2>4
    <3>2. nRestarts = 0 => mapTotalParked[pindexBest]["B"] = ValueOf(B)
      BY <2>1 DEF ParkedInv
    <3> HIDE DEF A, B
    <3>3. nRestarts = 0 => mapTotalParked[pindexBest]["B"] = ValueOf(A)
      BY <3>1, <3>2
    <3> QED
      BY <3>3 DEF A
  <2> QED
    BY <2>5, <2>6 DEF SupplyExact
<1> QED
  BY <1>1, <1>2, <1>3, TotalsInvHolds, PTL DEF LedgerSpec
================================================================================
