--------------------------------- MODULE Ledger ---------------------------------
(***************************************************************************)
(* The coins: how SetBestChain takes the set of unspent outputs from one   *)
(* block to another, through DisconnectBlock, ConnectBlock, CheckInputs    *)
(* and the undo data that ConnectBlock writes and DisconnectBlock reads.   *)
(*                                                                         *)
(* All changes are made in a cache, the view, one transaction at a time,   *)
(* and pcoinsTip takes them when all blocks are connected; whatever fails  *)
(* on the way discards the view.  pcoinsTip is itself a cache: the         *)
(* database behind it takes the coins at each new tip, or later while the  *)
(* node catches up with the network, and a node that is killed goes back   *)
(* to the coins of the database.                                           *)
(*                                                                         *)
(* A transaction is a name.  Its outputs are numbered from 1.  The height  *)
(* of a CCoins stands for all that is known of a transaction besides its   *)
(* outputs: coinbase or not, time, unit and version are kept, written to   *)
(* the undo data and restored together with it.                            *)
(***************************************************************************)
EXTENDS BlockTree, Integers, Sequences, FiniteSetsExt

CONSTANTS
    Tx,             \* the transactions
    Kind,           \* coinbase, coinstake, grant, unpark or user transaction
    Vin,            \* outputs each one spends: pairs of a transaction and a number
    Vout,           \* values of the outputs of each one, a sequence
    Duration,       \* duration each output is parked for, 0 if it is not
    Unit,           \* 'S' for shares, 'B' for currency
    Vtx,            \* the transactions of each block, in order
    Premium,        \* of an unpark transaction, by the block that parked
    BadTime,        \* transactions dated before what they spend, or values out of range
    BadInput,       \* transactions whose scripts or addresses are wrong
    Maturity,       \* GetMaturity, by kind
    MinFee,         \* least fee of a transaction in the block above another, as voted
    StakeReward,    \* most that a coinstake may mint in the block above another
    TotalBlocksEstimate,    \* height of the last checkpoint
    Download,       \* other tips at which IsInitialBlockDownload may hold
    MaxRestarts     \* bound on the number of restarts of the node

Minted == {t \in Tx : Kind[t] \in {"coinbase", "grant"}}

ASSUME TxAssumption ==
    /\ Null \notin Tx
    /\ Kind \in [Tx -> {"coinbase", "coinstake", "grant", "unpark", "user"}]
    /\ Vout \in [Tx -> Seq(Nat) \ {<<>>}]
    /\ Vin \in [Tx -> SUBSET (Tx \X Nat)]
    /\ \A t \in Tx : Vin[t] = {} <=> t \in Minted
    /\ \A t \in Tx : \A o \in Vin[t] : o[1] # t /\ o[2] \in DOMAIN Vout[o[1]]
    /\ Unit \in [Tx -> {"S", "B"}]
    /\ Duration \in [Tx -> Seq(Nat)]
    /\ \A t \in Tx : Len(Duration[t]) = Len(Vout[t])
    /\ BadTime \subseteq Tx /\ BadInput \subseteq Tx
    /\ \A t \in Tx : Kind[t] \in {"coinbase", "coinstake"} => Maturity[Kind[t]] \in Nat
    /\ MinFee \in [Tx -> [Block \cup {Null} -> Nat]]
    /\ StakeReward \in [Block -> Int]

\* CheckBlock refuses a block that holds a transaction twice, and the transactions of
\* the genesis block are skipped.
ASSUME BlockAssumption ==
    /\ Vtx \in [Block -> Seq(Tx)]
    /\ Vtx[Genesis] = <<>>
    /\ \A b \in Block : \A i, j \in DOMAIN Vtx[b] : Vtx[b][i] = Vtx[b][j] => i = j

\* A coinbase or a grant is in one block of a branch at most: it carries a time, which
\* CheckBlock and CheckCustodianGrants tie to that of its block, and an address is
\* elected once.  A copy that is mined again after all of its outputs were spent, which
\* the check against overwriting would let pass, is not considered.
ASSUME MintedAssumption ==
    \A b \in Block : \A a \in Chain[b] \ {b} :
        \A i \in DOMAIN Vtx[a], j \in DOMAIN Vtx[b] :
            Vtx[a][i] = Vtx[b][j] => Vtx[b][j] \notin Minted

ASSUME DownloadAssumption == TotalBlocksEstimate \in Nat /\ Download \subseteq Block

ASSUME LedgerRestartAssumption == MaxRestarts \in Nat

VARIABLES
    pindexBest,         \* the tip, and the best block of pcoinsTip
    pcoinsTip,          \* the CCoins of each transaction
    pcoinsdbview,       \* those of the database
    coinsBest,          \* its best block
    pc,                 \* what SetBestChain is doing
    pindexNew,          \* the block it goes to
    view,               \* the cache it works on
    viewBest,           \* the best block of the view
    nTx,                \* transactions of the current block that are in the view
    blockundo,          \* undo data of the block being connected
    vtxundo,            \* undo data on disk of each block
    nUndoPos,           \* blocks that have undo data on disk
    fClean,             \* DisconnectBlock found the view as it should be
    verdict,            \* what ConnectBlock last answered for each block
    mapMoneySupply,     \* of each block index, by unit
    mapTotalParked,
    nRestarts

viewVars  == <<pindexNew, view, viewBest, nTx, blockundo>>
diskVars  == <<vtxundo, nUndoPos, pcoinsdbview, coinsBest>>
totalVars == <<mapMoneySupply, mapTotalParked>>
ledgerVars == <<pindexBest, pcoinsTip, pc, viewVars, diskVars, fClean, verdict,
                totalVars, nRestarts>>

\* A CCoins without unspent outputs, which is erased when it is written.
Pruned == [vout |-> {}, nHeight |-> 0]

CCoins == [vout : SUBSET Nat, nHeight : Nat]

Units == {"S", "B"}

CoinsTypeOK ==
    /\ pindexBest \in Block
    /\ pcoinsTip \in [Tx -> CCoins]
    /\ pcoinsdbview \in [Tx -> CCoins]
    /\ coinsBest \in Block
    /\ pc \in {"idle", "disconnect", "connect"}
    /\ pindexNew \in Block
    /\ view \in [Tx -> CCoins]
    /\ viewBest \in Block
    /\ nTx \in Nat
    /\ blockundo \in Seq([Tx -> Nat])
    /\ vtxundo \in [Block -> Seq([Tx -> Nat])]
    /\ nUndoPos \subseteq Block
    /\ fClean \in BOOLEAN
    /\ verdict \in [Block -> {"none", "ok", "invalid", "error"}]
    /\ nRestarts \in 0 .. MaxRestarts
    /\ pc = "connect" => Len(blockundo) = nTx

LedgerTypeOK ==
    /\ CoinsTypeOK
    /\ mapMoneySupply \in [Block -> [Units -> Int]]
    /\ mapTotalParked \in [Block -> [Units -> Int]]

LedgerInit ==
    /\ pindexBest = Genesis
    /\ pcoinsTip = [t \in Tx |-> Pruned]
    /\ pcoinsdbview = pcoinsTip
    /\ coinsBest = Genesis
    /\ pc = "idle"
    /\ pindexNew = Genesis
    /\ view = [t \in Tx |-> Pruned]
    /\ viewBest = Genesis
    /\ nTx = 0
    /\ blockundo = <<>>
    /\ vtxundo = [b \in Block |-> <<>>]
    /\ nUndoPos = {}
    /\ fClean = TRUE
    /\ verdict = [b \in Block |-> "none"]
    /\ mapMoneySupply = [b \in Block |-> [u \in Units |-> 0]]
    /\ mapTotalParked = [b \in Block |-> [u \in Units |-> 0]]
    /\ nRestarts = 0

--------------------------------------------------------------------------------
\* Coins.

\* The outputs of p that t spends.
SpentBy(p, t) == {n \in DOMAIN Vout[p] : <<p, n>> \in Vin[t]}

\* CCoins(tx, nHeight): every output of a transaction is there.
FullCoins(t, h) == [vout |-> DOMAIN Vout[t], nHeight |-> h]

\* CCoins::Spend of outputs.
Spend(coins, outs) ==
    IF coins.vout \ outs = {} THEN Pruned
    ELSE [vout |-> coins.vout \ outs, nHeight |-> coins.nHeight]

\* UpdateCoins: the inputs of t are spent and its outputs added.
UpdateCoins(c, t, h) ==
    [p \in Tx |-> IF p = t THEN FullCoins(t, h)
                  ELSE IF SpentBy(p, t) = {} THEN c[p]
                  ELSE Spend(c[p], SpentBy(p, t))]

\* Mutated form: the height is kept with the first output that is spent.
UndoFirst(c, t) ==
    [p \in Tx |-> IF SpentBy(p, t) # {} /\ c[p].vout = DOMAIN Vout[p]
                  THEN c[p].nHeight ELSE 0]

\* The CTxUndo of t: the height of a transaction is kept when its last output is
\* spent, and is 0 otherwise.
TxUndo(c, t) ==
    [p \in Tx |-> IF SpentBy(p, t) # {} /\ c[p].vout \ SpentBy(p, t) = {}
                  THEN c[p].nHeight ELSE 0]

\* Mutated form: the outputs stay.
RestoreInputs(c, t, undo) ==
    [p \in Tx |->
        IF SpentBy(p, t) = {} THEN c[p]
        ELSE IF undo[p] # 0
             THEN [vout |-> SpentBy(p, t), nHeight |-> undo[p]]
             ELSE [vout |-> c[p].vout \cup SpentBy(p, t), nHeight |-> c[p].nHeight]]

\* DisconnectBlock takes t back: its outputs are removed, its inputs restored.
RestoreCoins(c, t, undo) ==
    [p \in Tx |->
        IF p = t THEN Pruned
        ELSE IF SpentBy(p, t) = {} THEN c[p]
        ELSE IF undo[p] # 0
             THEN [vout |-> SpentBy(p, t), nHeight |-> undo[p]]
             ELSE [vout |-> c[p].vout \cup SpentBy(p, t), nHeight |-> c[p].nHeight]]

\* What DisconnectBlock checks when it takes t back.
IsClean(c, t, undo, h) ==
    /\ c[t] = FullCoins(t, h)
    /\ \A p \in Tx : SpentBy(p, t) # {} =>
          /\ undo[p] # 0 <=> c[p].vout = {}
          /\ SpentBy(p, t) \cap c[p].vout = {}

--------------------------------------------------------------------------------
\* Checks.

\* CheckTransaction: shares are minted, and currency is parked.
CheckTransaction(t) ==
    /\ Kind[t] \in {"coinbase", "coinstake"} => Unit[t] = "S"
    /\ Unit[t] = "S" => \A n \in DOMAIN Duration[t] : Duration[t][n] = 0

HaveInputs(t, c) == \A o \in Vin[t] : o[2] \in c[o[1]].vout

\* The value of outputs.
ValueOf(outs) == SumFunction([o \in outs |-> Vout[o[1]][o[2]]])

\* The outputs of a transaction.
TxOutputs(t) == {t} \X DOMAIN Vout[t]

ValueIn(t) == ValueOf(Vin[t])

ValueOut(t) == ValueOf(TxOutputs(t))

AreInputsSameUnit(t) == \A o \in Vin[t] : Unit[o[1]] = Unit[t]

\* An input was minted too short a time ago.
IsImmature(t, c, nSpendHeight) ==
    \E o \in Vin[t] : /\ Kind[o[1]] \in {"coinbase", "coinstake"}
                      /\ nSpendHeight - c[o[1]].nHeight < Maturity[Kind[o[1]]]

IsParked(o) == Duration[o[1]][o[2]] # 0

SpendsParked(t) == \E o \in Vin[t] : IsParked(o)

\* The parked output's duration has passed, and the transaction pays out what was
\* parked and the premium of the block that parked it.
IsValidUnpark(t, c, pindexPrev) ==
    \A o \in Vin[t] :
        /\ Vin[t] = {o} /\ Len(Vout[t]) = 1
        /\ IsParked(o)
        /\ nHeight[pindexPrev] + 1 - c[o[1]].nHeight >= Duration[o[1]][o[2]]
        /\ \E a \in Chain[pindexPrev] :
              /\ nHeight[a] = c[o[1]].nHeight
              /\ ValueOut(t) = ValueIn(t) + Premium[t][a]
        /\ t \notin BadInput

\* The reward of a coinstake, and the fee of another transaction, in the block after
\* pindexPrev.
PaysFee(t, pindexPrev) ==
    IF Kind[t] = "coinstake"
    THEN ValueOut(t) - ValueIn(t) <= StakeReward[pindexPrev]
    ELSE ValueIn(t) - ValueOut(t) >= MinFee[t][pindexPrev]

\* The scripts of the inputs run: that of a parked output fails.
VerifiesScripts(t) == t \notin BadInput /\ ~SpendsParked(t)

\* CheckInputs of a transaction in the block after pindexPrev.  An unpark transaction
\* has no scripts and pays no fee.
CheckInputs(t, c, pindexPrev, fScriptChecks) ==
    IF \/ ~HaveInputs(t, c)
       \/ IsImmature(t, c, nHeight[pindexPrev] + 1)
       \/ t \in BadTime THEN "invalid"
    ELSE IF Kind[t] = "unpark"
         THEN IF IsValidUnpark(t, c, pindexPrev) THEN "ok" ELSE "error"
    ELSE IF PaysFee(t, pindexPrev) /\ (fScriptChecks => VerifiesScripts(t))
         THEN "ok" ELSE "invalid"

\* ConnectBlock skips the scripts of blocks below the last checkpoint.
HasScriptChecks(b) == nHeight[b] >= TotalBlocksEstimate

\* What ConnectBlock refuses before it looks at inputs: a transaction that is wrong in
\* itself or would overwrite one with unspent outputs.
Malformed(b, c) ==
    \E i \in DOMAIN Vtx[b] : ~CheckTransaction(Vtx[b][i]) \/ c[Vtx[b][i]].vout # {}

\* The block of the target's branch that is connected next.
IsNextBlock(b) == b \in Chain[pindexNew] /\ Prev[b] = viewBest

\* Mutated form: checks against the tip.
TxVerdictAtTip(b) ==
    IF nTx = 0 /\ Malformed(b, view) THEN "invalid"
    ELSE IF Vtx[b][nTx + 1] \in Minted THEN "ok"
    ELSE CheckInputs(Vtx[b][nTx + 1], view, pindexBest, HasScriptChecks(b))

\* What ConnectBlock says of the next transaction.
TxVerdict(b) ==
    IF nTx = 0 /\ Malformed(b, view) THEN "invalid"
    ELSE IF Vtx[b][nTx + 1] \in Minted THEN "ok"
    ELSE CheckInputs(Vtx[b][nTx + 1], view, viewBest, HasScriptChecks(b))

--------------------------------------------------------------------------------
\* SetBestChain.

\* Mutated form: the undo data collected so far is kept.
NoViewButUndo ==
    /\ pc' = "idle"
    /\ pindexNew' = pindexBest'
    /\ view' = pcoinsTip'
    /\ viewBest' = pindexBest'
    /\ nTx' = 0
    /\ UNCHANGED blockundo

\* The view is gone: SetBestChain has returned.
NoView ==
    /\ pc' = "idle"
    /\ pindexNew' = pindexBest'
    /\ view' = pcoinsTip'
    /\ viewBest' = pindexBest'
    /\ nTx' = 0
    /\ blockundo' = <<>>

\* ConnectBestBlock goes to a block with more trust, none of whose ancestors failed;
\* ProcessBlock goes back to the parent of a cancelled block.
BeginSetBestChain(b) ==
    /\ pc = "idle"
    /\ \/ /\ nChainTrust[b] > nChainTrust[pindexBest]
          /\ \A a \in Chain[b] : verdict[a] # "invalid"
       \/ b = Prev[pindexBest]
    /\ pc' = "disconnect"
    /\ pindexNew' = b
    /\ view' = pcoinsTip
    /\ viewBest' = pindexBest
    /\ nTx' = Len(Vtx[pindexBest])
    /\ UNCHANGED <<pindexBest, pcoinsTip, blockundo, diskVars, fClean, verdict,
                   totalVars, nRestarts>>

\* DisconnectBlock takes back the last transaction of the view.  If the coins are not
\* what they should be it fails, and the view is discarded.
DisconnectTx ==
    /\ pc = "disconnect"
    /\ viewBest \notin Chain[pindexNew]
    /\ nTx > 0
    /\ UNCHANGED <<pindexBest, pcoinsTip>>
    /\ LET t == Vtx[viewBest][nTx]
           undo == vtxundo[viewBest][nTx]
       IN  /\ fClean' = IsClean(view, t, undo, nHeight[viewBest])
           /\ IF fClean'
              THEN /\ view' = RestoreCoins(view, t, undo)
                   /\ nTx' = nTx - 1
                   /\ UNCHANGED <<pc, pindexNew, viewBest, blockundo>>
              ELSE NoView
    /\ UNCHANGED <<diskVars, verdict, totalVars, nRestarts>>

\* DisconnectBlock is done: the best block of the view is the parent.
DisconnectBlock ==
    /\ pc = "disconnect"
    /\ viewBest \notin Chain[pindexNew]
    /\ nTx = 0
    /\ viewBest' = Prev[viewBest]
    /\ nTx' = Len(Vtx[Prev[viewBest]])
    /\ UNCHANGED <<pindexBest, pcoinsTip, pc, pindexNew, view, blockundo, diskVars,
                   fClean, verdict, totalVars, nRestarts>>

\* The fork is reached: what is left is to connect the longer branch.
ReachFork ==
    /\ pc = "disconnect"
    /\ viewBest \in Chain[pindexNew]
    /\ pc' = "connect"
    /\ nTx' = 0
    /\ UNCHANGED <<pindexBest, pcoinsTip, pindexNew, view, viewBest, blockundo,
                   diskVars, fClean, verdict, totalVars, nRestarts>>

\* ConnectBlock checks the next transaction and applies it to the view.
ConnectTx(b) ==
    /\ pc = "connect"
    /\ IsNextBlock(b)
    /\ nTx < Len(Vtx[b])
    /\ TxVerdict(b) = "ok"
    /\ view' = UpdateCoins(view, Vtx[b][nTx + 1], nHeight[b])
    /\ blockundo' = Append(blockundo, TxUndo(view, Vtx[b][nTx + 1]))
    /\ nTx' = nTx + 1
    /\ UNCHANGED <<pindexBest, pcoinsTip, pc, pindexNew, viewBest, diskVars, fClean,
                   verdict, totalVars, nRestarts>>

\* ConnectBlock refuses the block for its next transaction: SetBestChain fails and
\* the view is discarded.
RefuseTx(b) ==
    /\ pc = "connect"
    /\ IsNextBlock(b)
    /\ nTx < Len(Vtx[b])
    /\ TxVerdict(b) # "ok"
    /\ verdict' = [verdict EXCEPT ![b] = TxVerdict(b)]
    /\ UNCHANGED <<pindexBest, pcoinsTip>>
    /\ NoView
    /\ UNCHANGED <<diskVars, fClean, totalVars, nRestarts>>

TxsOf(b) == {Vtx[b][i] : i \in DOMAIN Vtx[b]}

\* The transactions of a block in a unit.
TxsIn(b, u) == {t \in TxsOf(b) : Unit[t] = u}

\* The sums of values over transactions.
SumValueOut(txs) == SumFunction([t \in txs |-> ValueOut(t)])
SumValueIn(txs) == SumFunction([t \in txs |-> ValueIn(t)])

\* Mutated form: fees are not destroyed.
CreatedByMinting(b, u) == SumValueOut(TxsIn(b, u) \cap Minted)

\* What the transactions of a block in a unit add to the money supply.
Created(b, u) == SumValueOut(TxsIn(b, u)) - SumValueIn(TxsIn(b, u))

ParkedOut(t) == ValueOf({o \in TxOutputs(t) : IsParked(o)})

\* What they park, less what they unpark.
NewlyParked(b, u) ==
    SumFunction([t \in TxsIn(b, u) \ Minted |-> ParkedOut(t)])
    - SumValueIn({t \in TxsIn(b, u) : Kind[t] = "unpark"})

\* ConnectBlock is done: the totals of the index are computed, the undo data is
\* written the first time, and the block is the best block of the view.
ConnectBlock(b) ==
    /\ pc = "connect"
    /\ IsNextBlock(b)
    /\ nTx = Len(Vtx[b])
    /\ verdict' = [verdict EXCEPT ![b] = "ok"]
    /\ mapMoneySupply' =
          [mapMoneySupply EXCEPT ![b] =
              [u \in Units |-> mapMoneySupply[viewBest][u] + Created(b, u)]]
    /\ mapTotalParked' =
          [mapTotalParked EXCEPT ![b] =
              [u \in Units |-> IF u = "S" THEN 0
                               ELSE mapTotalParked[viewBest][u] + NewlyParked(b, u)]]
    /\ vtxundo' = IF b \in nUndoPos THEN vtxundo
                  ELSE [vtxundo EXCEPT ![b] = blockundo]
    /\ nUndoPos' = nUndoPos \cup {b}
    /\ viewBest' = b
    /\ nTx' = 0
    /\ blockundo' = <<>>
    /\ UNCHANGED <<pindexBest, pcoinsTip, pcoinsdbview, coinsBest, pc, pindexNew, view,
                   fClean, nRestarts>>

\* IsInitialBlockDownload: below the last checkpoint, and at other times, when the tip
\* is old and moves fast.
MayBeInitialDownload ==
    nHeight[pindexBest] < TotalBlocksEstimate \/ pindexBest \in Download

\* Everything is connected: the view is flushed into pcoinsTip, and the tip moves.
\* pcoinsTip is flushed to the database, but in the initial download only when it has
\* grown too large.
FlushView(fFlush) ==
    /\ pc = "connect"
    /\ viewBest = pindexNew
    /\ fFlush \/ MayBeInitialDownload
    /\ pcoinsTip' = view
    /\ pindexBest' = pindexNew
    /\ IF fFlush THEN pcoinsdbview' = view /\ coinsBest' = pindexNew
       ELSE UNCHANGED <<pcoinsdbview, coinsBest>>
    /\ NoView
    /\ UNCHANGED <<vtxundo, nUndoPos, fClean, verdict, totalVars, nRestarts>>

\* The node stops and starts again.  Shutdown takes cs_main and flushes the coins; a node
\* that is killed, at any point, finds those of the database.  The undo data and the
\* block indexes are read back: BlockMap::load restores the money supply of an index and
\* not the parked total.
LedgerRestart(fShutdown) ==
    /\ nRestarts < MaxRestarts
    /\ nRestarts' = nRestarts + 1
    /\ IF fShutdown
       THEN /\ pc = "idle"
            /\ UNCHANGED <<pindexBest, pcoinsTip>>
       ELSE pindexBest' = coinsBest /\ pcoinsTip' = pcoinsdbview
    /\ coinsBest' = pindexBest' /\ pcoinsdbview' = pcoinsTip'
    /\ NoView
    /\ mapTotalParked' = [b \in Block |-> [u \in Units |-> 0]]
    /\ UNCHANGED <<vtxundo, nUndoPos, fClean, verdict, mapMoneySupply>>

LedgerNext ==
    \/ \E b \in Block : BeginSetBestChain(b)
    \/ DisconnectTx
    \/ DisconnectBlock
    \/ ReachFork
    \/ \E b \in Block : ConnectTx(b) \/ RefuseTx(b) \/ ConnectBlock(b)
    \/ \E f \in BOOLEAN : FlushView(f) \/ LedgerRestart(f)

LedgerSpec == LedgerInit /\ [][LedgerNext]_ledgerVars

--------------------------------------------------------------------------------

\* The transactions of the chain that ends in a block.
ChainTxs(b) == UNION {TxsOf(a) : a \in Chain[b]}

\* The outputs of t that the chain of b creates and does not spend.
UnspentIn(t, b) ==
    {n \in DOMAIN Vout[t] : /\ t \in ChainTxs(b)
                            /\ \A u \in ChainTxs(b) : <<t, n>> \notin Vin[u]}

\* Safety.  The coins are those of the chain that ends in the tip, whatever was
\* connected, disconnected, refused, cut short by a restart, or lost by one because
\* pcoinsTip was not flushed: an output is there if a transaction of the chain creates
\* it and none spends it, with the height of the block that holds its transaction.
CoinsExact ==
    \A t \in Tx :
        /\ pcoinsTip[t].vout = UnspentIn(t, pindexBest)
        /\ pcoinsTip[t].vout # {} =>
              \E a \in Chain[pindexBest] :
                  t \in TxsOf(a) /\ pcoinsTip[t].nHeight = nHeight[a]

\* Safety.  DisconnectBlock never finds the coins other than the block left them: a
\* reorganisation does not fail on the way down, and the undo data written when a block
\* was first connected is right each time it is disconnected.
DisconnectsClean == fClean

\* The unspent outputs of coins, and those in a unit.
Outputs(c) == UNION {{t} \X c[t].vout : t \in Tx}
OutputsIn(c, u) == {o \in Outputs(c) : Unit[o[1]] = u}

\* Safety.  The money supply of the tip is the value of the unspent outputs, in each
\* unit, and its parked total that of the parked ones, whatever branches the totals were
\* computed on before.  The parked total is lost when the node stops.
SupplyExact ==
    /\ \A u \in Units : mapMoneySupply[pindexBest][u] = ValueOf(OutputsIn(pcoinsTip, u))
    /\ nRestarts = 0 =>
          mapTotalParked[pindexBest]["B"] =
              ValueOf({o \in OutputsIn(pcoinsTip, "B") : IsParked(o)})

\* Action property.  What ConnectBlock says of a block does not change: its verdict
\* depends on the block and its ancestors and not on the branches the node was on.
VerdictStable ==
    [][\A b \in Block : verdict[b] # "none" => verdict'[b] = verdict[b]]_ledgerVars

================================================================================
