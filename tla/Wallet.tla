--------------------------------- MODULE Wallet ---------------------------------
(***************************************************************************)
(* The wallet of the shares: which transactions it knows, in which block   *)
(* it last saw them, and which of its outputs it takes for spent.          *)
(*                                                                         *)
(* It follows the chain through SyncWithWallets, which ConnectBlock and    *)
(* DisconnectBlock call while SetBestChain still works on its view: what   *)
(* the wallet was told stays when the view is discarded.  Every change is  *)
(* written to wallet.dat at once, so that it survives a stop.              *)
(*                                                                         *)
(* Parked outputs, which only wallets of currency hold, keys and labels    *)
(* are left out.                                                           *)
(***************************************************************************)
EXTENDS TxPool

CONSTANTS
    Mine,               \* outputs that pay to a key of the wallet
    MaturityMargin,     \* blocks a minted coin has to wait beyond its maturity
    LocatorInterval,    \* heights at which the wallet notes the best block
    DownloadInterval    \* heights at which it does so in the initial download too

cUnit == "S"

ASSUME WalletAssumption ==
    /\ Mine \subseteq Tx \X Nat
    /\ \A o \in Mine : /\ o[2] \in DOMAIN Vout[o[1]]
                       /\ Unit[o[1]] = cUnit
                       /\ Duration[o[1]][o[2]] = 0
    /\ MaturityMargin \in Nat
    /\ LocatorInterval \in Nat \ {0}
    /\ DownloadInterval \in Nat \ {0}

VARIABLES
    mapWallet,      \* transactions from or to the wallet
    hashBlock,      \* the block each one was last seen in
    fFromMe,        \* those that the wallet made, with the transactions they rest on
    vfSpent,        \* outputs marked as spent
    hashLocator,    \* the best block noted in wallet.dat
    fStarting,      \* the node starts, and ReacceptWalletTransactions has not run
    pnext,          \* successors in the best chain, as stored with the block indexes
    fLost           \* history: a stop lost blocks

walletVars == <<mapWallet, hashBlock, fFromMe, vfSpent, hashLocator, fStarting, pnext,
                fLost>>

OutputsOf(T) == {o \in OutPoint : o[1] \in T}

WalletTypeOK ==
    /\ TypeOK
    /\ mapWallet \subseteq Tx
    /\ hashBlock \in [Tx -> Block \cup {Null}]
    /\ fFromMe \subseteq mapWallet
    /\ vfSpent \subseteq Mine \cap OutputsOf(mapWallet)
    /\ hashLocator \in Block
    /\ fStarting \in BOOLEAN
    /\ pnext \in [Block -> Block \cup {Null}]
    /\ fLost \in BOOLEAN

WalletInit ==
    /\ Init
    /\ mapWallet = {}
    /\ hashBlock = [t \in Tx |-> Null]
    /\ fFromMe = {}
    /\ vfSpent = {}
    /\ hashLocator = Genesis
    /\ fStarting = FALSE
    /\ pnext = [b \in Block |-> Null]
    /\ fLost = FALSE

--------------------------------------------------------------------------------
\* The wallet as a record, so that steps can follow each other.

TheWallet == [tx |-> mapWallet, block |-> hashBlock, spent |-> vfSpent]

WalletIs(w) == mapWallet' = w.tx /\ hashBlock' = w.block /\ vfSpent' = w.spent

\* The outputs of the wallet that a transaction spends.
OwnInputs(w, t) == {o \in Vin[t] \cap Mine : o[1] \in w.tx}

IsFromMe(w, t) == Unit[t] = cUnit /\ OwnInputs(w, t) # {}

IsMine(t) == Unit[t] = cUnit /\ \E o \in Mine : o[1] = t

\* WalletUpdateSpent.
WalletUpdateSpent(w, t) ==
    IF Unit[t] = cUnit THEN [w EXCEPT !.spent = @ \cup OwnInputs(w, t)] ELSE w

\* AddToWallet of a transaction seen in block b, or in none.  Of a transaction that is
\* there already the block is replaced, but never by none.
AddToWallet(w, t, b) ==
    WalletUpdateSpent([w EXCEPT !.tx = @ \cup {t},
                                !.block[t] = IF t \in w.tx /\ b = Null THEN @ ELSE b],
                      t)

\* Mutated form: of a transaction that is known the inputs are not looked at again.
SyncNewOnly(w, t, b) ==
    IF t \in w.tx THEN [w EXCEPT !.block[t] = b]
    ELSE IF Unit[t] = cUnit /\ (IsMine(t) \/ IsFromMe(w, t)) THEN AddToWallet(w, t, b)
    ELSE w

\* SyncWithWallets of a transaction that is connected or enters the pool.
SyncWithWallets(w, t, b) ==
    IF Unit[t] = cUnit /\ (t \in w.tx \/ IsMine(t) \/ IsFromMe(w, t))
    THEN AddToWallet(w, t, b)
    ELSE WalletUpdateSpent(w, t)

\* Mutated form: nothing is given back.
KeepTransaction(w, t) == w

\* SyncWithWallets of a transaction that is disconnected: the inputs of a coinstake are
\* given back.  Other transactions return to the pool, or are the user's affair.
DisableTransaction(w, t) ==
    IF Kind[t] = "coinstake" /\ IsFromMe(w, t)
    THEN [w EXCEPT !.spent = @ \ OwnInputs(w, t)] ELSE w

SyncBlock(w, b) == FoldLeft(LAMBDA v, t : SyncWithWallets(v, t, b), w, Vtx[b])

--------------------------------------------------------------------------------
\* What can be spent.

\* CBlockIndex::IsInMainChain.  After a stop that lost blocks the stored successors lead
\* past the tip, or along another branch than that of the tip.
IsInMainChain(b) == pnext[b] # Null \/ b = pindexBest

\* GetDepthInMainChain: the block it was last seen in counts, not the ones before.  It
\* is not above 0 for a block past the tip.
DepthInMainChain(t) ==
    IF hashBlock[t] # Null /\ IsInMainChain(hashBlock[t])
    THEN nHeight[pindexBest] - nHeight[hashBlock[t]] + 1 ELSE 0

\* IsConfirmed: in the chain, or made by the wallet from such transactions.
IsConfirmed(t) ==
    \/ DepthInMainChain(t) >= 1
    \/ \E S \in SUBSET fFromMe :
          /\ t \in S
          /\ \A s \in S : \A o \in Vin[s] : o[1] \in S \/ DepthInMainChain(o[1]) >= 1

IsMatureInWallet(t) ==
    Kind[t] \in {"coinbase", "coinstake"} =>
        DepthInMainChain(t) >= Maturity[Kind[t]] + MaturityMargin

\* Mutated form: the marks are not looked at.
AvailableMarked ==
    {o \in Mine : o[1] \in mapWallet /\ IsConfirmed(o[1]) /\ IsMatureInWallet(o[1])}

AvailableCoins ==
    {o \in Mine \ vfSpent : /\ o[1] \in mapWallet
                            /\ IsConfirmed(o[1])
                            /\ IsMatureInWallet(o[1])}

--------------------------------------------------------------------------------

\* A "tx" message: the pool tells the wallet what it accepts.
WalletAcceptTx(t) ==
    /\ AcceptTx(t)
    /\ WalletIs(SyncWithWallets(TheWallet, t, Null))
    /\ UNCHANGED <<fFromMe, hashLocator, fStarting, pnext, fLost>>

WalletHoldOrphanTx(t) ==
    /\ HoldOrphanTx(t)
    /\ UNCHANGED walletVars

\* SendMoney: CreateTransaction finds available coins for a payment, CommitTransaction
\* adds it to the wallet, marks them as spent and offers it to the pool.
CommitTransaction(t) ==
    /\ pc = "idle"
    /\ Kind[t] = "user" /\ Unit[t] = cUnit
    /\ t \notin mapWallet
    /\ Vin[t] \subseteq AvailableCoins
    /\ WalletIs(AddToWallet(TheWallet, t, Null))
    /\ fFromMe' = fFromMe \cup {t}
    /\ IF IsAcceptable(Pool, t, pcoinsTip, pindexBest)
       THEN /\ mapTx' = AddUnchecked(Pool, t).tx
            /\ mapNextTx' = AddUnchecked(Pool, t).next
       ELSE UNCHANGED <<mapTx, mapNextTx>>
    /\ UNCHANGED <<ledgerVars, mapOrphanTransactions, hashLocator, fStarting, pnext,
                   fLost>>

\* FixSpentCoins, the repairwallet command: of a transaction that has coins, exactly
\* the outputs that are not among them are marked.
FixSpentCoins ==
    /\ pc = "idle"
    /\ LET found == {o \in Mine : o[1] \in mapWallet /\ pcoinsTip[o[1]].vout # {}}
       IN  vfSpent' = (vfSpent \ found)
                      \cup {o \in found : o[2] \notin pcoinsTip[o[1]].vout}
    /\ UNCHANGED <<ledgerVars, poolVars, mapWallet, hashBlock, fFromMe, hashLocator,
                   fStarting, pnext, fLost>>

--------------------------------------------------------------------------------
\* SetBestChain.

WalletDisconnectBlock ==
    /\ DisconnectBlock
    /\ WalletIs(FoldLeft(DisableTransaction, TheWallet, Vtx[viewBest]))
    /\ UNCHANGED <<poolVars, fFromMe, hashLocator, fStarting, pnext, fLost>>

WalletConnectBlock(b) ==
    /\ ConnectBlock(b)
    /\ WalletIs(SyncBlock(TheWallet, b))
    /\ UNCHANGED <<poolVars, fFromMe, hashLocator, fStarting, pnext, fLost>>

\* SyncWithWallets of a transaction of a disconnected block that is back in the pool.
SyncResurrected(w, t, back) == IF t \in back THEN SyncWithWallets(w, t, Null) ELSE w

\* Blocks that SetBestChain disconnects and connects.
vDisconnect == Chain[pindexBest] \ Chain[pindexNew]
vConnect == Chain[pindexNew] \ Chain[pindexBest]

\* EraseNext and WriteNext.
Relinked ==
    [a \in Block |->
        IF \E b \in vConnect : Prev[b] = a THEN CHOOSE b \in vConnect : Prev[b] = a
        ELSE IF \E b \in vDisconnect : Prev[b] = a THEN Null
        ELSE pnext[a]]

\* The heights at which the wallet notes the new tip.
IsNoted(h, fInitialDownload) ==
    h % DownloadInterval = 0 \/ (~fInitialDownload /\ h % LocatorInterval = 0)

\* The tip moves.  The wallet hears again of what goes back to the pool, and at certain
\* heights notes the new tip.
WalletSetBestChainDone(fInitialDownload, fFlush) ==
    /\ fInitialDownload => MayBeInitialDownload
    /\ ~fInitialDownload => nHeight[pindexBest] >= TotalBlocksEstimate /\ fFlush
    /\ SetBestChainDone(fFlush)
    /\ LET back == PoolResurrected(fFlush).tx
       IN  WalletIs(FoldLeft(LAMBDA w, t : SyncResurrected(w, t, back),
                             TheWallet, vResurrect))
    /\ hashLocator' = IF IsNoted(nHeight[pindexNew], fInitialDownload)
                      THEN pindexNew ELSE hashLocator
    /\ pnext' = Relinked
    /\ UNCHANGED <<fFromMe, fStarting, fLost>>

\* The steps of SetBestChain that the wallet does not hear of.
WalletChangeView ==
    /\ \/ \E b \in Block : BeginSetBestChain(b)
       \/ DisconnectTx
       \/ ReachFork
       \/ \E b \in Block : ConnectTx(b) \/ RefuseTx(b)
    /\ UNCHANGED <<poolVars, walletVars>>

--------------------------------------------------------------------------------
\* Start.

\* The blocks that the stored successors lead to from a block, and that block.
Scanned(from) ==
    {b \in Block : /\ from \in Chain[b]
                   /\ \A a \in Chain[b] \ Chain[from] : pnext[Prev[a]] = a}

\* ScanForWalletTransactions from a block to the last of those.
Rescan(w, from, last) ==
    LET blocks == [i \in 1 .. nHeight[last] - nHeight[from] + 1 |->
                      CHOOSE b \in Chain[last] : nHeight[b] = nHeight[from] + i - 1]
    IN  FoldLeft(SyncBlock, w, blocks)

\* CBlockLocator::GetBlockIndex: the last block of the noted chain that is in the main
\* chain, when the tip is best.
LocatedBlock(noted, best) ==
    LET known == {b \in Chain[noted] : pnext[b] # Null \/ b \in {best, Genesis}}
    IN  CHOOSE b \in known : \A a \in known : nHeight[a] <= nHeight[b]

\* The node stops and starts.  Shutdown notes the tip in wallet.dat; blocks above the one
\* noted are scanned before anything else, along the stored successors.
WalletRestart(fShutdown) ==
    /\ Restart(fShutdown)
    /\ LET noted == IF fShutdown THEN pindexBest ELSE hashLocator
           from == LocatedBlock(noted, pindexBest')
       IN  IF nHeight[pindexBest'] > nHeight[from]
           THEN /\ \E last \in Scanned(from) :
                      pnext[last] = Null /\ WalletIs(Rescan(TheWallet, from, last))
                /\ hashLocator' = pindexBest'
           ELSE hashLocator' = noted /\ UNCHANGED <<mapWallet, hashBlock, vfSpent>>
    /\ fStarting' = TRUE
    /\ fLost' = (fLost \/ pindexBest' # pindexBest)
    /\ UNCHANGED <<fFromMe, pnext>>

\* Of these ReacceptWalletTransactions says nothing: their first output is spent.
IsSkipped(t) == Kind[t] \in {"coinbase", "coinstake"} /\ <<t, 1>> \in vfSpent

\* Transactions with coins, or in the chain.
IsFound(t) == pcoinsTip[t].vout # {} \/ DepthInMainChain(t) > 0

\* accept without the checks of the inputs.
AcceptUnchecked(pool, t) ==
    IF IsOffered(pool, t, pcoinsTip) THEN AddUnchecked(pool, t) ELSE pool

\* ReacceptWalletTransactions: outputs that are not among the coins are marked as spent,
\* and what is in no block goes back to the pool, in the order of the hashes.  The
\* transactions that the pool accepts are in the wallet and their inputs marked.  When
\* an output was marked the chain is scanned for transactions that the wallet lacks;
\* it lacks none (OwnTransactionsKnown), so that nothing is done again.  The peers, the
\* commands and the minter are served by then, and SetBestChain may be at work: the
\* wallet is locked, and not the chain.
ReacceptWalletTransactions ==
    /\ fStarting
    /\ LET wtxs == {t \in mapWallet : ~IsSkipped(t)}
           loose == {t \in wtxs : ~IsFound(t) /\ Kind[t] \notin {"coinbase", "coinstake"}}
           pool == FoldLeft(AcceptUnchecked, Pool, SetToSeq(loose))
       IN  /\ vfSpent' = vfSpent \cup {o \in Mine : /\ o[1] \in wtxs /\ IsFound(o[1])
                                                    /\ o[2] \notin pcoinsTip[o[1]].vout}
                                 \cup UNION {OwnInputs(TheWallet, t) :
                                               t \in pool.tx \ mapTx}
           /\ mapTx' = pool.tx
           /\ mapNextTx' = pool.next
    /\ fStarting' = FALSE
    /\ UNCHANGED <<ledgerVars, mapOrphanTransactions, mapWallet, hashBlock, fFromMe,
                   hashLocator, pnext, fLost>>

WalletNext ==
    \/ \E t \in Tx : \/ WalletAcceptTx(t)
                     \/ WalletHoldOrphanTx(t)
                     \/ CommitTransaction(t)
    \/ FixSpentCoins
    \/ WalletChangeView
    \/ WalletDisconnectBlock
    \/ \E b \in Block : WalletConnectBlock(b)
    \/ \E d, f \in BOOLEAN : WalletSetBestChainDone(d, f)
    \/ ReacceptWalletTransactions

--------------------------------------------------------------------------------

\* Safety.  The wallet knows what the best chain holds for it: each transaction that pays
\* to it is in mapWallet, and each of its outputs that a payment of the
\* chain spends is marked, whatever reorganisations failed, were cut short by a stop, or
\* came before.  A stop that loses blocks may bring back a branch whose marks were taken
\* away while the node was on another.
OwnTransactionsKnown ==
    \A t \in ChainTxs(pindexBest) :
        /\ IsMine(t) => t \in mapWallet
        /\ ~fLost /\ Kind[t] = "user" => Vin[t] \cap Mine \subseteq vfSpent

\* A block was refused.
SomeRefused == \E b \in Block : verdict[b] \in {"invalid", "error"}

\* Safety.  As long as no block is refused and the node does not stop, the marks are those
\* of the best chain: what it spends is marked, coinstakes included, and what is marked is
\* spent by the chain or by a payment that the wallet knows of, so that the stake of a
\* block that was disconnected is free again.
MarksFollowChain ==
    pc = "idle" /\ ~SomeRefused /\ nRestarts = 0 =>
        \A o \in Mine :
            /\ (\E t \in ChainTxs(pindexBest) : o \in Vin[t]) => o \in vfSpent
            /\ o \in vfSpent =>
                  \E t \in ChainTxs(pindexBest) \cup {u \in mapWallet : Kind[u] = "user"} :
                      o \in Vin[t]

================================================================================
