--------------------------------- MODULE Minter ---------------------------------
(***************************************************************************)
(* The thread that mints: BitcoinMiner and CreateNewBlock with proof of    *)
(* stake, and CheckWork.  It takes cs_main three times and reads the tip   *)
(* without it in between, while the chain, the pool and the wallet go on.  *)
(*                                                                         *)
(* A block it may build is a block of the tree like the ones that peers    *)
(* send.  A vote, a target or a time that does not fit makes it give up or *)
(* the block be refused.                                                   *)
(***************************************************************************)
EXTENDS Wallet

CONSTANTS
    PeerBlock,      \* blocks that peers may send; the others take the keys of the wallet
    Winners,        \* custodians whom the votes up to a block elect
    Custodian,      \* whom a grant pays
    MintSessions    \* bound on the number of starts after which the node mints

ASSUME SessionAssumption == MintSessions \in Nat

ASSUME PeerAssumption == Genesis \in PeerBlock /\ PeerBlock \subseteq Block

ASSUME CustodianAssumption ==
    /\ Winners \in [Block -> SUBSET {Custodian[t] : t \in DOMAIN Custodian}]
    /\ DOMAIN Custodian = {t \in Tx : Kind[t] = "grant"}

VARIABLES
    mintPc,         \* where the minter is
    pindexPrev,     \* the tip it started from
    txCoinStake,    \* the coinstake it found
    vGrant,         \* custodians it grants
    pblock,         \* the block it built
    fMoved,         \* history: the tip moved since pindexPrev was read
    setMinted       \* history: blocks that AcceptBlock took from the minter

mintVars == <<mintPc, pindexPrev, txCoinStake, vGrant, pblock, fMoved, setMinted>>
minterVars == <<vars, walletVars, mintVars>>

MinterTypeOK ==
    /\ WalletTypeOK
    /\ mintPc \in {"idle", "tip", "stake", "grants", "built", "aborted"}
    /\ pindexPrev \in Block
    /\ txCoinStake \in {t \in Tx : Kind[t] = "coinstake"} \cup {Null}
    /\ vGrant \subseteq {Custodian[t] : t \in DOMAIN Custodian}
    /\ pblock \in Block \cup {Null}
    /\ fMoved \in BOOLEAN
    /\ setMinted \subseteq Block
    /\ txCoinStake = Null <=> mintPc \in {"idle", "tip"}
    /\ pblock = Null <=> mintPc # "built"

MinterInit ==
    /\ WalletInit
    /\ mintPc = "idle"
    /\ pindexPrev = Genesis
    /\ txCoinStake = Null
    /\ vGrant = {}
    /\ pblock = Null
    /\ fMoved = FALSE
    /\ setMinted = {}

--------------------------------------------------------------------------------
\* Grants.

\* The custodians that a block grants.
Granted(b) == {Custodian[t] : t \in TxsOf(b) \cap DOMAIN Custodian}

\* GetElectedCustodians.
ElectedCustodians(b) == UNION {Granted(a) : a \in Chain[b]}

\* Mutated form: custodians count as elected before when the block itself elects them.
CheckGrantsOfBlock(b) ==
    Granted(b) = IF \E t \in TxsOf(b) : Kind[t] = "coinstake"
                 THEN Winners[Prev[b]] \ ElectedCustodians(b) ELSE {}

\* CheckCustodianGrants: a block with a coinstake grants those that its votes elect and
\* that were not elected before.
CheckCustodianGrants(b) ==
    Granted(b) = IF \E t \in TxsOf(b) : Kind[t] = "coinstake"
                 THEN Winners[Prev[b]] \ ElectedCustodians(Prev[b]) ELSE {}

--------------------------------------------------------------------------------
\* Minting.

\* Mutated form: the coinstake is kept.
GiveUpBlock ==
    /\ mintPc' = "idle"
    /\ pindexPrev' = Genesis
    /\ UNCHANGED txCoinStake
    /\ vGrant' = {}
    /\ pblock' = Null
    /\ fMoved' = FALSE

\* The minter is done with a block, or without one.
GiveUp ==
    /\ mintPc' = "idle"
    /\ pindexPrev' = Genesis
    /\ txCoinStake' = Null
    /\ vGrant' = {}
    /\ pblock' = Null
    /\ fMoved' = FALSE

\* CreateNewBlock reads the tip, without cs_main.
ReadTip ==
    /\ nRestarts < MintSessions
    /\ mintPc = "idle"
    /\ mintPc' = "tip"
    /\ pindexPrev' = pindexBest
    /\ fMoved' = FALSE
    /\ UNCHANGED <<vars, walletVars, txCoinStake, vGrant, pblock, setMinted>>

\* The transaction was connected once, and is in the index of transactions.
IsIndexed(t) == \E b \in Block : verdict[b] = "ok" /\ t \in TxsOf(b)

\* What CreateCoinStake signs: in shares and unparked, not dated before its stake, with
\* an output or two that add up to the stake and the reward of its coin age, for the
\* block after pindexPrev.
IsSignedStake(s) ==
    /\ Kind[s] = "coinstake"
    /\ CheckTransaction(s)
    /\ s \notin BadTime \cup BadInput
    /\ PaysFee(s, pindexPrev)

\* CreateCoinStake finds a coinstake among the coins of the wallet: the kernel has to be
\* in the index of transactions, other inputs in the chain.
CreateCoinStake(s) ==
    /\ mintPc = "tip"
    /\ pc = "idle"
    /\ IsSignedStake(s)
    /\ Vin[s] \subseteq AvailableCoins
    /\ \E k \in Vin[s] : /\ IsIndexed(k[1])
                         /\ \A o \in Vin[s] \ {k} : DepthInMainChain(o[1]) > 0
    /\ mintPc' = "stake"
    /\ txCoinStake' = s
    /\ UNCHANGED <<vars, walletVars, pindexPrev, vGrant, pblock, fMoved,
                   setMinted>>

\* The votes are counted up to pindexPrev, and the custodians elected before are those
\* of the tip of this moment.
GenerateCurrencyCoinBases ==
    /\ mintPc = "stake"
    /\ mintPc' = "grants"
    /\ vGrant' = Winners[pindexPrev] \ ElectedCustodians(pindexBest)
    /\ UNCHANGED <<vars, walletVars, pindexPrev, txCoinStake, pblock, fMoved,
                   setMinted>>

\* CreateNewBlock returns without a block, for want of a coinstake or of a valid vote.
NoBlock ==
    /\ mintPc \in {"tip", "stake", "grants"}
    /\ GiveUp
    /\ UNCHANGED <<vars, walletVars, setMinted>>

\* The minted transactions of a block are the grants that were generated.
AreGenerated(b) ==
    /\ Granted(b) = vGrant
    /\ \A t \in TxsOf(b) \cap Minted : Kind[t] = "grant" /\ CheckTransaction(t)

\* A pool transaction is taken if it passes on the coins that the ones before leave; the
\* coinstake and the grants are not applied to them.
TrySelect(s, r, t) ==
    IF t = s \/ t \in Minted THEN r
    ELSE [ok   |-> /\ r.ok
                   /\ t \in mapTx
                   /\ CheckInputs(t, r.view, pindexBest, TRUE) = "ok",
          view |-> UpdateCoins(r.view, t, nHeight[pindexBest] + 1)]

\* The pool transactions of a block are taken one after the other.
AreSelectable(b) ==
    FoldLeft(LAMBDA r, t : TrySelect(txCoinStake, r, t),
             [ok |-> TRUE, view |-> pcoinsTip], Vtx[b]).ok

\* Mutated form: the coinstake and the pool's transactions are not tried together.
ConnectsUntried(b) == TRUE

\* ConnectBlock tries a transaction of b on coins, if the ones before passed.
TryConnect(b, r, t) ==
    [ok   |-> /\ r.ok
              /\ \/ t \in Minted
                 \/ CheckInputs(t, r.view, pindexBest, HasScriptChecks(b)) = "ok",
     view |-> UpdateCoins(r.view, t, nHeight[b])]

\* ConnectBlock of the block on coins that are then thrown away.
ConnectsAtTip(b) ==
    FoldLeft(LAMBDA r, t : TryConnect(b, r, t),
             [ok |-> ~Malformed(b, pcoinsTip), view |-> pcoinsTip], Vtx[b]).ok

\* Under cs_main the block is put on the tip of this moment: the coinstake, the grants
\* and pool transactions, as many and in the order that priority and limits give.  When
\* it does not connect the exception leaves the thread, and the program aborts.
BuildBlock(b) ==
    /\ mintPc = "grants"
    /\ pc = "idle"
    /\ Prev[b] = pindexBest
    /\ Vtx[b] # <<>> /\ Head(Vtx[b]) = txCoinStake
    /\ AreGenerated(b)
    /\ AreSelectable(b)
    /\ IF ConnectsAtTip(b)
       THEN mintPc' = "built" /\ pblock' = b
       ELSE mintPc' = "aborted" /\ UNCHANGED pblock
    /\ UNCHANGED <<vars, walletVars, pindexPrev, txCoinStake, vGrant, fMoved,
                   setMinted>>

\* CheckWork: the block is stale.
DropStaleBlock ==
    /\ mintPc = "built"
    /\ pc = "idle"
    /\ Prev[pblock] # pindexBest
    /\ GiveUp
    /\ UNCHANGED <<vars, walletVars, setMinted>>

\* CheckWork: AcceptBlock refuses the block, for its grants, or because the target or
\* the results of the votes, computed for pindexPrev, are not those of the tip.
RefuseMintedBlock ==
    /\ mintPc = "built"
    /\ pc = "idle"
    /\ Prev[pblock] = pindexBest
    /\ ~CheckCustodianGrants(pblock) \/ pindexPrev # Prev[pblock]
    /\ GiveUp
    /\ UNCHANGED <<vars, walletVars, setMinted>>

\* CheckWork: the block is accepted, and SetBestChain begins.
OfferBlock ==
    /\ mintPc = "built"
    /\ Prev[pblock] = pindexBest
    /\ CheckCustodianGrants(pblock)
    /\ BeginSetBestChain(pblock)
    /\ setMinted' = setMinted \cup {pblock}
    /\ GiveUp
    /\ UNCHANGED <<poolVars, walletVars>>

--------------------------------------------------------------------------------

\* Blocks of the tree: they were received or minted, and have passed AcceptBlock.
IsAccepted(b) == b \in PeerBlock \cup setMinted /\ CheckCustodianGrants(b)

\* The rest of the node.
OtherStep ==
    /\ mintPc # "aborted"
    /\ WalletNext
    /\ pindexNew' = pindexNew \/ IsAccepted(pindexNew')
    /\ fMoved' = (fMoved \/ (mintPc # "idle" /\ pindexBest' # pindexBest))
    /\ UNCHANGED <<mintPc, pindexPrev, txCoinStake, vGrant, pblock, setMinted>>

MinterRestart(fShutdown) ==
    /\ WalletRestart(fShutdown)
    /\ GiveUp
    /\ UNCHANGED setMinted

MinterNext ==
    \/ OtherStep
    \/ ReadTip
    \/ \E s \in Tx : CreateCoinStake(s)
    \/ GenerateCurrencyCoinBases
    \/ NoBlock
    \/ \E b \in Block : BuildBlock(b)
    \/ DropStaleBlock
    \/ RefuseMintedBlock
    \/ OfferBlock
    \/ \E f \in BOOLEAN : MinterRestart(f)

MinterSpec == MinterInit /\ [][MinterNext]_minterVars

--------------------------------------------------------------------------------

\* Safety.  A block that AcceptBlock took from the minter connects: what the trial on the
\* tip showed still holds when the block is connected, though cs_main was released.
MintedBlocksConnect == \A b \in setMinted : verdict[b] \notin {"invalid", "error"}

\* Action property.  The minter's work is refused only if the tip moved while it was at
\* it, also when the tip came back: with a still tip its grants are those due.
RefusedOnlyIfMoved == [][RefuseMintedBlock => fMoved]_minterVars

\* Safety.  The node aborts for a coinstake only if the tip moved since it began, a pool
\* transaction spends the same coin, the stake is the change of a payment that is not in
\* the chain, or the wallet was misled by a refused block or a stop.
AbortsOnlyIfMisled ==
    mintPc = "aborted" =>
        \/ fMoved
        \/ \E t \in mapTx : Vin[t] \cap Vin[txCoinStake] # {}
        \/ \E o \in Vin[txCoinStake] : o[1] \notin ChainTxs(pindexBest)
        \/ SomeRefused
        \/ nRestarts > 0

================================================================================
