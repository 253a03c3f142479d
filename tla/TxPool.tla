--------------------------------- MODULE TxPool ---------------------------------
(***************************************************************************)
(* The memory pool: transactions that wait to be mined, the orphans among  *)
(* the transactions received, and what SetBestChain does to the pool when  *)
(* the coins move under it.                                                *)
(*                                                                         *)
(* A transaction that is refused without a trace is a stuttering step.     *)
(* Entries of pcoinsTip without unspent outputs, which it caches until the *)
(* next flush and takes for coins, matter where SetBestChain puts          *)
(* transactions back.  A peer's transaction that such an entry would have  *)
(* refused may be accepted or held.                                        *)
(***************************************************************************)
EXTENDS Ledger, SequencesExt

CONSTANT MAX_ORPHAN_TRANSACTIONS

ASSUME OrphanAssumption == MAX_ORPHAN_TRANSACTIONS \in Nat

VARIABLES
    mapTx,                      \* transactions in the pool
    mapNextTx,                  \* the pool transaction that spends an output
    mapOrphanTransactions       \* held until what they spend is known

poolVars == <<mapTx, mapNextTx, mapOrphanTransactions>>
vars == <<ledgerVars, poolVars>>

\* The outputs of the transactions.
OutPoint == UNION {{<<t, n>> : n \in DOMAIN Vout[t]} : t \in Tx}

TypeOK ==
    /\ LedgerTypeOK
    /\ mapTx \subseteq Tx
    /\ mapNextTx \in [OutPoint -> Tx \cup {Null}]
    /\ mapOrphanTransactions \subseteq Tx

Init ==
    /\ LedgerInit
    /\ mapTx = {}
    /\ mapNextTx = [o \in OutPoint |-> Null]
    /\ mapOrphanTransactions = {}

--------------------------------------------------------------------------------
\* The pool as a record of mapTx and mapNextTx, so that steps can follow each other.

Pool == [tx |-> mapTx, next |-> mapNextTx]

\* addUnchecked.
AddUnchecked(pool, t) ==
    [tx   |-> pool.tx \cup {t},
     next |-> [o \in OutPoint |-> IF o \in Vin[t] THEN t ELSE pool.next[o]]]

\* The pool transactions that spend an output of t.
Spenders(pool, t) == {pool.next[<<t, n>>] : n \in DOMAIN Vout[t]} \ {Null}

\* Those, what spends their outputs, and so on.
Dependents(pool, t) ==
    {d \in pool.tx : \A S \in SUBSET pool.tx :
        /\ Spenders(pool, t) \subseteq S
        /\ \A s \in S : Spenders(pool, s) \subseteq S
        => d \in S}

\* Mutated form: what they spend stays taken.
EraseTxOnly(pool, T) == [tx |-> pool.tx \ T, next |-> pool.next]

\* Transactions are taken out of the pool.
Erase(pool, T) ==
    [tx   |-> pool.tx \ T,
     next |-> [o \in OutPoint |-> IF \E t \in T \cap pool.tx : o \in Vin[t]
                                  THEN Null ELSE pool.next[o]]]

\* remove(tx, false) and remove(tx, true).
RemoveOne(pool, t) == Erase(pool, {t})

RemoveRecursive(pool, t) == Erase(pool, {t} \cup Dependents(pool, t))

\* Mutated form: what depends on a conflicting transaction stays.
RemoveConflictsOnly(pool, t) ==
    Erase(pool, {pool.next[o] : o \in Vin[t]} \ {Null, t})

\* removeConflicts: what spends an output that t spends, and what depends on it.
RemoveConflicts(pool, t) ==
    LET conflicts == {pool.next[o] : o \in Vin[t]} \ {Null, t}
    IN  Erase(pool, conflicts \cup UNION {Dependents(pool, c) : c \in conflicts})

--------------------------------------------------------------------------------

\* The height that the coins of a pool transaction seem to have.
MEMPOOL_HEIGHT == 2147483647

\* CCoinsViewMemPool: the coins with the outputs of pool transactions added.
PoolView(pool, c) ==
    [t \in Tx |-> IF c[t].vout = {} /\ t \in pool.tx
                  THEN FullCoins(t, MEMPOOL_HEIGHT) ELSE c[t]]

\* A transaction that gets as far as the look-up of its inputs.
IsOffered(pool, t, c) ==
    /\ Kind[t] \in {"user", "unpark"}
    /\ CheckTransaction(t)
    /\ t \notin pool.tx
    /\ \A o \in Vin[t] : pool.next[o] = Null
    /\ c[t].vout = {}

\* accept: the transaction enters the pool that stands on coins c of block best.  Its
\* fee has to do for pindexBest, which SetBestChain moves last, and for the block after
\* best.
IsAcceptable(pool, t, c, best) ==
    /\ IsOffered(pool, t, c)
    /\ HaveInputs(t, PoolView(pool, c))
    /\ AreInputsSameUnit(t)
    /\ Kind[t] = "unpark" \/ ValueIn(t) - ValueOut(t) >= MinFee[t][Prev[pindexBest]]
    /\ CheckInputs(t, PoolView(pool, c), best, TRUE) = "ok"

\* A transaction it spends from is neither in the coins nor in the pool.
HasMissingInputs(t) ==
    \E o \in Vin[t] : pcoinsTip[o[1]].vout = {} /\ o[1] \notin mapTx

\* mapOrphanTransactionsByPrev.
OrphansByPrev(t) ==
    {o \in mapOrphanTransactions : \E i \in Vin[o] : i[1] = t}

\* A "tx" message with a transaction that the pool accepts.  The loop over the orphans
\* that depend on it offers the transaction itself to the pool again, is told that it
\* is there, and gives the orphan up.
AcceptTx(t) ==
    /\ pc = "idle"
    /\ IsAcceptable(Pool, t, pcoinsTip, pindexBest)
    /\ mapTx' = AddUnchecked(Pool, t).tx
    /\ mapNextTx' = AddUnchecked(Pool, t).next
    /\ mapOrphanTransactions' = mapOrphanTransactions \ ({t} \cup OrphansByPrev(t))
    /\ UNCHANGED ledgerVars

\* LimitOrphanTxSize: a random one is evicted if there are too many.
LimitOrphanTxSize(orphans) ==
    IF Cardinality(orphans) <= MAX_ORPHAN_TRANSACTIONS THEN {orphans}
    ELSE {orphans \ {o} : o \in orphans}

\* A "tx" message with a transaction whose inputs are missing: it is held.
HoldOrphanTx(t) ==
    /\ pc = "idle"
    /\ IsOffered(Pool, t, pcoinsTip)
    /\ HasMissingInputs(t)
    /\ t \notin mapOrphanTransactions
    /\ mapOrphanTransactions' \in LimitOrphanTxSize(mapOrphanTransactions \cup {t})
    /\ UNCHANGED <<ledgerVars, mapTx, mapNextTx>>

--------------------------------------------------------------------------------

\* The transactions of the chain of b above the blocks it shares with another, lowest
\* block first.
TxsAbove(b, shared) ==
    LET queue[a \in Chain[b]] ==
            IF a \in shared THEN <<>> ELSE queue[Prev[a]] \o Vtx[a]
    IN  queue[b]

\* Blocks at or below the last checkpoint.
Checkpointed == {b \in Block : nHeight[b] <= TotalBlocksEstimate}

\* The transactions of the disconnected blocks above the last checkpoint, and of the
\* connected ones.
vResurrect == TxsAbove(pindexBest, Chain[pindexNew] \cup Checkpointed)

vDelete == TxsAbove(pindexNew, Chain[pindexBest])

\* A transaction of a disconnected block that can stand on its own goes back to the pool,
\* or goes away with all that depends on it.  Its coins were removed; until pcoinsTip is
\* flushed the empty entry is cached, and the pool takes the transaction for a known one.
Resurrect(pool, t, fFlush) ==
    IF Kind[t] \notin {"user", "unpark"} THEN pool
    ELSE IF fFlush /\ IsAcceptable(pool, t, view, pindexNew)
         THEN AddUnchecked(pool, t)
         ELSE RemoveRecursive(pool, t)

\* Mutated form: what conflicts stays.
DeleteOnly(pool, t) == RemoveOne(pool, t)

\* A transaction of a connected block leaves the pool, with all that conflicts.
Delete(pool, t) == RemoveConflicts(RemoveOne(pool, t), t)

\* The pool with what the disconnected blocks held.
PoolResurrected(fFlush) ==
    FoldLeft(LAMBDA pool, t : Resurrect(pool, t, fFlush), Pool, vResurrect)

\* The pool once SetBestChain has moved the tip.
PoolAfter(fFlush) == FoldLeft(Delete, PoolResurrected(fFlush), vDelete)

\* SetBestChain flushes the coins and brings the pool in line with them.
SetBestChainDone(fFlush) ==
    /\ FlushView(fFlush)
    /\ mapTx' = PoolAfter(fFlush).tx
    /\ mapNextTx' = PoolAfter(fFlush).next
    /\ UNCHANGED mapOrphanTransactions

\* The pool is in memory only.
Restart(fShutdown) ==
    /\ LedgerRestart(fShutdown)
    /\ mapTx' = {}
    /\ mapNextTx' = [o \in OutPoint |-> Null]
    /\ mapOrphanTransactions' = {}

\* The steps of SetBestChain that leave the pool alone.
ChangeView ==
    /\ \/ \E b \in Block : BeginSetBestChain(b)
       \/ DisconnectTx
       \/ DisconnectBlock
       \/ ReachFork
       \/ \E b \in Block : ConnectTx(b) \/ RefuseTx(b) \/ ConnectBlock(b)
    /\ UNCHANGED poolVars

Next ==
    \/ \E t \in Tx : AcceptTx(t) \/ HoldOrphanTx(t)
    \/ ChangeView
    \/ \E f \in BOOLEAN : SetBestChainDone(f) \/ Restart(f)

Spec == Init /\ [][Next]_vars

--------------------------------------------------------------------------------

\* Safety.  mapNextTx knows for every output the one pool transaction that spends it: no
\* two pool transactions conflict, and nothing is left behind by what was removed.
NextTxExact ==
    \A o \in OutPoint : \A t \in Tx :
        mapNextTx[o] = t <=> t \in mapTx /\ o \in Vin[t]

\* Safety.  The pool does not conflict with the best chain, also after a reorganisation
\* that puts transactions back: no pool transaction is in it, or spends an output that
\* it spends.
PoolNotInChain ==
    \A t \in mapTx :
        /\ t \notin ChainTxs(pindexBest)
        /\ \A u \in ChainTxs(pindexBest) : Vin[t] \cap Vin[u] = {}

\* Transactions of blocks at or below the last checkpoint that were connected once.
CheckpointedTxs == UNION {TxsOf(b) : b \in nUndoPos \cap Checkpointed}

\* Safety.  A pool transaction spends what is in the coins or in the pool, also after a
\* reorganisation that puts transactions back or gives them up.  The exceptions are
\* coins minted by a block that was disconnected, and outputs of transactions that
\* SetBestChain drops with a block at or below the last checkpoint: it neither offers
\* them to the pool nor takes out what depends on them.
PoolConnected ==
    \A t \in mapTx : \A o \in Vin[t] :
        \/ o[2] \in pcoinsTip[o[1]].vout
        \/ o[1] \in mapTx
        \/ Kind[o[1]] \in {"coinbase", "coinstake", "grant"}
        \/ o[1] \in CheckpointedTxs

\* Violated by the code.  An orphan that is given up because another transaction was
\* accepted is not one that the pool would take.
OrphansGivenUpInvalid ==
    [][\A o \in mapOrphanTransactions \ mapOrphanTransactions' :
          mapTx' # mapTx /\ o \notin mapTx' =>
              ~IsAcceptable([tx |-> mapTx', next |-> mapNextTx'], o, pcoinsTip',
                            pindexBest')]_vars

================================================================================
