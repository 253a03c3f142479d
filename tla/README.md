# Verification of the Nu node

This directory holds TLA+ modules that model the core of the node under `src/`
(a proof-of-stake node in the Bitcoin and Peercoin line, with two units: shares,
`S`, and a currency, `B`, whose holders of shares vote on it), TLC configurations that
check them on small instances, and proofs that the TLA+ proof system checks for
every value of the constants. Paths below are relative to the repository, so that
`main.cpp` is `src/main.cpp` there; line numbers are those of the commit that was
modelled. `PROJECT.json` maps every definition to the lines it stands for.

1. [The system](#1-the-system)
2. [Modules and how they correspond to the code](#2-modules-and-how-they-correspond-to-the-code)
3. [Runs](#3-runs)
4. [Where the code and its comments disagree](#4-where-the-code-and-its-comments-disagree)
5. [Proofs](#5-proofs)
6. [What is not modelled](#6-what-is-not-modelled)
7. [Plan](#7-plan)
8. [Working with the project](#8-working-with-the-project)

## 1. The system

A node receives blocks and transactions from peers, keeps every valid block in a
tree, follows the branch with the most trust, and keeps the set of unspent outputs
of that branch. Shares mint blocks by proof of stake; each minted block carries the
minter's votes, and what the votes decide (protocol version, interest on parked
currency, fees, grants of new currency) is computed when a block enters the index
and is binding for the blocks after it.

| Component | State | Operations | Works with |
|---|---|---|---|
| Block index and best chain (`main.cpp`, `main.h`) | `mapBlockIndex` with flags `nStatus`, candidates `setBlockIndexValid`, tip `pindexBest`, links `pnext`, orphans, seen stakes, duplicates set aside | `ProcessBlock`, `AcceptBlock`, `AddToBlockIndex`, `ConnectBestBlock`, `SetBestChain`, `InvalidBlockFound`, start-up | asks kernel and votes for verdicts, calls coins to connect, moves the pool |
| Coins and undo data (`main.cpp`) | `pcoinsTip`, the view of `SetBestChain`, undo files, totals of each index | `ConnectBlock`, `DisconnectBlock`, `CheckInputs`, `UpdateCoins`, flush | read by kernel, pool, wallet and coin age |
| Memory pool (`main.cpp`) | `mapTx`, `mapNextTx`, orphan transactions | `accept`, `remove`, `removeConflicts`, the `tx` message | reads the coins, is corrected by `SetBestChain` |
| Script check queue (`checkqueue.h`) | queue, counters, result | `Add`, `Wait`, `Loop` | worker threads and the thread in `ConnectBlock` |
| Votes (`vote.cpp`, `main.cpp`) | fields of each `CBlockIndex` | `CalculateParkRateResults`, `CalculateVotedFees`, `GenerateCurrencyCoinBases`, `GetProtocolForNextBlock` | called by `AddToBlockIndex`, `AcceptBlock`, wallet, minter |
| Stake kernel (`kernel.cpp`) | checksums of stake modifiers | `CheckProofOfStake`, `ComputeNextStakeModifier` | reads the coins of the tip |
| `BlockMap` (`blockmap.cpp`) | indexes in memory with counts of locks, hashes of all indexes, parents of the unloaded ones | `load`, `find`, `prev`, `insert`, `unload`, `cleanup`, `clear` | everything that follows `pprev` or `pnext`; tip, rescan and minter hold indexes across a clean-up |
| Minting (`main.cpp`, `wallet.cpp`) | a block template | `CreateNewBlock`, `CreateCoinStake`, `CheckWork` | reads tip, votes, pool and wallet, in part without `cs_main` |
| Wallet (`wallet.cpp`) | `mapWallet`, marks of spent outputs, the best block it noted | `SyncWithWallets`, `CommitTransaction`, `ScanForWalletTransactions`, `ReacceptWalletTransactions`, `FixSpentCoins` | told by `ConnectBlock`, `DisconnectBlock` and the pool |
| Synchronised checkpoints, network, RPC, GUI, data feed, liquidity, dividends, alerts | see `PROJECT.json` | | |

What is hard in it, and what therefore has properties:

- **Order of arrival.** Blocks of competing branches, orphans, and blocks that reuse
  a stake come in any order, and the tip must not depend on luck. A block that
  reuses the stake of the tip cancels the tip; a later child of either decides
  which of the two stays.
- **Reorganisations that fail half way.** Blocks are disconnected and connected on
  a view, with undo data written at some earlier time, and any block on the way may
  be refused. Coins, totals, links, flags and the pool have to come out as those of
  one branch.
- **Crashes.** The flags and totals of an index, its record on disk, the coins and
  the undo data are written at different times, and some state is in memory only.
  During the initial download the coins of a new tip stay in a cache while its
  successor links are stored, so that a node that is killed starts from an older tip,
  with links that lead past it.
- **Threads.** Script checks run on worker threads that share a queue, wait on
  condition variables, and may be interrupted. The minter reads the tip, the votes
  and the coins of the wallet at different times, and `cs_main` is free in between.
- **Pointers into a cache.** Indexes far below the tip are freed after every block
  and read back on demand. Whoever keeps a pointer to one has to lock it.
- **Votes.** Medians and majorities over sliding windows, weighted by coin age,
  with limits on how fast a result moves, a change of protocol in the middle of a
  window, and truncating arithmetic.

The hazards are listed one by one in `PROJECT.json`, each with its line and the
properties that would catch it.

## 2. Modules and how they correspond to the code

```
BlockTree ──┬── BlockChain ── MCBlockChain
            ├── Ledger ── TxPool ──┬── MCTxPool
            │                      └── Wallet ── Minter ── MCMinter
            └── BlockMap ── MCBlockMap
ParkRates ───── VoteChain ── MCVoteChain
VerifySession ◄── CheckQueue            (refinement)
IndexMap      ◄── BlockMap              (refinement)
Ledger        ◄── TxPool, Minter        (refinement, same variables)

BlockTreeProofs ──┬── BlockChainProofs, BlockMapProofs
                  └── LedgerProofs ── NodeProofs         (TxPool, Wallet, Minter)
SumTheorems ───── LedgerProofs, VoteChainProofs
CheckQueueProofs
```

**BlockTree.** The blocks that may ever be sent, as a constant tree: `Prev`,
`BlockTrust`, and the derived `Chain`, `nHeight` and `nChainTrust`. A block is named
by its hash, a natural number, since ties in trust are broken by comparing hashes.

**BlockChain.** The handling of a `block` message, step by step: `pc` says where the
handler is, so that a crash can fall between any two steps and its loops can be shown to
end. Variables have the names of the code. `nStatus` is a set of flags:
`BLOCK_VALID_SCRIPTS` and the two failure flags are the ones anything depends on. `onDisk`
and `diskStatus` are the records of the block index. `coinsBest` is the best block of the
coin database: at the tips in `Download` `SetBestChain` may leave it behind
(`FlushCoins`), as `main.cpp:2209` does during the initial download, and anywhere else
both move together. `Restart` takes the tip from there, or from `pindexBest` where
`Shutdown` can have flushed the coins (`MayShutDown`), and keeps `pnext` as it is stored.
`linkedTip` is a history variable: the block whose chain `pnext` was written for. The
verdicts of `CheckBlock`, of the checks in `AcceptBlock` and `AddToBlockIndex`, and of
`ConnectBlock` are constants of a block (`BadCheck`, `BadAccept`, `BadIndex`,
`ConnectResult`). For `ConnectBlock` that is justified by `VerdictStable` of Ledger.
`CheckProofOfStake` reads the coins of the tip, and is modelled by whether the staked
output can be found there.

| Actions | Code |
|---|---|
| `CancelBestBlock`, `ReceiveBlock` | `ProcessBlock` up to the treatment of duplicates, `main.cpp:2955` |
| `LeaveBestBlock`, `ReturnToCancel` | the `SetBestChain` to the parent of a cancelled tip, `main.cpp:3006`, after its failure was recorded; before it, `InvalidBlockFound` calls `ConnectBestBlock` if the tip has a successor, which it can have after a stop only |
| `NoDuplicateParent`, `ReacceptIndexedParent`, `ReacceptStoredParent`, `RefuseStoredParent`, `HoldOrphan`, `DropOrphan`, `StoreBlock` | the rest of `ProcessBlock` until `AcceptBlock` |
| `RefuseBlock`, `RefuseIndexedBlock`, `AddToBlockIndex` | `AcceptBlock` and `AddToBlockIndex` |
| `NothingToConnect`, `FailBestCandidate`, `ChooseBestCandidate`, `AllAttached` | `ConnectBestBlock` |
| `SetBestChain`, `FailOnInvalidBlock`, `FailOnError` | `SetBestChain`, `InvalidBlockFound` |
| `ReturnTo…`, `AcceptOrphan`, `NextInWorkQueue`, `BlockProcessed` | the callers, and the loop over orphans |
| `Restart` | `LoadBlockIndexDB` and the `ConnectBestBlock` of start-up |

**Ledger.** The same `SetBestChain` seen from the coins: one action per transaction that
is taken back or connected, with `CheckInputs` and the undo data spelled out.
`ConnectBestBlock`'s choice is reduced to what the coins need: the target has more trust
than the tip and no ancestor that was found invalid, or is the parent of the tip. A
`CCoins` is the set of its unspent outputs with the height of its transaction. The scripts
and addresses of a transaction are one verdict (`BadInput`), which is not asked for in
blocks below the last checkpoint; times and ranges are another (`BadTime`), for it ends in
`state.DoS` where the first is a plain error. Values and parking are explicit; the fee is
the one voted up to the previous block (`MinFee`), as is the reward of a coinstake, and
the premium of an unparking depends on the block that parked, so that a transaction may be
right in one branch and wrong in another. `pcoinsTip` is a cache of `pcoinsdbview`, the
coins of the database: `FlushView(fFlush)` moves the tip and, unless the node may be in
the initial download (`MayBeInitialDownload`), flushes the cache too. `LedgerRestart` is a
shutdown, between messages, which flushes, or a kill between any two transactions, after
which coins and tip are those of the database.

Ledger assumes (`MintedAssumption`) that a coinbase or a grant is in one block of a
branch at most. The code ties the time of a coinbase to that of its block only up to
a drift (`main.cpp:2724`, `main.cpp:2744`) and checks against overwriting unspent
outputs; a coinbase that is repeated after all its outputs were spent is outside the
model.

**TxPool.** Extends Ledger by the pool: `AcceptTx` and `HoldOrphanTx` are the two outcomes
of a `tx` message that change anything, `SetBestChainDone` is the flush together with the
resurrection and the deletion of pool transactions that follow it under the same lock, and
the steps of Ledger in between leave the pool alone. `vResurrect` passes over the blocks
at or below the last checkpoint (`main.cpp:2173`): their transactions are neither offered
again nor removed with what depends on them. Where the cache was not flushed, the emptied
entry of a disconnected transaction is still in it, and `Resurrect` takes the transaction
for a known one.

**CheckQueue, VerifySession.** The critical section of `Loop` is two steps, `Enter`
(`nTotal++` or `nIdle--`, and the accounts of the last batch) and then `TakeBatch`,
`GoIdle` or `WaitReturns`, because the constructor of `CCheckQueueControl` looks at the
counters without the mutex: `Begin` may fall between the two. Besides there are the
execution of a batch outside the mutex, wake-ups without notification, and interruption
of a waiting thread (which leaves `nIdle` and `nTotal` counting it).
`VerifySession` is the abstract specification: what `CCheckQueueControl` promises
`ConnectBlock`, without threads, queue or counters.

**ParkRates, VoteChain.** `ParkRates` has the weighted median, the limits of both
protocols on how rates may move, and the premium with its interpolation. `VoteChain`
has one branch of the index as its state, `AddWorkBlock` and `AddStakeBlock` for
`AddToBlockIndex` with the checks before it, and `ReloadIndex` for an index that is
read back from its record, which loses the fees voted before version 2.0. Rates are
integers with the range of `unsigned int` where the code truncates them.

**Wallet.** Extends TxPool by the wallet of the shares. `SyncWithWallets` is an
operator on the wallet as a record, since one step of the code calls it for every
transaction of a block; `WalletConnectBlock` and `WalletDisconnectBlock` call it where
`ConnectBlock` and `DisconnectBlock` do, which is before the view is known to be kept.
The tip is noted in `wallet.dat` at every `LocatorInterval`-th height (144 in the code),
in the initial download at every `DownloadInterval`-th (20160), and at shutdown.
`WalletRestart` scans the blocks above the one noted, along the stored successors, which
may lead past the tip. `ReacceptWalletTransactions` is a step of its own; `fStarting` says
that it is still to come. The network, RPC and minter threads are started before it
(`init.cpp:1113`), so that any step of theirs may come first; and it takes `cs_wallet`
only, so that it may fall into a reorganisation. Which outputs are the wallet's is the
constant `Mine`; a payment may spend any coins that are available to it. `fLost` is a
history variable: a stop lost blocks.

**Minter.** Extends Wallet by the thread of `BitcoinMiner` with proof of stake. `mintPc`
separates what the code does under different holds of `cs_main` or under none.

| Actions | Code |
|---|---|
| `ReadTip` | `CreateNewBlock` copies `pindexBest` without `cs_main`, `main.cpp:5329` |
| `CreateCoinStake` | `CWallet::CreateCoinStake`, under `cs_main` |
| `GenerateCurrencyCoinBases` | votes up to `pindexPrev`, elected custodians from `pindexBest`, `main.cpp:5370` |
| `BuildBlock` | the choice of transactions and the trial `ConnectBlock`, under `cs_main`, `main.cpp:5641` |
| `DropStaleBlock`, `RefuseMintedBlock`, `OfferBlock` | `CheckWork` and `ProcessBlock` |
| `NoBlock`, `MinterRestart` | giving up, and the end of the node |

A block that may be minted is a block of the tree, so that `Ledger` gives its verdict like
that of any other; `PeerBlock` says which blocks others may send too. The order of pool
transactions is left open: every block whose transactions could be taken one after the
other (`TrySelect`) may be built. Its coinstake is one that `CreateCoinStake` signs
(`IsSignedStake`: well formed, paying the stake and no more than its reward), its grants
those `GenerateCurrencyCoinBases` made (`AreGenerated`). The selection applies neither to
the coins on which it tries the pool's transactions; the trial `ConnectBlock` does.
`fMoved` is a history variable, since a tip that goes and comes back cannot be told from
one that stayed.

**BlockMap, IndexMap.** `IndexMap` is what the rest of the code takes `mapBlockIndex` for:
a map with an entry for each block that was ever inserted, whose entries are linked along
the best chain. `BlockMap` is the cache: `mapLoaded`, the counts `nLocks`, `setKnown`,
`mapPrev`, the records and successors in the database, and everybody who holds an index
across a clean-up. `coinsBest` and `Download` are as in BlockChain: a restart may set the
tip back while memory and database keep the links of the tip that was lost. `IndexMap`
therefore has `next`, the links that are stored, and `flushed`; lookups answer with
`next`, and `FindBlockByHeight` has to stay in the best chain only while the links are
those of the best chain (`Linked`). `freed` says which of three pointers dangle (those of
the rescan, of the minter and of `FindBlockByHeight`); what the code reads through a
dangling pointer is left open. `nDropped` and `setDropped` record for the properties where
a copy of a `CLockedBlockIndex` was destroyed. `Restart` is `LoadBlockIndex`, and
`Rebuild` is `UnloadBlockIndex` with empty databases, when the user agrees to build them
again. The choice of the best block is open here: any accepted block with more trust may
become the tip, so that every choice `BlockChain` can make is covered.

| Actions | Code |
|---|---|
| `AddToBlockIndex`, `RefuseIndexedBlock`, `FailToLoadAncestor` | `AddToBlockIndex` with `BlockMap::insert`, `main.cpp:2425` |
| `ConnectBestBlock`, `CancelBestBlock`, `ConnectingDone` | `SetBestChain` and its callers, start-up included |
| `Cleanup` | `BlockMap::cleanup` |
| `StartRescan`, `RescanNext` | `ScanForWalletTransactions`, `wallet.cpp:893` |
| `MinterCopiesTip`, `MinterDestroysCopy` | the copy in `CreateNewBlock` |
| `Find`, `PrevOf`, `FindBlockByHeight` | lookups |

Definitions introduced by the comment "Mutated form" are deliberately wrong variants
of the definition after them. They are used by no specification; substituting one for
its neighbour has to break the property that `PROJECT.json` names, which shows that
the property depends on that line of the code.

## 3. Runs

| Run | Configuration | Distinct states | Shows |
|---|---|---|---|
| `fork` | `ChainFork.cfg` | 48,581 | whatever the order of arrival, and after a stop that loses tips as well, no better branch is left lying, and every message comes to an end |
| `duplicate_stake` | `ChainDup.cfg` | 281,932 | through cancelled and re-accepted blocks and a restart at any step: candidates are sound, the best chain is connected, and linked once it is back at the last tip; the tip loses trust by cancelling or by a stop before the coins are flushed only, and failed blocks are never in the best chain while the node runs |
| `check_queue` | `CheckQueue.cfg` | 372,058 | counters are exact, the constructor finds an unused queue but for a worker in the critical section, the queue implements `VerifySession`, `Wait` returns |
| `vote_park_rates` | `VoteParkRates.cfg` | 367,263 | park rates follow the coin age and move within the limits of each protocol; premiums lie between those of the neighbouring durations |
| `vote_fees_grants` | `VoteFeesGrants.cfg` | 371,983 | the protocol version is decided exactly by the votes, the fee is a median, the safe fee suffices for the blocks it is meant for; grants need a majority of blocks and of coin age and are made once per address |
| `tx_pool` | `TxPool.cfg` | 342,730 | coins, undo data, money supply and pool are those of the best chain, and the verdict on a block is stable |
| `minting` | `Minting.cfg` | 344,481 | the wallet knows what the chain holds for it, its marks follow the chain, blocks that are minted connect, and the minter is refused or aborts only for the reasons named |
| `block_map` | `BlockMap.cfg` | 2,373,378 | indexes that are held stay in memory, and lookups answer like a map of all indexes (`IndexMap`), with the links that are stored when a stop lost tips |
| `plain_error`, `reaccepted`, `unparkable`, `orphan_tx` | | | each violates one property; see section 4 |

**Bounds, and why they are enough.**

- `fork`: ten blocks. Three forks at different depths, a branch that wins with a
  block below the tip's trust (so that `SetBestChain` must connect more than
  `ConnectBestBlock` lists), an invalid block with a child, one refused by
  `AcceptBlock`, one refused by `AddToBlockIndex`, and a stake on a coin that exists
  in one branch only. One restart between any two steps; the changes of the tip that begin
  at block 1, 2 or 4 need not be flushed (`Download`), so that it may go back over several
  of them, and to another branch.
- `duplicate_stake`: nine blocks. Two blocks that share a stake, children of both, a
  heavier third branch, a stake used again later, an invalid block and one refused
  with a plain error, and one restart between any two steps, at which the coins of the
  first tips may not have been flushed. After a restart the node is in a state that is
  determined by its records, so that what a second one could add is another path to such
  a state. No block is wanted by a pending checkpoint (`Wanted`), which only takes steps
  away.
- `check_queue`: two workers, four checks of which one fails, batches of at most two,
  any number of sessions. Two workers can race each other and the master; four checks
  make batches of one and of two and leave some for a second round.
- votes: windows of two to four blocks, heights of five or eight, so that every window
  fills and slides on; weights of zero to two; blocks before and after the switch, for
  and against it. The rates include one above what a block may add and one at zero.
  `vote_fees_grants` uses an even window, like the released node (`FEE_VOTES` is 2000). The
  window of the testing build is 5 (`main.h:98`), for which the integer division in
  `CalculateVotedFees` stops one vote short of a median.
- `tx_pool`: eight blocks and ten transactions, see `MCTxPool`: a transaction in both
  branches, a conflict between the branches, a chain of two pool transactions, an output
  parked in one branch and unparked with the other branch's premium, a transaction with
  two outputs spent together, a fee that is too low above one block only, one restart. A
  coinstake and a user transaction in the same block give undo data of both forms. Block 1
  is the last checkpoint and may be left for its parent, with pool transactions that
  depend on it; the changes of the tip that begin at block 0, 1 or 2 need not be flushed
  (`Download`). No orphan transaction is held in this run, for time: `orphan_tx` and
  `minting` hold one.
- `minting`: nine blocks and six transactions, see `MCMinter`: a stake that another
  block of the wallet spends, one that a pool transaction spends, one that is the change
  of a payment in the pool, a block whose grants are due on another tip, an invalid block
  that makes a reorganisation fail after the wallet was told of its branch, one restart,
  which may lose changes of the tip that began at block 1 or 3. The wallet notes every third
  height, and every sixth in the initial download, which no tip of the tree reaches:
  there, nothing is noted. The node mints before the restart only (`MintSessions`): what
  the minter keeps does not survive one.
- `block_map`: a line of three blocks and no kept height, so that the middle one is
  freed; a refused block, freed too, with a child of more trust than the line; and a
  clean-up after every block of a rescan. The first change of the tip may not be flushed,
  so that the restart may go back to the genesis block. `BlockMapTypeOK` is part of what is
  proved. One search by the minter is enough to bring a count below zero, and one restart
  gives every state from which the databases may be built again.
- `MaxRestarts`, `MaxHeight`, `MintSessions`, `MaxSearches` and `MAX_ORPHAN_TRANSACTIONS`
  are the only bounds in the guards. The proofs hold for every value of them.

**Deadlock** is not checked: a node that has received every block of its tree is idle, a
node whose `ConnectBestBlock` fails at start-up does not start, and a branch of
`VoteChain` ends at `MaxHeight`. That a handler does not get stuck half way is
`MessageHandled`; that the threads of the queue do not is `WaitEnds`.

**Fairness.** `BlockChain!FairSpec` has weak fairness of `Handle`, a step of the
handler that is running: its thread holds `cs_main`, waits for nothing else, and goes
on. Nothing is assumed about messages arriving. `CheckQueue!FairSpec` has weak
fairness for the steps of each thread in `Loop` and for the return of `Wait`, and strong
fairness of `Enter`: a thread that can run is scheduled, a mutex that is free again and
again is not given to others for ever, and a script check ends. Workers need not be
started, and nobody need be woken spuriously.

## 4. Where the code and its comments disagree

Each of these is a run whose property states what the code, a comment or the output
promises, and which TLC refutes with a behaviour of the model.

| Run | Property | What happens |
|---|---|---|
| `plain_error` | `BestCandidateChosen` | `main.h:277` "Find the best known block, and make it the tip". `CheckInputs` answers some bad unparkings with a plain `error()`, which does not mark the block; it stays the best candidate, every later `ConnectBestBlock` fails on it, and a sound branch with more trust than the tip is not connected (`main.cpp:2184`). |
| `reaccepted` | `BestChainNotFailed` | A cancelled block is "just marked as valid again" in memory (`main.cpp:3063`), while its record keeps the failure: after a restart the best chain holds a failed block. |
| `unparkable` | `ParkedCanBeUnparked` | Parking is checked against the rates of the block itself (`main.cpp:2519`), unparking pays those of an earlier block from version 2.0 on; if these are higher the unparking is out of range and is refused for good. |
| `orphan_tx` | `OrphansGivenUpInvalid` | The loop over the orphans of an accepted transaction offers that transaction again, not the orphan (`main.cpp:4582`), and erases the orphan as invalid. |

Met on the way, and worth knowing although no run is about them:

- During the initial download `SetBestChain` moves the tip without flushing the coins
  (`main.cpp:2209`), and writes the successors of the new chain to the database at once. A
  node that is killed starts from the tip of the coins: an older one, with less trust, or
  one of another branch. `LoadBlockIndexDB` does not build `pnext` anew, so that the stored
  successors lead past the tip or along another branch, `IsInMainChain` answers for blocks
  that are not in the best chain, and `FindBlockByHeight` may return one, until the node
  has gone back up to the tip it lost. `BestChainLinked`, `TrustLostOnlyByCancelling` and
  `IndexMap` have that case in their statements.
- After such a stop the tip may have a successor. If it is then cancelled,
  `InvalidBlockFound` calls `ConnectBestBlock` (`main.cpp:1436`), which may move the tip
  before `SetBestChain` is called with the parent of whatever is the tip by then
  (`main.cpp:3006`): the block that is left need not be the one that was cancelled.
- The constructor of `CCheckQueueControl` asserts that the queue is unused by reading
  `nTotal` and `nIdle` one after the other and without the mutex (`checkqueue.h:167`). A
  worker that has just started, or that was woken and came too late to find work, is
  between `nTotal++` or `nIdle--` and `nIdle++` for a moment; an assertion that is
  evaluated then fails, and the node aborts. `QueueUnused` says that the two counters
  differ by just the worker that is in the critical section; the data race itself is left
  at that.
- Transactions of a disconnected block at or below the last checkpoint are dropped
  (`main.cpp:2173`), and pool transactions that spend their outputs stay.
  `PoolConnected` has that exception in its statement.
- `BlockMap::load` copies the money supply and not the parked total (`blockmap.cpp:76`),
  although the record has it. `SupplyExact` therefore says that the parked total is
  exact while the node has not restarted.
- `CLockedBlockIndex pindexPrev = pindexBest` (`main.cpp:5329`) uses the copy
  constructor that the compiler supplies, which does not lock, while the destructor
  unlocks. Every search of the minter takes one lock too many off an index, and a
  rescan that holds the index may find it freed, although "while it exists it prevents
  the block index from being unloaded" (`blockmap.h:164`). `HeldStaysLoaded` has that
  exception, and no other, in its statement.
- The index that `FindBlockByHeight` remembers (`main.cpp:1252`) is reset when the tip
  moves and not when a clean-up frees it. A block that does not move the tip is enough
  for that.
- `BlockMap::clear` passes over locked indexes, and `UnloadBlockIndex` unlocks the tip
  and the genesis block after it: both survive, against "Remove all the block indexes
  from memory" (`blockmap.h:124`), and keep their old links until they are connected
  again.
- `cleanup` takes the lock of the map and then `cs_cleanup`, `kernel.cpp:140` the other
  way round. Both run under `cs_main`, which is what prevents a deadlock.
- A refused or interrupted reorganisation leaves the wallet with marks of the branch it
  did not take: coins that are spent and not marked as well as the reverse.
  `MarksFollowChain` says so; `repairwallet` (`FixSpentCoins`) exists for it.
- A coinstake that no longer connects throws from `CreateNewBlock` (`main.cpp:5641`), and
  `PrintException` throws again, so that the node aborts. `AbortsOnlyIfMisled` lists
  when. Among the reasons is a tip that moved and came back between the reading of the
  tip and the trial.
- A duplicate that is re-accepted by its child goes through `AcceptBlock` without the
  loop over orphans (`main.cpp:3076`): orphans that waited for it stay in the holding
  area.
- `AddToBlockIndex` enters a block in `mapBlockIndex` before it refuses it for its
  vote (`main.cpp:2435`); such an index has no record, looking it up throws once it was
  unloaded, and a child that is handled then stays in the map without a record too.
- Park rates are 64-bit and are copied to `unsigned int` before limits are computed
  from them (`vote.cpp:318`, `vote.cpp:373`). `RateChangeLimited` therefore says "as
  long as the rate fits".
- `CalculateVotedFees` says that the data of its index should not be used and starts
  with it (`vote.cpp:757`); the wallet calls it with a dummy (`wallet.cpp:1864`).
- A pool transaction that spends coins minted by a disconnected block stays in the
  pool, which minting says "should never happen" (`main.cpp:5443`). `PoolConnected`
  has that exception in its statement.
- That the inputs of a transaction have its unit is checked by the pool only.
- During the initial download, transactions of disconnected blocks are not taken back
  by the pool: the emptied entry of their coins is still cached, and they pass for
  known (`Resurrect` in TxPool).

## 5. Proofs

The theorems hold for every tree of blocks, any transactions, number of threads,
windows and inputs that satisfy the named assumptions of the modules; TLC evaluates
those on each instance.

**BlockTreeProofs.** `Chain` is defined as the least set closed under `Prev`, and the
lemmas derive what induction would give: chains unfold, heights decrease along them,
two ancestors of a block are comparable, a block has one child in a chain.
`TreeInduction` is induction along the tree for a set of blocks; with it height, trust
and every other quantity that `Prev` determines are shown to follow their recursion.

**SumTheorems.** A sum over a finite set is the number of the units it adds up, so that
facts about sums become facts about cardinalities, which the library has. The
lemmas split sums, compare them and follow a fold along a sequence.

**BlockChainProofs.** Each result rests on those before it.

- `TypeCorrect`, with `ControlInv`: what the local variables of the handler hold at
  each `pc`.
- `CandidatesSound` (`CandidatesNotFailed`), inductive on top of the types, because
  each action that sets a failure flag removes the block from the candidates and no
  other sets one on a candidate; and `OrphanStakesSound` (`OrphanStakesHeld`).
- `BestChainIsConnected` (`BestChainConnected`). `IndexInv` says that the index is
  closed under `Prev` and that candidates have records, `ScriptsInv` that a block which
  was connected is recorded as such, and `ConnectedInv` that tip, best block of the coins
  on disk and everything `pnext` leads to were connected, with their ancestors. That is
  what is left to rely on after a stop that lost tips, when `pnext` is not that of the
  best chain.
- `BestChainIsLinked` (`BestChainLinked`) by `LinkedInv`: the links are those of
  `linkedTip`, and that is the tip until the node is restarted. What `SetBestChain` and the
  cancellation of a block leave as links are those of the new chain, given those of the
  old; after a stop that lost tips they become so again when the node is back at the tip
  that was lost.
- `TrustLossNeedsADuplicate` (`TrustLostOnlyByCancelling`). `AttachInv`: what is left in
  `vAttach` is above the trust of the tip, and no block in between is missing but those
  that were connected before. `CancelInv`: the tip that is given up is the one whose
  failure was recorded, unless the node was restarted. A restart sets the tip back to the
  block the coins were last flushed at, and to no other.
- `RunningChainNotFailed` (`FailedOnlyByRestart`): while the node runs, no failed block
  is in the best chain between messages. `UnfailedInv` adds that nothing to attach is
  failed or above a failed block. `ChainNotFailed` is `BestChainNotFailed` itself,
  restarts included, for trees without duplicate stakes (`UniqueStakes`): there, memory
  and disk agree on which blocks failed (`FailuresRecorded`).
- `BestCandidateIsChosen` (`BestCandidateChosen`), for trees without duplicate stakes and
  without plain errors (`UniqueStakes`, `NoPlainErrors`). `SettledInv`: while
  `ConnectBestBlock` runs at most one block is undecided, and otherwise none; at start-up,
  when the tip may be far below what the index knows, the candidates are undecided until
  it ends, and if it fails the node does not start. The hypotheses are those whose failure
  the runs `reaccepted` and `plain_error` exhibit: with them the promises hold for every
  tree, without them they do not.

**CheckQueueProofs.** The inductive invariant `IInv` has three parts besides the
types: `BatchInv` (batches are disjoint from each other and from the queue, and empty
unless the thread has work), `CountInv` (`nTodo` counts the outstanding checks,
`nTotal - nIdle` the busy threads) and `VerdictInv` (`fAllOk` and the local `fOk`
tell what completed checks yielded). `CountInv` is needed because `nTodo` is what
`Wait` looks at, and it is not preserved without knowing that batches are disjoint.
From it follow `ConstructorAsserts` (`QueueUnused`: what the assertions of the constructor
can see, a worker in the critical section included), `TodoExact`, `IdleExact`, and
`ImplementsSession`: every step of the queue is a step of `VerifySession` or a
stutter; `WaitReturns` maps to `Finish`.

**VoteChainProofs.** `VoteTypeCorrect`, which needs that a fee with half of the votes
exists and that a rate table is accepted only with rates in range; `GrantedOnce`,
with the invariant that `pprevElected` of each index leads to exactly the earlier
blocks that elected someone (`ElectedInv`); `RatesLimited`; and `ProtocolDecided`, that
version 2.0 applies exactly after a vote passed, by the invariant itself along the chain.
Further:

- `RatesRiseSlowly` (`RateIncreaseLimited`) and `RatesFollowVotes` (`RateBackedByVotes`):
  the weighted median lies where half of the coin age puts it, and the limits of either
  protocol move the result only towards the previous rate. Sums of coin age over the
  window are handled by SumTheorems.
- `MedianFee` (`VotedFeeIsMedian`) for even `FEE_VOTES`, with `FeeInv`: the fee of an
  index is the one its window determines, or it is from before 2.0 and was lost when the
  index was read back. For odd windows the statement is false, see section 3.
- `SafeFeeIsSafe` (`SafeFeeSuffices`), with `KindInv`: proof-of-work blocks come first
  and decide no fee.
- `GrantsHaveMajority` (`ElectedByMajority`): more than half of the blocks and of the
  coin age, and one amount per address.
- `PremiumsInterpolate`, for every table of rates, and from it `PremiumsLieBetween`
  (`PremiumBetweenNeighbours`), for the tables of a chain: what parking earns lies between
  what the two neighbouring durations of the table earn. The interpolation truncates and
  so does the division by `COIN * COIN_PARK_RATE / CENT`; neither leaves the interval.
  Two ranges are needed, and both are the code's. `GetPremium` answers zero above
  `MAX_PARK_DURATION`, so the durations of a table must be below it (`ShiftAssumption`),
  which `CParkRate::IsValid` asks of votes (`vote.cpp:474`); and it answers zero where
  the premium is no amount (`MoneyRange`), so what the neighbours earn must be amounts.

**LedgerProofs.** What the coins should be after the first `i` transactions of block
`b` is a function of the constants, `CoinsAt(b, i)`. The inductive invariant `LInv`
says that `pcoinsTip` is `CoinsAt` of the tip (`TipInv`), that the view is `CoinsAt`
of the place it has reached, on the way down as on the way up (`ViewInv`), that the
undo data of every block that was ever connected is what leads from `CoinsAt(b, i)`
back to `CoinsAt(b, i - 1)` (`UndoInv`), that the coins of the database are
`CoinsAt` of their own best block, and that recorded verdicts are those that
`CoinsAt` determines (`VerdictInv`). The two lemmas at the centre are
`UpdateAdvances`, that a transaction which passes its checks takes `CoinsAt(b, i - 1)`
to `CoinsAt(b, i)`, and `UndoRestores`, that undoing an update gives the coins back,
for coins in normal form. `LInv` was model-checked before it was proved. From it:

- `CoinsAreThoseOfTheChain`: `CoinsExact`;
- `ReorganisationsDisconnect`: `DisconnectBlock` never finds a fault;
- `VerdictsAreStable`: the verdict on a block is a function of the block and its
  ancestors, the assumption BlockChain makes;
- `LedgerTypeCorrect`: the types, the totals included;
- `SupplyIsThatOfTheCoins`: `SupplyExact`. `SupplyInv` and `ParkedInv` say of every
  block ever connected that its totals are the sums over `CoinsAt` of it. Three hypotheses
  are needed. `SameUnits`, that a transaction spends outputs of its own unit: the pool
  asks for that (`main.cpp:977`) and `ConnectBlock` does not. `GrantsUnparked`, that a
  grant parks nothing, which is `CheckCustodianGrants` (`main.cpp:2076`). And
  `ParkedKeptBelow`, that in blocks below the last checkpoint only unpark transactions
  spend parked outputs: elsewhere the script of a parked output sees to it, and there
  `ConnectBlock` runs no scripts.

**NodeProofs.** The node with its pool (TxPool), and with wallet and minter besides
(Minter). `PoolKeepsLedger` and `MintingKeepsLedger` are the refinements of Ledger, with
the identity as mapping, so that the theorems about Ledger hold for both
(`NodeKeepsCoins`, `NodeKeepsSupply`, `MintingKeepsCoins`, `MintingKeepsSupply`).

The code after a flush loops over blocks and transactions, and so do the operators of
the model, as folds. A proof about such a loop goes over its run: the sequence of the
intermediate values, each of which comes from the one before by the body (`LoopSteps`).
What the body preserves then holds along the run, by induction over its index.

- *Pool.* `PoolInv` says that `mapNextTx` is exactly the inputs of the pool and no two
  transactions of it spend the same output (`PoolOK`), that no transaction of it is in
  the best chain (`Apart`), and that each input is an unspent coin, the output of
  another transaction of the pool, one of those a disconnected block minted, or the output
  of a transaction that a block at or below the last checkpoint held (`Based`).
  What `remove` takes out with a transaction is the least set that is closed under
  spending, so that nothing which is kept loses its parent. From it: `PoolTypeCorrect`,
  `SpendersAreKnown` (`NextTxExact`), `PoolStaysOutOfChain` (`PoolNotInChain`) and
  `PoolStaysConnected` (`PoolConnected`); `SpendersAreKnownToMinter` is the second for
  the node that mints.
- *Minter.* `RefusalsNeedAMove` (`RefusedOnlyIfMoved`) by `MintInv`: while the tip has not
  moved, `pindexPrev` is the tip and the grants are those due on it.
  `MintedBlocksAreGood` (`MintedBlocksConnect`): the trial `ConnectBlock` goes through
  the transactions in order and stops at the first that is refused, and its coins are
  `CoinsAt` as long as it goes on, so that it answers what `VerdictAt` says and the
  block that was tried and offered cannot be found invalid later.
- *Aborts.* `AbortsNeedAReason` (`AbortsOnlyIfMisled`): unless one of the listed reasons
  holds, the trial of a block that could be put together succeeds. `StakeInv` says of
  the coinstake, from the moment it is made until the trial, that it is well formed and
  within its reward and that it spends outputs of the wallet which are in the chain, are
  unspent there (by `ExactInv`, below) and are mature. For the last it is needed that
  `hashBlock` of a wallet transaction names a block that holds it, that a chain has a
  transaction in one block only, and that a block which has a successor is in the best
  chain (`LinksFit`). After a stop that may have lost blocks nothing is claimed: a stop is
  one of the reasons. Each pool transaction of the block passed on the coins
  that the selection had left; the coins of the trial differ by the coinstake and the
  grants. `HoldsBut` says by how much: all coins are there but those the stake spends, and
  no pool transaction spends these. Under `SameUnits`, as for the wallet.
- *Wallet.* `MinterTypeCorrect` by `WalletInv`. `WalletKnowsItsOwn`
  (`OwnTransactionsKnown`) by `OwnInv`: the wallet has its transactions of every block
  that was ever connected, and until a stop loses blocks, what its own transactions spend
  in the tip and in the part of a branch that the view has reached is marked.
  `MarksAreThoseOfTheChain` (`MarksFollowChain`) by `ExactInv`: while no reorganisation
  was refused or interrupted, what is marked is spent in the chain at which the view
  stands, on the way down as on the way up, or by a payment the wallet knows, and all that
  this chain spends is marked. Both under `SameUnits`: a wallet is told of the
  transactions of its own unit only, and would miss one of the other unit that spends from
  it.

**BlockMapProofs.** The inductive invariant `CacheInv` has, besides the types and
`HeldStaysLoaded`, four parts. `LinksInv`: the links in memory are those in the database;
of an index that survived a rebuild that is known only once a block was connected on top
of it. `DiskInv`: links in the database are those of recorded blocks, as is the chain of
the tip that a restart may go back to. `ContentsInv`: what is loaded is known, the best
chain has records, and an index that is not loaded has no count and its parent remembered.
`HoldersInv`: who holds what at each point, and that a count below the number of holders
goes back to a destroyed copy. `HeldIndexesStay` is `HeldStaysLoaded`, and needs
`HoldersInv` for the rescan. `ImplementsMap` is the refinement of `IndexMap`: insertions,
moves of the tip, lookups, restart and rebuild map to the operation of the same name, and
everything else to `MapOther` or a stutter. At its centre are `RelinkedIs` (of the links,
`SetBestChain` changes those whose successor differs between the two chains, and leaves
the others, also when they are those of a tip that was lost) and `WalkIsInBestChain`
(while the links are those of the best chain, `FindBlockByHeight`, which does not go above
the tip, stays inside).

**Model-checked only.** Liveness (`MessageHandled`, `WaitEnds`) is out of the prover's
reach. Every other property of a passing run is stated by a theorem.

## 6. What is not modelled

- Scripts, signatures, hashes, the kernel's target and the stake modifier: a verdict
  per transaction or block.
- Failing writes to LevelDB or to block files (they end in `AbortNode`), and damage to
  files. Batches are atomic. What was written is kept by a stop of the process; that a
  loss of power may take back unsynced writes of LevelDB is left out. The flush of the
  coins, where there is one, and the writing of `pnext` after it are one step.
- Time: checks that compare with the clock answer the same whenever they are asked;
  expiry of set-aside duplicates may happen at any time.
- Indexes that the graphical interface reads through plain pointers without `cs_main`
  (`GetDepthInChain`, `main.cpp:1120`): nothing in the code protects them.
- In the wallet: keys and their encryption, labels, coin selection by amount, and the
  parked outputs of a currency wallet. In minting: proof of work, sizes, priorities.
- Limits on free transactions, and replacement of pool transactions, which is disabled
  in the code.
- Synchronised checkpoints: `IsSyncCheckpointEnforced` always returns false, so that
  they decide nothing.
- The network, RPC, GUI, data feed, liquidity information, dividends, alerts:
  `PROJECT.json` gives the reason for each. The files `src/qt/locale/*.ts` are
  translation catalogues of Qt (XML) and hold no code; the program is C++.

## 7. Plan

Done, in this order: BlockTree and BlockChain; CheckQueue with VerifySession;
ParkRates and VoteChain; Ledger; TxPool; Wallet and Minter; BlockMap with IndexMap;
proofs for each; then the proofs about the best chain, the totals, votes and premiums,
the pool, the wallet, minted blocks and the trial of a new block.

Next, most important first:

1. **Proofs**: that BlockChain's `SetBestChain` is implemented by Ledger's steps.
2. **Coin age across branches**: compose Ledger and VoteChain, for `GetCoinAge` reads the
   coins of the tip while a block of another branch is accepted (`main.cpp:2498`).
3. **Wallets of currency**: parking and unparking from the wallet, on top of Wallet.

## 8. Working with the project

In this directory, `tlc -config TxPool.cfg MCTxPool` runs one configuration;
`PROJECT.json` says which module goes with which `.cfg` and what to expect.
`tlapm LedgerProofs.tla` checks the proofs of a module. When a line of the code
changes, look it up under `map` in `PROJECT.json`, change the definition, and rerun
the runs and the proofs of its module.
