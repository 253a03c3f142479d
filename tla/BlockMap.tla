-------------------------------- MODULE BlockMap --------------------------------
(***************************************************************************)
(* The cache of block indexes: BlockMap keeps in memory the indexes that   *)
(* were used, reads the others from the database on demand, and frees the  *)
(* ones far below the tip after each block.  An index that is freed while  *)
(* somebody has a pointer to it must be protected by a count of locks,     *)
(* which CLockedBlockIndex keeps.                                          *)
(*                                                                         *)
(* Modelled are the cache and everybody who holds a pointer across a       *)
(* clean-up: the tip and the genesis block, the rescan of the wallet, the  *)
(* minter, and the index that FindBlockByHeight remembers.  The handler of *)
(* block messages, the rescan and FindBlockByHeight hold cs_main; the      *)
(* minter, and lookups on behalf of the user, do not.  Which block wins is *)
(* left open here and is the subject of BlockChain; each operation of the  *)
(* cache is atomic, as its mutex makes it.                                 *)
(*                                                                         *)
(* Indexes that a handler only reads are loaded by a Find of their own.    *)
(* An index is abstracted to its links.                                    *)
(***************************************************************************)
EXTENDS BlockTree, Integers

CONSTANTS
    BLOCK_MAP_KEPT_HEIGHT,  \* indexes closer to the tip than this stay
    BadIndex,               \* blocks AddToBlockIndex refuses: vote, park rates
    Download,               \* tips at which IsInitialBlockDownload may hold
    RescanInterval,         \* a rescan cleans up every so many blocks
    MaxSearches,            \* bound on the minter's searches since start-up
    MaxRestarts             \* bound on the number of restarts of the node

ASSUME CacheAssumption ==
    /\ BLOCK_MAP_KEPT_HEIGHT \in Nat
    /\ BadIndex \subseteq Block \ {Genesis}
    /\ Download \subseteq Block
    /\ RescanInterval \in Nat \ {0}
    /\ MaxSearches \in Nat
    /\ MaxRestarts \in Nat

VARIABLES
    mapLoaded,              \* blocks whose index is in memory
    pnext,                  \* the successor according to that index
    nLocks,                 \* its count of locks
    setKnown,               \* hashes of all indexes
    mapPrev,                \* parent of each index that was unloaded, or Null
    records,                \* blocks with a record in the database
    diskNext,               \* the successors in the database
    coinsBest,              \* the best block of the coin database
    pindexBest,             \* CLockedBlockIndex of the tip
    pindexGenesisBlock,     \* CLockedBlockIndex of the genesis block
    pindex,                 \* CLockedBlockIndex of the rescan
    nCount,                 \* blocks of the rescan, modulo RescanInterval
    pindexPrev,             \* the minter's copy of pindexBest
    pblockindexFBBHLast,    \* what FindBlockByHeight remembers
    freed,                  \* those of "scan", "mint", "last" that dangle
    pc,                     \* what the thread that holds cs_main does next
    answer,                 \* what a lookup returned, if it was the last step
    leftover,               \* indexes that survived UnloadBlockIndex
    nDropped,               \* copies destroyed per index, without a lock
    setDropped,             \* blocks with such a copy since start-up
    nSearches,
    nRestarts

cacheVars  == <<mapLoaded, pnext, nLocks, setKnown, mapPrev>>
diskVars   == <<records, diskNext, coinsBest>>
tipVars    == <<pindexBest, pindexGenesisBlock>>
scanVars   == <<pindex, nCount>>
dropVars   == <<nDropped, setDropped, nSearches>>
vars == <<cacheVars, diskVars, tipVars, scanVars, pindexPrev, pblockindexFBBHLast,
          freed, pc, answer, leftover, dropVars, nRestarts>>

BlockMapTypeOK ==
    /\ mapLoaded \subseteq Block
    /\ pnext \in [Block -> Block \cup {Null}]
    /\ nLocks \in [Block -> Int]
    /\ setKnown \subseteq Block
    /\ mapPrev \in [Block -> Block \cup {Null}]
    /\ records \subseteq Block
    /\ diskNext \in [Block -> Block \cup {Null}]
    /\ coinsBest \in Block
    /\ pindexBest \in Block \cup {Null}
    /\ pindexGenesisBlock \in {Genesis, Null}
    /\ pindex \in Block \cup {Null}
    /\ nCount \in 0..(RescanInterval - 1)
    /\ pindexPrev \in Block \cup {Null}
    /\ pblockindexFBBHLast \in Block \cup {Null}
    /\ freed \subseteq {"scan", "mint", "last"}
    /\ pc \in {"idle", "connect", "cleanup", "rescan", "rescancleanup",
               "starting", "reconnect"}
    /\ leftover \subseteq Block
    /\ nDropped \in [Block -> Nat]
    /\ setDropped \subseteq Block
    /\ nSearches \in 0..MaxSearches
    /\ nRestarts \in 0..MaxRestarts

Silent == [op |-> "none"]

--------------------------------------------------------------------------------

\* InitBlockIndex: the genesis block is stored and connected.  An empty coin database
\* is taken for one that ends there.
Init ==
    /\ mapLoaded = {Genesis}
    /\ pnext = [b \in Block |-> Null]
    /\ nLocks = [b \in Block |-> IF b = Genesis THEN 2 ELSE 0]
    /\ setKnown = {Genesis}
    /\ mapPrev = [b \in Block |-> Null]
    /\ records = {Genesis}
    /\ diskNext = [b \in Block |-> Null]
    /\ coinsBest = Genesis
    /\ pindexBest = Genesis
    /\ pindexGenesisBlock = Genesis
    /\ pindex = Null
    /\ nCount = 0
    /\ pindexPrev = Null
    /\ pblockindexFBBHLast = Null
    /\ freed = {}
    /\ pc = "idle"
    /\ answer = Silent
    /\ leftover = {}
    /\ nDropped = [b \in Block |-> 0]
    /\ setDropped = {}
    /\ nSearches = 0
    /\ nRestarts = 0

\* A known index can be had: it is in memory, or it has a record.
Readable(b) == b \in mapLoaded \/ b \in records

\* BlockMap::load of the indexes of a set that are not in memory: what it leaves of
\* the links, and of the remembered parents.
LinksLoaded(S) ==
    [b \in Block |-> IF b \in S \ mapLoaded THEN diskNext[b] ELSE pnext[b]]
PrevLoaded(S) ==
    [b \in Block |-> IF b \in S \ mapLoaded THEN Null ELSE mapPrev[b]]

\* Mutated form: the count is not read.
LockedNever(b) == FALSE

\* An index that BlockMap::unload leaves alone.
Locked(b) == nLocks[b] # 0

\* BlockMap::unload of a set of indexes: a pointer to one of them dangles.
Unload(S) ==
    /\ mapLoaded' = mapLoaded \ S
    /\ pnext' = [b \in Block |-> IF b \in S THEN Null ELSE pnext[b]]
    /\ mapPrev' = [b \in Block |-> IF b \in S THEN Prev[b] ELSE mapPrev[b]]
    /\ nDropped' = [b \in Block |-> IF b \in S THEN 0 ELSE nDropped[b]]
    /\ freed' = freed \cup (IF pindex \in S THEN {"scan"} ELSE {})
                      \cup (IF pindexPrev \in S THEN {"mint"} ELSE {})
                      \cup (IF pblockindexFBBHLast \in S THEN {"last"} ELSE {})

\* What BlockMap::cleanup frees: nothing near the tip, nor the genesis block.
Old(b) ==
    /\ nHeight[b] < nHeight[pindexBest] - BLOCK_MAP_KEPT_HEIGHT
    /\ b # pindexGenesisBlock

\* CLockedBlockIndex::operator=: the count moves from one index to the other.
LockMoved(locks, from, to) ==
    [b \in Block |-> locks[b] - (IF b = from THEN 1 ELSE 0)
                              + (IF b = to THEN 1 ELSE 0)]

--------------------------------------------------------------------------------

\* The index of a block whose parent is known is inserted.  An index that survived
\* UnloadBlockIndex stays in its place (std::map::insert).  The parent is loaded.
InsertIndex(b) ==
    /\ pc = "idle"
    /\ b \notin setKnown
    /\ Prev[b] # Null => Prev[b] \in setKnown /\ Readable(Prev[b])
    /\ setKnown' = setKnown \cup {b}
    /\ mapLoaded' = mapLoaded \cup {b} \cup ({Prev[b]} \ {Null})
    /\ pnext' = LinksLoaded({Prev[b]})
    /\ mapPrev' = PrevLoaded({Prev[b]})
    /\ UNCHANGED <<answer, nLocks, diskNext, coinsBest, tipVars, scanVars, pindexPrev,
                   pblockindexFBBHLast, freed, leftover, dropVars, nRestarts>>

\* AddToBlockIndex takes the block: its record is written.
AddToBlockIndex(b) ==
    /\ b \notin BadIndex
    /\ InsertIndex(b)
    /\ records' = records \cup {b}
    /\ pc' = "connect"

\* AddToBlockIndex refuses the block: it stays in the map and has no record.
RefuseIndexedBlock(b) ==
    /\ b \in BadIndex
    /\ InsertIndex(b)
    /\ pc' = "cleanup"
    /\ UNCHANGED records

\* The walk along the ancestors, for votes and stake modifiers, meets an index that
\* was refused and unloaded: load throws, and the handler of messages gives up.
FailToLoadAncestor(b) ==
    /\ \E a \in Chain[b] \ {b} : a \in setKnown /\ ~Readable(a)
    /\ InsertIndex(b)
    /\ pc' = "idle"
    /\ UNCHANGED records

\* Mutated form: the links along the blocks that are left are kept.
RelinkedForwardOnly(next, b) ==
    [h \in Block |-> IF \E c \in Chain[b] : Prev[c] = h
                     THEN CHOOSE c \in Chain[b] : Prev[c] = h
                     ELSE next[h]]

\* The chain that ends in the tip.
BestChain == IF pindexBest = Null THEN {} ELSE Chain[pindexBest]

\* pnext and WriteNext along the blocks that SetBestChain disconnects and connects.
Relinked(next, b) ==
    [h \in Block |->
        IF \E c \in Chain[b] \ BestChain : Prev[c] = h
        THEN CHOOSE c \in Chain[b] \ BestChain : Prev[c] = h
        ELSE IF \E c \in BestChain \ Chain[b] : Prev[c] = h THEN Null ELSE next[h]]

\* The indexes SetBestChain goes through: both branches and the fork.
Touched(b) ==
    {b} \cup
    {h \in Chain[b] \cup BestChain :
        \/ h \notin Chain[b] \cap BestChain
        \/ \E c \in (Chain[b] \cup BestChain) \ (Chain[b] \cap BestChain) : Prev[c] = h}

\* Mutated form: FindBlockByHeight goes on from where it was.
RememberedAfter == pblockindexFBBHLast

\* What SetBestChain leaves of the index that FindBlockByHeight remembers.
Remembered == Null

\* The best block of the coin database once the tip is b: during the initial download
\* the coins are flushed only when there are too many of them.
FlushCoins(b) ==
    IF pindexBest \in Download \cup {Null} THEN {coinsBest, b} ELSE {b}

\* SetBestChain succeeds: the blocks it connects have records (ConnectBlock writes
\* those that had none), both branches are relinked in memory and in the database,
\* and the tip moves.
SetBestChain(b) ==
    /\ \A h \in Touched(b) : h \in setKnown /\ Readable(h)
    /\ records' = records \cup (Chain[b] \ BestChain)
    /\ mapLoaded' = mapLoaded \cup Touched(b)
    /\ pnext' = Relinked(LinksLoaded(Touched(b)), b)
    /\ mapPrev' = PrevLoaded(Touched(b))
    /\ diskNext' = Relinked(diskNext, b)
    /\ coinsBest' \in FlushCoins(b)
    /\ pindexBest' = b
    /\ pindexGenesisBlock' = Genesis
    /\ nLocks' = LockMoved(LockMoved(nLocks, pindexGenesisBlock, Genesis),
                           pindexBest, b)
    /\ pblockindexFBBHLast' = Remembered
    /\ freed' = freed \ {"last"}
    /\ UNCHANGED <<answer, setKnown, scanVars, pindexPrev, leftover, dropVars,
                   nRestarts>>

\* ConnectBestBlock makes an accepted block with more trust the tip.
ConnectBestBlock(b) ==
    /\ pc \in {"connect", "reconnect"}
    /\ b \in records
    /\ pindexBest # Null => nChainTrust[b] > nChainTrust[pindexBest]
    /\ SetBestChain(b)
    /\ UNCHANGED pc

\* No further block connects.  A message is followed by a clean-up, the start of the
\* node is not.
ConnectingDone ==
    /\ pc \in {"connect", "reconnect"}
    /\ pindexBest # Null
    /\ pc' = IF pc = "connect" THEN "cleanup" ELSE "idle"
    /\ UNCHANGED <<answer, cacheVars, diskVars, tipVars, scanVars, pindexPrev,
                   pblockindexFBBHLast, freed, leftover, dropVars, nRestarts>>

\* The stake of the tip is used again: the tip goes back to its parent.
CancelBestBlock ==
    /\ pc = "idle"
    /\ pindexBest \notin {Null, Genesis}
    /\ SetBestChain(Prev[pindexBest])
    /\ pc' = "cleanup"

\* BlockMap::cleanup, after a block message or in a rescan.
Cleanup ==
    /\ pc \in {"cleanup", "rescancleanup"}
    /\ Unload({b \in mapLoaded : Old(b) /\ ~Locked(b)})
    /\ pc' = IF pc = "cleanup" \/ pindex = Null THEN "idle" ELSE "rescan"
    /\ UNCHANGED <<answer, nLocks, setKnown, diskVars, tipVars, scanVars, pindexPrev,
                   pblockindexFBBHLast, leftover, setDropped, nSearches, nRestarts>>

--------------------------------------------------------------------------------

\* ScanForWalletTransactions locks the block it starts from: one of the best chain, or
\* one that IsInMainChain takes for one because it has a successor.  (The rescan of
\* AppInit2, before ConnectBestBlock, has the node to itself and finds nothing else.)
StartRescan(b) ==
    /\ pc = "idle"
    /\ pindexBest # Null
    /\ b \in BestChain \cup {h \in Block : diskNext[h] # Null}
    /\ Readable(b)
    /\ pindex' = b
    /\ nCount' = 0
    /\ mapLoaded' = mapLoaded \cup {b}
    /\ pnext' = LinksLoaded({b})
    /\ mapPrev' = PrevLoaded({b})
    /\ nLocks' = LockMoved(nLocks, Null, b)
    /\ pc' = "rescan"
    /\ UNCHANGED <<answer, setKnown, diskVars, tipVars, pindexPrev,
                   pblockindexFBBHLast, freed, leftover, dropVars, nRestarts>>

\* The rescan goes on to pnext.  If its index was freed, it reads freed memory: the
\* link that was there, or none.
RescanNext(b) ==
    /\ pc = "rescan"
    /\ \/ "scan" \notin freed /\ b = pnext[pindex]
       \/ "scan" \in freed /\ b \in {diskNext[pindex], Null}
    /\ b # Null => b \in setKnown /\ Readable(b)
    /\ pindex' = b
    /\ nCount' = (nCount + 1) % RescanInterval
    /\ mapLoaded' = mapLoaded \cup ({b} \ {Null})
    /\ pnext' = LinksLoaded({b})
    /\ mapPrev' = PrevLoaded({b})
    /\ nLocks' = LockMoved(nLocks, IF "scan" \in freed THEN Null ELSE pindex, b)
    /\ freed' = freed \ {"scan"}
    /\ pc' = IF nCount' = 0 THEN "rescancleanup"
             ELSE IF b = Null THEN "idle" ELSE "rescan"
    /\ UNCHANGED <<answer, setKnown, diskVars, tipVars, pindexPrev, pblockindexFBBHLast,
                   leftover, dropVars, nRestarts>>

\* CreateNewBlock copies pindexBest.  The copy constructor does not lock.
MinterCopiesTip ==
    /\ pc \notin {"starting", "reconnect"}
    /\ pindexPrev = Null
    /\ pindexBest # Null
    /\ nSearches < MaxSearches
    /\ nSearches' = nSearches + 1
    /\ pindexPrev' = pindexBest
    /\ UNCHANGED <<answer, cacheVars, diskVars, tipVars, scanVars,
                   pblockindexFBBHLast, freed, pc, leftover, nDropped, setDropped,
                   nRestarts>>

\* CreateNewBlock returns: the destructor of the copy unlocks, or writes to memory
\* that was freed.
MinterDestroysCopy ==
    /\ pindexPrev # Null
    /\ IF "mint" \in freed
       THEN UNCHANGED <<nLocks, nDropped, setDropped>>
       ELSE /\ nLocks' = LockMoved(nLocks, pindexPrev, Null)
            /\ nDropped' = [nDropped EXCEPT ![pindexPrev] = @ + 1]
            /\ setDropped' = setDropped \cup {pindexPrev}
    /\ freed' = freed \ {"mint"}
    /\ pindexPrev' = Null
    /\ UNCHANGED <<answer, mapLoaded, pnext, setKnown, mapPrev, diskVars, tipVars,
                   scanVars, pblockindexFBBHLast, pc, leftover, nSearches, nRestarts>>

--------------------------------------------------------------------------------

\* find and operator[]: an index that is known and not in memory is read from
\* the database, and if it has no record load throws.
Find(h) ==
    /\ \/ /\ h \in setKnown \cup mapLoaded
          /\ Readable(h)
          /\ mapLoaded' = mapLoaded \cup {h}
          /\ pnext' = LinksLoaded({h})
          /\ mapPrev' = PrevLoaded({h})
          /\ answer' = [op |-> "found", hash |-> h, pprev |-> Prev[h],
                        pnext |-> pnext'[h]]
       \/ /\ h \in setKnown
          /\ ~Readable(h)
          /\ answer' = [op |-> "throws", hash |-> h]
          /\ UNCHANGED <<mapLoaded, pnext, mapPrev>>
       \/ /\ h \notin setKnown \cup mapLoaded
          /\ answer' = [op |-> "end", hash |-> h]
          /\ UNCHANGED <<mapLoaded, pnext, mapPrev>>
    /\ UNCHANGED <<nLocks, setKnown, diskVars, tipVars, scanVars, pindexPrev,
                   pblockindexFBBHLast, freed, pc, leftover, dropVars, nRestarts>>

\* prev: the parent's hash, without loading the index.
PrevOf(h) ==
    /\ answer' = [op |-> "prev", hash |-> h,
                  pprev |-> IF h \in mapLoaded THEN Prev[h] ELSE mapPrev[h]]
    /\ UNCHANGED <<cacheVars, diskVars, tipVars, scanVars, pindexPrev,
                   pblockindexFBBHLast, freed, pc, leftover, dropVars, nRestarts>>

Distance(n, h) == IF n > nHeight[h] THEN n - nHeight[h] ELSE nHeight[h] - n

\* Where FindBlockByHeight starts: the nearest of the genesis block or the tip and
\* the index it remembers.
WalkFrom(n) ==
    LET near == IF n < nHeight[pindexBest] \div 2 THEN pindexGenesisBlock
                                                  ELSE pindexBest
    IN  IF /\ pblockindexFBBHLast # Null
           /\ Distance(n, near) > Distance(n, pblockindexFBBHLast)
        THEN pblockindexFBBHLast
        ELSE near

\* The blocks between a block and one of its descendants.
Between(low, high) == (Chain[high] \ Chain[low]) \cup {low}

\* The walk from a to b, back along pprev or forward along pnext.  (After a stop that
\* lost tips the links may end too early: the walk then meets a null pointer.)
WalksTo(a, b) ==
    \/ b \in Chain[a] /\ \A h \in Between(b, a) : h \in setKnown /\ Readable(h)
    \/ /\ a \in Chain[b]
       /\ \A h \in Between(a, b) \ {a} :
             /\ h \in setKnown /\ Readable(h)
             /\ LinksLoaded({Prev[h]})[Prev[h]] = h

\* FindBlockByHeight.  If the index that it remembers was freed it reads freed memory
\* and may start anywhere.
FindBlockByHeight(n, b) ==
    /\ pc = "idle"
    /\ pindexBest # Null
    /\ n <= nHeight[pindexBest]
    /\ \/ /\ "last" \notin freed
          /\ nHeight[b] = n
          /\ WalksTo(WalkFrom(n), b)
          /\ LET walked == IF b \in Chain[WalkFrom(n)] THEN Between(b, WalkFrom(n))
                                                       ELSE Between(WalkFrom(n), b)
             IN  /\ mapLoaded' = mapLoaded \cup walked
                 /\ pnext' = LinksLoaded(walked)
                 /\ mapPrev' = PrevLoaded(walked)
       \/ /\ "last" \in freed
          /\ b \in setKnown /\ Readable(b)
          /\ mapLoaded' = mapLoaded \cup {b}
          /\ pnext' = LinksLoaded({b})
          /\ mapPrev' = PrevLoaded({b})
    /\ pblockindexFBBHLast' = b
    /\ answer' = [op |-> "height", height |-> n, hash |-> b]
    /\ UNCHANGED <<nLocks, setKnown, diskVars, tipVars, scanVars, pindexPrev, freed,
                   pc, leftover, dropVars, nRestarts>>

--------------------------------------------------------------------------------

\* The node stops and starts: LoadBlockIndexGuts loads and unloads every record, the
\* genesis block stays, and LoadBlockIndexDB loads the tip, which is that of the coins.
\* Shutdown flushes them, a crash does not; the links stay those that were stored.
Restart ==
    /\ nRestarts < MaxRestarts
    /\ pindexBest # Null
    /\ nRestarts' = nRestarts + 1
    /\ pindexBest' \in {pindexBest, coinsBest}
    /\ coinsBest' = pindexBest'
    /\ mapLoaded' = {Genesis, pindexBest'}
    /\ pnext' = [b \in Block |-> IF b \in mapLoaded' THEN diskNext[b] ELSE Null]
    /\ nLocks' = LockMoved(LockMoved([b \in Block |-> 0], Null, Genesis),
                           Null, pindexBest')
    /\ setKnown' = records
    /\ mapPrev' = [b \in Block |-> IF b \in records \ mapLoaded' THEN Prev[b] ELSE Null]
    /\ pindexGenesisBlock' = Genesis
    /\ pindex' = Null
    /\ nCount' = 0
    /\ pindexPrev' = Null
    /\ pblockindexFBBHLast' = Null
    /\ freed' = {}
    /\ pc' = "starting"
    /\ leftover' = {}
    /\ nDropped' = [b \in Block |-> 0]
    /\ setDropped' = {}
    /\ nSearches' = 0
    /\ UNCHANGED <<answer, records, diskNext>>

\* The databases are found to be sound: ConnectBestBlock is called, and the other
\* threads start.
StartUpDone ==
    /\ pc = "starting"
    /\ pc' = "reconnect"
    /\ UNCHANGED <<answer, cacheVars, diskVars, tipVars, scanVars, pindexPrev,
                   pblockindexFBBHLast, freed, leftover, dropVars, nRestarts>>

\* They are not, and the user has them built again: UnloadBlockIndex clears the map,
\* which passes over locked indexes, before it lets go of the tip and the genesis
\* block; the new databases are empty, and the block files are read again.
Rebuild ==
    /\ pc = "starting"
    /\ mapLoaded' = {b \in mapLoaded : Locked(b)}
    /\ pnext' = [b \in Block |-> IF b \in mapLoaded' THEN pnext[b] ELSE Null]
    /\ setKnown' = {}
    /\ mapPrev' = [b \in Block |-> Null]
    /\ pindexGenesisBlock' = Null
    /\ pindexBest' = Null
    /\ nLocks' = LockMoved(LockMoved(nLocks, pindexGenesisBlock, Null),
                           pindexBest, Null)
    /\ records' = {}
    /\ diskNext' = [b \in Block |-> Null]
    /\ coinsBest' = Genesis
    /\ leftover' = mapLoaded'
    /\ pc' = "idle"
    /\ UNCHANGED <<answer, scanVars, pindexPrev, pblockindexFBBHLast, freed, dropVars,
                   nRestarts>>

\* The caller has its answer.
Returned ==
    /\ answer' = Silent
    /\ UNCHANGED <<cacheVars, diskVars, tipVars, scanVars, pindexPrev,
                   pblockindexFBBHLast, freed, pc, leftover, dropVars, nRestarts>>

Step ==
    \/ \E b \in Block :
          \/ AddToBlockIndex(b) \/ RefuseIndexedBlock(b) \/ FailToLoadAncestor(b)
          \/ ConnectBestBlock(b)
          \/ StartRescan(b)
          \/ Find(b) \/ PrevOf(b)
          \/ \E n \in 0..nHeight[b] : FindBlockByHeight(n, b)
    \/ \E b \in Block \cup {Null} : RescanNext(b)
    \/ ConnectingDone \/ CancelBestBlock \/ Cleanup
    \/ MinterCopiesTip \/ MinterDestroysCopy
    \/ Restart \/ StartUpDone \/ Rebuild

Next ==
    \/ answer = Silent /\ Step
    \/ answer # Silent /\ Returned

Spec == Init /\ [][Next]_vars

--------------------------------------------------------------------------------

\* How many CLockedBlockIndex hold the index of a block and locked it.
Holders(b) ==
    (IF b = pindexBest THEN 1 ELSE 0) + (IF b = pindexGenesisBlock THEN 1 ELSE 0)
        + (IF b = pindex /\ "scan" \notin freed THEN 1 ELSE 0)

\* An index that a CLockedBlockIndex holds stays in memory: the tip and the genesis
\* block always, the block of a rescan unless a copy made by the minter, which
\* unlocks and never locked, was destroyed on it (CLockedBlockIndex has no copy
\* constructor).  Counts are off by exactly the copies that were destroyed.
HeldStaysLoaded ==
    /\ {pindexBest, pindexGenesisBlock} \ {Null} \subseteq mapLoaded
    /\ \/ pindex = Null
       \/ IF "scan" \in freed THEN pindex \in setDropped ELSE pindex \in mapLoaded
    /\ \A b \in mapLoaded : nLocks[b] = Holders(b) - nDropped[b]

\* Whoever looks up a block gets what a std::map of all block indexes would give,
\* whatever was unloaded and read back in between: see IndexMap for the exceptions.
Map == INSTANCE IndexMap WITH
          Chain <- Chain, nHeight <- nHeight,
          known <- setKnown, durable <- records, tip <- pindexBest,
          next <- diskNext, flushed <- coinsBest,
          odd <- leftover, lost <- ("last" \in freed), answer <- answer

BehavesLikeMap == Map!MapSpec

================================================================================
