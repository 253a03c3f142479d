------------------------------ MODULE BlockChain ------------------------------
(***************************************************************************)
(* How a node turns the blocks it is sent into a best chain: ProcessBlock, *)
(* AcceptBlock, AddToBlockIndex, ConnectBestBlock, SetBestChain and        *)
(* InvalidBlockFound, the holding area for orphan blocks, the cancelling   *)
(* and re-accepting of blocks that reuse the stake of the best block, and  *)
(* a restart of the node, which keeps what reached the databases: the      *)
(* records of the blocks and the successors of the best chain at once, the *)
(* coins only when they are flushed, which a node that catches up with the *)
(* network puts off.                                                       *)
(*                                                                         *)
(* A block message is handled under cs_main, one at a time.  The handler   *)
(* is a sequence of steps, told apart by pc, so that a crash can fall      *)
(* between any two of them and so that its loops can be checked to end.    *)
(* A message that is refused before any state changes is a stuttering      *)
(* step and has no action.                                                 *)
(*                                                                         *)
(* What a block contains is abstracted to the outcome of the checks that   *)
(* it is put through, a constant of the block: the few checks that read    *)
(* the clock or a synchronised checkpoint are taken to answer the same     *)
(* whenever they are asked.  That ConnectBlock does is shown in Ledger     *)
(* (VerdictStable).  The proof of stake is looked up in the coins of the   *)
(* tip.                                                                    *)
(***************************************************************************)
EXTENDS BlockTree, Sequences

CONSTANTS
    Coin,           \* outputs that proofs of stake may spend
    Origin,         \* the block whose coins each output was created by
    StakeOf,        \* prevoutStake of each block, Null for proof of work
    StakeTime,      \* nStakeTime of each block
    BadCheck,       \* blocks CheckBlock refuses
    BadAccept,      \* blocks AcceptBlock refuses before they are stored
    BadIndex,       \* blocks AddToBlockIndex refuses: vote, park rates
    ConnectResult,  \* what ConnectBlock answers: "ok", "invalid", "error"
    Wanted,         \* blocks a pending synchronised checkpoint asks for
    Download,       \* tips at which IsInitialBlockDownload may hold
    MaxRestarts     \* bound on the number of restarts of the node

ASSUME StakeAssumption ==
    /\ Null \notin Coin
    /\ Origin \in [Coin -> Block]
    /\ StakeOf \in [Block -> Coin \cup {Null}]
    /\ StakeTime \in [Block -> Nat]
    /\ StakeOf[Genesis] = Null

ASSUME VerdictAssumption ==
    /\ BadCheck \subseteq Block \ {Genesis}
    /\ BadAccept \subseteq Block \ {Genesis}
    /\ BadIndex \subseteq Block \ {Genesis}
    /\ ConnectResult \in [Block -> {"ok", "invalid", "error"}]
    /\ ConnectResult[Genesis] = "ok"

ASSUME ScopeAssumption == Wanted \subseteq Block /\ Download \subseteq Block

ASSUME RestartAssumption == MaxRestarts \in Nat

IsProofOfStake(b) == StakeOf[b] # Null

\* GetProofOfStake: the spent output and the time it is spent at.
ProofOfStake(b) == <<StakeOf[b], StakeTime[b]>>

\* Every proof of stake of the tree.
Proof == {ProofOfStake(b) : b \in {x \in Block : IsProofOfStake(x)}}

\* CheckBlock: what a block must be like whatever its ancestors are.
CheckBlock(b) == b \notin BadCheck

VARIABLES
    mapBlockIndex,              \* hashes of the known blocks
    nStatus,                    \* flags of each known block
    setBlockIndexValid,         \* candidates for the tip
    pindexBest,                 \* the tip; also the best block of pcoinsTip
    pnext,                      \* successor in the best chain, or Null; on disk too
    coinsBest,                  \* the best block of the coin database
    linkedTip,                  \* history: the block whose chain pnext was written
                                \* for, Null once it was written for several
    mapOrphanBlocks,            \* blocks held until their parent is known
    setStakeSeen,               \* proofs of stake of accepted blocks
    setStakeSeenOrphan,         \* proofs of stake of orphan blocks
    mapDuplicateStakeBlocks,    \* "index": NULL, "stored": a copy is kept
    onDisk,                     \* blocks with a record in the block index
    diskStatus,                 \* nStatus in that record
    pc,                         \* next step of the handler
    pblock,                     \* the block ProcessBlock was called with
    caller,                     \* who awaits AcceptBlock or ConnectBestBlock
    accepting,                  \* the block in AcceptBlock
    vAttach,                    \* blocks ConnectBestBlock has yet to attach
    vWorkQueue,                 \* accepted blocks whose orphans come next
    result,                     \* what the last call returned
    nRestarts

indexVars  == <<mapBlockIndex, nStatus, setBlockIndexValid, setStakeSeen>>
chainVars  == <<pindexBest, pnext, coinsBest, linkedTip>>
orphanVars == <<mapOrphanBlocks, setStakeSeenOrphan>>
diskVars   == <<onDisk, diskStatus>>
callVars   == <<pblock, caller, accepting, vAttach, vWorkQueue, result>>
vars == <<indexVars, chainVars, orphanVars, mapDuplicateStakeBlocks, diskVars,
          pc, callVars, nRestarts>>

Flag == {"SCRIPTS", "FAILED_VALID", "FAILED_CHILD"}
FAILED_MASK == {"FAILED_VALID", "FAILED_CHILD"}

Failed(b) == nStatus[b] \cap FAILED_MASK # {}

TypeOK ==
    /\ mapBlockIndex \subseteq Block
    /\ nStatus \in [Block -> SUBSET Flag]
    /\ setBlockIndexValid \subseteq Block
    /\ pindexBest \in Block
    /\ pnext \in [Block -> Block \cup {Null}]
    /\ coinsBest \in Block
    /\ linkedTip \in Block \cup {Null}
    /\ mapOrphanBlocks \subseteq Block
    /\ setStakeSeen \subseteq Proof
    /\ setStakeSeenOrphan \subseteq Proof
    /\ mapDuplicateStakeBlocks \in [Block -> {"absent", "index", "stored"}]
    /\ onDisk \subseteq Block
    /\ diskStatus \in [Block -> SUBSET Flag]
    /\ pc \in {"idle", "cancel", "parent", "store", "accept", "connect", "attach",
               "return", "orphans", "stopped"}
    /\ pblock \in Block \cup {Null}
    /\ caller \in {"none", "startup", "cancel", "parent", "block", "orphan"}
    /\ accepting \in Block \cup {Null}
    /\ vAttach \subseteq Block
    /\ vWorkQueue \in Seq(Block)
    /\ result \in BOOLEAN
    /\ nRestarts \in 0..MaxRestarts

--------------------------------------------------------------------------------

\* InitBlockIndex: the genesis block is stored and connected.  A coin database that
\* is still empty is taken for one that ends there, which is where the next start
\* begins to connect.
Init ==
    /\ mapBlockIndex = {Genesis}
    /\ nStatus = [b \in Block |-> {}]
    /\ setBlockIndexValid = {Genesis}
    /\ pindexBest = Genesis
    /\ pnext = [b \in Block |-> Null]
    /\ coinsBest = Genesis
    /\ linkedTip = Genesis
    /\ mapOrphanBlocks = {}
    /\ setStakeSeen = {}
    /\ setStakeSeenOrphan = {}
    /\ mapDuplicateStakeBlocks = [b \in Block |-> "absent"]
    /\ onDisk = {Genesis}
    /\ diskStatus = [b \in Block |-> {}]
    /\ pc = "idle"
    /\ pblock = Null
    /\ caller = "none"
    /\ accepting = Null
    /\ vAttach = {}
    /\ vWorkQueue = <<>>
    /\ result = TRUE
    /\ nRestarts = 0

\* The orphans that wait for a block: mapOrphanBlocksByPrev.
OrphansOf(b) == {o \in mapOrphanBlocks : Prev[o] = b}

\* Mutated form: two blocks without stake match.
ReusesBestStakeOrNone(b) == StakeOf[b] = StakeOf[pindexBest]

\* The block spends the output that the best block staked.
ReusesBestStake(b) ==
    /\ IsProofOfStake(b)
    /\ StakeOf[b] = StakeOf[pindexBest]

\* Limited duplicity on stake: a proof is taken twice only to fill a gap
\* below a known orphan, or for WantedByPendingSyncCheckpoint.
StakeLimited(b, seen) ==
    /\ IsProofOfStake(b)
    /\ ProofOfStake(b) \in seen
    /\ OrphansOf(b) = {}
    /\ b \notin Wanted

\* The kernel's output must be in pcoinsTip, the coins of the best chain.  Once
\* spent there it may still be found (another output of its transaction is
\* unspent, or the cache was not flushed) or not: the check may pass.
CheckProofOfStake(b) ==
    IsProofOfStake(b) => Origin[StakeOf[b]] \in Chain[pindexBest]

\* The kernel's output is spent in the best chain: the check may fail as well.
KernelSpent(b) ==
    /\ IsProofOfStake(b)
    /\ \E a \in Chain[pindexBest] : StakeOf[a] = StakeOf[b]

\* A block that is not known yet, in the index or as an orphan.
IsNew(b) == b \notin mapBlockIndex /\ b \notin mapOrphanBlocks

\* Mutated form: the block keeps its flags.
InvalidBlockNotMarked(status, b) == status

\* InvalidBlockFound's flags.  It also calls ConnectBestBlock for a block with a
\* successor: not for a block that does not connect, which never had one, but for the
\* tip while the successors are those of a tip that was lost (CancelBestBlock).
InvalidBlockFound(status, b) == [status EXCEPT ![b] = @ \cup {"FAILED_VALID"}]

\* The best block of the coin database once SetBestChain has moved the tip to p:
\* during the initial download pcoinsTip is flushed only when it grows too large.
FlushCoins(p) == IF pindexBest \in Download THEN {coinsBest, p} ELSE {p}

--------------------------------------------------------------------------------

\* Mutated form: the block is looked up after the tip has moved.
CancelledTooLate == Prev[pindexBest]

\* The block that ProcessBlock passes to InvalidBlockFound.
Cancelled == pindexBest

\* A correctly signed duplicate of the best block's stake cancels the best block: it
\* is marked and recorded as failed and the duplicate is kept aside.  If the best
\* block has a successor, InvalidBlockFound looks for a better tip first.
CancelBestBlock(b) ==
    /\ pc = "idle"
    /\ IsNew(b)
    /\ ReusesBestStake(b)
    /\ mapDuplicateStakeBlocks' =
          [mapDuplicateStakeBlocks EXCEPT ![b] = "stored",
                                          ![pindexBest] = "index"]
    /\ nStatus' = InvalidBlockFound(nStatus, Cancelled)
    /\ onDisk' = onDisk \cup {Cancelled}
    /\ diskStatus' = [diskStatus EXCEPT ![Cancelled] = nStatus'[Cancelled]]
    /\ setBlockIndexValid' = setBlockIndexValid \ {Cancelled}
    /\ IF pnext[pindexBest] = Null
       THEN pc' = "cancel" /\ UNCHANGED caller
       ELSE pc' = "connect" /\ caller' = "cancel"
    /\ UNCHANGED <<mapBlockIndex, setStakeSeen, chainVars, orphanVars, pblock,
                   accepting, vAttach, vWorkQueue, result, nRestarts>>

\* Then SetBestChain goes back from the tip, whichever it is now, to its parent.
LeaveBestBlock ==
    /\ pc = "cancel"
    /\ pindexBest' = Prev[pindexBest]
    /\ pnext' = [pnext EXCEPT ![Prev[pindexBest]] = Null]
    /\ coinsBest' \in FlushCoins(Prev[pindexBest])
    /\ linkedTip' = IF linkedTip = pindexBest THEN Prev[pindexBest] ELSE Null
    /\ caller' = "none"
    /\ pc' = "idle"
    /\ UNCHANGED <<indexVars, orphanVars, mapDuplicateStakeBlocks, diskVars, pblock,
                   accepting, vAttach, vWorkQueue, result, nRestarts>>

\* Any other block that passes the preliminary checks of ProcessBlock.
ReceiveBlock(b) ==
    /\ pc = "idle"
    /\ IsNew(b)
    /\ ~ReusesBestStake(b)
    /\ ~StakeLimited(b, setStakeSeen)
    /\ CheckBlock(b)
    /\ CheckProofOfStake(b)
    /\ pblock' = b
    /\ pc' = "parent"
    /\ UNCHANGED <<indexVars, chainVars, orphanVars, mapDuplicateStakeBlocks,
                   diskVars, caller, accepting, vAttach, vWorkQueue, result,
                   nRestarts>>

\* The parent was not set aside as a duplicate.
NoDuplicateParent ==
    /\ pc = "parent"
    /\ \/ Prev[pblock] = Null
       \/ mapDuplicateStakeBlocks[Prev[pblock]] = "absent"
    /\ pc' = "store"
    /\ UNCHANGED <<indexVars, chainVars, orphanVars, mapDuplicateStakeBlocks,
                   diskVars, callVars, nRestarts>>

\* The parent is a cancelled best block: it is marked as valid again, in memory.
ReacceptIndexedParent ==
    /\ pc = "parent"
    /\ Prev[pblock] \in mapBlockIndex
    /\ mapDuplicateStakeBlocks[Prev[pblock]] # "absent"
    /\ nStatus' = [nStatus EXCEPT ![Prev[pblock]] = @ \ {"FAILED_VALID"}]
    /\ mapDuplicateStakeBlocks' =
          [mapDuplicateStakeBlocks EXCEPT ![Prev[pblock]] = "absent"]
    /\ pc' = "store"
    /\ UNCHANGED <<mapBlockIndex, setBlockIndexValid, setStakeSeen, chainVars,
                   orphanVars, diskVars, callVars, nRestarts>>

\* The parent is a duplicate that was set aside: it is checked and accepted.
ReacceptStoredParent ==
    /\ pc = "parent"
    /\ Prev[pblock] \in Block \ mapBlockIndex
    /\ mapDuplicateStakeBlocks[Prev[pblock]] = "stored"
    /\ CheckBlock(Prev[pblock])
    /\ CheckProofOfStake(Prev[pblock])
    /\ caller' = "parent"
    /\ accepting' = Prev[pblock]
    /\ pc' = "accept"
    /\ UNCHANGED <<indexVars, chainVars, orphanVars, mapDuplicateStakeBlocks,
                   diskVars, pblock, vAttach, vWorkQueue, result, nRestarts>>

\* The duplicate that was set aside does not pass its checks: the child is
\* dropped.
RefuseStoredParent ==
    /\ pc = "parent"
    /\ Prev[pblock] \in Block \ mapBlockIndex
    /\ mapDuplicateStakeBlocks[Prev[pblock]] = "stored"
    /\ \/ ~CheckBlock(Prev[pblock])
       \/ ~CheckProofOfStake(Prev[pblock])
       \/ KernelSpent(Prev[pblock])
    /\ pblock' = Null
    /\ pc' = "idle"
    /\ UNCHANGED <<indexVars, chainVars, orphanVars, mapDuplicateStakeBlocks,
                   diskVars, caller, accepting, vAttach, vWorkQueue, result,
                   nRestarts>>

\* CleanUpOldDuplicateStakeBlocks: the copies of blocks older than a day are
\* dropped, whichever they are, and the entries of blocks no longer indexed.
CleanUpOldDuplicateStakeBlocks(old) ==
    [b \in Block |->
        IF \/ b \in old
           \/ mapDuplicateStakeBlocks[b] = "index" /\ b \notin mapBlockIndex
        THEN "absent"
        ELSE mapDuplicateStakeBlocks[b]]

Stored == {b \in Block : mapDuplicateStakeBlocks[b] = "stored"}

\* The parent is unknown: the block is held until it comes, provided that a
\* peer can be asked for it and that its stake is not an orphan's already.
HoldOrphan ==
    /\ pc = "store"
    /\ Prev[pblock] \notin mapBlockIndex
    /\ ~StakeLimited(pblock, setStakeSeenOrphan)
    /\ \E old \in SUBSET Stored :
          mapDuplicateStakeBlocks' = CleanUpOldDuplicateStakeBlocks(old)
    /\ mapOrphanBlocks' = mapOrphanBlocks \cup {pblock}
    /\ setStakeSeenOrphan' = IF IsProofOfStake(pblock)
                             THEN setStakeSeenOrphan \cup {ProofOfStake(pblock)}
                             ELSE setStakeSeenOrphan
    /\ pblock' = Null
    /\ pc' = "idle"
    /\ UNCHANGED <<indexVars, chainVars, diskVars, caller, accepting, vAttach,
                   vWorkQueue, result, nRestarts>>

\* The parent is unknown and the block is not held: it came from a file, or its
\* stake is an orphan's.
DropOrphan ==
    /\ pc = "store"
    /\ Prev[pblock] \notin mapBlockIndex
    /\ \E old \in SUBSET Stored :
          mapDuplicateStakeBlocks' = CleanUpOldDuplicateStakeBlocks(old)
    /\ pblock' = Null
    /\ pc' = "idle"
    /\ UNCHANGED <<indexVars, chainVars, orphanVars, diskVars, caller,
                   accepting, vAttach, vWorkQueue, result, nRestarts>>

\* The parent is known: the block is passed to AcceptBlock.
StoreBlock ==
    /\ pc = "store"
    /\ Prev[pblock] \in mapBlockIndex
    /\ \E old \in SUBSET Stored :
          mapDuplicateStakeBlocks' = CleanUpOldDuplicateStakeBlocks(old)
    /\ caller' = "block"
    /\ accepting' = pblock
    /\ pc' = "accept"
    /\ UNCHANGED <<indexVars, chainVars, orphanVars, diskVars, pblock, vAttach,
                   vWorkQueue, result, nRestarts>>

--------------------------------------------------------------------------------

\* AcceptBlock refuses the block before anything is written.
RefuseBlock ==
    /\ pc = "accept"
    /\ \/ accepting \in mapBlockIndex
       \/ Prev[accepting] \notin mapBlockIndex
       \/ accepting \in BadAccept
    /\ result' = FALSE
    /\ pc' = "return"
    /\ UNCHANGED <<indexVars, chainVars, orphanVars, mapDuplicateStakeBlocks,
                   diskVars, pblock, caller, accepting, vAttach, vWorkQueue,
                   nRestarts>>

\* AddToBlockIndex enters the block in mapBlockIndex, and then finds that its
\* vote, its park rates or its parking transactions are wrong.
RefuseIndexedBlock ==
    /\ pc = "accept"
    /\ accepting \notin mapBlockIndex
    /\ Prev[accepting] \in mapBlockIndex
    /\ accepting \in BadIndex \ BadAccept
    /\ mapBlockIndex' = mapBlockIndex \cup {accepting}
    /\ nStatus' = [nStatus EXCEPT ![accepting] = {}]
    /\ result' = FALSE
    /\ pc' = "return"
    /\ UNCHANGED <<setBlockIndexValid, setStakeSeen, chainVars, orphanVars,
                   mapDuplicateStakeBlocks, diskVars, pblock, caller, accepting,
                   vAttach, vWorkQueue, nRestarts>>

\* AddToBlockIndex makes the block a candidate for the tip.
AddToBlockIndex ==
    /\ pc = "accept"
    /\ accepting \notin mapBlockIndex
    /\ Prev[accepting] \in mapBlockIndex
    /\ accepting \notin BadAccept \cup BadIndex
    /\ mapBlockIndex' = mapBlockIndex \cup {accepting}
    /\ nStatus' = [nStatus EXCEPT ![accepting] = {}]
    /\ setStakeSeen' = IF IsProofOfStake(accepting)
                       THEN setStakeSeen \cup {ProofOfStake(accepting)}
                       ELSE setStakeSeen
    /\ setBlockIndexValid' = setBlockIndexValid \cup {accepting}
    /\ onDisk' = onDisk \cup {accepting}
    /\ diskStatus' = [diskStatus EXCEPT ![accepting] = {}]
    /\ pc' = "connect"
    /\ UNCHANGED <<chainVars, orphanVars, mapDuplicateStakeBlocks, callVars,
                   nRestarts>>

--------------------------------------------------------------------------------

\* Mutated form: less trust first.
BetterReversed(a, b) ==
    \/ nChainTrust[a] < nChainTrust[b]
    \/ nChainTrust[a] = nChainTrust[b] /\ a < b

\* CBlockIndexWorkComparator: more trust first, then the smaller hash.
Better(a, b) ==
    \/ nChainTrust[a] > nChainTrust[b]
    \/ nChainTrust[a] = nChainTrust[b] /\ a < b

\* The last element of setBlockIndexValid.
IsBestCandidate(c) ==
    /\ c \in setBlockIndexValid
    /\ \A b \in setBlockIndexValid \ {c} : Better(c, b)

\* The blocks ConnectBestBlock looks at below a candidate: down to the first
\* that has a successor in the best chain, or to the genesis block.
Ancestry(c) ==
    {a \in Chain[c] : \A x \in Chain[c] : a \in Chain[x] /\ x # a => pnext[x] = Null}

\* The failed block that the walk down from a candidate meets first.
IsFirstFailed(f, c) ==
    /\ f \in Ancestry(c)
    /\ Failed(f)
    /\ \A x \in Ancestry(c) : Failed(x) => x \in Chain[f]

HasFailedAncestry(c) == \E f \in Ancestry(c) : Failed(f)

\* No candidate is better than the tip: ConnectBestBlock is done.
NothingToConnect ==
    /\ pc = "connect"
    /\ \/ setBlockIndexValid = {}
       \/ \E c \in setBlockIndexValid :
             /\ IsBestCandidate(c)
             /\ c = pindexBest \/ nChainTrust[c] = nChainTrust[pindexBest]
    /\ result' = TRUE
    /\ pc' = "return"
    /\ UNCHANGED <<indexVars, chainVars, orphanVars, mapDuplicateStakeBlocks,
                   diskVars, pblock, caller, accepting, vAttach, vWorkQueue,
                   nRestarts>>

\* Mutated form: leaves out the candidate itself.
FailedDescendantsShort(c, f) == Chain[c] \ (Chain[f] \cup {c})

\* The blocks from a candidate down to the failed one, that one excluded.
FailedDescendants(c, f) == Chain[c] \ Chain[f]

\* Mutated form: marks the ancestors of the failed block too.
MarkFailedChildrenAll(c, f, status) ==
    [b \in Block |-> IF b \in Chain[c]
                     THEN status[b] \cup {"FAILED_CHILD"}
                     ELSE status[b]]

\* The status of the blocks that descend from a failed one, up to a candidate.
MarkFailedChildren(c, f, status) ==
    [b \in Block |-> IF b \in FailedDescendants(c, f)
                     THEN status[b] \cup {"FAILED_CHILD"}
                     ELSE status[b]]

\* A candidate that ConnectBestBlock goes on with: the best one, unless it is the
\* tip or no more trusted than the tip.
IsCandidateToTry(c) ==
    /\ IsBestCandidate(c)
    /\ c # pindexBest
    /\ nChainTrust[c] # nChainTrust[pindexBest]

\* The best candidate descends from a failed block: it and the blocks in between
\* are no longer candidates, and the next best is looked at.
FailBestCandidate(c, f) ==
    /\ pc = "connect"
    /\ IsCandidateToTry(c)
    /\ IsFirstFailed(f, c)
    /\ nStatus' = MarkFailedChildren(c, f, nStatus)
    /\ setBlockIndexValid' = setBlockIndexValid \ FailedDescendants(c, f)
    /\ onDisk' = onDisk \cup FailedDescendants(c, f)
    /\ diskStatus' = [b \in Block |-> IF b \in FailedDescendants(c, f)
                                      THEN nStatus'[b]
                                      ELSE diskStatus[b]]
    /\ UNCHANGED <<mapBlockIndex, setStakeSeen, chainVars, orphanVars,
                   mapDuplicateStakeBlocks, pc, callVars, nRestarts>>

\* The best candidate is sound as far as is known: the blocks above the tip's
\* trust are to be attached, lowest first.
ChooseBestCandidate(c) ==
    /\ pc = "connect"
    /\ IsCandidateToTry(c)
    /\ ~HasFailedAncestry(c)
    /\ vAttach' = {a \in Ancestry(c) : nChainTrust[a] > nChainTrust[pindexBest]}
    /\ pc' = "attach"
    /\ UNCHANGED <<indexVars, chainVars, orphanVars, mapDuplicateStakeBlocks,
                   diskVars, pblock, caller, accepting, vWorkQueue, result,
                   nRestarts>>

\* Everything was attached: ConnectBestBlock is done.
AllAttached ==
    /\ pc = "attach"
    /\ vAttach = {}
    /\ result' = TRUE
    /\ pc' = "return"
    /\ UNCHANGED <<indexVars, chainVars, orphanVars, mapDuplicateStakeBlocks,
                   diskVars, pblock, caller, accepting, vAttach, vWorkQueue,
                   nRestarts>>

\* The next block of vAttach: the one all the others descend from.
IsNextAttached(p) ==
    /\ p \in vAttach
    /\ \A b \in vAttach : p \in Chain[b]

\* SetBestChain's lists of what to disconnect from and to connect to the view.
vDisconnect(p) == Chain[pindexBest] \ Chain[p]

\* Mutated form: connects the new tip only.
vConnectTipOnly(p) == {p}

vConnect(p) == Chain[p] \ Chain[pindexBest]

\* Mutated form: disconnected blocks keep their successors.
RelinkForwardOnly(p) ==
    [b \in Block |->
        IF \E n \in vConnect(p) : Prev[n] = b
        THEN CHOOSE n \in vConnect(p) : Prev[n] = b
        ELSE pnext[b]]

\* pnext once the blocks are disconnected and connected.
Relink(p) ==
    [b \in Block |->
        IF \E n \in vConnect(p) : Prev[n] = b
        THEN CHOOSE n \in vConnect(p) : Prev[n] = b
        ELSE IF \E n \in vDisconnect(p) : Prev[n] = b
             THEN Null
             ELSE pnext[b]]

\* The block whose chain pnext follows then: the new tip, if it followed the old one;
\* and the tip that was lost, while the node goes back up to it.
LinkedAfter(p) ==
    IF linkedTip = pindexBest THEN p
    ELSE IF linkedTip # Null /\ p \in Chain[linkedTip] THEN linkedTip
    ELSE Null

\* ConnectBlock on each of the blocks raises its validity and writes its record,
\* the first time it is connected.
ConnectBlocks(blocks, status, disk) ==
    [b \in Block |-> IF b \in blocks /\ "SCRIPTS" \notin status[b]
                     THEN status[b] \cup {"SCRIPTS"}
                     ELSE disk[b]]

\* The blocks whose record ConnectBlock writes.
FirstConnected(blocks) == {b \in blocks : "SCRIPTS" \notin nStatus[b]}

\* SetBestChain succeeds: every block connects, and the last becomes the tip.
SetBestChain(p) ==
    /\ pc = "attach"
    /\ IsNextAttached(p)
    /\ \A b \in vConnect(p) : ConnectResult[b] = "ok"
    /\ nStatus' = ConnectBlocks(vConnect(p), nStatus, nStatus)
    /\ onDisk' = onDisk \cup FirstConnected(vConnect(p))
    /\ diskStatus' = ConnectBlocks(vConnect(p), nStatus, diskStatus)
    /\ pnext' = Relink(p)
    /\ pindexBest' = p
    /\ coinsBest' \in FlushCoins(p)
    /\ linkedTip' = LinkedAfter(p)
    /\ vAttach' = vAttach \ {p}
    /\ UNCHANGED <<mapBlockIndex, setBlockIndexValid, setStakeSeen, orphanVars,
                   mapDuplicateStakeBlocks, pc, pblock, caller, accepting,
                   vWorkQueue, result, nRestarts>>

\* The first block of those to connect that does not, and those before it.
IsFirstUnconnectable(f, p) ==
    /\ f \in vConnect(p)
    /\ ConnectResult[f] # "ok"
    /\ \A b \in vConnect(p) : ConnectResult[b] # "ok" => f \in Chain[b]

ConnectedBefore(f, p) == (vConnect(p) \cap Chain[f]) \ {f}

\* SetBestChain meets a block that ConnectBlock finds invalid: the tip stays, and
\* the block is marked as failed.
FailOnInvalidBlock(p, f) ==
    /\ pc = "attach"
    /\ IsNextAttached(p)
    /\ IsFirstUnconnectable(f, p)
    /\ ConnectResult[f] = "invalid"
    /\ nStatus' = InvalidBlockFound(
                     ConnectBlocks(ConnectedBefore(f, p), nStatus, nStatus), f)
    /\ onDisk' = onDisk \cup FirstConnected(ConnectedBefore(f, p)) \cup {f}
    /\ diskStatus' =
          [ConnectBlocks(ConnectedBefore(f, p), nStatus, diskStatus)
              EXCEPT ![f] = nStatus'[f]]
    /\ setBlockIndexValid' = setBlockIndexValid \ {f}
    /\ vAttach' = {}
    /\ result' = FALSE
    /\ pc' = "return"
    /\ UNCHANGED <<mapBlockIndex, setStakeSeen, chainVars, orphanVars,
                   mapDuplicateStakeBlocks, pblock, caller, accepting,
                   vWorkQueue, nRestarts>>

\* SetBestChain meets a block that ConnectBlock refuses with a plain error, which
\* is not recorded in the validation state: the tip stays, and so does the block.
FailOnError(p, f) ==
    /\ pc = "attach"
    /\ IsNextAttached(p)
    /\ IsFirstUnconnectable(f, p)
    /\ ConnectResult[f] = "error"
    /\ nStatus' = ConnectBlocks(ConnectedBefore(f, p), nStatus, nStatus)
    /\ onDisk' = onDisk \cup FirstConnected(ConnectedBefore(f, p))
    /\ diskStatus' = ConnectBlocks(ConnectedBefore(f, p), nStatus, diskStatus)
    /\ vAttach' = {}
    /\ result' = FALSE
    /\ pc' = "return"
    /\ UNCHANGED <<mapBlockIndex, setBlockIndexValid, setStakeSeen, chainVars,
                   orphanVars, mapDuplicateStakeBlocks, pblock, caller,
                   accepting, vWorkQueue, nRestarts>>

--------------------------------------------------------------------------------

\* ConnectBestBlock of AppInit2 is over.  If it failed the node does not start.
ReturnToStartup ==
    /\ pc = "return"
    /\ caller = "startup"
    /\ caller' = "none"
    /\ pc' = IF result THEN "idle" ELSE "stopped"
    /\ UNCHANGED <<indexVars, chainVars, orphanVars, mapDuplicateStakeBlocks,
                   diskVars, pblock, accepting, vAttach, vWorkQueue, result,
                   nRestarts>>

\* ConnectBestBlock of InvalidBlockFound is over, however it went.
ReturnToCancel ==
    /\ pc = "return"
    /\ caller = "cancel"
    /\ pc' = "cancel"
    /\ UNCHANGED <<indexVars, chainVars, orphanVars, mapDuplicateStakeBlocks,
                   diskVars, callVars, nRestarts>>

\* AcceptBlock of the duplicate that was set aside is over: the child goes on if
\* it was accepted.
ReturnToParent ==
    /\ pc = "return"
    /\ caller = "parent"
    /\ IF result
       THEN /\ mapDuplicateStakeBlocks' =
                  [mapDuplicateStakeBlocks EXCEPT ![accepting] = "absent"]
            /\ pc' = "store"
            /\ UNCHANGED pblock
       ELSE /\ pc' = "idle"
            /\ pblock' = Null
            /\ UNCHANGED mapDuplicateStakeBlocks
    /\ caller' = "none"
    /\ accepting' = Null
    /\ UNCHANGED <<indexVars, chainVars, orphanVars, diskVars, vAttach,
                   vWorkQueue, result, nRestarts>>

\* AcceptBlock of the received block is over: the orphans that waited for it
\* come next if it was accepted.
ReturnToBlock ==
    /\ pc = "return"
    /\ caller = "block"
    /\ IF result
       THEN vWorkQueue' = <<pblock>> /\ pc' = "orphans"
       ELSE vWorkQueue' = <<>> /\ pc' = "idle"
    /\ caller' = "none"
    /\ accepting' = Null
    /\ pblock' = Null
    /\ UNCHANGED <<indexVars, chainVars, orphanVars, mapDuplicateStakeBlocks,
                   diskVars, vAttach, result, nRestarts>>

\* AcceptBlock of an orphan is over: if it was accepted, its own orphans follow.
ReturnToOrphans ==
    /\ pc = "return"
    /\ caller = "orphan"
    /\ vWorkQueue' = IF result THEN Append(vWorkQueue, accepting) ELSE vWorkQueue
    /\ caller' = "none"
    /\ accepting' = Null
    /\ pc' = "orphans"
    /\ UNCHANGED <<indexVars, chainVars, orphanVars, mapDuplicateStakeBlocks,
                   diskVars, pblock, vAttach, result, nRestarts>>

\* Mutated form: the proof stays.
KeepOrphanStake(o) == setStakeSeenOrphan

\* The proof of stake of an orphan that is resolved is no longer held.
ForgetOrphanStake(o) == setStakeSeenOrphan \ {ProofOfStake(o)}

\* An orphan of the block at the head of the work queue leaves the holding area
\* and is passed to AcceptBlock.
AcceptOrphan(o) ==
    /\ pc = "orphans"
    /\ vWorkQueue # <<>>
    /\ o \in OrphansOf(Head(vWorkQueue))
    /\ mapOrphanBlocks' = mapOrphanBlocks \ {o}
    /\ setStakeSeenOrphan' = ForgetOrphanStake(o)
    /\ caller' = "orphan"
    /\ accepting' = o
    /\ pc' = "accept"
    /\ UNCHANGED <<indexVars, chainVars, mapDuplicateStakeBlocks, diskVars,
                   pblock, vAttach, vWorkQueue, result, nRestarts>>

\* No orphan is left below the head of the work queue.
NextInWorkQueue ==
    /\ pc = "orphans"
    /\ vWorkQueue # <<>>
    /\ OrphansOf(Head(vWorkQueue)) = {}
    /\ vWorkQueue' = Tail(vWorkQueue)
    /\ UNCHANGED <<indexVars, chainVars, orphanVars, mapDuplicateStakeBlocks,
                   diskVars, pc, pblock, caller, accepting, vAttach, result,
                   nRestarts>>

\* ProcessBlock returns.
BlockProcessed ==
    /\ pc = "orphans"
    /\ vWorkQueue = <<>>
    /\ pc' = "idle"
    /\ UNCHANGED <<indexVars, chainVars, orphanVars, mapDuplicateStakeBlocks,
                   diskVars, callVars, nRestarts>>

\* Shutdown takes cs_main, between messages or once ConnectBestBlock was interrupted,
\* and flushes the coins.
MayShutDown == pc \in {"idle", "attach", "stopped"}

\* The tip that LoadBlockIndexDB reads from the coin database.
TipsOnDisk == {coinsBest} \cup (IF MayShutDown THEN {pindexBest} ELSE {})

\* The node stops, at any point, and starts again: LoadBlockIndexDB rebuilds the
\* index from its records, takes the tip from the coins and the successors as they
\* are stored, and ConnectBestBlock is called.  Orphans and set-aside duplicates are
\* gone.  A node that finds the record of a block and not that of its parent goes no
\* further, for the parent's index is loaded as a null pointer.
Restart ==
    /\ nRestarts < MaxRestarts
    /\ ClosedUnderPrev(onDisk)
    /\ nRestarts' = nRestarts + 1
    /\ mapBlockIndex' = onDisk
    /\ nStatus' = [b \in Block |-> IF b \in onDisk THEN diskStatus[b] ELSE {}]
    /\ setBlockIndexValid' =
          {b \in onDisk : diskStatus[b] \cap FAILED_MASK = {}}
    /\ setStakeSeen' = {ProofOfStake(b) : b \in {x \in onDisk : IsProofOfStake(x)}}
    /\ mapOrphanBlocks' = {}
    /\ setStakeSeenOrphan' = {}
    /\ mapDuplicateStakeBlocks' = [b \in Block |-> "absent"]
    /\ pc' = "connect"
    /\ caller' = "startup"
    /\ pblock' = Null
    /\ accepting' = Null
    /\ vAttach' = {}
    /\ vWorkQueue' = <<>>
    /\ result' = TRUE
    /\ pindexBest' \in TipsOnDisk
    /\ coinsBest' = pindexBest'
    /\ UNCHANGED <<pnext, linkedTip, diskVars>>

--------------------------------------------------------------------------------

\* A step of the handler that is running.
Handle ==
    \/ LeaveBestBlock
    \/ NoDuplicateParent \/ ReacceptIndexedParent
    \/ ReacceptStoredParent \/ RefuseStoredParent
    \/ HoldOrphan \/ DropOrphan \/ StoreBlock
    \/ RefuseBlock \/ RefuseIndexedBlock \/ AddToBlockIndex
    \/ NothingToConnect \/ AllAttached
    \/ \E b \in Block : ChooseBestCandidate(b) \/ SetBestChain(b)
    \/ \E b, f \in Block : FailBestCandidate(b, f)
    \/ \E b, f \in Block : FailOnInvalidBlock(b, f) \/ FailOnError(b, f)
    \/ ReturnToStartup \/ ReturnToCancel \/ ReturnToParent
    \/ ReturnToBlock \/ ReturnToOrphans
    \/ \E b \in Block : AcceptOrphan(b)
    \/ NextInWorkQueue \/ BlockProcessed

Next ==
    \/ \E b \in Block : CancelBestBlock(b) \/ ReceiveBlock(b)
    \/ Handle
    \/ Restart

Spec == Init /\ [][Next]_vars

\* The thread that handles a block holds cs_main and is not blocked: it goes on.
FairSpec == Spec /\ WF_vars(Handle)

--------------------------------------------------------------------------------

\* Safety.  A candidate for the tip is never a failed block.  ConnectBestBlock
\* relies on it to end: a failed candidate would be looked at again for ever,
\* because the loop that removes candidates stops short of the failed block.
CandidatesNotFailed == \A b \in setBlockIndexValid : ~Failed(b)

\* pnext leads along the chain of a block, and nowhere else.
IsLinkedTo(t) ==
    \A b \in Block :
        \/ pnext[b] # Null /\ Prev[pnext[b]] = b /\ pnext[b] \in Chain[t]
        \/ pnext[b] = Null /\ \A n \in Chain[t] : Prev[n] # b

\* Safety.  pnext links the blocks of the best chain, all of them and no others, as
\* IsInMainChain, GetDepthInChain and the walk of ConnectBestBlock take for granted:
\* always in a node that was not restarted; after a stop that lost tips, whose coins
\* were not flushed, not at once, for the stored successors are those of the tip that
\* was lost, but again as soon as the node has gone back up to that tip.
BestChainLinked ==
    /\ linkedTip = pindexBest => IsLinkedTo(pindexBest)
    /\ nRestarts = 0 => linkedTip = pindexBest

\* Safety.  Every block of the best chain went through ConnectBlock: SetBestChain
\* connects all that lies between the fork and the new tip, also below the
\* blocks that ConnectBestBlock lists.
BestChainConnected ==
    \A b \in Chain[pindexBest] \ {Genesis} :
        ConnectResult[b] = "ok" /\ "SCRIPTS" \in nStatus[b]

\* Safety.  Between messages, a candidate with more trust than the tip has a
\* block outside the best chain that failed or does not connect.  It is for trees
\* in which no two blocks stake one coin: cancelling the best block for a
\* duplicate of its stake does not look for another candidate.
BestCandidateChosen ==
    pc = "idle" =>
        \A c \in setBlockIndexValid :
            nChainTrust[c] > nChainTrust[pindexBest] =>
                \E b \in Chain[c] \ Chain[pindexBest] :
                    Failed(b) \/ ConnectResult[b] # "ok"

\* Safety.  The proofs of stake that limit orphans are those of blocks that are
\* still held: once the orphans of a stake are resolved or dropped, the stake
\* can be offered again.
OrphanStakesHeld ==
    setStakeSeenOrphan \subseteq {ProofOfStake(o) : o \in mapOrphanBlocks}

\* Violated by the code after a restart.  The best chain holds no failed block between
\* messages: a cancelled block is in it again only after it was marked as valid.
BestChainNotFailed ==
    pc = "idle" => \A b \in Chain[pindexBest] : ~Failed(b)

\* Safety.  While the node runs the best chain holds no failed block between messages:
\* a block that was cancelled for a duplicate of its stake comes back, or stays below
\* a child that does, only after its flag was cleared.
FailedOnlyByRestart == nRestarts = 0 => BestChainNotFailed

\* Action property.  The tip gives way to a block of less trust only when it is
\* cancelled for a duplicate of its stake, and then to its parent; or when the node
\* stops before the coins of its last tips are flushed, and then to the block they were
\* last flushed at.  After such a stop the block that is given up need not be the one
\* that was cancelled: InvalidBlockFound may have moved the tip in between.
TrustLostOnlyByCancelling ==
    [][\/ nChainTrust[pindexBest'] >= nChainTrust[pindexBest]
       \/ /\ pindexBest' = Prev[pindexBest]
          /\ \/ /\ mapDuplicateStakeBlocks[pindexBest] = "index"
                /\ "FAILED_VALID" \in diskStatus[pindexBest]
             \/ nRestarts > 0 /\ caller = "cancel"
       \/ nRestarts' > nRestarts /\ pindexBest' = coinsBest]_vars

\* Liveness.  The handling of a message ends: the loops of ConnectBestBlock and
\* of the orphans of an accepted block come to an end.
MessageHandled == (pc # "idle") ~> (pc \in {"idle", "stopped"})

================================================================================
