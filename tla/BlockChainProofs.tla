---------------------------- MODULE BlockChainProofs ----------------------------
(***************************************************************************)
(* Proofs about BlockChain, for every tree of blocks and any number of     *)
(* restarts.                                                               *)
(***************************************************************************)
EXTENDS BlockChain, BlockTreeProofs

\* What the handler's local variables hold while a call is under way.
ControlInv ==
    /\ pc \in {"parent", "store"} => pblock \in Block
    /\ pc = "accept" => caller \notin {"startup", "cancel"}
    /\ pc \in {"accept", "connect", "attach", "return"} =>
          /\ caller # "none"
          /\ caller \notin {"startup", "cancel"} => accepting \in Block
          /\ caller \in {"parent", "block"} => pblock \in Block
    /\ Genesis \notin vAttach
    /\ \/ pc = "cancel"
       \/ pc \in {"connect", "attach", "return"} /\ caller = "cancel"
       => pindexBest # Genesis

\* A block with more trust than another is not the genesis block.
LEMMA GenesisLeastTrusted ==
  ASSUME NEW a \in Block, NEW b \in Block, nChainTrust[a] > nChainTrust[b]
  PROVE  a # Genesis
  BY ChainTrust, RootedAssumption, TrustRecursion, TreeAssumption

\* What the operators on flags return.
LEMMA ConnectBlocksType ==
  ASSUME NEW status \in [Block -> SUBSET Flag], NEW disk \in [Block -> SUBSET Flag],
         NEW S
  PROVE  ConnectBlocks(S, status, disk) \in [Block -> SUBSET Flag]
  BY DEF ConnectBlocks, Flag

\* InvalidBlockFound returns flags of blocks.
LEMMA InvalidBlockType ==
  ASSUME NEW status \in [Block -> SUBSET Flag], NEW b \in Block
  PROVE  InvalidBlockFound(status, b) \in [Block -> SUBSET Flag]
  BY DEF InvalidBlockFound, Flag

\* So does marking the descendants of a failed block.
LEMMA FailedChildrenType ==
  ASSUME NEW status \in [Block -> SUBSET Flag], NEW c, NEW f
  PROVE  MarkFailedChildren(c, f, status) \in [Block -> SUBSET Flag]
  BY DEF MarkFailedChildren, Flag

\* pnext is relinked with blocks.
LEMMA RelinkType ==
  ASSUME TypeOK, NEW p \in Block
  PROVE  Relink(p) \in [Block -> Block \cup {Null}]
  BY ChainType DEF Relink, vConnect, TypeOK

\* A cancelled block is not the genesis block.
LEMMA CancelTypes ==
  ASSUME TypeOK, ControlInv, NEW b \in Block, CancelBestBlock(b)
  PROVE  TypeOK' /\ ControlInv'
<1> USE DEF CancelBestBlock, Cancelled
<1>1. nStatus' \in [Block -> SUBSET Flag]
  BY InvalidBlockType DEF TypeOK
<1>2. diskStatus' \in [Block -> SUBSET Flag]
  BY <1>1, InvalidBlockType DEF TypeOK
<1>3. pindexBest # Genesis
  BY StakeAssumption DEF ReusesBestStake, IsProofOfStake
<1>4. /\ \/ pc' = "cancel" /\ caller' = caller
         \/ pc' = "connect" /\ caller' = "cancel"
      /\ UNCHANGED <<mapBlockIndex, setStakeSeen, pindexBest, pnext, coinsBest, linkedTip,
                     mapOrphanBlocks, setStakeSeenOrphan, pblock, accepting, vAttach,
                     vWorkQueue, result, nRestarts>>
  BY DEF chainVars, orphanVars
<1>5. /\ onDisk' \subseteq Block /\ setBlockIndexValid' \subseteq Block
      /\ mapDuplicateStakeBlocks' \in [Block -> {"absent", "index", "stored"}]
  BY DEF TypeOK
<1> HIDE DEF CancelBestBlock, Cancelled
<1>6. TypeOK'
  BY <1>1, <1>2, <1>4, <1>5 DEF TypeOK
<1>7. ControlInv'
  BY <1>3, <1>4 DEF ControlInv
<1> QED
  BY <1>6, <1>7

\* What is read back from the databases has the types of what was written.
LEMMA RestartTypes ==
  ASSUME TypeOK, ControlInv, Restart
  PROVE  TypeOK' /\ ControlInv'
<1> USE RestartAssumption DEF TypeOK
<1>1. nStatus' \in [Block -> SUBSET Flag] /\ setBlockIndexValid' \subseteq Block
  BY DEF Restart
<1>2. {ProofOfStake(b) : b \in {x \in onDisk : IsProofOfStake(x)}} \subseteq Proof
  BY onDisk \subseteq Block, ZenonT(60) DEF Proof
<1>3. setStakeSeen' \subseteq Proof
  BY <1>2 DEF Restart
<1>4. vWorkQueue' \in Seq(Block) /\ nRestarts' \in 0..MaxRestarts
  BY DEF Restart
<1>5. pindexBest' \in Block /\ coinsBest' \in Block
  BY DEF Restart, TipsOnDisk
<1>6. /\ mapDuplicateStakeBlocks' \in [Block -> {"absent", "index", "stored"}]
      /\ mapBlockIndex' \subseteq Block /\ mapOrphanBlocks' = {} /\ vAttach' = {}
      /\ setStakeSeenOrphan' = {} /\ result' = TRUE
      /\ pc' = "connect" /\ caller' = "startup" /\ pblock' = Null /\ accepting' = Null
      /\ UNCHANGED <<pnext, linkedTip, onDisk, diskStatus>>
  BY DEF Restart, diskVars
<1>7. TypeOK'
  BY <1>1, <1>3, <1>4, <1>5, <1>6
<1> HIDE DEF TypeOK
<1>8. ControlInv'
  BY <1>6 DEF ControlInv
<1> QED
  BY <1>7, <1>8

\* A stuttering step changes nothing.
LEMMA StutterTypes ==
  ASSUME TypeOK, ControlInv, UNCHANGED vars
  PROVE  TypeOK' /\ ControlInv'
<1> USE DEF vars, indexVars, chainVars, orphanVars, diskVars, callVars
<1>1. TypeOK'
  BY DEF TypeOK
<1>2. ControlInv'
  BY DEF ControlInv
<1> QED
  BY <1>1, <1>2

\* Every step of the node keeps the types, and a call that is under way keeps the
\* blocks it is about.
LEMMA TypeStep ==
  ASSUME TypeOK, ControlInv, [Next]_vars
  PROVE  TypeOK' /\ ControlInv'
<1> USE TreeAssumption, StakeAssumption, RestartAssumption, ChainType
    DEF TypeOK, ControlInv, indexVars, chainVars, orphanVars, diskVars, callVars
<1>2. ASSUME NEW b \in Block, ReceiveBlock(b)
      PROVE  TypeOK' /\ ControlInv'
  BY <1>2 DEF ReceiveBlock
<1>3. CASE NoDuplicateParent
  BY <1>3 DEF NoDuplicateParent
<1>4. CASE ReacceptIndexedParent
  BY <1>4 DEF ReacceptIndexedParent
<1>5. CASE ReacceptStoredParent
  BY <1>5 DEF ReacceptStoredParent
<1>6. CASE RefuseStoredParent
  BY <1>6 DEF RefuseStoredParent
<1>7. CASE HoldOrphan
  BY <1>7, SMTT(60) DEF HoldOrphan, CleanUpOldDuplicateStakeBlocks, Proof
<1>8. CASE DropOrphan
  BY <1>8, SMTT(60) DEF DropOrphan, CleanUpOldDuplicateStakeBlocks
<1>9. CASE StoreBlock
  BY <1>9, ZenonT(60) DEF StoreBlock, CleanUpOldDuplicateStakeBlocks
<1>10. CASE RefuseBlock
  BY <1>10 DEF RefuseBlock
<1>11. CASE RefuseIndexedBlock
  BY <1>11, ZenonT(60) DEF RefuseIndexedBlock
<1>12. CASE AddToBlockIndex
  BY <1>12, SMTT(60) DEF AddToBlockIndex, Proof
<1>13. CASE NothingToConnect
  BY <1>13 DEF NothingToConnect
<1>14. CASE AllAttached
  BY <1>14 DEF AllAttached
<1>15. ASSUME NEW b \in Block, ChooseBestCandidate(b)
      PROVE  TypeOK' /\ ControlInv'
  <2>1. Genesis \notin vAttach'
    BY <1>15, GenesisLeastTrusted DEF ChooseBestCandidate, Ancestry
  <2> QED
    BY <1>15, <2>1 DEF ChooseBestCandidate, Ancestry, IsCandidateToTry, IsBestCandidate
<1>16. ASSUME NEW b \in Block, SetBestChain(b)
      PROVE  TypeOK' /\ ControlInv'
  <2>1. nStatus' \in [Block -> SUBSET Flag] /\ diskStatus' \in [Block -> SUBSET Flag]
    BY <1>16, ConnectBlocksType DEF SetBestChain
  <2>2. pnext' \in [Block -> Block \cup {Null}]
    BY <1>16, RelinkType DEF SetBestChain
  <2>3. onDisk' \subseteq Block
    BY <1>16 DEF SetBestChain, FirstConnected, vConnect
  <2>4. b # Genesis
    BY <1>16 DEF SetBestChain, IsNextAttached
  <2>5. coinsBest' \in Block /\ linkedTip' \in Block \cup {Null}
    BY <1>16 DEF SetBestChain, FlushCoins, LinkedAfter
  <2> QED
    BY <1>16, <2>1, <2>2, <2>3, <2>4, <2>5 DEF SetBestChain
<1>17. ASSUME NEW b \in Block, NEW f \in Block, FailBestCandidate(b, f)
      PROVE  TypeOK' /\ ControlInv'
  <2>1. nStatus' \in [Block -> SUBSET Flag]
    BY <1>17, FailedChildrenType DEF FailBestCandidate, FailedDescendants
  <2>2. diskStatus' \in [Block -> SUBSET Flag]
    BY <1>17, <2>1 DEF FailBestCandidate, FailedDescendants
  <2> QED
    BY <1>17, <2>1, <2>2 DEF FailBestCandidate, FailedDescendants
<1>18. ASSUME NEW b \in Block, NEW f \in Block, FailOnInvalidBlock(b, f)
      PROVE  TypeOK' /\ ControlInv'
  <2> DEFINE status == ConnectBlocks(ConnectedBefore(f, b), nStatus, nStatus)
             disk == ConnectBlocks(ConnectedBefore(f, b), nStatus, diskStatus)
  <2>1. status \in [Block -> SUBSET Flag] /\ disk \in [Block -> SUBSET Flag]
    BY ConnectBlocksType
  <2>2. nStatus' = InvalidBlockFound(status, f) 
        /\ diskStatus' = [disk EXCEPT ![f] = nStatus'[f]]
    BY <1>18 DEF FailOnInvalidBlock
  <2> HIDE DEF status, disk
  <2>3. nStatus' \in [Block -> SUBSET Flag]
    BY <2>1, <2>2, InvalidBlockType
  <2>4. diskStatus' \in [Block -> SUBSET Flag]
    BY <2>1, <2>2, <2>3
  <2>5. onDisk' \subseteq Block
    BY <1>18 DEF FailOnInvalidBlock, FirstConnected, ConnectedBefore, vConnect
  <2> QED
    BY <1>18, <2>3, <2>4, <2>5 DEF FailOnInvalidBlock
<1>19. ASSUME NEW b \in Block, NEW f \in Block, FailOnError(b, f)
      PROVE  TypeOK' /\ ControlInv'
  <2>1. nStatus' \in [Block -> SUBSET Flag] /\ diskStatus' \in [Block -> SUBSET Flag]
    BY <1>19, ConnectBlocksType DEF FailOnError
  <2>2. onDisk' \subseteq Block
    BY <1>19 DEF FailOnError, FirstConnected, ConnectedBefore, vConnect
  <2> QED
    BY <1>19, <2>1, <2>2 DEF FailOnError
<1>20. CASE ReturnToStartup
  BY <1>20 DEF ReturnToStartup
<1>29. CASE ReturnToCancel
  BY <1>29 DEF ReturnToCancel
<1>30. CASE LeaveBestBlock
  <2>1. Prev[pindexBest] \in Block
    BY <1>30 DEF LeaveBestBlock
  <2>2. coinsBest' \in Block /\ linkedTip' \in Block \cup {Null}
    BY <1>30, <2>1 DEF LeaveBestBlock, FlushCoins
  <2> QED
    BY <1>30, <2>1, <2>2 DEF LeaveBestBlock
<1>21. CASE ReturnToParent
  BY <1>21, ZenonT(60) DEF ReturnToParent
<1>22. CASE ReturnToBlock
  <2>1. pblock \in Block
    BY <1>22 DEF ReturnToBlock
  <2>2. <<pblock>> \in Seq(Block) /\ <<>> \in Seq(Block)
    BY <2>1
  <2>3. vWorkQueue' \in {<<pblock>>, <<>>} /\ pc' \in {"orphans", "idle"}
    BY <1>22 DEF ReturnToBlock
  <2>4. vWorkQueue' \in Seq(Block)
    BY <2>2, <2>3
  <2> QED
    BY <1>22, <2>3, <2>4 DEF ReturnToBlock
<1>23. CASE ReturnToOrphans
  <2>1. accepting \in Block
    BY <1>23 DEF ReturnToOrphans
  <2>2. Append(vWorkQueue, accepting) \in Seq(Block)
    BY <2>1
  <2>3. vWorkQueue' \in {vWorkQueue, Append(vWorkQueue, accepting)}
    BY <1>23 DEF ReturnToOrphans
  <2>4. vWorkQueue' \in Seq(Block)
    BY <2>2, <2>3
  <2> QED
    BY <1>23, <2>4 DEF ReturnToOrphans
<1>24. ASSUME NEW b \in Block, AcceptOrphan(b)
      PROVE  TypeOK' /\ ControlInv'
  BY <1>24 DEF AcceptOrphan, ForgetOrphanStake
<1>25. CASE NextInWorkQueue
  <2>1. vWorkQueue \in Seq(Block) /\ vWorkQueue # <<>>
    BY <1>25 DEF NextInWorkQueue
  <2>2. Tail(vWorkQueue) \in Seq(Block)
    BY <2>1
  <2> QED
    BY <1>25, <2>2 DEF NextInWorkQueue
<1>26. CASE BlockProcessed
  BY <1>26 DEF BlockProcessed
<1> HIDE DEF TypeOK, ControlInv, indexVars, chainVars, orphanVars, diskVars, callVars
<1> QED
  BY <1>2, <1>3, <1>4, <1>5, <1>6, <1>7, <1>8, <1>9, <1>10, <1>11, <1>12, <1>13, <1>14,
     <1>15,
     <1>16, <1>17, <1>18, <1>19, <1>20, <1>21, <1>22, <1>23, <1>24, <1>25, <1>26, <1>29,
     <1>30, CancelTypes, RestartTypes, StutterTypes
     DEF Next, Handle

\* The node starts with its handler idle.
LEMMA TypeInit ==
  ASSUME Init
  PROVE  TypeOK /\ ControlInv
<1>1. <<>> \in Seq(Block)
  OBVIOUS
<1> QED
  BY <1>1, TreeAssumption, RestartAssumption DEF Init, TypeOK, ControlInv

\* Every variable of the node keeps its type, and a call under way keeps the
\* blocks it is about, through messages, reorganisations, cancelled blocks and
\* restarts: ProcessBlock and the functions it calls never dereference an index
\* they do not have.
THEOREM TypeCorrect == Spec => [](TypeOK /\ ControlInv)
  BY TypeInit, TypeStep, PTL DEF Spec

--------------------------------------------------------------------------------

\* A step never leaves a failed block among the candidates.
LEMMA CandidatesStep ==
  ASSUME TypeOK, ControlInv, CandidatesNotFailed, [Next]_vars
  PROVE  CandidatesNotFailed'
<1> USE TreeAssumption, ChainType
    DEF TypeOK, CandidatesNotFailed, Failed, indexVars
<1>1. ASSUME NEW b \in Block, CancelBestBlock(b)
      PROVE  CandidatesNotFailed'
  BY <1>1 DEF CancelBestBlock, Cancelled, InvalidBlockFound
<1>2. CASE ReacceptIndexedParent
  BY <1>2 DEF ReacceptIndexedParent, ControlInv
<1>3. CASE RefuseIndexedBlock
  BY <1>3 DEF RefuseIndexedBlock, ControlInv
<1>4. CASE AddToBlockIndex
  BY <1>4 DEF AddToBlockIndex, ControlInv
<1>5. ASSUME NEW b \in Block, SetBestChain(b)
      PROVE  CandidatesNotFailed'
  BY <1>5 DEF SetBestChain, ConnectBlocks, FAILED_MASK
<1>6. ASSUME NEW b \in Block, NEW f \in Block, FailBestCandidate(b, f)
      PROVE  CandidatesNotFailed'
  BY <1>6 DEF FailBestCandidate, MarkFailedChildren, FailedDescendants
<1>7. ASSUME NEW b \in Block, NEW f \in Block, FailOnInvalidBlock(b, f)
      PROVE  CandidatesNotFailed'
  BY <1>7 DEF FailOnInvalidBlock, ConnectBlocks, InvalidBlockFound, FAILED_MASK
<1>8. ASSUME NEW b \in Block, NEW f \in Block, FailOnError(b, f)
      PROVE  CandidatesNotFailed'
  BY <1>8 DEF FailOnError, ConnectBlocks, FAILED_MASK
<1>9. CASE Restart
  BY <1>9 DEF Restart
<1>10. CASE nStatus' = nStatus /\ setBlockIndexValid' = setBlockIndexValid
  BY <1>10
<1> QED
  BY <1>1, <1>2, <1>3, <1>4, <1>5, <1>6, <1>7, <1>8, <1>9, <1>10
     DEF Next, Handle, vars, ReceiveBlock, NoDuplicateParent,
         ReacceptStoredParent, RefuseStoredParent, HoldOrphan, DropOrphan,
         StoreBlock, RefuseBlock, NothingToConnect, AllAttached,
         ChooseBestCandidate, ReturnToStartup, ReturnToCancel, LeaveBestBlock,
         ReturnToParent, ReturnToBlock,
         ReturnToOrphans, AcceptOrphan, NextInWorkQueue, BlockProcessed

\* setBlockIndexValid never holds a failed block, for every tree of blocks, every
\* order of arrival and any number of restarts: the loop of ConnectBestBlock,
\* which stops short of the failed block it meets, removes what it looked at.
THEOREM CandidatesSound == Spec => []CandidatesNotFailed
<1>1. Init => CandidatesNotFailed
  BY TreeAssumption DEF Init, CandidatesNotFailed, Failed
<1>2. TypeOK /\ ControlInv /\ CandidatesNotFailed /\ [Next]_vars => CandidatesNotFailed'
  BY CandidatesStep
<1> QED
  BY <1>1, <1>2, TypeInit, TypeStep, PTL DEF Spec

--------------------------------------------------------------------------------

\* The proofs of stake that limit orphans are those of orphans which are held.
THEOREM OrphanStakesSound == Spec => []OrphanStakesHeld
<1>1. Init => OrphanStakesHeld
  BY DEF Init, OrphanStakesHeld
<1>2. OrphanStakesHeld /\ [Next]_vars => OrphanStakesHeld'
  <2> SUFFICES ASSUME OrphanStakesHeld, [Next]_vars
               PROVE  OrphanStakesHeld'
    OBVIOUS
  <2> USE DEF OrphanStakesHeld, orphanVars
  <2>1. CASE HoldOrphan
    BY <2>1 DEF HoldOrphan
  <2>2. ASSUME NEW o \in Block, AcceptOrphan(o)
        PROVE  OrphanStakesHeld'
    BY <2>2 DEF AcceptOrphan, ForgetOrphanStake
  <2>3. CASE Restart
    BY <2>3 DEF Restart
  <2>4. CASE UNCHANGED orphanVars
    BY <2>4
  <2> QED
    BY <2>1, <2>2, <2>3, <2>4
       DEF Next, Handle, vars, ReceiveBlock, NoDuplicateParent, CancelBestBlock,
           ReacceptIndexedParent, ReacceptStoredParent, RefuseStoredParent,
           DropOrphan, StoreBlock, RefuseBlock, RefuseIndexedBlock,
           AddToBlockIndex, NothingToConnect, AllAttached, ChooseBestCandidate,
           SetBestChain, FailBestCandidate, FailOnInvalidBlock, FailOnError,
           ReturnToStartup, ReturnToCancel, LeaveBestBlock, ReturnToParent,
           ReturnToBlock, ReturnToOrphans,
           NextInWorkQueue, BlockProcessed
<1> QED
  BY <1>1, <1>2, PTL DEF Spec

--------------------------------------------------------------------------------

\* The actions that touch the index, the best chain, the records or the blocks to attach.
LEMMA IndexMoves ==
  ASSUME [Next]_vars
  PROVE  \/ \E b \in Block : CancelBestBlock(b)
         \/ LeaveBestBlock
         \/ ReacceptIndexedParent
         \/ RefuseIndexedBlock
         \/ AddToBlockIndex
         \/ \E b \in Block : ChooseBestCandidate(b)
         \/ \E b \in Block : SetBestChain(b)
         \/ \E b, f \in Block : FailBestCandidate(b, f)
         \/ \E b, f \in Block : FailOnInvalidBlock(b, f)
         \/ \E b, f \in Block : FailOnError(b, f)
         \/ Restart
         \/ NothingToConnect
         \/ AllAttached
         \/ ReturnToStartup
         \/ UNCHANGED vars
         \/ /\ UNCHANGED <<indexVars, chainVars, diskVars, vAttach, nRestarts>>
            /\ {pc, pc'} \cap {"connect", "attach"} = {}
            /\ pc \notin {"cancel", "stopped"}
            /\ pc = "return" => caller # "startup"
  BY DEF Next, Handle, vars, callVars, ReceiveBlock, NoDuplicateParent,
         ReacceptStoredParent, RefuseStoredParent, HoldOrphan, DropOrphan, StoreBlock,
         RefuseBlock, ReturnToCancel, ReturnToParent, ReturnToBlock, ReturnToOrphans,
         AcceptOrphan, NextInWorkQueue, BlockProcessed

\* Steps that leave the index, the best chain and the records alone.
LEMMA QuietMoves ==
  ASSUME \/ NothingToConnect
         \/ AllAttached
         \/ ReturnToStartup
         \/ UNCHANGED vars
  PROVE  UNCHANGED <<indexVars, chainVars, diskVars, vAttach, nRestarts>>
  BY DEF NothingToConnect, AllAttached, ReturnToStartup, vars, callVars

\* The blocks that ConnectBlock has raised to SCRIPTS, and the genesis block.
Connected == {b \in Block : "SCRIPTS" \in nStatus[b]} \cup {Genesis}

\* What is known of the index and its records, in memory and on disk.  The candidates
\* have records; what has a record, or is to be attached, is known; and with a block its
\* parent is.
IndexInv ==
    /\ ClosedUnderPrev(mapBlockIndex)
    /\ setBlockIndexValid \subseteq onDisk
    /\ onDisk \subseteq mapBlockIndex
    /\ vAttach \subseteq mapBlockIndex
    /\ Genesis \in onDisk

\* A block that ConnectBlock has raised to SCRIPTS was so recorded, and no other was.
ScriptsInv ==
    \A b \in Block :
        "SCRIPTS" \in nStatus[b] <=> b \in onDisk /\ "SCRIPTS" \in diskStatus[b]

\* ConnectBlock accepted the blocks it has raised; with a block it has raised its parent.
\* The tip, the best block of the coins on disk and every block that pnext leads to are
\* among them, the successors that a stop has left behind included.
ConnectedInv ==
    /\ \A b \in Connected \ {Genesis} : ConnectResult[b] = "ok"
    /\ ClosedUnderPrev(Connected)
    /\ pindexBest \in Connected /\ coinsBest \in Connected
    /\ \A b \in Block : pnext[b] # Null => pnext[b] \in Connected /\ Prev[pnext[b]] = b

\* A set of known blocks has its ancestors known.
LEMMA KnownChain ==
  ASSUME TypeOK, IndexInv, NEW b \in mapBlockIndex
  PROVE  b \in Block /\ Chain[b] \subseteq mapBlockIndex
  BY ChainInClosed DEF TypeOK, IndexInv

\* With a block its chain is connected.
LEMMA ConnectedChain ==
  ASSUME TypeOK, ConnectedInv, NEW b \in Connected
  PROVE  b \in Block /\ Chain[b] \subseteq Connected
  BY TreeAssumption, ChainInClosed DEF ConnectedInv, Connected

\* What is connected has a record.
LEMMA ConnectedOnDisk ==
  ASSUME TypeOK, IndexInv, ScriptsInv
  PROVE  Connected \subseteq onDisk
  BY DEF IndexInv, ScriptsInv, Connected

\* The index and its records stay in step.
LEMMA IndexStep ==
  ASSUME TypeOK, ControlInv, IndexInv, ScriptsInv, ConnectedInv, [Next]_vars
  PROVE  IndexInv'
<1> USE TreeAssumption DEF TypeOK
<1>0. /\ ClosedUnderPrev(mapBlockIndex) /\ setBlockIndexValid \subseteq onDisk
      /\ onDisk \subseteq mapBlockIndex /\ vAttach \subseteq mapBlockIndex
      /\ Genesis \in onDisk
  BY DEF IndexInv
<1>1. ASSUME NEW b \in Block, CancelBestBlock(b)
      PROVE  IndexInv'
  <2>1. pindexBest \in onDisk
    BY ConnectedOnDisk DEF ConnectedInv
  <2> QED
    BY <1>0, <1>1, <2>1 DEF CancelBestBlock, Cancelled, IndexInv
<1>2. CASE ReacceptIndexedParent
  BY <1>0, <1>2 DEF ReacceptIndexedParent, IndexInv, diskVars, callVars
<1>3. CASE RefuseIndexedBlock
  <2>1. ClosedUnderPrev(mapBlockIndex')
    BY <1>0, <1>3 DEF RefuseIndexedBlock, ClosedUnderPrev
  <2> QED
    BY <1>0, <1>3, <2>1 DEF RefuseIndexedBlock, IndexInv, diskVars
<1>4. CASE AddToBlockIndex
  <2>1. ClosedUnderPrev(mapBlockIndex')
    BY <1>0, <1>4 DEF AddToBlockIndex, ClosedUnderPrev
  <2> QED
    BY <1>0, <1>4, <2>1 DEF AddToBlockIndex, IndexInv, callVars
<1>5. ASSUME NEW b \in Block, ChooseBestCandidate(b)
      PROVE  IndexInv'
  <2>1. b \in mapBlockIndex
    BY <1>0, <1>5 DEF ChooseBestCandidate, IsCandidateToTry, IsBestCandidate
  <2>2. vAttach' \subseteq mapBlockIndex
    BY <1>5, <2>1, KnownChain DEF ChooseBestCandidate, Ancestry
  <2> QED
    BY <1>0, <1>5, <2>2 DEF ChooseBestCandidate, IndexInv, indexVars, diskVars
<1>6. ASSUME NEW b \in Block, SetBestChain(b)
      PROVE  IndexInv'
  <2>1. b \in vAttach
    BY <1>6 DEF SetBestChain, IsNextAttached
  <2>2. Chain[b] \subseteq mapBlockIndex
    BY <1>0, <2>1, KnownChain
  <2>3. onDisk' \subseteq mapBlockIndex
    BY <1>0, <1>6, <2>2 DEF SetBestChain, FirstConnected, vConnect
  <2> QED
    BY <1>0, <1>6, <2>3 DEF SetBestChain, IndexInv
<1>7. ASSUME NEW b \in Block, NEW f \in Block, FailBestCandidate(b, f)
      PROVE  IndexInv'
  <2>1. b \in mapBlockIndex
    BY <1>0, <1>7 DEF FailBestCandidate, IsCandidateToTry, IsBestCandidate
  <2>2. Chain[b] \subseteq mapBlockIndex
    BY <2>1, KnownChain
  <2> QED
    BY <1>0, <1>7, <2>2 DEF FailBestCandidate, FailedDescendants, IndexInv, callVars
<1>8. ASSUME NEW b \in Block, NEW f \in Block, FailOnInvalidBlock(b, f)
      PROVE  IndexInv'
  <2>1. b \in mapBlockIndex
    BY <1>0, <1>8 DEF FailOnInvalidBlock, IsNextAttached
  <2>2. Chain[b] \subseteq mapBlockIndex
    BY <2>1, KnownChain
  <2>3. onDisk' \subseteq mapBlockIndex
    BY <1>0, <1>8, <2>2
       DEF FailOnInvalidBlock, FirstConnected, ConnectedBefore, vConnect,
           IsFirstUnconnectable
  <2> QED
    BY <1>0, <1>8, <2>3 DEF FailOnInvalidBlock, IndexInv
<1>9. ASSUME NEW b \in Block, NEW f \in Block, FailOnError(b, f)
      PROVE  IndexInv'
  <2>1. b \in mapBlockIndex
    BY <1>0, <1>9 DEF FailOnError, IsNextAttached
  <2>2. Chain[b] \subseteq mapBlockIndex
    BY <2>1, KnownChain
  <2>3. onDisk' \subseteq mapBlockIndex
    BY <1>0, <1>9, <2>2 DEF FailOnError, FirstConnected, ConnectedBefore, vConnect
  <2> QED
    BY <1>0, <1>9, <2>3 DEF FailOnError, IndexInv
<1>10. CASE Restart
  BY <1>0, <1>10 DEF Restart, IndexInv, diskVars
<1>11. CASE UNCHANGED <<indexVars, diskVars, vAttach>>
  BY <1>0, <1>11 DEF IndexInv, indexVars, diskVars
<1>12. CASE LeaveBestBlock
  BY <1>11, <1>12 DEF LeaveBestBlock
<1> QED
  BY <1>1, <1>2, <1>3, <1>4, <1>5, <1>6, <1>7, <1>8, <1>9, <1>10, <1>11, <1>12,
     IndexMoves, QuietMoves

\* A flag that ConnectBlock sets reaches the record with it.
LEMMA ScriptsStep ==
  ASSUME TypeOK, ControlInv, IndexInv, ScriptsInv, [Next]_vars
  PROVE  ScriptsInv'
<1> USE TreeAssumption DEF TypeOK, ScriptsInv
<1>0. onDisk \subseteq mapBlockIndex
  BY DEF IndexInv
<1>1. ASSUME NEW b \in Block, CancelBestBlock(b)
      PROVE  ScriptsInv'
  BY <1>1 DEF CancelBestBlock, Cancelled, InvalidBlockFound
<1>2. CASE ReacceptIndexedParent
  BY <1>2 DEF ReacceptIndexedParent, ControlInv, diskVars
<1>3. CASE RefuseIndexedBlock
  BY <1>0, <1>3 DEF RefuseIndexedBlock, ControlInv, diskVars
<1>4. CASE AddToBlockIndex
  BY <1>0, <1>4 DEF AddToBlockIndex, ControlInv
<1>5. ASSUME NEW b \in Block, SetBestChain(b)
      PROVE  ScriptsInv'
  BY <1>5 DEF SetBestChain, ConnectBlocks, FirstConnected
<1>6. ASSUME NEW b \in Block, NEW f \in Block, FailBestCandidate(b, f)
      PROVE  ScriptsInv'
  BY <1>6 DEF FailBestCandidate, MarkFailedChildren
<1>7. ASSUME NEW b \in Block, NEW f \in Block, FailOnInvalidBlock(b, f)
      PROVE  ScriptsInv'
  BY <1>7 DEF FailOnInvalidBlock, ConnectBlocks, InvalidBlockFound, FirstConnected
<1>8. ASSUME NEW b \in Block, NEW f \in Block, FailOnError(b, f)
      PROVE  ScriptsInv'
  BY <1>8 DEF FailOnError, ConnectBlocks, FirstConnected
<1>9. CASE Restart
  BY <1>9 DEF Restart, diskVars
<1>10. CASE UNCHANGED <<indexVars, diskVars>>
  BY <1>10 DEF indexVars, diskVars
<1>11. ASSUME NEW b \in Block, ChooseBestCandidate(b)
       PROVE  UNCHANGED <<indexVars, diskVars>>
  BY <1>11 DEF ChooseBestCandidate
<1>12. CASE LeaveBestBlock
  BY <1>10, <1>12 DEF LeaveBestBlock
<1> QED
  BY <1>1, <1>2, <1>3, <1>4, <1>5, <1>6, <1>7, <1>8, <1>9, <1>10, <1>11, <1>12,
     IndexMoves, QuietMoves

\* Connecting blocks whose parents are connected extends what is connected.
LEMMA ConnectGrows ==
  ASSUME TypeOK, ConnectedInv, NEW S \in SUBSET Block,
         \A b \in S : /\ ConnectResult[b] = "ok"
                      /\ Prev[b] # Null => Prev[b] \in Connected \cup S,
         \A b \in Block : "SCRIPTS" \in nStatus'[b] <=> b \in S \/ "SCRIPTS" \in nStatus[b],
         pindexBest' \in Connected \cup S, coinsBest' \in Connected \cup S,
         \A b \in Block : \/ pnext'[b] \in {pnext[b], Null}
                          \/ pnext'[b] \in S /\ Prev[pnext'[b]] = b
  PROVE  ConnectedInv'
<1> USE TreeAssumption DEF ConnectedInv
<1>1. Connected' = Connected \cup S
  BY DEF Connected
<1>2. \A b \in Connected' \ {Genesis} : ConnectResult[b] = "ok"
  BY <1>1
<1>3. ClosedUnderPrev(Connected')
  BY <1>1 DEF ClosedUnderPrev
<1>4. \A b \in Block : pnext'[b] # Null => pnext'[b] \in Connected' /\ Prev[pnext'[b]] = b
  BY <1>1
<1>5. pindexBest' \in Connected' /\ coinsBest' \in Connected'
  BY <1>1
<1> HIDE DEF Connected
<1> QED
  BY <1>2, <1>3, <1>4, <1>5

\* The blocks that are connected on the way to a new tip have their parents among them or
\* in the best chain.
LEMMA ConnectParents ==
  ASSUME TypeOK, ConnectedInv, NEW p \in Block, NEW b \in vConnect(p), Prev[b] # Null
  PROVE  Prev[b] \in Connected \cup vConnect(p)
<1>1. b \in Block /\ b \in Chain[p]
  BY ChainType DEF vConnect
<1>2. b # Genesis
  BY TreeAssumption
<1>3. Prev[b] \in Chain[p]
  BY <1>1, <1>2, ChainUnfold, ChainOfAncestor, ChainType
<1>4. Chain[pindexBest] \subseteq Connected
  BY ConnectedChain DEF ConnectedInv
<1> QED
  BY <1>3, <1>4 DEF vConnect

\* So have those that come before the first that does not connect, and they all do.
LEMMA ConnectBefore ==
  ASSUME TypeOK, ConnectedInv, NEW p \in Block, NEW f \in Block, IsFirstUnconnectable(f, p),
         NEW b \in ConnectedBefore(f, p)
  PROVE  /\ ConnectResult[b] = "ok"
         /\ Prev[b] # Null => Prev[b] \in Connected \cup ConnectedBefore(f, p)
<1>1. b \in Chain[p] /\ b \in vConnect(p) /\ b \in Chain[f] /\ b # f /\ b \in Block
  BY ChainType DEF ConnectedBefore, vConnect
<1>2. ConnectResult[b] = "ok"
  <2> SUFFICES ASSUME f \in Chain[b]
               PROVE  FALSE
    BY <1>1 DEF IsFirstUnconnectable
  <2>1. nHeight[b] < nHeight[f] /\ nHeight[f] <= nHeight[b]
    BY <1>1, AncestorLower, ChainHeight
  <2> QED
    BY <2>1, <1>1, HeightRecursion
<1>3. ASSUME Prev[b] # Null
      PROVE  Prev[b] \in Connected \cup ConnectedBefore(f, p)
  <2>1. b # Genesis
    BY <1>3, TreeAssumption
  <2>2. Prev[b] \in Block /\ Prev[b] \in Chain[b]
    BY <1>1, <2>1, ChainUnfold, ChainType
  <2>3. Prev[b] \in Chain[f]
    BY <1>1, <2>2, ChainOfAncestor
  <2>4. nHeight[b] < nHeight[f] /\ nHeight[b] = nHeight[Prev[b]] + 1
    BY <1>1, <2>1, AncestorLower, HeightRecursion
  <2>5. Prev[b] # f
    BY <2>4, <2>2, <1>1, HeightRecursion
  <2> QED
    BY <1>1, <1>3, <2>3, <2>5, ConnectParents DEF ConnectedBefore
<1> QED
  BY <1>2, <1>3

\* Every step keeps the blocks of the best chain connected.
LEMMA ConnectedStep ==
  ASSUME TypeOK, ControlInv, IndexInv, ScriptsInv, ConnectedInv, [Next]_vars
  PROVE  ConnectedInv'
<1> USE TreeAssumption
<1>0. /\ \A b \in Block : "SCRIPTS" \in nStatus[b] => b \in mapBlockIndex
      /\ pindexBest \in Connected /\ coinsBest \in Connected
      /\ nStatus \in [Block -> SUBSET Flag] /\ pnext \in [Block -> Block \cup {Null}]
  BY DEF IndexInv, ScriptsInv, ConnectedInv, TypeOK
<1>a. ASSUME \A b \in Block : "SCRIPTS" \in nStatus'[b] <=> "SCRIPTS" \in nStatus[b],
             pindexBest' \in Connected, coinsBest' \in Connected,
             \A b \in Block : pnext'[b] \in {pnext[b], Null}
      PROVE  ConnectedInv'
  <2> DEFINE S == {b \in Block : FALSE}
  <2>1. S \in SUBSET Block /\ \A b : b \notin S
    OBVIOUS
  <2> HIDE DEF S
  <2> QED
    BY <1>a, <2>1, ConnectGrows
<1>b. ASSUME \A b \in Block : "SCRIPTS" \in nStatus'[b] <=> "SCRIPTS" \in nStatus[b],
             UNCHANGED chainVars
      PROVE  ConnectedInv'
  BY <1>a, <1>b, <1>0 DEF chainVars
<1>1. ASSUME NEW b \in Block, CancelBestBlock(b)
      PROVE  ConnectedInv'
  BY <1>0, <1>1, <1>b DEF CancelBestBlock, Cancelled, InvalidBlockFound
<1>2. CASE LeaveBestBlock
  <2>1. Prev[pindexBest] \in Connected
    BY <1>2 DEF LeaveBestBlock, ControlInv, ConnectedInv, ClosedUnderPrev, TypeOK
  <2>2. /\ pindexBest' = Prev[pindexBest] /\ coinsBest' \in {coinsBest, Prev[pindexBest]}
        /\ nStatus' = nStatus /\ pnext' = [pnext EXCEPT ![Prev[pindexBest]] = Null]
    BY <1>2 DEF LeaveBestBlock, FlushCoins, indexVars
  <2> QED
    BY <1>0, <2>1, <2>2, <1>a
<1>3. CASE ReacceptIndexedParent
  BY <1>0, <1>3, <1>b DEF ReacceptIndexedParent, ControlInv
<1>4. CASE RefuseIndexedBlock
  BY <1>0, <1>4, <1>b DEF RefuseIndexedBlock, ControlInv
<1>5. CASE AddToBlockIndex
  BY <1>0, <1>5, <1>b DEF AddToBlockIndex, ControlInv
<1>6. ASSUME NEW p \in Block, SetBestChain(p)
      PROVE  ConnectedInv'
  <2>1. /\ \A b \in vConnect(p) : ConnectResult[b] = "ok"
        /\ nStatus' = ConnectBlocks(vConnect(p), nStatus, nStatus)
        /\ pindexBest' = p /\ coinsBest' \in {coinsBest, p} /\ pnext' = Relink(p)
    BY <1>6 DEF SetBestChain, FlushCoins
  <2>2. vConnect(p) \in SUBSET Block /\ p \in Chain[pindexBest] \cup vConnect(p)
    BY ChainType DEF vConnect
  <2>3. Chain[pindexBest] \subseteq Connected
    BY ConnectedChain DEF ConnectedInv
  <2>4. \A b \in Block : "SCRIPTS" \in nStatus'[b]
                            <=> b \in vConnect(p) \/ "SCRIPTS" \in nStatus[b]
    BY <1>0, <2>1 DEF ConnectBlocks
  <2>5. \A b \in Block : \/ pnext'[b] \in {pnext[b], Null}
                         \/ pnext'[b] \in vConnect(p) /\ Prev[pnext'[b]] = b
    BY <2>1 DEF Relink
  <2> QED
    BY <1>0, <2>1, <2>2, <2>3, <2>4, <2>5, ConnectParents, ConnectGrows
<1>7. ASSUME NEW c \in Block, NEW f \in Block, FailBestCandidate(c, f)
      PROVE  ConnectedInv'
  BY <1>0, <1>7, <1>b DEF FailBestCandidate, MarkFailedChildren
<1>8. ASSUME NEW p \in Block, NEW f \in Block, FailOnInvalidBlock(p, f) \/ FailOnError(p, f)
      PROVE  ConnectedInv'
  <2> DEFINE status == ConnectBlocks(ConnectedBefore(f, p), nStatus, nStatus)
  <2>4. /\ IsFirstUnconnectable(f, p) /\ UNCHANGED chainVars
        /\ nStatus' \in {status, InvalidBlockFound(status, f)}
    BY <1>8 DEF FailOnInvalidBlock, FailOnError
  <2>5. /\ status \in [Block -> SUBSET Flag]
        /\ \A b \in Block : "SCRIPTS" \in status[b]
                               <=> b \in ConnectedBefore(f, p) \/ "SCRIPTS" \in nStatus[b]
    BY <1>0, ConnectBlocksType DEF ConnectBlocks
  <2> HIDE DEF status
  <2>1. \A b \in Block : "SCRIPTS" \in nStatus'[b]
                            <=> b \in ConnectedBefore(f, p) \/ "SCRIPTS" \in nStatus[b]
    BY <2>4, <2>5 DEF InvalidBlockFound
  <2>2. ConnectedBefore(f, p) \in SUBSET Block
    BY ChainType DEF ConnectedBefore, vConnect
  <2>3. \A b \in ConnectedBefore(f, p) :
           /\ ConnectResult[b] = "ok"
           /\ Prev[b] # Null => Prev[b] \in Connected \cup ConnectedBefore(f, p)
    BY <2>4, ConnectBefore
  <2> QED
    BY <1>0, <2>1, <2>2, <2>3, <2>4, ConnectGrows DEF chainVars
<1>9. CASE Restart
  <2>1. /\ nStatus' = [b \in Block |-> IF b \in onDisk THEN diskStatus[b] ELSE {}]
        /\ pindexBest' \in {coinsBest, pindexBest} /\ coinsBest' = pindexBest'
        /\ pnext' = pnext
    BY <1>9 DEF Restart, TipsOnDisk
  <2> QED
    BY <1>0, <2>1, <1>a DEF ScriptsInv
<1>10. CASE UNCHANGED <<indexVars, chainVars>>
  BY <1>10, <1>b DEF indexVars
<1>11. ASSUME NEW b \in Block, ChooseBestCandidate(b)
       PROVE  UNCHANGED <<indexVars, chainVars>>
  BY <1>11 DEF ChooseBestCandidate
<1> QED
  BY <1>1, <1>2, <1>3, <1>4, <1>5, <1>6, <1>7, <1>8, <1>9, <1>10, <1>11, IndexMoves,
     QuietMoves

\* The genesis block is known and recorded from the start.
LEMMA IndexInit ==
  ASSUME Init
  PROVE  IndexInv /\ ScriptsInv /\ ConnectedInv
<1> USE TreeAssumption
<1>1. Connected = {Genesis}
  BY DEF Init, Connected
<1> QED
  BY <1>1 DEF Init, IndexInv, ScriptsInv, ConnectedInv, ClosedUnderPrev

\* Every block of the best chain was connected by ConnectBlock, for every tree of blocks:
\* those below the blocks that ConnectBestBlock lists too, and after a restart as well,
\* in the middle of a reorganisation or from coins that were flushed long before, for the
\* record of a block is written with its flag.
THEOREM BestChainIsConnected == Spec => []BestChainConnected
<1> DEFINE Inv == TypeOK /\ ControlInv /\ IndexInv /\ ScriptsInv /\ ConnectedInv
<1>1. Init => Inv
  BY TypeInit, IndexInit
<1>2. Inv /\ [Next]_vars => Inv'
  BY TypeStep, IndexStep, ScriptsStep, ConnectedStep
<1>3. Inv => BestChainConnected
  <2> SUFFICES ASSUME Inv
               PROVE  BestChainConnected
    OBVIOUS
  <2>1. Chain[pindexBest] \subseteq Connected
    BY ConnectedChain DEF ConnectedInv
  <2> QED
    BY <2>1 DEF BestChainConnected, ConnectedInv, Connected
<1> QED
  BY <1>1, <1>2, <1>3, PTL DEF Spec

--------------------------------------------------------------------------------

\* The walk of ConnectBestBlock down from a candidate meets every block that was never
\* connected: it stops at a block with a successor, and that one was connected with all
\* the blocks below it.
LEMMA WalkMeets ==
  ASSUME TypeOK, ConnectedInv, NEW c \in Block, NEW x \in Chain[c], x \notin Connected
  PROVE  x \in Ancestry(c)
<1> SUFFICES ASSUME NEW y \in Chain[c], x \in Chain[y], y # x, pnext[y] # Null
             PROVE  FALSE
  BY DEF Ancestry
<1>1. y \in Block
  BY ChainType
<1>2. Prev[pnext[y]] = y /\ pnext[y] \in Connected
  BY <1>1 DEF ConnectedInv
<1>3. y \in Connected
  BY <1>1, <1>2, TreeAssumption DEF ConnectedInv, ClosedUnderPrev
<1> QED
  BY <1>3, ConnectedChain

\* A block with more trust than the tip is not in the best chain.
LEMMA MoreTrustedOffChain ==
  ASSUME TypeOK, NEW x \in Block, nChainTrust[x] > nChainTrust[pindexBest]
  PROVE  x \notin Chain[pindexBest]
  BY ChainTrust, TrustRecursion DEF TypeOK

\* The blocks to attach have more trust than the tip, which moves up as they are attached;
\* of the blocks below them with more trust than the tip none is left out, save those that
\* were connected before the node lost its tip.
AttachInv ==
    pc = "attach" =>
        \A a \in vAttach :
            /\ nChainTrust[a] > nChainTrust[pindexBest]
            /\ \A x \in Chain[a] :
                  nChainTrust[x] > nChainTrust[pindexBest] => x \in vAttach \cup Connected

\* A block that SetBestChain attaches has more trust than the tip, and less than those
\* that come after it.
LEMMA AttachStep ==
  ASSUME TypeOK, ConnectedInv, AttachInv, [Next]_vars
  PROVE  AttachInv'
<1> USE DEF TypeOK
<1>1. ASSUME NEW c \in Block, ChooseBestCandidate(c)
      PROVE  AttachInv'
  <2>1. vAttach' = {a \in Ancestry(c) : nChainTrust[a] > nChainTrust[pindexBest]}
        /\ pindexBest' = pindexBest /\ Connected' = Connected
    BY <1>1 DEF ChooseBestCandidate, chainVars, indexVars, Connected
  <2>2. ASSUME NEW a \in Ancestry(c), NEW x \in Chain[a],
               nChainTrust[x] > nChainTrust[pindexBest]
        PROVE  x \in vAttach' \cup Connected
    <3>1. a \in Chain[c]
      BY DEF Ancestry
    <3>2. x \in Chain[c] /\ x \in Block
      BY <3>1, ChainOfAncestor, ChainType
    <3> QED
      BY <2>1, <2>2, <3>2, WalkMeets
  <2> QED
    BY <2>1, <2>2 DEF AttachInv
<1>2. ASSUME NEW p \in Block, SetBestChain(p)
      PROVE  AttachInv'
  <2>1. /\ pc = "attach" /\ p \in vAttach /\ \A b \in vAttach : p \in Chain[b]
        /\ pindexBest' = p /\ vAttach' = vAttach \ {p}
        /\ nStatus' = ConnectBlocks(vConnect(p), nStatus, nStatus)
    BY <1>2 DEF SetBestChain, IsNextAttached
  <2>2. nChainTrust[p] > nChainTrust[pindexBest] /\ Connected \subseteq Connected'
    BY <2>1 DEF AttachInv, Connected, ConnectBlocks
  <2>3. ASSUME NEW a \in vAttach \ {p}
        PROVE  nChainTrust[a] > nChainTrust[p]
    BY <2>1, AncestorLessTrusted, TrustRecursion
  <2>4. ASSUME NEW a \in vAttach, NEW x \in Chain[a], nChainTrust[x] > nChainTrust[p]
        PROVE  x \in (vAttach \ {p}) \cup Connected
    <3>1. x \in Block
      BY ChainType
    <3>2. nChainTrust[x] > nChainTrust[pindexBest]
      BY <2>2, <2>4, <3>1, TrustRecursion
    <3> QED
      BY <3>1, <3>2, <2>1, <2>4, TrustRecursion DEF AttachInv
  <2> QED
    BY <2>1, <2>2, <2>3, <2>4 DEF AttachInv
<1>3. CASE UNCHANGED <<indexVars, chainVars, vAttach>> /\ (pc' = "attach" => pc = "attach")
  BY <1>3 DEF AttachInv, chainVars, indexVars, Connected
<1>4. CASE UNCHANGED vars
  BY <1>3, <1>4 DEF vars, callVars
<1> QED
  BY <1>1, <1>2, <1>3, <1>4, IndexMoves
     DEF AttachInv, CancelBestBlock, LeaveBestBlock, ReacceptIndexedParent,
         RefuseIndexedBlock, AddToBlockIndex, FailBestCandidate, FailOnInvalidBlock,
         FailOnError, Restart, NothingToConnect, AllAttached, ReturnToStartup

--------------------------------------------------------------------------------

\* The links that SetBestChain leaves follow the chain of the new tip, if they followed
\* that of the old one.
LEMMA RelinkLinks ==
  ASSUME TypeOK, IsLinkedTo(pindexBest), NEW p \in Block, pnext' = Relink(p)
  PROVE  IsLinkedTo(p)'
<1> USE TreeAssumption
<1> SUFFICES ASSUME NEW b \in Block
             PROVE  \/ pnext'[b] # Null /\ Prev[pnext'[b]] = b /\ pnext'[b] \in Chain[p]
                    \/ pnext'[b] = Null /\ \A n \in Chain[p] : Prev[n] # b
  BY DEF IsLinkedTo
<1>1. Chain[p] \subseteq Block /\ Chain[pindexBest] \subseteq Block /\ pindexBest \in Block
  BY ChainType DEF TypeOK
<1>2. CASE \E n \in vConnect(p) : Prev[n] = b
  BY <1>1, <1>2 DEF Relink, vConnect
<1>3. CASE /\ ~\E n \in vConnect(p) : Prev[n] = b
           /\ \E n \in vDisconnect(p) : Prev[n] = b
  <2>1. pnext'[b] = Null
    BY <1>3 DEF Relink
  <2>2. PICK m \in vDisconnect(p) : Prev[m] = b
    BY <1>3
  <2>3. ASSUME NEW n \in Chain[p], Prev[n] = b
        PROVE  FALSE
    <3>1. n \in Chain[pindexBest]
      BY <1>3, <2>3 DEF vConnect
    <3>2. m \in Chain[pindexBest] /\ m \notin Chain[p]
      BY DEF vDisconnect
    <3> QED
      BY <3>1, <3>2, <2>2, <2>3, <1>1, OneChild
  <2> QED
    BY <2>1, <2>3
<1>4. CASE /\ ~\E n \in vConnect(p) : Prev[n] = b
           /\ ~\E n \in vDisconnect(p) : Prev[n] = b
  <2>1. pnext'[b] = pnext[b]
    BY <1>4 DEF Relink
  <2> QED
    BY <2>1, <1>4 DEF IsLinkedTo, vConnect, vDisconnect
<1> QED
  BY <1>2, <1>3, <1>4

\* While the node goes back up to a tip that it lost, the links stay those of that tip.
LEMMA RelinkBack ==
  ASSUME TypeOK, NEW t \in Block, IsLinkedTo(t), NEW p \in Chain[t],
         p \notin Chain[pindexBest], pnext' = Relink(p)
  PROVE  IsLinkedTo(t)'
<1> USE TreeAssumption
<1> SUFFICES ASSUME NEW b \in Block
             PROVE  \/ pnext'[b] # Null /\ Prev[pnext'[b]] = b /\ pnext'[b] \in Chain[t]
                    \/ pnext'[b] = Null /\ \A n \in Chain[t] : Prev[n] # b
  BY DEF IsLinkedTo
<1>1. /\ p \in Block /\ Chain[p] \subseteq Chain[t] /\ Chain[t] \subseteq Block
      /\ Chain[pindexBest] \subseteq Block /\ pindexBest \in Block
  BY ChainType, ChainOfAncestor DEF TypeOK
<1>2. CASE \E n \in vConnect(p) : Prev[n] = b
  BY <1>1, <1>2 DEF Relink, vConnect
<1>3. CASE /\ ~\E n \in vConnect(p) : Prev[n] = b
           /\ \E n \in vDisconnect(p) : Prev[n] = b
  <2>1. pnext'[b] = Null
    BY <1>3 DEF Relink
  <2>2. PICK m \in vDisconnect(p) : Prev[m] = b
    BY <1>3
  <2>3. m \in Chain[pindexBest] /\ m \notin Chain[p] /\ m \in Block /\ m # Genesis
    BY <1>1, <2>2 DEF vDisconnect
  <2>4. b \in Chain[pindexBest]
    BY <2>2, <2>3, <1>1, ChainUnfold, ChainType, ChainOfAncestor
  <2>5. ASSUME NEW n \in Chain[t], Prev[n] = b
        PROVE  FALSE
    <3>1. CASE n \in Chain[p]
      <4>1. n \in Chain[pindexBest]
        BY <1>3, <2>5, <3>1 DEF vConnect
      <4> QED
        BY <4>1, <2>2, <2>3, <2>5, <3>1, <1>1, OneChild
    <3>2. CASE n \notin Chain[p]
      <4>1. p \in Chain[n] /\ p # n /\ n \in Block
        BY <3>2, <1>1, ChainLinear, ChainType
      <4>2. p \in Chain[b]
        BY <4>1, <2>5, AncestorLower
      <4> QED
        BY <4>2, <2>4, <1>1, ChainOfAncestor
    <3> QED
      BY <3>1, <3>2
  <2> QED
    BY <2>1, <2>5
<1>4. CASE /\ ~\E n \in vConnect(p) : Prev[n] = b
           /\ ~\E n \in vDisconnect(p) : Prev[n] = b
  <2>1. pnext'[b] = pnext[b]
    BY <1>4 DEF Relink
  <2> QED
    BY <2>1 DEF IsLinkedTo
<1> QED
  BY <1>2, <1>3, <1>4

\* Leaving a block for its parent unlinks it.
LEMMA LeaveLinks ==
  ASSUME TypeOK, NEW q \in Block, q # Genesis, IsLinkedTo(q),
         pnext' = [pnext EXCEPT ![Prev[q]] = Null]
  PROVE  IsLinkedTo(Prev[q])'
<1> USE TreeAssumption
<1>1. Prev[q] \in Block /\ Chain[q] = {q} \cup Chain[Prev[q]] /\ q \notin Chain[Prev[q]]
  BY ChainUnfold, NotOwnAncestor
<1>2. pnext \in [Block -> Block \cup {Null}]
  BY DEF TypeOK
<1> SUFFICES ASSUME NEW a \in Block
             PROVE  \/ /\ pnext'[a] # Null
                       /\ Prev[pnext'[a]] = a
                       /\ pnext'[a] \in Chain[Prev[q]]
                    \/ pnext'[a] = Null /\ \A n \in Chain[Prev[q]] : Prev[n] # a
  BY DEF IsLinkedTo
<1>3. CASE a = Prev[q]
  <2>1. pnext'[a] = Null
    BY <1>3, <1>2
  <2>2. ASSUME NEW n \in Chain[Prev[q]], Prev[n] = a
        PROVE  FALSE
    BY <1>1, <1>3, <2>2, OneChild
  <2> QED
    BY <2>1, <2>2
<1>4. CASE a # Prev[q]
  <2>1. pnext'[a] = pnext[a]
    BY <1>4, <1>2
  <2> QED
    BY <2>1, <1>1, <1>4 DEF IsLinkedTo
<1> QED
  BY <1>3, <1>4

\* Only SetBestChain, also when it goes back from a cancelled block, and a restart move
\* the tip.
LEMMA TipMoves ==
  ASSUME [Next]_vars
  PROVE  \/ \E b \in Block : SetBestChain(b)
         \/ LeaveBestBlock
         \/ Restart
         \/ UNCHANGED <<chainVars, nRestarts>>
  BY DEF Next, Handle, vars, ReceiveBlock, CancelBestBlock, NoDuplicateParent,
         ReacceptIndexedParent, ReacceptStoredParent, RefuseStoredParent, HoldOrphan,
         DropOrphan, StoreBlock, RefuseBlock, RefuseIndexedBlock, AddToBlockIndex,
         NothingToConnect, AllAttached, ChooseBestCandidate, FailBestCandidate,
         FailOnInvalidBlock, FailOnError, ReturnToStartup, ReturnToCancel, ReturnToParent,
         ReturnToBlock, ReturnToOrphans, AcceptOrphan, NextInWorkQueue, BlockProcessed

\* The successors are those of linkedTip, which is the tip until the node is restarted.
LinkedInv ==
    /\ linkedTip # Null => IsLinkedTo(linkedTip)
    /\ nRestarts = 0 => linkedTip = pindexBest

\* Every step keeps them so.
LEMMA LinkedStep ==
  ASSUME TypeOK, ControlInv, AttachInv, LinkedInv, [Next]_vars
  PROVE  LinkedInv'
<1> USE TreeAssumption
<1>0. pindexBest \in Block /\ linkedTip \in Block \cup {Null} /\ nRestarts \in Nat
  BY RestartAssumption DEF TypeOK
<1>1. ASSUME NEW p \in Block, SetBestChain(p)
      PROVE  LinkedInv'
  <2>1. pnext' = Relink(p) /\ pindexBest' = p /\ linkedTip' = LinkedAfter(p)
        /\ nRestarts' = nRestarts
    BY <1>1 DEF SetBestChain
  <2>2. p \notin Chain[pindexBest]
    BY <1>1, MoreTrustedOffChain DEF SetBestChain, IsNextAttached, AttachInv
  <2>3. CASE linkedTip = pindexBest
    <3>1. IsLinkedTo(pindexBest)
      BY <1>0, <2>3 DEF LinkedInv
    <3>2. IsLinkedTo(p)'
      BY <2>1, <3>1, RelinkLinks
    <3> QED
      BY <2>1, <2>3, <3>2 DEF LinkedInv, LinkedAfter
  <2>4. CASE linkedTip # pindexBest /\ linkedTip # Null /\ p \in Chain[linkedTip]
    <3>1. IsLinkedTo(linkedTip) /\ linkedTip' = linkedTip /\ nRestarts # 0
      BY <2>1, <2>4 DEF LinkedInv, LinkedAfter
    <3>2. PICK t \in Block : t = linkedTip
      BY <1>0, <2>4
    <3>3. IsLinkedTo(t)'
      BY <2>1, <2>2, <2>4, <3>1, <3>2, RelinkBack
    <3> QED
      BY <2>1, <3>1, <3>2, <3>3 DEF LinkedInv, IsLinkedTo
  <2>5. CASE linkedTip # pindexBest /\ ~(linkedTip # Null /\ p \in Chain[linkedTip])
    BY <2>1, <2>5 DEF LinkedInv, LinkedAfter
  <2> QED
    BY <2>3, <2>4, <2>5
<1>2. CASE LeaveBestBlock
  <2>1. PICK q \in Block : q = pindexBest
    BY <1>0
  <2>2. /\ q # Genesis /\ pnext' = [pnext EXCEPT ![Prev[q]] = Null]
        /\ pindexBest' = Prev[q] /\ nRestarts' = nRestarts
        /\ linkedTip' = IF linkedTip = q THEN Prev[q] ELSE Null
    BY <1>2, <2>1 DEF LeaveBestBlock, ControlInv
  <2>3. CASE linkedTip = q
    <3>1. IsLinkedTo(q)
      BY <1>0, <2>1, <2>3 DEF LinkedInv
    <3>2. IsLinkedTo(Prev[q])'
      BY <2>2, <3>1, LeaveLinks
    <3> QED
      BY <2>2, <2>3, <3>2 DEF LinkedInv, IsLinkedTo
  <2>4. CASE linkedTip # q
    BY <2>1, <2>2, <2>4 DEF LinkedInv
  <2> QED
    BY <2>3, <2>4
<1>3. CASE Restart
  BY <1>0, <1>3 DEF Restart, LinkedInv, IsLinkedTo
<1>4. CASE UNCHANGED <<chainVars, nRestarts>>
  BY <1>4 DEF chainVars, LinkedInv, IsLinkedTo
<1> QED
  BY <1>1, <1>2, <1>3, <1>4, TipMoves

\* The links are those of the genesis block at the start.
LEMMA LinkedInit ==
  ASSUME Init
  PROVE  LinkedInv /\ AttachInv
  BY TreeAssumption, ChainOfGenesis DEF Init, LinkedInv, IsLinkedTo, AttachInv

\* The successor of a tip that follows its own links is unset.
LEMMA TipUnlinked ==
  ASSUME TypeOK, IsLinkedTo(pindexBest)
  PROVE  pnext[pindexBest] = Null
<1>1. pindexBest \in Block
  BY DEF TypeOK
<1> SUFFICES ASSUME NEW n \in Chain[pindexBest], Prev[n] = pindexBest
             PROVE  FALSE
  BY <1>1 DEF IsLinkedTo
<1>2. n \in Block /\ n # Genesis
  BY <1>1, ChainType, TreeAssumption
<1> QED
  BY <1>1, <1>2, ChainHeight, HeightRecursion

\* The tip that is given up, outside a node that was restarted, is the one that was
\* cancelled.
CancelInv ==
    /\ pc = "cancel" =>
          \/ caller = "cancel" /\ nRestarts > 0
          \/ /\ mapDuplicateStakeBlocks[pindexBest] = "index"
             /\ "FAILED_VALID" \in diskStatus[pindexBest]
    /\ pc \in {"connect", "attach", "return"} /\ caller = "cancel" => nRestarts > 0

\* InvalidBlockFound calls ConnectBestBlock in the middle of a cancellation only while
\* the links are those of a tip that was lost.
LEMMA CancelStep ==
  ASSUME TypeOK, ControlInv, LinkedInv, CancelInv, [Next]_vars
  PROVE  CancelInv'
<1>0. pindexBest \in Block /\ nRestarts \in Nat
  BY RestartAssumption DEF TypeOK
<1>1. ASSUME NEW b \in Block, CancelBestBlock(b)
      PROVE  CancelInv'
  <2>1. /\ mapDuplicateStakeBlocks'[pindexBest] = "index"
        /\ "FAILED_VALID" \in diskStatus'[pindexBest]
        /\ UNCHANGED <<pindexBest, nRestarts>>
    BY <1>1, <1>0 DEF CancelBestBlock, Cancelled, InvalidBlockFound, chainVars, TypeOK
  <2>2. CASE pnext[pindexBest] = Null
    BY <1>1, <2>1, <2>2 DEF CancelBestBlock, CancelInv
  <2>3. CASE pnext[pindexBest] # Null
    <3>1. linkedTip # pindexBest
      <4> SUFFICES ASSUME linkedTip = pindexBest
                   PROVE  FALSE
        OBVIOUS
      <4>1. IsLinkedTo(pindexBest)
        BY <1>0, TreeAssumption DEF LinkedInv
      <4> QED
        BY <2>3, <4>1, TipUnlinked
    <3>2. nRestarts > 0
      BY <1>0, <3>1 DEF LinkedInv
    <3> QED
      BY <1>1, <2>1, <2>3, <3>2 DEF CancelBestBlock, CancelInv
  <2> QED
    BY <2>2, <2>3
<1>2. CASE RefuseBlock \/ RefuseIndexedBlock \/ AddToBlockIndex
  BY <1>2 DEF RefuseBlock, RefuseIndexedBlock, AddToBlockIndex, ControlInv, CancelInv,
              callVars
<1>3. CASE Restart
  BY <1>3 DEF Restart, CancelInv
<1>4. ASSUME NEW b \in Block, NEW f \in Block,
             \/ ChooseBestCandidate(b) \/ SetBestChain(b) \/ FailBestCandidate(b, f)
             \/ FailOnInvalidBlock(b, f) \/ FailOnError(b, f)
             \/ NothingToConnect \/ AllAttached
      PROVE  CancelInv'
  <2>1. /\ pc \in {"connect", "attach"} /\ pc' \in {"connect", "attach", "return"}
        /\ UNCHANGED <<caller, nRestarts>>
    BY <1>4 DEF ChooseBestCandidate, SetBestChain, FailBestCandidate, FailOnInvalidBlock,
                FailOnError, NothingToConnect, AllAttached, callVars
  <2> QED
    BY <2>1 DEF CancelInv
<1>5. CASE ReturnToCancel
  BY <1>5 DEF ReturnToCancel, CancelInv, callVars
<1>6. ASSUME NEW b \in Block,
             \/ ReceiveBlock(b) \/ LeaveBestBlock \/ NoDuplicateParent
             \/ ReacceptIndexedParent \/ ReacceptStoredParent \/ RefuseStoredParent
             \/ HoldOrphan \/ DropOrphan \/ StoreBlock \/ ReturnToStartup \/ ReturnToParent
             \/ ReturnToBlock \/ ReturnToOrphans \/ AcceptOrphan(b) \/ NextInWorkQueue
             \/ BlockProcessed
      PROVE  CancelInv'
  <2>1. pc' \notin {"cancel", "connect", "attach", "return"}
    BY <1>6 DEF ReceiveBlock, LeaveBestBlock, NoDuplicateParent, ReacceptIndexedParent,
         ReacceptStoredParent, RefuseStoredParent, HoldOrphan, DropOrphan, StoreBlock,
         ReturnToStartup, ReturnToParent, ReturnToBlock, ReturnToOrphans, AcceptOrphan,
         NextInWorkQueue, BlockProcessed
  <2> QED
    BY <2>1 DEF CancelInv
<1>7. CASE UNCHANGED vars
  BY <1>7 DEF vars, chainVars, callVars, diskVars, CancelInv
<1> QED
  BY <1>0, <1>1, <1>2, <1>3, <1>4, <1>5, <1>6, <1>7 DEF Next, Handle

\* The part of the invariants that says where the tip and its links may be.
TipInv ==
    /\ TypeOK /\ ControlInv
    /\ IndexInv /\ ScriptsInv /\ ConnectedInv
    /\ AttachInv /\ LinkedInv /\ CancelInv

\* It holds at the start, and every step keeps it.
LEMMA TipInvInit == Init => TipInv
<1>1. Init => CancelInv
  BY DEF Init, CancelInv
<1> QED
  BY <1>1, TypeInit, IndexInit, LinkedInit DEF TipInv

\* Each part is kept by the parts it rests on.
LEMMA TipInvStep == TipInv /\ [Next]_vars => TipInv'
  BY TypeStep, IndexStep, ScriptsStep, ConnectedStep, AttachStep, LinkedStep, CancelStep
     DEF TipInv

\* pnext links the blocks of the best chain, all of them and no others, for every tree
\* of blocks: reorganisations, cancelled blocks and connections that fail half way leave
\* no link into a branch that was left.  After a stop that lost tips the links are again
\* those of the best chain once the node is back at the last tip it had.
THEOREM BestChainIsLinked == Spec => []BestChainLinked
<1>1. TipInv => BestChainLinked
  BY TreeAssumption DEF TipInv, LinkedInv, BestChainLinked, TypeOK
<1> QED
  BY <1>1, TipInvInit, TipInvStep, PTL DEF Spec

\* While the node runs the tip gives way to a block of less trust only when it is
\* cancelled for a duplicate of its stake, for every tree of blocks: ConnectBestBlock
\* never passes SetBestChain a block with less trust than the tip, wherever its list was
\* cut short before.  A stop brings the tip back to the block at which the coins were
\* last flushed, and to no other.
THEOREM TrustLossNeedsADuplicate == Spec => TrustLostOnlyByCancelling
<1> DEFINE Step == \/ nChainTrust[pindexBest'] >= nChainTrust[pindexBest]
                   \/ /\ pindexBest' = Prev[pindexBest]
                      /\ \/ /\ mapDuplicateStakeBlocks[pindexBest] = "index"
                            /\ "FAILED_VALID" \in diskStatus[pindexBest]
                         \/ nRestarts > 0 /\ caller = "cancel"
                   \/ nRestarts' > nRestarts /\ pindexBest' = coinsBest
<1>1. TipInv /\ [Next]_vars => [Step]_vars
  <2> SUFFICES ASSUME TipInv, [Next]_vars
               PROVE  Step
    OBVIOUS
  <2> USE DEF TipInv, TypeOK
  <2>1. CASE LeaveBestBlock
    BY <2>1 DEF LeaveBestBlock, CancelInv
  <2>2. ASSUME NEW b \in Block, SetBestChain(b)
        PROVE  Step
    BY <2>2, TrustRecursion DEF SetBestChain, IsNextAttached, AttachInv
  <2>3. CASE UNCHANGED chainVars
    BY <2>3, TrustRecursion DEF chainVars
  <2>4. CASE Restart
    <3>1. /\ pindexBest' \in {coinsBest, pindexBest} /\ nRestarts' = nRestarts + 1
          /\ nRestarts \in Nat
      BY <2>4, RestartAssumption DEF Restart, TipsOnDisk
    <3>2. nChainTrust[pindexBest] \in Nat
      BY TrustRecursion
    <3> QED
      BY <3>1, <3>2
  <2> QED
    BY <2>1, <2>2, <2>3, <2>4, TipMoves
<1> QED
  BY <1>1, TipInvInit, TipInvStep, PTL DEF Spec, TrustLostOnlyByCancelling

--------------------------------------------------------------------------------

\* No two blocks of the tree stake one coin.
UniqueStakes ==
    \A a, b \in Block : StakeOf[a] = StakeOf[b] /\ StakeOf[a] # Null => a = b

\* ConnectBlock refuses no block with an error that it does not count as invalid.
NoPlainErrors == \A b \in Block : ConnectResult[b] # "error"

\* Without duplicate stakes no block is ever set aside or cancelled.
NothingSetAside ==
    UniqueStakes =>
        /\ \A b \in Block : mapDuplicateStakeBlocks[b] = "absent"
        /\ pc # "cancel" /\ caller # "cancel"

\* Without duplicate stakes memory and disk agree on which blocks failed.
FailuresRecorded ==
    UniqueStakes =>
        \A b \in Block : IF b \in onDisk
                         THEN Failed(b) <=> diskStatus[b] \cap FAILED_MASK # {}
                         ELSE ~Failed(b)

\* Without duplicate stakes the best block is not cancelled.
LEMMA NotCancelled ==
  ASSUME TipInv, UniqueStakes, NEW b \in Block
  PROVE  ~CancelBestBlock(b)
<1>1. pindexBest \in mapBlockIndex /\ pindexBest \in Block
  BY ConnectedOnDisk DEF TipInv, ConnectedInv, IndexInv, TypeOK
<1> QED
  BY <1>1 DEF CancelBestBlock, IsNew, ReusesBestStake, IsProofOfStake, UniqueStakes

\* Blocks are set aside only when one of them cancels the best block.
LEMMA NothingSetAsideStep ==
  ASSUME TipInv, NothingSetAside, [Next]_vars
  PROVE  NothingSetAside'
<1> SUFFICES ASSUME UniqueStakes
             PROVE  /\ \A b \in Block : mapDuplicateStakeBlocks'[b] = "absent"
                    /\ pc' # "cancel" /\ caller' # "cancel"
  BY DEF NothingSetAside
<1>0. /\ \A b \in Block : mapDuplicateStakeBlocks[b] = "absent"
      /\ pc # "cancel" /\ caller # "cancel"
  BY DEF NothingSetAside
<1> USE DEF callVars
<1>1. CASE ReacceptIndexedParent
  BY <1>0, <1>1 DEF ReacceptIndexedParent, TipInv, TypeOK
<1>2. CASE HoldOrphan \/ DropOrphan \/ StoreBlock
  BY <1>0, <1>2 DEF HoldOrphan, DropOrphan, StoreBlock, CleanUpOldDuplicateStakeBlocks
<1>3. CASE ReturnToParent
  BY <1>0, <1>3 DEF ReturnToParent, TipInv, TypeOK, ControlInv
<1>4. CASE Restart
  BY <1>4 DEF Restart
<1>5. CASE LeaveBestBlock \/ ReturnToCancel
  BY <1>0, <1>5 DEF LeaveBestBlock, ReturnToCancel
<1>6. CASE UNCHANGED vars
  BY <1>0, <1>6 DEF vars
<1>7. ASSUME NEW b \in Block,
             \/ ReceiveBlock(b) \/ NoDuplicateParent \/ ReacceptStoredParent
             \/ RefuseStoredParent \/ RefuseBlock \/ RefuseIndexedBlock \/ AddToBlockIndex
             \/ NothingToConnect \/ AllAttached \/ ChooseBestCandidate(b) \/ SetBestChain(b)
             \/ ReturnToStartup \/ ReturnToBlock \/ ReturnToOrphans \/ AcceptOrphan(b)
             \/ NextInWorkQueue \/ BlockProcessed
      PROVE  /\ \A x \in Block : mapDuplicateStakeBlocks'[x] = "absent"
             /\ pc' # "cancel" /\ caller' # "cancel"
  BY <1>0, <1>7
     DEF ReceiveBlock, NoDuplicateParent, ReacceptStoredParent,
         RefuseStoredParent, RefuseBlock, RefuseIndexedBlock, AddToBlockIndex,
         NothingToConnect, AllAttached, ChooseBestCandidate, SetBestChain, ReturnToStartup,
         ReturnToBlock, ReturnToOrphans, AcceptOrphan, NextInWorkQueue, BlockProcessed
<1>8. ASSUME NEW b \in Block, NEW f \in Block,
             FailBestCandidate(b, f) \/ FailOnInvalidBlock(b, f) \/ FailOnError(b, f)
      PROVE  /\ \A x \in Block : mapDuplicateStakeBlocks'[x] = "absent"
             /\ pc' # "cancel" /\ caller' # "cancel"
  BY <1>0, <1>8 DEF FailBestCandidate, FailOnInvalidBlock, FailOnError
<1> QED
  BY <1>0, <1>1, <1>2, <1>3, <1>4, <1>5, <1>6, <1>7, <1>8, NotCancelled, TreeAssumption
     DEF Next, Handle

\* A failure is recorded in the step that finds it.
LEMMA FailuresRecordedStep ==
  ASSUME TipInv, NothingSetAside, FailuresRecorded, [Next]_vars
  PROVE  FailuresRecorded'
<1> DEFINE Recorded(x) == IF x \in onDisk
                          THEN Failed(x) <=> diskStatus[x] \cap FAILED_MASK # {}
                          ELSE ~Failed(x)
<1> SUFFICES ASSUME UniqueStakes, NEW x \in Block
             PROVE  Recorded(x)'
  BY DEF FailuresRecorded
<1>0. Recorded(x)
  BY DEF FailuresRecorded
<1>a. onDisk \subseteq mapBlockIndex /\ TypeOK /\ ControlInv
  BY DEF IndexInv, TipInv
<1>b. CASE x \in onDisk' /\ diskStatus'[x] = nStatus'[x]
  BY <1>b DEF Failed
<1>c. CASE /\ x \in onDisk <=> x \in onDisk'
           /\ diskStatus'[x] = diskStatus[x] /\ nStatus'[x] = nStatus[x]
  BY <1>c, <1>0 DEF Failed
<1> USE TreeAssumption DEF TypeOK
<1>1. CASE ReacceptIndexedParent
  BY <1>a, <1>1 DEF ReacceptIndexedParent, NothingSetAside
<1>2. CASE RefuseIndexedBlock
  BY <1>0, <1>a, <1>2 DEF RefuseIndexedBlock, ControlInv, diskVars, Failed
<1>3. CASE AddToBlockIndex
  BY <1>a, <1>b, <1>c, <1>3 DEF AddToBlockIndex, ControlInv
<1>4. ASSUME NEW b \in Block, SetBestChain(b)
      PROVE  Recorded(x)'
  BY <1>a, <1>b, <1>c, <1>4 DEF SetBestChain, ConnectBlocks, FirstConnected
<1>5. ASSUME NEW b \in Block, NEW f \in Block, FailBestCandidate(b, f)
      PROVE  Recorded(x)'
  BY <1>a, <1>b, <1>c, <1>5 DEF FailBestCandidate, MarkFailedChildren
<1>6. ASSUME NEW b \in Block, NEW f \in Block, FailOnInvalidBlock(b, f)
      PROVE  Recorded(x)'
  <2> DEFINE S == ConnectedBefore(f, b)
  <2>1. /\ nStatus' = InvalidBlockFound(ConnectBlocks(S, nStatus, nStatus), f)
        /\ onDisk' = onDisk \cup FirstConnected(S) \cup {f}
        /\ diskStatus' = [ConnectBlocks(S, nStatus, diskStatus) EXCEPT ![f] = nStatus'[f]]
    BY <1>6 DEF FailOnInvalidBlock
  <2> HIDE DEF S
  <2>2. CASE x = f
    BY <1>b, <2>1, <2>2 DEF ConnectBlocks
  <2>3. CASE x # f /\ x \in S /\ "SCRIPTS" \notin nStatus[x]
    BY <1>b, <2>1, <2>3 DEF InvalidBlockFound, ConnectBlocks, FirstConnected
  <2>4. CASE x # f /\ ~(x \in S /\ "SCRIPTS" \notin nStatus[x])
    BY <1>c, <2>1, <2>4 DEF InvalidBlockFound, ConnectBlocks, FirstConnected
  <2> QED
    BY <2>2, <2>3, <2>4
<1>7. ASSUME NEW b \in Block, NEW f \in Block, FailOnError(b, f)
      PROVE  Recorded(x)'
  BY <1>a, <1>b, <1>c, <1>7 DEF FailOnError, ConnectBlocks, FirstConnected
<1>8. CASE Restart
  BY <1>a, <1>8 DEF Restart, diskVars, FAILED_MASK, Failed
<1>9. CASE UNCHANGED <<indexVars, diskVars>>
  BY <1>c, <1>9 DEF indexVars, diskVars
<1>10. ASSUME NEW b \in Block, ChooseBestCandidate(b) \/ LeaveBestBlock
       PROVE  UNCHANGED <<indexVars, diskVars>>
  BY <1>10 DEF ChooseBestCandidate, LeaveBestBlock
<1> HIDE DEF Recorded
<1> QED
  BY <1>1, <1>2, <1>3, <1>4, <1>5, <1>6, <1>7, <1>8, <1>9, <1>10, NotCancelled,
     IndexMoves, QuietMoves

\* The walk of ConnectBestBlock down from a candidate meets every block that is not in
\* the best chain, as long as the links are those of the best chain.
LEMMA OffChainAncestry ==
  ASSUME TypeOK, IsLinkedTo(pindexBest), NEW c \in Block, NEW x \in Chain[c],
         x \notin Chain[pindexBest]
  PROVE  x \in Ancestry(c)
<1> SUFFICES ASSUME NEW y \in Chain[c], x \in Chain[y], y # x, pnext[y] # Null
             PROVE  FALSE
  BY DEF Ancestry
<1>1. y \in Block /\ pindexBest \in Block
  BY ChainType DEF TypeOK
<1>2. Prev[pnext[y]] = y /\ pnext[y] \in Chain[pindexBest]
  BY <1>1 DEF IsLinkedTo
<1>3. pnext[y] \in Block /\ pnext[y] # Genesis
  BY <1>1, <1>2, ChainType, TreeAssumption
<1>4. y \in Chain[pnext[y]]
  BY <1>2, <1>3, ChainUnfold, ChainType
<1>5. y \in Chain[pindexBest]
  BY <1>1, <1>2, <1>4, ChainOfAncestor
<1> QED
  BY <1>1, <1>5, ChainOfAncestor

\* Unless the node was restarted and stakes are duplicated, no block of the best chain
\* has failed, save the tip that is being cancelled, and none of those to attach or below
\* them.  Without duplicate stakes no block that was ever connected has.
UnfailedInv ==
    /\ nRestarts = 0 \/ UniqueStakes =>
          /\ \A b \in Chain[pindexBest] : Failed(b) => pc = "cancel" /\ b = pindexBest
          /\ pc = "attach" => \A a \in vAttach : \A x \in Chain[a] : ~Failed(x)
    /\ UniqueStakes => \A b \in Connected : ~Failed(b)

\* The part about what was ever connected.
LEMMA ConnectedUnfailedStep ==
  ASSUME TipInv, NothingSetAside, FailuresRecorded, UnfailedInv, UniqueStakes, [Next]_vars
  PROVE  \A b \in Connected' : ~Failed(b)'
<1> USE TreeAssumption DEF Failed
<1>0. /\ \A b \in Connected : ~Failed(b) /\ b \in Block
      /\ pc = "attach" => \A a \in vAttach : \A x \in Chain[a] : ~Failed(x)
      /\ nStatus \in [Block -> SUBSET Flag] /\ vAttach \subseteq Block
  BY DEF UnfailedInv, Connected, TipInv, TypeOK
<1> SUFFICES ASSUME NEW b \in Connected', b \in Block
             PROVE  nStatus'[b] \cap FAILED_MASK = {}
  BY DEF Connected
<1>1. CASE ReacceptIndexedParent \/ RefuseIndexedBlock \/ AddToBlockIndex
  BY <1>0, <1>1 DEF ReacceptIndexedParent, RefuseIndexedBlock, AddToBlockIndex, Connected,
                    TipInv, ControlInv
<1>2. ASSUME NEW p \in Block, SetBestChain(p)
      PROVE  nStatus'[b] \cap FAILED_MASK = {}
  BY <1>0, <1>2
     DEF SetBestChain, IsNextAttached, ConnectBlocks, Connected, vConnect, FAILED_MASK
<1>3. ASSUME NEW c \in Block, NEW f \in Block, FailBestCandidate(c, f)
      PROVE  nStatus'[b] \cap FAILED_MASK = {}
  <2>1. f \in Chain[c] /\ Failed(f) /\ nStatus' = MarkFailedChildren(c, f, nStatus)
    BY <1>3 DEF FailBestCandidate, IsFirstFailed, Ancestry
  <2>2. b \in Connected
    BY <2>1, <1>0 DEF Connected, MarkFailedChildren
  <2>3. f \notin Chain[b]
    BY <1>0, <2>1, <2>2, ConnectedChain DEF TipInv
  <2>4. b \notin FailedDescendants(c, f)
    BY <2>1, <2>3, ChainLinear DEF FailedDescendants
  <2> QED
    BY <1>0, <2>1, <2>2, <2>4 DEF MarkFailedChildren
<1>4. ASSUME NEW p \in Block, NEW f \in Block, FailOnInvalidBlock(p, f)
      PROVE  nStatus'[b] \cap FAILED_MASK = {}
  <2>1. /\ nStatus' = InvalidBlockFound(
                         ConnectBlocks(ConnectedBefore(f, p), nStatus, nStatus), f)
        /\ pc = "attach" /\ p \in vAttach /\ ConnectResult[f] # "ok"
    BY <1>4 DEF FailOnInvalidBlock, IsNextAttached
  <2>2. b # f
    <3>1. ConnectedInv'
      BY TypeStep, ConnectedStep DEF TipInv
    <3> QED
      BY <2>1, <3>1, VerdictAssumption DEF ConnectedInv
  <2> QED
    BY <1>0, <2>1, <2>2 DEF InvalidBlockFound, ConnectBlocks, ConnectedBefore, vConnect,
                            Connected, FAILED_MASK
<1>5. ASSUME NEW p \in Block, NEW f \in Block, FailOnError(p, f)
      PROVE  nStatus'[b] \cap FAILED_MASK = {}
  BY <1>0, <1>5 DEF FailOnError, IsNextAttached, ConnectBlocks, ConnectedBefore, vConnect,
                    Connected, FAILED_MASK
<1>6. CASE Restart
  <2>1. b \in Connected
    BY <1>6 DEF Restart, Connected, TipInv, ScriptsInv
  <2>2. diskStatus[b] \cap FAILED_MASK = {}
    BY <1>0, <2>1, ConnectedOnDisk DEF FailuresRecorded, TipInv
  <2> QED
    BY <1>6, <2>2 DEF Restart, FAILED_MASK
<1>7. CASE UNCHANGED indexVars
  BY <1>0, <1>7 DEF indexVars, Connected
<1>8. ASSUME NEW c \in Block, ChooseBestCandidate(c) \/ LeaveBestBlock
      PROVE  UNCHANGED indexVars
  BY <1>8 DEF ChooseBestCandidate, LeaveBestBlock
<1> QED
  BY <1>1, <1>2, <1>3, <1>4, <1>5, <1>6, <1>7, <1>8, NotCancelled, IndexMoves, QuietMoves

\* No step marks a block of the best chain as failed, or attaches one that is.
LEMMA UnfailedStep ==
  ASSUME TipInv, NothingSetAside, FailuresRecorded, UnfailedInv, [Next]_vars
  PROVE  UnfailedInv'
<1> DEFINE Sound == /\ \A b \in Chain[pindexBest] :
                          Failed(b) => pc = "cancel" /\ b = pindexBest
                    /\ pc = "attach" => \A a \in vAttach : \A x \in Chain[a] : ~Failed(x)
<1>z. UniqueStakes => \A b \in Connected' : ~Failed(b)'
  BY ConnectedUnfailedStep
<1> SUFFICES ASSUME nRestarts' = 0 \/ UniqueStakes
             PROVE  Sound'
  BY <1>z DEF UnfailedInv
<1>0. nRestarts = 0 \/ UniqueStakes => Sound
  BY DEF UnfailedInv
<1>a. /\ Chain[pindexBest] \subseteq Block /\ vAttach \subseteq Block /\ pindexBest \in Block
      /\ nStatus \in [Block -> SUBSET Flag] /\ ControlInv /\ nRestarts \in Nat
  BY ChainType, RestartAssumption DEF TipInv, TypeOK
<1>b. ~Restart => nRestarts' = nRestarts
  <2>1. CASE UNCHANGED <<indexVars, chainVars, diskVars, vAttach, nRestarts>>
    BY <2>1
  <2> QED
    BY <2>1, IndexMoves, QuietMoves
       DEF CancelBestBlock, LeaveBestBlock, ReacceptIndexedParent, RefuseIndexedBlock,
           AddToBlockIndex, ChooseBestCandidate, SetBestChain, FailBestCandidate,
           FailOnInvalidBlock, FailOnError
<1>c. nRestarts = 0 => linkedTip = pindexBest /\ IsLinkedTo(pindexBest)
  BY TreeAssumption DEF TipInv, TypeOK, LinkedInv
<1>d. ~Restart => Sound
  BY <1>0, <1>b
<1> USE DEF Failed
<1>1. ASSUME NEW b \in Block, CancelBestBlock(b), Sound, nRestarts = 0
      PROVE  Sound'
  <2>1. pnext[pindexBest] = Null
    BY <1>1, <1>c, TipUnlinked DEF TipInv
  <2>2. /\ pc = "idle" /\ pc' = "cancel" /\ pindexBest' = pindexBest
        /\ nStatus' = InvalidBlockFound(nStatus, pindexBest)
    BY <1>1, <2>1 DEF CancelBestBlock, Cancelled, chainVars
  <2> QED
    BY <1>1, <1>a, <2>2 DEF InvalidBlockFound
<1>2. CASE ReacceptIndexedParent /\ Sound
  BY <1>2, <1>a DEF ReacceptIndexedParent, ControlInv, chainVars
<1>3. CASE (RefuseIndexedBlock \/ AddToBlockIndex) /\ Sound
  BY <1>3, <1>a DEF RefuseIndexedBlock, AddToBlockIndex, ControlInv, chainVars
<1>4. ASSUME NEW c \in Block, ChooseBestCandidate(c), Sound
      PROVE  Sound'
  <2>1. ASSUME NEW a \in Ancestry(c), NEW x \in Chain[a]
        PROVE  ~Failed(x)
    <3>1. x \in Chain[c] /\ pc = "connect" /\ ~\E y \in Ancestry(c) : Failed(y)
      BY <1>4, ChainOfAncestor DEF Ancestry, ChooseBestCandidate, HasFailedAncestry
    <3>2. CASE nRestarts = 0
      BY <3>1, <3>2, <1>4, <1>c, OffChainAncestry DEF TipInv
    <3>3. CASE UniqueStakes
      BY <3>1, <3>3, WalkMeets DEF TipInv, UnfailedInv
    <3>4. nRestarts' = nRestarts
      BY <1>4 DEF ChooseBestCandidate
    <3> QED
      BY <3>2, <3>3, <3>4
  <2> QED
    BY <1>4, <2>1 DEF ChooseBestCandidate, indexVars, chainVars
<1>5. ASSUME NEW p \in Block, SetBestChain(p), Sound
      PROVE  Sound'
  <2>1. \A x \in Block : Failed(x)' => Failed(x)
    BY <1>5 DEF SetBestChain, ConnectBlocks, FAILED_MASK
  <2>2. pc = "attach" /\ p \in vAttach /\ vAttach' \subseteq vAttach /\ pindexBest' = p
    BY <1>5 DEF SetBestChain, IsNextAttached
  <2> QED
    BY <1>5, <1>a, <2>1, <2>2, ChainType
<1>6. ASSUME NEW c \in Block, NEW f \in Block, FailBestCandidate(c, f), Sound
      PROVE  Sound'
  <2>1. f \in Chain[c] /\ Failed(f) /\ pc = "connect" /\ pc' = "connect"
    BY <1>6 DEF FailBestCandidate, IsFirstFailed, Ancestry
  <2>2. ASSUME NEW x \in FailedDescendants(c, f)
        PROVE  x \notin Chain[pindexBest]
    <3>1. x \in Block /\ f \in Chain[x]
      BY <2>1, ChainLinear, ChainType DEF FailedDescendants
    <3> QED
      BY <3>1, <2>1, <1>6, <1>a, ChainOfAncestor
  <2> QED
    BY <1>6, <1>a, <2>1, <2>2 DEF FailBestCandidate, MarkFailedChildren, chainVars
<1>7. ASSUME NEW p \in Block, NEW f \in Block, FailOnInvalidBlock(p, f), Sound
      PROVE  Sound'
  <2>1. \A x \in Block \ {f} : Failed(x)' => Failed(x)
    BY <1>7 DEF FailOnInvalidBlock, InvalidBlockFound, ConnectBlocks, FAILED_MASK
  <2>2. f \notin Chain[pindexBest] /\ pc = "attach" /\ pc' = "return"
    BY <1>7 DEF FailOnInvalidBlock, IsFirstUnconnectable, vConnect
  <2> QED
    BY <1>7, <1>a, <2>1, <2>2 DEF FailOnInvalidBlock, chainVars
<1>8. ASSUME NEW p \in Block, NEW f \in Block, FailOnError(p, f), Sound
      PROVE  Sound'
  <2>1. \A x \in Block : Failed(x)' => Failed(x)
    BY <1>8 DEF FailOnError, ConnectBlocks, FAILED_MASK
  <2> QED
    BY <1>8, <1>a, <2>1 DEF FailOnError, chainVars
<1>9. CASE Restart
  <2>1. UniqueStakes /\ pc' = "connect"
    BY <1>9, <1>a DEF Restart
  <2>2. TypeOK' /\ ConnectedInv'
    BY TypeStep, ConnectedStep DEF TipInv
  <2>3. Chain[pindexBest'] \subseteq Connected'
    BY <2>2, TreeAssumption, ChainInClosed DEF ConnectedInv, Connected
  <2> QED
    BY <1>z, <2>1, <2>3
<1>10. CASE LeaveBestBlock /\ Sound
  <2>1. pindexBest # Genesis /\ pindexBest' = Prev[pindexBest] /\ nStatus' = nStatus
        /\ pc' = "idle"
    BY <1>10, <1>a DEF LeaveBestBlock, ControlInv, indexVars
  <2>2. /\ Chain[Prev[pindexBest]] \subseteq Chain[pindexBest]
        /\ pindexBest \notin Chain[Prev[pindexBest]]
    BY <1>a, <2>1, ChainUnfold, NotOwnAncestor
  <2> QED
    BY <1>10, <2>1, <2>2
<1>11. CASE /\ UNCHANGED <<indexVars, chainVars, vAttach>>
            /\ pc # "cancel" /\ (pc' = "attach" => pc = "attach") /\ Sound
  BY <1>11 DEF indexVars, chainVars
<1>12. CASE (NothingToConnect \/ AllAttached \/ ReturnToStartup) /\ Sound
  <2>1. pc # "cancel" /\ pc' # "attach"
    BY <1>12 DEF NothingToConnect, AllAttached, ReturnToStartup
  <2> QED
    BY <1>11, <1>12, <2>1, QuietMoves
<1>13. CASE UNCHANGED vars /\ Sound
  BY <1>13 DEF vars, indexVars, chainVars, callVars
<1>14. ASSUME NEW b \in Block, CancelBestBlock(b)
       PROVE  nRestarts = 0
  BY <1>14, NotCancelled DEF CancelBestBlock
<1>15. CASE /\ UNCHANGED <<indexVars, chainVars, diskVars, vAttach, nRestarts>>
            /\ {pc, pc'} \cap {"connect", "attach"} = {}
            /\ pc \notin {"cancel", "stopped"}
            /\ Sound
  BY <1>11, <1>15
<1> HIDE DEF Sound
<1> QED
  BY <1>1, <1>2, <1>3, <1>4, <1>5, <1>6, <1>7, <1>8, <1>9, <1>10, <1>12, <1>13, <1>14,
     <1>15, <1>d, IndexMoves

\* The invariant behind the three theorems that follow.
ChainInv == TipInv /\ NothingSetAside /\ FailuresRecorded /\ UnfailedInv

\* It holds at the start.
LEMMA ChainInvInit == Init => ChainInv
<1> SUFFICES ASSUME Init
             PROVE  ChainInv
  OBVIOUS
<1>1. \A b \in Block : ~Failed(b)
  BY DEF Init, Failed
<1>2. NothingSetAside
  BY DEF Init, NothingSetAside
<1>3. FailuresRecorded
  BY <1>1, TreeAssumption DEF Init, FailuresRecorded
<1>4. UnfailedInv
  BY <1>1, ChainType, TreeAssumption DEF Init, UnfailedInv, Connected
<1> QED
  BY <1>2, <1>3, <1>4, TipInvInit DEF ChainInv

\* And every step keeps it.
LEMMA ChainInvStep == ChainInv /\ [Next]_vars => ChainInv'
  BY TipInvStep, NothingSetAsideStep, FailuresRecordedStep, UnfailedStep DEF ChainInv

\* While the node runs the best chain holds no failed block between messages, for every
\* tree of blocks and every pattern of duplicate stakes: a cancelled block comes back only
\* once its flag was cleared, and a failure is never marked below a block of the best
\* chain.
THEOREM RunningChainNotFailed == Spec => []FailedOnlyByRestart
<1>1. ChainInv => FailedOnlyByRestart
  BY DEF ChainInv, UnfailedInv, FailedOnlyByRestart, BestChainNotFailed
<1> QED
  BY <1>1, ChainInvInit, ChainInvStep, PTL DEF Spec

\* Without duplicate stakes a restart changes nothing of that: the flags that
\* LoadBlockIndexDB reads are those the node had in memory.
THEOREM ChainNotFailed ==
  ASSUME UniqueStakes
  PROVE  Spec => []BestChainNotFailed
<1>1. ChainInv => BestChainNotFailed
  BY DEF ChainInv, UnfailedInv, BestChainNotFailed
<1> QED
  BY <1>1, ChainInvInit, ChainInvStep, PTL DEF Spec

--------------------------------------------------------------------------------

\* Every recorded block with more trust than the tip, save those of E, has a failed block
\* on its way to the best chain.
Settled(E) ==
    \A x \in onDisk \ E :
        nChainTrust[x] > nChainTrust[pindexBest] =>
            \E b \in Chain[x] \ Chain[pindexBest] : Failed(b)

\* What is undecided, and only while ConnectBestBlock runs or after a start that failed:
\* candidates that it has yet to look at, of which there is one unless the node is
\* starting; or blocks with no more trust than those it is attaching.
SettledInv ==
    UniqueStakes /\ NoPlainErrors =>
        /\ \/ pc \in {"connect", "attach", "stopped"}
           \/ pc = "return" /\ caller = "startup" /\ ~result
           \/ Settled({})
        /\ pc = "connect" => \/ caller = "startup" /\ Settled(setBlockIndexValid)
                             \/ \E e \in Block : Settled({e} \cap setBlockIndexValid)
        /\ pc = "attach" =>
              \/ /\ caller = "startup"
                 /\ Settled({x \in Block :
                               \E a \in vAttach : nChainTrust[a] >= nChainTrust[x]})
              \/ \E e \in Block : Settled({e} \cap vAttach)

\* What is settled stays settled when the tip stays, no failure is forgotten and no block
\* is recorded.
LEMMA StaysSettled ==
  ASSUME NEW E, NEW D, Settled(E), pindexBest' = pindexBest,
         \A x \in Block : Failed(x) => Failed(x)',
         onDisk \subseteq Block, onDisk' \ D \subseteq onDisk \ E
  PROVE  Settled(D)'
<1> SUFFICES ASSUME NEW x \in onDisk' \ D, nChainTrust[x] > nChainTrust[pindexBest]
             PROVE  \E b \in Chain[x] \ Chain[pindexBest] : Failed(b)'
  BY DEF Settled
<1>1. x \in onDisk \ E /\ x \in Block
  OBVIOUS
<1>2. PICK b \in Chain[x] \ Chain[pindexBest] : Failed(b)
  BY <1>1 DEF Settled
<1>3. b \in Block
  BY <1>1, ChainType
<1> QED
  BY <1>2, <1>3

\* A better block has no less trust.
LEMMA BetterTrusted ==
  ASSUME NEW a \in Block, NEW b \in Block, Better(a, b)
  PROVE  nChainTrust[a] >= nChainTrust[b]
  BY TrustRecursion DEF Better

\* The candidate that ConnectBestBlock goes on with is one of the undecided blocks, and no
\* other has more trust.
LEMMA ChooseSettles ==
  ASSUME ChainInv, UniqueStakes, NEW c \in Block, ChooseBestCandidate(c)
  PROVE  /\ Settled(setBlockIndexValid) =>
               Settled({x \in Block : \E a \in vAttach : nChainTrust[a] >= nChainTrust[x]})'
         /\ \A e \in Block :
               Settled({e} \cap setBlockIndexValid) => Settled({e} \cap vAttach)'
<1> USE DEF TypeOK, TipInv, ChainInv
<1>0. /\ vAttach' = {a \in Ancestry(c) : nChainTrust[a] > nChainTrust[pindexBest]}
      /\ UNCHANGED <<onDisk, pindexBest, nStatus>>
      /\ c \in setBlockIndexValid /\ \A b \in setBlockIndexValid \ {c} : Better(c, b)
      /\ ~\E f \in Ancestry(c) : Failed(f)
  BY DEF ChooseBestCandidate, IsCandidateToTry, IsBestCandidate, indexVars, chainVars,
         diskVars, HasFailedAncestry
<1>1. setBlockIndexValid \subseteq onDisk /\ onDisk \subseteq Block
  BY DEF IndexInv
<1>2. c \in Ancestry(c)
  <2> SUFFICES ASSUME NEW x \in Chain[c], c \in Chain[x], x # c
               PROVE  FALSE
    BY ChainType DEF Ancestry
  <2>1. x \in Block /\ nHeight[x] < nHeight[c] /\ nHeight[c] <= nHeight[x]
    BY AncestorLower, ChainHeight, ChainType
  <2> QED
    BY <2>1, HeightRecursion
<1>3. \A x \in setBlockIndexValid : nChainTrust[c] >= nChainTrust[x]
  BY <1>0, BetterTrusted, TrustRecursion
<1>4. /\ nChainTrust \in [Block -> Nat] /\ pindexBest \in Block
  BY TrustRecursion
<1>5. ASSUME Settled(setBlockIndexValid)
      PROVE  Settled({x \in Block : \E a \in vAttach : nChainTrust[a] >= nChainTrust[x]})'
  <2> SUFFICES ASSUME NEW x \in onDisk,
                      ~\E a \in vAttach' : nChainTrust[a] >= nChainTrust[x],
                      nChainTrust[x] > nChainTrust[pindexBest]
               PROVE  \E b \in Chain[x] \ Chain[pindexBest] : Failed(b)
    BY <1>0, <1>1 DEF Settled, Failed
  <2>1. x \notin setBlockIndexValid
    BY <1>0, <1>1, <1>2, <1>3, <1>4
  <2> QED
    BY <1>5, <2>1 DEF Settled
<1>6. ASSUME NEW e \in Block, Settled({e} \cap setBlockIndexValid)
      PROVE  Settled({e} \cap vAttach)'
  <2> SUFFICES ASSUME NEW x \in onDisk, x \notin {e} \cap vAttach',
                      nChainTrust[x] > nChainTrust[pindexBest]
               PROVE  \E b \in Chain[x] \ Chain[pindexBest] : Failed(b)
    BY <1>0 DEF Settled, Failed
  <2>1. CASE x \notin {e} \cap setBlockIndexValid
    BY <1>6, <2>1 DEF Settled
  <2>2. CASE x = e /\ e \in setBlockIndexValid
    <3>1. nChainTrust[c] > nChainTrust[pindexBest]
      BY <1>1, <1>3, <1>4, <2>2
    <3>2. CASE c # e
      <4>1. PICK b \in Chain[c] \ Chain[pindexBest] : Failed(b)
        BY <1>0, <1>1, <1>6, <3>1, <3>2 DEF Settled
      <4>2. b \in Ancestry(c)
        BY <4>1, WalkMeets DEF UnfailedInv
      <4> QED
        BY <4>1, <4>2, <1>0
    <3>3. CASE c = e
      BY <1>0, <1>2, <2>2, <3>1, <3>3
    <3> QED
      BY <3>2, <3>3
  <2> QED
    BY <2>1, <2>2
<1> QED
  BY <1>5, <1>6

\* ConnectBestBlock ends when no undecided block has more trust than the tip.
LEMMA NothingLeftSettles ==
  ASSUME ChainInv, NEW E \in SUBSET setBlockIndexValid, Settled(E), NothingToConnect
  PROVE  Settled({})'
<1> USE DEF TypeOK, TipInv, ChainInv
<1>0. UNCHANGED <<onDisk, pindexBest, nStatus>>
  BY DEF NothingToConnect, indexVars, chainVars, diskVars
<1> SUFFICES ASSUME NEW x \in onDisk, nChainTrust[x] > nChainTrust[pindexBest]
             PROVE  \E b \in Chain[x] \ Chain[pindexBest] : Failed(b)
  BY <1>0 DEF Settled, Failed
<1>1. x \notin E
  <2> SUFFICES ASSUME x \in setBlockIndexValid
               PROVE  FALSE
    OBVIOUS
  <2>1. PICK c \in setBlockIndexValid :
              IsBestCandidate(c) /\ nChainTrust[c] = nChainTrust[pindexBest]
    BY DEF NothingToConnect
  <2>2. nChainTrust \in [Block -> Nat] /\ x \in Block /\ c \in Block
    BY TrustRecursion
  <2>3. nChainTrust[c] >= nChainTrust[x]
    BY <2>1, <2>2, BetterTrusted DEF IsBestCandidate
  <2> QED
    BY <2>1, <2>2, <2>3
<1> QED
  BY <1>1 DEF Settled

\* A candidate that is given up descends from a failed block.
LEMMA FailureSettles ==
  ASSUME ChainInv, UniqueStakes, NEW E, NEW c \in Block, NEW f \in Block,
         FailBestCandidate(c, f), Settled(E \cap setBlockIndexValid)
  PROVE  Settled(E \cap setBlockIndexValid)'
<1> USE DEF TypeOK, TipInv, ChainInv
<1>0. /\ onDisk' = onDisk \cup FailedDescendants(c, f) /\ pindexBest' = pindexBest
      /\ setBlockIndexValid' = setBlockIndexValid \ FailedDescendants(c, f)
      /\ f \in Chain[c] /\ Failed(f) /\ pc = "connect"
  BY DEF FailBestCandidate, chainVars, IsFirstFailed, Ancestry
<1>1. \A b \in Block : Failed(b) => Failed(b)'
  BY DEF FailBestCandidate, MarkFailedChildren, Failed
<1>2. f \notin Chain[pindexBest]
  BY <1>0 DEF UnfailedInv
<1> SUFFICES ASSUME NEW x \in onDisk', x \notin E \cap setBlockIndexValid',
                    nChainTrust[x] > nChainTrust[pindexBest]
             PROVE  \E b \in Chain[x] \ Chain[pindexBest] : Failed(b)'
  BY <1>0 DEF Settled
<1>3. CASE x \in FailedDescendants(c, f)
  <2>1. f \in Chain[x]
    BY <1>0, <1>3, ChainLinear DEF FailedDescendants
  <2> QED
    BY <2>1, <1>0, <1>1, <1>2
<1>4. CASE x \notin FailedDescendants(c, f)
  <2>1. x \in onDisk /\ x \notin E \cap setBlockIndexValid
    BY <1>0, <1>4
  <2>2. PICK b \in Chain[x] \ Chain[pindexBest] : Failed(b)
    BY <2>1 DEF Settled
  <2> QED
    BY <2>1, <2>2, <1>1, ChainType
<1> QED
  BY <1>3, <1>4

\* A block that is attached leaves less undecided.
LEMMA AttachSettles ==
  ASSUME ChainInv, UniqueStakes, NEW E, Settled(E), NEW p \in Block, SetBestChain(p)
  PROVE  Settled({x \in E : x \in Block => nChainTrust[x] > nChainTrust[p]})'
<1> USE DEF TypeOK, TipInv, ChainInv
<1>0. /\ pc = "attach" /\ p \in vAttach /\ pindexBest' = p
      /\ onDisk' = onDisk \cup FirstConnected(vConnect(p))
  BY DEF SetBestChain, IsNextAttached
<1>1. \A b \in Block : Failed(b) => Failed(b)'
  BY DEF SetBestChain, ConnectBlocks, Failed
<1>2. nChainTrust[p] > nChainTrust[pindexBest] /\ nChainTrust \in [Block -> Nat]
  BY <1>0, TrustRecursion DEF AttachInv
<1>3. \A x \in Chain[p] : ~Failed(x)
  BY <1>0 DEF UnfailedInv
<1> SUFFICES ASSUME NEW x \in onDisk', x \notin E, nChainTrust[x] > nChainTrust[p]
             PROVE  \E b \in Chain[x] \ Chain[p] : Failed(b)'
  <2>1. onDisk' \subseteq Block
    BY <1>0, ChainType DEF FirstConnected, vConnect
  <2> QED
    BY <1>0, <2>1 DEF Settled
<1>4. x \notin Chain[p]
  BY <1>2, ChainTrust, ChainType
<1>5. x \in onDisk
  BY <1>0, <1>4, ChainType DEF FirstConnected, vConnect
<1>6. nChainTrust[x] > nChainTrust[pindexBest]
  BY <1>2, <1>5
<1>7. PICK b \in Chain[x] \ Chain[pindexBest] : Failed(b)
  BY <1>5, <1>6 DEF Settled
<1>8. b \in Block
  BY <1>5, ChainType
<1> QED
  BY <1>1, <1>3, <1>7, <1>8

\* A block that does not connect settles all that were to be attached.
LEMMA InvalidSettles ==
  ASSUME ChainInv, UniqueStakes, NEW e \in Block, Settled({e} \cap vAttach),
         NEW p \in Block, NEW f \in Block, FailOnInvalidBlock(p, f)
  PROVE  Settled({})'
<1> USE DEF TypeOK, TipInv, ChainInv
<1>0. /\ pc = "attach" /\ p \in vAttach /\ \A b \in vAttach : p \in Chain[b]
      /\ pindexBest' = pindexBest
      /\ onDisk' = onDisk \cup FirstConnected(ConnectedBefore(f, p)) \cup {f}
      /\ f \in Chain[p] /\ f \notin Chain[pindexBest]
  BY DEF FailOnInvalidBlock, IsNextAttached, IsFirstUnconnectable, vConnect, chainVars
<1>1. /\ \A b \in Block : Failed(b) => Failed(b)'
      /\ Failed(f)'
  BY DEF FailOnInvalidBlock, InvalidBlockFound, ConnectBlocks, Failed, FAILED_MASK
<1> SUFFICES ASSUME NEW x \in onDisk', nChainTrust[x] > nChainTrust[pindexBest]
             PROVE  \E b \in Chain[x] \ Chain[pindexBest] : Failed(b)'
  BY <1>0 DEF Settled
<1>2. CASE x = f
  BY <1>2, <1>0, <1>1, ChainType
<1>3. CASE x \in vAttach
  <2>1. f \in Chain[x]
    BY <1>0, <1>3, ChainOfAncestor
  <2> QED
    BY <2>1, <1>0, <1>1
<1>4. CASE x \in FirstConnected(ConnectedBefore(f, p))
  <2>1. x \in Chain[p] /\ "SCRIPTS" \notin nStatus[x]
    BY <1>4 DEF FirstConnected, ConnectedBefore, vConnect
  <2>2. x \in vAttach \/ x = Genesis
    BY <2>1, <1>0 DEF AttachInv, Connected
  <2>3. x # Genesis
    BY GenesisLeastTrusted, <2>1, ChainType
  <2> QED
    BY <2>2, <2>3, <1>3
<1>5. CASE x \in onDisk /\ x \notin vAttach
  <2>1. PICK b \in Chain[x] \ Chain[pindexBest] : Failed(b)
    BY <1>5 DEF Settled
  <2> QED
    BY <2>1, <1>5, <1>1, ChainType
<1> QED
  BY <1>0, <1>2, <1>3, <1>4, <1>5

\* After a restart what is undecided is among the candidates, wherever the tip is: they
\* are the blocks that were read back without a failure.
LEMMA RestartSettles ==
  ASSUME ChainInv, Restart
  PROVE  Settled(setBlockIndexValid)'
<1> USE DEF TypeOK, TipInv, ChainInv
<1>0. /\ onDisk' = onDisk /\ pindexBest' \in Block
      /\ nStatus' = [b \in Block |-> IF b \in onDisk THEN diskStatus[b] ELSE {}]
      /\ setBlockIndexValid' = {b \in onDisk : diskStatus[b] \cap FAILED_MASK = {}}
  BY DEF Restart, TipsOnDisk, diskVars
<1> SUFFICES ASSUME NEW x \in onDisk, x \notin setBlockIndexValid',
                    nChainTrust[x] > nChainTrust[pindexBest']
             PROVE  \E b \in Chain[x] \ Chain[pindexBest'] : Failed(b)'
  BY <1>0 DEF Settled
<1>1. Failed(x)'
  BY <1>0 DEF Failed
<1>2. x \in Chain[x] /\ x \notin Chain[pindexBest']
  BY <1>0, ChainType, ChainTrust, TrustRecursion
<1> QED
  BY <1>1, <1>2

\* Every step settles what it should: nothing is left undecided once ConnectBestBlock is
\* done.
LEMMA SettledStep ==
  ASSUME ChainInv, SettledInv, [Next]_vars
  PROVE  SettledInv'
<1> DEFINE AtRest == \/ pc \in {"connect", "attach", "stopped"}
                     \/ pc = "return" /\ caller = "startup" /\ ~result
                     \/ Settled({})
           Connecting == pc = "connect" =>
                            \/ caller = "startup" /\ Settled(setBlockIndexValid)
                            \/ \E e \in Block : Settled({e} \cap setBlockIndexValid)
           Below == {x \in Block : \E a \in vAttach : nChainTrust[a] >= nChainTrust[x]}
           Attaching == pc = "attach" =>
                           \/ caller = "startup" /\ Settled(Below)
                           \/ \E e \in Block : Settled({e} \cap vAttach)
           Goal == AtRest' /\ Connecting' /\ Attaching'
<1> SUFFICES ASSUME UniqueStakes, NoPlainErrors
             PROVE  Goal
  BY DEF SettledInv
<1>0. AtRest /\ Connecting /\ Attaching
  BY DEF SettledInv
<1>a. /\ TypeOK /\ ControlInv /\ IndexInv /\ NothingSetAside /\ FailuresRecorded
      /\ AttachInv /\ nChainTrust \in [Block -> Nat] /\ vAttach \subseteq Block
  BY TrustRecursion DEF ChainInv, TipInv, TypeOK
<1>b. onDisk \subseteq Block /\ onDisk \subseteq mapBlockIndex
  BY <1>a DEF TypeOK, IndexInv
<1>c. \A b \in Block : Failed(b) => b \in onDisk
  BY <1>a DEF FailuresRecorded
<1>1. CASE ReacceptIndexedParent
  BY <1>1, <1>a DEF ReacceptIndexedParent, NothingSetAside, TypeOK
<1>2. CASE RefuseIndexedBlock
  <2>1. accepting \notin mapBlockIndex /\ nStatus' = [nStatus EXCEPT ![accepting] = {}]
        /\ UNCHANGED <<onDisk, pindexBest>> /\ pc = "accept" /\ pc' = "return"
    BY <1>2 DEF RefuseIndexedBlock, diskVars, chainVars
  <2>2. \A b \in Block : Failed(b) => Failed(b)'
    BY <2>1, <1>a, <1>b, <1>c DEF Failed, TypeOK
  <2>3. Settled({})'
    BY <1>0, <1>b, <2>1, <2>2, StaysSettled
  <2> QED
    BY <2>1, <2>3
<1>3. CASE AddToBlockIndex
  <2>1. /\ accepting \notin mapBlockIndex /\ nStatus' = [nStatus EXCEPT ![accepting] = {}]
        /\ onDisk' = onDisk \cup {accepting} /\ pindexBest' = pindexBest
        /\ setBlockIndexValid' = setBlockIndexValid \cup {accepting}
        /\ pc = "accept" /\ pc' = "connect" /\ accepting \in Block
    BY <1>3, <1>a DEF AddToBlockIndex, chainVars, ControlInv
  <2>2. \A b \in Block : Failed(b) => Failed(b)'
    BY <2>1, <1>a, <1>b, <1>c DEF Failed, TypeOK
  <2>3. PICK a \in Block : a = accepting
    BY <2>1
  <2>4. Settled({a})'
    BY <1>0, <1>b, <2>1, <2>2, <2>3, StaysSettled
  <2>5. \E e \in Block : Settled({e} \cap setBlockIndexValid)'
    BY <2>1, <2>3, <2>4 DEF Settled
  <2> QED
    BY <2>1, <2>5
<1>4. ASSUME NEW c \in Block, ChooseBestCandidate(c)
      PROVE  Goal
  <2>1. pc = "connect" /\ pc' = "attach" /\ caller' = caller
    BY <1>4 DEF ChooseBestCandidate
  <2>2. Settled(setBlockIndexValid) => Settled(Below)'
    BY <1>4, ChooseSettles
  <2>3. \A e \in Block : Settled({e} \cap setBlockIndexValid) => Settled({e} \cap vAttach)'
    BY <1>4, ChooseSettles
  <2> QED
    BY <2>1, <2>2, <2>3, <1>0
<1>5. ASSUME NEW p \in Block, SetBestChain(p)
      PROVE  Goal
  <2>1. /\ pc = "attach" /\ pc' = "attach" /\ caller' = caller
        /\ vAttach' = vAttach \ {p} /\ p \in vAttach
    BY <1>5 DEF SetBestChain, IsNextAttached
  <2>2. ASSUME Settled(Below)
        PROVE  Settled(Below)'
    <3>1. PICK D \in SUBSET Block : D = Below
      OBVIOUS
    <3>2. Settled({x \in D : x \in Block => nChainTrust[x] > nChainTrust[p]})'
      BY <1>5, <2>2, <3>1, AttachSettles
    <3>3. {x \in D : x \in Block => nChainTrust[x] > nChainTrust[p]} \subseteq Below'
      BY <1>a, <2>1, <3>1
    <3> QED
      BY <3>2, <3>3 DEF Settled
  <2>3. ASSUME NEW e \in Block, Settled({e} \cap vAttach)
        PROVE  Settled({e} \cap vAttach)'
    <3>1. PICK D \in SUBSET Block : D = {e} \cap vAttach
      OBVIOUS
    <3>2. Settled({x \in D : x \in Block => nChainTrust[x] > nChainTrust[p]})'
      BY <1>5, <2>3, <3>1, AttachSettles
    <3>3. {x \in D : x \in Block => nChainTrust[x] > nChainTrust[p]} \subseteq
             ({e} \cap vAttach)'
      BY <1>a, <2>1, <3>1
    <3> QED
      BY <3>2, <3>3 DEF Settled
  <2> QED
    BY <2>1, <2>2, <2>3, <1>0
<1>6. ASSUME NEW c \in Block, NEW f \in Block, FailBestCandidate(c, f)
      PROVE  Goal
  <2>1. pc = "connect" /\ pc' = "connect" /\ caller' = caller
    BY <1>6 DEF FailBestCandidate, callVars
  <2>2. ASSUME Settled(setBlockIndexValid)
        PROVE  Settled(setBlockIndexValid)'
    <3>1. Block \cap setBlockIndexValid = setBlockIndexValid
      BY <1>a DEF TypeOK
    <3>2. (Block \cap setBlockIndexValid)' = setBlockIndexValid'
      BY TypeStep DEF ChainInv, TipInv, TypeOK
    <3>3. Settled(Block \cap setBlockIndexValid)'
      BY <1>6, <2>2, <3>1, FailureSettles
    <3> QED
      BY <3>2, <3>3
  <2>3. \A e \in Block : Settled({e} \cap setBlockIndexValid)
                             => Settled({e} \cap setBlockIndexValid)'
    BY <1>6, FailureSettles
  <2> QED
    BY <2>1, <2>2, <2>3, <1>0
<1>7. ASSUME NEW p \in Block, NEW f \in Block, FailOnInvalidBlock(p, f)
      PROVE  Goal
  <2>1. pc = "attach" /\ pc' = "return" /\ caller' = caller /\ result' = FALSE
    BY <1>7 DEF FailOnInvalidBlock
  <2>2. \A e \in Block : Settled({e} \cap vAttach) => Settled({})'
    BY <1>7, InvalidSettles
  <2> QED
    BY <2>1, <2>2, <1>0
<1>8. ASSUME NEW p \in Block, NEW f \in Block, FailOnError(p, f)
      PROVE  FALSE
  BY <1>8 DEF FailOnError, NoPlainErrors
<1>9. CASE Restart
  BY <1>9, RestartSettles DEF Restart
<1>10. CASE NothingToConnect
  <2>1. pc = "connect" /\ pc' = "return"
    BY <1>10 DEF NothingToConnect
  <2>2. \E E \in SUBSET setBlockIndexValid : Settled(E)
    BY <2>1, <1>0
  <2>3. Settled({})'
    BY <1>10, <2>2, NothingLeftSettles
  <2> QED
    BY <2>1, <2>3
<1>11. CASE AllAttached
  <2>1. pc = "attach" /\ pc' = "return" /\ vAttach = {}
        /\ UNCHANGED <<onDisk, pindexBest, nStatus>>
    BY <1>11 DEF AllAttached, indexVars, chainVars, diskVars
  <2>2. Settled({})
    BY <2>1, <1>0 DEF Settled
  <2>3. Settled({})'
    BY <2>1, <2>2 DEF Settled, Failed
  <2> QED
    BY <2>1, <2>3
<1>12. CASE ReturnToStartup
  <2>1. /\ pc = "return" /\ caller = "startup" /\ pc' = IF result THEN "idle" ELSE "stopped"
        /\ UNCHANGED <<onDisk, pindexBest, nStatus>>
    BY <1>12 DEF ReturnToStartup, indexVars, chainVars, diskVars
  <2>2. Settled({}) => Settled({})'
    BY <2>1 DEF Settled, Failed
  <2> QED
    BY <2>1, <2>2, <1>0
<1>13. CASE UNCHANGED vars
  <2>1. UNCHANGED <<onDisk, pindexBest, nStatus, setBlockIndexValid, vAttach, pc, caller,
                    result>>
    BY <1>13 DEF vars, indexVars, chainVars, diskVars, callVars
  <2> QED
    BY <1>0, <2>1 DEF Settled, Failed
<1>14. CASE /\ UNCHANGED <<indexVars, chainVars, diskVars, vAttach, nRestarts>>
            /\ {pc, pc'} \cap {"connect", "attach"} = {}
            /\ pc \notin {"cancel", "stopped"}
            /\ pc = "return" => caller # "startup"
  <2>1. UNCHANGED <<onDisk, pindexBest, nStatus>>
    BY <1>14 DEF indexVars, chainVars, diskVars
  <2>2. Settled({})
    BY <1>0, <1>14
  <2>3. Settled({})'
    BY <2>1, <2>2 DEF Settled, Failed
  <2> QED
    BY <1>14, <2>3
<1>15. ~LeaveBestBlock
  BY <1>a DEF LeaveBestBlock, NothingSetAside
<1>16. ASSUME NEW b \in Block
       PROVE  ~CancelBestBlock(b)
  BY NotCancelled DEF ChainInv
<1> HIDE DEF Goal
<1> QED
  BY <1>1, <1>2, <1>3, <1>4, <1>5, <1>6, <1>7, <1>8, <1>9, <1>10, <1>11, <1>12, <1>13,
     <1>14, <1>15, <1>16, IndexMoves

\* In a tree without duplicate stakes and without plain errors of ConnectBlock, whatever
\* the order in which its blocks arrive, which of them are invalid, where the node is
\* stopped and how far back the coins on disk lead: once ConnectBestBlock is done, a
\* candidate with more trust than the tip descends from a failed block that is not in the
\* best chain.
THEOREM BestCandidateIsChosen ==
  ASSUME UniqueStakes, NoPlainErrors
  PROVE  Spec => []BestCandidateChosen
<1>1. Init => SettledInv
  <2>1. Init => Settled({})
    BY TreeAssumption, TrustRecursion DEF Init, Settled
  <2> QED
    BY <2>1 DEF Init, SettledInv
<1>2. ChainInv /\ SettledInv /\ [Next]_vars => SettledInv'
  BY SettledStep
<1>3. ChainInv /\ SettledInv => BestCandidateChosen
  <2> SUFFICES ASSUME ChainInv, SettledInv, pc = "idle"
               PROVE  BestCandidateChosen
    BY DEF BestCandidateChosen
  <2>1. Settled({}) /\ setBlockIndexValid \subseteq onDisk
    BY DEF SettledInv, ChainInv, TipInv, IndexInv
  <2> QED
    BY <2>1 DEF Settled, BestCandidateChosen
<1> QED
  BY <1>1, <1>2, <1>3, ChainInvInit, ChainInvStep, PTL DEF Spec

================================================================================
