------------------------------- MODULE BlockTree -------------------------------
(***************************************************************************)
(* The tree of the blocks a node may be sent.                              *)
(*                                                                         *)
(* A block is named by its hash, a natural number, so that the comparison  *)
(* of hashes which breaks ties between equally trusted blocks is <.        *)
(***************************************************************************)
EXTENDS Naturals, FiniteSets

CONSTANTS
    Block,          \* hashes of the blocks of the tree
    Genesis,        \* hashGenesisBlock
    Null,           \* no block: a null CBlockIndex*, or an absent entry
    Prev,           \* hashPrevBlock of each block, Null for Genesis
    BlockTrust      \* CBlockIndex::GetBlockTrust of each block

ASSUME TreeAssumption ==
    /\ Block \subseteq Nat
    /\ Genesis \in Block
    /\ Null \notin Block
    /\ Prev \in [Block -> Block \cup {Null}]
    /\ \A b \in Block : Prev[b] = Null <=> b = Genesis

ASSUME TrustAssumption == BlockTrust \in [Block -> Nat \ {0}]

\* A set of blocks that contains the parent of each of its members.
ClosedUnderPrev(S) == \A b \in S : Prev[b] # Null => Prev[b] \in S

\* The chain that ends in a block: the block, its parent and so on.
Chain == [b \in Block |->
            {a \in Block : \A S \in SUBSET Block :
                              b \in S /\ ClosedUnderPrev(S) => a \in S}]

\* pprev links form one tree, rooted in the genesis block.
ASSUME RootedAssumption ==
    \A b \in Block : Genesis \in Chain[b] /\ IsFiniteSet(Chain[b])

\* nHeight: one more than that of the parent.
nHeight[b \in Block] == IF Prev[b] = Null THEN 0 ELSE nHeight[Prev[b]] + 1

\* nChainTrust: the trust of a block on top of that of its parent.
nChainTrust[b \in Block] ==
    BlockTrust[b] + (IF Prev[b] = Null THEN 0 ELSE nChainTrust[Prev[b]])

================================================================================
