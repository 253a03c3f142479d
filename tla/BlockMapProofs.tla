----------------------------- MODULE BlockMapProofs -----------------------------
(***************************************************************************)
(* For every tree of blocks, kept height and number of searches: indexes   *)
(* that are held stay loaded, and BlockMap implements IndexMap.            *)
(***************************************************************************)
EXTENDS BlockMap, BlockTreeProofs

\* The links in memory are those in the database.  Of an index that survived a
\* rebuild that is known once a block was connected on top of it.
LinksInv ==
    \A h \in mapLoaded :
        h \notin leftover \/ (h \in BestChain /\ h # pindexBest)
           => pnext[h] = diskNext[h]

\* What the databases hold: the links are those of recorded blocks, and the tip that a
\* restart may go back to was recorded with its ancestors.
DiskInv ==
    /\ \A h \in Block : diskNext[h] # Null => h \in records
    /\ pindexBest # Null => Chain[coinsBest] \subseteq records
    /\ pindexBest = Null => coinsBest = Genesis

\* What is loaded, known, recorded and remembered.
ContentsInv ==
    /\ mapLoaded \subseteq setKnown \cup leftover
    /\ records \subseteq setKnown
    /\ BestChain \subseteq records
    /\ \A b \in Block \ mapLoaded :
          nLocks[b] = 0 /\ nDropped[b] = 0 /\ pnext[b] = Null
    /\ \A b \in Block \ (mapLoaded \cup leftover) :
          mapPrev[b] = IF b \in setKnown THEN Prev[b] ELSE Null

\* Who may hold what at each point.
HoldersInv ==
    /\ pindexGenesisBlock = IF pindexBest = Null THEN Null ELSE Genesis
    /\ pc \notin {"rescan", "rescancleanup"} => pindex = Null
    /\ pc = "rescan" => pindex # Null
    /\ pindex = Null => "scan" \notin freed
    /\ pindexPrev = Null => "mint" \notin freed
    /\ pindexPrev # Null /\ "mint" \notin freed => pindexPrev \in mapLoaded
    /\ pblockindexFBBHLast # Null /\ "last" \notin freed /\ Map!Linked
          => pblockindexFBBHLast \in BestChain
    /\ pblockindexFBBHLast # Null => pblockindexFBBHLast \in setKnown
    /\ \A b \in Block : nDropped[b] > 0 => b \in setDropped
    /\ pc = "starting" =>
          /\ pindexPrev = Null /\ pblockindexFBBHLast = Null
          /\ freed = {} /\ leftover = {}
          /\ \A b \in Block : nDropped[b] = 0

CacheInv ==
    /\ BlockMapTypeOK
    /\ LinksInv
    /\ DiskInv
    /\ ContentsInv
    /\ HoldersInv
    /\ HeldStaysLoaded

--------------------------------------------------------------------------------

\* A chain holds the parents of its blocks.
LEMMA ChainClosed ==
  ASSUME NEW b \in Block, NEW c \in Chain[b], c # Genesis
  PROVE  Prev[c] \in Block /\ Prev[c] \in Chain[b]
<1>1. c \in Block /\ Chain[c] \subseteq Chain[b]
  BY ChainOfAncestor
<1>2. Prev[c] \in Block /\ Chain[c] = {c} \cup Chain[Prev[c]]
  BY <1>1, ChainUnfold
<1> QED BY <1>1, <1>2, ChainType

\* A block of a chain that is not its end has a child in it.
LEMMA ChildExists ==
  ASSUME NEW b \in Block, NEW a \in Chain[b], a # b
  PROVE  \E c \in Chain[b] : Prev[c] = a
<1> SUFFICES ASSUME \A c \in Chain[b] : Prev[c] # a
             PROVE  FALSE
  OBVIOUS
<1> DEFINE S == Chain[b] \ {a}
<1>1. S \in SUBSET Block /\ b \in S
  BY ChainType
<1>2. ClosedUnderPrev(S)
  <2> SUFFICES ASSUME NEW x \in S, Prev[x] # Null
               PROVE  Prev[x] \in S
    BY DEF ClosedUnderPrev
  <2>1. x # Genesis
    BY <1>1, TreeAssumption
  <2> QED BY <2>1, ChainClosed
<1> HIDE DEF S
<1>3. Chain[b] \subseteq S
  BY <1>1, <1>2, ChainInClosed
<1> QED BY <1>3 DEF S

\* The successor of a block is its child in the chain.
LEMMA SuccessorIs ==
  ASSUME NEW t \in Block, NEW c \in Chain[t], NEW h \in Block, Prev[c] = h
  PROVE  Map!Successor(h, t) = c
<1>1. t # Null
  BY TreeAssumption
<1>2. \A x \in Chain[t] : Prev[x] = h => x = c
  BY OneChild
<1> QED BY <1>1, <1>2 DEF Map!Successor

\* A block without a child in the chain has no successor.
LEMMA SuccessorNone ==
  ASSUME NEW t, NEW h, t = Null \/ \A c \in Chain[t] : Prev[c] # h
  PROVE  Map!Successor(h, t) = Null
BY DEF Map!Successor

\* A successor is in the chain, and a child of its block.
LEMMA SuccessorInChain ==
  ASSUME NEW t \in Block, NEW h \in Block, Map!Successor(h, t) # Null
  PROVE  Map!Successor(h, t) \in Chain[t] /\ Prev[Map!Successor(h, t)] = h
BY DEF Map!Successor

\* SetBestChain links the blocks whose successor differs between the old chain and the
\* new, and leaves the others.
LEMMA RelinkedIs ==
  ASSUME NEW b \in Block, pindexBest \in Block \cup {Null}, NEW next, NEW h \in Block
  PROVE  Relinked(next, b)[h] = IF Map!Successor(h, b) # Map!Successor(h, pindexBest)
                                THEN Map!Successor(h, b) ELSE next[h]
<1>0. Null \notin Block
  BY TreeAssumption
<1>1. CASE \E c \in Chain[b] \ BestChain : Prev[c] = h
  <2> DEFINE c == CHOOSE c \in Chain[b] \ BestChain : Prev[c] = h
  <2>1. c \in Chain[b] /\ Prev[c] = h
    BY <1>1
  <2>2. Relinked(next, b)[h] = c
    BY <1>1 DEF Relinked
  <2>3. c \notin BestChain /\ c \in Block
    BY <1>1, ChainType
  <2> HIDE DEF c
  <2>4. Map!Successor(h, b) = c
    BY <2>1, SuccessorIs
  <2>5. Map!Successor(h, pindexBest) # c
    <3>1. CASE pindexBest = Null
      BY <3>1, <2>3, <1>0, SuccessorNone
    <3>2. CASE pindexBest \in Block
      BY <3>2, <2>3, <1>0, SuccessorInChain DEF BestChain
    <3> QED BY <3>1, <3>2
  <2> QED BY <2>2, <2>4, <2>5
<1>2. CASE /\ ~\E c \in Chain[b] \ BestChain : Prev[c] = h
           /\ \E c \in BestChain \ Chain[b] : Prev[c] = h
  <2>1. PICK c \in BestChain \ Chain[b] : Prev[c] = h
    BY <1>2
  <2>2. pindexBest \in Block /\ c \in Chain[pindexBest]
    BY <2>1 DEF BestChain
  <2>3. \A x \in Chain[b] : Prev[x] # h
    <3> SUFFICES ASSUME NEW x \in Chain[b], Prev[x] = h
                 PROVE  FALSE
      OBVIOUS
    <3>1. x \in Chain[pindexBest]
      BY <1>2, <2>2, TreeAssumption DEF BestChain
    <3>2. x = c
      BY <3>1, <2>1, <2>2, OneChild
    <3> QED BY <3>2, <2>1
  <2>4. Relinked(next, b)[h] = Null
    BY <1>2 DEF Relinked
  <2>5. Map!Successor(h, b) = Null
    BY <2>3, SuccessorNone
  <2>6. Map!Successor(h, pindexBest) = c /\ c # Null
    BY <2>1, <2>2, <1>0, ChainType, SuccessorIs
  <2> QED BY <2>4, <2>5, <2>6
<1>3. CASE /\ ~\E c \in Chain[b] \ BestChain : Prev[c] = h
           /\ ~\E c \in BestChain \ Chain[b] : Prev[c] = h
  <2>1. Relinked(next, b)[h] = next[h]
    BY <1>3 DEF Relinked
  <2>2. CASE \E c \in Chain[b] : Prev[c] = h
    <3>1. PICK c \in Chain[b] : Prev[c] = h
      BY <2>2
    <3>2. pindexBest \in Block /\ c \in Chain[pindexBest]
      BY <3>1, <1>3 DEF BestChain
    <3>3. Map!Successor(h, b) = c /\ Map!Successor(h, pindexBest) = c
      BY <3>1, <3>2, SuccessorIs
    <3> QED BY <3>3, <2>1
  <2>3. CASE \A c \in Chain[b] : Prev[c] # h
    <3>1. Map!Successor(h, b) = Null
      BY <2>3, SuccessorNone
    <3>2. pindexBest = Null \/ \A c \in Chain[pindexBest] : Prev[c] # h
      BY <2>3, <1>3 DEF BestChain
    <3>3. Map!Successor(h, pindexBest) = Null
      BY <3>2, SuccessorNone
    <3> QED BY <3>1, <3>3, <2>1
  <2> QED BY <2>2, <2>3
<1> QED BY <1>1, <1>2, <1>3

--------------------------------------------------------------------------------
(* What loading a set of indexes leaves.                                     *)

\* The links of an index in memory after BlockMap::load are those in the database.
LEMMA LoadLinks ==
  ASSUME BlockMapTypeOK, LinksInv, NEW S, NEW h \in Block, h \in mapLoaded \cup S,
         h \notin leftover \/ (h \in BestChain /\ h # pindexBest)
  PROVE  LinksLoaded(S)[h] = diskNext[h]
<1>1. CASE h \in mapLoaded
  BY <1>1 DEF LinksLoaded, LinksInv
<1>2. CASE h \notin mapLoaded
  BY <1>2 DEF LinksLoaded, LinksInv
<1> QED BY <1>1, <1>2

\* Indexes that BlockMap::load leaves out keep no links, and their parent is remembered.
LEMMA LoadRest ==
  ASSUME ContentsInv, NEW S, NEW h \in Block, h \notin mapLoaded \cup S
  PROVE  /\ LinksLoaded(S)[h] = Null
         /\ h \notin leftover =>
               PrevLoaded(S)[h] = IF h \in setKnown THEN Prev[h] ELSE Null
BY DEF LinksLoaded, PrevLoaded, ContentsInv

\* BlockMap::load keeps the types of links and parents.
LEMMA LoadType ==
  ASSUME BlockMapTypeOK, NEW S
  PROVE  /\ LinksLoaded(S) \in [Block -> Block \cup {Null}]
         /\ PrevLoaded(S) \in [Block -> Block \cup {Null}]
BY DEF LinksLoaded, PrevLoaded, BlockMapTypeOK

\* An index that is not loaded is held by nobody.
LEMMA UnloadedNotHeld ==
  ASSUME BlockMapTypeOK, HeldStaysLoaded, HoldersInv, NEW b \in Block, b \notin mapLoaded
  PROVE  Holders(b) = 0
<1>1. b # pindexBest /\ b # pindexGenesisBlock
  BY TreeAssumption DEF HeldStaysLoaded
<1>2. ~(b = pindex /\ "scan" \notin freed)
  BY TreeAssumption DEF HeldStaysLoaded
<1> QED BY <1>1, <1>2 DEF Holders

\* The links are those of the best chain as long as neither changes.
LEMMA LinkedSame ==
  ASSUME UNCHANGED <<diskNext, pindexBest>>
  PROVE  Map!Linked' <=> Map!Linked
BY DEF Map!Linked

--------------------------------------------------------------------------------
(* The invariant is kept by each action.                                     *)

\* AddToBlockIndex, whether it takes the block, refuses it or throws.
LEMMA InsertKeepsInv ==
  ASSUME CacheInv, NEW b \in Block, InsertIndex(b),
         records' \in {records, records \cup {b}},
         pc' \in {"idle", "connect", "cleanup"}
  PROVE  CacheInv'
<1> USE DEF CacheInv
<1> DEFINE S == {Prev[b]}
<1>1. /\ pc = "idle" /\ b \notin setKnown
      /\ setKnown' = setKnown \cup {b}
      /\ mapLoaded' = mapLoaded \cup {b} \cup (S \ {Null})
      /\ pnext' = LinksLoaded(S)
      /\ mapPrev' = PrevLoaded(S)
      /\ (Prev[b] # Null => Prev[b] \in setKnown)
      /\ Prev[b] \in Block \cup {Null}
      /\ UNCHANGED <<nLocks, diskNext, coinsBest, pindexBest, pindexGenesisBlock, pindex,
                     nCount, pindexPrev, pblockindexFBBHLast, freed, leftover, nDropped,
                     setDropped, nSearches, nRestarts>>
  BY TreeAssumption DEF InsertIndex, tipVars, scanVars, dropVars
<1>2. BestChain' = BestChain /\ b \notin BestChain /\ diskNext[b] = Null
  BY <1>1 DEF BestChain, ContentsInv, DiskInv
<1>3. b # Prev[b] /\ Null \notin Block
  <2>1. CASE b = Genesis
    BY <2>1, TreeAssumption
  <2>2. CASE b # Genesis
    BY <2>2, ChainUnfold, NotOwnAncestor, ChainType, TreeAssumption
  <2> QED BY <2>1, <2>2
<1> HIDE DEF S
<1>4. BlockMapTypeOK'
  <2>1. pnext' \in [Block -> Block \cup {Null}] /\ mapPrev' \in [Block -> Block \cup {Null}]
    BY <1>1, LoadType
  <2>2. mapLoaded' \subseteq Block /\ setKnown' \subseteq Block /\ records' \subseteq Block
    BY <1>1 DEF S, BlockMapTypeOK
  <2> QED BY <1>1, <2>1, <2>2 DEF BlockMapTypeOK
<1>5. LinksInv' /\ DiskInv'
  <2>1. DiskInv'
    BY <1>1 DEF DiskInv
  <2>2. ASSUME NEW h \in mapLoaded', h \notin leftover \/ (h \in BestChain /\ h # pindexBest)
        PROVE  pnext'[h] = diskNext[h]
    <3>0. h \in Block
      BY <1>4 DEF BlockMapTypeOK
    <3>1. CASE h \in mapLoaded \cup S
      BY <3>0, <3>1, <2>2, <1>1, LoadLinks
    <3>2. CASE h \notin mapLoaded \cup S
      <4>1. h = b
        BY <1>1, <3>2
      <4>2. pnext'[h] = Null
        BY <1>1, <3>0, <3>2, LoadRest
      <4> QED BY <4>1, <4>2, <1>2
    <3> QED BY <3>1, <3>2
  <2> QED BY <2>1, <2>2, <1>1, <1>2 DEF LinksInv
<1>6. ContentsInv'
  <2>1. mapLoaded' \subseteq setKnown' \cup leftover'
    BY <1>1 DEF ContentsInv, S
  <2>2. records' \subseteq setKnown' /\ BestChain' \subseteq records'
    BY <1>1, <1>2 DEF ContentsInv
  <2>3. ASSUME NEW x \in Block \ mapLoaded'
        PROVE  nLocks'[x] = 0 /\ nDropped'[x] = 0 /\ pnext'[x] = Null
    <3>1. x \notin mapLoaded \cup S
      BY <1>1, <1>3
    <3> QED BY <3>1, <1>1, LoadRest DEF ContentsInv
  <2>4. ASSUME NEW x \in Block \ (mapLoaded' \cup leftover')
        PROVE  mapPrev'[x] = IF x \in setKnown' THEN Prev[x] ELSE Null
    <3>1. x \notin mapLoaded \cup S /\ x # b
      BY <1>1, <1>3
    <3> QED BY <3>1, <1>1, LoadRest
  <2> QED BY <2>1, <2>2, <2>3, <2>4 DEF ContentsInv
<1>7. HoldersInv'
  BY <1>1, <1>2, LinkedSame DEF HoldersInv
<1>8. HeldStaysLoaded'
  <2>1. ASSUME NEW x \in mapLoaded'
        PROVE  nLocks'[x] = Holders(x)' - nDropped'[x]
    <3>0. x \in Block
      BY <1>4 DEF BlockMapTypeOK
    <3>1. Holders(x)' = Holders(x)
      BY <1>1 DEF Holders
    <3>2. CASE x \in mapLoaded
      BY <3>1, <3>2, <1>1 DEF HeldStaysLoaded
    <3>3. CASE x \notin mapLoaded
      BY <3>0, <3>1, <3>3, <1>1, UnloadedNotHeld DEF ContentsInv
    <3> QED BY <3>2, <3>3
  <2>2. /\ {pindexBest', pindexGenesisBlock'} \ {Null} \subseteq mapLoaded'
        /\ \/ pindex' = Null
           \/ IF "scan" \in freed' THEN pindex' \in setDropped' ELSE pindex' \in mapLoaded'
    BY <1>1 DEF HeldStaysLoaded
  <2> QED BY <2>1, <2>2 DEF HeldStaysLoaded
<1> QED BY <1>4, <1>5, <1>6, <1>7, <1>8

\* The part that actions which load indexes have in common.
LEMMA LoadKeepsInv ==
  ASSUME CacheInv, NEW S \in SUBSET Block, S \subseteq setKnown \cup mapLoaded,
         mapLoaded' = mapLoaded \cup S, pnext' = LinksLoaded(S), mapPrev' = PrevLoaded(S),
         \A x \in Block \ mapLoaded' : nLocks'[x] = nLocks[x],
         UNCHANGED <<setKnown, records, diskNext, coinsBest, pindexBest, leftover,
                     nDropped>>
  PROVE  /\ mapLoaded' \subseteq Block
         /\ pnext' \in [Block -> Block \cup {Null}]
         /\ mapPrev' \in [Block -> Block \cup {Null}]
         /\ LinksInv' /\ DiskInv' /\ ContentsInv' /\ BestChain' = BestChain
<1> USE DEF CacheInv
<1>1. BestChain' = BestChain
  BY DEF BestChain
<1>2. /\ mapLoaded' \subseteq Block
      /\ pnext' \in [Block -> Block \cup {Null}]
      /\ mapPrev' \in [Block -> Block \cup {Null}]
  BY LoadType DEF BlockMapTypeOK
<1>3. LinksInv' /\ DiskInv'
  <2>1. DiskInv'
    BY DEF DiskInv
  <2>2. ASSUME NEW h \in mapLoaded', h \notin leftover \/ (h \in BestChain /\ h # pindexBest)
        PROVE  pnext'[h] = diskNext[h]
    BY <2>2, <1>2, LoadLinks
  <2> QED BY <2>1, <2>2, <1>1 DEF LinksInv
<1>4. ContentsInv'
  <2>1. mapLoaded' \subseteq setKnown' \cup leftover'
    BY DEF ContentsInv
  <2>2. records' \subseteq setKnown' /\ BestChain' \subseteq records'
    BY <1>1 DEF ContentsInv
  <2>3. ASSUME NEW x \in Block \ mapLoaded'
        PROVE  nLocks'[x] = 0 /\ nDropped'[x] = 0 /\ pnext'[x] = Null
    BY LoadRest DEF ContentsInv
  <2>4. ASSUME NEW x \in Block \ (mapLoaded' \cup leftover')
        PROVE  mapPrev'[x] = IF x \in setKnown' THEN Prev[x] ELSE Null
    BY LoadRest
  <2> QED BY <2>1, <2>2, <2>3, <2>4 DEF ContentsInv
<1> QED BY <1>1, <1>2, <1>3, <1>4

\* A lookup by somebody who keeps no lock.
LEMMA LookupKeepsInv ==
  ASSUME CacheInv, NEW S \in SUBSET Block, S \subseteq setKnown \cup mapLoaded,
         mapLoaded' = mapLoaded \cup S, pnext' = LinksLoaded(S), mapPrev' = PrevLoaded(S),
         UNCHANGED <<nLocks, setKnown, records, diskNext, coinsBest, pindexBest,
                     pindexGenesisBlock, pindex, nCount, pindexPrev, freed, pc,
                     leftover, nDropped, setDropped, nSearches, nRestarts>>,
         \/ pblockindexFBBHLast' = pblockindexFBBHLast
         \/ /\ pc # "starting"
            /\ pblockindexFBBHLast' \in Block \cap setKnown
            /\ "last" \in freed \/ (Map!Linked => pblockindexFBBHLast' \in BestChain)
  PROVE  CacheInv'
<1> USE DEF CacheInv
<1>1. /\ mapLoaded' \subseteq Block
      /\ pnext' \in [Block -> Block \cup {Null}]
      /\ mapPrev' \in [Block -> Block \cup {Null}]
      /\ LinksInv' /\ DiskInv' /\ ContentsInv' /\ BestChain' = BestChain
  BY LoadKeepsInv
<1>2. BlockMapTypeOK'
  BY <1>1 DEF BlockMapTypeOK
<1>3. HoldersInv'
  BY <1>1, LinkedSame DEF HoldersInv
<1>4. HeldStaysLoaded'
  <2>1. ASSUME NEW x \in mapLoaded'
        PROVE  nLocks'[x] = Holders(x)' - nDropped'[x]
    <3>1. Holders(x)' = Holders(x) /\ x \in Block
      BY <1>1 DEF Holders
    <3>2. CASE x \in mapLoaded
      BY <3>1, <3>2 DEF HeldStaysLoaded
    <3>3. CASE x \notin mapLoaded
      BY <3>1, <3>3, UnloadedNotHeld DEF ContentsInv
    <3> QED BY <3>2, <3>3
  <2> QED BY <2>1 DEF HeldStaysLoaded
<1> QED BY <1>1, <1>2, <1>3, <1>4

\* The rescan moves to another index, or to none.
LEMMA ScanKeepsInv ==
  ASSUME CacheInv, NEW b \in Block \cup {Null}, NEW from,
         b # Null => b \in setKnown,
         from = IF "scan" \in freed THEN Null ELSE pindex,
         mapLoaded' = mapLoaded \cup ({b} \ {Null}),
         pnext' = LinksLoaded({b}), mapPrev' = PrevLoaded({b}),
         nLocks' = LockMoved(nLocks, from, b),
         pindex' = b, nCount' \in 0..(RescanInterval - 1), freed' = freed \ {"scan"},
         pc' \in {"idle", "rescan", "rescancleanup"},
         pc' = "idle" => b = Null, pc' = "rescan" => b # Null,
         UNCHANGED <<setKnown, records, diskNext, coinsBest, pindexBest,
                     pindexGenesisBlock, pindexPrev, pblockindexFBBHLast, leftover,
                     nDropped, setDropped, nSearches, nRestarts>>
  PROVE  CacheInv'
<1> USE DEF CacheInv
<1> DEFINE S == {b} \ {Null}
<1>0. /\ S \in SUBSET Block /\ S \subseteq setKnown \cup mapLoaded /\ Null \notin Block
      /\ LinksLoaded({b}) = LinksLoaded(S) /\ PrevLoaded({b}) = PrevLoaded(S)
  BY TreeAssumption DEF LinksLoaded, PrevLoaded
<1>1. nLocks' \in [Block -> Int] /\ \A x \in Block :
         nLocks'[x] = nLocks[x] - (IF x = from THEN 1 ELSE 0) + (IF x = b THEN 1 ELSE 0)
  BY DEF LockMoved, BlockMapTypeOK
<1>2. from \in Block => from \in mapLoaded
  BY <1>0 DEF HeldStaysLoaded, BlockMapTypeOK
<1>3. \A x \in Block \ mapLoaded' : nLocks'[x] = nLocks[x]
  BY <1>0, <1>1, <1>2 DEF BlockMapTypeOK
<1> HIDE DEF S
<1>4. /\ mapLoaded' \subseteq Block
      /\ pnext' \in [Block -> Block \cup {Null}]
      /\ mapPrev' \in [Block -> Block \cup {Null}]
      /\ LinksInv' /\ DiskInv' /\ ContentsInv' /\ BestChain' = BestChain
  <2>1. mapLoaded' = mapLoaded \cup S
    BY DEF S
  <2> QED BY <1>0, <1>3, <2>1, LoadKeepsInv
<1>5. BlockMapTypeOK'
  BY <1>1, <1>4 DEF BlockMapTypeOK
<1>6. HoldersInv'
  BY <1>4, LinkedSame DEF HoldersInv
<1>7. HeldStaysLoaded'
  <2>1. ASSUME NEW x \in mapLoaded'
        PROVE  nLocks'[x] = Holders(x)' - nDropped'[x]
    <3>0. x \in Block
      BY <1>4
    <3>1. Holders(x)' = Holders(x) - (IF x = from THEN 1 ELSE 0) + (IF x = b THEN 1 ELSE 0)
      BY <3>0, <1>0 DEF Holders
    <3>2. nLocks[x] = Holders(x) - nDropped[x]
      <4>1. CASE x \in mapLoaded
        BY <4>1 DEF HeldStaysLoaded
      <4>2. CASE x \notin mapLoaded
        BY <3>0, <4>2, UnloadedNotHeld DEF ContentsInv
      <4> QED BY <4>1, <4>2
    <3>3. Holders(x) \in Int /\ nDropped[x] \in Int
      BY <3>0 DEF Holders, BlockMapTypeOK
    <3> QED BY <3>0, <3>1, <3>2, <3>3, <1>1
  <2>2. /\ {pindexBest', pindexGenesisBlock'} \ {Null} \subseteq mapLoaded'
        /\ pindex' = Null \/ pindex' \in mapLoaded'
        /\ "scan" \notin freed'
    BY DEF HeldStaysLoaded
  <2> QED BY <2>1, <2>2 DEF HeldStaysLoaded
<1> QED BY <1>4, <1>5, <1>6, <1>7

\* If the links are those of the best chain, FindBlockByHeight walks along it: forward
\* links lead out of it only above the tip.
LEMMA WalkIsInBestChain ==
  ASSUME CacheInv, Map!Linked, NEW b \in Block, NEW a \in BestChain, WalksTo(a, b),
         nHeight[b] <= nHeight[pindexBest]
  PROVE  b \in BestChain
<1> USE DEF CacheInv
<1>0. /\ pindexBest \in Block /\ BestChain = Chain[pindexBest] /\ Null \notin Block
      /\ a \in Block /\ Chain[a] \subseteq BestChain /\ a \in Chain[a]
      /\ Genesis \in BestChain
  <2>1. pindexBest \in Block /\ BestChain = Chain[pindexBest] /\ Null \notin Block
    BY TreeAssumption DEF BestChain, BlockMapTypeOK
  <2> QED BY <2>1, ChainOfAncestor, ChainType, RootedAssumption
<1>1. CASE b \in Chain[a]
  BY <1>0, <1>1
<1>2. CASE /\ a \in Chain[b]
           /\ \A h \in Between(a, b) \ {a} : LinksLoaded({Prev[h]})[Prev[h]] = h
  <2> SUFFICES ASSUME b \notin BestChain
               PROVE  FALSE
    OBVIOUS
  <2> DEFINE T == Chain[b] \ BestChain
  <2>1. T \in SUBSET Block /\ b \in T
    BY ChainType
  <2>2. PICK x \in T : Prev[x] \in BestChain
    <3> SUFFICES ASSUME \A x \in T : Prev[x] \notin BestChain
                 PROVE  FALSE
      OBVIOUS
    <3>1. ClosedUnderPrev(T)
      <4> SUFFICES ASSUME NEW x \in T, Prev[x] # Null
                   PROVE  Prev[x] \in T
        BY DEF ClosedUnderPrev
      <4>1. x # Genesis
        BY <1>0
      <4> QED BY <4>1, ChainClosed
    <3> HIDE DEF T
    <3>2. Chain[b] \subseteq T
      BY <2>1, <3>1, ChainInClosed
    <3> QED BY <3>2, <1>0, RootedAssumption DEF T
  <2>3. x \in Between(a, b) \ {a}
    BY <1>0, <2>2 DEF Between
  <2>4. LinksLoaded({Prev[x]})[Prev[x]] = x
    BY <1>2, <2>3
  <2>5. Prev[x] \in Block /\ x \in Block /\ x # Genesis
    BY <1>0, <2>1, <2>2, ChainType
  <2>6. CASE Prev[x] = pindexBest
    <3>1. nHeight[x] = nHeight[pindexBest] + 1 /\ nHeight \in [Block -> Nat]
      BY <2>5, <2>6, HeightRecursion
    <3>2. nHeight[x] <= nHeight[b]
      BY <2>2, ChainHeight
    <3> QED BY <3>1, <3>2, <1>0, <2>5
  <2>7. CASE Prev[x] # pindexBest
    <3>1. Map!Successor(Prev[x], pindexBest) = x
      BY <2>2, <2>4, <2>5, <2>7, LoadLinks DEF Map!Linked
    <3>2. x # Null
      BY <2>5, <1>0
    <3>3. x \in Chain[pindexBest]
      BY <3>1, <3>2, <2>5, <1>0, SuccessorInChain
    <3> QED BY <3>3, <2>2, <1>0
  <2> QED BY <2>6, <2>7
<1> QED BY <1>1, <1>2 DEF WalksTo

\* FindBlockByHeight starts at a known index, of the best chain if the links are.
LEMMA WalkStarts ==
  ASSUME CacheInv, NEW n, pindexBest # Null, "last" \notin freed
  PROVE  WalkFrom(n) \in setKnown /\ (Map!Linked => WalkFrom(n) \in BestChain)
<1> USE DEF CacheInv
<1>1. /\ pindexBest \in Block /\ BestChain = Chain[pindexBest]
      /\ pindexGenesisBlock = Genesis
  BY DEF BlockMapTypeOK, HoldersInv, BestChain
<1>2. Genesis \in BestChain /\ pindexBest \in BestChain
  BY <1>1, ChainType, RootedAssumption
<1>3. pblockindexFBBHLast # Null =>
         pblockindexFBBHLast \in setKnown
            /\ (Map!Linked => pblockindexFBBHLast \in BestChain)
  BY DEF HoldersInv
<1>4. BestChain \subseteq setKnown
  BY DEF ContentsInv
<1> QED BY <1>1, <1>2, <1>3, <1>4 DEF WalkFrom

\* FindBlockByHeight, and that its answer is at the height asked for, and in the best
\* chain if the links are.
LEMMA FindBlockByHeightKeepsInv ==
  ASSUME CacheInv, NEW b \in Block, NEW n, FindBlockByHeight(n, b)
  PROVE  /\ CacheInv'
         /\ "last" \notin freed => nHeight[b] = n /\ (Map!Linked => b \in BestChain)
<1> USE DEF CacheInv
<1>1. /\ pc = "idle" /\ pindexBest # Null /\ n <= nHeight[pindexBest]
      /\ pblockindexFBBHLast' = b
      /\ UNCHANGED <<nLocks, setKnown, records, diskNext, coinsBest, pindexBest,
                     pindexGenesisBlock, pindex, nCount, pindexPrev, freed, pc,
                     leftover, nDropped, setDropped, nSearches, nRestarts>>
  BY DEF FindBlockByHeight, diskVars, tipVars, scanVars, dropVars
<1>2. BestChain = Chain[pindexBest] /\ pindexBest \in Block
  BY <1>1 DEF BestChain, BlockMapTypeOK
<1>3. CASE "last" \notin freed
  <2> DEFINE a == WalkFrom(n)
             walked == IF b \in Chain[a] THEN Between(b, a) ELSE Between(a, b)
  <2>1. /\ nHeight[b] = n /\ WalksTo(a, b)
        /\ mapLoaded' = mapLoaded \cup walked
        /\ pnext' = LinksLoaded(walked) /\ mapPrev' = PrevLoaded(walked)
    BY <1>3 DEF FindBlockByHeight
  <2>2. a \in setKnown /\ (Map!Linked => a \in BestChain)
    BY <1>1, <1>3, WalkStarts
  <2> HIDE DEF a
  <2>3. Map!Linked => b \in BestChain
    BY <1>1, <2>1, <2>2, WalkIsInBestChain
  <2>4. walked \subseteq setKnown /\ b \in setKnown
    <3>0. setKnown \subseteq Block /\ a \in Block
      BY <2>2 DEF BlockMapTypeOK
    <3>1. CASE b \in Chain[a]
      <4>1. Chain[a] \subseteq Block
        BY <3>0, ChainType
      <4>2. CASE \A h \in Between(b, a) : h \in setKnown
        BY <3>1, <4>1, <4>2 DEF Between
      <4>3. CASE a \in Chain[b]
        <5>1. a = b
          <6>1. nHeight[a] \in Nat /\ nHeight[b] \in Nat
            BY <3>0, HeightRecursion
          <6>2. a # b => nHeight[a] < nHeight[b] /\ nHeight[b] < nHeight[a]
            BY <3>0, <3>1, <4>3, AncestorLower
          <6> QED BY <6>1, <6>2
        <5> QED BY <2>2, <3>1, <5>1 DEF Between
      <4> QED BY <2>1, <4>2, <4>3 DEF WalksTo
    <3>2. CASE b \notin Chain[a]
      <4>1. \A h \in Between(a, b) \ {a} : h \in setKnown
        BY <2>1, <3>2 DEF WalksTo
      <4>2. b \in Between(a, b)
        BY <3>2, ChainType DEF Between
      <4>3. b # a
        BY <3>0, <3>2, ChainType
      <4> QED BY <2>2, <3>2, <4>1, <4>2, <4>3
    <3> QED BY <3>1, <3>2
  <2>5. walked \in SUBSET Block
    BY <2>4 DEF BlockMapTypeOK
  <2> HIDE DEF walked
  <2>6. CacheInv'
    BY <1>1, <2>1, <2>3, <2>4, <2>5, LookupKeepsInv
  <2> QED BY <2>1, <2>3, <2>6
<1>4. CASE "last" \in freed
  <2>1. /\ b \in setKnown
        /\ mapLoaded' = mapLoaded \cup {b}
        /\ pnext' = LinksLoaded({b}) /\ mapPrev' = PrevLoaded({b})
    BY <1>4 DEF FindBlockByHeight
  <2>2. {b} \in SUBSET Block /\ {b} \subseteq setKnown \cup mapLoaded
    BY <2>1
  <2>3. CacheInv'
    BY <1>1, <1>4, <2>1, <2>2, LookupKeepsInv
  <2> QED BY <2>3, <1>4
<1> QED BY <1>3, <1>4

\* find, operator[] and count.
LEMMA FindKeepsInv ==
  ASSUME CacheInv, NEW h \in Block, Find(h)
  PROVE  CacheInv'
<1>1. UNCHANGED <<nLocks, setKnown, records, diskNext, coinsBest, pindexBest,
                  pindexGenesisBlock, pindex, nCount, pindexPrev, pblockindexFBBHLast, freed, pc, leftover,
                  nDropped, setDropped, nSearches, nRestarts>>
  BY DEF Find, diskVars, tipVars, scanVars, dropVars
<1>2. CASE /\ h \in setKnown \cup mapLoaded
           /\ mapLoaded' = mapLoaded \cup {h}
           /\ pnext' = LinksLoaded({h}) /\ mapPrev' = PrevLoaded({h})
  BY <1>1, <1>2, LookupKeepsInv
<1>3. CASE UNCHANGED <<mapLoaded, pnext, mapPrev>>
  BY <1>1, <1>3, LinkedSame DEF CacheInv, BlockMapTypeOK, LinksInv, DiskInv, BestChain,
                                ContentsInv, HoldersInv, HeldStaysLoaded, Holders
<1> QED BY <1>2, <1>3 DEF Find

\* Moving a lock keeps counts integers.
LEMMA LockMovedIs ==
  ASSUME NEW locks \in [Block -> Int], NEW from, NEW to
  PROVE  /\ LockMoved(locks, from, to) \in [Block -> Int]
         /\ \A x \in Block : LockMoved(locks, from, to)[x] =
               locks[x] - (IF x = from THEN 1 ELSE 0) + (IF x = to THEN 1 ELSE 0)
BY DEF LockMoved

\* Counts are exact for every block, loaded or not.
LEMMA CountsExact ==
  ASSUME CacheInv, NEW x \in Block
  PROVE  /\ nLocks[x] = Holders(x) - nDropped[x]
         /\ Holders(x) \in Int /\ nDropped[x] \in Nat /\ nLocks[x] \in Int
<1> USE DEF CacheInv
<1>1. Holders(x) \in Int /\ nDropped[x] \in Nat /\ nLocks[x] \in Int
  BY DEF Holders, BlockMapTypeOK
<1>2. CASE x \in mapLoaded
  BY <1>1, <1>2 DEF HeldStaysLoaded
<1>3. CASE x \notin mapLoaded
  BY <1>1, <1>3, UnloadedNotHeld DEF ContentsInv
<1> QED BY <1>1, <1>2, <1>3

\* A block of the new chain below its end that was not below the end of the old one:
\* SetBestChain links it afresh.
LEMMA LinkedAfresh ==
  ASSUME BlockMapTypeOK, NEW b \in Block, NEW h \in Chain[b], h # b,
         h \notin BestChain \/ h = pindexBest, NEW next
  PROVE  Relinked(next, b)[h] = Map!Successor(h, b)
<1>0. h \in Block /\ Null \notin Block
  BY ChainType, TreeAssumption
<1>1. PICK c \in Chain[b] : Prev[c] = h
  BY ChildExists
<1>2. c \in Block /\ c # Genesis
  BY <1>0, <1>1, ChainType, TreeAssumption
<1>3. c \notin BestChain
  <2> SUFFICES ASSUME c \in BestChain
               PROVE  FALSE
    OBVIOUS
  <2>1. pindexBest \in Block /\ c \in Chain[pindexBest]
    BY DEF BestChain, BlockMapTypeOK
  <2>2. h \in BestChain
    BY <1>0, <1>1, <1>2, <2>1, ChainClosed DEF BestChain
  <2>3. nHeight[c] = nHeight[pindexBest] + 1 /\ nHeight \in [Block -> Nat]
    BY <1>1, <1>2, <2>2, HeightRecursion
  <2>4. nHeight[c] <= nHeight[pindexBest]
    BY <2>1, ChainHeight
  <2> QED BY <2>1, <2>3, <2>4, <1>2
<1> DEFINE d == CHOOSE x \in Chain[b] \ BestChain : Prev[x] = h
<1>4. d \in Chain[b] /\ Prev[d] = h
  BY <1>1, <1>3
<1>5. Relinked(next, b)[h] = d
  BY <1>0, <1>1, <1>3 DEF Relinked
<1> HIDE DEF d
<1> QED BY <1>0, <1>4, <1>5, SuccessorIs

\* SetBestChain goes through every index whose link it changes.
LEMMA UntouchedLinks ==
  ASSUME BlockMapTypeOK, NEW b \in Block, NEW h \in Block, h \notin Touched(b), NEW next
  PROVE  Relinked(next, b)[h] = next[h]
<1>0. Null \notin Block /\ \A c \in Block : Prev[c] = h => c # Genesis
  BY TreeAssumption
<1>1. ~\E c \in Chain[b] \ BestChain : Prev[c] = h
  <2> SUFFICES ASSUME NEW c \in Chain[b] \ BestChain, Prev[c] = h
               PROVE  FALSE
    OBVIOUS
  <2>1. h \in Chain[b]
    BY <1>0, ChainClosed, ChainType
  <2> QED BY <2>1 DEF Touched
<1>2. ~\E c \in BestChain \ Chain[b] : Prev[c] = h
  <2> SUFFICES ASSUME NEW c \in BestChain \ Chain[b], Prev[c] = h
               PROVE  FALSE
    OBVIOUS
  <2>1. pindexBest \in Block /\ c \in Chain[pindexBest] /\ BestChain = Chain[pindexBest]
    BY DEF BestChain, BlockMapTypeOK
  <2>2. h \in BestChain
    BY <1>0, <2>1, ChainClosed, ChainType
  <2> QED BY <2>2 DEF Touched
<1> QED BY <1>1, <1>2 DEF Relinked

\* Relinking keeps the type of the links.
LEMMA RelinkedType ==
  ASSUME BlockMapTypeOK, NEW b \in Block, NEW next \in [Block -> Block \cup {Null}]
  PROVE  Relinked(next, b) \in [Block -> Block \cup {Null}]
<1>1. Chain[b] \subseteq Block
  BY ChainType
<1>2. ASSUME NEW h \in Block
      PROVE  Relinked(next, b)[h] \in Block \cup {Null}
  BY <1>1 DEF Relinked
<1>3. Relinked(next, b) = [h \in Block |-> Relinked(next, b)[h]]
  BY DEF Relinked
<1> QED BY <1>2, <1>3

\* SetBestChain: the links in memory and in the database move with the tip.
LEMMA SetBestChainKeepsInv ==
  ASSUME CacheInv, NEW b \in Block, SetBestChain(b), pc \in {"idle", "connect", "reconnect"},
         pc' \in {"connect", "reconnect", "cleanup"}
  PROVE  CacheInv'
<1> USE DEF CacheInv
<1> DEFINE S == Touched(b)
<1>1. /\ S \subseteq setKnown
      /\ records' = records \cup (Chain[b] \ BestChain)
      /\ mapLoaded' = mapLoaded \cup S
      /\ pnext' = Relinked(LinksLoaded(S), b)
      /\ mapPrev' = PrevLoaded(S)
      /\ diskNext' = Relinked(diskNext, b)
      /\ coinsBest' \in {coinsBest, b}
      /\ pindexBest' = b /\ pindexGenesisBlock' = Genesis
      /\ nLocks' = LockMoved(LockMoved(nLocks, pindexGenesisBlock, Genesis), pindexBest, b)
      /\ pblockindexFBBHLast' = Null
      /\ freed' = freed \ {"last"}
      /\ UNCHANGED <<setKnown, pindex, nCount, pindexPrev, leftover, nDropped, setDropped,
                     nSearches, nRestarts>>
  BY DEF SetBestChain, FlushCoins, Remembered, scanVars, dropVars
<1>2. /\ Null \notin Block /\ Genesis \in Block
      /\ Chain[b] \subseteq Block /\ b \in Chain[b] /\ Genesis \in Chain[b]
      /\ BestChain' = Chain[b]
  BY <1>1, ChainType, TreeAssumption, RootedAssumption DEF BestChain
<1>3. /\ b \in S /\ Chain[b] \ BestChain \subseteq S
      /\ S \subseteq Block
  BY <1>1 DEF Touched, BlockMapTypeOK
<1>4. Genesis \in mapLoaded'
  <2>1. CASE pindexBest = Null
    BY <2>1, <1>1, <1>2, <1>3 DEF BestChain
  <2>2. CASE pindexBest # Null
    BY <2>2, <1>1, <1>2 DEF HoldersInv, HeldStaysLoaded
  <2> QED BY <2>1, <2>2
<1> HIDE DEF S
<1>5. /\ nLocks' \in [Block -> Int]
      /\ \A x \in Block : nLocks'[x] = nLocks[x]
            - (IF x = pindexGenesisBlock THEN 1 ELSE 0) + (IF x = Genesis THEN 1 ELSE 0)
            - (IF x = pindexBest THEN 1 ELSE 0) + (IF x = b THEN 1 ELSE 0)
  <2>1. /\ LockMoved(nLocks, pindexGenesisBlock, Genesis) \in [Block -> Int]
        /\ \A x \in Block : LockMoved(nLocks, pindexGenesisBlock, Genesis)[x] =
              nLocks[x] - (IF x = pindexGenesisBlock THEN 1 ELSE 0)
                        + (IF x = Genesis THEN 1 ELSE 0)
    BY LockMovedIs DEF BlockMapTypeOK
  <2> HIDE DEF LockMoved
  <2>2. /\ nLocks' \in [Block -> Int]
        /\ \A x \in Block : nLocks'[x] =
              LockMoved(nLocks, pindexGenesisBlock, Genesis)[x]
                  - (IF x = pindexBest THEN 1 ELSE 0) + (IF x = b THEN 1 ELSE 0)
    BY <1>1, <2>1, LockMovedIs
  <2>3. \A x \in Block : nLocks[x] \in Int
    BY DEF BlockMapTypeOK
  <2> QED BY <2>1, <2>2, <2>3
<1>6. BlockMapTypeOK'
  <2>1. pnext' \in [Block -> Block \cup {Null}] /\ mapPrev' \in [Block -> Block \cup {Null}]
    BY <1>1, LoadType, RelinkedType
  <2>2. diskNext' \in [Block -> Block \cup {Null}]
    BY <1>1, RelinkedType DEF BlockMapTypeOK
  <2>3. mapLoaded' \subseteq Block /\ records' \subseteq Block
    BY <1>1, <1>2, <1>3 DEF BlockMapTypeOK
  <2> QED BY <1>1, <1>2, <1>5, <2>1, <2>2, <2>3 DEF BlockMapTypeOK
<1>7. LinksInv' /\ DiskInv'
  <2>1. pindexBest \in Block \cup {Null}
    BY DEF BlockMapTypeOK
  <2>2. DiskInv'
    <3>1. ASSUME NEW h \in Block, Relinked(diskNext, b)[h] # Null
          PROVE  h \in records'
      <4>1. Map!Successor(h, b) # Null => h \in Chain[b]
        <5> SUFFICES ASSUME Map!Successor(h, b) # Null
                     PROVE  h \in Chain[b]
          OBVIOUS
        <5> DEFINE c == Map!Successor(h, b)
        <5>1. c \in Chain[b] /\ Prev[c] = h
          BY SuccessorInChain
        <5> HIDE DEF c
        <5>2. c # Genesis
          BY <5>1, <1>2, TreeAssumption
        <5> QED BY <5>1, <5>2, ChainClosed
      <4>2. CASE Relinked(diskNext, b)[h] = diskNext[h]
        BY <3>1, <4>2, <1>1 DEF DiskInv
      <4>3. CASE h \in Chain[b]
        BY <4>3, <1>1 DEF ContentsInv
      <4> QED BY <3>1, <4>1, <4>2, <4>3, <2>1, RelinkedIs
    <3>2. Chain[coinsBest'] \subseteq records'
      <4>1. Chain[b] \subseteq records'
        BY <1>1 DEF ContentsInv
      <4>2. CASE coinsBest' = b
        BY <4>1, <4>2
      <4>3. CASE coinsBest' = coinsBest
        <5>1. CASE pindexBest = Null
          BY <4>1, <4>3, <5>1, <1>2, ChainOfGenesis DEF DiskInv
        <5>2. CASE pindexBest # Null
          BY <4>3, <5>2, <1>1 DEF DiskInv
        <5> QED BY <5>1, <5>2
      <4> QED BY <4>2, <4>3, <1>1
    <3> QED BY <3>1, <3>2, <1>1, <1>2 DEF DiskInv
  <2>3. ASSUME NEW h \in mapLoaded', h \notin leftover \/ (h \in Chain[b] /\ h # b)
        PROVE  pnext'[h] = diskNext'[h]
    <3>0. h \in Block /\ h \in mapLoaded \cup S
      BY <1>1, <1>6 DEF BlockMapTypeOK
    <3>1. CASE h \notin leftover \/ (h \in BestChain /\ h # pindexBest)
      <4>1. LinksLoaded(S)[h] = diskNext[h]
        BY <3>0, <3>1, LoadLinks
      <4>2. Relinked(LinksLoaded(S), b)[h] = Relinked(diskNext, b)[h]
        BY <4>1, <3>0, <2>1, RelinkedIs
      <4> QED BY <4>2, <1>1
    <3>2. CASE h \in leftover /\ (h \notin BestChain \/ h = pindexBest)
      <4>1. /\ Relinked(LinksLoaded(S), b)[h] = Map!Successor(h, b)
            /\ Relinked(diskNext, b)[h] = Map!Successor(h, b)
        BY <2>3, <3>2, LinkedAfresh
      <4> QED BY <4>1, <1>1
    <3> QED BY <3>1, <3>2
  <2> QED BY <2>2, <2>3, <1>1, <1>2 DEF LinksInv
<1>8. ContentsInv'
  <2>1. mapLoaded' \subseteq setKnown' \cup leftover'
    BY <1>1 DEF ContentsInv
  <2>2. records' \subseteq setKnown' /\ BestChain' \subseteq records'
    BY <1>1, <1>2, <1>3 DEF ContentsInv
  <2>3. ASSUME NEW x \in Block \ mapLoaded'
        PROVE  nLocks'[x] = 0 /\ nDropped'[x] = 0 /\ pnext'[x] = Null
    <3>1. x \notin mapLoaded \cup S /\ x # b /\ x # Genesis
      BY <1>1, <1>3, <1>4
    <3>2. x # pindexBest /\ x # pindexGenesisBlock
      BY <3>1, <1>2 DEF HeldStaysLoaded
    <3>3. nLocks'[x] = 0 /\ nDropped'[x] = 0
      BY <3>1, <3>2, <1>1, <1>5 DEF ContentsInv
    <3>4. pnext'[x] = LinksLoaded(S)[x]
      BY <3>1, <1>1, UntouchedLinks DEF S
    <3> QED BY <3>1, <3>3, <3>4, LoadRest
  <2>4. ASSUME NEW x \in Block \ (mapLoaded' \cup leftover')
        PROVE  mapPrev'[x] = IF x \in setKnown' THEN Prev[x] ELSE Null
    BY <1>1, LoadRest
  <2> QED BY <2>1, <2>2, <2>3, <2>4 DEF ContentsInv
<1>9. HoldersInv'
  BY <1>1, <1>2 DEF HoldersInv
<1>10. HeldStaysLoaded'
  <2>0. pindex = Null /\ pindex' = Null
    BY <1>1 DEF HoldersInv
  <2>1. ASSUME NEW x \in mapLoaded'
        PROVE  nLocks'[x] = Holders(x)' - nDropped'[x]
    <3>0. x \in Block
      BY <1>6 DEF BlockMapTypeOK
    <3>1. Holders(x)' = (IF x = b THEN 1 ELSE 0) + (IF x = Genesis THEN 1 ELSE 0)
      BY <2>0, <3>0, <1>1, <1>2 DEF Holders
    <3>2. Holders(x) = (IF x = pindexBest THEN 1 ELSE 0)
                       + (IF x = pindexGenesisBlock THEN 1 ELSE 0)
      BY <2>0, <3>0, <1>2 DEF Holders
    <3>3. nLocks[x] = Holders(x) - nDropped[x] /\ nDropped[x] \in Nat
      BY <3>0, CountsExact
    <3> QED BY <3>0, <3>1, <3>2, <3>3, <1>1, <1>5
  <2>2. {pindexBest', pindexGenesisBlock'} \ {Null} \subseteq mapLoaded'
    BY <1>1, <1>3, <1>4
  <2> QED BY <2>0, <2>1, <2>2 DEF HeldStaysLoaded
<1> QED BY <1>6, <1>7, <1>8, <1>9, <1>10

\* BlockMap::cleanup frees no index whose count says that it is held.
LEMMA CleanupKeepsInv ==
  ASSUME CacheInv, Cleanup
  PROVE  CacheInv'
<1> USE DEF CacheInv
<1> DEFINE S == {b \in mapLoaded : Old(b) /\ ~Locked(b)}
<1>1. /\ pc \in {"cleanup", "rescancleanup"}
      /\ mapLoaded' = mapLoaded \ S
      /\ pnext' = [b \in Block |-> IF b \in S THEN Null ELSE pnext[b]]
      /\ mapPrev' = [b \in Block |-> IF b \in S THEN Prev[b] ELSE mapPrev[b]]
      /\ nDropped' = [b \in Block |-> IF b \in S THEN 0 ELSE nDropped[b]]
      /\ freed' = freed \cup (IF pindex \in S THEN {"scan"} ELSE {})
                        \cup (IF pindexPrev \in S THEN {"mint"} ELSE {})
                        \cup (IF pblockindexFBBHLast \in S THEN {"last"} ELSE {})
      /\ pc' = IF pc = "cleanup" \/ pindex = Null THEN "idle" ELSE "rescan"
      /\ UNCHANGED <<nLocks, setKnown, records, diskNext, coinsBest, pindexBest,
                     pindexGenesisBlock, pindex, nCount, pindexPrev,
                     pblockindexFBBHLast, leftover, setDropped, nSearches, nRestarts>>
  BY DEF Cleanup, Unload, diskVars, tipVars, scanVars
<1>2. /\ Null \notin Block /\ S \subseteq Block /\ S \subseteq mapLoaded
      /\ \A x \in S : nLocks[x] = 0
  BY TreeAssumption DEF Locked, BlockMapTypeOK
<1>3. pindexBest \notin S /\ pindexGenesisBlock \notin S
  <2>1. CASE pindexBest = Null
    BY <2>1, <1>2 DEF HoldersInv
  <2>2. CASE pindexBest # Null
    <3>1. nHeight[pindexBest] \in Nat
      BY <2>2, HeightRecursion DEF BlockMapTypeOK
    <3>2. ~Old(pindexBest) /\ ~Old(pindexGenesisBlock)
      BY <3>1, CacheAssumption DEF Old
    <3> QED BY <3>2
  <2> QED BY <2>1, <2>2
<1>4. BestChain' = BestChain
  BY <1>1 DEF BestChain
<1> HIDE DEF S
<1>5. BlockMapTypeOK'
  <2>1. mapPrev' \in [Block -> Block \cup {Null}]
    BY <1>1, TreeAssumption DEF BlockMapTypeOK
  <2>2. pnext' \in [Block -> Block \cup {Null}] /\ nDropped' \in [Block -> Nat]
    BY <1>1 DEF BlockMapTypeOK
  <2>3. mapLoaded' \subseteq Block /\ freed' \subseteq {"scan", "mint", "last"}
        /\ pc' \in {"idle", "rescan"}
    BY <1>1 DEF BlockMapTypeOK
  <2> QED BY <1>1, <2>1, <2>2, <2>3 DEF BlockMapTypeOK
<1>6. LinksInv' /\ DiskInv'
  <2>1. ASSUME NEW h \in mapLoaded' PROVE pnext'[h] = pnext[h] /\ h \in mapLoaded
    BY <1>1, <1>5 DEF BlockMapTypeOK
  <2> QED BY <2>1, <1>1, <1>4 DEF LinksInv, DiskInv
<1>7. ContentsInv'
  <2>1. mapLoaded' \subseteq setKnown' \cup leftover'
    BY <1>1 DEF ContentsInv
  <2>2. records' \subseteq setKnown' /\ BestChain' \subseteq records'
    BY <1>1, <1>4 DEF ContentsInv
  <2>3. ASSUME NEW x \in Block \ mapLoaded'
        PROVE  nLocks'[x] = 0 /\ nDropped'[x] = 0 /\ pnext'[x] = Null
    BY <1>1, <1>2 DEF ContentsInv
  <2>4. ASSUME NEW x \in Block \ (mapLoaded' \cup leftover')
        PROVE  mapPrev'[x] = IF x \in setKnown' THEN Prev[x] ELSE Null
    BY <1>1, <1>2 DEF ContentsInv
  <2> QED BY <2>1, <2>2, <2>3, <2>4 DEF ContentsInv
<1>8. HoldersInv'
  <2>1. \A b \in Block : nDropped'[b] > 0 => b \in setDropped'
    BY <1>1 DEF HoldersInv
  <2>2. pc \notin {"rescan", "rescancleanup"} => pindex = Null
    BY DEF HoldersInv
  <2>3. /\ pc' \notin {"rescan", "rescancleanup"} => pindex' = Null
        /\ pc' = "rescan" => pindex' # Null
        /\ pc' # "starting"
    BY <1>1, <2>2
  <2>4. /\ pindex' = Null => "scan" \notin freed'
        /\ pindexPrev' = Null => "mint" \notin freed'
        /\ pindexPrev' # Null /\ "mint" \notin freed' => pindexPrev' \in mapLoaded'
        /\ pblockindexFBBHLast' # Null /\ "last" \notin freed' /\ Map!Linked'
              => pblockindexFBBHLast' \in BestChain'
        /\ pblockindexFBBHLast' # Null => pblockindexFBBHLast' \in setKnown'
    BY <1>1, <1>2, <1>4, LinkedSame DEF HoldersInv
  <2>5. pindexGenesisBlock' = IF pindexBest' = Null THEN Null ELSE Genesis
    BY <1>1 DEF HoldersInv
  <2> QED BY <2>1, <2>3, <2>4, <2>5 DEF HoldersInv
<1>9. HeldStaysLoaded'
  <2>1. ASSUME NEW x \in mapLoaded'
        PROVE  nLocks'[x] = Holders(x)' - nDropped'[x]
    <3>0. x \in Block /\ x \in mapLoaded /\ x \notin S
      BY <1>1, <1>5 DEF BlockMapTypeOK
    <3>1. Holders(x)' = Holders(x)
      BY <3>0, <1>1 DEF Holders
    <3> QED BY <3>0, <3>1, <1>1 DEF HeldStaysLoaded
  <2>2. {pindexBest', pindexGenesisBlock'} \ {Null} \subseteq mapLoaded'
    BY <1>1, <1>3 DEF HeldStaysLoaded
  <2>3. \/ pindex' = Null
        \/ IF "scan" \in freed' THEN pindex' \in setDropped' ELSE pindex' \in mapLoaded'
    <3>1. CASE pindex \in S /\ "scan" \notin freed
      <4>1. pindex \in Block /\ nLocks[pindex] = 0
        BY <3>1, <1>2
      <4>2. /\ nLocks[pindex] = Holders(pindex) - nDropped[pindex]
            /\ Holders(pindex) \in Int /\ nDropped[pindex] \in Nat
        BY <4>1, CountsExact
      <4>3. Holders(pindex) > 0
        BY <3>1 DEF Holders
      <4>4. nDropped[pindex] > 0
        BY <4>1, <4>2, <4>3
      <4>5. pindex \in setDropped
        BY <4>1, <4>4 DEF HoldersInv
      <4> QED BY <4>5, <3>1, <1>1
    <3>2. CASE "scan" \in freed
      BY <3>2, <1>1 DEF HeldStaysLoaded
    <3>3. CASE pindex \notin S /\ "scan" \notin freed
      BY <3>3, <1>1 DEF HeldStaysLoaded
    <3> QED BY <3>1, <3>2, <3>3
  <2> QED BY <2>1, <2>2, <2>3 DEF HeldStaysLoaded
<1> QED BY <1>5, <1>6, <1>7, <1>8, <1>9

\* The copy of the tip that the minter makes and destroys.
LEMMA MinterKeepsInv ==
  ASSUME CacheInv, MinterCopiesTip \/ MinterDestroysCopy
  PROVE  CacheInv'
<1> USE DEF CacheInv
<1>0. Null \notin Block
  BY TreeAssumption
<1>1. CASE MinterCopiesTip
  <2>1. /\ pc \notin {"starting", "reconnect"} /\ pindexPrev = Null /\ pindexBest # Null
        /\ nSearches < MaxSearches /\ nSearches' = nSearches + 1
        /\ pindexPrev' = pindexBest
        /\ UNCHANGED <<mapLoaded, pnext, nLocks, setKnown, mapPrev, records, diskNext,
                       coinsBest, pindexBest, pindexGenesisBlock, pindex, nCount,
                       pblockindexFBBHLast, freed, pc, leftover, nDropped, setDropped,
                       nRestarts>>
    BY <1>1 DEF MinterCopiesTip, cacheVars, diskVars, tipVars, scanVars
  <2>2. BlockMapTypeOK'
    BY <2>1, CacheAssumption DEF BlockMapTypeOK
  <2>3. LinksInv' /\ DiskInv' /\ ContentsInv'
    BY <2>1 DEF LinksInv, DiskInv, ContentsInv, BestChain
  <2>4. HoldersInv'
    BY <2>1, LinkedSame DEF HoldersInv, BestChain, HeldStaysLoaded
  <2>5. HeldStaysLoaded'
    BY <2>1 DEF HeldStaysLoaded, Holders
  <2> QED BY <2>2, <2>3, <2>4, <2>5
<1>2. CASE MinterDestroysCopy
  <2>1. /\ pindexPrev # Null /\ pindexPrev' = Null /\ freed' = freed \ {"mint"}
        /\ UNCHANGED <<mapLoaded, pnext, setKnown, mapPrev, records, diskNext, coinsBest,
                       pindexBest, pindexGenesisBlock, pindex, nCount,
                       pblockindexFBBHLast, pc, leftover, nSearches, nRestarts>>
    BY <1>2 DEF MinterDestroysCopy, diskVars, tipVars, scanVars
  <2>2. pc # "starting" /\ pindexPrev \in Block
    BY <2>1 DEF HoldersInv, BlockMapTypeOK
  <2>3. LinksInv' /\ DiskInv' /\ BestChain' = BestChain /\ \A x : Holders(x)' = Holders(x)
    BY <2>1 DEF LinksInv, DiskInv, BestChain, Holders
  <2>4. CASE "mint" \in freed
    <3>1. UNCHANGED <<nLocks, nDropped, setDropped>>
      BY <2>4, <1>2 DEF MinterDestroysCopy
    <3>2. BlockMapTypeOK'
      BY <2>1, <3>1 DEF BlockMapTypeOK
    <3>3. ContentsInv' /\ HeldStaysLoaded'
      BY <2>1, <2>3, <3>1 DEF ContentsInv, HeldStaysLoaded
    <3>4. HoldersInv'
      BY <2>1, <2>2, <2>3, <3>1, LinkedSame DEF HoldersInv
    <3> QED BY <2>3, <3>2, <3>3, <3>4
  <2>5. CASE "mint" \notin freed
    <3>1. /\ nLocks' = LockMoved(nLocks, pindexPrev, Null)
          /\ nDropped' = [nDropped EXCEPT ![pindexPrev] = @ + 1]
          /\ setDropped' = setDropped \cup {pindexPrev}
          /\ pindexPrev \in mapLoaded
      BY <2>5, <1>2 DEF MinterDestroysCopy, HoldersInv
    <3>2. /\ nLocks' \in [Block -> Int]
          /\ \A x \in Block : nLocks'[x] = nLocks[x] - (IF x = pindexPrev THEN 1 ELSE 0)
      BY <3>1, <1>0 DEF LockMoved, BlockMapTypeOK
    <3>3. /\ nDropped' \in [Block -> Nat]
          /\ \A x \in Block : nDropped'[x] = nDropped[x] + (IF x = pindexPrev THEN 1 ELSE 0)
      BY <2>2, <3>1 DEF BlockMapTypeOK
    <3>4. BlockMapTypeOK'
      BY <2>1, <2>2, <3>1, <3>2, <3>3 DEF BlockMapTypeOK
    <3>5. ContentsInv'
      <4>1. ASSUME NEW x \in Block \ mapLoaded'
            PROVE  nLocks'[x] = 0 /\ nDropped'[x] = 0 /\ pnext'[x] = Null
        BY <2>1, <3>1, <3>2, <3>3 DEF ContentsInv
      <4> QED BY <4>1, <2>1, <2>3 DEF ContentsInv
    <3>6. HoldersInv'
      <4>1. \A x \in Block : nDropped'[x] > 0 => x \in setDropped'
        BY <3>1, <3>3 DEF HoldersInv, BlockMapTypeOK
      <4> QED BY <4>1, <2>1, <2>2, <2>3, LinkedSame DEF HoldersInv
    <3>7. HeldStaysLoaded'
      <4>1. ASSUME NEW x \in mapLoaded'
            PROVE  nLocks'[x] = Holders(x)' - nDropped'[x]
        <5>0. x \in Block
          BY <3>4 DEF BlockMapTypeOK
        <5>1. /\ nLocks[x] = Holders(x) - nDropped[x]
              /\ Holders(x) \in Int /\ nDropped[x] \in Nat /\ nLocks[x] \in Int
          BY <5>0, CountsExact
        <5> QED BY <5>0, <5>1, <2>3, <3>2, <3>3
      <4> QED BY <4>1, <2>1, <3>1 DEF HeldStaysLoaded
    <3> QED BY <2>3, <3>4, <3>5, <3>6, <3>7
  <2> QED BY <2>4, <2>5
<1> QED BY <1>1, <1>2

\* A restart loads the genesis block and the tip.
LEMMA RestartKeepsInv ==
  ASSUME CacheInv, Restart
  PROVE  CacheInv'
<1> USE DEF CacheInv
<1>1. /\ nRestarts < MaxRestarts /\ pindexBest # Null /\ nRestarts' = nRestarts + 1
      /\ mapLoaded' = {Genesis, pindexBest'}
      /\ pnext' = [b \in Block |-> IF b \in mapLoaded' THEN diskNext[b] ELSE Null]
      /\ nLocks' = LockMoved(LockMoved([b \in Block |-> 0], Null, Genesis),
                             Null, pindexBest')
      /\ setKnown' = records
      /\ mapPrev' = [b \in Block |->
                        IF b \in records \ mapLoaded' THEN Prev[b] ELSE Null]
      /\ pindexGenesisBlock' = Genesis /\ pindex' = Null /\ nCount' = 0
      /\ pindexPrev' = Null /\ pblockindexFBBHLast' = Null /\ freed' = {}
      /\ pc' = "starting" /\ leftover' = {} /\ nDropped' = [b \in Block |-> 0]
      /\ setDropped' = {} /\ nSearches' = 0
      /\ pindexBest' \in {pindexBest, coinsBest} /\ coinsBest' = pindexBest'
      /\ UNCHANGED <<records, diskNext>>
  BY DEF Restart
<1>2. /\ Null \notin Block /\ Genesis \in Block /\ pindexBest' \in Block
      /\ BestChain' = Chain[pindexBest']
      /\ Prev \in [Block -> Block \cup {Null}]
  BY <1>1, TreeAssumption DEF BestChain, BlockMapTypeOK
<1>3. BestChain' \subseteq records /\ Genesis \in records /\ pindexBest' \in records
  <2>1. BestChain' \subseteq records
    BY <1>1, <1>2 DEF ContentsInv, DiskInv, BestChain
  <2> QED BY <1>2, <2>1, ChainType, RootedAssumption
<1>4. /\ nLocks' \in [Block -> Int]
      /\ \A x \in Block : nLocks'[x] =
            (IF x = Genesis THEN 1 ELSE 0) + (IF x = pindexBest' THEN 1 ELSE 0)
  BY <1>1, <1>2 DEF LockMoved
<1>5. BlockMapTypeOK'
  <2>1. 0 \in 0..(RescanInterval - 1) /\ 0 \in 0..MaxSearches
        /\ nRestarts + 1 \in 0..MaxRestarts
    BY <1>1, CacheAssumption DEF BlockMapTypeOK
  <2> QED BY <1>1, <1>2, <1>4, <2>1 DEF BlockMapTypeOK
<1>6. LinksInv' /\ DiskInv'
  BY <1>1, <1>2, <1>3 DEF LinksInv, DiskInv
<1>7. ContentsInv'
  BY <1>1, <1>2, <1>3, <1>4 DEF ContentsInv
<1>8. HoldersInv'
  BY <1>1, <1>2 DEF HoldersInv
<1>9. HeldStaysLoaded'
  <2>1. ASSUME NEW x \in mapLoaded'
        PROVE  nLocks'[x] = Holders(x)' - nDropped'[x]
    BY <1>1, <1>2, <1>4 DEF Holders
  <2> QED BY <2>1, <1>1 DEF HeldStaysLoaded
<1> QED BY <1>5, <1>6, <1>7, <1>8, <1>9

\* UnloadBlockIndex leaves only the indexes that were locked.
LEMMA RebuildKeepsInv ==
  ASSUME CacheInv, Rebuild
  PROVE  CacheInv' /\ leftover' \subseteq setKnown /\ freed' = {}
<1> USE DEF CacheInv
<1>1. /\ pc = "starting"
      /\ mapLoaded' = {b \in mapLoaded : Locked(b)}
      /\ pnext' = [b \in Block |-> IF b \in mapLoaded' THEN pnext[b] ELSE Null]
      /\ setKnown' = {} /\ mapPrev' = [b \in Block |-> Null]
      /\ pindexGenesisBlock' = Null /\ pindexBest' = Null
      /\ nLocks' = LockMoved(LockMoved(nLocks, pindexGenesisBlock, Null), pindexBest, Null)
      /\ records' = {} /\ diskNext' = [b \in Block |-> Null] /\ coinsBest' = Genesis
      /\ leftover' = mapLoaded' /\ pc' = "idle"
      /\ UNCHANGED <<pindex, nCount, pindexPrev, pblockindexFBBHLast, freed, nDropped,
                     setDropped, nSearches, nRestarts>>
  BY DEF Rebuild, scanVars, dropVars
<1>2. /\ pindex = Null /\ freed = {} /\ leftover = {} /\ pblockindexFBBHLast = Null
      /\ pindexPrev = Null /\ \A b \in Block : nDropped[b] = 0
      /\ Null \notin Block /\ BestChain' = {}
  BY <1>1, TreeAssumption DEF HoldersInv, BestChain
<1>3. /\ nLocks' \in [Block -> Int]
      /\ \A x \in Block : nLocks'[x] = 0
  <2>1. /\ nLocks' \in [Block -> Int]
        /\ \A x \in Block : nLocks'[x] = nLocks[x]
              - (IF x = pindexGenesisBlock THEN 1 ELSE 0)
              - (IF x = pindexBest THEN 1 ELSE 0)
    BY <1>1, <1>2 DEF LockMoved, BlockMapTypeOK
  <2>2. ASSUME NEW x \in Block
        PROVE  nLocks[x] = (IF x = pindexBest THEN 1 ELSE 0)
                           + (IF x = pindexGenesisBlock THEN 1 ELSE 0)
    BY <1>2, CountsExact DEF Holders
  <2> QED BY <2>1, <2>2
<1>4. BlockMapTypeOK'
  BY <1>1, <1>3, TreeAssumption DEF BlockMapTypeOK
<1>5. LinksInv' /\ DiskInv'
  BY <1>1, <1>2 DEF LinksInv, DiskInv
<1>6. ContentsInv'
  BY <1>1, <1>2, <1>3 DEF ContentsInv
<1>7. HoldersInv'
  BY <1>1, <1>2 DEF HoldersInv
<1>8. HeldStaysLoaded'
  <2>1. ASSUME NEW x \in mapLoaded'
        PROVE  nLocks'[x] = Holders(x)' - nDropped'[x]
    BY <1>1, <1>2, <1>3, <1>4 DEF Holders, BlockMapTypeOK
  <2> QED BY <2>1, <1>1, <1>2 DEF HeldStaysLoaded
<1>9. leftover' \subseteq setKnown
  BY <1>1, <1>2 DEF ContentsInv
<1> QED BY <1>1, <1>2, <1>4, <1>5, <1>6, <1>7, <1>8, <1>9

\* The steps of ScanForWalletTransactions.
LEMMA RescanKeepsInv ==
  ASSUME CacheInv, NEW b \in Block \cup {Null},
         RescanNext(b) \/ (b \in Block /\ StartRescan(b))
  PROVE  CacheInv'
<1> USE DEF CacheInv
<1>0. Null \notin Block /\ RescanInterval \in Nat \ {0}
  BY TreeAssumption, CacheAssumption
<1>1. CASE RescanNext(b)
  <2>1. /\ pc = "rescan" /\ (b # Null => b \in setKnown)
        /\ pindex' = b /\ nCount' = (nCount + 1) % RescanInterval
        /\ mapLoaded' = mapLoaded \cup ({b} \ {Null})
        /\ pnext' = LinksLoaded({b}) /\ mapPrev' = PrevLoaded({b})
        /\ nLocks' = LockMoved(nLocks, IF "scan" \in freed THEN Null ELSE pindex, b)
        /\ freed' = freed \ {"scan"}
        /\ pc' = IF nCount' = 0 THEN "rescancleanup"
                 ELSE IF b = Null THEN "idle" ELSE "rescan"
        /\ UNCHANGED <<setKnown, records, diskNext, coinsBest, pindexBest,
                       pindexGenesisBlock, pindexPrev, pblockindexFBBHLast, leftover,
                       nDropped, setDropped, nSearches, nRestarts>>
    BY <1>1 DEF RescanNext, diskVars, tipVars, dropVars
  <2>2. nCount' \in 0..(RescanInterval - 1)
    BY <2>1, <1>0 DEF BlockMapTypeOK
  <2>3. /\ pc' \in {"idle", "rescan", "rescancleanup"}
        /\ pc' = "idle" => b = Null
        /\ pc' = "rescan" => b # Null
    BY <2>1
  <2> DEFINE from == IF "scan" \in freed THEN Null ELSE pindex
  <2>4. nLocks' = LockMoved(nLocks, from, b) /\ from = IF "scan" \in freed THEN Null ELSE pindex
    BY <2>1
  <2> HIDE DEF from
  <2> QED BY <2>1, <2>2, <2>3, <2>4, ScanKeepsInv
<1>2. CASE b \in Block /\ StartRescan(b)
  <2>1. /\ pc = "idle" /\ b \in BestChain \cup {h \in Block : diskNext[h] # Null}
        /\ pindex' = b /\ nCount' = 0
        /\ mapLoaded' = mapLoaded \cup ({b} \ {Null})
        /\ pnext' = LinksLoaded({b}) /\ mapPrev' = PrevLoaded({b})
        /\ nLocks' = LockMoved(nLocks, Null, b)
        /\ pc' = "rescan"
        /\ UNCHANGED <<setKnown, records, diskNext, coinsBest, pindexBest,
                       pindexGenesisBlock, pindexPrev, pblockindexFBBHLast, freed,
                       leftover, nDropped, setDropped, nSearches, nRestarts>>
    BY <1>0, <1>2 DEF StartRescan, diskVars, tipVars, dropVars
  <2>2. /\ pindex = Null /\ "scan" \notin freed
        /\ b \in setKnown /\ b # Null
    BY <1>0, <1>2, <2>1 DEF HoldersInv, ContentsInv, DiskInv
  <2>3. /\ Null = (IF "scan" \in freed THEN Null ELSE pindex)
        /\ freed' = freed \ {"scan"}
        /\ nCount' \in 0..(RescanInterval - 1)
        /\ pc' \in {"idle", "rescan", "rescancleanup"} /\ pc' # "idle"
    BY <1>0, <2>1, <2>2
  <2> QED BY <2>1, <2>2, <2>3, ScanKeepsInv
<1> QED BY <1>1, <1>2

\* Steps that leave everything but pc and the answer alone.
LEMMA OtherKeepsInv ==
  ASSUME CacheInv,
         pc' = pc \/ (pc \in {"connect", "reconnect"} /\ pc' \in {"cleanup", "idle"})
            \/ (pc = "starting" /\ pc' = "reconnect"),
         UNCHANGED <<cacheVars, diskVars, tipVars, scanVars, pindexPrev,
                     pblockindexFBBHLast, freed, leftover, dropVars, nRestarts>>
  PROVE  CacheInv'
<1> USE DEF CacheInv
<1>1. UNCHANGED <<mapLoaded, pnext, nLocks, setKnown, mapPrev, records, diskNext,
                  coinsBest, pindexBest, pindexGenesisBlock, pindex, nCount, pindexPrev,
                  pblockindexFBBHLast, freed, leftover, nDropped, setDropped, nSearches,
                  nRestarts>>
  BY DEF cacheVars, diskVars, tipVars, scanVars, dropVars
<1>2. BlockMapTypeOK'
  BY <1>1 DEF BlockMapTypeOK
<1>3. LinksInv' /\ DiskInv' /\ ContentsInv'
  BY <1>1 DEF LinksInv, DiskInv, ContentsInv, BestChain
<1>4. HoldersInv'
  BY <1>1, LinkedSame DEF HoldersInv, BestChain
<1>5. HeldStaysLoaded'
  BY <1>1 DEF HeldStaysLoaded, Holders
<1> QED BY <1>2, <1>3, <1>4, <1>5

\* The tip of the chain that CancelBestBlock goes back to.
LEMMA CancelMovesToParent ==
  ASSUME CacheInv, CancelBestBlock
  PROVE  Prev[pindexBest] \in Block
BY TreeAssumption DEF CacheInv, BlockMapTypeOK, CancelBestBlock

\* Every step keeps the invariant.
LEMMA NextKeepsInv ==
  ASSUME CacheInv, [Next]_vars
  PROVE  CacheInv'
<1>1. ASSUME NEW b \in Block,
             AddToBlockIndex(b) \/ RefuseIndexedBlock(b) \/ FailToLoadAncestor(b)
      PROVE  CacheInv'
  <2>1. InsertIndex(b) /\ records' \in {records, records \cup {b}}
        /\ pc' \in {"idle", "connect", "cleanup"}
    BY <1>1 DEF AddToBlockIndex, RefuseIndexedBlock, FailToLoadAncestor
  <2> QED BY <2>1, InsertKeepsInv
<1>2. ASSUME NEW b \in Block, ConnectBestBlock(b)
      PROVE  CacheInv'
  BY <1>2, SetBestChainKeepsInv DEF ConnectBestBlock
<1>3. CASE CancelBestBlock
  BY <1>3, SetBestChainKeepsInv, CancelMovesToParent DEF CancelBestBlock
<1>4. ASSUME NEW b \in Block, PrevOf(b)
      PROVE  CacheInv'
  BY <1>4, OtherKeepsInv DEF PrevOf
<1>5. CASE ConnectingDone
  BY <1>5, OtherKeepsInv DEF ConnectingDone
<1>6. CASE StartUpDone
  BY <1>6, OtherKeepsInv DEF StartUpDone
<1>7. CASE Returned
  BY <1>7, OtherKeepsInv DEF Returned
<1>8. CASE UNCHANGED vars
  BY <1>8, OtherKeepsInv DEF vars
<1>9. ASSUME Step
      PROVE  CacheInv'
  <2>1. ASSUME NEW b \in Block, StartRescan(b)
        PROVE  CacheInv'
    BY <2>1, RescanKeepsInv
  <2>2. ASSUME NEW b \in Block \cup {Null}, RescanNext(b)
        PROVE  CacheInv'
    BY <2>2, RescanKeepsInv
  <2>3. ASSUME NEW b \in Block, NEW n \in 0..nHeight[b], FindBlockByHeight(n, b)
        PROVE  CacheInv'
    BY <2>3, FindBlockByHeightKeepsInv
  <2>4. CASE Rebuild
    BY <2>4, RebuildKeepsInv
  <2> QED BY <1>1, <1>2, <1>3, <1>4, <1>5, <1>6, <1>9, <2>1, <2>2, <2>3, <2>4,
             FindKeepsInv, CleanupKeepsInv, MinterKeepsInv, RestartKeepsInv DEF Step
<1> QED BY <1>7, <1>8, <1>9 DEF Next

\* The state InitBlockIndex leaves.
LEMMA InitCacheInv ==
  ASSUME Init
  PROVE  CacheInv
<1>0. /\ Null \notin Block /\ Genesis \in Block /\ Prev[Genesis] = Null
      /\ BestChain = {Genesis}
  BY TreeAssumption, ChainOfGenesis DEF Init, BestChain
<1>1. BlockMapTypeOK
  BY <1>0, CacheAssumption DEF Init, BlockMapTypeOK
<1>2. LinksInv /\ DiskInv
  BY <1>0, ChainOfGenesis DEF Init, LinksInv, DiskInv
<1>3. ContentsInv
  BY <1>0 DEF Init, ContentsInv
<1>4. HoldersInv
  BY <1>0 DEF Init, HoldersInv
<1>5. HeldStaysLoaded
  BY <1>0 DEF Init, HeldStaysLoaded, Holders
<1> QED BY <1>1, <1>2, <1>3, <1>4, <1>5 DEF CacheInv

\* The contents of the cache, its links and its counts of locks stay consistent with
\* the best chain and with the database.
THEOREM CacheConsistent == Spec => []CacheInv
BY InitCacheInv, NextKeepsInv, PTL DEF Spec

\* An index that a CLockedBlockIndex holds is not freed by BlockMap::cleanup unless
\* the minter's copy of it was destroyed, for any tree of blocks and kept height.
THEOREM HeldIndexesStay == Spec => []HeldStaysLoaded
<1>1. CacheInv => HeldStaysLoaded
  BY DEF CacheInv
<1> QED BY <1>1, CacheConsistent, PTL

--------------------------------------------------------------------------------
(* Each action implements an operation of IndexMap.                          *)

\* find answers like the map.
LEMMA FindIsMapFind ==
  ASSUME CacheInv, NEW h \in Block, Find(h)
  PROVE  Map!MapFind(h)
<1> USE DEF CacheInv
<1>1. UNCHANGED <<setKnown, records, pindexBest, coinsBest, diskNext, leftover, freed>>
  BY DEF Find, diskVars, tipVars
<1>2. CASE h \in setKnown \cup mapLoaded /\ pnext' = LinksLoaded({h})
           /\ answer' = [op |-> "found", hash |-> h, pprev |-> Prev[h], pnext |-> pnext'[h]]
  <2>1. CASE h \in leftover
    BY <1>1, <1>2, <2>1 DEF Map!MapFind
  <2>2. CASE h \notin leftover
    <3>1. h \in setKnown
      BY <1>2, <2>2 DEF ContentsInv
    <3>2. pnext'[h] = diskNext[h]
      BY <1>2, <2>2, LoadLinks
    <3> QED BY <1>1, <1>2, <3>1, <3>2 DEF Map!MapFind, Map!Entry
  <2> QED BY <2>1, <2>2
<1>3. CASE h \in setKnown /\ ~Readable(h) /\ answer' = [op |-> "throws", hash |-> h]
  BY <1>1, <1>3 DEF Map!MapFind, Readable
<1>4. CASE h \notin setKnown /\ answer' = [op |-> "end", hash |-> h]
  BY <1>1, <1>4 DEF Map!MapFind, Map!Entry
<1> QED BY <1>2, <1>3, <1>4 DEF Find

\* prev answers like the map.
LEMMA PrevIsMapPrev ==
  ASSUME CacheInv, NEW h \in Block, PrevOf(h)
  PROVE  Map!MapPrev(h)
<1> USE DEF CacheInv
<1>1. /\ UNCHANGED <<setKnown, records, pindexBest, coinsBest, diskNext, leftover, freed>>
      /\ answer' = [op |-> "prev", hash |-> h,
                    pprev |-> IF h \in mapLoaded THEN Prev[h] ELSE mapPrev[h]]
  BY DEF PrevOf, cacheVars, diskVars, tipVars
<1>2. CASE h \in leftover
  BY <1>1, <1>2 DEF Map!MapPrev
<1>3. CASE h \notin leftover
  <2>1. (IF h \in mapLoaded THEN Prev[h] ELSE mapPrev[h])
           = IF h \in setKnown THEN Prev[h] ELSE Null
    BY <1>3 DEF ContentsInv
  <2> QED BY <1>1, <2>1 DEF Map!MapPrev
<1> QED BY <1>2, <1>3

\* SetBestChain moves the tip of the map.
LEMMA SetBestChainIsSetTip ==
  ASSUME CacheInv, NEW b \in Block, SetBestChain(b), answer = Silent
  PROVE  Map!MapSetTip(b)
<1> USE DEF CacheInv
<1>1. /\ Touched(b) \subseteq setKnown
      /\ records' = records \cup (Chain[b] \ BestChain)
      /\ pindexBest' = b /\ freed' = freed \ {"last"}
      /\ diskNext' = Relinked(diskNext, b) /\ coinsBest' \in {coinsBest, b}
      /\ UNCHANGED <<answer, setKnown, leftover>>
  BY DEF SetBestChain, FlushCoins
<1>2. b \in setKnown /\ Chain[b] \ BestChain \subseteq setKnown
  BY <1>1 DEF Touched
<1>3. ("last" \in freed') = FALSE
  BY <1>1
<1>4. diskNext' = [h \in Block |->
                      IF Map!Successor(h, b) # Map!Successor(h, pindexBest)
                      THEN Map!Successor(h, b) ELSE diskNext[h]]
  <2>1. pindexBest \in Block \cup {Null}
    BY DEF BlockMapTypeOK
  <2>2. Relinked(diskNext, b) = [h \in Block |-> Relinked(diskNext, b)[h]]
    BY DEF Relinked
  <2> HIDE DEF CacheInv
  <2> QED BY <1>1, <2>1, <2>2, RelinkedIs
<1> QED BY <1>1, <1>2, <1>3, <1>4 DEF Map!MapSetTip, Map!Silent, Silent, ContentsInv

\* BlockMap implements IndexMap: every lookup gives what a std::map of all indexes
\* would, for any tree of blocks and any schedule of clean-ups and restarts.
THEOREM ImplementsMap == Spec => BehavesLikeMap
<1>1. Init => Map!MapInit
  BY DEF Init, Map!MapInit, Map!Silent, Silent
<1>2. ASSUME CacheInv, [Next]_vars
      PROVE  [Map!MapNext]_(Map!mapVars)
  <2>1. ASSUME NEW b \in Block, answer = Silent,
               AddToBlockIndex(b) \/ RefuseIndexedBlock(b) \/ FailToLoadAncestor(b)
        PROVE  Map!MapNext
    <3>1. Map!MapInsert(b)
      BY <2>1 DEF AddToBlockIndex, RefuseIndexedBlock, FailToLoadAncestor, InsertIndex,
                  tipVars, Map!MapInsert, Map!Silent, Silent
    <3> QED BY <3>1 DEF Map!MapNext
  <2>2. ASSUME NEW b \in Block, answer = Silent, ConnectBestBlock(b)
        PROVE  Map!MapNext
    BY <1>2, <2>2, SetBestChainIsSetTip DEF ConnectBestBlock, Map!MapNext
  <2>3. ASSUME answer = Silent, CancelBestBlock
        PROVE  Map!MapNext
    BY <1>2, <2>3, SetBestChainIsSetTip, CancelMovesToParent
       DEF CancelBestBlock, Map!MapNext
  <2>4. ASSUME NEW b \in Block, Find(b) \/ PrevOf(b)
        PROVE  Map!MapNext
    BY <1>2, <2>4, FindIsMapFind, PrevIsMapPrev DEF Map!MapNext
  <2>5. ASSUME NEW b \in Block, NEW n \in 0..nHeight[b], FindBlockByHeight(n, b)
        PROVE  Map!MapNext
    <3>1. "last" \notin freed => nHeight[b] = n /\ (Map!Linked => b \in BestChain)
      BY <1>2, <2>5, FindBlockByHeightKeepsInv
    <3>2. /\ pindexBest # Null
          /\ answer' = [op |-> "height", height |-> n, hash |-> b]
          /\ UNCHANGED <<setKnown, records, pindexBest, coinsBest, diskNext, leftover, freed>>
      BY <2>5 DEF FindBlockByHeight, diskVars, tipVars
    <3>3. Map!MapFindByHeight
      BY <3>1, <3>2 DEF Map!MapFindByHeight, BestChain
    <3> QED BY <3>3 DEF Map!MapNext
  <2>6. ASSUME answer = Silent, Restart
        PROVE  Map!MapNext
    <3>1. Map!MapRestart
      BY <2>6 DEF Restart, Map!MapRestart, Map!Silent, Silent
    <3> QED BY <3>1 DEF Map!MapNext
  <2>7. ASSUME answer = Silent, Rebuild
        PROVE  Map!MapNext
    <3>1. leftover' \subseteq setKnown /\ freed' = {}
      BY <1>2, <2>7, RebuildKeepsInv
    <3>2. Map!MapRebuild
      BY <2>7, <3>1 DEF Rebuild, Map!MapRebuild, Map!Silent, Silent
    <3> QED BY <3>2 DEF Map!MapNext
  <2>8. ASSUME answer' = Silent, "last" \in freed => "last" \in freed',
               UNCHANGED <<setKnown, records, pindexBest, coinsBest, diskNext, leftover>>
        PROVE  Map!MapNext
    <3>1. ("last" \in freed') \in {"last" \in freed, TRUE}
      <4>1. CASE "last" \in freed'
        <5>1. ("last" \in freed') = TRUE
          BY <4>1, Zenon
        <5> QED BY <5>1, Zenon
      <4>2. CASE "last" \notin freed'
        <5>1. "last" \notin freed
          BY <2>8, <4>2
        <5>2. ("last" \in freed') = FALSE /\ ("last" \in freed) = FALSE
          BY <5>1, <4>2
        <5> QED BY <5>2, Zenon
      <4> QED BY <4>1, <4>2
    <3>2. Map!MapOther
      BY <2>8, <3>1 DEF Map!MapOther, Map!Silent, Silent
    <3> QED BY <3>2 DEF Map!MapNext
  <2>9. ASSUME answer = Silent,
               \/ \E b \in Block : StartRescan(b)
               \/ \E b \in Block \cup {Null} : RescanNext(b)
               \/ ConnectingDone \/ Cleanup \/ MinterCopiesTip \/ MinterDestroysCopy
               \/ StartUpDone
        PROVE  Map!MapNext
    <3>1. /\ answer' = Silent
          /\ "last" \in freed => "last" \in freed'
          /\ UNCHANGED <<setKnown, records, pindexBest, coinsBest, diskNext, leftover>>
      BY <2>9 DEF StartRescan, RescanNext, ConnectingDone, Cleanup, Unload,
                  MinterCopiesTip, MinterDestroysCopy, StartUpDone, cacheVars, diskVars,
                  tipVars
    <3> QED BY <3>1, <2>8
  <2>10. CASE Returned
    BY <2>8, <2>10 DEF Returned, cacheVars, diskVars, tipVars
  <2>11. CASE UNCHANGED vars
    BY <2>11 DEF vars, cacheVars, diskVars, tipVars, Map!mapVars
  <2> QED BY <1>2, <2>1, <2>2, <2>3, <2>4, <2>5, <2>6, <2>7, <2>9, <2>10, <2>11
          DEF Next, Step
<1> QED BY <1>1, <1>2, CacheConsistent, PTL DEF Spec, BehavesLikeMap, Map!MapSpec

================================================================================
