-------------------------------- MODULE IndexMap --------------------------------
(***************************************************************************)
(* What the rest of the node takes mapBlockIndex for: a                    *)
(* std::map<uint256, CBlockIndex*> that has an entry for every block that  *)
(* was ever inserted, in which the entries of the best chain are linked.   *)
(* It knows nothing of loading and unloading.                              *)
(*                                                                         *)
(* blockmap.h says that BlockMap behaves "mostly" like that.  The          *)
(* liberties this specification gives it are what "mostly" comes to:       *)
(* looking up an entry that was never written may throw, hashes whose      *)
(* index survived a rebuild of the databases answer what they did before,  *)
(* and FindBlockByHeight is lost once the index it remembers is freed.     *)
(* And a restart may go back to an older tip, that of the coins when they  *)
(* were last written, while the links stay those of the tip that was lost: *)
(* FindBlockByHeight may then follow them out of the best chain.           *)
(***************************************************************************)
CONSTANTS
    Block,      \* hashes of blocks
    Genesis,    \* the hash of the genesis block
    Null,       \* no block
    Prev,       \* hashPrevBlock of each block, Null for Genesis
    Chain,      \* the blocks of the chain that ends in each block
    nHeight     \* the height of each block

VARIABLES
    known,      \* blocks with an entry
    durable,    \* entries that were written to the database
    tip,        \* the best block, or Null
    flushed,    \* the best block a restart may go back to
    next,       \* the successor that each entry is linked to
    odd,        \* hashes that outlived a rebuild of the databases
    lost,       \* the index remembered by FindBlockByHeight is gone
    answer      \* what the last operation returned, if it was a lookup

mapVars == <<known, durable, tip, flushed, next, odd, lost, answer>>

\* The successor of a block in the chain that ends in t.
Successor(h, t) ==
    IF t # Null /\ \E c \in Chain[t] : Prev[c] = h
    THEN CHOOSE c \in Chain[t] : Prev[c] = h
    ELSE Null

\* The links are those of the best chain.
Linked == \A h \in Block : next[h] = Successor(h, tip)

Silent == [op |-> "none"]

\* The entry of a hash: its links, or none.
Entry(h) ==
    IF h \in known
    THEN [op |-> "found", hash |-> h, pprev |-> Prev[h], pnext |-> next[h]]
    ELSE [op |-> "end", hash |-> h]

MapInit ==
    /\ known = {Genesis}
    /\ durable = {Genesis}
    /\ tip = Genesis
    /\ flushed = Genesis
    /\ next = [h \in Block |-> Null]
    /\ odd = {}
    /\ lost = FALSE
    /\ answer = Silent

MapInsert(h) ==
    /\ h \notin known
    /\ known' = known \cup {h}
    /\ durable' \in {durable, durable \cup {h}}
    /\ answer' = Silent
    /\ UNCHANGED <<tip, flushed, next, odd, lost>>

\* The tip moves and what lies between the tips is linked anew, entries may be written,
\* and FindBlockByHeight starts afresh.
MapSetTip(t) ==
    /\ t \in known
    /\ tip' = t
    /\ flushed' \in {flushed, t}
    /\ next' = [h \in Block |->
                  IF Successor(h, t) # Successor(h, tip) THEN Successor(h, t) ELSE next[h]]
    /\ durable \subseteq durable' /\ durable' \subseteq known
    /\ lost' = FALSE
    /\ answer' = Silent
    /\ UNCHANGED <<known, odd>>

MapFind(h) ==
    /\ \/ answer' = Entry(h)
       \/ h \in known \ durable /\ answer' = [op |-> "throws", hash |-> h]
       \/ h \in odd /\ answer'.op \in {"found", "end"} /\ answer'.hash = h
    /\ UNCHANGED <<known, durable, tip, flushed, next, odd, lost>>

\* prev: the hash before a hash, without loading anything.
MapPrev(h) ==
    /\ answer'.op = "prev" /\ answer'.hash = h
    /\ \/ answer' = [op |-> "prev", hash |-> h,
                     pprev |-> IF h \in known THEN Prev[h] ELSE Null]
       \/ h \in odd
    /\ UNCHANGED <<known, durable, tip, flushed, next, odd, lost>>

\* FindBlockByHeight: the block of the best chain at a height, or of the chain that
\* the links follow.
MapFindByHeight ==
    /\ tip # Null
    /\ answer'.op = "height"
    /\ lost \/ nHeight[answer'.hash] = answer'.height
    /\ lost \/ ~Linked \/ answer'.hash \in Chain[tip]
    /\ UNCHANGED <<known, durable, tip, flushed, next, odd, lost>>

\* Anything else that goes on: the remembered index may be freed.
MapOther ==
    /\ lost' \in {lost, TRUE}
    /\ answer' = Silent
    /\ UNCHANGED <<known, durable, tip, flushed, next, odd>>

\* A restart keeps what was written, the links with it, and may lose tips.
MapRestart ==
    /\ known' = durable
    /\ odd' = {}
    /\ lost' = FALSE
    /\ answer' = Silent
    /\ tip' \in {tip, flushed}
    /\ flushed' = tip'
    /\ UNCHANGED <<durable, next>>

\* The databases are built again from the block files.
MapRebuild ==
    /\ known' = {}
    /\ durable' = {}
    /\ tip' = Null
    /\ flushed' = Genesis
    /\ next' = [h \in Block |-> Null]
    /\ odd' \subseteq known
    /\ lost' = FALSE
    /\ answer' = Silent

MapNext ==
    \/ \E h \in Block : MapInsert(h) \/ MapSetTip(h) \/ MapFind(h) \/ MapPrev(h)
    \/ MapFindByHeight \/ MapOther \/ MapRestart \/ MapRebuild

MapSpec == MapInit /\ [][MapNext]_mapVars

================================================================================
