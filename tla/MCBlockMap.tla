------------------------------- MODULE MCBlockMap -------------------------------
(***************************************************************************)
(* A tree of blocks for model checking BlockMap: the line 0-1-2, block 3,  *)
(* a child of 0 whose votes are wrong, and 4, a child of 3 that outweighs  *)
(* the line.  With no kept height 1 and 3 are freed once the tip is above. *)
(***************************************************************************)
EXTENDS BlockMap, TLC

MCBlock == 0..4
MCPrev == (0 :> Null @@ 1 :> 0 @@ 2 :> 1 @@ 3 :> 0 @@ 4 :> 3)
MCTrust == [b \in MCBlock |-> IF b = 4 THEN 3 ELSE 1]

================================================================================
