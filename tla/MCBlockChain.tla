------------------------------ MODULE MCBlockChain ------------------------------
(***************************************************************************)
(* Small trees of blocks for model checking BlockChain.  Every block may   *)
(* arrive in any order, so that each tree also yields its orphans, its     *)
(* reorganisations and its forks.                                          *)
(***************************************************************************)
EXTENDS BlockChain, TLC

\* A tree with three forks: above block 1 the branches 2-3 and 4-5-6, above 2 the
\* branch 7-8, above 3 block 9.  4 outweighs 2 and 3 together, and 7 outweighs 4
\* although its parent does not; 5 is invalid, the votes of 8 are wrong, 9 is
\* refused by AcceptBlock, and the coin staked by 3 was created by 2.
ForkBlock == 0..9
ForkPrev == (0 :> Null @@ 1 :> 0 @@ 2 :> 1 @@ 3 :> 2 @@ 4 :> 1 @@ 5 :> 4
             @@ 6 :> 5 @@ 7 :> 2 @@ 8 :> 7 @@ 9 :> 3)
ForkTrust == [b \in ForkBlock |-> IF b \in {4, 7} THEN 3 ELSE 1]
ForkStake == [b \in ForkBlock |-> IF b = 3 THEN "k1" ELSE
                                  IF b = 6 THEN "k2" ELSE Null]
ForkOrigin == ("k1" :> 2 @@ "k2" :> 0)
ForkTime == [b \in ForkBlock |-> b]
ForkConnect == [b \in ForkBlock |-> IF b = 5 THEN "invalid" ELSE "ok"]

\* Blocks 2 and 3 are children of 1 that stake the same coin at the same time;
\* 4 is a child of 2, 5 and 6 are children of 3, and 4 and 7, a child of 1, are
\* heavier than the others.  5 stakes the coin of 4 at another time; 6 is invalid,
\* and 8, a heavy child of 2, is refused with an error that does not count as invalid.
DupBlock == 0..8
DupPrev == (0 :> Null @@ 1 :> 0 @@ 2 :> 1 @@ 3 :> 1 @@ 4 :> 2 @@ 5 :> 3
            @@ 6 :> 3 @@ 7 :> 1 @@ 8 :> 2)
DupTrust == [b \in DupBlock |-> IF b \in {4, 7, 8} THEN 2 ELSE 1]
DupStake == [b \in DupBlock |-> IF b \in {2, 3} THEN "k1" ELSE
                                IF b \in {4, 5} THEN "k2" ELSE Null]
DupOrigin == ("k1" :> 0 @@ "k2" :> 1)
DupTime == [b \in DupBlock |-> IF b = 5 THEN 2 ELSE 1]
DupConnect == [b \in DupBlock |-> IF b = 6 THEN "invalid" ELSE
                                  IF b = 8 THEN "error" ELSE "ok"]

\* Block 1 has the children 2 and 4; 3 is a child of 2.  Block 3 is refused by
\* ConnectBlock with an error that does not count as invalid (an unpark that does
\* not pay what it must), and 4 outweighs 2.
ErrorBlock == 0..4
ErrorPrev == (0 :> Null @@ 1 :> 0 @@ 2 :> 1 @@ 3 :> 2 @@ 4 :> 1)
ErrorTrust == [b \in ErrorBlock |-> IF b = 3 THEN 3 ELSE IF b = 4 THEN 2 ELSE 1]
ErrorConnect == [b \in ErrorBlock |-> IF b = 3 THEN "error" ELSE "ok"]
NoStake == [b \in ErrorBlock |-> Null]
NoOrigin == ("k1" :> 0)
NoTime == [b \in ErrorBlock |-> 0]

================================================================================
