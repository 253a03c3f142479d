-------------------------------- MODULE MCMinter --------------------------------
(***************************************************************************)
(* The wallet owns both outputs of c1 in block 1; u1 pays one of them to   *)
(* itself.  Peers send 0, 1, 3 and 4: 3 holds u1 and has the invalid child *)
(* 4, which stakes what u1 spent and has more trust than 2, so that a      *)
(* reorganisation to it fails after the wallet was told of 3.  On 1 the    *)
(* node may mint 2, which stakes the first output and grants k its coins;  *)
(* or 5, whose stake conflicts with the payment u1 in the same block, or   *)
(* 6, which stakes the output of u1 while u1 is in the pool.  A tip that   *)
(* moves while the coinstake is searched gives 7, above 3 with the grants  *)
(* of 1, and 8, which stakes what 2 spent.                                 *)
(***************************************************************************)
EXTENDS Minter

MintBlock == 0 .. 8
MintPrev == [b \in MintBlock |-> CASE b = 0 -> Null [] b = 1 -> 0
                                   [] b \in {2, 3, 5, 6} -> 1
                                   [] b \in {4, 7} -> 3
                                   [] b = 8 -> 2]
MintTrust == [b \in MintBlock |-> IF b \in {2, 4} THEN 2 ELSE 1]
MintPeerBlock == {0, 1, 3, 4}

In(t, n) == <<t, n>>
TxRecord(kind, unit, vin, vout) ==
    [kind |-> kind, unit |-> unit, vin |-> vin, vout |-> vout]

Txs == [c1 |-> TxRecord("coinbase", "S", {}, <<5, 5>>),
        s2 |-> TxRecord("coinstake", "S", {In("c1", 1)}, <<5>>),
        u1 |-> TxRecord("user", "S", {In("c1", 2)}, <<4>>),
        s5 |-> TxRecord("coinstake", "S", {In("c1", 2)}, <<5>>),
        s6 |-> TxRecord("coinstake", "S", {In("u1", 1)}, <<4>>),
        g2 |-> TxRecord("grant", "B", {}, <<1>>)]

MintTx == DOMAIN Txs
MintKind == [t \in MintTx |-> Txs[t].kind]
MintUnit == [t \in MintTx |-> Txs[t].unit]
MintVin == [t \in MintTx |-> Txs[t].vin]
MintVout == [t \in MintTx |-> Txs[t].vout]
MintDuration == [t \in MintTx |-> [n \in DOMAIN Txs[t].vout |-> 0]]
MintVtx == [b \in MintBlock |-> CASE b = 0 -> <<>>
                                  [] b = 1 -> <<"c1">>
                                  [] b = 2 -> <<"s2", "g2", "u1">>
                                  [] b = 3 -> <<"u1">>
                                  [] b = 4 -> <<"s5">>
                                  [] b = 5 -> <<"s5", "g2", "u1">>
                                  [] b = 6 -> <<"s6", "g2">>
                                  [] b = 7 -> <<"s2", "g2">>
                                  [] b = 8 -> <<"s2">>]
MintPremium == [t \in MintTx |-> [b \in MintBlock |-> 0]]
MintMaturity == [k \in {"coinbase", "coinstake"} |-> 0]
MintMinFee == [t \in MintTx |-> [b \in MintBlock \cup {Null} |-> 1]]
MintStakeReward == [b \in MintBlock |-> 0]
MintMine == {In("c1", 1), In("c1", 2), In("u1", 1)}
MintWinners == [b \in MintBlock |-> IF b \in {1, 2} THEN {"k"} ELSE {}]
MintCustodian == [t \in {"g2"} |-> "k"]

================================================================================
