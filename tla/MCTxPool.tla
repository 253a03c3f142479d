-------------------------------- MODULE MCTxPool --------------------------------
(***************************************************************************)
(* A small tree of blocks that move, park and stake the coins of block 1,  *)
(* the last checkpoint.  The branches 2-3-7 and 4-5 share the parking of   *)
(* p1, and spend the output of v1 in block 1 by different transactions: 7  *)
(* spends it again and is invalid.  6, also above 4, unparks p1 with the   *)
(* premium of the other branch and is refused with a plain error.  The fee *)
(* of u3 does not do above block 2.  u3 spends two outputs of u2, so that  *)
(* it may arrive as an orphan; x1 parks shares, which is refused.          *)
(***************************************************************************)
EXTENDS TxPool

PoolBlock == 0 .. 7
PoolPrev == [b \in PoolBlock |-> CASE b = 0 -> Null [] b = 1 -> 0 [] b = 2 -> 1
                                   [] b = 3 -> 2 [] b = 4 -> 1 [] b = 5 -> 4
                                   [] b = 6 -> 4 [] b = 7 -> 3]
PoolTrust == [b \in PoolBlock |-> 1]

In(t, n) == <<t, n>>
TxRecord(kind, unit, vin, vout, durations) ==
    [kind |-> kind, unit |-> unit, vin |-> vin, vout |-> vout, durations |-> durations]

Txs == [c1 |-> TxRecord("coinbase", "S", {}, <<4, 3>>, <<0, 0>>),
        g1 |-> TxRecord("grant", "B", {}, <<6, 7>>, <<0, 0>>),
        v1 |-> TxRecord("user", "B", {In("g1", 2)}, <<6>>, <<0>>),
        s2 |-> TxRecord("coinstake", "S", {In("c1", 1)}, <<5>>, <<0>>),
        p1 |-> TxRecord("user", "B", {In("g1", 1)}, <<5>>, <<1>>),
        q1 |-> TxRecord("unpark", "B", {In("p1", 1)}, <<6>>, <<0>>),
        u2 |-> TxRecord("user", "B", {In("v1", 1)}, <<2, 3>>, <<0, 0>>),
        u3 |-> TxRecord("user", "B", {In("u2", 1), In("u2", 2)}, <<4>>, <<0>>),
        w1 |-> TxRecord("user", "B", {In("v1", 1)}, <<5>>, <<0>>),
        x1 |-> TxRecord("user", "S", {In("c1", 2)}, <<2>>, <<1>>)]

PoolTx == DOMAIN Txs
PoolKind == [t \in PoolTx |-> Txs[t].kind]
PoolUnit == [t \in PoolTx |-> Txs[t].unit]
PoolVin == [t \in PoolTx |-> Txs[t].vin]
PoolVout == [t \in PoolTx |-> Txs[t].vout]
PoolDuration == [t \in PoolTx |-> Txs[t].durations]
PoolVtx == [b \in PoolBlock |-> CASE b = 0 -> <<>> [] b = 1 -> <<"c1", "g1", "v1">>
                                  [] b = 2 -> <<"s2", "p1">> [] b = 3 -> <<"w1", "q1">>
                                  [] b = 4 -> <<"p1", "u2">> [] b = 5 -> <<"u3">>
                                  [] b = 6 -> <<"q1">> [] b = 7 -> <<"u2">>]
PoolPremium == [t \in PoolTx |-> [b \in PoolBlock |-> IF b = 4 THEN 2 ELSE 1]]
PoolMinFee ==
    [t \in PoolTx |->
        [b \in PoolBlock \cup {Null} |-> IF t = "u3" /\ b = 2 THEN 2 ELSE 1]]
PoolStakeReward == [b \in PoolBlock |-> 1]
PoolMaturity == [k \in {"coinbase", "coinstake"} |-> 1]

================================================================================
