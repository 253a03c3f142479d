SPECIFICATION Spec
CONSTANTS
    Null = Null
    Genesis = 0
    Block <- PoolBlock
    Prev <- PoolPrev
    BlockTrust <- PoolTrust
    Tx <- PoolTx
    Kind <- PoolKind
    Unit <- PoolUnit
    Vin <- PoolVin
    Vout <- PoolVout
    Duration <- PoolDuration
    Vtx <- PoolVtx
    Premium <- PoolPremium
    BadTime = {}
    BadInput = {}
    Maturity <- PoolMaturity
    MinFee <- PoolMinFee
    StakeReward <- PoolStakeReward
    TotalBlocksEstimate = 1
    Download = {1, 2}
    MaxRestarts = 1
    MAX_ORPHAN_TRANSACTIONS = 0
CHECK_DEADLOCK FALSE
INVARIANTS
    TypeOK
    CoinsExact
    DisconnectsClean
    SupplyExact
    NextTxExact
    PoolNotInChain
    PoolConnected
PROPERTIES
    VerdictStable
