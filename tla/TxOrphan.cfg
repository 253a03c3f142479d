SPECIFICATION Spec
CONSTANTS
    Null = Null
    Genesis = 0
    Block <- PoolBlock
    Prev <- PoolPrev
    BlockTrust <- PoolTrust
    Tx <- PoolTx
    Kind <- PoolKind
    Unit <- PoolUnit
    Vin <- PoolVin
    Vout <- PoolVout
    Duration <- PoolDuration
    Vtx <- PoolVtx
    Premium <- PoolPremium
    BadTime = {}
    BadInput = {}
    Maturity <- PoolMaturity
    MinFee <- PoolMinFee
    StakeReward <- PoolStakeReward
    TotalBlocksEstimate = 0
    Download = {}
    MaxRestarts = 0
    MAX_ORPHAN_TRANSACTIONS = 1
CHECK_DEADLOCK FALSE
PROPERTIES
    OrphansGivenUpInvalid
