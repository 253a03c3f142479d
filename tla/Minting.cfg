SPECIFICATION MinterSpec
CONSTANTS
    Null = Null
    Genesis = 0
    Block <- MintBlock
    Prev <- MintPrev
    BlockTrust <- MintTrust
    Tx <- MintTx
    Kind <- MintKind
    Unit <- MintUnit
    Vin <- MintVin
    Vout <- MintVout
    Duration <- MintDuration
    Vtx <- MintVtx
    Premium <- MintPremium
    BadTime = {}
    BadInput = {}
    Maturity <- MintMaturity
    MinFee <- MintMinFee
    StakeReward <- MintStakeReward
    TotalBlocksEstimate = 0
    Download = {1, 3}
    MaxRestarts = 1
    MAX_ORPHAN_TRANSACTIONS = 1
    Mine <- MintMine
    MaturityMargin = 1
    LocatorInterval = 3
    DownloadInterval = 6
    MintSessions = 1
    PeerBlock <- MintPeerBlock
    Winners <- MintWinners
    Custodian <- MintCustodian
CHECK_DEADLOCK FALSE
INVARIANTS
    MinterTypeOK
    OwnTransactionsKnown
    MarksFollowChain
    MintedBlocksConnect
    AbortsOnlyIfMisled
PROPERTIES
    RefusedOnlyIfMoved
