SPECIFICATION FairSpec
CONSTANTS
    Null = Null
    Genesis = 0
    Block <- ForkBlock
    Prev <- ForkPrev
    BlockTrust <- ForkTrust
    Coin = {"k1", "k2"}
    Origin <- ForkOrigin
    StakeOf <- ForkStake
    StakeTime <- ForkTime
    BadCheck = {}
    BadAccept = {9}
    BadIndex = {8}
    ConnectResult <- ForkConnect
    Wanted = {}
    Download = {1, 2, 4}
    MaxRestarts = 1
CHECK_DEADLOCK FALSE
INVARIANTS
    TypeOK
    BestCandidateChosen
PROPERTIES
    MessageHandled
