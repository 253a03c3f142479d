SPECIFICATION Spec
CONSTANTS
    Null = Null
    Genesis = 0
    Block <- ErrorBlock
    Prev <- ErrorPrev
    BlockTrust <- ErrorTrust
    Coin = {"k1"}
    Origin <- NoOrigin
    StakeOf <- NoStake
    StakeTime <- NoTime
    BadCheck = {}
    BadAccept = {}
    BadIndex = {}
    ConnectResult <- ErrorConnect
    Wanted = {}
    Download = {}
    MaxRestarts = 1
CHECK_DEADLOCK FALSE
INVARIANTS
    BestCandidateChosen
