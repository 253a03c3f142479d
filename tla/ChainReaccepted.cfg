SPECIFICATION Spec
CONSTANTS
    Null = Null
    Genesis = 0
    Block <- DupBlock
    Prev <- DupPrev
    BlockTrust <- DupTrust
    Coin = {"k1", "k2"}
    Origin <- DupOrigin
    StakeOf <- DupStake
    StakeTime <- DupTime
    BadCheck = {}
    BadAccept = {}
    BadIndex = {}
    ConnectResult <- DupConnect
    Wanted = {}
    Download = {1, 2}
    MaxRestarts = 1
CHECK_DEADLOCK FALSE
INVARIANTS
    BestChainNotFailed
