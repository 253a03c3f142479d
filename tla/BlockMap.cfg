SPECIFICATION Spec
CONSTANTS
    Null = Null
    Genesis = 0
    Block <- MCBlock
    Prev <- MCPrev
    BlockTrust <- MCTrust
    BadIndex = {3}
    Download = {0}
    BLOCK_MAP_KEPT_HEIGHT = 0
    RescanInterval = 1
    MaxSearches = 1
    MaxRestarts = 1
CHECK_DEADLOCK FALSE
INVARIANTS
    HeldStaysLoaded
PROPERTIES
    BehavesLikeMap
