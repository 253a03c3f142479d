SPECIFICATION Spec
CONSTANTS
    a = a
    b = b
    Address <- Custodians
    ShareAddress <- Shares
    BlockInput <- FeeAndGrantInputs
    Duration <- NoDurations
    MaxHeight = 7
    UIntRange = 100000
    FEE_VOTES = 4
    MAX_MONEY = 100
    COIN_PARK_RATE = 4
    MAX_PARK_DURATION = 16
    RateEncodedPercentage = 1000
    BlocksInYear = 4
    PROOF_OF_WORK_BLOCKS = 1
    PARK_RATE_VOTES = 3
    PARK_RATE_PREVIOUS_VOTES = 2
    PARK_RATE_VOTE_DELAY = 1
    CUSTODIAN_VOTES = 3
    FEE_VOTE_DELAY_BLOCKS = 2
    SAFE_FEE_BLOCKS = 2
    DefaultFee = 2
    PROTOCOL_SWITCH_REQUIRE_VOTES = 2
    PROTOCOL_SWITCH_COUNT_VOTES = 3
    PROTOCOL_V2_0_VOTE_TIME = 1
INVARIANTS
    TypeOK
    ProtocolByVote
    VotedFeeIsMedian
    SafeFeeSuffices
    ElectedOnce
    ElectedByMajority
CHECK_DEADLOCK FALSE
