CONSTANTS
    owner = owner
    alice = alice
    bob = bob
    NoAccount = NoAccount
    AuctionIds = {g}
    Users <- MCPlanUsers
    Funds <- MCPlanFunds
    ContractBankRent = 2
    ProtocolFeeRent = 1
    PoolBaseRent = 1
    PoolSlotRent = 1
    DEFAULT_PROTOCOL_FEE = 0
    MaxProtocolFee = 1
    FeeScale = 2
    PoolLens = {1}
    Fees = {}
    Withdrawals = {}
    NewAuthorities = {}
    RootStateRent = 1
    CycleStateRent = 1
    BankRent = 1
    MAX_BID_HISTORY_LENGTH = 1
    ALLOWED_AUCTION_IDLE_PERIOD = 100
    ALLOWED_CONSECUTIVE_IDLE_CYCLES = 1
    UNIVERSAL_BID_FLOOR = 1
    MIN_CYCLE_PERIOD = 2
    MAX_CYCLE_PERIOD = 4
    MaxCycle = 3
    MaxUnclaimed = 2
    Owners <- MCOwners
    Bidders <- MCAlice
    Payers <- MCOwners
    AuctionConfigs <- ThreeCycles
    StartTimes = {}
    EncorePeriods = {}
    BidAmounts = {1}
    ClaimAmounts = {1}
    DeleteBatches = {}
    Filters = {TRUE, FALSE}
    Verified = {}
    Deposits = {}
    Genesis = 1
    MaxTime = 7
    RECOMMENDED_CYCLE_STATES_DELETED_PER_CALL = 2
SPECIFICATION ClientSpec
INVARIANTS
    StartedDeletionGoesOn
PROPERTIES
    DeletionEnds
CHECK_DEADLOCK FALSE
