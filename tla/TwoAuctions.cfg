CONSTANTS
    owner = owner
    alice = alice
    bob = bob
    NoAccount = NoAccount
    AuctionIds = {g, h}
    Users <- MCUsers
    Funds <- MCScarceFunds
    ContractBankRent = 2
    ProtocolFeeRent = 1
    PoolBaseRent = 1
    PoolSlotRent = 1
    DEFAULT_PROTOCOL_FEE = 1
    MaxProtocolFee = 1
    FeeScale = 2
    PoolLens = {1, 2}
    Fees = {}
    Withdrawals = {}
    NewAuthorities = {}
    RootStateRent = 1
    CycleStateRent = 1
    BankRent = 1
    MAX_BID_HISTORY_LENGTH = 2
    ALLOWED_AUCTION_IDLE_PERIOD = 100
    ALLOWED_CONSECUTIVE_IDLE_CYCLES = 0
    UNIVERSAL_BID_FLOOR = 1
    MIN_CYCLE_PERIOD = 2
    MAX_CYCLE_PERIOD = 4
    MaxCycle = 2
    MaxUnclaimed = 2
    Owners <- MCOwners
    Bidders <- MCAlice
    Payers <- MCOwners
    AuctionConfigs <- Short
    StartTimes = {}
    EncorePeriods = {}
    BidAmounts = {1}
    ClaimAmounts = {}
    DeleteBatches = {1}
    Filters = {TRUE, FALSE}
    Verified = {}
    Deposits = {}
    Genesis = 1
    MaxTime = 3
SPECIFICATION Spec
INVARIANTS
    PoolPlacement
    PoolsWithinCapacity
    LamportsConserved
PROPERTIES
    ImplementsEscrow
CHECK_DEADLOCK FALSE
