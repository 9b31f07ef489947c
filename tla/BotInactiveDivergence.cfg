CONSTANTS
    owner = owner
    alice = alice
    bob = bob
    NoAccount = NoAccount
    AuctionIds = {1}
    Users = {owner}
    Funds <- MCOneFunds
    ContractBankRent = 2
    ProtocolFeeRent = 1
    PoolBaseRent = 1
    PoolSlotRent = 1
    DEFAULT_PROTOCOL_FEE = 0
    MaxProtocolFee = 1
    FeeScale = 2
    PoolLens = {1}
    Fees = {}
    Withdrawals = {}
    NewAuthorities = {}
    RootStateRent = 1
    CycleStateRent = 1
    BankRent = 1
    MAX_BID_HISTORY_LENGTH = 1
    ALLOWED_AUCTION_IDLE_PERIOD = 100
    ALLOWED_CONSECUTIVE_IDLE_CYCLES = 2
    UNIVERSAL_BID_FLOOR = 1
    MIN_CYCLE_PERIOD = 2
    MAX_CYCLE_PERIOD = 4
    MaxCycle = 2
    MaxUnclaimed = 3
    Owners <- MCOwners
    Bidders <- MCOwners
    Payers = {}
    AuctionConfigs <- EndlessToken
    StartTimes = {}
    EncorePeriods = {}
    BidAmounts = {1}
    ClaimAmounts = {}
    DeleteBatches = {}
    Filters = {TRUE, FALSE}
    Verified = {}
    Deposits = {}
    Genesis = 1
    MaxTime = 4
    BotPayer = owner
    CommandLines = {{}}
    MAX_ERROR_STREAK = 2
    MIN_BALANCE = 1
    ShouldAirdrop = FALSE
    MaxInFlight = 1
    Faults = 0
SPECIFICATION BotSpec
INVARIANTS
    InactiveAuctionsAreInactive
CHECK_DEADLOCK FALSE
