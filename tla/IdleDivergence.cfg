CONSTANTS
    owner = owner
    alice = alice
    bob = bob
    NoAccount = NoAccount
    AuctionIds = {g}
    Users <- MCUsers
    Funds <- MCFunds
    ContractBankRent = 2
    ProtocolFeeRent = 1
    PoolBaseRent = 1
    PoolSlotRent = 1
    DEFAULT_PROTOCOL_FEE = 1
    MaxProtocolFee = 1
    FeeScale = 2
    PoolLens = {1}
    Fees = {}
    Withdrawals = {}
    NewAuthorities = {}
    RootStateRent = 1
    CycleStateRent = 1
    BankRent = 1
    MAX_BID_HISTORY_LENGTH = 2
    ALLOWED_AUCTION_IDLE_PERIOD = 100
    ALLOWED_CONSECUTIVE_IDLE_CYCLES = 1
    UNIVERSAL_BID_FLOOR = 1
    MIN_CYCLE_PERIOD = 2
    MAX_CYCLE_PERIOD = 4
    MaxCycle = 3
    MaxUnclaimed = 2
    Owners <- MCOwners
    Bidders <- MCBidders
    Payers <- MCOwners
    AuctionConfigs <- OneNft
    StartTimes = {}
    EncorePeriods = {}
    BidAmounts = {1, 2, 3}
    ClaimAmounts = {1, 2, 3}
    DeleteBatches = {1}
    Filters = {}
    Verified = {}
    Deposits = {}
    Genesis = 1
    MaxTime = 6
SPECIFICATION Spec
SYMMETRY Symmetry
INVARIANTS
    IdleAuctionsFiltered
CHECK_DEADLOCK FALSE
