------------------------------ MODULE Auction ------------------------------
(***************************************************************************)
(* The gold program: auctions in cycles, their accounts, and every         *)
(* instruction of contract/src/processor, together with the contract-wide  *)
(* state and instructions of module Contract.                              *)
(*                                                                         *)
(* An auction owns four kinds of accounts: one root state, one state for   *)
(* each cycle, one bank that holds lamports, and the token accounts its    *)
(* rewards live in.  An account that does not exist is NoAccount (a bank:  *)
(* 0 lamports, which is when the runtime purges an account).               *)
(***************************************************************************)
EXTENDS Contract, Sequences

CONSTANTS
    RootStateRent,      \* rent-exempt minimum of a root state account,
    CycleStateRent,     \* of a cycle state account,
    BankRent,           \* and of an account without data, the bank
    MAX_BID_HISTORY_LENGTH,
    ALLOWED_AUCTION_IDLE_PERIOD,
    ALLOWED_CONSECUTIVE_IDLE_CYCLES,
    UNIVERSAL_BID_FLOOR,
    MIN_CYCLE_PERIOD,
    MAX_CYCLE_PERIOD,
    MaxCycle,           \* u64::MAX, the last number a cycle may have
    MaxUnclaimed,       \* u16::MAX, where unclaimed_rewards overflows
    Owners,             \* inputs: users who start auctions,
    Bidders,            \* who bid,
    Payers,             \* and who pay for closing a cycle;
    AuctionConfigs,     \* the configurations asked for,
    StartTimes,         \* the start times asked for (besides none),
    EncorePeriods,      \* the encore periods an owner changes to,
    BidAmounts,
    ClaimAmounts,
    DeleteBatches,      \* cycle states to delete in one call,
    Filters,            \* the admin's filter decisions,
    Verified,           \* the ids an admin verifies,
    Deposits,           \* and amounts sent to a bank from outside
    Genesis,            \* the first time stamp,
    MaxTime             \* and the last (a bound on the clock)

TokenConfigs == {"Nft", "RepeatingNft", "Token"}
CycleNumbers == 1..MaxCycle

BidData == [bidder_pubkey: Users, bid_amount: Nat]
CycleState == [end_time: Nat, bid_history: Seq(BidData)]

(* number_of_cycles is 0 where the code has None. *)
AuctionConfig ==
    [cycle_period: Nat, encore_period: Nat, number_of_cycles: Nat,
     minimum_bid_amount: Nat, token_config: TokenConfigs]

RootState ==
    [auction_owner: Users, auction_config: AuctionConfig, start_time: Nat,
     current_auction_cycle: CycleNumbers, current_idle_cycle_streak: Nat,
     is_frozen: BOOLEAN, is_finished: BOOLEAN, is_filtered: BOOLEAN,
     is_verified: BOOLEAN, all_time_treasury: Nat, available_funds: Nat,
     unclaimed_rewards: 0..MaxUnclaimed]

ASSUME AuctionAssumption ==
    /\ RootStateRent \in Nat \ {0}
    /\ CycleStateRent \in Nat \ {0}
    /\ BankRent \in Nat \ {0}
    /\ MAX_BID_HISTORY_LENGTH \in Nat \ {0}
    /\ ALLOWED_AUCTION_IDLE_PERIOD \in Nat
    /\ ALLOWED_CONSECUTIVE_IDLE_CYCLES \in Nat
    /\ UNIVERSAL_BID_FLOOR \in Nat \ {0}
    /\ MIN_CYCLE_PERIOD \in Nat \ {0}
    /\ MAX_CYCLE_PERIOD \in Nat
    /\ MaxCycle \in Nat \ {0}
    /\ MaxUnclaimed \in Nat \ {0}
    /\ Owners \subseteq Users /\ Bidders \subseteq Users /\ Payers \subseteq Users
    /\ AuctionConfigs \subseteq AuctionConfig
    /\ StartTimes \subseteq Nat
    /\ EncorePeriods \subseteq Int
    /\ BidAmounts \subseteq Nat
    /\ ClaimAmounts \subseteq Nat
    /\ DeleteBatches \subseteq Nat \ {0}
    /\ Filters \subseteq BOOLEAN
    /\ Verified \subseteq AuctionIds
    /\ Deposits \subseteq Nat
    /\ Genesis \in Nat \ {0}
    /\ MaxTime \in Nat
    /\ NoAccount \notin RootState
    /\ NoAccount \notin CycleState

VARIABLES
    now,        \* the clock's unix_timestamp
    root,       \* the root state of each auction
    cycle,      \* the cycle states of each auction, by cycle number
    bank,       \* lamports in each auction's bank
    master,     \* the number in the URI of an NFT auction's master metadata
    children,   \* the holder of the child NFT minted for each cycle
    tokens      \* how often a token auction minted its per-cycle amount to a user

stateVars == <<root, cycle, bank>>
rewardVars == <<master, children, tokens>>
vars == <<contractVars, now, stateVars, rewardVars>>

-----------------------------------------------------------------------------
(* Helpers *)

CurrentCycle(id) == cycle[id][root[id].current_auction_cycle]

HasBid(c) == c.bid_history # <<>>
TopBid(c) == c.bid_history[Len(c.bid_history)]
TopBidAmount(c) == IF HasBid(c) THEN TopBid(c).bid_amount ELSE 0

(* Fault: nothing is paid back. *)
NotRefunded(w, c) == w

(* The wallets w after the top bid of cycle c went back to its bidder. *)
Refunded(w, c) ==
    IF HasBid(c) THEN [w EXCEPT ![TopBid(c).bidder_pubkey] = @ + TopBid(c).bid_amount]
                 ELSE w

(* MaxLenVec::cyclic_push drops the oldest element of a full history. *)
CyclicPush(history, bid) ==
    IF Len(history) < MAX_BID_HISTORY_LENGTH THEN Append(history, bid)
                                             ELSE Append(Tail(history), bid)

IsOngoing(r) == ~r.is_frozen /\ ~r.is_finished

(* Fault: one cycle too many. *)
IsBeyondLastCycle(r) ==
    /\ r.auction_config.number_of_cycles > 0
    /\ r.current_auction_cycle > r.auction_config.number_of_cycles

IsLastAuctionCycle(r) ==
    /\ r.auction_config.number_of_cycles > 0
    /\ r.current_auction_cycle >= r.auction_config.number_of_cycles

HasRoot(id) == root[id] # NoAccount
HasCurrentCycle(id) == HasRoot(id) /\ CurrentCycle(id) # NoAccount
IsAuctionOwner(id, user) == HasRoot(id) /\ root[id].auction_owner = user

(* Fault: a cycle may be closed before its end. *)
CheckStatusAnyTime(id, interaction) ==
    /\ IsOngoing(root[id])
    /\ interaction = "Bid" =>
           now < CurrentCycle(id).end_time /\ now >= root[id].start_time

CheckStatus(id, interaction) ==
    /\ IsOngoing(root[id])
    /\ interaction = "Bid" =>
           now < CurrentCycle(id).end_time /\ now >= root[id].start_time
    /\ interaction = "CloseCycle" => now >= CurrentCycle(id).end_time

(* Fault: a bid that only equals the top bid is accepted. *)
CheckBidAmountNotStrict(id, amount) ==
    /\ amount >= root[id].auction_config.minimum_bid_amount
    /\ amount >= TopBidAmount(CurrentCycle(id))

CheckBidAmount(id, amount) ==
    /\ amount >= root[id].auction_config.minimum_bid_amount
    /\ HasBid(CurrentCycle(id)) => amount > TopBidAmount(CurrentCycle(id))

(* Fault: the id stays in the pool it leaves. *)
CopiedTo(id, to, from) == [pool EXCEPT ![to] = Inserted(@, id)]

(* The pools after id left one for the other. *)
MovedTo(id, to, from) ==
    [pool EXCEPT ![from] = Removed(@, id), ![to] = Inserted(@, id)]

(* The insertion of a move fails when the target is full or has the id. *)
CanMoveTo(id, to) == CanInsert(pool[to], max_len[to], id)

-----------------------------------------------------------------------------
(* initialize_auction *)

NewRootState(owner, config, start) ==
    [auction_owner |-> owner, auction_config |-> config, start_time |-> start,
     current_auction_cycle |-> 1, current_idle_cycle_streak |-> 0,
     is_frozen |-> FALSE, is_finished |-> FALSE, is_filtered |-> FALSE,
     is_verified |-> FALSE, all_time_treasury |-> 0, available_funds |-> 0,
     unclaimed_rewards |-> 0]

ValidConfig(config) ==
    /\ config.minimum_bid_amount >= UNIVERSAL_BID_FLOOR
    /\ config.cycle_period \in MIN_CYCLE_PERIOD..MAX_CYCLE_PERIOD
    /\ config.encore_period \in 0..(config.cycle_period \div 2)

(* An NFT auction fails on a master that exists already: the master of a   *)
(* deleted auction stays.  Its URI starts at 1, or at 0 for good when the  *)
(* auction is repeating.  A token auction brings a mint of its own.        *)
InitializeTokens(id, token_config) ==
    IF token_config = "Token"
    THEN /\ tokens' = [tokens EXCEPT ![id] = [user \in Users |-> 0]]
         /\ UNCHANGED <<master, children>>
    ELSE /\ master[id] = NoAccount
         /\ master' = [master EXCEPT ![id] = IF token_config = "Nft" THEN 1 ELSE 0]
         /\ UNCHANGED <<children, tokens>>

InitializeAuction(id, owner, config, start) ==
    LET rent == RootStateRent + CycleStateRent + BankRent
    IN  /\ contract_bank_state # NoAccount
        /\ CanMoveTo(id, "primary")
        /\ ~HasRoot(id) /\ cycle[id][1] = NoAccount /\ bank[id] = 0
        /\ ValidConfig(config)
        /\ start >= now
        /\ wallet[owner] >= rent
        /\ InitializeTokens(id, config.token_config)
        /\ wallet' = [wallet EXCEPT ![owner] = @ - rent]
        /\ pool' = [pool EXCEPT !["primary"] = Inserted(@, id)]
        /\ root' = [root EXCEPT ![id] = NewRootState(owner, config, start)]
        /\ cycle' = [cycle EXCEPT ![id][1] =
                         [end_time |-> start + config.cycle_period, bid_history |-> <<>>]]
        /\ bank' = [bank EXCEPT ![id] = BankRent]
        /\ UNCHANGED <<contract_bank_state, contract_bank, protocol_fee_state, max_len, now>>

-----------------------------------------------------------------------------
(* bid *)

(* Fault: an encore cuts the rest of the cycle short. *)
EndAfterBidAlwaysEncore(end, encore) == now + encore

(* A bid in the last encore period leaves one more encore period. *)
EndAfterBid(end, encore) == IF now > end - encore THEN now + encore ELSE end

(* The rest of the handler once the auction is in the primary pool and the *)
(* cycle ends at end: the new bid enters the bank, the old one leaves it.  *)
PlaceBid(id, user, amount, end) ==
    LET c == CurrentCycle(id)
    IN  /\ CheckBidAmount(id, amount)
        /\ bank[id] > 0
        /\ wallet[user] >= amount
        /\ bank[id] + amount >= TopBidAmount(c)
        /\ wallet' = Refunded([wallet EXCEPT ![user] = @ - amount], c)
        /\ bank' = [bank EXCEPT ![id] = @ + amount - TopBidAmount(c)]
        /\ cycle' = [cycle EXCEPT ![id][root[id].current_auction_cycle] =
               [end_time |-> EndAfterBid(end, root[id].auction_config.encore_period),
                bid_history |-> CyclicPush(c.bid_history,
                                    [bidder_pubkey |-> user, bid_amount |-> amount])]]
        /\ UNCHANGED <<contract_bank_state, contract_bank, protocol_fee_state, max_len,
                       now, root, rewardVars>>

Bid(id, user, amount) ==
    /\ HasCurrentCycle(id)
    /\ id \in pool["primary"]
    /\ CheckStatus(id, "Bid")
    /\ PlaceBid(id, user, amount, CurrentCycle(id).end_time)
    /\ UNCHANGED pool

(* An auction that is not in the primary pool is brought back by a bid,    *)
(* whatever the time, and its cycle starts over.                           *)
BidInactive(id, user, amount) ==
    /\ HasCurrentCycle(id)
    /\ id \notin pool["primary"]
    /\ CanMoveTo(id, "primary")
    /\ CheckStatus(id, "BidInactive")
    /\ PlaceBid(id, user, amount, now + root[id].auction_config.cycle_period)
    /\ pool' = MovedTo(id, "primary", "secondary")

-----------------------------------------------------------------------------
(* close_auction_cycle *)

(* The checks before a cycle with a bid or without one is closed. *)
CanClose(id) ==
    /\ HasCurrentCycle(id)
    /\ CheckStatus(id, "CloseCycle")

(* Fault: the treasury restarts from what was not claimed yet. *)
SettledFromAvailable(r, won) ==
    [r EXCEPT !.available_funds = @ + won, !.all_time_treasury = r.available_funds + won,
              !.current_idle_cycle_streak = 0, !.unclaimed_rewards = @ + 1]

(* The root state after the winning bid became claimable. *)
Settled(r, won) ==
    [r EXCEPT !.available_funds = @ + won, !.all_time_treasury = @ + won,
              !.current_idle_cycle_streak = 0, !.unclaimed_rewards = @ + 1]

(* Fault: the counter of unclaimed rewards may pass its limit. *)
RewardUncounted(r) == r.unclaimed_rewards <= MaxUnclaimed

(* The checked addition to unclaimed_rewards. *)
RewardCountable(r) == r.unclaimed_rewards < MaxUnclaimed

(* Fault: the rent of the bank is left out. *)
FundsWithoutRent(r) == r.available_funds

(* A finished auction needs no bank any more: its rent can be claimed too. *)
FundsWithRent(r) == r.available_funds + BankRent

(* Fault: the URI of the master is not reset when the auction finishes. *)
IncrementedUriNoReset(id) ==
    IF root[id].auction_config.token_config = "Nft"
    THEN [master EXCEPT ![id] = @ + 1]
    ELSE master

(* Fault: the master of a repeating auction counts cycles as well. *)
IncrementedUriRepeating(id) ==
    IF root[id].auction_config.token_config = "Token" THEN master
    ELSE [master EXCEPT ![id] = IF IsLastAuctionCycle(root[id]) THEN 0 ELSE @ + 1]

(* increment_uri, and no change of a repeating or a token auction. *)
IncrementedUri(id) ==
    IF root[id].auction_config.token_config = "Nft"
    THEN [master EXCEPT ![id] = IF IsLastAuctionCycle(root[id]) THEN 0 ELSE @ + 1]
    ELSE master

(* Without a bid the cycle is extended; an auction that was idle for too   *)
(* long moves to the secondary pool.                                       *)
IdleTooLong(r, streak) ==
    \/ r.auction_config.cycle_period * streak > ALLOWED_AUCTION_IDLE_PERIOD
    \/ streak > ALLOWED_CONSECUTIVE_IDLE_CYCLES

CloseIdleCycle(id) ==
    LET streak == root[id].current_idle_cycle_streak + 1
    IN  /\ CanClose(id)
        /\ ~HasBid(CurrentCycle(id))
        /\ cycle' = [cycle EXCEPT ![id][root[id].current_auction_cycle].end_time =
                                      @ + root[id].auction_config.cycle_period]
        /\ root' = [root EXCEPT ![id].current_idle_cycle_streak = streak]
        /\ IF IdleTooLong(root[id], streak)
           THEN CanMoveTo(id, "secondary") /\ pool' = MovedTo(id, "secondary", "primary")
           ELSE UNCHANGED pool
        /\ UNCHANGED <<contract_bank_state, contract_bank, protocol_fee_state, max_len,
                       wallet, now, bank, rewardVars>>

CloseLastCycle(id) ==
    /\ CanClose(id)
    /\ HasBid(CurrentCycle(id))
    /\ IsLastAuctionCycle(root[id])
    /\ RewardCountable(root[id])
    /\ CanMoveTo(id, "secondary")
    /\ pool' = MovedTo(id, "secondary", "primary")
    /\ LET settled == Settled(root[id], TopBidAmount(CurrentCycle(id)))
       IN  root' = [root EXCEPT ![id] = [settled EXCEPT
               !.is_finished = TRUE, !.available_funds = FundsWithRent(settled)]]
    /\ master' = IncrementedUri(id)
    /\ UNCHANGED <<contract_bank_state, contract_bank, protocol_fee_state, max_len,
                   wallet, now, cycle, bank, children, tokens>>

(* Any other cycle: the payer creates the account of the next one. *)
CloseCycle(id, payer) ==
    LET next == root[id].current_auction_cycle + 1
    IN  /\ CanClose(id)
        /\ HasBid(CurrentCycle(id))
        /\ ~IsLastAuctionCycle(root[id])
        /\ RewardCountable(root[id])
        /\ next \in CycleNumbers
        /\ cycle[id][next] = NoAccount
        /\ wallet[payer] >= CycleStateRent
        /\ wallet' = [wallet EXCEPT ![payer] = @ - CycleStateRent]
        /\ cycle' = [cycle EXCEPT ![id][next] =
               [end_time |-> now + root[id].auction_config.cycle_period,
                bid_history |-> <<>>]]
        /\ root' = [root EXCEPT ![id] =
               [Settled(@, TopBidAmount(CurrentCycle(id))) EXCEPT
                    !.current_auction_cycle = next]]
        /\ master' = IncrementedUri(id)
        /\ UNCHANGED <<contract_bank_state, contract_bank, protocol_fee_state, pool,
                       max_len, now, bank, children, tokens>>

-----------------------------------------------------------------------------
(* claim_funds *)

Claimable(id) ==
    IF root[id].is_finished
    THEN bank[id]
    ELSE bank[id] - BankRent - TopBidAmount(CurrentCycle(id))

(* Fault: only what the owner receives is taken off the claimable funds. *)
TakenWithoutFee(amount, share) == amount - share

(* What a claim takes off the claimable funds. *)
TakenFromFunds(amount, share) == amount

(* claim_lamports splits the amount between the contract bank and the      *)
(* owner.  Whoever pays the transaction, the owner is paid.                *)
ClaimFunds(id, amount) ==
    /\ HasCurrentCycle(id)
    /\ bank[id] > 0
    /\ ~root[id].is_frozen
    /\ amount <= Claimable(id)
    /\ amount <= root[id].available_funds
    /\ \E share \in FeeShares(amount) :
           /\ share <= amount
           /\ contract_bank' = contract_bank + share
           /\ wallet' = [wallet EXCEPT ![root[id].auction_owner] = @ + amount - share]
           /\ root' = [root EXCEPT ![id].available_funds = @ - TakenFromFunds(amount, share)]
    /\ bank' = [bank EXCEPT ![id] = @ - amount]
    /\ UNCHANGED <<contract_bank_state, protocol_fee_state, pool, max_len,
                   now, cycle, rewardVars>>

-----------------------------------------------------------------------------
(* claim_rewards *)

(* The end time is set to 0 once the reward is claimed.  That the cycle    *)
(* was closed is not asked: it suffices that its time is over.             *)
RewardIsDue(id, n) ==
    /\ HasRoot(id) /\ cycle[id][n] # NoAccount
    /\ now >= cycle[id][n].end_time
    /\ cycle[id][n].end_time # 0
    /\ HasBid(cycle[id][n])

(* Fault: the reward goes to the first bidder in the history. *)
DeliverRewardToFirstBidder(id, n, winner) ==
    LET first == cycle[id][n].bid_history[1].bidder_pubkey
    IN  IF root[id].auction_config.token_config = "Token"
        THEN /\ tokens' = [tokens EXCEPT ![id][first] = @ + 1]
             /\ UNCHANGED <<master, children>>
        ELSE /\ children[id][n] = NoAccount
             /\ children' = [children EXCEPT ![id][n] = first]
             /\ UNCHANGED <<master, tokens>>

(* An NFT child has the URI of its cycle: the master's is set to the cycle *)
(* number before the child is minted and set back after it, so the master  *)
(* is unchanged in the end.  A child is minted once; tokens are not marked.*)
DeliverReward(id, n, winner) ==
    IF root[id].auction_config.token_config = "Token"
    THEN /\ tokens' = [tokens EXCEPT ![id][winner] = @ + 1]
         /\ UNCHANGED <<master, children>>
    ELSE /\ children[id][n] = NoAccount
         /\ children' = [children EXCEPT ![id][n] = winner]
         /\ UNCHANGED <<master, tokens>>

(* Fault: the counter is left as it was. *)
RewardTakenUncounted(r) == r

(* The checked subtraction from unclaimed_rewards. *)
RewardTaken(r) == [r EXCEPT !.unclaimed_rewards = @ - 1]

ClaimRewards(id, n) ==
    /\ RewardIsDue(id, n)
    /\ root[id].unclaimed_rewards > 0
    /\ DeliverReward(id, n, TopBid(cycle[id][n]).bidder_pubkey)
    /\ cycle' = [cycle EXCEPT ![id][n].end_time = 0]
    /\ root' = [root EXCEPT ![id] = RewardTaken(@)]
    /\ UNCHANGED <<contractVars, now, bank>>

-----------------------------------------------------------------------------
(* delete_auction *)

(* Fault: the top bid of a finished auction is refunded as well. *)
RefundOfAnyTopBid(id) == TopBidAmount(CurrentCycle(id))

(* The first cycle state deleted of an ongoing auction refunds its top     *)
(* bid, and freezes the auction so that no later call refunds again.       *)
RefundOnDelete(id) ==
    IF IsOngoing(root[id]) THEN TopBidAmount(CurrentCycle(id)) ELSE 0

(* Fault: the bank pays the refund but the bidder does not get it. *)
WalletsWithoutRefund(id) == wallet

WalletsAfterRefund(id) ==
    IF IsOngoing(root[id]) THEN Refunded(wallet, CurrentCycle(id)) ELSE wallet

(* The cycle states with the numbers after left are deleted, newest first, *)
(* their rent going to the contract bank.                                  *)
DeletableDownTo(id, owner, left) ==
    /\ IsAuctionOwner(id, owner)
    /\ root[id].unclaimed_rewards = 0
    /\ \A n \in (left + 1)..root[id].current_auction_cycle : cycle[id][n] # NoAccount
    /\ bank[id] >= RefundOnDelete(id)

(* Fault: the newest cycle state is not deleted. *)
CyclesDownToButCurrent(id, left) ==
    [cycle EXCEPT ![id] = [n \in CycleNumbers |->
        IF n \in (left + 1)..(root[id].current_auction_cycle - 1) THEN NoAccount
                                                                  ELSE cycle[id][n]]]

CyclesDownTo(id, left) ==
    [cycle EXCEPT ![id] = [n \in CycleNumbers |->
        IF n \in (left + 1)..root[id].current_auction_cycle THEN NoAccount
                                                            ELSE cycle[id][n]]]

(* Fewer than all the cycle states. *)
DeleteCycles(id, owner, batch) ==
    LET left == root[id].current_auction_cycle - batch
    IN  /\ HasRoot(id)
        /\ left > 0
        /\ DeletableDownTo(id, owner, left)
        /\ cycle' = CyclesDownTo(id, left)
        /\ root' = [root EXCEPT ![id].current_auction_cycle = left,
                                ![id].is_frozen = @ \/ IsOngoing(root[id])]
        /\ bank' = [bank EXCEPT ![id] = @ - RefundOnDelete(id)]
        /\ wallet' = WalletsAfterRefund(id)
        /\ contract_bank' = contract_bank + batch * CycleStateRent
        /\ UNCHANGED <<contract_bank_state, protocol_fee_state, pool, max_len,
                       now, rewardVars>>

(* All that are left: what the bank holds is paid out, the root state's    *)
(* rent goes to the owner, and the id leaves both pools.                   *)
DeleteAuction(id, owner, batch) ==
    LET left == root[id].current_auction_cycle - batch
        rest == bank[id] - RefundOnDelete(id)
    IN  /\ HasRoot(id)
        /\ left <= 0
        /\ DeletableDownTo(id, owner, 0)
        /\ cycle' = CyclesDownTo(id, 0)
        /\ root' = [root EXCEPT ![id] = NoAccount]
        /\ bank' = [bank EXCEPT ![id] = 0]
        /\ \E share \in FeeShares(rest) :
               /\ share <= rest
               /\ contract_bank' = contract_bank + share
                      + root[id].current_auction_cycle * CycleStateRent
               /\ wallet' = [WalletsAfterRefund(id) EXCEPT
                                 ![owner] = @ + rest - share + RootStateRent]
        /\ pool' = [p \in Pools |-> Removed(pool[p], id)]
        /\ UNCHANGED <<contract_bank_state, protocol_fee_state, max_len,
                       now, rewardVars>>

-----------------------------------------------------------------------------
(* filter_auction, modify_auction, verify_auction *)

FilterAuction(id, admin, filter) ==
    LET to   == IF filter THEN "secondary" ELSE "primary"
        from == IF filter THEN "primary" ELSE "secondary"
    IN  /\ HasRoot(id)
        /\ IsContractAdmin(admin)
        /\ CanMoveTo(id, to)
        /\ pool' = MovedTo(id, to, from)
        /\ root' = [root EXCEPT ![id].is_filtered = filter]
        /\ UNCHANGED <<contract_bank_state, contract_bank, protocol_fee_state, max_len,
                       wallet, now, cycle, bank, rewardVars>>

(* Description and socials are left out. *)
ModifyAuction(id, owner, encore) ==
    /\ IsAuctionOwner(id, owner)
    /\ encore \in 0..(root[id].auction_config.cycle_period \div 2)
    /\ root' = [root EXCEPT ![id].auction_config.encore_period = encore]
    /\ UNCHANGED <<contractVars, now, cycle, bank, rewardVars>>

VerifyAuction(id, admin) ==
    /\ HasRoot(id)
    /\ IsContractAdmin(admin)
    /\ root' = [root EXCEPT ![id].is_verified = TRUE]
    /\ UNCHANGED <<contractVars, now, cycle, bank, rewardVars>>

-----------------------------------------------------------------------------
(* The environment: anybody may send lamports to an existing bank with a   *)
(* plain transfer, and time passes.                                        *)

Deposit(id, user, amount) ==
    /\ bank[id] > 0
    /\ wallet[user] >= amount
    /\ wallet' = [wallet EXCEPT ![user] = @ - amount]
    /\ bank' = [bank EXCEPT ![id] = @ + amount]
    /\ UNCHANGED <<contract_bank_state, contract_bank, protocol_fee_state, pool, max_len,
                   now, root, cycle, rewardVars>>

Tick ==
    /\ now < MaxTime
    /\ now' = now + 1
    /\ UNCHANGED <<contractVars, stateVars, rewardVars>>

-----------------------------------------------------------------------------

Init ==
    /\ InitContract
    /\ now = Genesis
    /\ root = [id \in AuctionIds |-> NoAccount]
    /\ cycle = [id \in AuctionIds |-> [n \in CycleNumbers |-> NoAccount]]
    /\ bank = [id \in AuctionIds |-> 0]
    /\ master = [id \in AuctionIds |-> NoAccount]
    /\ children = [id \in AuctionIds |-> [n \in CycleNumbers |-> NoAccount]]
    /\ tokens = [id \in AuctionIds |-> [user \in Users |-> 0]]

Start(id) ==
    \E owner \in Owners, config \in AuctionConfigs, start \in StartTimes \cup {now} :
        InitializeAuction(id, owner, config, start)

AnyBid(id) ==
    \E user \in Bidders, amount \in BidAmounts :
        Bid(id, user, amount) \/ BidInactive(id, user, amount)

Close(id) ==
    \E payer \in Payers : CloseIdleCycle(id) \/ CloseLastCycle(id) \/ CloseCycle(id, payer)

Claim(id) ==
    \/ \E amount \in ClaimAmounts : ClaimFunds(id, amount)
    \/ \E n \in CycleNumbers : ClaimRewards(id, n)

Delete(id) ==
    \E owner \in Owners, batch \in DeleteBatches :
        DeleteCycles(id, owner, batch) \/ DeleteAuction(id, owner, batch)

Administer(id) ==
    \/ \E admin \in Users, filter \in Filters : FilterAuction(id, admin, filter)
    \/ \E owner \in Owners, encore \in EncorePeriods : ModifyAuction(id, owner, encore)
    \/ id \in Verified /\ \E admin \in Users : VerifyAuction(id, admin)

Next ==
    \/ NextContract /\ UNCHANGED <<now, stateVars, rewardVars>>
    \/ \E id \in AuctionIds :
           \/ Start(id) \/ AnyBid(id) \/ Close(id) \/ Claim(id) \/ Delete(id)
           \/ Administer(id)
           \/ \E user \in Bidders, amount \in Deposits : Deposit(id, user, amount)
    \/ Tick

Spec == Init /\ [][Next]_vars

-----------------------------------------------------------------------------

(* Every account holds a value of its type. *)
TypeOK ==
    /\ ContractTypeOK
    /\ now \in Nat
    /\ root \in [AuctionIds -> RootState \cup {NoAccount}]
    /\ cycle \in [AuctionIds -> [CycleNumbers -> CycleState \cup {NoAccount}]]
    /\ bank \in [AuctionIds -> Nat]
    /\ master \in [AuctionIds -> Nat \cup {NoAccount}]
    /\ children \in [AuctionIds -> [CycleNumbers -> Users \cup {NoAccount}]]
    /\ tokens \in [AuctionIds -> [Users -> Nat]]
=============================================================================
