-------------------------- MODULE AuctionProperties --------------------------
(***************************************************************************)
(* What the gold program promises to the owners, the bidders and the       *)
(* operator, as properties of module Auction.                              *)
(***************************************************************************)
EXTENDS Auction, FiniteSetsExt

ExistingCycles(id) == {n \in CycleNumbers : cycle[id][n] # NoAccount}

(* The cycles of an auction that is not being deleted whose winner is      *)
(* settled.  (Cycle states are deleted newest first, so all the cycles     *)
(* left of a frozen auction are closed ones.)                              *)
ClosedCycles(id) ==
    {n \in ExistingCycles(id) :
        IsOngoing(root[id]) => n < root[id].current_auction_cycle}

IsNft(id) == root[id].auction_config.token_config # "Token"

Winner(id, n) == TopBid(cycle[id][n]).bidder_pubkey

-----------------------------------------------------------------------------
(* Pools *)

(* An id is in a pool exactly as long as its auction has a root state, and *)
(* never in both.  Every instruction that moves an id takes it out of one  *)
(* pool and puts it in the other, and deletion takes it out of both: an id *)
(* left behind would block its slot and any new auction of that id; an id  *)
(* lost would leave an auction no bot closes and no client lists.          *)
PoolPlacement ==
    /\ pool["primary"] \cap pool["secondary"] = {}
    /\ \A id \in AuctionIds : HasRoot(id) <=> id \in pool["primary"] \cup pool["secondary"]

(* No pool outgrows the capacity its account was sized for, although       *)
(* is_full tests for equality only and both pools are resized separately.  *)
PoolsWithinCapacity == \A p \in Pools : Cardinality(pool[p]) <= max_len[p]

-----------------------------------------------------------------------------
(* Accounts and lamports *)

(* The cycle states of an auction are those numbered 1 to its current      *)
(* cycle.  The program never looks further: a state above or a gap below   *)
(* would make closing a cycle or deleting the auction fail for good, and a *)
(* state left behind would make the id unusable.                           *)
CycleAccounts ==
    \A id \in AuctionIds, n \in CycleNumbers :
        cycle[id][n] # NoAccount <=> HasRoot(id) /\ n <= root[id].current_auction_cycle

(* What the bank of an auction must hold: the claimable funds, the bid     *)
(* that may have to be refunded, and its rent, which is part of the        *)
(* claimable funds once the auction is finished.                           *)
Obligations(id) ==
    IF ~HasRoot(id) THEN 0
    ELSE root[id].available_funds
         + (IF root[id].is_finished THEN 0 ELSE BankRent)
         + (IF IsOngoing(root[id]) THEN TopBidAmount(CurrentCycle(id)) ELSE 0)

(* A bank can always pay what it owes: outbidding, claiming and deleting   *)
(* never use the money of the top bidder or of the owner for another.      *)
BankSolvent == \A id \in AuctionIds : bank[id] >= Obligations(id)

(* Without deposits from outside, a bank holds nothing else either, so     *)
(* nothing is stranded that neither claiming nor deleting pays out.        *)
BankBalanced == Deposits = {} => \A id \in AuctionIds : bank[id] = Obligations(id)

(* The lamports of all accounts together. *)
TotalLamports ==
    MapThenSumSet(LAMBDA user : wallet[user], Users)
    + contract_bank
    + MapThenSumSet(LAMBDA id :
          bank[id] + (IF HasRoot(id) THEN RootStateRent ELSE 0)
          + CycleStateRent * Cardinality(ExistingCycles(id)), AuctionIds)
    + (IF contract_bank_state = NoAccount THEN 0
       ELSE PoolRent(max_len["primary"]) + PoolRent(max_len["secondary"]))
    + (IF protocol_fee_state = NoAccount THEN 0 ELSE ProtocolFeeRent)

(* No instruction creates or loses lamports, rents, refunds, fee shares    *)
(* and the closing of accounts included.  (The runtime rejects an          *)
(* unbalanced instruction, so a handler that broke this would always fail.)*)
LamportsConserved == TotalLamports = MapThenSumSet(LAMBDA user : Funds[user], Users)

-----------------------------------------------------------------------------
(* Cycles and bids *)

(* Every closed cycle was won, so that its reward can be claimed, and an   *)
(* auction never runs more cycles than configured, which is also the       *)
(* maximum supply of editions of an NFT auction's master.                  *)
ClosedCyclesWon ==
    \A id \in AuctionIds : HasRoot(id) =>
        /\ \A n \in ClosedCycles(id) : HasBid(cycle[id][n])
        /\ (root[id].auction_config.number_of_cycles > 0 =>
               root[id].current_auction_cycle <= root[id].auction_config.number_of_cycles)

(* all_time_treasury is the sum of the winning bids, however often cycles  *)
(* were extended, auctions reactivated, funds and rewards claimed.         *)
TreasuryIsSumOfWins ==
    \A id \in AuctionIds :
        HasRoot(id) /\ ~root[id].is_frozen
        /\ (root[id].is_finished => IsLastAuctionCycle(root[id])) =>
            root[id].all_time_treasury =
                MapThenSumSet(LAMBDA n : TopBidAmount(cycle[id][n]), ClosedCycles(id))

(* Within a cycle each bid beats the one before it, also across the limit  *)
(* of the history and when an auction is reactivated: the last bid, the    *)
(* one that is refunded or wins, is the highest.                           *)
BidsAscend ==
    \A id \in AuctionIds, n \in CycleNumbers : cycle[id][n] # NoAccount =>
        LET history == cycle[id][n].bid_history
        IN  \A i, j \in DOMAIN history : i < j => history[i].bid_amount < history[j].bid_amount

(* The cycle that is open, or 0. *)
OpenCycle(id) ==
    IF HasRoot(id) /\ IsOngoing(root[id]) THEN root[id].current_auction_cycle ELSE 0

(* A top bid that is displaced, by a higher bid or by the deletion of the  *)
(* auction, is paid back in full in the same step, and a bidder who raises *)
(* an own bid pays the difference.                                         *)
DisplacedBid(id) ==
    LET c == OpenCycle(id)
        old == TopBid(cycle[id][c])
        later == cycle'[id][c]
        paid == IF later # NoAccount /\ TopBid(later).bidder_pubkey = old.bidder_pubkey
                THEN TopBid(later).bid_amount ELSE 0
    IN  (/\ c # 0
         /\ HasBid(cycle[id][c])
         /\ later = NoAccount \/ (HasBid(later) /\ TopBid(later) # old)) =>
            wallet'[old.bidder_pubkey] - wallet[old.bidder_pubkey] >= old.bid_amount - paid

DisplacedBidsRefunded == [][\A id \in AuctionIds : DisplacedBid(id)]_vars

(* A bid in the primary pool never brings the end of its cycle nearer, and *)
(* leaves at least an encore period to answer it.                          *)
BidLeavesTime(id) ==
    LET c == OpenCycle(id)
    IN  (/\ c # 0 /\ id \in pool["primary"] /\ cycle'[id][c] # NoAccount
         /\ cycle'[id][c].bid_history # cycle[id][c].bid_history) =>
            /\ cycle'[id][c].end_time >= cycle[id][c].end_time
            /\ cycle'[id][c].end_time - now >= root[id].auction_config.encore_period

BidsLeaveTime == [][\A id \in AuctionIds : BidLeavesTime(id)]_vars

(* The money of an auction as module Escrow has it, where a bid is told    *)
(* from none.                                                              *)
ASSUME NoBidAssumption == NoAccount \notin BidData

Phase(id) ==
    IF ~HasRoot(id) THEN "none"
    ELSE IF root[id].is_frozen THEN "dissolving"
    ELSE IF root[id].is_finished THEN "finished" ELSE "open"

StandingBid(id) ==
    LET c == OpenCycle(id)
    IN  IF c # 0 /\ HasBid(cycle[id][c]) THEN TopBid(cycle[id][c]) ELSE NoAccount

SoldCycles(id) ==
    IF ~HasRoot(id) THEN 0
    ELSE IF OpenCycle(id) = 0 THEN root[id].current_auction_cycle
    ELSE root[id].current_auction_cycle - 1

Proceeds(id) == IF HasRoot(id) THEN root[id].available_funds ELSE 0

Phases == [id \in AuctionIds |-> Phase(id)]
StandingBids == [id \in AuctionIds |-> StandingBid(id)]
Sales == [id \in AuctionIds |-> [n \in 1..SoldCycles(id) |-> TopBid(cycle[id][n])]]
AllProceeds == [id \in AuctionIds |-> Proceeds(id)]

Money == INSTANCE Escrow WITH
    phase <- Phases, standing <- StandingBids, sold <- Sales, proceeds <- AllProceeds

(* Whatever the order of bids, idle cycles, moves between the pools,       *)
(* closings, claims and deletion calls: each closed cycle sells to the bid *)
(* that stood, for its amount, and no later instruction changes a sale,    *)
(* sells a cycle again or reopens an auction; the owner's funds grow by    *)
(* sales only; and two auctions never mix.                                 *)
ImplementsEscrow == Money!Spec

-----------------------------------------------------------------------------
(* Rewards *)

(* The closed cycles whose reward claim_rewards can still deliver. *)
PayableRewards(id) ==
    {n \in ClosedCycles(id) :
        /\ cycle[id][n].end_time # 0
        /\ HasBid(cycle[id][n])
        /\ IsNft(id) => children[id][n] = NoAccount}

(* The counter never exceeds the rewards that can be claimed.  Deletion is *)
(* refused as long as the counter is positive, so an owner can always      *)
(* bring it to 0 by claiming on behalf of the winners; if it were too high *)
(* the auction and its funds could never be dissolved.                     *)
CounterPayable ==
    \A id \in AuctionIds : HasRoot(id) =>
        root[id].unclaimed_rewards <= Cardinality(PayableRewards(id))

(* A cycle whose reward counts as claimed delivered it to its winner: the  *)
(* child NFT of that cycle is held by the winner, or the winner got the    *)
(* tokens at least once for each such cycle.                               *)
ClaimedRewardsDelivered ==
    \A id \in AuctionIds : HasRoot(id) =>
        LET claimed == {n \in ExistingCycles(id) : cycle[id][n].end_time = 0}
        IN  IF IsNft(id)
            THEN \A n \in claimed : children[id][n] = Winner(id, n)
            ELSE \A user \in Users :
                     tokens[id][user] >= Cardinality({n \in claimed : Winner(id, n) = user})

(* The master of an ongoing NFT auction shows the cycle that is running    *)
(* (0 when the auction is repeating or finished), no matter in which order *)
(* cycles are closed and the rewards of earlier ones claimed.              *)
MasterShowsCycle ==
    \A id \in AuctionIds : HasRoot(id) /\ IsNft(id) /\ ~root[id].is_frozen =>
        master[id] = IF root[id].auction_config.token_config = "RepeatingNft"
                        \/ root[id].is_finished
                     THEN 0 ELSE root[id].current_auction_cycle

-----------------------------------------------------------------------------
(* Statements of the repository that the code does not keep *)

(* "Number of unclaimed rewards" (contract/src/state.rs, unclaimed_rewards)*)
UnclaimedRewardsCounted ==
    \A id \in AuctionIds : HasRoot(id) /\ ~root[id].is_frozen =>
        root[id].unclaimed_rewards =
            Cardinality({n \in ClosedCycles(id) : cycle[id][n].end_time # 0})

(* "Allowed time period for an auction to go without a bid placed on it    *)
(* before it is automatically filtered at cycle closing"                   *)
(* (contract/src/lib.rs, ALLOWED_AUCTION_IDLE_PERIOD)                      *)
IdleAuctionsFiltered ==
    \A id \in AuctionIds : HasRoot(id) =>
        (IdleTooLong(root[id], root[id].current_idle_cycle_streak) => root[id].is_filtered)
=============================================================================
