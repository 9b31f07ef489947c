---------------------------- MODULE BotProperties ----------------------------
(***************************************************************************)
(* What the closing bot promises, as properties of module Bot: which       *)
(* cycles it closes in the end, and what its cache may say meanwhile.      *)
(***************************************************************************)
EXTENDS Bot

(* Where the record of an auction is when the bot makes its next call. *)
Steps == {"start", "stopped", "pass", "pool", "auction", "new_root", "new_cycle",
          "refresh", "send", "advance", "report_root", "report_cycle"}

Transactions ==
    [auction_id: AuctionIds, cycle_number: CycleNumbers, top_bidder: Users,
     token_type: {"Nft", "Token"}]

RootViews ==
    [current_auction_cycle: CycleNumbers, is_active: BOOLEAN, auction_owner: Users,
     token_type: {"Nft", "Token"}]

PoolRecords ==
    [root_state: RootViews,
     cycle_state: [end_time: Nat, top_bidder: Users \cup {NoAccount}],
     current_cycle_number: 1..(MaxCycle + 1), error_streak: Nat]

(* A record is told from none. *)
ASSUME NoRecordAssumption == NoAccount \notin RootViews \cup PoolRecords

(* Each step finds the data it uses: an auction at hand, a record of it,   *)
(* the root state of a record that is not complete, the reason of a failed *)
(* closing.  The code's streak counter is a byte: it stays far below 255.  *)
(* A record that was counted up past the last cycle is never sent.         *)
BotTypeOK ==
    /\ pc \in Steps
    /\ todo \subseteq AuctionIds
    /\ (todo = {}) <=> pc \in {"start", "stopped", "pass", "pool"}
    /\ block_time \in 0..now
    /\ fetched \in RootViews \cup {NoAccount}
    /\ (fetched = NoAccount) <=> pc # "new_cycle"
    /\ failure \in {"none", "other", "AuctionIsInProgress"}
    /\ (failure = "none") <=> pc \notin {"report_root", "report_cycle"}
    /\ hashed_pool \in [AuctionIds -> PoolRecords \cup {NoAccount}]
    /\ pc \in {"refresh", "send", "advance", "report_root", "report_cycle"} =>
           Record # NoAccount
    /\ \A id \in AuctionIds : hashed_pool[id] # NoAccount =>
           hashed_pool[id].error_streak <= MAX_ERROR_STREAK + 1
    /\ inactive_auctions \subseteq AuctionIds
    /\ error_auctions \subseteq AuctionIds
    /\ IsABag(in_flight) /\ BagToSet(in_flight) \subseteq Transactions
    /\ faults \in 0..Faults

-----------------------------------------------------------------------------
(* The cycles that get closed *)

(* A cycle of a listed auction is over, and the bot could close it.        *)
Due(id) ==
    /\ HasRoot(id)
    /\ ~root[id].is_filtered
    /\ id \in pool["primary"]
    /\ ENABLED (CloseIdleCycle(id) \/ CloseLastCycle(id) \/ CloseCycle(id, BotPayer))

(* It is the bot's business unless the bot saw the auction inactive before *)
(* (it is lost to it then, see below), stopped or is focused on another.   *)
IsClosable(id) ==
    /\ Due(id)
    /\ id \notin inactive_auctions
    /\ pc # "stopped"
    /\ focus \subseteq {id}

(* Where nobody else closes cycles, every due cycle is closed in the end,  *)
(* whatever calls failed and transactions got lost: no stale record makes  *)
(* the bot overlook the auction or give it up.                             *)
DueCyclesClosed == \A id \in AuctionIds : IsClosable(id) ~> ~IsClosable(id)

(* Whatever others do, an auction whose cycle is due is attended to in the *)
(* end: closed, or given up after MAX_ERROR_STREAK failures.  An auction   *)
(* that cannot be read or closed, or is deleted under way, never keeps the *)
(* bot from reaching the ones after it.                                    *)
DueCyclesAttended ==
    \A id \in AuctionIds : IsClosable(id) ~> (~IsClosable(id) \/ id \in error_auctions)

(* The bot never gives an auction up where only failing calls and lost     *)
(* transactions stand in the way: with MAX_ERROR_STREAK >= 2 * Faults + 2  *)
(* the errors of the faults and those its own stale records provoke never  *)
(* add up to that between two successes.                                   *)
NeverFaulty == error_auctions = {}

(* A cycle is never extended by more than one period at a time, though the *)
(* bot sends a second transaction for it while the first is on its way,    *)
(* and both may land: an ongoing auction ends at most a period from now,   *)
(* or from its start.                                                      *)
EndsWithinPeriod ==
    \A id \in AuctionIds : (HasCurrentCycle(id) /\ IsOngoing(root[id])) =>
        LET r == root[id]
        IN  \/ CurrentCycle(id).end_time <= now + r.auction_config.cycle_period
            \/ CurrentCycle(id).end_time = r.start_time + r.auction_config.cycle_period

-----------------------------------------------------------------------------
(* A statement of the repository that the code does not keep *)

(* "Hashset containing ids of inactive (frozen, filtered, finished)        *)
(* auctions" (gold-bot/src/pool_cache.rs, inactive_auctions)               *)
InactiveAuctionsAreInactive ==
    \A id \in inactive_auctions : HasRoot(id) => ~IsActive(root[id])
=============================================================================
