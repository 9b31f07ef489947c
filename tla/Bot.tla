-------------------------------- MODULE Bot --------------------------------
(***************************************************************************)
(* The closing bot (gold-bot/): a process outside the chain that passes    *)
(* over the auctions of the primary pool, caches what it read of each, and *)
(* sends a close_auction_cycle transaction when a cycle's time is over.    *)
(* The chain is module Auction; all its instructions go on between any two *)
(* steps of the bot, closing by others included.                           *)
(*                                                                         *)
(* Every step of the bot is one call to a node with the local computation  *)
(* that follows it.  A call may fail, a transaction the node accepted      *)
(* lands later or never, and the process may be restarted: Faults bounds   *)
(* how often any of this happens.                                          *)
(***************************************************************************)
EXTENDS AuctionProperties, Bags

CONSTANTS
    BotPayer,           \* the bot's key pair,
    CommandLines,       \* the ids it may be started with (one or none)
    MAX_ERROR_STREAK,
    MIN_BALANCE,        \* lamports the bot asks for when it has less,
    ShouldAirdrop,      \* unless it runs on the main net
    MaxInFlight,        \* a bound on the transactions on their way to the chain,
    Faults              \* and on failing calls, lost transactions and restarts

(* The order of the ids matters to the bot, so they are numbers, as in     *)
(* AuctionPool.                                                            *)
ASSUME BotAssumption ==
    /\ AuctionIds \subseteq Nat
    /\ BotPayer \in Users
    /\ \A ids \in CommandLines : ids \subseteq AuctionIds /\ Cardinality(ids) <= 1
    /\ MAX_ERROR_STREAK \in Nat
    /\ MIN_BALANCE \in Nat
    /\ ShouldAirdrop \in BOOLEAN
    /\ MaxInFlight \in Nat \ {0}
    /\ Faults \in Nat

VARIABLES
    focus,              \* the id given on the command line, in a set
    pc,                 \* the call the bot makes next
    todo,               \* the auctions left in this pass, the one at hand included
    block_time,         \* the chain's time read at the beginning of the pass
    fetched,            \* a root state whose record is not complete yet
    failure,            \* why closing failed, while the cache is refreshed
    hashed_pool,        \* the record of each auction, or NoAccount
    inactive_auctions,
    error_auctions,
    in_flight,          \* the transactions on their way, a bag
    faults              \* how many faults there were

passVars == <<pc, todo, block_time, fetched, failure>>
managed_pool == <<hashed_pool, inactive_auctions, error_auctions>>
botVars == <<focus, passVars, managed_pool, in_flight, faults>>
allVars == <<vars, botVars>>

-----------------------------------------------------------------------------
(* What the bot reads of an account, and keeps of it *)

IsActive(r) == IsOngoing(r) /\ ~r.is_filtered

RootView(r) ==
    [current_auction_cycle |-> r.current_auction_cycle, is_active |-> IsActive(r),
     auction_owner |-> r.auction_owner,
     token_type |-> IF r.auction_config.token_config = "Token" THEN "Token" ELSE "Nft"]

CycleView(c) ==
    [end_time |-> c.end_time,
     top_bidder |-> IF HasBid(c) THEN TopBid(c).bidder_pubkey ELSE NoAccount]

HasCycle(id, n) == n \in CycleNumbers /\ cycle[id][n] # NoAccount

PoolRecord(r, c) ==
    [root_state |-> r, cycle_state |-> c,
     current_cycle_number |-> r.current_auction_cycle, error_streak |-> 0]

(* The auction at hand: of those left, the first in the order of the pool. *)
Id == Min(todo)
Record == hashed_pool[Id]
CachedCycle == Record.root_state.current_auction_cycle

-----------------------------------------------------------------------------
(* Calls and passes *)

CallReturns == UNCHANGED faults
CallFails == faults < Faults /\ faults' = faults + 1

EndPass ==
    /\ pc' = "pass" /\ todo' = {} /\ block_time' = 0
    /\ fetched' = NoAccount /\ failure' = "none"

(* An error that ends the pass, for a call that failed or an account that  *)
(* is not there.                                                           *)
PassFails(missing) ==
    /\ CallFails \/ (missing /\ CallReturns)
    /\ EndPass

(* Fault: the pass ends after the first auction. *)
FirstAuctionDone == EndPass

AuctionDone ==
    IF todo = {Id} THEN EndPass
    ELSE /\ pc' = "auction" /\ todo' = todo \ {Id}
         /\ fetched' = NoAccount /\ failure' = "none"
         /\ UNCHANGED block_time

(* An auction given on the command line must be in the pool when the       *)
(* process starts; otherwise, or when the call fails, it panics.           *)
StartProcess ==
    /\ pc = "start"
    /\ \/ /\ focus \subseteq pool["primary"]
          /\ CallReturns
          /\ pc' = "pass"
       \/ /\ focus # {}
          /\ CallFails \/ (~focus \subseteq pool["primary"] /\ CallReturns)
          /\ pc' = "stopped"
    /\ UNCHANGED <<vars, focus, todo, block_time, fetched, failure, managed_pool, in_flight>>

(* try_main up to the pool: the balance is topped up, and the chain's time  *)
(* read.  A call that fails here only starts a new pass.                   *)
BeginPass ==
    /\ pc = "pass"
    /\ wallet' = IF ShouldAirdrop /\ wallet[BotPayer] < MIN_BALANCE
                 THEN [wallet EXCEPT ![BotPayer] = @ + MIN_BALANCE] ELSE wallet
    /\ block_time' = now
    /\ IF focus = {}
       THEN /\ pc' = "pool"
            /\ UNCHANGED todo
       ELSE /\ pc' = "auction"
            /\ todo' = focus
    /\ UNCHANGED <<contract_bank_state, contract_bank, protocol_fee_state, pool, max_len,
                   now, stateVars, focus, rewardVars, fetched, failure, managed_pool, in_flight,
                   faults>>

ReadPool ==
    /\ pc = "pool"
    /\ \/ PassFails(pool["primary"] = {})
       \/ /\ CallReturns
          /\ pool["primary"] # {}
          /\ pc' = "auction"
          /\ todo' = pool["primary"]
          /\ UNCHANGED <<block_time, fetched, failure>>
    /\ UNCHANGED <<vars, focus, managed_pool, in_flight>>

(* The process is restarted, after a panic or by its supervisor; all it    *)
(* knew is lost, and what it sent is still on its way.                     *)
Restart ==
    /\ CallFails
    /\ pc' = "start" /\ todo' = {} /\ block_time' = 0
    /\ fetched' = NoAccount /\ failure' = "none"
    /\ hashed_pool' = [id \in AuctionIds |-> NoAccount]
    /\ inactive_auctions' = {} /\ error_auctions' = {}
    /\ UNCHANGED <<vars, focus, in_flight>>

-----------------------------------------------------------------------------
(* get_or_insert_auction *)

(* Fault: the end of the cycle itself counts as before it. *)
IsOverAfter(r) == block_time > r.cycle_state.end_time

(* The cycle is over as far as the cache knows. *)
IsOver(r) == block_time >= r.cycle_state.end_time

(* The record r of the auction at hand is in the cache: an inactive auction*)
(* is remembered as such, one whose cycle is not over is left alone.       *)
Consider(r) ==
    IF ~r.root_state.is_active
    THEN /\ inactive_auctions' = inactive_auctions \cup {Id}
         /\ AuctionDone
    ELSE /\ UNCHANGED inactive_auctions
         /\ IF IsOver(r)
            THEN pc' = "refresh" /\ fetched' = NoAccount /\ UNCHANGED <<todo, block_time, failure>>
            ELSE AuctionDone

IsExcluded(id) == id \in inactive_auctions \cup error_auctions

LookUp ==
    /\ pc = "auction"
    /\ \/ /\ IsExcluded(Id)
          /\ AuctionDone
          /\ UNCHANGED inactive_auctions
       \/ /\ ~IsExcluded(Id)
          /\ Record # NoAccount
          /\ Consider(Record)
       \/ /\ ~IsExcluded(Id)
          /\ Record = NoAccount
          /\ pc' = "new_root"
          /\ UNCHANGED <<todo, block_time, fetched, failure, inactive_auctions>>
    /\ UNCHANGED <<vars, focus, hashed_pool, error_auctions, in_flight, faults>>

(* PoolRecord::new makes two calls. *)
FetchRoot ==
    /\ pc = "new_root"
    /\ \/ PassFails(~HasRoot(Id))
       \/ /\ CallReturns
          /\ HasRoot(Id)
          /\ fetched' = RootView(root[Id])
          /\ pc' = "new_cycle"
          /\ UNCHANGED <<todo, block_time, failure>>
    /\ UNCHANGED <<vars, focus, managed_pool, in_flight>>

FetchCycle ==
    LET n == fetched.current_auction_cycle
        r == PoolRecord(fetched, CycleView(cycle[Id][n]))
    IN  /\ pc = "new_cycle"
        /\ \/ /\ PassFails(~HasCycle(Id, n))
              /\ UNCHANGED <<hashed_pool, inactive_auctions>>
           \/ /\ CallReturns
              /\ HasCycle(Id, n)
              /\ hashed_pool' = [hashed_pool EXCEPT ![Id] = r]
              /\ Consider(r)
        /\ UNCHANGED <<vars, focus, error_auctions, in_flight>>

-----------------------------------------------------------------------------
(* close_cycle *)

Fails(error) == failure' = error /\ pc' = "report_root"

(* The cycle state is read again, at the address the cached root state     *)
(* gives, so that the transaction names the top bidder.                    *)
Refresh ==
    /\ pc = "refresh"
    /\ \/ /\ CallFails \/ (~HasCycle(Id, CachedCycle) /\ CallReturns)
          /\ Fails("other")
          /\ UNCHANGED hashed_pool
       \/ /\ CallReturns
          /\ HasCycle(Id, CachedCycle)
          /\ hashed_pool' = [hashed_pool EXCEPT
                 ![Id].cycle_state = CycleView(cycle[Id][CachedCycle])]
          /\ pc' = "send"
          /\ UNCHANGED failure
    /\ UNCHANGED <<vars, focus, todo, block_time, fetched, inactive_auctions, error_auctions,
                   in_flight>>

(* The accounts a transaction names.  Without a top bidder the factory     *)
(* passes the owner.                                                       *)
CloseAuctionCycle(id, r) ==
    [auction_id |-> id, cycle_number |-> r.current_cycle_number,
     top_bidder |-> IF r.cycle_state.top_bidder = NoAccount THEN r.root_state.auction_owner
                                                            ELSE r.cycle_state.top_bidder,
     token_type |-> r.root_state.token_type]

(* The accounts are those the program will look for. *)
NamesAccounts(tx) ==
    LET id == tx.auction_id
    IN  /\ HasRoot(id)
        /\ tx.cycle_number = root[id].current_auction_cycle
        /\ HasBid(CurrentCycle(id)) =>
               /\ tx.top_bidder = TopBid(CurrentCycle(id)).bidder_pubkey
               /\ root[id].auction_config.token_config = "Token" \/ tx.token_type = "Nft"

Closes(tx) ==
    \/ CloseIdleCycle(tx.auction_id)
    \/ CloseLastCycle(tx.auction_id)
    \/ CloseCycle(tx.auction_id, BotPayer)

Execute(tx) == NamesAccounts(tx) /\ Closes(tx)

(* The program would execute the transaction as things stand. *)
IsValid(tx) == NamesAccounts(tx) /\ ENABLED Closes(tx)

(* The program compares the addresses first, then the status and the time, *)
(* and the top bidder last.                                                *)
IsInProgress(tx) ==
    LET id == tx.auction_id
    IN  /\ HasRoot(id)
        /\ tx.cycle_number = root[id].current_auction_cycle
        /\ IsOngoing(root[id])
        /\ now < CurrentCycle(id).end_time

(* The node simulates a transaction before it accepts it.  A failing call  *)
(* leaves open whether it was accepted.                                    *)
Send ==
    LET tx == CloseAuctionCycle(Id, Record)
        sent == in_flight (+) SetToBag({tx})
    IN  /\ pc = "send"
        /\ BagCardinality(in_flight) < MaxInFlight
        /\ \/ /\ IsValid(tx)
              /\ in_flight' = sent
              /\ \/ CallReturns /\ pc' = "advance" /\ UNCHANGED failure
                 \/ CallFails /\ Fails("other")
           \/ /\ CallReturns
              /\ ~IsValid(tx)
              /\ Fails(IF IsInProgress(tx) THEN "AuctionIsInProgress" ELSE "other")
              /\ UNCHANGED in_flight
           \/ /\ CallFails
              /\ Fails("other")
              /\ UNCHANGED in_flight
        /\ UNCHANGED <<vars, focus, todo, block_time, fetched, managed_pool>>

-----------------------------------------------------------------------------
(* After a transaction was accepted, and after an error *)

Counted(r) == [r EXCEPT !.current_cycle_number = @ + 1]

(* Fault: the errors before the success still count. *)
ClosedStreakKept(r, view) == [Counted(r) EXCEPT !.cycle_state = view]

Closed(r, view) == [Counted(r) EXCEPT !.cycle_state = view, !.error_streak = 0]

(* The cycle number is counted up and the cycle state read again, at the   *)
(* address the cached root state still gives.                              *)
Advance ==
    /\ pc = "advance"
    /\ \/ /\ PassFails(~HasCycle(Id, CachedCycle))
          /\ hashed_pool' = [hashed_pool EXCEPT ![Id] = Counted(@)]
       \/ /\ CallReturns
          /\ HasCycle(Id, CachedCycle)
          /\ hashed_pool' = [hashed_pool EXCEPT
                 ![Id] = Closed(@, CycleView(cycle[Id][CachedCycle]))]
          /\ AuctionDone
    /\ UNCHANGED <<vars, focus, inactive_auctions, error_auctions, in_flight>>

(* Fault: the root state is read, and the cycle number stays. *)
RootUpdatedOnly(r, view) == [r EXCEPT !.root_state = view]

(* update_root_state *)
RootUpdated(r, view) ==
    [r EXCEPT !.root_state = view, !.current_cycle_number = view.current_auction_cycle]

(* report_error reads both states again, in two calls. *)
ReportRoot ==
    /\ pc = "report_root"
    /\ \/ /\ PassFails(~HasRoot(Id))
          /\ UNCHANGED hashed_pool
       \/ /\ CallReturns
          /\ HasRoot(Id)
          /\ hashed_pool' = [hashed_pool EXCEPT ![Id] = RootUpdated(@, RootView(root[Id]))]
          /\ pc' = "report_cycle"
          /\ UNCHANGED <<todo, block_time, fetched, failure>>
    /\ UNCHANGED <<vars, focus, inactive_auctions, error_auctions, in_flight>>

IsUnexpectedError == failure # "AuctionIsInProgress"

(* Fault: one error more is tolerated. *)
IsFaultyAuctionLate(r) == r.error_streak > MAX_ERROR_STREAK + 1

IsFaultyAuction(r) == r.error_streak > MAX_ERROR_STREAK

ReportCycle ==
    LET read == [Record EXCEPT !.cycle_state = CycleView(cycle[Id][CachedCycle]),
                               !.error_streak = IF IsUnexpectedError THEN @ + 1 ELSE @]
    IN  /\ pc = "report_cycle"
        /\ \/ /\ PassFails(~HasCycle(Id, CachedCycle))
              /\ UNCHANGED <<hashed_pool, error_auctions>>
           \/ /\ CallReturns
              /\ HasCycle(Id, CachedCycle)
              /\ hashed_pool' = [hashed_pool EXCEPT ![Id] = read]
              /\ error_auctions' = IF IsUnexpectedError /\ IsFaultyAuction(read)
                                   THEN error_auctions \cup {Id} ELSE error_auctions
              /\ AuctionDone
        /\ UNCHANGED <<vars, focus, inactive_auctions, in_flight>>

-----------------------------------------------------------------------------
(* Transactions on their way *)

(* A transaction is executed, or fails without effect, when it lands. *)
Land ==
    \E tx \in BagToSet(in_flight) :
        /\ in_flight' = in_flight (-) SetToBag({tx})
        /\ Execute(tx) \/ (~IsValid(tx) /\ UNCHANGED vars)
        /\ UNCHANGED <<focus, passVars, managed_pool, faults>>

(* Its blockhash is too old before it lands. *)
Expire ==
    \E tx \in BagToSet(in_flight) :
        /\ CallFails
        /\ in_flight' = in_flight (-) SetToBag({tx})
        /\ UNCHANGED <<vars, focus, passVars, managed_pool>>

-----------------------------------------------------------------------------

InitBot ==
    /\ Init
    /\ focus \in CommandLines
    /\ pc = "start" /\ todo = {} /\ block_time = 0
    /\ fetched = NoAccount /\ failure = "none"
    /\ hashed_pool = [id \in AuctionIds |-> NoAccount]
    /\ inactive_auctions = {} /\ error_auctions = {}
    /\ in_flight = EmptyBag
    /\ faults = 0

BotStep ==
    \/ StartProcess \/ BeginPass \/ ReadPool
    \/ LookUp \/ FetchRoot \/ FetchCycle
    \/ Refresh \/ Send \/ Advance \/ ReportRoot \/ ReportCycle

NextBot ==
    \/ BotStep
    \/ Restart
    \/ Land \/ Expire
    \/ Next /\ UNCHANGED botVars

(* main loops forever and waits for nothing but its calls, and a           *)
(* transaction lands or expires; nobody else is obliged to do anything.    *)
BotSpec == InitBot /\ [][NextBot]_allVars /\ WF_allVars(BotStep) /\ WF_allVars(Land)

=============================================================================
