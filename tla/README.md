# Verification of the gold program

This directory holds TLA+ specifications of the Solana program behind gold.xyz
(`contract/`), the TLC configurations that check them on small instances, and
TLAPS proofs of their main invariants for all values of the constants. Paths
below are relative to the repository's root.

The program runs timed auctions in cycles. Bidders outbid each other within a
cycle, a closed cycle's top bid becomes the owner's money, and its winner is
owed an NFT or tokens. Everything is kept in accounts that the program's
instructions read and write.

## 1. Inventory

| Part | State it keeps | Operations | Hard behaviour |
|---|---|---|---|
| Auction pools (`contract/src/state.rs`, `AuctionPool`) | two sorted vectors of auction ids, each with `max_len` and an account of fixed size | `try_insert_sorted`, `remove`, `reallocate_pool` | full pools, binary search that relies on the order, capacity and account size kept in step |
| Contract-wide state (`initialize_contract.rs`, `admin_withdraw.rs`, `set_protocol_fee.rs`, `reallocate_pool.rs`) | contract bank with its two authorities, protocol fee | initialize, withdraw, reassign, set fee, reallocate | rent of the bank, fee in floating point |
| Auction life cycle (`initialize_auction.rs`, `bid.rs`, `close_auction_cycle.rs`, `delete_auction.rs`, `assertions.rs`) | root state, one cycle state per cycle, the auction's bank | initialize, bid, close cycle, delete | bids, closing and deletion in any order; encore periods; idle auctions that are moved and reactivated; deletion over several calls |
| Funds and rewards (`claim_funds.rs`, `claim_rewards.rs`) | `available_funds`, `unclaimed_rewards`, end time 0 as the mark of a claimed reward, child NFTs, the master's URI | claim funds, claim reward | two records of the same money; rewards claimed in any order, also before the cycle is closed |
| Moderation (`filter_auction.rs`, `verify_auction.rs`, `modify_auction.rs`) | flags and encore period in the root state, pool membership | filter, unfilter, verify, modify | interplay with idling and finishing, which use the same pools |
| URI numbering (`increment_uri`, `find_edition_number_range_in_uri`) | the number in the URI of the master | increment, replace and restore | claims interleaved with closings |
| Closing bot (`gold-bot/`) | cache of root and cycle states, sets of inactive and erroneous auctions, error streaks | one pass over the primary pool per second | cache out of date, other closers, retries, giving up on an auction |
| Client (`client/`, `contract/src/frontend/`) | none | reads of pools, root and cycle states; the plan of a deletion | reads without a common snapshot, a plan sent in several instructions |
| Dispatch, addresses, factories (`processor/mod.rs`, `pda/`, `instruction/`) | none | decoding, account checks | none that depends on an order of events |

**How they interact.** A transaction is atomic and transactions are serialised
per account, so the program has no concurrency *within* an instruction; what is
hard is the *order* of instructions issued by owners, bidders, claimants,
admins and bots that do not coordinate, and the time that passes in between.
All instructions on an auction share its root state; the bank is shared by
bids, claims and deletion; the pools are shared by all auctions; the contract
bank receives fees and the rent of deleted cycle states. The bot and the client
only read accounts and submit transactions.

**What makes the parts correct.**
* Pools: sorted, within capacity, and listing exactly the existing auctions,
  each in one pool.
* Contract: the bank keeps its rent; the fee is a share of what was claimed.
* Life cycle: cycle states numbered without gaps; bids ascend; a displaced top
  bid is refunded in full; encores only give time; a closed cycle has a winner;
  no more cycles than configured.
* Funds: the bank of an auction holds exactly what the auction owes, and no
  lamport is created or lost; seen from outside it is an escrow: one standing
  bid that only a higher one displaces, and sales that stay as they were made.
* Rewards: a claimed reward reached its winner; the counter never exceeds the
  rewards that can be claimed; the master's URI shows the running cycle.
* Bot: an ended cycle of an active auction is eventually closed, whatever its
  cache says; auctions are not given up without cause; a second transaction for
  the same cycle does no harm.
* Client: a deletion that has begun can be completed.
* URIs: the number, and nothing else of the URI, changes, in whichever order
  cycles are closed and rewards claimed.

## 2. Modules

| Module | What it is |
|---|---|
| `IdSet` | a pool as a set of ids: the operators the program's modules use |
| `BoundedIdSet` | the abstract specification of one pool over those operators |
| `AuctionPool` | the pool as the code has it: sorted vector, binary search, account size; implements `BoundedIdSet` |
| `Contract` | contract-wide state and the five instructions that only touch it |
| `Auction` | `EXTENDS Contract`: root and cycle states, banks, rewards, and the other nine instructions |
| `AuctionProperties` | the properties of `Auction` |
| `Escrow` | the abstract specification of an auction's money, without accounts, cycles, pools and time; `AuctionProperties` maps `Auction` to it |
| `Bot` | `EXTENDS AuctionProperties`: the closing bot, one action per call to a node, beside all actions of the chain |
| `BotProperties` | the properties of `Bot` |
| `DeletionPlan` | `EXTENDS AuctionProperties`: an owner who reads an auction's page, plans its deletion in rounds and sends the instructions one by one; with its properties |
| `UriNumber` | the number in the URIs of a master and its children, byte by byte, over an auction's life; with its properties |
| `AuctionPoolProofs` | the proofs about the pool vector |
| `AuctionProofs`, `BankProofs` | the proofs about `Auction` that the others rest on, the second building on the first: types, pools and the contract bank; cycle states, banks, bids and winners |
| `LedgerProofs`, `RewardProofs` | on top of `BankProofs`: the refinement of `Escrow` and sums of lamports; rewards |
| `BotProofs` | on top of `BankProofs`: the bot's own state, and the end of cycles it closes |
| `DeletionProofs` | on top of `BankProofs`: a deletion that has begun goes on |
| `UriProofs` | the proofs about the URIs, from the digits of a number to the life of an auction |
| `MCAuctionPool`, `MCAuction`, `MCBot`, `MCDeletionPlan`, `MCUriNumber` | values of the constants for TLC |

`Contract` and `AuctionPool` meet in `IdSet`. `Contract` keeps its two pools as
sets and changes them with `IdSet`'s operators; `AuctionPool` shows that the
vector of the code does what those operators say (`ImplementsIdSet`). So the
sorted order is a fact about `AuctionPool` and needs no mention elsewhere.

`Bot` and `DeletionPlan` are compositions: their next-state relation has the
steps of the bot or the client beside `Auction`'s `Next`, so that bids, claims,
closings by others, filtering and deletion happen between any two of their
steps. `Auction` keeps of a URI only the number; that the algorithms on bytes
do compute it is what `UriNumber` shows.

### From code to model

* **An instruction is one action.** A Solana instruction that returns an error
  changes nothing, wherever in the handler the error arises. So all checks of a
  handler, the late ones included, are guards, and there is no action for a
  failing call. `bid` has two actions, one for each branch on pool membership;
  `close_auction_cycle` has three (idle cycle, last cycle, other cycles);
  `delete_auction` has two (some cycle states, the rest of them).
* **Accounts.** `root[id]`, `cycle[id][n]` and `contract_bank_state` are records
  with the fields of the Rust structs, or `NoAccount`. Banks are lamport
  counts; a bank of 0 lamports does not exist, which is also the test of the
  code. Field names are those of the source; `status` and `token_config` are
  flattened into the root state and the configuration. `number_of_cycles` is 0
  where the code has `None`, as a caller may also write it.
* **Accounts passed by the caller** are the right ones: each handler verifies
  the address of every state account and compares the top bidder and the owner
  with the state; the model names them directly.
* **Time** is `now`, a natural number that `Tick` advances up to `MaxTime`.
  Instructions read it once, as they read the clock's sysvar.
* **Rewards.** Of the Metaplex and SPL token programs the model keeps the
  number in the master's URI (`master`), the holder of the child minted for a
  cycle (`children`), and how often the per-cycle amount was minted to a user
  (`tokens`). Children and masters survive the deletion of their auction, as
  the accounts do.
* **The fee** (`FeeShares`) is a floating-point product that is truncated. The
  model allows the exact quotient rounded down, and one less where the float
  product may fall just short of a whole number. Above 2^46 lamports the error
  may be larger; `share <= amount` is then the `checked_sub` of the code.
* **The environment** may send lamports to an existing bank (`Deposit`).

**The bot.** Each action of `Bot` is one call to a node together with the
computation up to the next call, in the order of `main.rs` and `pool_cache.rs`;
`pc` names the call made next.

| Action | Code |
|---|---|
| `StartProcess` | `main` up to the loop: `is_existing_auction` panics for a focused auction that is not in the pool |
| `BeginPass`, `ReadPool` | `try_main`: balance and airdrop, block time, pool |
| `LookUp`, `FetchRoot`, `FetchCycle` | `get_or_insert_auction` with `PoolRecord::new`, for the first of the ids left in the pass (`Id`) |
| `Refresh`, `Send` | `close_cycle`: the cycle state is read again, the transaction is built and sent |
| `Advance` | `increment_cycle_number`, `update_cycle_state`, `reset_error_streak` |
| `ReportRoot`, `ReportCycle` | `report_error` with its two reads, `is_faulty_auction` |
| `Land`, `Expire`, `Restart` | the network and the supervisor (external) |

Any call may fail (`CallFails`); an error that `?` passes on ends the pass
(`PassFails`). A node simulates a transaction before it accepts it, so `Send`
fails at once when the transaction would (`IsValid`); an accepted one joins the bag
`in_flight`, from which it lands later, twice if it was sent twice, or expires.
`NamesAccounts` says when the accounts a transaction names are those the
program looks for: an out-of-date cycle number, top bidder or token type makes
it fail. A record keeps of the two states only what the bot reads of them. The
block time is read once per pass and may be out of date when it is compared.
What goes wrong before the pool is read only starts a new pass and is left out.

**The deletion.** `GetAuction` and `GetAuctionCycleState` are the two reads a
page is made of. `DeleteAll` computes all instructions from them, as
`delete_all` does; `SendNext` sends them in order until one fails
(`SendFails`). `started` remembers whether the deletion took effect.
`CanExecute` spells out the checks of an instruction.

**URIs** are sequences of one-character strings, positions count from 0. The
loop from the end of the URI to its last slash becomes what it finds
(`SlashPos`, `DotPos`, `LastPos`); `String::truncate`, `replace_range` and the
conversions of `u64` are the operators `Truncated`, `ReplacedRange`, `Decimal`
and `Value`. The conversions go through a number or a text one digit at a time,
as recursive functions. Panics and errors are both guards. Of the auction itself
`UriNumber` keeps what decides in which order the URI is written: whether the
current cycle has a bid and its time is over (`is_over`), the cycle number, the
mark that it is finished, and the counter of unclaimed rewards, with its checked
addition on closing and its checked subtraction on a claim. Time passes
(`CycleEnds`), a bid on a filtered auction reopens the cycle (`Reactivate`), a
cycle with a bid is closed (`CloseCycle`), and a reward is claimed once its cycle
is over, closed or not (`ClaimRewards`).

Each module also defines, just before some definitions, a variant of it with a
plausible mistake (marked `Fault:`). They are not part of any specification;
they serve to confirm that a property notices the mistake (section 4).

## 3. Runs

| Run | Configuration | Distinct states | What it shows |
|---|---|---|---|
| `AuctionPool` | six ids, capacities 1 to 5 | 191 | the vector stays sorted, fits its account and implements the bounded set |
| `Lifecycle` | one NFT auction of two cycles with an encore, two bidders, claims, deletion in batches of 1 and 2 | 117,487 | type, accounts, money, rewards, bids |
| `Moderation` | endless token and NFT auctions and a repeating NFT auction; filtering; idle limit 1; counter limit 2 | 654,394 | the same hazards when auctions leave and re-enter the primary pool |
| `TwoAuctions` | two ids, pools of 1 or 2 slots, valid and invalid configurations, re-created ids | 187,533 | auctions that share pools and ids do not disturb each other |
| `Administration` | one token auction, withdrawals, reassignment, fee changes, deposits, verification | 54,118 | the contract bank and the fee |
| `BotAlone` | the bot as the only closer of one token auction without end: bids, filtering, one fault, two transactions on their way | 309,596 | every due cycle is closed; no auction is given up; duplicates do no harm |
| `BotTwoAuctions` | two auctions, pools of 1 or 2 slots, other closers, deletion and re-creation, immediate idling, focused or not | 240,616 | no auction keeps the bot from another |
| `DeletionPlan` | one token auction of up to three cycles, rounds of two, everything else of the chain in between | 242,211 | a deletion that began goes through |
| `UriNumber` | eight directories, none, 2 or 10 cycles, URIs of at most 13 bytes, numbers up to 11, at most 4 unclaimed rewards | 105,406 | the number, and nothing else of the URI, changes, also when the open cycle's reward is claimed first |
| `BotInactiveDivergence` | one auction, filtered and unfiltered | stops at the violation | finding 3 |
| `CounterDivergence` | as `Lifecycle`, `MaxUnclaimed` 2, `MaxTime` 6, one cycle per deletion call | stops at the violation | finding 1 |
| `IdleDivergence` | as `Lifecycle`, `MaxUnclaimed` 2, `MaxTime` 6, one cycle per deletion call | stops at the violation | finding 2 |

**Bounds, and why they are enough to be interesting.** Limits of the code are
constants and are scaled down so that each is reached within a few steps: a
history of two bids (the code: 10), so that the oldest bid is dropped; one idle
cycle (50) before an auction is moved; an upper bound of 2 on
`unclaimed_rewards` (65535), so that the checked addition fails; cycles of two
time units with an encore of one; pools of one or two slots, so that moves
fail; a fee of one half, so that rounding matters. `MaxTime` bounds the clock
and `MaxCycle` the cycle numbers (u64 in the code). The remaining bounds are
the sets of inputs (`BidAmounts`, `ClaimAmounts`, `DeleteBatches`, ...), named
in `Contract` and `Auction` and given in each `.cfg`. Wallets are finite
(`MCFunds`, `MCScarceFunds`), so transfers also fail for lack of money, and
refunds reach bidders whose wallet is empty.

Deadlock is not checked: with time at its bound and all wallets empty the
instance may stop, and the program itself has no obligation to proceed.

For the bot: `Faults` bounds failing calls, lost transactions and restarts
together, `MaxInFlight` the transactions on their way (two, so that a duplicate
exists). With `MAX_ERROR_STREAK` of 4 (the code: 20) and one fault there is
just room for what a fault and the bot's own stale records add up to between
two successes; each further fault needs two more. `BotTwoAuctions` has a limit
of 1, so that auctions are given up. In `DeletionPlan` the owner sends no
deletion besides the plan (`DeleteBatches` is empty): two plans of one owner
would interfere, and the client is operated by one person. For `UriNumber`,
`MaxNumber` of 11 lets numbers grow from one digit to two and shrink again on
claims and at the end, and 13 bytes let some directories have room for one digit
only; one directory has zero bytes of its own, which are what padding consists
of. `MaxUnclaimed` of 4 lets claims lag several cycles behind, and the counter
reach both of its ends.

### Fairness

The program never acts on its own, so its own specification assumes no fairness
and has safety properties only. Liveness comes from outside it:

* `BotSpec` has `WF(BotStep)`: `main` is a loop without a condition
  (`main.rs:69-82`) that waits for nothing but its calls, errors included
  (`main.rs:79`), and one of the bot's steps is always possible unless it
  stopped with a panic or the bound on transactions is reached. Restarts
  (`docker-compose.yml`, `restart: unless-stopped`) are possible and not assumed.
* `BotSpec` has `WF(Land)`: a transaction on its way is executed or expires
  some time. `Expire` is a fault and bounded by `Faults`.
* `ClientSpec` has `WF(SendNext \/ SendFails)`: an owner who began to delete an
  auction goes on. Without it nobody deletes anything, and nothing is claimed
  of an owner who closes the page half way.

Bidders, other closers, admins and owners are obliged to nothing, and the clock
need not advance.

## 4. Properties

The properties are stated and explained in `AuctionProperties`, `Contract`,
`AuctionPool`, `BotProperties`, `DeletionPlan` and `UriNumber`. Those that matter
most:

* `BankSolvent`, `BankBalanced`: bids, refunds, claims and deletion all draw on
  one bank, while `available_funds` is a second record of part of its content.
  The bank covers the claimable funds, the refundable top bid and its rent; and
  without deposits from outside it holds nothing else.
* `LamportsConserved`: wallets, banks, rents and the contract bank add up to
  the same sum forever.
* `CounterPayable`: deletion is refused while `unclaimed_rewards` is positive,
  and the counter never exceeds the rewards that can still be claimed; a
  counter that did would lock the auction for good.
* `ClaimedRewardsDelivered`, `MasterShowsCycle`: rewards and URIs, for claims
  in any order.
* `PoolPlacement`, `PoolsWithinCapacity`, `CycleAccounts`: the structure all
  instructions rely on.
* `DisplacedBidsRefunded`, `BidsLeaveTime`: what a step may never do.
* `ImplementsEscrow`: the refinement. An auction is `open` until it is finished
  or its deletion begins; its standing bid is the top bid of the current cycle;
  its sales are the top bids of the closed cycles, in order; its proceeds are
  `available_funds`. Every instruction is a step of `Escrow` on one auction or
  leaves all of that alone: bids only rise, a sale is of the standing bid and of
  nothing else, what was sold stays as it was whatever is reactivated or
  filtered later, and the owner's proceeds grow by sales only.
* `DueCyclesClosed`, `DueCyclesAttended` (liveness): after each closing the
  bot's record of an auction is out of date. In the end every due cycle
  is closed nevertheless, or, where others interfere, the auction is closed or
  counted out; no read that fails and no auction that cannot be closed keeps
  the bot from another. `NeverFaulty` and `EndsWithinPeriod`: what stale records,
  faults and duplicates do not add up to.
* `StartedDeletionGoesOn`, `DeletionEnds`: a plan made from two reads without a
  common snapshot is either refused as a whole or valid to its end. The first
  says with `CanExecute` that all checks of the next instruction pass; whether
  it fails in the model (`SendFails`) is decided by the actions of `Auction`
  themselves, so `DeletionEnds` would notice a check that `CanExecute` misses.
* `MasterUriShowsCycle`, `ChildUriShowsCycle`: for every directory, whatever it
  consists of, and for claims of any cycle that is over, the open one included:
  its claim puts the master's own number in and back, and its closing comes after
  its child was made.
* `UriStopsByLengthOnly`: wherever the counter of unclaimed rewards and the cycle
  number allow it, a cycle that is over can be closed and a due reward claimed,
  unless the number needed makes the URI too long. The counter is a premise,
  because it can refuse a due reward (finding 1).

For every property of every passing run `PROJECT.json` names a definition and a
faulty variant of it (a dropped guard, a missing reset, a comparison that is
not strict) with which TLC finds the property violated in the same run.

### Findings

1. `CounterDivergence`. `claim_rewards` asks that the cycle's time is over, not
   that the cycle was closed (`claim_rewards.rs:96`). While the reward of an
   earlier cycle is unclaimed, the reward of an ended but open cycle can be
   claimed, and takes one off the counter although the earlier reward is still
   due. Until the open cycle is closed, `unclaimed_rewards` is then not the
   "Number of unclaimed rewards" (`state.rs:170`). At 0 it refuses the claim of
   the reward that is due, and no longer keeps `delete_auction` from deleting
   the cycle with the unclaimed reward, which
   `tests/process_delete_auction.rs:35` expects to be refused. If the open cycle
   sits in the secondary pool, a bid reopens it after its reward was claimed;
   a token auction then mints for it twice, and the difference stays. The
   weaker `CounterPayable` holds.
2. `IdleDivergence`. An auction that was idle for too long is said to be
   "automatically filtered at cycle closing" (`lib.rs:43-49`).
   `increment_idle_streak` moves it to the secondary pool but leaves
   `is_filtered` alone.

3. `BotInactiveDivergence`. `inactive_auctions` is to contain "ids of inactive
   (frozen, filtered, finished) auctions" (`pool_cache.rs:147-148`). Ids are
   only ever added: an auction the bot saw filtered stays there when it is
   unfiltered (or deleted and created anew), and its cycles are not closed until
   the bot is restarted.

Other observations made while modelling, without a run of their own:

* The comments of `close_auction_cycle` and `claim_rewards` describe a holding
  account and a 95/5 split made on closing, which moved to `claim_rewards` and
  `claim_funds`.
* A bid on a filtered auction moves it to the primary pool with `is_filtered`
  still set. Unfiltering then fails, clients keep hiding it, and the bot does
  not close its cycles, although `state.rs:82-83` calls the flag "just a flag
  for our frontend".
* A last or idle cycle cannot be closed while the secondary pool is full or
  already lists the auction.
* `report_error` in the bot returns the opposite of what its first comment says,
  and lists a cycle "closed by other agent" under the errors recognized by
  `AuctionIsInProgress` (`pool_cache.rs:97-105`). When that cycle had a bid, the
  bot's transaction names the old cycle state and fails for that, before the
  program looks at the time; the error counts as unexpected.
* `try_close_cycle` "sends the transaction only if ... the current cycle
  finished" (`main.rs:156`); the decision is made on the cached end time, and
  the one read just before sending is not looked at. The program refuses such a
  transaction; it costs the bot a refresh.
* Nothing is reserved for longer numbers when a URI is created. If the
  directory leaves room for one digit only, the tenth cycle cannot begin, and of
  a repeating auction the tenth reward cannot be claimed. `UriStopsByLengthOnly`
  says that this is the only way in which the URI stops a closing or a claim; what
  the counter of unclaimed rewards refuses is another matter.

## 5. Proofs

| Theorem | States, for all values of the constants |
|---|---|
| `PoolTypeInvariant`, `PoolSortedInvariant`, `PoolFitsAccountInvariant` | of `AuctionPool`: `Spec => []TypeOK`, `[]PoolSorted`, `[]PoolFitsAccount` |
| `PoolImplementsIdSet` | of `AuctionPool`: `Spec => ImplementsIdSet` |
| `TypeCorrect` | of `Auction`: `Spec => []TypeOK` |
| `ContractBankKeepsRent` | `Spec => []ContractBankRentExempt` |
| `PoolPlacementInvariant` | `Spec => []PoolPlacement` |
| `PoolsWithinCapacityInvariant` | `Spec => []PoolsWithinCapacity` |
| `CycleAccountsInvariant` | `Spec => []CycleAccounts` |
| `BankSolventInvariant`, `BankBalancedInvariant` | `Spec => []BankSolvent`, `Spec => []BankBalanced` |
| `BidsAscendInvariant` | `Spec => []BidsAscend` |
| `ClosedCyclesWonInvariant` | `Spec => []ClosedCyclesWon` |
| `BidsAlwaysLeaveTime` | `Spec => BidsLeaveTime` (an action property) |
| `DisplacedBidsAlwaysRefunded` | `Spec => DisplacedBidsRefunded` (an action property) |
| `TreasuryInvariant` | `Spec => []TreasuryIsSumOfWins` |
| `LamportsConservedInvariant` | `Spec => []LamportsConserved` |
| `MasterShowsCycleInvariant` | `Spec => []MasterShowsCycle` |
| `ClaimedRewardsDeliveredInvariant` | `Spec => []ClaimedRewardsDelivered` |
| `CounterPayableInvariant` | `Spec => []CounterPayable` |
| `AuctionImplementsEscrow` | `Spec => ImplementsEscrow` |
| `BotTypeInvariant` | of `Bot`: `BotSpec => []BotTypeOK` |
| `EndsWithinPeriodInvariant` | `BotSpec => []EndsWithinPeriod` |
| `StartedDeletionAlwaysGoesOn` | of `DeletionPlan`: `ClientSpec => []StartedDeletionGoesOn` |
| `MasterUriIsRight`, `ChildUrisAreRight` | of `UriNumber`: `Spec => []MasterUriShowsCycle`, `Spec => []ChildUriShowsCycle` |
| `UriStopsByLengthAlone` | of `UriNumber`: `Spec => []UriStopsByLengthOnly` |

So every safety property a passing run checks is a theorem, for any number of
auctions, users and cycles, any amounts and any directories, except for
`NeverFaulty`.

The assumptions are the named ones of the modules, which TLC evaluates on every
run: `ContractAssumption`, `AuctionAssumption` and `NoBidAssumption` say that
ids and users are finite sets (public keys and ids have 32 bytes), that rents,
the bid floor, the shortest cycle period, the first time stamp and the length
of the history are positive, that inputs have their types, and that `NoAccount`
is none of the other values nor a bid; `IdsAssumption` and `MaxLensAssumption`
that pool ids and capacities are natural numbers; `BotAssumption` and
`NoRecordAssumption` the types of the bot's constants, that ids are ordered, and
that `NoAccount` is not a record of the cache; `DeletionAssumption` that a call
deletes at least one cycle state and that the owner deletes with the client
only; `UriAssumption` the types of the constants of `UriNumber`.

**The argument.** Each invariant is inductive relative to those proved before.

1. *The pool vector.* `InsertAtProperties` and `RemoveAtProperties` say element
   by element what a vector is after an insertion or a removal at an index, and
   `InsertSorted` and `RemoveSorted` that a strictly ascending one stays so and
   has one id more or less. The refinement needs besides that a strictly
   ascending vector has as many elements as its set (`SortedCardinality`).
2. `TypeInv` adds to `TypeOK` that an NFT auction has a master (otherwise the
   increment of its URI would have no type). One lemma per action re-establishes
   the type of what that action changes. Where the code subtracts, its checks
   are what makes the result a natural number.
3. `ContractInv` adds to the contract bank's rent that auctions only exist after
   `initialize_contract`. This is what excludes a second initialization, which
   would empty the pools, and `PoolPlacement` rests on it.
4. `PoolsWithinCapacity` needs no strengthening: `is_full` tests for equality,
   so the proof uses that a pool within its capacity and not full has room for
   one more, and that capacities never shrink.
5. `CycleAccounts` and `BankSolvent` are about one auction at a time.
   `AuctionStepEffect` reduces every instruction to one of nine effects on the
   root state, cycle states and bank of its own auction (`Created`, `BidPlaced`,
   `CycleTouched`, `AccountsKept`, `Finished`, `Advanced`, `FundsClaimed`,
   `CyclesDeleted`, `Deleted`), and each invariant is then proved for these
   effects. `BankSolvent` uses `CycleAccounts` since what is owed depends on the
   current cycle's top bid. `BankBalanced` is the same argument with equality,
   once deposits are excluded.
6. `BidsAscend` rests on a lemma about `CyclicPush`; `ClosedCyclesWon` on the
   nine effects and `CycleAccounts`.
7. The two action properties compare the open cycle before and after a step.
   Only a bid and a deletion touch its history (`HistoryKept`); the bid is then
   followed in detail (`BidInDetail`, `BidRefunds`), and for a deletion
   `CycleAccounts` tells when the open cycle's state goes and
   `DeletionRefundsTopBid` that its bid is paid out in that call.
8. *Sums.* `TreasuryIsSumOfWins` and `LamportsConserved` are sums over sets.
   `Total` is the sum of a function over a finite set as the library's fold
   defines it. That the order of summation does not matter (`TotalTakenOut`) is
   proved by induction on the size of the set, with the property to be shown
   given as a set of numbers (`NatInductionOnSet`) since an induction rule with
   an operator parameter cannot be used. From it follow lemmas on adding an
   element and on changing the function at one point. For the lamports, each
   instruction moves an amount between wallets, contract bank and what its
   auction holds (one `...Moves` lemma each), and `LedgerStep` puts that into
   the sum. The treasury's sum is over the numbers of the sold cycles.
9. *Rewards.* `RewardEffect` reduces every instruction to its effect on end
   times, bids, counter and token accounts. `MasterShowsCycle` and
   `ClaimedRewardsDelivered` follow from that, the latter with counting lemmas
   for token auctions; both need that time stamps are positive
   (`ClockPositive`), as an end time of 0 means that the reward was claimed.
   `CounterPayable` is *not* inductive: a reward may be claimed before its cycle
   is closed (finding 1), and closing then adds to the counter but not to the
   rewards that can be claimed. `CounterRight` says that such an early claim left
   room for that, since it took one off the counter. For NFT auctions it needs
   `ChildrenRight`: no child was minted for a cycle that has no bid yet, or its
   reward could never be claimed.
10. `AuctionImplementsEscrow` proves that `Init` maps to the escrow's initial
   states and that every step of `Auction` maps to one of its steps or leaves it
   unchanged. The nine effects once more do the case split: `Created` maps to
   `Open`, `BidPlaced` to `Raise`, `Finished` and `Advanced` to `Sell`,
   `FundsClaimed` to `Withdraw`, `CyclesDeleted` to `Dissolve`, `Deleted` to
   `Remove`, the others to nothing; `MoneyUpdated` says that an effect on one
   auction leaves the mapped values of all others alone. The invariant needed
   (`MoneyInv`) joins `TypeInv`, `CycleAccounts` and
   `ClosedCyclesWon`: without gaps in the cycle states and a winner in each
   closed cycle the sales would not be a sequence.
11. *The bot.* To the chain a step of `NextBot` is an instruction of `Auction`,
   an airdrop or the execution of a transaction of the bot (`ChainStep`), whose
   payer need not be one of `Payers`. `BotTypeOK` is not inductive either. That
   a streak stays within its limit rests on an auction never being at hand again
   once it was given up (`StreakOK`, `HandOK`), and that a record can be counted
   up on the cycle number being one the chain had when it accepted the
   transaction. `EndsWithinPeriod` rests on the encore period being no longer
   than the cycle period (`EncoreShort`), which `initialize_auction` and
   `modify_auction` check separately.
12. *The deletion.* `StartedDeletionGoesOn` is not inductive: nothing in it says
    why the next instruction names the right cycle, or why nobody interferes.
    `DeletionInv` adds both. `PlanOK`: each instruction left in the plan names a
    batch less than the one before, and for the last one a call suffices; that
    `delete_all` computes such rounds is `RoundsCover`, arithmetic on the quotient
    rounded up. `StartedOK`: the auction is frozen or finished and has no
    unclaimed reward, and its current cycle is the one the next instruction
    names. An instruction that deletes a batch leaves exactly that
    (`SendNextStep`); an auction in this state is touched by no bid, closing,
    claim of a reward or deletion of anybody else, and filtering and the claim of
    funds leave it so (`StaysOutOfReach`). The top bidder the plan names does not
    matter any more, since only an auction that is still running refunds one.
    That a last instruction can pay the contract's fee rests on the types
    (`ShareExists`).
13. *The URIs.* An induction rule with an operator parameter cannot be used, so
    that what is shown is given as a set of numbers (`StrongInductionOnSet`,
    `InductionOnSet`), and that a recursive function exists comes from building
    it from its values one by one (`StepwiseFunction`). From this follow what
    the conversions do (`DecimalProperties`: the text of a number consists of
    digits and is read back as that number). `SearchFinds` is about every text
    that consists of a directory, a slash, a number and the suffix, with
    padding or without: the search ends at the last slash, the dot and the end
    of the text, whatever the directory contains (zero bytes too), since
    neither a number nor the suffix has a slash or a zero byte, nor the number
    a dot. So both functions find the number and can put any other in its place
    (`NumberFound`). With this the invariant `UriInv` is short: the stored URI
    is the padded numbered directory, it fits, and the children show their
    cycles. It says nothing of which cycles are closed: a claim leaves the
    master as it was whatever number it puts in between, so early claims need
    no case of their own. `UriStopsByLengthOnly` needs besides that no number
    has a shorter text than 0 (`ZeroIsShortest`): the last closing never makes
    the URI longer.

**Only model-checked:**

* `DueCyclesClosed`, `DueCyclesAttended` and `DeletionEnds`: liveness under
  fairness is out of the prover's reach.
* `NeverFaulty` counts errors over the whole history of an auction under the
  conditions of `BotAlone` (one auction, no other closer, enough tolerated
  errors); it is not true without them. It also depends on what the simulation
  of a transaction answers, which is an `ENABLED` in `IsValid`, and the prover
  cannot reason about that. In the proofs about `Bot` and about the deletion no
  `ENABLED` is looked into: they hold whatever `IsValid` says beyond
  `NamesAccounts`, and whenever `SendFails` may happen.

## 6. Abstractions

* Rents of token and metadata accounts, and Metaplex' own checks, are left out;
  that a child is minted once for a cycle is kept.
* Names, descriptions, socials and the verified flag's effect on clients are
  data nothing in the program reads. `VerifyAuction` only sets the flag.
* The runtime's rule that a partially emptied bank of a finished auction must
  stay rent-exempt or become empty is not enforced: the model allows more
  claims than the chain.
* Overflow is modelled for `unclaimed_rewards` (u16) and for the cycle number.
  Lamport sums, time stamps and the idle streak (u32) stay far below their
  width in any history of the chain and are not bounded.
* Deposits only go to existing banks, and nobody creates an account at a
  program-derived address ahead of the program.
* An airdrop to the bot arrives at once. The bot's fee for a transaction is left
  out; the rent it pays for the next cycle state is modelled.
* The bot's error streak is a `u8` and stays at most `MAX_ERROR_STREAK + 1`,
  which `BotTypeOK` states.
* URIs are built of the bytes that matter to the search (slash, dot, zero,
  digits) and letters. Other bytes behave as letters. How clients strip the
  padding for display (`unpuff_metadata`) is left out.
* In `UriNumber` whether a bid exists, who is in which pool and deletion are not
  modelled, so that a cycle ends and reopens whenever it may; `Auction` has the
  conditions.
* `bid` checks pool membership through the vector's binary search; the model
  uses set membership, which `AuctionPool` justifies.

### Not modelled

* Dispatch, decoding and address derivation (`processor/mod.rs`, `pda/`,
  `entrypoint.rs`): seeds have a fixed length and the checks only relate an
  account to its address. Where a caller can be out of date, `NamesAccounts`
  models the comparison.
* `get_auctions`, `auction_exists` and the conversions in `frontend/types.rs`:
  reads and display formats; they change nothing, and nothing depends on them.
* The instruction factories without arithmetic, the bot's command line and key
  files, build scripts and fixtures.
* `increment_name`: nothing but its own test calls it.

## 7. Plan

Done: pools, contract-wide state, all instructions of the program and their
safety properties; the bot with faults and liveness; the client's deletion; the
URIs; the escrow and the proof that the program implements it; proofs of every
safety property that the passing runs check, except for `NeverFaulty`.

Left:

1. The conditions under which `NeverFaulty` holds for several auctions and other
   closers, as a bound on errors between two successes that can be stated
   without `ENABLED`, and then its proof.
2. The parts of the liveness arguments that are safety: that the bot's passes
   and a plan's rounds have a measure that every step but a fault decreases.
