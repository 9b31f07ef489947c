----------------------------- MODULE BankProofs -----------------------------
(***************************************************************************)
(* Proofs about the accounts of an auction: the cycle states are numbered  *)
(* without gaps up to the current cycle, and the bank covers what the      *)
(* auction owes.  The second rests on the first: what is owed depends on   *)
(* the current cycle, which therefore has to exist.  Then proofs about the *)
(* bid histories: they ascend, every closed cycle has a winner, a bid      *)
(* leaves time for another, and the bid it displaces is paid back.         *)
(***************************************************************************)
EXTENDS AuctionProofs

LEMMA CyclicPushTop ==
    ASSUME AuctionAssumption, NEW h \in Seq(BidData), NEW b \in BidData
    PROVE  LET pushed == CyclicPush(h, b)
           IN  pushed \in Seq(BidData) /\ pushed # <<>> /\ pushed[Len(pushed)] = b
<1>1. Append(h, b) \in Seq(BidData) /\ Append(h, b) # <<>> /\ Append(h, b)[Len(Append(h, b))] = b
  OBVIOUS
<1>2. ASSUME Len(h) >= MAX_BID_HISTORY_LENGTH
      PROVE  LET pushed == Append(Tail(h), b)
             IN  pushed \in Seq(BidData) /\ pushed # <<>> /\ pushed[Len(pushed)] = b
  <2>1. h # <<>>
    BY <1>2 DEF AuctionAssumption
  <2>2. Tail(h) \in Seq(BidData)
    BY <2>1
  <2> QED
    BY <2>2
<1> QED
  BY <1>1, <1>2 DEF CyclicPush, AuctionAssumption

(* An instruction only touches the accounts of its own auction. *)
LEMMA AuctionStepLocal ==
    ASSUME ContractAssumption, AuctionAssumption, TypeInv, NEW id \in AuctionIds, AuctionStep(id),
           NEW other \in AuctionIds \ {id}
    PROVE  root'[other] = root[other] /\ cycle'[other] = cycle[other] /\ bank'[other] = bank[other]
<1> USE DEF TypeInv, TypeOK
<1>0. root'[other] = root[other]
  BY AuctionStepOnPools
<1>1. ASSUME Start(id) PROVE cycle'[other] = cycle[other] /\ bank'[other] = bank[other]
  BY <1>1 DEF Start, InitializeAuction
<1>2. ASSUME AnyBid(id) PROVE cycle'[other] = cycle[other] /\ bank'[other] = bank[other]
  BY <1>2 DEF AnyBid, Bid, BidInactive, PlaceBid
<1>3. ASSUME Close(id) PROVE cycle'[other] = cycle[other] /\ bank'[other] = bank[other]
  BY <1>3 DEF Close, CloseIdleCycle, CloseLastCycle, CloseCycle
<1>4. ASSUME Claim(id) PROVE cycle'[other] = cycle[other] /\ bank'[other] = bank[other]
  BY <1>4 DEF Claim, ClaimFunds, ClaimRewards
<1>5. ASSUME Delete(id) PROVE cycle'[other] = cycle[other] /\ bank'[other] = bank[other]
  BY <1>5 DEF Delete, DeleteCycles, DeleteAuction, CyclesDownTo
<1>6. ASSUME Administer(id) PROVE cycle'[other] = cycle[other] /\ bank'[other] = bank[other]
  BY <1>6 DEF Administer, FilterAuction, ModifyAuction, VerifyAuction
<1>7. ASSUME NEW user \in Bidders, NEW amount \in Deposits, Deposit(id, user, amount)
      PROVE  cycle'[other] = cycle[other] /\ bank'[other] = bank[other]
  BY <1>7 DEF Deposit
<1> QED
  BY <1>0, <1>1, <1>2, <1>3, <1>4, <1>5, <1>6, <1>7 DEF AuctionStep

-----------------------------------------------------------------------------
(* What each instruction does to the root state, the cycle states and the  *)
(* bank of its auction, without the fields no proof below depends on.      *)

CycleSet(id, n, c) == c \in CycleState /\ cycle' = [cycle EXCEPT ![id][n] = c]

SameRoot(id) ==
    /\ HasRoot(id) /\ HasRoot(id)'
    /\ root'[id].current_auction_cycle = root[id].current_auction_cycle
    /\ root'[id].is_frozen = root[id].is_frozen
    /\ root'[id].is_finished = root[id].is_finished
    /\ root'[id].available_funds = root[id].available_funds
    /\ root'[id].all_time_treasury = root[id].all_time_treasury
    /\ root'[id].auction_config.number_of_cycles = root[id].auction_config.number_of_cycles
    /\ root'[id].auction_config.token_config = root[id].auction_config.token_config

Created(id) ==
    /\ ~HasRoot(id) /\ HasRoot(id)'
    /\ root'[id].current_auction_cycle = 1
    /\ IsOngoing(root'[id])
    /\ root'[id].available_funds = 0 /\ root'[id].all_time_treasury = 0
    /\ \E c : CycleSet(id, 1, c) /\ c.bid_history = <<>>
    /\ bank'[id] = BankRent

BidPlaced(id) ==
    /\ HasCurrentCycle(id)
    /\ IsOngoing(root[id])
    /\ root' = root
    /\ \E c :
          /\ CycleSet(id, root[id].current_auction_cycle, c)
          /\ HasBid(c)
          /\ bank'[id] = bank[id] + TopBidAmount(c) - TopBidAmount(CurrentCycle(id))
          /\ \E bid \in BidData :
                /\ HasBid(CurrentCycle(id)) => bid.bid_amount > TopBidAmount(CurrentCycle(id))
                /\ c.bid_history = CyclicPush(CurrentCycle(id).bid_history, bid)

LEMMA AnyBidEffect ==
    ASSUME ContractAssumption, AuctionAssumption, TypeInv, NEW id \in AuctionIds, AnyBid(id)
    PROVE  BidPlaced(id)
<1>1. PICK user \in Bidders, amount \in BidAmounts :
          Bid(id, user, amount) \/ BidInactive(id, user, amount)
  BY DEF AnyBid
<1>2. PICK end : PlaceBid(id, user, amount, end) /\ end =
          IF Bid(id, user, amount) THEN CurrentCycle(id).end_time
                                   ELSE now + root[id].auction_config.cycle_period
  BY <1>1 DEF Bid, BidInactive
<1>3. HasCurrentCycle(id) /\ HasRoot(id) /\ IsOngoing(root[id]) /\ root' = root
  BY <1>1 DEF Bid, BidInactive, CheckStatus, PlaceBid, HasCurrentCycle
<1>4. /\ CurrentCycle(id) \in CycleState
      /\ root[id] \in RootState
      /\ root[id].current_auction_cycle \in CycleNumbers
  BY <1>3, AccountTypes DEF TypeInv
<1>5. end \in Nat
  <2>1. root[id].auction_config.cycle_period \in Nat
    BY <1>4 DEF RootState, AuctionConfig
  <2>2. CurrentCycle(id).end_time \in Nat
    BY <1>4 DEF CycleState
  <2> QED
    BY <1>2, <2>1, <2>2 DEF TypeInv, TypeOK
<1> DEFINE h == CurrentCycle(id).bid_history
           b == [bidder_pubkey |-> user, bid_amount |-> amount]
           e == EndAfterBid(end, root[id].auction_config.encore_period)
           c == [end_time |-> e, bid_history |-> CyclicPush(h, b)]
<1>6. b \in BidData /\ b.bid_amount = amount /\ amount \in Nat
  BY DEF BidData, AuctionAssumption
<1>7. h \in Seq(BidData)
  BY <1>4 DEF CycleState
<1>8. /\ CyclicPush(h, b) \in Seq(BidData)
      /\ CyclicPush(h, b) # <<>>
      /\ CyclicPush(h, b)[Len(CyclicPush(h, b))] = b
  BY <1>6, <1>7, CyclicPushTop
<1>9. e \in Nat
  <2>1. root[id].auction_config.encore_period \in Nat
    BY <1>4 DEF RootState, AuctionConfig
  <2> QED
    BY <1>5, <2>1 DEF EndAfterBid, TypeInv, TypeOK
<1>10. CycleSet(id, root[id].current_auction_cycle, c)
  <2>1. cycle' = [cycle EXCEPT ![id][root[id].current_auction_cycle] = c]
    BY <1>2 DEF PlaceBid
  <2>2. c \in CycleState
    BY <1>8, <1>9 DEF CycleState
  <2> QED
    BY <2>1, <2>2 DEF CycleSet
<1>11. HasBid(c) /\ TopBidAmount(c) = amount
  BY <1>6, <1>8 DEF HasBid, TopBidAmount, TopBid
<1>12. bank'[id] = bank[id] + amount - TopBidAmount(CurrentCycle(id))
  BY <1>2 DEF PlaceBid, TypeInv, TypeOK
<1>13. HasBid(CurrentCycle(id)) => amount > TopBidAmount(CurrentCycle(id))
  BY <1>2 DEF PlaceBid, CheckBidAmount
<1>14. c.bid_history = CyclicPush(h, b)
  OBVIOUS
<1> HIDE DEF c, b, h
<1> QED
  BY <1>3, <1>6, <1>10, <1>11, <1>12, <1>13, <1>14 DEF BidPlaced, h

LEMMA StartEffect ==
    ASSUME ContractAssumption, AuctionAssumption, TypeInv, NEW id \in AuctionIds, Start(id)
    PROVE  Created(id)
<1>1. PICK owner \in Owners, config \in AuctionConfigs, start \in StartTimes \cup {now} :
          InitializeAuction(id, owner, config, start)
  BY DEF Start
<1> DEFINE c == [end_time |-> start + config.cycle_period, bid_history |-> <<>>]
<1>2. CycleSet(id, 1, c) /\ c.bid_history = <<>>
  <2>1. start + config.cycle_period \in Nat
    <3>1. start \in Nat /\ config \in AuctionConfig
      BY DEF AuctionAssumption, TypeInv, TypeOK
    <3> QED
      BY <3>1 DEF AuctionConfig
  <2>2. <<>> \in Seq(BidData)
    OBVIOUS
  <2>3. cycle' = [cycle EXCEPT ![id][1] = c]
    BY <1>1 DEF InitializeAuction
  <2> QED
    BY <2>1, <2>2, <2>3 DEF CycleSet, CycleState
<1>3. root'[id] = NewRootState(owner, config, start) /\ bank'[id] = BankRent /\ ~HasRoot(id)
  BY <1>1 DEF InitializeAuction, TypeInv, TypeOK
<1>4. HasRoot(id)'
  BY <1>1, InitializeAuctionType
<1> QED
  BY <1>2, <1>3, <1>4 DEF Created, NewRootState, IsOngoing

(* An idle cycle is extended, or the reward of a cycle is claimed. *)
CycleTouched(id) ==
    /\ SameRoot(id)
    /\ \E n \in CycleNumbers : \E c :
          /\ cycle[id][n] # NoAccount
          /\ CycleSet(id, n, c)
          /\ c.bid_history = cycle[id][n].bid_history
    /\ bank'[id] = bank[id]

LEMMA CloseIdleCycleEffect ==
    ASSUME ContractAssumption, AuctionAssumption, TypeInv, NEW id \in AuctionIds, CloseIdleCycle(id)
    PROVE  CycleTouched(id)
<1> DEFINE k == root[id].current_auction_cycle
           end == cycle[id][k].end_time + root[id].auction_config.cycle_period
           c == [cycle[id][k] EXCEPT !.end_time = end]
<1>1. HasCurrentCycle(id) /\ HasRoot(id) /\ HasRoot(id)'
  BY CloseIdleCycleType DEF CloseIdleCycle, CanClose, HasCurrentCycle
<1>2. k \in CycleNumbers /\ root[id] \in RootState /\ cycle[id][k] \in CycleState
  BY <1>1, AccountTypes DEF TypeInv, CurrentCycle
<1>3. cycle' = [cycle EXCEPT ![id][k] = c]
  BY DEF CloseIdleCycle
<1>4. end \in Nat
  <2>1. cycle[id][k].end_time \in Nat
    BY <1>2 DEF CycleState
  <2>2. root[id].auction_config.cycle_period \in Nat
    BY <1>2 DEF RootState, AuctionConfig
  <2> QED
    BY <2>1, <2>2
<1> HIDE DEF end
<1>5. c \in CycleState /\ c.bid_history = cycle[id][k].bid_history
  BY <1>2, <1>4 DEF CycleState
<1>6. root'[id] = [root[id] EXCEPT !.current_idle_cycle_streak = @ + 1] /\ bank' = bank
  BY DEF CloseIdleCycle, TypeInv, TypeOK
<1>7. SameRoot(id)
  BY <1>1, <1>2, <1>6 DEF SameRoot, RootState
<1>8. cycle[id][k] # NoAccount
  BY <1>1 DEF HasCurrentCycle, CurrentCycle
<1> HIDE DEF c, k
<1> QED
  BY <1>2, <1>3, <1>5, <1>6, <1>7, <1>8 DEF CycleTouched, CycleSet

LEMMA ClaimRewardsEffect ==
    ASSUME ContractAssumption, AuctionAssumption, TypeInv,
           NEW id \in AuctionIds, NEW n \in CycleNumbers, ClaimRewards(id, n)
    PROVE  CycleTouched(id)
<1> DEFINE c == [cycle[id][n] EXCEPT !.end_time = 0]
<1>1. HasRoot(id) /\ HasRoot(id)' /\ cycle[id][n] # NoAccount
  BY ClaimRewardsType DEF ClaimRewards, RewardIsDue
<1>2. root[id] \in RootState /\ cycle[id][n] \in CycleState
  BY <1>1, AccountTypes DEF TypeInv, TypeOK
<1>3. cycle' = [cycle EXCEPT ![id][n] = c]
  BY DEF ClaimRewards
<1>4. c \in CycleState /\ c.bid_history = cycle[id][n].bid_history
  BY <1>2 DEF CycleState
<1>5. root'[id] = RewardTaken(root[id]) /\ bank' = bank
  BY DEF ClaimRewards, TypeInv, TypeOK
<1>6. SameRoot(id)
  BY <1>1, <1>2, <1>5 DEF SameRoot, RewardTaken, RootState
<1> HIDE DEF c
<1> QED
  BY <1>1, <1>3, <1>4, <1>5, <1>6 DEF CycleTouched, CycleSet

(* An administrative instruction, or a deposit. *)
AccountsKept(id) ==
    /\ SameRoot(id) \/ root' = root
    /\ cycle' = cycle
    /\ bank'[id] \in Nat /\ bank'[id] >= bank[id]
    /\ Deposits = {} => bank'[id] = bank[id]

LEMMA AdministerEffect ==
    ASSUME ContractAssumption, AuctionAssumption, TypeInv, NEW id \in AuctionIds, Administer(id)
    PROVE  AccountsKept(id)
<1>1. HasRoot(id)'
  BY AdministerType
<1>2. HasRoot(id) /\ cycle' = cycle /\ bank' = bank
  BY DEF Administer, FilterAuction, ModifyAuction, VerifyAuction, IsAuctionOwner
<1>3. root[id] \in RootState /\ bank[id] \in Nat
  BY <1>2, AccountTypes DEF TypeInv, TypeOK
<1>4. root[id].auction_config \in AuctionConfig
  BY <1>3 DEF RootState
<1>5. \/ \E filter : root'[id] = [root[id] EXCEPT !.is_filtered = filter]
      \/ \E encore : root'[id] = [root[id] EXCEPT !.auction_config =
                                     [root[id].auction_config EXCEPT !.encore_period = encore]]
      \/ root'[id] = [root[id] EXCEPT !.is_verified = TRUE]
  BY ZenonT(30) DEF Administer, FilterAuction, ModifyAuction, VerifyAuction, TypeInv, TypeOK
<1>6. \A encore :
          LET config == [root[id].auction_config EXCEPT !.encore_period = encore]
          IN  /\ config.number_of_cycles = root[id].auction_config.number_of_cycles
              /\ config.token_config = root[id].auction_config.token_config
  BY <1>4 DEF AuctionConfig
<1>7. SameRoot(id)
  <2>1. CASE \E filter : root'[id] = [root[id] EXCEPT !.is_filtered = filter]
    BY <1>1, <1>2, <1>3, <2>1 DEF SameRoot, RootState
  <2>2. CASE \E encore : root'[id] = [root[id] EXCEPT !.auction_config =
                                     [root[id].auction_config EXCEPT !.encore_period = encore]]
    <3>1. PICK config : /\ root'[id] = [root[id] EXCEPT !.auction_config = config]
                        /\ config.number_of_cycles = root[id].auction_config.number_of_cycles
                        /\ config.token_config = root[id].auction_config.token_config
      BY <1>6, <2>2
    <3> QED
      BY <1>1, <1>2, <1>3, <3>1 DEF SameRoot, RootState
  <2>3. CASE root'[id] = [root[id] EXCEPT !.is_verified = TRUE]
    BY <1>1, <1>2, <1>3, <2>3 DEF SameRoot, RootState
  <2> QED
    BY <1>5, <2>1, <2>2, <2>3
<1> QED
  BY <1>2, <1>3, <1>7 DEF AccountsKept

LEMMA DepositEffect ==
    ASSUME AuctionAssumption, TypeInv, NEW id \in AuctionIds, NEW user \in Bidders,
           NEW amount \in Deposits, Deposit(id, user, amount)
    PROVE  AccountsKept(id)
BY DEF Deposit, AccountsKept, AuctionAssumption, TypeInv, TypeOK

(* The winning bid of the current cycle becomes claimable: of the last     *)
(* cycle, together with the rent of the bank, or of one before it.         *)
Finished(id) ==
    /\ HasCurrentCycle(id) /\ HasRoot(id)'
    /\ IsOngoing(root[id]) /\ HasBid(CurrentCycle(id))
    /\ root'[id].current_auction_cycle = root[id].current_auction_cycle
    /\ root'[id].is_finished
    /\ root'[id].is_frozen = root[id].is_frozen
    /\ root'[id].auction_config = root[id].auction_config
    /\ root'[id].available_funds =
           root[id].available_funds + TopBidAmount(CurrentCycle(id)) + BankRent
    /\ root'[id].all_time_treasury = root[id].all_time_treasury + TopBidAmount(CurrentCycle(id))
    /\ cycle' = cycle
    /\ bank'[id] = bank[id]

Advanced(id) ==
    /\ HasCurrentCycle(id) /\ HasRoot(id)'
    /\ IsOngoing(root[id]) /\ HasBid(CurrentCycle(id))
    /\ ~IsLastAuctionCycle(root[id])
    /\ root'[id].current_auction_cycle = root[id].current_auction_cycle + 1
    /\ root'[id].is_finished = root[id].is_finished
    /\ root'[id].is_frozen = root[id].is_frozen
    /\ root'[id].auction_config = root[id].auction_config
    /\ root'[id].available_funds = root[id].available_funds + TopBidAmount(CurrentCycle(id))
    /\ root'[id].all_time_treasury = root[id].all_time_treasury + TopBidAmount(CurrentCycle(id))
    /\ \E c :
          /\ root[id].current_auction_cycle + 1 \in CycleNumbers
          /\ CycleSet(id, root[id].current_auction_cycle + 1, c)
          /\ c.bid_history = <<>>
    /\ bank'[id] = bank[id]

LEMMA SettledFields ==
    ASSUME AuctionAssumption, NEW r \in RootState, NEW won \in Nat, RewardCountable(r)
    PROVE  /\ Settled(r, won) \in RootState
           /\ Settled(r, won).current_auction_cycle = r.current_auction_cycle
           /\ Settled(r, won).auction_config = r.auction_config
           /\ Settled(r, won).is_finished = r.is_finished
           /\ Settled(r, won).is_frozen = r.is_frozen
           /\ Settled(r, won).available_funds = r.available_funds + won
           /\ Settled(r, won).all_time_treasury = r.all_time_treasury + won
<1>1. Settled(r, won) \in RootState
  BY SettledType
<1> DEFINE paid == [r EXCEPT !.available_funds = @ + won, !.all_time_treasury = @ + won]
<1>2. /\ paid.current_auction_cycle = r.current_auction_cycle
      /\ paid.auction_config = r.auction_config
      /\ paid.is_finished = r.is_finished
      /\ paid.is_frozen = r.is_frozen
      /\ paid.available_funds = r.available_funds + won
      /\ paid.all_time_treasury = r.all_time_treasury + won
  BY DEF RootState
<1>3. Settled(r, won) =
          [paid EXCEPT !.current_idle_cycle_streak = 0, !.unclaimed_rewards = @ + 1]
  BY DEF Settled
<1> HIDE DEF paid
<1> QED
  BY <1>1, <1>2, <1>3 DEF RootState

LEMMA CloseLastCycleEffect ==
    ASSUME ContractAssumption, AuctionAssumption, TypeInv, NEW id \in AuctionIds, CloseLastCycle(id)
    PROVE  Finished(id)
<1> DEFINE won == TopBidAmount(CurrentCycle(id))
           settled == Settled(root[id], won)
<1>1. /\ HasCurrentCycle(id) /\ HasRoot(id) /\ HasRoot(id)'
      /\ IsOngoing(root[id]) /\ HasBid(CurrentCycle(id)) /\ RewardCountable(root[id])
  BY CloseWonCycleType DEF CloseLastCycle, CanClose, CheckStatus, HasCurrentCycle
<1>2. root[id] \in RootState /\ won \in Nat
  BY <1>1, AccountTypes, TopBidType DEF TypeInv
<1>3. /\ settled \in RootState
      /\ settled.current_auction_cycle = root[id].current_auction_cycle
      /\ settled.auction_config = root[id].auction_config
      /\ settled.is_frozen = root[id].is_frozen
      /\ settled.available_funds = root[id].available_funds + won
      /\ settled.all_time_treasury = root[id].all_time_treasury + won
  BY <1>1, <1>2, SettledFields
<1>4. /\ root'[id] = [settled EXCEPT !.is_finished = TRUE, !.available_funds = FundsWithRent(settled)]
      /\ cycle' = cycle /\ bank' = bank
  BY DEF CloseLastCycle, TypeInv, TypeOK
<1>5. FundsWithRent(settled) = root[id].available_funds + won + BankRent
  BY <1>3 DEF FundsWithRent
<1> HIDE DEF won, settled
<1> QED
  BY <1>1, <1>3, <1>4, <1>5 DEF Finished, RootState, won

LEMMA CloseCycleEffect ==
    ASSUME ContractAssumption, AuctionAssumption, TypeInv, NEW id \in AuctionIds,
           NEW payer \in Users, CloseCycle(id, payer)
    PROVE  Advanced(id)
<1> DEFINE won == TopBidAmount(CurrentCycle(id))
           settled == Settled(root[id], won)
           next == root[id].current_auction_cycle + 1
           c == [end_time |-> now + root[id].auction_config.cycle_period, bid_history |-> <<>>]
<1>1. /\ HasCurrentCycle(id) /\ HasRoot(id) /\ HasRoot(id)'
      /\ IsOngoing(root[id]) /\ HasBid(CurrentCycle(id)) /\ RewardCountable(root[id])
      /\ ~IsLastAuctionCycle(root[id])
      /\ next \in CycleNumbers
  BY CloseWonCycleType DEF CloseCycle, CanClose, CheckStatus, HasCurrentCycle
<1>2. root[id] \in RootState /\ won \in Nat
  BY <1>1, AccountTypes, TopBidType DEF TypeInv
<1>3. /\ settled \in RootState
      /\ settled.auction_config = root[id].auction_config
      /\ settled.is_finished = root[id].is_finished
      /\ settled.is_frozen = root[id].is_frozen
      /\ settled.available_funds = root[id].available_funds + won
      /\ settled.all_time_treasury = root[id].all_time_treasury + won
  BY <1>1, <1>2, SettledFields
<1>4. /\ root'[id] = [settled EXCEPT !.current_auction_cycle = next]
      /\ cycle' = [cycle EXCEPT ![id][next] = c] /\ bank' = bank
  BY DEF CloseCycle, TypeInv, TypeOK
<1>5. c \in CycleState
  <2>1. now + root[id].auction_config.cycle_period \in Nat
    BY <1>2 DEF TypeInv, TypeOK, RootState, AuctionConfig
  <2>2. <<>> \in Seq(BidData)
    OBVIOUS
  <2> QED
    BY <2>1, <2>2 DEF CycleState
<1>6. c.bid_history = <<>>
  OBVIOUS
<1> HIDE DEF settled, c
<1>7. /\ root'[id].current_auction_cycle = next
      /\ root'[id].is_finished = root[id].is_finished
      /\ root'[id].is_frozen = root[id].is_frozen
      /\ root'[id].auction_config = root[id].auction_config
      /\ root'[id].available_funds = root[id].available_funds + won
      /\ root'[id].all_time_treasury = root[id].all_time_treasury + won
  BY <1>3, <1>4 DEF RootState
<1>8. CycleSet(id, next, c)
  BY <1>4, <1>5 DEF CycleSet
<1> QED
  BY <1>1, <1>4, <1>6, <1>7, <1>8 DEF Advanced

FundsClaimed(id) ==
    /\ HasCurrentCycle(id) /\ HasRoot(id)'
    /\ ~root[id].is_frozen
    /\ root'[id].all_time_treasury = root[id].all_time_treasury
    /\ root'[id].current_auction_cycle = root[id].current_auction_cycle
    /\ root'[id].is_finished = root[id].is_finished
    /\ root'[id].is_frozen = root[id].is_frozen
    /\ root'[id].auction_config = root[id].auction_config
    /\ \E amount \in Nat :
          /\ root'[id].available_funds = root[id].available_funds - amount
          /\ bank'[id] = bank[id] - amount
    /\ cycle' = cycle

LEMMA ClaimFundsEffect ==
    ASSUME ContractAssumption, AuctionAssumption, TypeInv, NEW id \in AuctionIds,
           NEW amount \in ClaimAmounts, ClaimFunds(id, amount)
    PROVE  FundsClaimed(id)
<1>1. HasCurrentCycle(id) /\ HasRoot(id) /\ HasRoot(id)' /\ amount \in Nat
  BY ClaimFundsType DEF ClaimFunds, HasCurrentCycle, AuctionAssumption
<1>2. root[id] \in RootState
  BY <1>1, AccountTypes DEF TypeInv
<1>3. /\ root'[id] = [root[id] EXCEPT !.available_funds = @ - amount]
      /\ bank'[id] = bank[id] - amount
      /\ cycle' = cycle
      /\ ~root[id].is_frozen
  BY DEF ClaimFunds, TakenFromFunds, TypeInv, TypeOK
<1> QED
  BY <1>1, <1>2, <1>3 DEF FundsClaimed, RootState

(* Cycle states are deleted; the auction is frozen unless it is finished.  *)
CyclesDeleted(id) ==
    /\ HasCurrentCycle(id) /\ HasRoot(id)'
    /\ root'[id].is_finished = root[id].is_finished
    /\ root'[id].is_frozen = (root[id].is_frozen \/ IsOngoing(root[id]))
    /\ root'[id].auction_config = root[id].auction_config
    /\ root'[id].available_funds = root[id].available_funds
    /\ root'[id].current_auction_cycle \in CycleNumbers
    /\ root'[id].current_auction_cycle < root[id].current_auction_cycle
    /\ cycle' = CyclesDownTo(id, root'[id].current_auction_cycle)
    /\ bank'[id] = bank[id] - RefundOnDelete(id)

LEMMA DeleteCyclesEffect ==
    ASSUME ContractAssumption, AuctionAssumption, TypeInv, NEW id \in AuctionIds,
           NEW owner \in Users, NEW batch \in Nat \ {0}, DeleteCycles(id, owner, batch)
    PROVE  CyclesDeleted(id)
<1> DEFINE left == root[id].current_auction_cycle - batch
           frozen == root[id].is_frozen \/ IsOngoing(root[id])
           r == [root[id] EXCEPT !.current_auction_cycle = left]
<1>1. HasRoot(id) /\ HasRoot(id)' /\ left > 0
  BY DeleteCyclesType DEF DeleteCycles
<1>2. /\ root[id] \in RootState
      /\ root[id].current_auction_cycle \in CycleNumbers
      /\ root[id].current_auction_cycle \in Nat
  BY <1>1, AccountTypes DEF TypeInv, CycleNumbers, AuctionAssumption
<1>3. left \in CycleNumbers /\ left < root[id].current_auction_cycle /\ left \in Nat
  BY <1>1, <1>2 DEF CycleNumbers, AuctionAssumption
<1>4. HasCurrentCycle(id)
  BY <1>1, <1>2, <1>3 DEF DeleteCycles, DeletableDownTo, HasCurrentCycle, CurrentCycle
<1>5. /\ root'[id] = [r EXCEPT !.is_frozen = frozen]
      /\ cycle' = CyclesDownTo(id, left)
      /\ bank'[id] = bank[id] - RefundOnDelete(id)
  BY DEF DeleteCycles, TypeInv, TypeOK
<1> HIDE DEF left, frozen
<1>6. /\ r \in RootState
      /\ r.current_auction_cycle = left
      /\ r.is_finished = root[id].is_finished
      /\ r.auction_config = root[id].auction_config
      /\ r.available_funds = root[id].available_funds
  BY <1>2, <1>3 DEF RootState
<1> HIDE DEF r
<1>7. /\ root'[id].current_auction_cycle = left
      /\ root'[id].is_frozen = frozen
      /\ root'[id].is_finished = root[id].is_finished
      /\ root'[id].auction_config = root[id].auction_config
      /\ root'[id].available_funds = root[id].available_funds
  BY <1>5, <1>6 DEF RootState
<1> QED
  BY <1>1, <1>3, <1>4, <1>5, <1>7 DEF CyclesDeleted, frozen

Deleted(id) ==
    /\ HasRoot(id) /\ ~HasRoot(id)'
    /\ cycle' = CyclesDownTo(id, 0)
    /\ bank'[id] = 0

LEMMA DeleteAuctionEffect ==
    ASSUME TypeInv, NEW id \in AuctionIds, NEW owner, NEW batch,
           DeleteAuction(id, owner, batch)
    PROVE  Deleted(id)
BY DEF DeleteAuction, Deleted, HasRoot, TypeInv, TypeOK

LEMMA AuctionStepEffect ==
    ASSUME ContractAssumption, AuctionAssumption, TypeInv, NEW id \in AuctionIds, AuctionStep(id)
    PROVE  \/ Created(id) \/ BidPlaced(id) \/ CycleTouched(id) \/ AccountsKept(id)
           \/ Finished(id) \/ Advanced(id) \/ FundsClaimed(id) \/ CyclesDeleted(id)
           \/ Deleted(id)
<1>1. ASSUME Start(id) PROVE Created(id)
  BY <1>1, StartEffect
<1>2. ASSUME AnyBid(id) PROVE BidPlaced(id)
  BY <1>2, AnyBidEffect
<1>3. ASSUME Close(id) PROVE CycleTouched(id) \/ Finished(id) \/ Advanced(id)
  BY <1>3, CloseIdleCycleEffect, CloseLastCycleEffect, CloseCycleEffect DEF Close, AuctionAssumption
<1>4. ASSUME Claim(id) PROVE FundsClaimed(id) \/ CycleTouched(id)
  BY <1>4, ClaimFundsEffect, ClaimRewardsEffect DEF Claim
<1>5. ASSUME Delete(id) PROVE CyclesDeleted(id) \/ Deleted(id)
  BY <1>5, DeleteCyclesEffect, DeleteAuctionEffect DEF Delete, AuctionAssumption
<1>6. ASSUME Administer(id) PROVE AccountsKept(id)
  BY <1>6, AdministerEffect
<1> QED
  BY <1>1, <1>2, <1>3, <1>4, <1>5, <1>6, DepositEffect DEF AuctionStep

-----------------------------------------------------------------------------
(* The cycle states *)

(* The existing ones among the cycle states of an auction are those *)
(* numbered 1 to k.                                                  *)
NumberedTo(states, k) == \A n \in CycleNumbers : states[n] # NoAccount <=> n <= k

CyclesOf(id) == IF HasRoot(id) THEN root[id].current_auction_cycle ELSE 0

LEMMA CycleAccountsAsNumbers ==
    ASSUME AuctionAssumption
    PROVE  CycleAccounts <=> \A id \in AuctionIds : NumberedTo(cycle[id], CyclesOf(id))
<1>1. \A n \in CycleNumbers : ~(n <= 0)
  BY DEF CycleNumbers, AuctionAssumption
<1> QED
  BY <1>1 DEF CycleAccounts, NumberedTo, CyclesOf

(* Setting an existing cycle state, or the next one, to a new value. *)
LEMMA NumberedToUpdate ==
    ASSUME AuctionAssumption, TypeInv, NEW id \in AuctionIds, NEW k \in Nat, NumberedTo(cycle[id], k),
           NEW n \in CycleNumbers, n <= k + 1, NEW c \in CycleState,
           cycle' = [cycle EXCEPT ![id][n] = c]
    PROVE  /\ n <= k => NumberedTo(cycle'[id], k)
           /\ n = k + 1 => NumberedTo(cycle'[id], k + 1)
<1>1. /\ cycle \in [AuctionIds -> [CycleNumbers -> CycleState \cup {NoAccount}]]
      /\ c # NoAccount
      /\ CycleNumbers \subseteq Nat
  BY DEF TypeInv, TypeOK, AuctionAssumption, CycleNumbers
<1>2. \A m \in CycleNumbers : cycle'[id][m] = IF m = n THEN c ELSE cycle[id][m]
  BY <1>1
<1> QED
  BY <1>1, <1>2 DEF NumberedTo

LEMMA NumberedEffect ==
    ASSUME ContractAssumption, AuctionAssumption, TypeInv, NEW id \in AuctionIds,
           NumberedTo(cycle[id], CyclesOf(id)),
           \/ Created(id) \/ BidPlaced(id) \/ CycleTouched(id) \/ AccountsKept(id)
           \/ Finished(id) \/ Advanced(id) \/ FundsClaimed(id) \/ CyclesDeleted(id)
           \/ Deleted(id)
    PROVE  NumberedTo(cycle'[id], CyclesOf(id)')
<1> DEFINE k == root[id].current_auction_cycle
<1>0. /\ CycleNumbers \subseteq Nat
      /\ 1 \in CycleNumbers
      /\ HasRoot(id) => k \in CycleNumbers /\ k \in Nat /\ CyclesOf(id) = k
  BY AccountTypes DEF TypeInv, CycleNumbers, AuctionAssumption, CyclesOf
<1>1. CASE Created(id)
  <2>1. NumberedTo(cycle[id], 0) /\ CyclesOf(id)' = 1
    BY <1>1 DEF Created, CyclesOf
  <2>2. NumberedTo(cycle'[id], 1)
    <3>1. PICK c \in CycleState : cycle' = [cycle EXCEPT ![id][1] = c]
      BY <1>1 DEF Created, CycleSet
    <3>2. 0 \in Nat /\ 1 = 0 + 1 /\ 1 <= 0 + 1
      OBVIOUS
    <3> QED
      BY <1>0, <2>1, <3>1, <3>2, NumberedToUpdate
  <2> QED
    BY <2>1, <2>2
<1>2. CASE BidPlaced(id)
  <2>1. HasRoot(id) /\ CyclesOf(id)' = k
    BY <1>2 DEF BidPlaced, HasCurrentCycle, CyclesOf, HasRoot
  <2>2. NumberedTo(cycle'[id], k)
    <3>1. PICK c \in CycleState : cycle' = [cycle EXCEPT ![id][k] = c]
      BY <1>2 DEF BidPlaced, CycleSet
    <3>2. k <= k + 1 /\ k <= k
      BY <1>0, <2>1
    <3> QED
      BY <1>0, <2>1, <3>1, <3>2, NumberedToUpdate
  <2> QED
    BY <2>1, <2>2
<1>3. CASE CycleTouched(id)
  <2>1. HasRoot(id) /\ CyclesOf(id)' = k
    BY <1>3 DEF CycleTouched, SameRoot, CyclesOf
  <2>2. PICK n, c : n \in CycleNumbers /\ cycle[id][n] # NoAccount /\ CycleSet(id, n, c)
    BY <1>3 DEF CycleTouched
  <2>3. n <= k
    BY <1>0, <2>1, <2>2 DEF NumberedTo
  <2>4. NumberedTo(cycle'[id], k)
    <3>1. c \in CycleState /\ cycle' = [cycle EXCEPT ![id][n] = c]
      BY <2>2 DEF CycleSet
    <3>2. n <= k + 1
      BY <1>0, <2>1, <2>2, <2>3
    <3> QED
      BY <1>0, <2>1, <2>2, <2>3, <3>1, <3>2, NumberedToUpdate
  <2> QED
    BY <2>1, <2>4
<1>4. CASE AccountsKept(id) \/ Finished(id) \/ FundsClaimed(id)
  <2>1. cycle' = cycle /\ CyclesOf(id)' = CyclesOf(id)
    BY <1>4 DEF AccountsKept, Finished, FundsClaimed, SameRoot, CyclesOf, HasRoot, HasCurrentCycle
  <2> QED
    BY <2>1 DEF NumberedTo
<1>5. CASE Advanced(id)
  <2>1. HasRoot(id) /\ CyclesOf(id)' = k + 1
    BY <1>5 DEF Advanced, HasCurrentCycle, CyclesOf
  <2>2. NumberedTo(cycle'[id], k + 1)
    <3>1. PICK c \in CycleState : cycle' = [cycle EXCEPT ![id][k + 1] = c]
      BY <1>5 DEF Advanced, CycleSet
    <3>2. k + 1 \in CycleNumbers
      BY <1>5 DEF Advanced
    <3>3. k + 1 <= k + 1
      BY <1>0, <2>1
    <3> QED
      BY <1>0, <2>1, <3>1, <3>2, <3>3, NumberedToUpdate
  <2> QED
    BY <2>1, <2>2
<1>6. CASE CyclesDeleted(id) \/ Deleted(id)
  <2> DEFINE left == CyclesOf(id)'
  <2>1. HasRoot(id) /\ cycle' = CyclesDownTo(id, left) /\ left \in Nat /\ left <= k
    BY <1>0, <1>6 DEF CyclesDeleted, Deleted, HasCurrentCycle, CyclesOf
  <2> HIDE DEF left
  <2>2. \A n \in CycleNumbers : cycle'[id][n] =
            IF n \in (left + 1)..k THEN NoAccount ELSE cycle[id][n]
    BY <2>1 DEF CyclesDownTo, TypeInv, TypeOK
  <2>3. \A n \in CycleNumbers : cycle'[id][n] # NoAccount <=> n <= left
    BY <1>0, <2>1, <2>2 DEF NumberedTo
  <2> QED
    BY <2>3 DEF NumberedTo, left
<1> QED
  BY <1>1, <1>2, <1>3, <1>4, <1>5, <1>6

(* An instruction on one auction leaves the cycle states of all numbered.  *)
LEMMA CycleAccountsEffect ==
    ASSUME ContractAssumption, AuctionAssumption, TypeInv, CycleAccounts, NEW id \in AuctionIds,
           \/ Created(id) \/ BidPlaced(id) \/ CycleTouched(id) \/ AccountsKept(id)
           \/ Finished(id) \/ Advanced(id) \/ FundsClaimed(id) \/ CyclesDeleted(id)
           \/ Deleted(id),
           \A other \in AuctionIds \ {id} :
               root'[other] = root[other] /\ cycle'[other] = cycle[other]
    PROVE  CycleAccounts'
<1>1. \A other \in AuctionIds : NumberedTo(cycle[other], CyclesOf(other))
  BY CycleAccountsAsNumbers
<1>2. NumberedTo(cycle'[id], CyclesOf(id)')
  BY <1>1, NumberedEffect
<1>3. ASSUME NEW other \in AuctionIds \ {id}
      PROVE  NumberedTo(cycle'[other], CyclesOf(other)')
  BY <1>1, <1>3 DEF NumberedTo, CyclesOf, HasRoot
<1>4. \A n \in CycleNumbers : ~(n <= 0)
  BY DEF CycleNumbers, AuctionAssumption
<1> QED
  BY <1>2, <1>3, <1>4 DEF CycleAccounts, NumberedTo, CyclesOf

LEMMA CycleAccountsStep ==
    ASSUME ContractAssumption, AuctionAssumption, TypeInv, CycleAccounts, [Next]_vars
    PROVE  CycleAccounts'
<1>1. CASE UNCHANGED stateVars
  BY <1>1 DEF CycleAccounts, HasRoot, stateVars
<1>2. ASSUME NEW id \in AuctionIds, AuctionStep(id) PROVE CycleAccounts'
  BY <1>2, AuctionStepEffect, AuctionStepLocal, CycleAccountsEffect
<1> QED
  BY <1>1, <1>2, StepCases

(* The cycle states of an auction are those numbered from 1 to its current *)
(* cycle, without a gap, through every closing and every partial deletion; *)
(* a deleted auction leaves none.                                          *)
THEOREM CycleAccountsInvariant == Spec => []CycleAccounts
<1>1. Init => CycleAccounts
  BY DEF Init, CycleAccounts, HasRoot
<1>2. TypeInv /\ CycleAccounts /\ [Next]_vars => CycleAccounts'
  BY CycleAccountsStep, ContractAssumption, AuctionAssumption
<1> QED
  BY <1>1, <1>2, TypeInvariant, PTL DEF Spec

-----------------------------------------------------------------------------
(* The bank *)

(* The top bid depends on the history only. *)
LEMMA TopBidAmountSame ==
    ASSUME NEW c, NEW d, c.bid_history = d.bid_history
    PROVE  TopBidAmount(c) = TopBidAmount(d) /\ (HasBid(c) <=> HasBid(d))
BY DEF TopBidAmount, HasBid, TopBid

LEMMA SolventStep ==
    ASSUME ContractAssumption, AuctionAssumption, TypeInv, TypeInv', CycleAccounts,
           NEW id \in AuctionIds, AuctionStep(id), bank[id] >= Obligations(id)
    PROVE  /\ bank'[id] >= Obligations(id)'
           /\ Deposits = {} /\ bank[id] = Obligations(id) => bank'[id] = Obligations(id)'
<1> DEFINE k == root[id].current_auction_cycle
           top == TopBidAmount(CurrentCycle(id))
<1>0. /\ bank[id] \in Nat /\ bank'[id] \in Nat /\ BankRent \in Nat
      /\ cycle \in [AuctionIds -> [CycleNumbers -> CycleState \cup {NoAccount}]]
      /\ 1 \in CycleNumbers
      /\ HasRoot(id) => /\ root[id] \in RootState
                        /\ k \in CycleNumbers /\ k \in Nat
                        /\ HasCurrentCycle(id)
                        /\ root[id].available_funds \in Nat
                        /\ top \in Nat
  <2>1. ASSUME HasRoot(id)
        PROVE  root[id] \in RootState /\ k \in CycleNumbers /\ k \in Nat
    BY <2>1, AccountTypes DEF TypeInv, CycleNumbers, AuctionAssumption
  <2>2. ASSUME HasRoot(id) PROVE HasCurrentCycle(id)
    BY <2>1, <2>2 DEF CycleAccounts, HasCurrentCycle, CurrentCycle
  <2>3. ASSUME HasRoot(id) PROVE top \in Nat
    BY <2>2, <2>3, AccountTypes, TopBidType DEF TypeInv
  <2>4. ASSUME HasRoot(id) PROVE root[id].available_funds \in Nat
    BY <2>1, <2>4 DEF RootState
  <2> QED
    BY <2>1, <2>2, <2>3, <2>4 DEF TypeInv, TypeOK, AuctionAssumption, CycleNumbers
<1>1. CASE Created(id)
  <2>1. PICK c : CycleSet(id, 1, c) /\ c.bid_history = <<>>
    BY <1>1 DEF Created
  <2>2. CurrentCycle(id)' = c
    <3>1. cycle'[id][1] = c
      BY <1>0, <2>1 DEF CycleSet
    <3> QED
      BY <1>1, <3>1 DEF Created, CurrentCycle
  <2>3. TopBidAmount(CurrentCycle(id))' = 0
    BY <2>1, <2>2 DEF TopBidAmount, HasBid
  <2> QED
    <3>1. HasRoot(id)' /\ IsOngoing(root[id])' /\ ~root'[id].is_finished
      BY <1>1 DEF Created, IsOngoing
    <3>2. root'[id].available_funds = 0 /\ bank'[id] = BankRent
      BY <1>1 DEF Created
    <3>3. Obligations(id)' = BankRent
      BY <1>0, <2>3, <3>1, <3>2 DEF Obligations
    <3> QED
      BY <1>0, <3>2, <3>3
<1>2. CASE BidPlaced(id)
  <2>1. PICK c : /\ CycleSet(id, k, c)
                 /\ bank'[id] = bank[id] + TopBidAmount(c) - top
    BY <1>2 DEF BidPlaced
  <2>2. HasRoot(id) /\ HasRoot(id)' /\ root' = root /\ IsOngoing(root[id])
    BY <1>2 DEF BidPlaced, HasCurrentCycle, HasRoot
  <2>3. CurrentCycle(id)' = c
    BY <1>0, <2>1, <2>2 DEF CycleSet, CurrentCycle
  <2>4. TopBidAmount(c) \in Nat
    BY <2>1, TopBidType DEF CycleSet
  <2>5. Obligations(id) = root[id].available_funds + BankRent + top
    BY <2>2 DEF Obligations, IsOngoing
  <2>6. Obligations(id)' = root[id].available_funds + BankRent + TopBidAmount(c)
    BY <2>2, <2>3 DEF Obligations, IsOngoing
  <2> QED
    BY <1>0, <2>1, <2>2, <2>4, <2>5, <2>6
<1>3. CASE CycleTouched(id)
  <2>1. PICK n, c : /\ n \in CycleNumbers
                    /\ CycleSet(id, n, c)
                    /\ c.bid_history = cycle[id][n].bid_history
    BY <1>3 DEF CycleTouched
  <2>2. CurrentCycle(id)' = IF n = k THEN c ELSE CurrentCycle(id)
    BY <1>0, <1>3, <2>1 DEF CycleTouched, SameRoot, CycleSet, CurrentCycle
  <2>3. TopBidAmount(CurrentCycle(id)') = top
    BY <2>1, <2>2, TopBidAmountSame DEF CurrentCycle
  <2>4. TopBidAmount(CurrentCycle(id))' = TopBidAmount(CurrentCycle(id)')
    BY DEF TopBidAmount, HasBid, TopBid
  <2> QED
    BY <1>3, <2>3, <2>4 DEF CycleTouched, SameRoot, Obligations, IsOngoing
<1>4. CASE AccountsKept(id)
  <2>1. Obligations(id)' = Obligations(id)
    BY <1>4 DEF AccountsKept, SameRoot, Obligations, IsOngoing, CurrentCycle, HasRoot, TopBidAmount,
                HasBid, TopBid
  <2>2. Obligations(id) \in Int
    BY <1>0 DEF Obligations
  <2> QED
    BY <1>0, <1>4, <2>1, <2>2 DEF AccountsKept
<1>5. CASE Finished(id)
  <2>1. HasRoot(id) /\ Obligations(id) = root[id].available_funds + BankRent + top
    BY <1>5 DEF Finished, HasCurrentCycle, Obligations, IsOngoing
  <2>2. Obligations(id)' = root[id].available_funds + top + BankRent
    BY <1>0, <1>5, <2>1 DEF Finished, Obligations, IsOngoing
  <2> QED
    BY <1>0, <1>5, <2>1, <2>2 DEF Finished
<1>6. CASE Advanced(id)
  <2>1. PICK c : k + 1 \in CycleNumbers /\ CycleSet(id, k + 1, c) /\ c.bid_history = <<>>
    BY <1>6 DEF Advanced
  <2>2. CurrentCycle(id)' = c
    <3>1. cycle'[id][k + 1] = c
      BY <1>0, <2>1 DEF CycleSet
    <3> QED
      BY <1>6, <3>1 DEF Advanced, CurrentCycle
  <2>3. TopBidAmount(CurrentCycle(id))' = 0
    BY <2>1, <2>2 DEF TopBidAmount, HasBid
  <2>4. HasRoot(id) /\ Obligations(id) = root[id].available_funds + BankRent + top
    BY <1>6 DEF Advanced, HasCurrentCycle, Obligations, IsOngoing
  <2>5. Obligations(id)' = root[id].available_funds + top + BankRent
    <3>1. HasRoot(id)' /\ IsOngoing(root[id])' /\ ~root'[id].is_finished
      BY <1>6 DEF Advanced, IsOngoing
    <3>2. root'[id].available_funds = root[id].available_funds + top
      BY <1>6 DEF Advanced
    <3> QED
      BY <1>0, <2>3, <2>4, <3>1, <3>2 DEF Obligations
  <2> QED
    <3>1. bank'[id] = bank[id]
      BY <1>6 DEF Advanced
    <3> QED
      BY <1>0, <2>4, <2>5, <3>1
<1>7. CASE FundsClaimed(id)
  <2>1. PICK amount \in Nat : /\ root'[id].available_funds = root[id].available_funds - amount
                              /\ bank'[id] = bank[id] - amount
    BY <1>7 DEF FundsClaimed
  <2>2. CurrentCycle(id)' = CurrentCycle(id)
    BY <1>7 DEF FundsClaimed, CurrentCycle
  <2>3. TopBidAmount(CurrentCycle(id))' = top
    BY <2>2 DEF TopBidAmount, HasBid, TopBid
  <2>4. HasRoot(id) /\ Obligations(id)' = Obligations(id) - amount
    BY <1>0, <1>7, <2>1, <2>3 DEF FundsClaimed, HasCurrentCycle, Obligations, IsOngoing
  <2>5. Obligations(id) \in Int
    BY <1>0 DEF Obligations
  <2> QED
    BY <1>0, <2>1, <2>4, <2>5
<1>8. CASE CyclesDeleted(id)
  <2>1. HasRoot(id) /\ HasRoot(id)' /\ ~IsOngoing(root'[id])
    BY <1>0, <1>8 DEF CyclesDeleted, HasCurrentCycle, IsOngoing, RootState
  <2>2. Obligations(id)' = root[id].available_funds
                           + (IF root[id].is_finished THEN 0 ELSE BankRent)
    BY <1>0, <1>8, <2>1 DEF CyclesDeleted, Obligations
  <2>3. Obligations(id) = Obligations(id)' + RefundOnDelete(id)
    BY <1>0, <2>1, <2>2 DEF Obligations, RefundOnDelete
  <2>4. RefundOnDelete(id) \in Nat /\ Obligations(id)' \in Nat
    BY <1>0, <2>1, <2>2 DEF RefundOnDelete
  <2> QED
    BY <1>0, <1>8, <2>3, <2>4 DEF CyclesDeleted
<1>9. CASE Deleted(id)
  BY <1>0, <1>9 DEF Deleted, Obligations
<1> QED
  BY <1>1, <1>2, <1>3, <1>4, <1>5, <1>6, <1>7, <1>8, <1>9, AuctionStepEffect

LEMMA BankSolventStep ==
    ASSUME ContractAssumption, AuctionAssumption, TypeInv, TypeInv', CycleAccounts, BankSolvent,
           [Next]_vars
    PROVE  BankSolvent'
<1>1. CASE UNCHANGED stateVars
  BY <1>1 DEF BankSolvent, Obligations, HasRoot, IsOngoing, TopBidAmount, HasBid, TopBid,
              CurrentCycle, stateVars
<1>2. ASSUME NEW id \in AuctionIds, AuctionStep(id) PROVE BankSolvent'
  <2>1. bank'[id] >= Obligations(id)'
    BY <1>2, SolventStep DEF BankSolvent
  <2>2. ASSUME NEW other \in AuctionIds \ {id} PROVE bank'[other] >= Obligations(other)'
    <3>1. /\ root'[other] = root[other]
          /\ cycle'[other] = cycle[other]
          /\ bank'[other] = bank[other]
      BY <1>2, AuctionStepLocal
    <3>2. Obligations(other)' = Obligations(other)
      BY <3>1 DEF Obligations, HasRoot, IsOngoing, TopBidAmount, HasBid, TopBid, CurrentCycle
    <3> QED
      BY <3>1, <3>2 DEF BankSolvent
  <2> QED
    BY <2>1, <2>2 DEF BankSolvent
<1> QED
  BY <1>1, <1>2, StepCases

(* The bank of every auction covers, at any time, the funds its owner may  *)
(* claim, the top bid that may have to be refunded, and its rent.          *)
THEOREM BankSolventInvariant == Spec => []BankSolvent
<1>1. Init => BankSolvent
  BY DEF Init, BankSolvent, Obligations, HasRoot
<1>2. TypeInv /\ TypeInv' /\ CycleAccounts /\ BankSolvent /\ [Next]_vars => BankSolvent'
  BY BankSolventStep, ContractAssumption, AuctionAssumption
<1> QED
  BY <1>1, <1>2, TypeInvariant, CycleAccountsInvariant, PTL DEF Spec

LEMMA BankBalancedStep ==
    ASSUME ContractAssumption, AuctionAssumption, TypeInv, TypeInv', CycleAccounts, BankSolvent,
           BankBalanced, [Next]_vars
    PROVE  BankBalanced'
<1> SUFFICES ASSUME Deposits = {}
             PROVE  \A id \in AuctionIds : bank'[id] = Obligations(id)'
  BY DEF BankBalanced
<1>0. \A id \in AuctionIds : bank[id] = Obligations(id)
  BY DEF BankBalanced
<1>1. CASE UNCHANGED stateVars
  BY <1>0, <1>1 DEF Obligations, HasRoot, IsOngoing, TopBidAmount, HasBid, TopBid, CurrentCycle,
                    stateVars
<1>2. ASSUME NEW id \in AuctionIds, AuctionStep(id)
      PROVE  \A other \in AuctionIds : bank'[other] = Obligations(other)'
  <2>1. bank'[id] = Obligations(id)'
    BY <1>0, <1>2, SolventStep DEF BankSolvent
  <2>2. ASSUME NEW other \in AuctionIds \ {id} PROVE bank'[other] = Obligations(other)'
    <3>1. /\ root'[other] = root[other]
          /\ cycle'[other] = cycle[other]
          /\ bank'[other] = bank[other]
      BY <1>2, AuctionStepLocal
    <3>2. Obligations(other)' = Obligations(other)
      BY <3>1 DEF Obligations, HasRoot, IsOngoing, TopBidAmount, HasBid, TopBid, CurrentCycle
    <3> QED
      BY <1>0, <3>1, <3>2
  <2> QED
    BY <2>1, <2>2
<1> QED
  BY <1>1, <1>2, StepCases

(* Unless somebody sends lamports to a bank from outside, the bank of an   *)
(* auction holds exactly what the auction owes: outbidding, closing,       *)
(* claiming and deleting strand nothing in it.                             *)
THEOREM BankBalancedInvariant == Spec => []BankBalanced
<1>1. Init => BankBalanced
  BY DEF Init, BankBalanced, Obligations, HasRoot
<1>2. TypeInv /\ TypeInv' /\ CycleAccounts /\ BankSolvent /\ BankBalanced /\ [Next]_vars => BankBalanced'
  BY BankBalancedStep, ContractAssumption, AuctionAssumption
<1> QED
  BY <1>1, <1>2, TypeInvariant, CycleAccountsInvariant, BankSolventInvariant, PTL DEF Spec

-----------------------------------------------------------------------------
(* The bid histories *)

Ascending(h) == \A i, j \in DOMAIN h : i < j => h[i].bid_amount < h[j].bid_amount

LEMMA CyclicPushAscends ==
    ASSUME AuctionAssumption, NEW h \in Seq(BidData), NEW b \in BidData, Ascending(h),
           h # <<>> => b.bid_amount > h[Len(h)].bid_amount
    PROVE  Ascending(CyclicPush(h, b))
<1>0. b.bid_amount \in Nat /\ \A i \in 1..Len(h) : h[i].bid_amount \in Nat
  <2>1. \A i \in 1..Len(h) : h[i] \in BidData
    OBVIOUS
  <2> QED
    BY <2>1 DEF BidData
<1>1. \A i \in 1..Len(h) : h[i].bid_amount < b.bid_amount
  <2> SUFFICES ASSUME NEW i \in 1..Len(h) PROVE h[i].bid_amount < b.bid_amount
    OBVIOUS
  <2>1. h # <<>> /\ Len(h) \in 1..Len(h)
    OBVIOUS
  <2>2. i = Len(h) \/ h[i].bid_amount < h[Len(h)].bid_amount
    BY <2>1 DEF Ascending
  <2> QED
    BY <1>0, <2>1, <2>2
<1>2. Ascending(Append(h, b))
  <2> SUFFICES ASSUME NEW i \in 1..Len(h) + 1, NEW j \in 1..Len(h) + 1, i < j
               PROVE  Append(h, b)[i].bid_amount < Append(h, b)[j].bid_amount
    BY DEF Ascending
  <2>1. i \in 1..Len(h) /\ Append(h, b)[i] = h[i]
    OBVIOUS
  <2>2. CASE j = Len(h) + 1
    BY <1>1, <2>1, <2>2
  <2>3. CASE j # Len(h) + 1
    BY <2>1, <2>3 DEF Ascending
  <2> QED
    BY <2>2, <2>3
<1>3. ASSUME Len(h) >= MAX_BID_HISTORY_LENGTH PROVE Ascending(Append(Tail(h), b))
  <2>1. h # <<>> /\ Len(h) >= 1
    BY <1>3 DEF AuctionAssumption
  <2> DEFINE t == Tail(h)
  <2>2. t \in Seq(BidData) /\ Len(t) = Len(h) - 1 /\ \A i \in 1..Len(t) : t[i] = h[i + 1]
    BY <2>1
  <2> HIDE DEF t
  <2> SUFFICES ASSUME NEW i \in 1..Len(t) + 1, NEW j \in 1..Len(t) + 1, i < j
               PROVE  Append(t, b)[i].bid_amount < Append(t, b)[j].bid_amount
    <3>1. DOMAIN Append(t, b) = 1..Len(t) + 1
      BY <2>2
    <3>2. Ascending(Append(t, b))
      BY <3>1 DEF Ascending
    <3> QED
      BY <3>2 DEF t
  <2>3. i + 1 \in 1..Len(h) /\ Append(t, b)[i] = h[i + 1]
    BY <2>2
  <2>4. CASE j = Len(t) + 1
    BY <1>1, <2>2, <2>3, <2>4
  <2>5. CASE j # Len(t) + 1
    <3>1. j \in 1..Len(t) /\ j + 1 \in 1..Len(h)
      BY <2>1, <2>2, <2>5
    <3>2. Append(t, b)[j] = t[j] /\ t[j] = h[j + 1]
      BY <2>2, <3>1
    <3> QED
      BY <2>3, <3>1, <3>2 DEF Ascending
  <2> QED
    BY <2>4, <2>5
<1> QED
  BY <1>2, <1>3 DEF CyclicPush, AuctionAssumption

AllAscend(states) == \A n \in CycleNumbers : states[n] # NoAccount => Ascending(states[n].bid_history)

LEMMA AscendStep ==
    ASSUME ContractAssumption, AuctionAssumption, TypeInv, NEW id \in AuctionIds, AuctionStep(id),
           AllAscend(cycle[id])
    PROVE  AllAscend(cycle'[id])
<1>0. cycle \in [AuctionIds -> [CycleNumbers -> CycleState \cup {NoAccount}]]
  BY DEF TypeInv, TypeOK
<1>1. ASSUME NEW n \in CycleNumbers, NEW c, CycleSet(id, n, c), Ascending(c.bid_history)
      PROVE  AllAscend(cycle'[id])
  <2>1. \A m \in CycleNumbers : cycle'[id][m] = IF m = n THEN c ELSE cycle[id][m]
    BY <1>0, <1>1 DEF CycleSet
  <2> QED
    BY <1>1, <2>1 DEF AllAscend
<1>2. Ascending(<<>>)
  BY DEF Ascending
<1>3. CASE Created(id) \/ Advanced(id)
  <2>1. 1 \in CycleNumbers
    BY DEF CycleNumbers, AuctionAssumption
  <2>2. PICK n, c : n \in CycleNumbers /\ CycleSet(id, n, c) /\ c.bid_history = <<>>
    BY <1>3, <2>1 DEF Created, Advanced
  <2> QED
    BY <1>1, <1>2, <2>2
<1>4. CASE BidPlaced(id)
  <2> DEFINE k == root[id].current_auction_cycle
             h == CurrentCycle(id).bid_history
  <2>1. PICK c : \E bid \in BidData :
            /\ CycleSet(id, k, c)
            /\ HasBid(CurrentCycle(id)) => bid.bid_amount > TopBidAmount(CurrentCycle(id))
            /\ c.bid_history = CyclicPush(h, bid)
    BY <1>4 DEF BidPlaced
  <2>0. PICK bid \in BidData :
            /\ CycleSet(id, k, c)
            /\ HasBid(CurrentCycle(id)) => bid.bid_amount > TopBidAmount(CurrentCycle(id))
            /\ c.bid_history = CyclicPush(h, bid)
    BY <2>1
  <2>2. /\ k \in CycleNumbers
        /\ CurrentCycle(id) = cycle[id][k]
        /\ CurrentCycle(id) # NoAccount
        /\ CurrentCycle(id) \in CycleState
    BY <1>4, AccountTypes DEF TypeInv, BidPlaced, HasCurrentCycle, CurrentCycle
  <2>3. h \in Seq(BidData) /\ Ascending(h)
    BY <2>2 DEF CycleState, AllAscend
  <2>4. h # <<>> => bid.bid_amount > h[Len(h)].bid_amount
    BY <2>0 DEF HasBid, TopBidAmount, TopBid
  <2> HIDE DEF h, k
  <2>5. Ascending(CyclicPush(h, bid))
    BY <2>3, <2>4, CyclicPushAscends
  <2> QED
    BY <1>1, <2>0, <2>2, <2>5
<1>5. CASE CycleTouched(id)
  <2>1. PICK n, c : /\ n \in CycleNumbers
                    /\ cycle[id][n] # NoAccount
                    /\ CycleSet(id, n, c)
                    /\ c.bid_history = cycle[id][n].bid_history
    BY <1>5 DEF CycleTouched
  <2>2. Ascending(c.bid_history)
    BY <2>1 DEF AllAscend
  <2> QED
    BY <1>1, <2>1, <2>2
<1>6. CASE AccountsKept(id) \/ Finished(id) \/ FundsClaimed(id)
  BY <1>6 DEF AccountsKept, Finished, FundsClaimed
<1>7. CASE CyclesDeleted(id) \/ Deleted(id)
  <2>1. PICK left : cycle' = CyclesDownTo(id, left)
    BY <1>7 DEF CyclesDeleted, Deleted
  <2>2. \A n \in CycleNumbers : cycle'[id][n] = NoAccount \/ cycle'[id][n] = cycle[id][n]
    BY <1>0, <2>1 DEF CyclesDownTo
  <2> QED
    BY <2>2 DEF AllAscend
<1> QED
  BY <1>3, <1>4, <1>5, <1>6, <1>7, AuctionStepEffect

LEMMA BidsAscendStep ==
    ASSUME ContractAssumption, AuctionAssumption, TypeInv, BidsAscend, [Next]_vars
    PROVE  BidsAscend'
<1>1. CASE UNCHANGED stateVars
  BY <1>1 DEF BidsAscend, stateVars
<1>2. ASSUME NEW id \in AuctionIds, AuctionStep(id) PROVE BidsAscend'
  <2>1. \A other \in AuctionIds : AllAscend(cycle[other])
    BY DEF BidsAscend, AllAscend, Ascending
  <2>2. AllAscend(cycle'[id])
    BY <1>2, <2>1, AscendStep
  <2>3. \A other \in AuctionIds \ {id} : AllAscend(cycle'[other])
    BY <1>2, <2>1, AuctionStepLocal
  <2>4. \A other \in AuctionIds : AllAscend(cycle'[other])
    BY <2>2, <2>3
  <2> QED
    BY <2>4 DEF BidsAscend, AllAscend, Ascending
<1> QED
  BY <1>1, <1>2, StepCases

(* The bids of a cycle ascend strictly, also when the history is full and  *)
(* drops its oldest bid: the top bid is the highest that was placed.       *)
THEOREM BidsAscendInvariant == Spec => []BidsAscend
<1>1. Init => BidsAscend
  BY DEF Init, BidsAscend
<1>2. TypeInv /\ BidsAscend /\ [Next]_vars => BidsAscend'
  BY BidsAscendStep, ContractAssumption, AuctionAssumption
<1> QED
  BY <1>1, <1>2, TypeInvariant, PTL DEF Spec

-----------------------------------------------------------------------------
(* Closed cycles *)

(* ClosedCyclesWon for one auction. *)
Won(id) ==
    HasRoot(id) =>
        /\ \A n \in ClosedCycles(id) : HasBid(cycle[id][n])
        /\ (root[id].auction_config.number_of_cycles > 0 =>
               root[id].current_auction_cycle <= root[id].auction_config.number_of_cycles)

LEMMA WonStep ==
    ASSUME ContractAssumption, AuctionAssumption, TypeInv, TypeInv', CycleAccounts,
           NEW id \in AuctionIds, AuctionStep(id), Won(id)
    PROVE  Won(id)'
<1> DEFINE k == root[id].current_auction_cycle
           limit == root[id].auction_config.number_of_cycles
<1>0. /\ cycle \in [AuctionIds -> [CycleNumbers -> CycleState \cup {NoAccount}]]
      /\ CycleNumbers \subseteq Nat
      /\ NoAccount \notin CycleState
      /\ HasRoot(id) => /\ root[id] \in RootState
                        /\ k \in CycleNumbers
                        /\ limit \in Nat
                        /\ \A n \in CycleNumbers : cycle[id][n] # NoAccount <=> n <= k
      /\ HasRoot(id)' => root'[id].auction_config.number_of_cycles \in Nat
  <2>1. HasRoot(id) => root[id] \in RootState /\ k \in CycleNumbers
    BY AccountTypes DEF TypeInv
  <2>2. HasRoot(id)' => root'[id] \in RootState
    BY DEF TypeInv, TypeOK, HasRoot
  <2>3. \A r \in RootState : r.auction_config.number_of_cycles \in Nat
    BY DEF RootState, AuctionConfig
  <2>4. HasRoot(id) => \A n \in CycleNumbers : cycle[id][n] # NoAccount <=> n <= k
    BY DEF CycleAccounts
  <2>5. CycleNumbers \subseteq Nat /\ NoAccount \notin CycleState
    BY DEF CycleNumbers, AuctionAssumption
  <2>6. cycle \in [AuctionIds -> [CycleNumbers -> CycleState \cup {NoAccount}]]
    BY DEF TypeInv, TypeOK
  <2> QED
    BY <2>1, <2>2, <2>3, <2>4, <2>5, <2>6
<1> SUFFICES ASSUME HasRoot(id)'
             PROVE  /\ \A n \in CycleNumbers :
                          /\ cycle'[id][n] # NoAccount
                          /\ IsOngoing(root'[id]) => n < root'[id].current_auction_cycle
                          => HasBid(cycle'[id][n])
                    /\ root'[id].auction_config.number_of_cycles > 0 =>
                          root'[id].current_auction_cycle
                              <= root'[id].auction_config.number_of_cycles
  BY DEF Won, ClosedCycles, ExistingCycles, HasBid
<1>1. HasRoot(id) =>
          /\ \A n \in CycleNumbers :
                /\ cycle[id][n] # NoAccount
                /\ IsOngoing(root[id]) => n < k
                => HasBid(cycle[id][n])
          /\ limit > 0 => k <= limit
  BY DEF Won, ClosedCycles, ExistingCycles
<1>2. CASE Created(id)
  <2>1. /\ IsOngoing(root'[id]) /\ root'[id].current_auction_cycle = 1
        /\ root'[id].auction_config.number_of_cycles \in Nat
    BY <1>0, <1>2 DEF Created
  <2>2. \A n \in CycleNumbers : ~(n < 1)
    BY DEF CycleNumbers
  <2>3. \A m \in Nat : m > 0 => 1 <= m
    OBVIOUS
  <2> QED
    BY <2>1, <2>2, <2>3
<1>3. CASE BidPlaced(id)
  <2>1. PICK c : CycleSet(id, k, c) /\ HasBid(c)
    BY <1>3 DEF BidPlaced
  <2>2. HasRoot(id) /\ root' = root
    BY <1>3 DEF BidPlaced, HasCurrentCycle
  <2>3. \A n \in CycleNumbers : cycle'[id][n] = IF n = k THEN c ELSE cycle[id][n]
    BY <1>0, <2>1 DEF CycleSet
  <2> QED
    BY <1>0, <1>1, <2>1, <2>2, <2>3
<1>4. CASE CycleTouched(id)
  <2>1. PICK m, c : /\ m \in CycleNumbers
                    /\ cycle[id][m] # NoAccount
                    /\ CycleSet(id, m, c)
                    /\ c.bid_history = cycle[id][m].bid_history
    BY <1>4 DEF CycleTouched
  <2>2. \A n \in CycleNumbers :
            /\ cycle'[id][n] # NoAccount => cycle[id][n] # NoAccount
            /\ HasBid(cycle'[id][n]) <=> HasBid(cycle[id][n])
    BY <1>0, <2>1 DEF CycleSet, HasBid
  <2> QED
    BY <1>1, <1>4, <2>2 DEF CycleTouched, SameRoot, IsOngoing
<1>5. CASE AccountsKept(id)
  BY <1>1, <1>5 DEF AccountsKept, SameRoot, IsOngoing, HasRoot
<1>6. CASE Finished(id)
  <2>1. HasRoot(id) /\ IsOngoing(root[id]) /\ HasBid(cycle[id][k]) /\ cycle' = cycle
        /\ root'[id].current_auction_cycle = k
        /\ root'[id].auction_config = root[id].auction_config
    BY <1>6 DEF Finished, HasCurrentCycle, CurrentCycle
  <2>2. ASSUME NEW n \in CycleNumbers, cycle[id][n] # NoAccount PROVE HasBid(cycle[id][n])
    <3>1. n = k \/ n < k
      BY SMTT(30), <1>0, <2>1, <2>2
    <3> QED
      BY <1>1, <2>1, <2>2, <3>1
  <2> QED
    BY <1>1, <2>1, <2>2
<1>7. CASE Advanced(id)
  <2>1. HasRoot(id) /\ IsOngoing(root[id]) /\ HasBid(cycle[id][k])
        /\ root'[id].current_auction_cycle = k + 1
        /\ root'[id].auction_config = root[id].auction_config
        /\ IsOngoing(root'[id])
    BY <1>7 DEF Advanced, HasCurrentCycle, CurrentCycle, IsOngoing
  <2>2. PICK c : CycleSet(id, k + 1, c)
    BY <1>7 DEF Advanced
  <2>3. \A n \in CycleNumbers : cycle'[id][n] = IF n = k + 1 THEN c ELSE cycle[id][n]
    BY <1>0, <2>2 DEF CycleSet
  <2>4. ASSUME NEW n \in CycleNumbers, n < k + 1 PROVE HasBid(cycle'[id][n])
    <3>1. (n = k \/ n < k) /\ n # k + 1 /\ n <= k
      BY <1>0, <2>1, <2>4
    <3> QED
      BY <1>0, <1>1, <2>1, <2>3, <3>1
  <2>5. limit > 0 => k < limit
    <3>1. ~IsLastAuctionCycle(root[id])
      BY <1>7 DEF Advanced
    <3>2. ~(limit > 0 /\ k >= limit)
      BY <3>1 DEF IsLastAuctionCycle
    <3>3. k \in Nat /\ limit \in Nat
      BY <1>0, <2>1
    <3> HIDE DEF k, limit
    <3> QED
      BY <3>2, <3>3
  <2>6. limit > 0 => k + 1 <= limit
    BY <1>0, <2>1, <2>5
  <2> QED
    BY <2>1, <2>4, <2>6
<1>8. CASE FundsClaimed(id)
  BY <1>1, <1>8 DEF FundsClaimed, HasCurrentCycle, IsOngoing
<1>9. CASE CyclesDeleted(id)
  <2> DEFINE left == root'[id].current_auction_cycle
  <2>1. HasRoot(id) /\ left \in Nat /\ left < k /\ cycle' = CyclesDownTo(id, left)
        /\ root'[id].auction_config = root[id].auction_config
    BY <1>0, <1>9 DEF CyclesDeleted, HasCurrentCycle
  <2> HIDE DEF left
  <2>2. \A n \in CycleNumbers : cycle'[id][n] =
            IF n \in (left + 1)..k THEN NoAccount ELSE cycle[id][n]
    BY <1>0, <2>1 DEF CyclesDownTo
  <2>3. ASSUME NEW n \in CycleNumbers, cycle'[id][n] # NoAccount PROVE HasBid(cycle'[id][n])
    <3>1. cycle'[id][n] = cycle[id][n]
      BY <2>2, <2>3
    <3>2. n < k
      BY <1>0, <2>1, <2>2, <2>3
    <3> QED
      BY <1>1, <2>1, <2>3, <3>1, <3>2
  <2>4. limit > 0 => left <= limit
    BY <1>0, <1>1, <2>1
  <2> QED
    BY <2>1, <2>3, <2>4 DEF left
<1>10. CASE Deleted(id)
  BY <1>10 DEF Deleted
<1> QED
  BY <1>2, <1>3, <1>4, <1>5, <1>6, <1>7, <1>8, <1>9, <1>10, AuctionStepEffect

LEMMA ClosedCyclesWonStep ==
    ASSUME ContractAssumption, AuctionAssumption, TypeInv, TypeInv', CycleAccounts,
           ClosedCyclesWon, [Next]_vars
    PROVE  ClosedCyclesWon'
<1>1. CASE UNCHANGED stateVars
  BY <1>1 DEF ClosedCyclesWon, ClosedCycles, ExistingCycles, HasRoot, HasBid, IsOngoing, stateVars
<1>2. ASSUME NEW id \in AuctionIds, AuctionStep(id) PROVE ClosedCyclesWon'
  <2>1. \A other \in AuctionIds : Won(other)
    BY DEF ClosedCyclesWon, Won
  <2>2. Won(id)'
    BY <1>2, <2>1, WonStep
  <2>3. ASSUME NEW other \in AuctionIds \ {id} PROVE Won(other)'
    <3>1. root'[other] = root[other] /\ cycle'[other] = cycle[other]
      BY <1>2, AuctionStepLocal
    <3> QED
      BY <2>1, <3>1 DEF Won, ClosedCycles, ExistingCycles, HasRoot, HasBid, IsOngoing
  <2> QED
    BY <2>2, <2>3 DEF ClosedCyclesWon, Won
<1> QED
  BY <1>1, <1>2, StepCases

(* Every closed cycle of every auction has a winner, and no auction runs   *)
(* more cycles than it was configured with.                                *)
THEOREM ClosedCyclesWonInvariant == Spec => []ClosedCyclesWon
<1>1. Init => ClosedCyclesWon
  BY DEF Init, ClosedCyclesWon, HasRoot
<1>2. TypeInv /\ TypeInv' /\ CycleAccounts /\ ClosedCyclesWon /\ [Next]_vars => ClosedCyclesWon'
  BY ClosedCyclesWonStep, ContractAssumption, AuctionAssumption
<1> QED
  BY <1>1, <1>2, TypeInvariant, CycleAccountsInvariant, PTL DEF Spec

-----------------------------------------------------------------------------
(* What a step does to the cycle that is open *)

LEMMA OpenCycleAsCurrent ==
    ASSUME AuctionAssumption, TypeInv, CycleAccounts, NEW id \in AuctionIds, OpenCycle(id) # 0
    PROVE  /\ HasRoot(id) /\ IsOngoing(root[id])
           /\ OpenCycle(id) = root[id].current_auction_cycle
           /\ OpenCycle(id) \in CycleNumbers /\ OpenCycle(id) \in Nat
           /\ cycle[id][OpenCycle(id)] = CurrentCycle(id)
           /\ CurrentCycle(id) # NoAccount /\ CurrentCycle(id) \in CycleState
<1>1. HasRoot(id) /\ IsOngoing(root[id]) /\ OpenCycle(id) = root[id].current_auction_cycle
  BY DEF OpenCycle
<1>2. OpenCycle(id) \in CycleNumbers /\ CycleNumbers \subseteq Nat
  BY <1>1, AccountTypes DEF TypeInv, CycleNumbers
<1> DEFINE k == root[id].current_auction_cycle
<1>3. cycle[id][k] # NoAccount
  <2>1. k \in CycleNumbers /\ k \in Nat
    BY <1>1, <1>2, Zenon
  <2> HIDE DEF k
  <2>2. k <= k
    BY <2>1
  <2> QED
    BY <1>1, <2>1, <2>2 DEF CycleAccounts, k
<1>4. cycle[id][k] \in CycleState
  <2>1. cycle \in [AuctionIds -> [CycleNumbers -> CycleState \cup {NoAccount}]] /\ k \in CycleNumbers
    BY <1>1, <1>2 DEF TypeInv, TypeOK
  <2> HIDE DEF k
  <2> QED
    BY <1>3, <2>1
<1> QED
  BY <1>1, <1>2, <1>3, <1>4 DEF CurrentCycle

(* Only bids and deletions change the bid history of an open cycle.        *)
LEMMA HistoryKept ==
    ASSUME ContractAssumption, AuctionAssumption, TypeInv, CycleAccounts,
           NEW id \in AuctionIds, AuctionStep(id), ~AnyBid(id), ~Delete(id), OpenCycle(id) # 0
    PROVE  /\ cycle'[id][OpenCycle(id)] # NoAccount
           /\ cycle'[id][OpenCycle(id)].bid_history = CurrentCycle(id).bid_history
<1> DEFINE k == OpenCycle(id)
<1>0. /\ HasRoot(id) /\ k = root[id].current_auction_cycle /\ k \in CycleNumbers /\ k \in Nat
      /\ cycle[id][k] = CurrentCycle(id) /\ CurrentCycle(id) # NoAccount
      /\ cycle \in [AuctionIds -> [CycleNumbers -> CycleState \cup {NoAccount}]]
      /\ NoAccount \notin CycleState
  BY OpenCycleAsCurrent DEF TypeInv, TypeOK, AuctionAssumption
<1> HIDE DEF k
<1>1. ASSUME CycleTouched(id)
      PROVE  cycle'[id][k] # NoAccount /\ cycle'[id][k].bid_history = CurrentCycle(id).bid_history
  <2>1. PICK n, c : /\ n \in CycleNumbers /\ CycleSet(id, n, c)
                    /\ c.bid_history = cycle[id][n].bid_history
    BY <1>1 DEF CycleTouched
  <2>2. cycle'[id][k] = IF k = n THEN c ELSE cycle[id][k]
    BY <1>0, <2>1 DEF CycleSet
  <2> QED
    BY <1>0, <2>1, <2>2 DEF CycleSet
<1>2. ASSUME cycle' = cycle
      PROVE  cycle'[id][k] # NoAccount /\ cycle'[id][k].bid_history = CurrentCycle(id).bid_history
  BY <1>0, <1>2
<1>3. ASSUME Advanced(id)
      PROVE  cycle'[id][k] # NoAccount /\ cycle'[id][k].bid_history = CurrentCycle(id).bid_history
  <2>1. PICK c : CycleSet(id, k + 1, c) /\ k + 1 \in CycleNumbers
    BY <1>0, <1>3 DEF Advanced
  <2>2. k # k + 1
    BY <1>0
  <2>3. cycle'[id][k] = cycle[id][k]
    BY <1>0, <2>1, <2>2 DEF CycleSet
  <2> QED
    BY <1>0, <2>3
<1>4. ~Start(id)
  BY <1>0, StartEffect DEF Created
<1>5. Close(id) => CycleTouched(id) \/ cycle' = cycle \/ Advanced(id)
  BY CloseIdleCycleEffect, CloseLastCycleEffect, CloseCycleEffect DEF Close, Finished
<1>6. Claim(id) => CycleTouched(id) \/ cycle' = cycle
  BY ClaimFundsEffect, ClaimRewardsEffect DEF Claim, FundsClaimed
<1>7. Administer(id) \/ (\E user \in Bidders, amount \in Deposits : Deposit(id, user, amount))
          => cycle' = cycle
  BY AdministerEffect, DepositEffect DEF AccountsKept
<1> QED
  BY <1>1, <1>2, <1>3, <1>4, <1>5, <1>6, <1>7 DEF AuctionStep, k

(* A bid in the terms both properties below are stated in. *)
LEMMA BidInDetail ==
    ASSUME ContractAssumption, AuctionAssumption, TypeInv, CycleAccounts,
           NEW id \in AuctionIds, AnyBid(id), OpenCycle(id) # 0
    PROVE  \E user \in Users, amount \in Nat, end \in Nat :
              /\ wallet' = Refunded([wallet EXCEPT ![user] = wallet[user] - amount],
                                    CurrentCycle(id))
              /\ wallet[user] >= amount
              /\ TopBid(cycle'[id][OpenCycle(id)])
                     = [bidder_pubkey |-> user, bid_amount |-> amount]
              /\ cycle'[id][OpenCycle(id)].end_time
                     = EndAfterBid(end, root[id].auction_config.encore_period)
              /\ id \in pool["primary"] => end = CurrentCycle(id).end_time /\ now < end
<1> DEFINE k == OpenCycle(id)
           encore == root[id].auction_config.encore_period
<1>0. /\ k = root[id].current_auction_cycle /\ k \in CycleNumbers
      /\ CurrentCycle(id) \in CycleState
      /\ root[id] \in RootState
      /\ cycle \in [AuctionIds -> [CycleNumbers -> CycleState \cup {NoAccount}]]
      /\ wallet \in [Users -> Nat] /\ now \in Nat
  BY OpenCycleAsCurrent, AccountTypes DEF TypeInv, TypeOK, ContractTypeOK
<1>1. PICK user \in Bidders, amount \in BidAmounts :
          Bid(id, user, amount) \/ BidInactive(id, user, amount)
  BY DEF AnyBid
<1>2. user \in Users /\ amount \in Nat
  BY DEF AuctionAssumption
<1>3. PICK end \in Nat :
          /\ PlaceBid(id, user, amount, end)
          /\ id \in pool["primary"] => end = CurrentCycle(id).end_time /\ now < end
  <2>1. CurrentCycle(id).end_time \in Nat
    BY <1>0 DEF CycleState
  <2>2. now + root[id].auction_config.cycle_period \in Nat
    <3>1. root[id].auction_config.cycle_period \in Nat
      BY <1>0 DEF RootState, AuctionConfig
    <3> QED
      BY <1>0, <3>1
  <2> QED
    BY <1>1, <2>1, <2>2 DEF Bid, BidInactive, CheckStatus
<1> DEFINE h == CurrentCycle(id).bid_history
           b == [bidder_pubkey |-> user, bid_amount |-> amount]
           later == [end_time |-> EndAfterBid(end, encore), bid_history |-> CyclicPush(h, b)]
<1>4. cycle'[id][k] = later
  BY <1>0, <1>3 DEF PlaceBid
<1>5. TopBid(later) = b
  <2>1. h \in Seq(BidData) /\ b \in BidData
    BY <1>0, <1>2 DEF CycleState, BidData
  <2> HIDE DEF h, b
  <2> QED
    BY <2>1, CyclicPushTop DEF TopBid
<1>6. /\ wallet' = Refunded([wallet EXCEPT ![user] = wallet[user] - amount], CurrentCycle(id))
      /\ wallet[user] >= amount
  BY <1>3 DEF PlaceBid
<1>7. later.end_time = EndAfterBid(end, encore)
  OBVIOUS
<1> HIDE DEF later
<1> QED
  BY <1>2, <1>3, <1>4, <1>5, <1>6, <1>7

-----------------------------------------------------------------------------
(* The time a bid leaves *)

LEMMA BidLeavesTimeStep ==
    ASSUME ContractAssumption, AuctionAssumption, TypeInv, CycleAccounts,
           NEW id \in AuctionIds, AuctionStep(id)
    PROVE  BidLeavesTime(id)
<1> DEFINE k == OpenCycle(id)
           encore == root[id].auction_config.encore_period
<1> SUFFICES ASSUME k # 0, id \in pool["primary"], cycle'[id][k] # NoAccount,
                    cycle'[id][k].bid_history # cycle[id][k].bid_history
             PROVE  /\ cycle'[id][k].end_time >= cycle[id][k].end_time
                    /\ cycle'[id][k].end_time - now >= encore
  BY DEF BidLeavesTime
<1>1. cycle[id][k] = CurrentCycle(id) /\ HasRoot(id) /\ k \in CycleNumbers
  BY OpenCycleAsCurrent
<1>2. CASE AnyBid(id)
  <2>1. PICK end \in Nat :
            /\ cycle'[id][k].end_time = EndAfterBid(end, encore)
            /\ end = CurrentCycle(id).end_time /\ now < end
    BY <1>2, BidInDetail
  <2>2. encore \in Nat /\ now \in Nat
    BY <1>1, AccountTypes DEF TypeInv, TypeOK, RootState, AuctionConfig
  <2> HIDE DEF encore
  <2>3. EndAfterBid(end, encore) >= end /\ EndAfterBid(end, encore) - now >= encore
    BY <2>1, <2>2 DEF EndAfterBid
  <2> QED
    BY <1>1, <2>1, <2>3 DEF encore
<1>3. CASE Delete(id)
  <2>1. PICK left : cycle' = CyclesDownTo(id, left)
    BY <1>3 DEF Delete, DeleteCycles, DeleteAuction
  <2>2. cycle'[id][k] = cycle[id][k]
    BY <1>1, <2>1 DEF CyclesDownTo, TypeInv, TypeOK
  <2> QED
    BY <2>2
<1>4. CASE ~AnyBid(id) /\ ~Delete(id)
  BY <1>1, <1>4, HistoryKept
<1> QED
  BY <1>2, <1>3, <1>4

LEMMA OtherAuctionsKeepBids ==
    ASSUME AuctionAssumption, TypeInv, CycleAccounts, NEW id \in AuctionIds,
           cycle'[id] = cycle[id]
    PROVE  BidLeavesTime(id) /\ DisplacedBid(id)
<1> SUFFICES ASSUME OpenCycle(id) # 0 PROVE BidLeavesTime(id) /\ DisplacedBid(id)
  BY DEF BidLeavesTime, DisplacedBid
<1>1. cycle[id][OpenCycle(id)] # NoAccount
  BY OpenCycleAsCurrent
<1> QED
  BY <1>1 DEF BidLeavesTime, DisplacedBid

(* A bid never shortens its cycle, and leaves the others an encore period  *)
(* to answer it, whatever happens in between to the auction.               *)
THEOREM BidsAlwaysLeaveTime == Spec => BidsLeaveTime
<1>1. TypeInv /\ CycleAccounts /\ [Next]_vars => [\A id \in AuctionIds : BidLeavesTime(id)]_vars
  <2> SUFFICES ASSUME TypeInv, CycleAccounts, [Next]_vars
               PROVE  \A id \in AuctionIds : BidLeavesTime(id)
    OBVIOUS
  <2>1. CASE UNCHANGED stateVars
    BY <2>1, OtherAuctionsKeepBids, AuctionAssumption DEF stateVars
  <2>2. ASSUME NEW id \in AuctionIds, AuctionStep(id)
        PROVE  \A other \in AuctionIds : BidLeavesTime(other)
    <3>1. BidLeavesTime(id)
      BY <2>2, BidLeavesTimeStep, ContractAssumption, AuctionAssumption
    <3>2. \A other \in AuctionIds \ {id} : BidLeavesTime(other)
      BY <2>2, AuctionStepLocal, OtherAuctionsKeepBids, ContractAssumption, AuctionAssumption
    <3> QED
      BY <3>1, <3>2
  <2> QED
    BY <2>1, <2>2, StepCases
<1> QED
  BY <1>1, TypeInvariant, CycleAccountsInvariant, PTL DEF Spec, BidsLeaveTime

-----------------------------------------------------------------------------
(* Refunds *)

LEMMA RefundOf ==
    ASSUME NEW w \in [Users -> Int], NEW c \in CycleState, HasBid(c)
    PROVE  LET old == TopBid(c)
           IN  /\ old \in BidData /\ old.bidder_pubkey \in Users /\ old.bid_amount \in Nat
               /\ Refunded(w, c)[old.bidder_pubkey] = w[old.bidder_pubkey] + old.bid_amount
BY TopBidType DEF Refunded, BidData

LEMMA BidRefunds ==
    ASSUME ContractAssumption, AuctionAssumption, TypeInv, CycleAccounts,
           NEW id \in AuctionIds, AnyBid(id), OpenCycle(id) # 0, HasBid(CurrentCycle(id))
    PROVE  DisplacedBid(id)
<1> DEFINE k == OpenCycle(id)
           old == TopBid(CurrentCycle(id))
           later == cycle'[id][k]
<1>1. cycle[id][k] = CurrentCycle(id) /\ CurrentCycle(id) \in CycleState
  BY OpenCycleAsCurrent
<1>2. PICK user \in Users, amount \in Nat :
          /\ wallet' = Refunded([wallet EXCEPT ![user] = wallet[user] - amount],
                                CurrentCycle(id))
          /\ TopBid(later) = [bidder_pubkey |-> user, bid_amount |-> amount]
  BY BidInDetail
<1> DEFINE w == [wallet EXCEPT ![user] = wallet[user] - amount]
<1>3. wallet \in [Users -> Nat] /\ w \in [Users -> Int]
  BY DEF TypeInv, TypeOK, ContractTypeOK
<1>4. /\ old.bidder_pubkey \in Users /\ old.bid_amount \in Nat
      /\ wallet'[old.bidder_pubkey] = w[old.bidder_pubkey] + old.bid_amount
  BY <1>1, <1>2, <1>3, RefundOf
<1>5. /\ TopBid(later).bidder_pubkey = user /\ TopBid(later).bid_amount = amount
  BY <1>2
<1>6. /\ wallet[old.bidder_pubkey] \in Nat
      /\ user = old.bidder_pubkey => w[old.bidder_pubkey] = wallet[old.bidder_pubkey] - amount
      /\ user # old.bidder_pubkey => w[old.bidder_pubkey] = wallet[old.bidder_pubkey]
  BY <1>3, <1>4
<1> HIDE DEF old, w, later, k
<1>7. CASE user = old.bidder_pubkey /\ later # NoAccount
  <2>1. wallet'[old.bidder_pubkey] - wallet[old.bidder_pubkey] >= old.bid_amount - amount
    BY <1>4, <1>6, <1>7
  <2> QED
    BY <1>1, <1>5, <1>7, <2>1 DEF DisplacedBid, old, later, k
<1>8. CASE user # old.bidder_pubkey
  <2>1. wallet'[old.bidder_pubkey] - wallet[old.bidder_pubkey] >= old.bid_amount - 0
    BY <1>4, <1>6, <1>8
  <2> QED
    BY <1>1, <1>5, <1>8, <2>1 DEF DisplacedBid, old, later, k
<1>9. later # NoAccount
  <2>1. PICK c : CycleSet(id, root[id].current_auction_cycle, c)
    BY AnyBidEffect DEF BidPlaced
  <2>2. k = root[id].current_auction_cycle /\ k \in CycleNumbers
    BY OpenCycleAsCurrent DEF k
  <2>3. later \in CycleState
    BY <2>1, <2>2 DEF CycleSet, later, TypeInv, TypeOK
  <2> QED
    BY <2>3 DEF AuctionAssumption
<1> QED
  BY <1>7, <1>8, <1>9

LEMMA RefundIsPaidOut ==
    ASSUME NEW w \in [Users -> Nat], NEW owner \in Users, NEW paid \in Nat, NEW user \in Users
    PROVE  [w EXCEPT ![owner] = w[owner] + paid][user] >= w[user]
<1>1. w[user] \in Nat
  OBVIOUS
<1>2. CASE user = owner
  BY <1>1, <1>2
<1>3. CASE user # owner
  BY <1>1, <1>3
<1> QED
  BY <1>2, <1>3

LEMMA DeletionRefundsTopBid ==
    ASSUME ContractAssumption, AuctionAssumption, TypeInv, CycleAccounts,
           NEW id \in AuctionIds, Delete(id), OpenCycle(id) # 0, HasBid(CurrentCycle(id))
    PROVE  DisplacedBid(id)
<1> DEFINE k == OpenCycle(id)
           old == TopBid(CurrentCycle(id))
           user == old.bidder_pubkey
           w == Refunded(wallet, CurrentCycle(id))
<1>1. /\ cycle[id][k] = CurrentCycle(id) /\ CurrentCycle(id) \in CycleState
      /\ HasRoot(id) /\ IsOngoing(root[id])
      /\ k = root[id].current_auction_cycle /\ k \in Nat /\ k \in CycleNumbers
  BY OpenCycleAsCurrent
<1>2. wallet \in [Users -> Nat]
  BY DEF TypeInv, TypeOK, ContractTypeOK
<1>3. /\ user \in Users /\ old.bid_amount \in Nat
      /\ w[user] = wallet[user] + old.bid_amount
  BY <1>1, <1>2, RefundOf
<1>4. WalletsAfterRefund(id) = w
  BY <1>1 DEF WalletsAfterRefund
<1>5. w \in [Users -> Nat]
  BY <1>1, <1>2, RefundedType
<1>6. wallet'[user] >= w[user] /\ wallet'[user] \in Nat /\ cycle'[id][k] = NoAccount
  <2>1. ASSUME NEW owner \in Owners, NEW batch \in DeleteBatches, DeleteCycles(id, owner, batch)
        PROVE  wallet'[user] >= w[user] /\ wallet'[user] \in Nat /\ cycle'[id][k] = NoAccount
    <3>1. wallet' = w /\ cycle' = CyclesDownTo(id, k - batch)
      BY <1>1, <1>4, <2>1 DEF DeleteCycles
    <3>2. batch \in Nat \ {0}
      BY DEF AuctionAssumption
    <3> HIDE DEF k, w, user
    <3>3. k \in (k - batch + 1)..k
      BY <1>1, <3>2
    <3>4. cycle'[id][k] = NoAccount
      BY <1>1, <3>1, <3>3 DEF CyclesDownTo, TypeInv, TypeOK
    <3> QED
      BY <1>3, <1>5, <3>1, <3>4
  <2>2. ASSUME NEW owner \in Owners, NEW batch \in DeleteBatches, DeleteAuction(id, owner, batch)
        PROVE  wallet'[user] >= w[user] /\ wallet'[user] \in Nat /\ cycle'[id][k] = NoAccount
    <3> DEFINE rest == bank[id] - RefundOnDelete(id)
    <3>1. owner \in Users /\ RootStateRent \in Nat /\ 0 < k
      BY <1>1 DEF AuctionAssumption, CycleNumbers
    <3>2. rest \in Nat
      BY <1>1, <2>2, <3>1, DeletableType DEF DeleteAuction
    <3>3. PICK share \in FeeShares(rest) :
              /\ share <= rest
              /\ wallet' = [w EXCEPT ![owner] = w[owner] + rest - share + RootStateRent]
      BY <1>4, <2>2 DEF DeleteAuction
    <3>4. share \in Nat
      BY <3>2, FeeSharesNat DEF TypeInv, TypeOK
    <3>5. cycle' = CyclesDownTo(id, 0)
      BY <2>2 DEF DeleteAuction
    <3> HIDE DEF rest, w, user, k
    <3> DEFINE paid == rest - share + RootStateRent
    <3>6. paid \in Nat /\ w[owner] \in Nat
      BY <1>5, <3>1, <3>2, <3>3, <3>4
    <3>7. w[owner] + rest - share + RootStateRent = w[owner] + paid
      BY <3>1, <3>2, <3>4, <3>6
    <3> HIDE DEF paid
    <3>8. wallet' = [w EXCEPT ![owner] = w[owner] + paid] /\ w[owner] + paid \in Nat
      <4>1. w[owner] + paid \in Nat
        BY <3>6
      <4> QED
        BY <3>3, <3>7, <4>1, Zenon
    <3>9. wallet'[user] >= w[user] /\ wallet'[user] \in Nat
      BY <1>3, <1>5, <3>1, <3>6, <3>8, RefundIsPaidOut
    <3>10. k \in (0 + 1)..k
      BY <1>1, <3>1
    <3>11. cycle'[id][k] = NoAccount
      BY <1>1, <3>5, <3>10 DEF CyclesDownTo, TypeInv, TypeOK
    <3> QED
      BY <3>9, <3>11
  <2> QED
    BY <2>1, <2>2 DEF Delete
<1> HIDE DEF k, old, w
<1>7. wallet'[user] - wallet[user] >= old.bid_amount - 0
  <2>1. wallet[user] \in Nat
    BY <1>2, <1>3
  <2> QED
    BY <1>3, <1>6, <2>1
<1> QED
  BY <1>1, <1>6, <1>7 DEF DisplacedBid, old, k

LEMMA DisplacedBidStep ==
    ASSUME ContractAssumption, AuctionAssumption, TypeInv, CycleAccounts,
           NEW id \in AuctionIds, AuctionStep(id)
    PROVE  DisplacedBid(id)
<1>1. CASE OpenCycle(id) = 0
  BY <1>1 DEF DisplacedBid
<1>2. CASE OpenCycle(id) # 0 /\ ~HasBid(CurrentCycle(id))
  BY <1>2, OpenCycleAsCurrent DEF DisplacedBid
<1>3. CASE OpenCycle(id) # 0 /\ ~AnyBid(id) /\ ~Delete(id)
  <2>1. /\ cycle'[id][OpenCycle(id)] # NoAccount
        /\ cycle'[id][OpenCycle(id)].bid_history = cycle[id][OpenCycle(id)].bid_history
    BY <1>3, HistoryKept, OpenCycleAsCurrent
  <2>2. TopBid(cycle'[id][OpenCycle(id)]) = TopBid(cycle[id][OpenCycle(id)])
    BY <2>1 DEF TopBid
  <2> QED
    BY <2>1, <2>2 DEF DisplacedBid
<1> QED
  BY <1>1, <1>2, <1>3, BidRefunds, DeletionRefundsTopBid

(* Whoever is outbid, or loses the auction to its owner's deletion, gets   *)
(* the bid back in the same transaction, in full; and whoever raises the   *)
(* own bid pays the difference only.                                       *)
THEOREM DisplacedBidsAlwaysRefunded == Spec => DisplacedBidsRefunded
<1>1. TypeInv /\ CycleAccounts /\ [Next]_vars => [\A id \in AuctionIds : DisplacedBid(id)]_vars
  <2> SUFFICES ASSUME TypeInv, CycleAccounts, [Next]_vars
               PROVE  \A id \in AuctionIds : DisplacedBid(id)
    OBVIOUS
  <2>1. CASE UNCHANGED stateVars
    BY <2>1, OtherAuctionsKeepBids, AuctionAssumption DEF stateVars
  <2>2. ASSUME NEW id \in AuctionIds, AuctionStep(id)
        PROVE  \A other \in AuctionIds : DisplacedBid(other)
    <3>1. DisplacedBid(id)
      BY <2>2, DisplacedBidStep, ContractAssumption, AuctionAssumption
    <3>2. \A other \in AuctionIds \ {id} : DisplacedBid(other)
      BY <2>2, AuctionStepLocal, OtherAuctionsKeepBids, ContractAssumption, AuctionAssumption
    <3> QED
      BY <3>1, <3>2
  <2> QED
    BY <2>1, <2>2, StepCases
<1> QED
  BY <1>1, TypeInvariant, CycleAccountsInvariant, PTL DEF Spec, DisplacedBidsRefunded
=============================================================================
