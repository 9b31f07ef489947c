---------------------------- MODULE RewardProofs ----------------------------
(***************************************************************************)
(* Proofs about the rewards of an auction: what the counter of unclaimed   *)
(* rewards promises can be claimed, what counts as claimed was delivered   *)
(* to the winner, and the master of an NFT auction shows the cycle that is *)
(* running.                                                                *)
(***************************************************************************)
EXTENDS BankProofs

-----------------------------------------------------------------------------
(* What each instruction does to what the rewards depend on: the end times *)
(* and bids of the cycles, the counter, and the token accounts.            *)

TokenConfig(id) == root[id].auction_config.token_config

RewardsUntouched == master' = master /\ children' = children /\ tokens' = tokens

SameState(id) ==
    /\ HasRoot(id)' <=> HasRoot(id)
    /\ HasRoot(id) =>
           /\ root'[id].current_auction_cycle = root[id].current_auction_cycle
           /\ root'[id].is_frozen = root[id].is_frozen
           /\ root'[id].is_finished = root[id].is_finished
           /\ root'[id].unclaimed_rewards = root[id].unclaimed_rewards
           /\ root'[id].auction_config.token_config = TokenConfig(id)

AuctionBegun(id) ==
    /\ ~HasRoot(id) /\ HasRoot(id)' /\ IsOngoing(root'[id])
    /\ root'[id].current_auction_cycle = 1 /\ root'[id].unclaimed_rewards = 0
    /\ \E c : CycleSet(id, 1, c) /\ c.bid_history = <<>> /\ c.end_time > 0
    /\ children' = children
    /\ IF root'[id].auction_config.token_config = "Token"
       THEN /\ tokens' = [tokens EXCEPT ![id] = [user \in Users |-> 0]]
            /\ master' = master
       ELSE /\ master[id] = NoAccount
            /\ master' = [master EXCEPT ![id] =
                   IF root'[id].auction_config.token_config = "Nft" THEN 1 ELSE 0]
            /\ tokens' = tokens

BidTaken(id) ==
    /\ HasCurrentCycle(id) /\ IsOngoing(root[id]) /\ root' = root
    /\ \E c : CycleSet(id, root[id].current_auction_cycle, c) /\ HasBid(c) /\ c.end_time > 0
    /\ RewardsUntouched

CycleExtended(id) ==
    /\ HasCurrentCycle(id) /\ IsOngoing(root[id]) /\ ~HasBid(CurrentCycle(id)) /\ SameState(id)
    /\ \E c : /\ CycleSet(id, root[id].current_auction_cycle, c)
              /\ c.bid_history = CurrentCycle(id).bid_history
              /\ c.end_time = 0 => CurrentCycle(id).end_time = 0
    /\ RewardsUntouched

CycleSold(id) ==
    /\ HasCurrentCycle(id) /\ IsOngoing(root[id]) /\ HasBid(CurrentCycle(id)) /\ HasRoot(id)'
    /\ root'[id].auction_config = root[id].auction_config
    /\ ~root'[id].is_frozen
    /\ root'[id].unclaimed_rewards = root[id].unclaimed_rewards + 1
    /\ master' = IncrementedUri(id) /\ children' = children /\ tokens' = tokens
    /\ \/ /\ IsLastAuctionCycle(root[id])
          /\ root'[id].is_finished
          /\ root'[id].current_auction_cycle = root[id].current_auction_cycle
          /\ cycle' = cycle
       \/ /\ ~IsLastAuctionCycle(root[id])
          /\ ~root'[id].is_finished
          /\ root'[id].current_auction_cycle = root[id].current_auction_cycle + 1
          /\ \E c : /\ root[id].current_auction_cycle + 1 \in CycleNumbers
                    /\ CycleSet(id, root[id].current_auction_cycle + 1, c)
                    /\ c.bid_history = <<>> /\ c.end_time > 0

RewardDelivered(id, n) ==
    /\ HasRoot(id) /\ HasRoot(id)' /\ cycle[id][n] # NoAccount
    /\ cycle[id][n].end_time # 0 /\ HasBid(cycle[id][n])
    /\ root'[id].current_auction_cycle = root[id].current_auction_cycle
    /\ root'[id].is_frozen = root[id].is_frozen
    /\ root'[id].is_finished = root[id].is_finished
    /\ root'[id].auction_config = root[id].auction_config
    /\ root[id].unclaimed_rewards > 0
    /\ root'[id].unclaimed_rewards = root[id].unclaimed_rewards - 1
    /\ \E c : CycleSet(id, n, c) /\ c.bid_history = cycle[id][n].bid_history /\ c.end_time = 0
    /\ master' = master
    /\ IF IsNft(id)
       THEN /\ children[id][n] = NoAccount
            /\ children' = [children EXCEPT ![id][n] = Winner(id, n)]
            /\ tokens' = tokens
       ELSE /\ tokens' = [tokens EXCEPT ![id][Winner(id, n)] = @ + 1]
            /\ children' = children

CyclesGone(id) ==
    /\ HasRoot(id) /\ HasRoot(id)'
    /\ root[id].unclaimed_rewards = 0 /\ root'[id].unclaimed_rewards = 0
    /\ root'[id].is_finished = root[id].is_finished
    /\ root'[id].is_frozen = (root[id].is_frozen \/ IsOngoing(root[id]))
    /\ root'[id].auction_config = root[id].auction_config
    /\ cycle' = CyclesDownTo(id, root'[id].current_auction_cycle)
    /\ RewardsUntouched

RewardsKept(id) == SameState(id) /\ cycle' = cycle /\ RewardsUntouched

AuctionGone(id) == ~HasRoot(id)' /\ RewardsUntouched

LEMMA NewCycleType ==
    ASSUME NEW end \in Nat
    PROVE  /\ [end_time |-> end, bid_history |-> <<>>] \in CycleState
           /\ [end_time |-> end, bid_history |-> <<>>].end_time = end
           /\ [end_time |-> end, bid_history |-> <<>>].bid_history = <<>>
<1>1. <<>> \in Seq(BidData)
  OBVIOUS
<1> QED
  BY <1>1 DEF CycleState

LEMMA AuctionBegunEffect ==
    ASSUME ContractAssumption, AuctionAssumption, TypeInv, now > 0, NEW id \in AuctionIds, Start(id)
    PROVE  AuctionBegun(id)
<1>1. PICK owner \in Owners, config \in AuctionConfigs, start \in StartTimes \cup {now} :
          InitializeAuction(id, owner, config, start)
  BY DEF Start
<1>2. config \in AuctionConfig /\ start \in Nat /\ start > 0 /\ config.cycle_period \in Nat
  <2>1. config \in AuctionConfig /\ start \in Nat /\ now \in Nat /\ start >= now
    BY <1>1 DEF AuctionAssumption, InitializeAuction, TypeInv, TypeOK
  <2> QED
    BY <2>1 DEF AuctionConfig
<1> DEFINE c == [end_time |-> start + config.cycle_period, bid_history |-> <<>>]
<1>3. c \in CycleState /\ c.bid_history = <<>> /\ c.end_time > 0
  <2> DEFINE end == start + config.cycle_period
  <2>1. end \in Nat /\ end > 0
    BY <1>2
  <2>2. c = [end_time |-> end, bid_history |-> <<>>]
    OBVIOUS
  <2> HIDE DEF end, c
  <2> QED
    BY <2>1, <2>2, NewCycleType
<1>4. cycle' = [cycle EXCEPT ![id][1] = c] /\ ~HasRoot(id)
  BY <1>1 DEF InitializeAuction
<1>5. /\ root'[id] = NewRootState(owner, config, start)
      /\ InitializeTokens(id, config.token_config)
  BY <1>1 DEF InitializeAuction, TypeInv, TypeOK
<1>6. /\ root'[id].auction_config = config /\ root'[id].unclaimed_rewards = 0
  BY <1>5 DEF NewRootState
<1>7. HasRoot(id)' /\ IsOngoing(root'[id]) /\ root'[id].current_auction_cycle = 1
  BY StartEffect DEF Created
<1> HIDE DEF c
<1>8. \E d : CycleSet(id, 1, d) /\ d.bid_history = <<>> /\ d.end_time > 0
  BY <1>3, <1>4 DEF CycleSet
<1>9. CASE config.token_config = "Token"
  BY <1>4, <1>5, <1>6, <1>7, <1>8, <1>9 DEF AuctionBegun, InitializeTokens
<1>10. CASE config.token_config # "Token"
  BY <1>4, <1>5, <1>6, <1>7, <1>8, <1>10 DEF AuctionBegun, InitializeTokens
<1> QED
  BY <1>9, <1>10

LEMMA BidTakenEffect ==
    ASSUME ContractAssumption, AuctionAssumption, TypeInv, now > 0, NEW id \in AuctionIds, AnyBid(id)
    PROVE  BidTaken(id)
<1> DEFINE k == root[id].current_auction_cycle
           encore == root[id].auction_config.encore_period
<1>1. PICK user \in Bidders, amount \in BidAmounts :
          Bid(id, user, amount) \/ BidInactive(id, user, amount)
  BY DEF AnyBid
<1>2. PICK c : CycleSet(id, k, c) /\ HasBid(c)
  BY AnyBidEffect DEF BidPlaced
<1>3. HasCurrentCycle(id) /\ IsOngoing(root[id]) /\ root' = root
  BY AnyBidEffect DEF BidPlaced
<1>4. RewardsUntouched
  BY <1>1 DEF Bid, BidInactive, PlaceBid, rewardVars, RewardsUntouched
<1>5. k \in CycleNumbers /\ CurrentCycle(id) \in CycleState /\ root[id] \in RootState
  BY <1>3, AccountTypes DEF TypeInv, HasCurrentCycle
<1>6. /\ encore \in Nat /\ root[id].auction_config.cycle_period \in Nat
      /\ CurrentCycle(id).end_time \in Nat /\ now \in Nat
  BY <1>5 DEF RootState, AuctionConfig, CycleState, TypeInv, TypeOK
<1>7. cycle'[id][k] = c
  BY <1>2, <1>5 DEF CycleSet, TypeInv, TypeOK
<1>8. PICK end \in Nat : end > 0 /\ PlaceBid(id, user, amount, end)
  <2>1. CASE Bid(id, user, amount)
    <3>1. now < CurrentCycle(id).end_time /\ PlaceBid(id, user, amount, CurrentCycle(id).end_time)
      BY <2>1 DEF Bid, CheckStatus
    <3>2. CurrentCycle(id).end_time > 0
      BY <1>6, <3>1
    <3> QED
      BY <1>6, <3>1, <3>2
  <2>2. CASE BidInactive(id, user, amount)
    <3> DEFINE e == now + root[id].auction_config.cycle_period
    <3>1. PlaceBid(id, user, amount, e)
      BY <2>2 DEF BidInactive
    <3>2. e \in Nat /\ e > 0
      BY <1>6
    <3> HIDE DEF e
    <3> QED
      BY <3>1, <3>2
  <2> QED
    BY <1>1, <2>1, <2>2
<1>9. cycle'[id][k].end_time = EndAfterBid(end, encore)
  BY <1>5, <1>8 DEF PlaceBid, TypeInv, TypeOK
<1>10. EndAfterBid(end, encore) > 0
  BY <1>6, <1>8 DEF EndAfterBid
<1>11. c.end_time > 0
  BY <1>7, <1>9, <1>10
<1> QED
  BY <1>2, <1>3, <1>4, <1>11 DEF BidTaken

LEMMA CycleExtendedEffect ==
    ASSUME ContractAssumption, AuctionAssumption, TypeInv, NEW id \in AuctionIds, CloseIdleCycle(id)
    PROVE  CycleExtended(id)
<1> DEFINE k == root[id].current_auction_cycle
           old == CurrentCycle(id)
           c == [old EXCEPT !.end_time = @ + root[id].auction_config.cycle_period]
<1>1. HasCurrentCycle(id) /\ IsOngoing(root[id]) /\ ~HasBid(old) /\ HasRoot(id)
  BY DEF CloseIdleCycle, CanClose, CheckStatus, HasCurrentCycle
<1>2. k \in CycleNumbers /\ old \in CycleState /\ root[id] \in RootState
  BY <1>1, AccountTypes DEF TypeInv
<1>3. root[id].auction_config.cycle_period \in Nat
  BY <1>2 DEF RootState, AuctionConfig
<1>4. /\ c \in CycleState /\ c.bid_history = old.bid_history
      /\ c.end_time = 0 => old.end_time = 0
  <2> DEFINE end == old.end_time + root[id].auction_config.cycle_period
  <2>1. old.end_time \in Nat
    BY <1>2 DEF CycleState
  <2>2. end \in Nat /\ (end = 0 => old.end_time = 0)
    BY <1>3, <2>1
  <2>3. c = [old EXCEPT !.end_time = end]
    OBVIOUS
  <2> HIDE DEF end, c, old
  <2>4. c \in CycleState /\ c.bid_history = old.bid_history /\ c.end_time = end
    BY <1>2, <2>2, <2>3 DEF CycleState
  <2> QED
    BY <2>2, <2>4
<1>5. cycle' = [cycle EXCEPT ![id][k] = c]
  BY DEF CloseIdleCycle, CurrentCycle
<1>6. SameState(id)
  <2>1. HasRoot(id)'
    BY CloseIdleCycleType
  <2>2. root'[id] = [root[id] EXCEPT !.current_idle_cycle_streak = root[id].current_idle_cycle_streak + 1]
    BY DEF CloseIdleCycle, TypeInv, TypeOK
  <2> QED
    BY <1>1, <1>2, <2>1, <2>2 DEF SameState, TokenConfig, RootState
<1>7. RewardsUntouched
  BY DEF CloseIdleCycle, rewardVars, RewardsUntouched
<1> HIDE DEF c
<1> QED
  BY <1>1, <1>4, <1>5, <1>6, <1>7 DEF CycleExtended, CycleSet

LEMMA SettledCounter ==
    ASSUME AuctionAssumption, NEW r \in RootState, NEW won \in Nat, RewardCountable(r)
    PROVE  Settled(r, won).unclaimed_rewards = r.unclaimed_rewards + 1
<1> DEFINE paid == [r EXCEPT !.available_funds = @ + won, !.all_time_treasury = @ + won]
           busy == [paid EXCEPT !.current_idle_cycle_streak = 0]
<1>1. paid \in RootState /\ paid.unclaimed_rewards = r.unclaimed_rewards
  <2> DEFINE funds == r.available_funds + won
             treasury == r.all_time_treasury + won
             funded == [r EXCEPT !.available_funds = funds]
  <2>1. funds \in Nat /\ treasury \in Nat
    BY DEF RootState
  <2>2. paid = [funded EXCEPT !.all_time_treasury = treasury]
    OBVIOUS
  <2> HIDE DEF funds, treasury, paid
  <2>3. funded \in RootState /\ funded.unclaimed_rewards = r.unclaimed_rewards
    BY <2>1 DEF RootState
  <2> HIDE DEF funded
  <2> QED
    BY <2>1, <2>2, <2>3 DEF RootState
<1>2. Settled(r, won) = [busy EXCEPT !.unclaimed_rewards = @ + 1]
  BY DEF Settled
<1> HIDE DEF paid
<1>3. busy \in RootState /\ busy.unclaimed_rewards = r.unclaimed_rewards
  BY <1>1 DEF RootState
<1> HIDE DEF busy
<1> QED
  BY <1>2, <1>3 DEF RootState

LEMMA CycleSoldEffect ==
    ASSUME ContractAssumption, AuctionAssumption, TypeInv, now > 0, NEW id \in AuctionIds,
           CloseLastCycle(id) \/ (\E payer \in Payers : CloseCycle(id, payer))
    PROVE  CycleSold(id)
<1> DEFINE won == TopBidAmount(CurrentCycle(id))
           settled == Settled(root[id], won)
           k == root[id].current_auction_cycle
<1>0. /\ HasRoot(id) /\ HasCurrentCycle(id) /\ IsOngoing(root[id])
      /\ RewardCountable(root[id]) /\ HasBid(CurrentCycle(id))
  BY DEF CloseLastCycle, CloseCycle, CanClose, CheckStatus, HasCurrentCycle
<1>1. root[id] \in RootState /\ won \in Nat
  BY <1>0, AccountTypes, TopBidType DEF TypeInv
<1>2. settled \in RootState /\ settled.unclaimed_rewards = root[id].unclaimed_rewards + 1
  BY <1>0, <1>1, SettledFields, SettledCounter
<1>3. /\ master' = IncrementedUri(id) /\ children' = children /\ tokens' = tokens
  BY DEF CloseLastCycle, CloseCycle
<1>4. CASE CloseLastCycle(id)
  <2>1. root'[id] = [settled EXCEPT !.is_finished = TRUE, !.available_funds = FundsWithRent(settled)]
    BY <1>4 DEF CloseLastCycle, TypeInv, TypeOK
  <2>2. IsLastAuctionCycle(root[id])
    BY <1>4 DEF CloseLastCycle
  <2> HIDE DEF settled
  <2>3. root'[id].unclaimed_rewards = root[id].unclaimed_rewards + 1
    BY <1>2, <2>1 DEF RootState
  <2>4. Finished(id)
    BY <1>4, CloseLastCycleEffect
  <2> QED
    BY <1>0, <1>3, <2>2, <2>3, <2>4 DEF CycleSold, Finished, IsOngoing
<1>5. ASSUME NEW payer \in Payers, CloseCycle(id, payer) PROVE CycleSold(id)
  <2> DEFINE c == [end_time |-> now + root[id].auction_config.cycle_period, bid_history |-> <<>>]
  <2>1. root'[id] = [settled EXCEPT !.current_auction_cycle = k + 1]
    BY <1>5 DEF CloseCycle, TypeInv, TypeOK
  <2>2. cycle' = [cycle EXCEPT ![id][k + 1] = c]
    BY <1>5 DEF CloseCycle
  <2>3. c \in CycleState /\ c.bid_history = <<>> /\ c.end_time > 0
    <3> DEFINE end == now + root[id].auction_config.cycle_period
    <3>1. root[id].auction_config.cycle_period \in Nat /\ now \in Nat
      BY <1>1 DEF RootState, AuctionConfig, TypeInv, TypeOK
    <3>2. end \in Nat /\ end > 0
      BY <3>1
    <3>3. c = [end_time |-> end, bid_history |-> <<>>]
      OBVIOUS
    <3> HIDE DEF end, c
    <3> QED
      BY <3>2, <3>3, NewCycleType
  <2> HIDE DEF settled, c
  <2>4. root'[id].unclaimed_rewards = root[id].unclaimed_rewards + 1
    BY <1>2, <2>1 DEF RootState
  <2>5. Advanced(id)
    BY <1>5, CloseCycleEffect
  <2>6. /\ HasRoot(id)' /\ ~root'[id].is_frozen /\ ~root'[id].is_finished
        /\ root'[id].auction_config = root[id].auction_config
        /\ root'[id].current_auction_cycle = k + 1 /\ k + 1 \in CycleNumbers
        /\ ~IsLastAuctionCycle(root[id])
    BY <1>0, <2>5 DEF Advanced, IsOngoing
  <2>7. CycleSet(id, k + 1, c)
    BY <2>2, <2>3 DEF CycleSet
  <2> QED
    BY <1>0, <1>3, <2>3, <2>4, <2>6, <2>7 DEF CycleSold
<1> QED
  BY <1>4, <1>5

LEMMA RewardDeliveredEffect ==
    ASSUME ContractAssumption, AuctionAssumption, TypeInv, NEW id \in AuctionIds,
           NEW n \in CycleNumbers, ClaimRewards(id, n)
    PROVE  RewardDelivered(id, n)
<1> DEFINE c == [cycle[id][n] EXCEPT !.end_time = 0]
<1>1. /\ HasRoot(id) /\ cycle[id][n] # NoAccount /\ cycle[id][n].end_time # 0
      /\ HasBid(cycle[id][n]) /\ root[id].unclaimed_rewards > 0
  BY DEF ClaimRewards, RewardIsDue
<1>2. HasRoot(id)'
  BY ClaimRewardsType
<1>3. root[id] \in RootState /\ cycle[id][n] \in CycleState
  BY <1>1, AccountTypes DEF TypeInv, TypeOK
<1>4. root'[id] = [root[id] EXCEPT !.unclaimed_rewards = @ - 1]
  BY DEF ClaimRewards, RewardTaken, TypeInv, TypeOK
<1>5. /\ root'[id].current_auction_cycle = root[id].current_auction_cycle
      /\ root'[id].is_frozen = root[id].is_frozen
      /\ root'[id].is_finished = root[id].is_finished
      /\ root'[id].auction_config = root[id].auction_config
      /\ root'[id].unclaimed_rewards = root[id].unclaimed_rewards - 1
  BY <1>3, <1>4 DEF RootState
<1>6. c \in CycleState /\ c.bid_history = cycle[id][n].bid_history /\ c.end_time = 0
  BY <1>3 DEF CycleState
<1>7. cycle' = [cycle EXCEPT ![id][n] = c]
  BY DEF ClaimRewards
<1> HIDE DEF c
<1>8. \E d : CycleSet(id, n, d) /\ d.bid_history = cycle[id][n].bid_history /\ d.end_time = 0
  BY <1>6, <1>7 DEF CycleSet
<1>9. DeliverReward(id, n, Winner(id, n))
  BY DEF ClaimRewards, Winner
<1> QED
  BY <1>1, <1>2, <1>5, <1>8, <1>9 DEF RewardDelivered, DeliverReward, IsNft

LEMMA CyclesGoneEffect ==
    ASSUME ContractAssumption, AuctionAssumption, TypeInv, NEW id \in AuctionIds,
           NEW owner \in Owners, NEW batch \in DeleteBatches, DeleteCycles(id, owner, batch)
    PROVE  CyclesGone(id)
<1> DEFINE r == [root[id] EXCEPT !.current_auction_cycle = root[id].current_auction_cycle - batch]
           frozen == root[id].is_frozen \/ IsOngoing(root[id])
<1>1. HasRoot(id) /\ HasRoot(id)' /\ root[id].unclaimed_rewards = 0
  BY DeleteCyclesType DEF DeleteCycles, DeletableDownTo, AuctionAssumption
<1>2. root'[id] = [r EXCEPT !.is_frozen = frozen]
  BY DEF DeleteCycles, TypeInv, TypeOK
<1>3. root[id] \in RootState
  BY <1>1, AccountTypes DEF TypeInv
<1>4. r.unclaimed_rewards = 0
  BY <1>1, <1>3 DEF RootState
<1> HIDE DEF frozen
<1>5. root'[id].unclaimed_rewards = 0
  BY <1>2, <1>3, <1>4 DEF RootState
<1>6. RewardsUntouched
  BY DEF DeleteCycles, rewardVars, RewardsUntouched
<1>7. CyclesDeleted(id)
  BY DeleteCyclesEffect DEF AuctionAssumption
<1> QED
  BY <1>1, <1>5, <1>6, <1>7 DEF CyclesGone, CyclesDeleted

LEMMA RewardsKeptEffect ==
    ASSUME ContractAssumption, AuctionAssumption, TypeInv, NEW id \in AuctionIds,
           \/ \E amount \in ClaimAmounts : ClaimFunds(id, amount)
           \/ Administer(id)
           \/ \E user \in Bidders, amount \in Deposits : Deposit(id, user, amount)
    PROVE  RewardsKept(id)
<1>0. HasRoot(id) => root[id] \in RootState
  BY AccountTypes DEF TypeInv
<1>1. ASSUME NEW amount \in ClaimAmounts, ClaimFunds(id, amount) PROVE RewardsKept(id)
  <2>1. HasRoot(id) /\ HasRoot(id)' /\ cycle' = cycle
    BY <1>1, ClaimFundsEffect DEF FundsClaimed, HasCurrentCycle
  <2>2. PICK funds : root'[id] = [root[id] EXCEPT !.available_funds = funds]
    BY <1>1 DEF ClaimFunds, TypeInv, TypeOK
  <2>3. SameState(id)
    BY <1>0, <2>1, <2>2 DEF SameState, TokenConfig, RootState
  <2>4. RewardsUntouched
    BY <1>1 DEF ClaimFunds, rewardVars, RewardsUntouched
  <2> QED
    BY <2>1, <2>3, <2>4 DEF RewardsKept
<1>2. CASE Administer(id)
  <2>1. HasRoot(id)' /\ cycle' = cycle
    BY <1>2, AdministerType, AdministerEffect DEF AccountsKept
  <2>2. HasRoot(id)
    BY <1>2 DEF Administer, FilterAuction, ModifyAuction, VerifyAuction, IsAuctionOwner
  <2>3. /\ root'[id].current_auction_cycle = root[id].current_auction_cycle
        /\ root'[id].is_frozen = root[id].is_frozen
        /\ root'[id].is_finished = root[id].is_finished
        /\ root'[id].unclaimed_rewards = root[id].unclaimed_rewards
        /\ root'[id].auction_config.token_config = TokenConfig(id)
    <3>1. ASSUME NEW admin \in Users, NEW filter \in Filters, FilterAuction(id, admin, filter)
          PROVE  root'[id] = [root[id] EXCEPT !.is_filtered = filter]
      BY <3>1 DEF FilterAuction, TypeInv, TypeOK
    <3>2. ASSUME NEW owner \in Owners, NEW encore \in EncorePeriods, ModifyAuction(id, owner, encore)
          PROVE  root'[id] = [root[id] EXCEPT !.auction_config =
                                 [root[id].auction_config EXCEPT !.encore_period = encore]]
      BY <3>2 DEF ModifyAuction, TypeInv, TypeOK
    <3>3. ASSUME NEW admin \in Users, VerifyAuction(id, admin)
          PROVE  root'[id] = [root[id] EXCEPT !.is_verified = TRUE]
      BY <3>3 DEF VerifyAuction, TypeInv, TypeOK
    <3>4. \/ \E v : root'[id] = [root[id] EXCEPT !.is_filtered = v]
          \/ \E v : root'[id] = [root[id] EXCEPT !.auction_config =
                                    [root[id].auction_config EXCEPT !.encore_period = v]]
          \/ \E v : root'[id] = [root[id] EXCEPT !.is_verified = v]
      BY <1>2, <3>1, <3>2, <3>3 DEF Administer
    <3>5. root[id] \in RootState /\ root[id].auction_config \in AuctionConfig
      BY <1>0, <2>2 DEF RootState
    <3>6. CASE \E v : root'[id] = [root[id] EXCEPT !.is_filtered = v]
      BY <3>5, <3>6 DEF RootState, TokenConfig
    <3>7. ASSUME NEW v, root'[id] = [root[id] EXCEPT !.auction_config =
                                        [root[id].auction_config EXCEPT !.encore_period = v]]
          PROVE  /\ root'[id].current_auction_cycle = root[id].current_auction_cycle
                 /\ root'[id].is_frozen = root[id].is_frozen
                 /\ root'[id].is_finished = root[id].is_finished
                 /\ root'[id].unclaimed_rewards = root[id].unclaimed_rewards
                 /\ root'[id].auction_config.token_config = TokenConfig(id)
      <4> DEFINE config == [root[id].auction_config EXCEPT !.encore_period = v]
      <4>1. config.token_config = TokenConfig(id)
        BY <3>5 DEF AuctionConfig, TokenConfig
      <4> HIDE DEF config
      <4>2. root'[id] = [root[id] EXCEPT !.auction_config = config]
        BY <3>7 DEF config
      <4> QED
        BY <3>5, <4>1, <4>2 DEF RootState
    <3>8. CASE \E v : root'[id] = [root[id] EXCEPT !.is_verified = v]
      BY <3>5, <3>8 DEF RootState, TokenConfig
    <3> QED
      BY <3>4, <3>6, <3>7, <3>8
  <2>4. RewardsUntouched
    BY <1>2 DEF Administer, FilterAuction, ModifyAuction, VerifyAuction, rewardVars, RewardsUntouched
  <2> QED
    BY <2>1, <2>2, <2>3, <2>4 DEF RewardsKept, SameState
<1>3. ASSUME NEW user \in Bidders, NEW amount \in Deposits, Deposit(id, user, amount)
      PROVE  RewardsKept(id)
  BY <1>3 DEF Deposit, rewardVars, RewardsKept, RewardsUntouched, SameState, TokenConfig, HasRoot
<1> QED
  BY <1>1, <1>2, <1>3

LEMMA RewardEffect ==
    ASSUME ContractAssumption, AuctionAssumption, TypeInv, now > 0,
           NEW id \in AuctionIds, AuctionStep(id)
    PROVE  \/ AuctionBegun(id) \/ BidTaken(id) \/ CycleExtended(id) \/ CycleSold(id)
           \/ \E n \in CycleNumbers : RewardDelivered(id, n)
           \/ CyclesGone(id) \/ RewardsKept(id) \/ AuctionGone(id)
<1>1. Close(id) => CycleExtended(id) \/ CycleSold(id)
  BY CycleExtendedEffect, CycleSoldEffect DEF Close
<1>2. Claim(id) => RewardsKept(id) \/ \E n \in CycleNumbers : RewardDelivered(id, n)
  BY RewardsKeptEffect, RewardDeliveredEffect DEF Claim
<1>3. Delete(id) => CyclesGone(id) \/ AuctionGone(id)
  <2>1. ASSUME NEW owner \in Owners, NEW batch \in DeleteBatches, DeleteAuction(id, owner, batch)
        PROVE  AuctionGone(id)
    <3>1. ~HasRoot(id)'
      BY <2>1, DeleteAuctionEffect DEF Deleted
    <3>2. RewardsUntouched
      BY <2>1 DEF DeleteAuction, rewardVars, RewardsUntouched
    <3> QED
      BY <3>1, <3>2 DEF AuctionGone
  <2> QED
    BY <2>1, CyclesGoneEffect DEF Delete
<1> QED
  BY <1>1, <1>2, <1>3, AuctionBegunEffect, BidTakenEffect, RewardsKeptEffect DEF AuctionStep

-----------------------------------------------------------------------------
(* Time stamps are positive, so that an end time of 0 means "claimed".     *)

ClockPositive == now > 0

LEMMA ClockPositiveStep ==
    ASSUME TypeInv, ClockPositive, [Next]_vars PROVE ClockPositive'
<1>1. ASSUME NEW id \in AuctionIds, AuctionStep(id) PROVE now' = now
  BY <1>1 DEF AuctionStep, Start, InitializeAuction, AnyBid, Bid, BidInactive, PlaceBid,
         Close, CloseIdleCycle, CloseLastCycle, CloseCycle, Claim, ClaimFunds, ClaimRewards,
         Delete, DeleteCycles, DeleteAuction, Administer, FilterAuction, ModifyAuction,
         VerifyAuction, Deposit
<1>2. CASE Next
  <2>1. now' = now \/ now' = now + 1
    BY <1>1, <1>2 DEF Next, Tick, AuctionStep
  <2> QED
    BY <2>1 DEF ClockPositive, TypeInv, TypeOK
<1>3. CASE UNCHANGED vars
  BY <1>3 DEF ClockPositive, vars
<1> QED
  BY <1>2, <1>3

LEMMA ClockPositiveInvariant == Spec => []ClockPositive
<1>1. Init => ClockPositive
  BY AuctionAssumption DEF Init, ClockPositive, AuctionAssumption
<1>2. TypeInv /\ ClockPositive /\ [Next]_vars => ClockPositive'
  BY ClockPositiveStep
<1> QED
  BY <1>1, <1>2, TypeInvariant, PTL DEF Spec

(* An instruction only touches the tokens of its own auction. *)
LEMMA RewardsLocal ==
    ASSUME ContractAssumption, AuctionAssumption, TypeInv, ClockPositive,
           NEW id \in AuctionIds, AuctionStep(id), NEW other \in AuctionIds \ {id}
    PROVE  /\ master'[other] = master[other]
           /\ children'[other] = children[other]
           /\ tokens'[other] = tokens[other]
<1> USE DEF TypeInv, TypeOK
<1>1. AuctionBegun(id) => /\ master'[other] = master[other]
                          /\ children'[other] = children[other]
                          /\ tokens'[other] = tokens[other]
  BY DEF AuctionBegun
<1>2. CycleSold(id) => /\ master'[other] = master[other]
                       /\ children'[other] = children[other]
                       /\ tokens'[other] = tokens[other]
  BY DEF CycleSold, IncrementedUri
<1>3. ASSUME NEW n \in CycleNumbers, RewardDelivered(id, n)
      PROVE  /\ master'[other] = master[other]
             /\ children'[other] = children[other]
             /\ tokens'[other] = tokens[other]
  BY <1>3 DEF RewardDelivered
<1> QED
  BY <1>1, <1>2, <1>3, RewardEffect
     DEF ClockPositive, BidTaken, CycleExtended, CyclesGone, RewardsKept, AuctionGone, RewardsUntouched

(* What the steps below need of the accounts of an auction.                *)
LEMMA RootFacts ==
    ASSUME AuctionAssumption, TypeInv, NEW id \in AuctionIds, HasRoot(id)
    PROVE  /\ root[id] \in RootState
           /\ root[id].current_auction_cycle \in CycleNumbers
           /\ root[id].current_auction_cycle \in Nat \ {0}
           /\ root[id].unclaimed_rewards \in Nat
           /\ root[id].is_frozen \in BOOLEAN /\ root[id].is_finished \in BOOLEAN
<1>1. root[id] \in RootState /\ root[id].current_auction_cycle \in CycleNumbers
  BY AccountTypes DEF TypeInv
<1>2. root[id].unclaimed_rewards \in 0..MaxUnclaimed /\ MaxUnclaimed \in Nat
  BY <1>1 DEF RootState, AuctionAssumption
<1>3. CycleNumbers \subseteq Nat \ {0}
  BY DEF CycleNumbers
<1>4. root[id].is_frozen \in BOOLEAN /\ root[id].is_finished \in BOOLEAN
  BY <1>1 DEF RootState
<1>5. root[id].unclaimed_rewards \in Nat
  BY <1>2
<1> QED
  BY <1>1, <1>3, <1>4, <1>5

-----------------------------------------------------------------------------
(* The master *)

MasterRight(id) ==
    HasRoot(id) /\ IsNft(id) /\ ~root[id].is_frozen =>
        master[id] = IF root[id].auction_config.token_config = "RepeatingNft"
                        \/ root[id].is_finished
                     THEN 0 ELSE root[id].current_auction_cycle

LEMMA MasterRightStep ==
    ASSUME ContractAssumption, AuctionAssumption, TypeInv, ClockPositive,
           NEW id \in AuctionIds, AuctionStep(id), MasterRight(id)
    PROVE  MasterRight(id)'
<1> SUFFICES ASSUME HasRoot(id)', root'[id].auction_config.token_config # "Token",
                    ~root'[id].is_frozen
             PROVE  master'[id] =
                        IF root'[id].auction_config.token_config = "RepeatingNft"
                           \/ root'[id].is_finished
                        THEN 0 ELSE root'[id].current_auction_cycle
  BY DEF MasterRight, IsNft
<1>0. master \in [AuctionIds -> Nat \cup {NoAccount}]
  BY DEF TypeInv, TypeOK
<1>1. CASE AuctionBegun(id)
  <2>1. root'[id] \in RootState
    BY <1>1, TypeStep DEF AuctionBegun, TypeInv, TypeOK, HasRoot, Next, AuctionStep
  <2>2. root'[id].auction_config.token_config \in {"Nft", "RepeatingNft", "Token"}
    BY <2>1 DEF RootState, AuctionConfig, TokenConfigs
  <2> QED
    BY <1>0, <1>1, <2>2 DEF AuctionBegun, IsOngoing
<1>2. CASE BidTaken(id)
  BY <1>2 DEF BidTaken, RewardsUntouched, MasterRight, IsNft, HasRoot
<1>3. ASSUME SameState(id), master' = master
      PROVE  master'[id] =
                        IF root'[id].auction_config.token_config = "RepeatingNft"
                           \/ root'[id].is_finished
                        THEN 0 ELSE root'[id].current_auction_cycle
  BY <1>3 DEF SameState, TokenConfig, MasterRight, IsNft
<1>4. CASE CycleExtended(id)
  BY <1>3, <1>4 DEF CycleExtended, RewardsUntouched
<1>5. CASE CycleSold(id)
  <2> DEFINE kind == root[id].auction_config.token_config
  <2>1. HasRoot(id) /\ IsNft(id) /\ ~root[id].is_frozen /\ ~root[id].is_finished
    BY <1>5 DEF CycleSold, HasCurrentCycle, IsOngoing, IsNft
  <2>2. kind \in {"Nft", "RepeatingNft"} /\ kind = root'[id].auction_config.token_config
    <3>1. kind \in TokenConfigs
      BY <2>1, RootFacts DEF RootState, AuctionConfig
    <3> QED
      BY <1>5, <2>1, <3>1 DEF CycleSold, IsNft, TokenConfigs
  <2>3. master' = IncrementedUri(id)
    BY <1>5 DEF CycleSold
  <2>4. CASE kind = "RepeatingNft"
    <3>1. master'[id] = master[id]
      BY <2>3, <2>4 DEF IncrementedUri
    <3> QED
      BY <2>1, <2>2, <2>4, <3>1 DEF MasterRight
  <2>5. CASE kind = "Nft"
    <3>1. master'[id] = IF IsLastAuctionCycle(root[id]) THEN 0 ELSE master[id] + 1
      BY <1>0, <2>3, <2>5 DEF IncrementedUri
    <3>2. master[id] = root[id].current_auction_cycle
      BY <2>1, <2>5 DEF MasterRight
    <3> QED
      BY <1>5, <2>2, <2>5, <3>1, <3>2 DEF CycleSold
  <2> QED
    BY <2>2, <2>4, <2>5
<1>6. ASSUME NEW n \in CycleNumbers, RewardDelivered(id, n)
      PROVE  master'[id] =
                        IF root'[id].auction_config.token_config = "RepeatingNft"
                           \/ root'[id].is_finished
                        THEN 0 ELSE root'[id].current_auction_cycle
  BY <1>6 DEF RewardDelivered, MasterRight, IsNft
<1>7. CASE CyclesGone(id)
  <2>1. root[id].is_finished
    BY <1>7, RootFacts DEF CyclesGone, IsOngoing
  <2>2. ~root[id].is_frozen
    BY <1>7 DEF CyclesGone
  <2> QED
    BY <1>7, <2>1, <2>2 DEF CyclesGone, RewardsUntouched, MasterRight, IsNft
<1>8. CASE RewardsKept(id)
  BY <1>3, <1>8 DEF RewardsKept, RewardsUntouched
<1>9. CASE AuctionGone(id)
  BY <1>9 DEF AuctionGone
<1> QED
  BY <1>1, <1>2, <1>4, <1>5, <1>6, <1>7, <1>8, <1>9, RewardEffect DEF ClockPositive

LEMMA MasterShowsCycleStep ==
    ASSUME ContractAssumption, AuctionAssumption, TypeInv, ClockPositive, MasterShowsCycle,
           [Next]_vars
    PROVE  MasterShowsCycle'
<1>1. \A id \in AuctionIds : MasterRight(id)
  BY DEF MasterShowsCycle, MasterRight
<1>2. ASSUME NEW id \in AuctionIds, root'[id] = root[id], master'[id] = master[id]
      PROVE  MasterRight(id)'
  BY <1>1, <1>2 DEF MasterRight, HasRoot, IsNft
<1>3. CASE UNCHANGED <<stateVars, rewardVars>>
  BY <1>2, <1>3 DEF stateVars, rewardVars, MasterShowsCycle, MasterRight
<1>4. ASSUME NEW id \in AuctionIds, AuctionStep(id) PROVE MasterShowsCycle'
  <2>1. MasterRight(id)'
    BY <1>1, <1>4, MasterRightStep
  <2>2. \A other \in AuctionIds \ {id} : MasterRight(other)'
    BY <1>2, <1>4, AuctionStepLocal, RewardsLocal
  <2> QED
    BY <2>1, <2>2 DEF MasterShowsCycle, MasterRight
<1> QED
  BY <1>3, <1>4, StepCases

(* The master of an NFT auction shows the cycle that is running, or 0 when *)
(* it repeats or is over, however long the auction runs.                   *)
THEOREM MasterShowsCycleInvariant == Spec => []MasterShowsCycle
<1>1. Init => MasterShowsCycle
  BY DEF Init, MasterShowsCycle, HasRoot
<1>2. TypeInv /\ ClockPositive /\ MasterShowsCycle /\ [Next]_vars => MasterShowsCycle'
  BY MasterShowsCycleStep, ContractAssumption, AuctionAssumption
<1> QED
  BY <1>1, <1>2, TypeInvariant, ClockPositiveInvariant, PTL DEF Spec

-----------------------------------------------------------------------------
(* What counts as claimed was delivered *)

ClaimedCycles(id) == {n \in ExistingCycles(id) : cycle[id][n].end_time = 0}
ClaimedBy(id, user) == {n \in ClaimedCycles(id) : Winner(id, n) = user}

Delivered(id) ==
    HasRoot(id) =>
        IF IsNft(id)
        THEN \A n \in ClaimedCycles(id) : children[id][n] = Winner(id, n)
        ELSE \A user \in Users : tokens[id][user] >= Cardinality(ClaimedBy(id, user))

LEMMA DeliveredAsProperty == ClaimedRewardsDelivered <=> \A id \in AuctionIds : Delivered(id)
BY DEF ClaimedRewardsDelivered, Delivered, ClaimedCycles, ClaimedBy

LEMMA CycleSetsFinite ==
    ASSUME AuctionAssumption, NEW S \in SUBSET CycleNumbers
    PROVE  IsFiniteSet(S) /\ Cardinality(S) \in Nat
<1>1. IsFiniteSet(CycleNumbers)
  BY FS_Interval DEF CycleNumbers, AuctionAssumption
<1> QED
  BY <1>1, FS_Subset, FS_CardinalityType

LEMMA SubsetSmaller ==
    ASSUME AuctionAssumption, NEW S \in SUBSET CycleNumbers, NEW T \in SUBSET S
    PROVE  Cardinality(T) <= Cardinality(S)
<1>1. IsFiniteSet(S)
  BY CycleSetsFinite
<1> QED
  BY <1>1, FS_Subset

(* Nothing is lost by a step that claims nothing. *)
LEMMA DeliveredKept ==
    ASSUME AuctionAssumption, TypeInv, NEW id \in AuctionIds, Delivered(id), HasRoot(id),
           root'[id].auction_config.token_config = root[id].auction_config.token_config,
           children' = children, tokens' = tokens,
           \A n \in CycleNumbers :
               cycle'[id][n] # NoAccount /\ cycle'[id][n].end_time = 0 =>
                   /\ cycle[id][n] # NoAccount /\ cycle[id][n].end_time = 0
                   /\ cycle'[id][n].bid_history = cycle[id][n].bid_history
    PROVE  Delivered(id)'
<1>1. \A n \in ClaimedCycles(id)' : n \in ClaimedCycles(id) /\ Winner(id, n)' = Winner(id, n)
  BY DEF ClaimedCycles, ExistingCycles, Winner, TopBid
<1>2. CASE IsNft(id)
  <2>1. \A n \in ClaimedCycles(id) : children[id][n] = Winner(id, n)
    BY <1>2 DEF Delivered
  <2>2. IsNft(id)'
    BY <1>2 DEF IsNft
  <2> QED
    BY <1>1, <2>1, <2>2 DEF Delivered
<1>3. CASE ~IsNft(id)
  <2> SUFFICES ASSUME NEW user \in Users
               PROVE  tokens[id][user] >= Cardinality(ClaimedBy(id, user)')
    BY <1>3 DEF Delivered, IsNft
  <2>1. ClaimedBy(id, user)' \subseteq ClaimedBy(id, user)
    BY <1>1 DEF ClaimedBy
  <2>2. ClaimedBy(id, user) \subseteq CycleNumbers
    BY DEF ClaimedBy, ClaimedCycles, ExistingCycles
  <2>3. /\ Cardinality(ClaimedBy(id, user)') <= Cardinality(ClaimedBy(id, user))
        /\ Cardinality(ClaimedBy(id, user)) \in Nat
        /\ Cardinality(ClaimedBy(id, user)') \in Nat
    BY <2>1, <2>2, SubsetSmaller, CycleSetsFinite
  <2>4. tokens[id][user] >= Cardinality(ClaimedBy(id, user)) /\ tokens[id][user] \in Nat
    BY <1>3 DEF Delivered, TypeInv, TypeOK
  <2> QED
    BY <2>3, <2>4
<1> QED
  BY <1>2, <1>3

LEMMA DeliveredAtBegin ==
    ASSUME AuctionAssumption, TypeInv, NEW id \in AuctionIds, CycleAccounts, AuctionBegun(id)
    PROVE  Delivered(id)'
<1>1. PICK c : CycleSet(id, 1, c) /\ c.end_time > 0
  BY DEF AuctionBegun
<1>2. \A n \in CycleNumbers : cycle[id][n] = NoAccount
  BY DEF CycleAccounts, AuctionBegun
<1>3. \A n \in CycleNumbers : cycle'[id][n] = IF n = 1 THEN c ELSE NoAccount
  BY <1>1, <1>2 DEF CycleSet, TypeInv, TypeOK
<1>4. ClaimedCycles(id)' = {}
  BY <1>1, <1>3 DEF ClaimedCycles, ExistingCycles
<1>5. CASE IsNft(id)'
  BY <1>4, <1>5 DEF Delivered
<1>6. CASE ~IsNft(id)'
  <2>1. \A user \in Users : ClaimedBy(id, user)' = {}
    BY <1>4 DEF ClaimedBy
  <2>2. \A user \in Users : tokens'[id][user] = 0
    BY <1>6 DEF AuctionBegun, IsNft, TypeInv, TypeOK
  <2>3. ASSUME NEW user \in Users
        PROVE  tokens'[id][user] >= Cardinality(ClaimedBy(id, user)')
    <3>1. Cardinality(ClaimedBy(id, user)') = 0
      BY <2>1, FS_EmptySet
    <3> QED
      BY <2>2, <3>1
  <2> QED
    BY <1>6, <2>3 DEF Delivered
<1> QED
  BY <1>5, <1>6

LEMMA DeliveredByClaim ==
    ASSUME AuctionAssumption, TypeInv, NEW id \in AuctionIds, NEW n \in CycleNumbers,
           Delivered(id), RewardDelivered(id, n)
    PROVE  Delivered(id)'
<1>1. PICK c : CycleSet(id, n, c) /\ c.bid_history = cycle[id][n].bid_history /\ c.end_time = 0
  BY DEF RewardDelivered
<1>2. \A m \in CycleNumbers : cycle'[id][m] = IF m = n THEN c ELSE cycle[id][m]
  BY <1>1 DEF CycleSet, TypeInv, TypeOK
<1>3. /\ HasRoot(id) /\ HasRoot(id)' /\ (IsNft(id)' <=> IsNft(id))
      /\ cycle[id][n] # NoAccount /\ cycle[id][n].end_time # 0
  BY DEF RewardDelivered, IsNft
<1>4. c # NoAccount
  BY <1>1 DEF CycleSet, AuctionAssumption
<1>5. ClaimedCycles(id)' = ClaimedCycles(id) \cup {n} /\ n \notin ClaimedCycles(id)
  BY <1>1, <1>2, <1>3, <1>4 DEF ClaimedCycles, ExistingCycles
<1>6. \A m \in CycleNumbers : Winner(id, m)' = Winner(id, m)
  BY <1>1, <1>2 DEF Winner, TopBid
<1>7. ClaimedCycles(id) \subseteq CycleNumbers
  BY DEF ClaimedCycles, ExistingCycles
<1>8. CASE IsNft(id)
  <2>1. children' = [children EXCEPT ![id][n] = Winner(id, n)]
    BY <1>8 DEF RewardDelivered
  <2>2. \A m \in CycleNumbers : children'[id][m] = IF m = n THEN Winner(id, n) ELSE children[id][m]
    BY <2>1 DEF TypeInv, TypeOK
  <2>3. \A m \in ClaimedCycles(id) : children[id][m] = Winner(id, m)
    BY <1>3, <1>8 DEF Delivered
  <2>4. \A m \in ClaimedCycles(id)' : children'[id][m] = Winner(id, m)'
    BY <1>5, <1>6, <1>7, <2>2, <2>3
  <2> QED
    BY <1>3, <1>8, <2>4 DEF Delivered
<1>9. CASE ~IsNft(id)
  <2> SUFFICES ASSUME NEW user \in Users
               PROVE  tokens'[id][user] >= Cardinality(ClaimedBy(id, user)')
    BY <1>3, <1>9 DEF Delivered
  <2>1. tokens' = [tokens EXCEPT ![id][Winner(id, n)] = @ + 1]
    BY <1>9 DEF RewardDelivered
  <2>2. tokens'[id][user] = IF user = Winner(id, n) THEN tokens[id][user] + 1 ELSE tokens[id][user]
    BY <2>1 DEF TypeInv, TypeOK
  <2>3. tokens[id][user] \in Nat /\ tokens[id][user] >= Cardinality(ClaimedBy(id, user))
    BY <1>3, <1>9 DEF Delivered, TypeInv, TypeOK
  <2>4. IsFiniteSet(ClaimedBy(id, user)) /\ Cardinality(ClaimedBy(id, user)) \in Nat
    BY <1>7, CycleSetsFinite DEF ClaimedBy
  <2>5. ClaimedBy(id, user)' = IF user = Winner(id, n) THEN ClaimedBy(id, user) \cup {n}
                                                       ELSE ClaimedBy(id, user)
    BY <1>5, <1>6, <1>7 DEF ClaimedBy
  <2>6. CASE user = Winner(id, n)
    <3>1. n \notin ClaimedBy(id, user)
      BY <1>5 DEF ClaimedBy
    <3>2. Cardinality(ClaimedBy(id, user)') = Cardinality(ClaimedBy(id, user)) + 1
      BY <2>4, <2>5, <2>6, <3>1, FS_AddElement
    <3> QED
      BY <2>2, <2>3, <2>4, <2>6, <3>2
  <2>7. CASE user # Winner(id, n)
    BY <2>2, <2>3, <2>5, <2>7
  <2> QED
    BY <2>6, <2>7
<1> QED
  BY <1>8, <1>9

LEMMA DeliveredStep ==
    ASSUME ContractAssumption, AuctionAssumption, TypeInv, CycleAccounts, ClockPositive,
           NEW id \in AuctionIds, AuctionStep(id), Delivered(id)
    PROVE  Delivered(id)'
<1> DEFINE k == root[id].current_auction_cycle
           Kept == \A n \in CycleNumbers :
               cycle'[id][n] # NoAccount /\ cycle'[id][n].end_time = 0 =>
                   /\ cycle[id][n] # NoAccount /\ cycle[id][n].end_time = 0
                   /\ cycle'[id][n].bid_history = cycle[id][n].bid_history
<1>0. HasRoot(id) => k \in CycleNumbers
  BY RootFacts
<1>1. ASSUME NEW n \in CycleNumbers, NEW c, CycleSet(id, n, c),
             c.end_time = 0 => /\ cycle[id][n] # NoAccount /\ cycle[id][n].end_time = 0
                               /\ c.bid_history = cycle[id][n].bid_history
      PROVE  Kept
  <2>1. \A m \in CycleNumbers : cycle'[id][m] = IF m = n THEN c ELSE cycle[id][m]
    BY <1>1 DEF CycleSet, TypeInv, TypeOK
  <2> QED
    BY <1>1, <2>1
<1>2. CASE AuctionBegun(id)
  BY <1>2, DeliveredAtBegin
<1>3. CASE BidTaken(id)
  <2>1. HasRoot(id) /\ root' = root /\ children' = children /\ tokens' = tokens
    BY <1>3 DEF BidTaken, HasCurrentCycle, RewardsUntouched
  <2>2. Kept
    <3>1. PICK c : CycleSet(id, k, c) /\ c.end_time > 0
      BY <1>3 DEF BidTaken
    <3> QED
      BY <1>0, <1>1, <2>1, <3>1
  <2> QED
    BY <2>1, <2>2, DeliveredKept
<1>4. CASE CycleExtended(id)
  <2>1. /\ HasRoot(id) /\ children' = children /\ tokens' = tokens
        /\ CurrentCycle(id) # NoAccount
        /\ root'[id].auction_config.token_config = root[id].auction_config.token_config
    BY <1>4 DEF CycleExtended, HasCurrentCycle, RewardsUntouched, SameState, TokenConfig
  <2>2. Kept
    <3>1. PICK c : /\ CycleSet(id, k, c) /\ c.bid_history = CurrentCycle(id).bid_history
                   /\ c.end_time = 0 => CurrentCycle(id).end_time = 0
      BY <1>4 DEF CycleExtended
    <3> QED
      BY <1>0, <1>1, <2>1, <3>1 DEF CurrentCycle
  <2> QED
    BY <2>1, <2>2, DeliveredKept
<1>5. CASE CycleSold(id)
  <2>1. /\ HasRoot(id) /\ children' = children /\ tokens' = tokens
        /\ root'[id].auction_config.token_config = root[id].auction_config.token_config
    BY <1>5 DEF CycleSold, HasCurrentCycle
  <2>2. Kept
    <3>1. CASE cycle' = cycle
      BY <3>1
    <3>2. CASE \E c : k + 1 \in CycleNumbers /\ CycleSet(id, k + 1, c) /\ c.end_time > 0
      BY <1>1, <3>2
    <3> QED
      BY <1>5, <3>1, <3>2 DEF CycleSold
  <2> QED
    BY <2>1, <2>2, DeliveredKept
<1>6. ASSUME NEW n \in CycleNumbers, RewardDelivered(id, n) PROVE Delivered(id)'
  BY <1>6, DeliveredByClaim
<1>7. CASE CyclesGone(id)
  <2>1. /\ HasRoot(id) /\ children' = children /\ tokens' = tokens
        /\ root'[id].auction_config.token_config = root[id].auction_config.token_config
    BY <1>7 DEF CyclesGone, RewardsUntouched
  <2>2. PICK left : cycle' = CyclesDownTo(id, left)
    BY <1>7 DEF CyclesGone
  <2>3. \A n \in CycleNumbers : cycle'[id][n] = NoAccount \/ cycle'[id][n] = cycle[id][n]
    BY <2>2 DEF CyclesDownTo, TypeInv, TypeOK
  <2>4. Kept
    BY <2>3
  <2> QED
    BY <2>1, <2>4, DeliveredKept
<1>8. CASE RewardsKept(id)
  <2>1. CASE HasRoot(id)
    <3>1. /\ children' = children /\ tokens' = tokens /\ cycle' = cycle
          /\ root'[id].auction_config.token_config = root[id].auction_config.token_config
      BY <1>8, <2>1 DEF RewardsKept, RewardsUntouched, SameState, TokenConfig
    <3> QED
      BY <2>1, <3>1, DeliveredKept
  <2>2. CASE ~HasRoot(id)
    BY <1>8, <2>2 DEF RewardsKept, SameState, Delivered
  <2> QED
    BY <2>1, <2>2
<1>9. CASE AuctionGone(id)
  BY <1>9 DEF AuctionGone, Delivered
<1> QED
  BY <1>2, <1>3, <1>4, <1>5, <1>6, <1>7, <1>8, <1>9, RewardEffect DEF ClockPositive

LEMMA ClaimedRewardsDeliveredStep ==
    ASSUME ContractAssumption, AuctionAssumption, TypeInv, CycleAccounts, ClockPositive,
           \A id \in AuctionIds : Delivered(id), [Next]_vars
    PROVE  \A id \in AuctionIds : Delivered(id)'
<1>1. ASSUME NEW id \in AuctionIds, root'[id] = root[id], cycle'[id] = cycle[id],
             children'[id] = children[id], tokens'[id] = tokens[id]
      PROVE  Delivered(id)'
  <2>1. ClaimedCycles(id)' = ClaimedCycles(id)
    BY <1>1 DEF ClaimedCycles, ExistingCycles
  <2>2. \A n : Winner(id, n)' = Winner(id, n)
    BY <1>1 DEF Winner, TopBid
  <2>3. \A user : ClaimedBy(id, user)' = ClaimedBy(id, user)
    BY <2>1, <2>2 DEF ClaimedBy
  <2> QED
    BY <1>1, <2>1, <2>2, <2>3 DEF Delivered, HasRoot, IsNft
<1>2. CASE UNCHANGED <<stateVars, rewardVars>>
  BY <1>1, <1>2 DEF stateVars, rewardVars
<1>3. ASSUME NEW id \in AuctionIds, AuctionStep(id)
      PROVE  \A other \in AuctionIds : Delivered(other)'
  <2>1. Delivered(id)'
    BY <1>3, DeliveredStep
  <2>2. \A other \in AuctionIds \ {id} : Delivered(other)'
    BY <1>1, <1>3, AuctionStepLocal, RewardsLocal
  <2> QED
    BY <2>1, <2>2
<1> QED
  BY <1>2, <1>3, StepCases

(* A reward that counts as claimed was delivered to the winner of its      *)
(* cycle, also when the cycle was claimed before it was closed, or had its *)
(* winner change after an early claim.                                     *)
THEOREM ClaimedRewardsDeliveredInvariant == Spec => []ClaimedRewardsDelivered
<1> DEFINE AllDelivered == \A id \in AuctionIds : Delivered(id)
<1>1. Init => AllDelivered
  BY DEF Init, Delivered, HasRoot
<1>2. TypeInv /\ CycleAccounts /\ ClockPositive /\ AllDelivered /\ [Next]_vars => AllDelivered'
  BY ClaimedRewardsDeliveredStep, ContractAssumption, AuctionAssumption
<1>3. AllDelivered => ClaimedRewardsDelivered
  BY DeliveredAsProperty
<1> HIDE DEF AllDelivered
<1> QED
  BY <1>1, <1>2, <1>3, TypeInvariant, CycleAccountsInvariant, ClockPositiveInvariant, PTL DEF Spec

-----------------------------------------------------------------------------
(* The counter *)

(* The reward of the cycle that is still open was claimed: when the cycle  *)
(* is closed the counter will grow, but what can be claimed will not.      *)
ClaimedEarly(id) ==
    /\ IsOngoing(root[id]) /\ HasBid(CurrentCycle(id))
    /\ \/ CurrentCycle(id).end_time = 0
       \/ IsNft(id) /\ children[id][root[id].current_auction_cycle] # NoAccount

EarlyClaims(id) == IF ClaimedEarly(id) THEN 1 ELSE 0

(* The counter leaves room for an early claim. *)
CounterRight(id) ==
    HasRoot(id) => root[id].unclaimed_rewards + EarlyClaims(id) <= Cardinality(PayableRewards(id))

(* No child was minted for a cycle that has not got a bid yet. *)
ChildrenRight(id) ==
    /\ master[id] = NoAccount => \A n \in CycleNumbers : children[id][n] = NoAccount
    /\ HasRoot(id) /\ IsNft(id) /\ IsOngoing(root[id]) =>
           \A n \in CycleNumbers : children[id][n] # NoAccount =>
               n <= root[id].current_auction_cycle /\ HasBid(cycle[id][n])

LEMMA ChildrenRightStep ==
    ASSUME ContractAssumption, AuctionAssumption, TypeInv, CycleAccounts, ClockPositive,
           NEW id \in AuctionIds, AuctionStep(id), ChildrenRight(id)
    PROVE  ChildrenRight(id)'
<1> DEFINE k == root[id].current_auction_cycle
<1>0. /\ HasRoot(id) => k \in CycleNumbers /\ k \in Nat
      /\ master \in [AuctionIds -> Nat \cup {NoAccount}]
      /\ cycle \in [AuctionIds -> [CycleNumbers -> CycleState \cup {NoAccount}]]
      /\ CycleNumbers \subseteq Nat /\ NoAccount \notin Nat
      /\ children \in [AuctionIds -> [CycleNumbers -> Users \cup {NoAccount}]]
  BY RootFacts DEF TypeInv, TypeOK, CycleNumbers, ContractAssumption
<1>1. CASE AuctionBegun(id)
  <2>1. HasRoot(id)' /\ children' = children
    BY <1>1 DEF AuctionBegun
  <2>2. CASE IsNft(id)'
    <3>1. master[id] = NoAccount /\ master'[id] \in Nat
      BY <1>0, <1>1, <2>2 DEF AuctionBegun, IsNft
    <3>2. \A n \in CycleNumbers : children[id][n] = NoAccount
      BY <3>1 DEF ChildrenRight
    <3> QED
      BY <2>1, <3>2 DEF ChildrenRight
  <2>3. CASE ~IsNft(id)'
    <3>1. master' = master
      BY <1>1, <2>3 DEF AuctionBegun, IsNft
    <3> QED
      BY <2>1, <2>3, <3>1 DEF ChildrenRight
  <2> QED
    BY <2>2, <2>3
<1>2. CASE BidTaken(id)
  <2>1. PICK c : CycleSet(id, k, c) /\ HasBid(c)
    BY <1>2 DEF BidTaken
  <2>2. HasRoot(id) /\ root' = root /\ RewardsUntouched
    BY <1>2 DEF BidTaken, HasCurrentCycle
  <2>3. \A n \in CycleNumbers : cycle'[id][n] = IF n = k THEN c ELSE cycle[id][n]
    BY <1>0, <2>1, <2>2 DEF CycleSet
  <2>4. \A n \in CycleNumbers : HasBid(cycle[id][n]) => HasBid(cycle'[id][n])
    BY <2>1, <2>3
  <2> QED
    BY <2>2, <2>4 DEF ChildrenRight, RewardsUntouched, HasRoot, IsNft, IsOngoing
<1>3. ASSUME SameState(id), RewardsUntouched,
             \A n \in CycleNumbers : HasBid(cycle[id][n]) => HasBid(cycle'[id][n])
      PROVE  ChildrenRight(id)'
  BY <1>3 DEF ChildrenRight, SameState, RewardsUntouched, TokenConfig, IsNft, IsOngoing
<1>4. CASE CycleExtended(id)
  <2>1. PICK c : CycleSet(id, k, c) /\ c.bid_history = CurrentCycle(id).bid_history
    BY <1>4 DEF CycleExtended
  <2>2. HasRoot(id)
    BY <1>4 DEF CycleExtended, HasCurrentCycle
  <2>3. \A n \in CycleNumbers : cycle'[id][n] = IF n = k THEN c ELSE cycle[id][n]
    BY <1>0, <2>1, <2>2 DEF CycleSet
  <2>4. \A n \in CycleNumbers : HasBid(cycle[id][n]) => HasBid(cycle'[id][n])
    BY <2>1, <2>3 DEF HasBid, CurrentCycle
  <2> QED
    BY <1>3, <1>4, <2>4 DEF CycleExtended
<1>5. CASE CycleSold(id)
  <2>1. HasRoot(id) /\ IsOngoing(root[id]) /\ children' = children
        /\ (IsNft(id)' <=> IsNft(id))
    BY <1>5 DEF CycleSold, HasCurrentCycle, IsNft
  <2>2. master'[id] = NoAccount => master[id] = NoAccount
    BY <1>5, <2>1, IncrementedUriType DEF CycleSold
  <2>3. CASE root'[id].is_finished
    BY <2>1, <2>2, <2>3 DEF ChildrenRight, IsOngoing
  <2>4. CASE ~root'[id].is_finished
    <3>1. PICK c : k + 1 \in CycleNumbers /\ CycleSet(id, k + 1, c)
      BY <1>5, <2>4 DEF CycleSold
    <3>2. root'[id].current_auction_cycle = k + 1
      BY <1>5, <2>4 DEF CycleSold
    <3>3. \A n \in CycleNumbers : n <= k => cycle'[id][n] = cycle[id][n] /\ n <= k + 1
      <4>1. \A n \in CycleNumbers : cycle'[id][n] = IF n = k + 1 THEN c ELSE cycle[id][n]
        BY <1>0, <3>1 DEF CycleSet
      <4>2. k \in Nat /\ CycleNumbers \subseteq Nat
        BY <1>0, <2>1
      <4> HIDE DEF k
      <4>3. \A n \in CycleNumbers : n <= k => n # k + 1 /\ n <= k + 1
        <5>1. \A n \in Nat : n <= k => n # k + 1 /\ n <= k + 1
          BY <4>2
        <5> QED
          BY <4>2, <5>1
      <4> QED
        BY <4>1, <4>3
    <3> QED
      BY <2>1, <2>2, <3>2, <3>3 DEF ChildrenRight, HasBid
  <2> QED
    BY <2>3, <2>4
<1>6. ASSUME NEW n \in CycleNumbers, RewardDelivered(id, n) PROVE ChildrenRight(id)'
  <2>1. PICK c : CycleSet(id, n, c) /\ c.bid_history = cycle[id][n].bid_history
    BY <1>6 DEF RewardDelivered
  <2>2. \A m \in CycleNumbers : cycle'[id][m] = IF m = n THEN c ELSE cycle[id][m]
    BY <1>0, <2>1 DEF CycleSet
  <2>3. \A m \in CycleNumbers : HasBid(cycle[id][m]) => HasBid(cycle'[id][m])
    BY <2>1, <2>2 DEF HasBid
  <2>4. /\ HasRoot(id) /\ HasBid(cycle[id][n]) /\ n <= k /\ master' = master
        /\ root'[id].current_auction_cycle = k
        /\ (IsNft(id)' <=> IsNft(id)) /\ (IsOngoing(root'[id]) <=> IsOngoing(root[id]))
    BY <1>6 DEF RewardDelivered, CycleAccounts, IsNft, IsOngoing
  <2>5. CASE IsNft(id)
    <3>1. \A m \in CycleNumbers : m # n => children'[id][m] = children[id][m]
      BY <1>0, <1>6, <2>5 DEF RewardDelivered
    <3>2. master[id] # NoAccount
      BY <2>4, <2>5 DEF TypeInv, MastersExist
    <3> QED
      BY <2>3, <2>4, <3>1, <3>2 DEF ChildrenRight
  <2>6. CASE ~IsNft(id)
    <3>1. children' = children
      BY <1>6, <2>6 DEF RewardDelivered
    <3> QED
      BY <2>4, <2>6, <3>1 DEF ChildrenRight
  <2> QED
    BY <2>5, <2>6
<1>7. CASE CyclesGone(id)
  <2>1. ~IsOngoing(root'[id])
    BY <1>7 DEF CyclesGone, IsOngoing
  <2> QED
    BY <1>7, <2>1 DEF CyclesGone, RewardsUntouched, ChildrenRight
<1>8. CASE RewardsKept(id)
  BY <1>3, <1>8 DEF RewardsKept
<1>9. CASE AuctionGone(id)
  BY <1>9 DEF AuctionGone, RewardsUntouched, ChildrenRight
<1> QED
  BY <1>1, <1>2, <1>4, <1>5, <1>6, <1>7, <1>8, <1>9, RewardEffect DEF ClockPositive

LEMMA PayableRewardsFinite ==
    ASSUME AuctionAssumption, NEW id \in AuctionIds
    PROVE  /\ PayableRewards(id) \in SUBSET CycleNumbers
           /\ IsFiniteSet(PayableRewards(id)) /\ Cardinality(PayableRewards(id)) \in Nat
           /\ PayableRewards(id)' \in SUBSET CycleNumbers
           /\ IsFiniteSet(PayableRewards(id)') /\ Cardinality(PayableRewards(id)') \in Nat
<1>1. PayableRewards(id) \in SUBSET CycleNumbers /\ PayableRewards(id)' \in SUBSET CycleNumbers
  BY DEF PayableRewards, ClosedCycles, ExistingCycles
<1> QED
  BY <1>1, CycleSetsFinite

LEMMA EarlyClaimsCount ==
    ASSUME NEW id
    PROVE  EarlyClaims(id) \in {0, 1} /\ EarlyClaims(id)' \in {0, 1}
BY DEF EarlyClaims

(* A step that leaves the counter alone, makes no early claim and takes no *)
(* reward away keeps the counter right.                                    *)
LEMMA CounterKept ==
    ASSUME AuctionAssumption, TypeInv, NEW id \in AuctionIds, HasRoot(id), CounterRight(id),
           root'[id].unclaimed_rewards = root[id].unclaimed_rewards,
           ClaimedEarly(id)' => ClaimedEarly(id),
           PayableRewards(id) \subseteq PayableRewards(id)'
    PROVE  CounterRight(id)'
<1>1. Cardinality(PayableRewards(id)) <= Cardinality(PayableRewards(id)')
  BY PayableRewardsFinite, SubsetSmaller
<1>2. EarlyClaims(id)' <= EarlyClaims(id)
  BY DEF EarlyClaims
<1>3. root[id].unclaimed_rewards + EarlyClaims(id) <= Cardinality(PayableRewards(id))
  BY DEF CounterRight
<1>4. root'[id].unclaimed_rewards + EarlyClaims(id)' <= Cardinality(PayableRewards(id)')
  BY <1>1, <1>2, <1>3, PayableRewardsFinite, EarlyClaimsCount, RootFacts
<1> QED
  BY <1>4 DEF CounterRight

(* A new cycle without bids has not been claimed. *)
LEMMA NewCycleUnclaimed ==
    ASSUME NEW id \in AuctionIds, cycle'[id][root'[id].current_auction_cycle].bid_history = <<>>
    PROVE  EarlyClaims(id)' = 0
BY DEF EarlyClaims, ClaimedEarly, CurrentCycle, HasBid

LEMMA CounterAtBegin ==
    ASSUME AuctionAssumption, TypeInv, NEW id \in AuctionIds, AuctionBegun(id)
    PROVE  CounterRight(id)'
<1>1. PICK c : CycleSet(id, 1, c) /\ c.bid_history = <<>>
  BY DEF AuctionBegun
<1>2. /\ root'[id].current_auction_cycle = 1 /\ root'[id].unclaimed_rewards = 0
      /\ 1 \in CycleNumbers
  BY DEF AuctionBegun, CycleNumbers, AuctionAssumption
<1>3. cycle'[id][1] = c
  BY <1>1, <1>2 DEF CycleSet, TypeInv, TypeOK
<1>4. EarlyClaims(id)' = 0
  BY <1>1, <1>2, <1>3, NewCycleUnclaimed
<1> QED
  BY <1>2, <1>4, PayableRewardsFinite DEF CounterRight

LEMMA CounterAfterBid ==
    ASSUME AuctionAssumption, TypeInv, NEW id \in AuctionIds, BidTaken(id),
           ChildrenRight(id), CounterRight(id)
    PROVE  CounterRight(id)'
<1> DEFINE k == root[id].current_auction_cycle
<1>1. HasRoot(id) /\ IsOngoing(root[id]) /\ root' = root /\ children' = children
  BY DEF BidTaken, HasCurrentCycle, RewardsUntouched
<1>2. PICK c : CycleSet(id, k, c) /\ HasBid(c) /\ c.end_time > 0
  BY DEF BidTaken
<1>3. k \in Nat /\ k \in CycleNumbers
  BY <1>1, RootFacts
<1>4. \A n \in CycleNumbers : cycle'[id][n] = IF n = k THEN c ELSE cycle[id][n]
  BY <1>2, <1>3 DEF CycleSet, TypeInv, TypeOK
<1>5. PayableRewards(id) \subseteq PayableRewards(id)'
  <2>1. \A n \in PayableRewards(id) : n # k
    BY <1>1, <1>3 DEF PayableRewards, ClosedCycles
  <2> QED
    BY <1>1, <1>4, <2>1 DEF PayableRewards, ClosedCycles, ExistingCycles, IsNft
<1>6. ClaimedEarly(id)' => ClaimedEarly(id)
  <2> SUFFICES ASSUME ClaimedEarly(id)' PROVE ClaimedEarly(id)
    OBVIOUS
  <2>1. CurrentCycle(id)' = c
    BY <1>1, <1>3, <1>4 DEF CurrentCycle
  <2>2. c.end_time # 0
    <3>1. c.end_time \in Nat
      BY <1>2 DEF CycleSet, CycleState
    <3> QED
      BY <1>2, <3>1
  <2>3. IsNft(id) /\ children[id][k] # NoAccount
    BY <1>1, <2>1, <2>2 DEF ClaimedEarly, IsNft
  <2>4. HasBid(CurrentCycle(id))
    BY <1>1, <1>3, <2>3 DEF ChildrenRight, CurrentCycle
  <2> QED
    BY <1>1, <2>3, <2>4 DEF ClaimedEarly
<1> QED
  BY <1>1, <1>5, <1>6, CounterKept

LEMMA CounterAfterExtension ==
    ASSUME AuctionAssumption, TypeInv, NEW id \in AuctionIds, CycleExtended(id), CounterRight(id)
    PROVE  CounterRight(id)'
<1> DEFINE k == root[id].current_auction_cycle
<1>1. /\ HasRoot(id) /\ IsOngoing(root[id]) /\ SameState(id) /\ children' = children
      /\ ~HasBid(CurrentCycle(id))
  BY DEF CycleExtended, HasCurrentCycle, RewardsUntouched
<1>2. PICK c : CycleSet(id, k, c) /\ c.bid_history = CurrentCycle(id).bid_history
  BY DEF CycleExtended
<1>3. k \in Nat /\ k \in CycleNumbers
  BY <1>1, RootFacts
<1>4. \A n \in CycleNumbers : cycle'[id][n] = IF n = k THEN c ELSE cycle[id][n]
  BY <1>2, <1>3 DEF CycleSet, TypeInv, TypeOK
<1>5. /\ root'[id].current_auction_cycle = k
      /\ root'[id].unclaimed_rewards = root[id].unclaimed_rewards
      /\ IsOngoing(root'[id]) /\ (IsNft(id)' <=> IsNft(id))
  BY <1>1 DEF SameState, IsOngoing, IsNft, TokenConfig
<1>6. PayableRewards(id) \subseteq PayableRewards(id)'
  <2>1. \A n \in PayableRewards(id) : n # k
    BY <1>1, <1>3 DEF PayableRewards, ClosedCycles
  <2> QED
    BY <1>1, <1>4, <1>5, <2>1 DEF PayableRewards, ClosedCycles, ExistingCycles
<1>7. ~ClaimedEarly(id)'
  BY <1>1, <1>2, <1>3, <1>4, <1>5 DEF ClaimedEarly, CurrentCycle, HasBid
<1> QED
  BY <1>1, <1>5, <1>6, <1>7, CounterKept

LEMMA CounterAfterSale ==
    ASSUME AuctionAssumption, TypeInv, NEW id \in AuctionIds, CycleSold(id), CounterRight(id)
    PROVE  CounterRight(id)'
<1> DEFINE k == root[id].current_auction_cycle
<1>1. /\ HasRoot(id) /\ CurrentCycle(id) # NoAccount /\ IsOngoing(root[id])
      /\ HasBid(CurrentCycle(id)) /\ children' = children
      /\ (IsNft(id)' <=> IsNft(id))
      /\ root'[id].unclaimed_rewards = root[id].unclaimed_rewards + 1
  BY DEF CycleSold, HasCurrentCycle, IsNft
<1>2. k \in Nat /\ k \in CycleNumbers /\ CycleNumbers \subseteq Nat
  BY <1>1, RootFacts DEF CycleNumbers
<1>3. /\ EarlyClaims(id)' = 0
      /\ \A n \in CycleNumbers : n <= k => cycle'[id][n] = cycle[id][n]
      /\ \A n \in CycleNumbers : n <= k =>
             (IsOngoing(root'[id]) => n < root'[id].current_auction_cycle)
  <2>1. CASE root'[id].is_finished
    <3>1. cycle' = cycle /\ ~IsOngoing(root'[id])
      BY <2>1 DEF CycleSold, IsOngoing
    <3> QED
      BY <3>1 DEF EarlyClaims, ClaimedEarly
  <2>2. CASE ~root'[id].is_finished
    <3>1. PICK c : k + 1 \in CycleNumbers /\ CycleSet(id, k + 1, c) /\ c.bid_history = <<>>
      BY <2>2 DEF CycleSold
    <3>2. root'[id].current_auction_cycle = k + 1
      BY <2>2 DEF CycleSold
    <3>3. \A n \in CycleNumbers : cycle'[id][n] = IF n = k + 1 THEN c ELSE cycle[id][n]
      BY <3>1 DEF CycleSet, TypeInv, TypeOK
    <3>4. EarlyClaims(id)' = 0
      BY <3>1, <3>2, <3>3, NewCycleUnclaimed
    <3> HIDE DEF k
    <3>5. \A n \in CycleNumbers : n <= k => n # k + 1 /\ n < k + 1
      <4>1. \A n \in Nat : n <= k => n # k + 1 /\ n < k + 1
        BY <1>2
      <4> QED
        BY <1>2, <4>1
    <3> QED
      BY <3>2, <3>3, <3>4, <3>5
  <2> QED
    BY <2>1, <2>2
<1> HIDE DEF k
<1>4. \A n \in PayableRewards(id) : n < k /\ n <= k
  <2>1. \A n \in PayableRewards(id) : n < k /\ n \in Nat
    BY <1>1, <1>2 DEF PayableRewards, ClosedCycles, ExistingCycles, k
  <2> QED
    BY <1>2, <2>1
<1>5. PayableRewards(id) \subseteq PayableRewards(id)'
  BY <1>1, <1>3, <1>4 DEF PayableRewards, ClosedCycles, ExistingCycles
<1>6. root[id].unclaimed_rewards + 1 <= Cardinality(PayableRewards(id)')
  <2>1. /\ root[id].unclaimed_rewards + EarlyClaims(id) <= Cardinality(PayableRewards(id))
        /\ Cardinality(PayableRewards(id)) <= Cardinality(PayableRewards(id)')
    BY <1>1, <1>5, PayableRewardsFinite, SubsetSmaller DEF CounterRight
  <2>2. CASE ClaimedEarly(id)
    BY <1>1, <2>1, <2>2, PayableRewardsFinite, RootFacts DEF EarlyClaims
  <2>3. CASE ~ClaimedEarly(id)
    <3>1. k \in PayableRewards(id)'
      BY <1>1, <1>2, <1>3, <2>3
         DEF PayableRewards, ClosedCycles, ExistingCycles, ClaimedEarly, CurrentCycle, k
    <3>2. k \notin PayableRewards(id)
      BY <1>2, <1>4
    <3>3. PayableRewards(id) \cup {k} \in SUBSET (PayableRewards(id)')
      BY <1>5, <3>1
    <3>4. Cardinality(PayableRewards(id) \cup {k}) = Cardinality(PayableRewards(id)) + 1
      BY <3>2, PayableRewardsFinite, FS_AddElement
    <3>5. Cardinality(PayableRewards(id) \cup {k}) <= Cardinality(PayableRewards(id)')
      BY <3>3, PayableRewardsFinite, SubsetSmaller
    <3>6. EarlyClaims(id) = 0
      BY <2>3 DEF EarlyClaims
    <3> QED
      BY <1>1, <2>1, <3>4, <3>5, <3>6, PayableRewardsFinite, RootFacts
  <2> QED
    BY <2>2, <2>3
<1>7. root'[id].unclaimed_rewards + EarlyClaims(id)' = root[id].unclaimed_rewards + 1
  BY <1>1, <1>3, RootFacts
<1> QED
  BY <1>6, <1>7 DEF CounterRight

LEMMA CounterAfterClaim ==
    ASSUME AuctionAssumption, TypeInv, CycleAccounts, NEW id \in AuctionIds,
           NEW n \in CycleNumbers, RewardDelivered(id, n), CounterRight(id)
    PROVE  CounterRight(id)'
<1> DEFINE k == root[id].current_auction_cycle
           u == root[id].unclaimed_rewards
<1>1. /\ HasRoot(id) /\ cycle[id][n] # NoAccount /\ cycle[id][n].end_time # 0
      /\ HasBid(cycle[id][n]) /\ (IsNft(id)' <=> IsNft(id))
      /\ root'[id].current_auction_cycle = k
      /\ (IsOngoing(root'[id]) <=> IsOngoing(root[id]))
      /\ root'[id].unclaimed_rewards = u - 1 /\ u > 0
  BY DEF RewardDelivered, IsNft, IsOngoing
<1>2. k \in Nat /\ k \in CycleNumbers /\ u \in Nat /\ n \in Nat /\ n <= k
  BY <1>1, RootFacts DEF CycleNumbers, CycleAccounts
<1>3. IsNft(id) => children[id][n] = NoAccount
  BY DEF RewardDelivered
<1>4. \A m \in CycleNumbers \ {n} :
          cycle'[id][m] = cycle[id][m] /\ (IsNft(id) => children'[id][m] = children[id][m])
  BY DEF RewardDelivered, CycleSet, TypeInv, TypeOK
<1>5. PayableRewards(id) \ {n} \subseteq PayableRewards(id)'
  BY <1>1, <1>4 DEF PayableRewards, ClosedCycles, ExistingCycles
<1>6. u + EarlyClaims(id) <= Cardinality(PayableRewards(id))
  BY <1>1 DEF CounterRight
<1>7. (u - 1) + EarlyClaims(id)' <= Cardinality(PayableRewards(id)')
  <2>1. CASE IsOngoing(root[id]) /\ n = k
    <3>1. n \notin PayableRewards(id)
      BY <1>2, <2>1 DEF PayableRewards, ClosedCycles
    <3>2. PayableRewards(id) \in SUBSET (PayableRewards(id)')
      BY <1>5, <3>1
    <3>3. Cardinality(PayableRewards(id)) <= Cardinality(PayableRewards(id)')
      BY <3>2, PayableRewardsFinite, SubsetSmaller
    <3>4. EarlyClaims(id) = 0
      BY <1>1, <1>3, <2>1 DEF EarlyClaims, ClaimedEarly, CurrentCycle
    <3> HIDE DEF u
    <3> QED
      BY <1>2, <1>6, <3>3, <3>4, PayableRewardsFinite, EarlyClaimsCount
  <2>2. CASE ~(IsOngoing(root[id]) /\ n = k)
    <3>1. n \in PayableRewards(id)
      <4>1. IsOngoing(root[id]) => n < k
        <5> HIDE DEF k
        <5> QED
          BY <1>2, <2>2
      <4> QED
        BY <1>1, <1>3, <4>1 DEF PayableRewards, ClosedCycles, ExistingCycles
    <3>2. Cardinality(PayableRewards(id) \ {n}) = Cardinality(PayableRewards(id)) - 1
      BY <3>1, PayableRewardsFinite, FS_RemoveElement
    <3>3. Cardinality(PayableRewards(id) \ {n}) <= Cardinality(PayableRewards(id)')
      BY <1>5, PayableRewardsFinite, SubsetSmaller
    <3>4. EarlyClaims(id)' = EarlyClaims(id)
      <4>1. IsOngoing(root[id]) => k \in CycleNumbers \ {n}
        BY <1>2, <2>2
      <4>2. IsOngoing(root[id]) => /\ CurrentCycle(id)' = CurrentCycle(id)
                                   /\ IsNft(id) => children'[id][k] = children[id][k]
        BY <1>1, <1>4, <4>1 DEF CurrentCycle
      <4>3. ClaimedEarly(id)' <=> ClaimedEarly(id)
        BY <1>1, <4>2 DEF ClaimedEarly
      <4> QED
        BY <4>3 DEF EarlyClaims
    <3> HIDE DEF u
    <3>5. Cardinality(PayableRewards(id)) - 1 <= Cardinality(PayableRewards(id)')
      BY <3>2, <3>3
    <3> QED
      BY <1>2, <1>6, <3>4, <3>5, PayableRewardsFinite, EarlyClaimsCount
  <2> QED
    BY <2>1, <2>2
<1> QED
  BY <1>1, <1>7 DEF CounterRight

LEMMA CounterRightStep ==
    ASSUME ContractAssumption, AuctionAssumption, TypeInv, CycleAccounts, ClockPositive,
           NEW id \in AuctionIds, AuctionStep(id), ChildrenRight(id), CounterRight(id)
    PROVE  CounterRight(id)'
<1>1. CASE CyclesGone(id)
  <2>1. root'[id].unclaimed_rewards = 0 /\ EarlyClaims(id)' = 0
    BY <1>1 DEF CyclesGone, EarlyClaims, ClaimedEarly, IsOngoing
  <2> QED
    BY <2>1, PayableRewardsFinite DEF CounterRight
<1>2. CASE RewardsKept(id)
  <2>1. CASE HasRoot(id)
    <3>1. /\ root'[id].unclaimed_rewards = root[id].unclaimed_rewards
          /\ root'[id].current_auction_cycle = root[id].current_auction_cycle
          /\ (IsOngoing(root'[id]) <=> IsOngoing(root[id]))
          /\ (IsNft(id)' <=> IsNft(id)) /\ cycle' = cycle /\ children' = children
      BY <1>2, <2>1
         DEF RewardsKept, SameState, RewardsUntouched, IsOngoing, IsNft, TokenConfig
    <3>2. ClaimedEarly(id)' => ClaimedEarly(id)
      BY <3>1 DEF ClaimedEarly, CurrentCycle
    <3>3. PayableRewards(id) \subseteq PayableRewards(id)'
      BY <3>1 DEF PayableRewards, ClosedCycles, ExistingCycles
    <3> QED
      BY <2>1, <3>1, <3>2, <3>3, CounterKept
  <2>2. CASE ~HasRoot(id)
    BY <1>2, <2>2 DEF RewardsKept, SameState, CounterRight
  <2> QED
    BY <2>1, <2>2
<1>3. CASE AuctionGone(id)
  BY <1>3 DEF AuctionGone, CounterRight
<1> QED
  BY <1>1, <1>2, <1>3, CounterAtBegin, CounterAfterBid, CounterAfterExtension,
     CounterAfterSale, CounterAfterClaim, RewardEffect DEF ClockPositive

LEMMA CountersRightStep ==
    ASSUME ContractAssumption, AuctionAssumption, TypeInv, CycleAccounts, ClockPositive,
           \A id \in AuctionIds : ChildrenRight(id) /\ CounterRight(id), [Next]_vars
    PROVE  \A id \in AuctionIds : ChildrenRight(id)' /\ CounterRight(id)'
<1>1. ASSUME NEW id \in AuctionIds, root'[id] = root[id], cycle'[id] = cycle[id],
             children'[id] = children[id], master'[id] = master[id]
      PROVE  ChildrenRight(id)' /\ CounterRight(id)'
  <2>1. ChildrenRight(id)'
    BY <1>1 DEF ChildrenRight, HasRoot, IsNft
  <2>2. PayableRewards(id)' = PayableRewards(id)
    BY <1>1 DEF PayableRewards, ClosedCycles, ExistingCycles, IsNft
  <2>3. EarlyClaims(id)' = EarlyClaims(id)
    BY <1>1 DEF EarlyClaims, ClaimedEarly, CurrentCycle, IsNft
  <2> QED
    BY <1>1, <2>1, <2>2, <2>3 DEF CounterRight, HasRoot
<1>2. CASE UNCHANGED <<stateVars, rewardVars>>
  BY <1>1, <1>2 DEF stateVars, rewardVars
<1>3. ASSUME NEW id \in AuctionIds, AuctionStep(id)
      PROVE  \A other \in AuctionIds : ChildrenRight(other)' /\ CounterRight(other)'
  <2>1. ChildrenRight(id)' /\ CounterRight(id)'
    BY <1>3, ChildrenRightStep, CounterRightStep
  <2>2. \A other \in AuctionIds \ {id} : ChildrenRight(other)' /\ CounterRight(other)'
    BY <1>1, <1>3, AuctionStepLocal, RewardsLocal
  <2> QED
    BY <2>1, <2>2
<1> QED
  BY <1>2, <1>3, StepCases

(* The counter of unclaimed rewards never promises more than can be        *)
(* claimed.  That needs more than the counter itself: a reward that was    *)
(* claimed before its cycle was closed makes room in advance for the count *)
(* that closing the cycle adds.                                            *)
THEOREM CounterPayableInvariant == Spec => []CounterPayable
<1> DEFINE AllRight == \A id \in AuctionIds : ChildrenRight(id) /\ CounterRight(id)
<1>1. Init => AllRight
  BY DEF Init, ChildrenRight, CounterRight, HasRoot
<1>2. TypeInv /\ CycleAccounts /\ ClockPositive /\ AllRight /\ [Next]_vars => AllRight'
  BY CountersRightStep, ContractAssumption, AuctionAssumption
<1>3. TypeInv /\ AllRight => CounterPayable
  <2> SUFFICES ASSUME TypeInv, AllRight, NEW id \in AuctionIds, HasRoot(id)
               PROVE  root[id].unclaimed_rewards <= Cardinality(PayableRewards(id))
    BY DEF CounterPayable
  <2>1. root[id].unclaimed_rewards + EarlyClaims(id) <= Cardinality(PayableRewards(id))
    BY DEF CounterRight
  <2> QED
    BY <2>1, RootFacts, PayableRewardsFinite, EarlyClaimsCount, AuctionAssumption
<1> HIDE DEF AllRight
<1> QED
  BY <1>1, <1>2, <1>3, TypeInvariant, CycleAccountsInvariant, ClockPositiveInvariant, PTL DEF Spec

=============================================================================
