------------------------------ MODULE BotProofs ------------------------------
(***************************************************************************)
(* Proofs about the closing bot beside the chain: each of its steps finds  *)
(* the data it uses whatever the chain does meanwhile, and its duplicate   *)
(* transactions never extend a cycle by more than a period.                *)
(*                                                                         *)
(* The chain sees of the bot only the transactions that land and the       *)
(* balance it tops up (ChainStep).  The bot sees of the chain only the     *)
(* accounts it reads, so its own state is followed step by step.           *)
(***************************************************************************)
EXTENDS BotProperties, BankProofs, WellFoundedInduction

BotAssumptions ==
    ContractAssumption /\ AuctionAssumption /\ BotAssumption /\ NoRecordAssumption

LEMMA BotAssumed == BotAssumptions
BY ContractAssumption, AuctionAssumption, BotAssumption, NoRecordAssumption DEF BotAssumptions

-----------------------------------------------------------------------------
(* The chain beside the bot *)

(* The bot's key pair receives lamports from a faucet. *)
Airdrop ==
    /\ wallet' = [wallet EXCEPT ![BotPayer] = @ + MIN_BALANCE]
    /\ UNCHANGED <<contract_bank_state, contract_bank, protocol_fee_state, pool, max_len,
                   now, stateVars, rewardVars>>

LEMMA ChainStep ==
    ASSUME NextBot
    PROVE  \/ [Next]_vars
           \/ Airdrop
           \/ \E tx \in BagToSet(in_flight) : Execute(tx)
<1>1. CASE BeginPass
  <2>1. wallet' = wallet \/ wallet' = [wallet EXCEPT ![BotPayer] = @ + MIN_BALANCE]
    BY <1>1 DEF BeginPass
  <2>2. UNCHANGED <<contract_bank_state, contract_bank, protocol_fee_state, pool, max_len,
                    now, stateVars, rewardVars>>
    BY <1>1 DEF BeginPass
  <2> QED
    BY <2>1, <2>2 DEF Airdrop, vars, contractVars
<1>2. CASE BotStep /\ ~BeginPass
  <2>1. UNCHANGED vars
    BY <1>2 DEF BotStep, StartProcess, ReadPool, LookUp, FetchRoot, FetchCycle, Refresh, Send,
                Advance, ReportRoot, ReportCycle
  <2> QED
    BY <2>1
<1>3. CASE Restart \/ Expire
  <2>1. UNCHANGED vars
    BY <1>3 DEF Restart, Expire
  <2> QED
    BY <2>1
<1>4. CASE Land
  BY <1>4 DEF Land
<1> QED
  BY <1>1, <1>2, <1>3, <1>4 DEF NextBot

(* What the transactions on their way look like. *)
FlightOK == IsABag(in_flight) /\ BagToSet(in_flight) \subseteq Transactions

LEMMA ExecuteType ==
    ASSUME BotAssumptions, TypeInv, NEW tx \in Transactions, Execute(tx)
    PROVE  TypeInv'
<1>1. tx.auction_id \in AuctionIds /\ BotPayer \in Users
  BY DEF BotAssumptions, BotAssumption, Transactions
<1> QED
  BY <1>1, CloseIdleCycleType, CloseWonCycleType DEF BotAssumptions, Execute, Closes

LEMMA ChainTypeStep ==
    ASSUME BotAssumptions, TypeInv, FlightOK, [NextBot]_allVars
    PROVE  TypeInv'
<1>1. CASE [Next]_vars
  BY <1>1, TypeStep DEF BotAssumptions
<1>2. CASE Airdrop
  <2>1. wallet' \in [Users -> Nat]
    BY <1>2 DEF Airdrop, BotAssumptions, BotAssumption, TypeInv, TypeOK, ContractTypeOK
  <2>2. ContractTypeOK'
    BY <1>2, <2>1 DEF Airdrop, TypeInv, TypeOK, ContractTypeOK
  <2>3. TypeOK'
    BY <1>2, <2>2 DEF Airdrop, stateVars, rewardVars, TypeInv, TypeOK
  <2>4. MastersExist'
    BY <1>2 DEF Airdrop, stateVars, rewardVars, TypeInv, MastersExist, HasRoot, IsNft
  <2> QED
    BY <2>3, <2>4 DEF TypeInv
<1>3. ASSUME NEW tx \in BagToSet(in_flight), Execute(tx) PROVE TypeInv'
  BY <1>3, ExecuteType DEF FlightOK
<1>4. CASE UNCHANGED allVars
  BY <1>1, <1>4 DEF allVars
<1> QED
  BY <1>1, <1>2, <1>3, <1>4, ChainStep

-----------------------------------------------------------------------------
(* The end of a cycle.  That a bid adds no more than a period rests on the *)
(* encore period being shorter, which modify_auction has to keep up.       *)

Period(id) == root[id].auction_config.cycle_period

EndsInTime(id) ==
    (HasCurrentCycle(id) /\ IsOngoing(root[id])) =>
        \/ CurrentCycle(id).end_time <= now + Period(id)
        \/ CurrentCycle(id).end_time = root[id].start_time + Period(id)

EncoreShort(id) == HasRoot(id) => root[id].auction_config.encore_period <= Period(id)

Scheduled(id) == EncoreShort(id) /\ EndsInTime(id)

(* Nothing that matters changes, or a reward is claimed, or the auction is *)
(* not ongoing any more.                                                   *)
ScheduleKept(id) ==
    HasRoot(id)' =>
        /\ HasRoot(id)
        /\ root'[id].auction_config = root[id].auction_config
        /\ root'[id].start_time = root[id].start_time
        /\ IsOngoing(root'[id]) =>
               /\ IsOngoing(root[id])
               /\ root'[id].current_auction_cycle = root[id].current_auction_cycle
               /\ LET c == CurrentCycle(id)
                  IN  HasCurrentCycle(id)' =>
                          /\ c # NoAccount
                          /\ CurrentCycle(id)'.end_time \in {c.end_time, 0}

LEMMA ScheduleTypes ==
    ASSUME BotAssumptions, TypeInv, NEW id \in AuctionIds, HasRoot(id)
    PROVE  /\ root[id] \in RootState
           /\ root[id].current_auction_cycle \in CycleNumbers
           /\ root[id].auction_config \in AuctionConfig
           /\ Period(id) \in Nat /\ root[id].auction_config.encore_period \in Nat
           /\ root[id].start_time \in Nat
           /\ now \in Nat
           /\ HasCurrentCycle(id) => CurrentCycle(id) \in CycleState
                                     /\ CurrentCycle(id).end_time \in Nat
<1>1. root[id] \in RootState /\ (HasCurrentCycle(id) => CurrentCycle(id) \in CycleState)
  BY AccountTypes DEF TypeInv, BotAssumptions
<1>2. root[id].auction_config \in AuctionConfig
  BY <1>1 DEF RootState
<1> QED
  BY <1>1, <1>2 DEF RootState, AuctionConfig, CycleState, Period, TypeInv, TypeOK

LEMMA ScheduledWhenKept ==
    ASSUME BotAssumptions, TypeInv, NEW id \in AuctionIds, Scheduled(id), ScheduleKept(id),
           now' \in {now, now + 1}
    PROVE  Scheduled(id)'
<1> SUFFICES ASSUME HasRoot(id)' PROVE Scheduled(id)'
  BY DEF Scheduled, EncoreShort, EndsInTime, HasCurrentCycle
<1>1. HasRoot(id) /\ Period(id)' = Period(id)
  BY DEF ScheduleKept, Period
<1>2. EncoreShort(id)'
  BY <1>1 DEF ScheduleKept, Scheduled, EncoreShort, Period
<1>3. ASSUME HasCurrentCycle(id)', IsOngoing(root[id])'
      PROVE  \/ CurrentCycle(id)'.end_time <= now' + Period(id)'
             \/ CurrentCycle(id)'.end_time = root'[id].start_time + Period(id)'
  <2>1. /\ IsOngoing(root[id]) /\ HasCurrentCycle(id)
        /\ CurrentCycle(id)'.end_time \in {CurrentCycle(id).end_time, 0}
        /\ root'[id].start_time = root[id].start_time
    BY <1>1, <1>3 DEF ScheduleKept, HasCurrentCycle
  <2>2. \/ CurrentCycle(id).end_time <= now + Period(id)
        \/ CurrentCycle(id).end_time = root[id].start_time + Period(id)
    BY <2>1 DEF Scheduled, EndsInTime
  <2>3. CurrentCycle(id).end_time \in Nat /\ Period(id) \in Nat /\ now \in Nat
    BY <1>1, <2>1, ScheduleTypes
  <2> QED
    BY <1>1, <2>1, <2>2, <2>3
<1>4. EndsInTime(id)'
  BY <1>3 DEF EndsInTime
<1> QED
  BY <1>2, <1>4 DEF Scheduled

LEMMA StartScheduled ==
    ASSUME BotAssumptions, TypeInv, NEW id \in AuctionIds, Start(id)
    PROVE  Scheduled(id)'
<1>1. PICK owner \in Owners, config \in AuctionConfigs, start \in StartTimes \cup {now} :
          InitializeAuction(id, owner, config, start)
  BY DEF Start
<1>2. config \in AuctionConfig /\ config.cycle_period \in Nat /\ config.encore_period \in Nat
  BY DEF BotAssumptions, AuctionAssumption, AuctionConfig
<1>3. config.encore_period <= config.cycle_period
  BY <1>1, <1>2 DEF InitializeAuction, ValidConfig
<1>4. /\ root'[id] = NewRootState(owner, config, start)
      /\ 1 \in CycleNumbers
      /\ cycle'[id][1] = [end_time |-> start + config.cycle_period, bid_history |-> <<>>]
  BY <1>1 DEF InitializeAuction, TypeInv, TypeOK, BotAssumptions, AuctionAssumption, CycleNumbers
<1>5. /\ root'[id].auction_config = config /\ root'[id].start_time = start
      /\ CurrentCycle(id)'.end_time = start + config.cycle_period
  BY <1>4 DEF NewRootState, CurrentCycle
<1> QED
  BY <1>3, <1>5 DEF Scheduled, EncoreShort, EndsInTime, Period

LEMMA BidScheduled ==
    ASSUME BotAssumptions, TypeInv, NEW id \in AuctionIds, Scheduled(id), AnyBid(id)
    PROVE  Scheduled(id)'
<1>1. PICK user \in Bidders, amount \in BidAmounts :
          Bid(id, user, amount) \/ BidInactive(id, user, amount)
  BY DEF AnyBid
<1>2. HasRoot(id) /\ HasCurrentCycle(id) /\ IsOngoing(root[id]) /\ root' = root /\ now' = now
  BY <1>1 DEF Bid, BidInactive, PlaceBid, HasCurrentCycle, CheckStatus
<1> DEFINE encore == root[id].auction_config.encore_period
           end == CurrentCycle(id).end_time
<1>3. /\ now \in Nat /\ Period(id) \in Nat /\ encore \in Nat /\ encore <= Period(id)
      /\ end \in Nat /\ root[id].current_auction_cycle \in CycleNumbers
  BY <1>2, ScheduleTypes DEF Scheduled, EncoreShort
<1>4. ASSUME NEW e, PlaceBid(id, user, amount, e)
      PROVE  CurrentCycle(id)'.end_time = EndAfterBid(e, encore)
  BY <1>2, <1>3, <1>4 DEF PlaceBid, CurrentCycle, TypeInv, TypeOK
<1>5. \/ CurrentCycle(id)'.end_time = EndAfterBid(end, encore)
      \/ CurrentCycle(id)'.end_time = EndAfterBid(now + Period(id), encore)
  BY <1>1, <1>4 DEF Bid, BidInactive, Period
<1>6. \/ CurrentCycle(id)'.end_time <= now + Period(id)
      \/ CurrentCycle(id)'.end_time = end
  BY <1>3, <1>5 DEF EndAfterBid
<1>7. end <= now + Period(id) \/ end = root[id].start_time + Period(id)
  BY <1>2 DEF Scheduled, EndsInTime
<1>8. EndsInTime(id)'
  BY <1>2, <1>6, <1>7 DEF EndsInTime, Period
<1>9. EncoreShort(id)'
  BY <1>2, <1>3 DEF EncoreShort, Period
<1> QED
  BY <1>8, <1>9 DEF Scheduled

LEMMA CloseScheduled ==
    ASSUME BotAssumptions, TypeInv, NEW id \in AuctionIds, Scheduled(id),
           CloseIdleCycle(id) \/ (\E payer \in Users : CloseCycle(id, payer))
    PROVE  Scheduled(id)'
<1> DEFINE n == root[id].current_auction_cycle
<1>1. /\ HasRoot(id) /\ HasCurrentCycle(id) /\ now >= CurrentCycle(id).end_time /\ now' = now
  BY DEF CloseIdleCycle, CloseCycle, CanClose, CheckStatus, HasCurrentCycle
<1>2. /\ now \in Nat /\ Period(id) \in Nat /\ CurrentCycle(id).end_time \in Nat
      /\ n \in CycleNumbers /\ root[id] \in RootState /\ CurrentCycle(id) \in CycleState
  BY <1>1, ScheduleTypes
<1>3. CASE CloseIdleCycle(id)
  <2>1. root'[id] = [root[id] EXCEPT !.current_idle_cycle_streak =
                                         root[id].current_idle_cycle_streak + 1]
    BY <1>3 DEF CloseIdleCycle, TypeInv, TypeOK
  <2>2. /\ root'[id].auction_config = root[id].auction_config
        /\ root'[id].current_auction_cycle = n
    BY <1>2, <2>1 DEF RootState
  <2>3. cycle'[id][n] = [CurrentCycle(id) EXCEPT !.end_time = @ + Period(id)]
    BY <1>2, <1>3 DEF CloseIdleCycle, CurrentCycle, Period, TypeInv, TypeOK
  <2>4. CurrentCycle(id)'.end_time = CurrentCycle(id).end_time + Period(id)
    BY <1>2, <2>2, <2>3 DEF CurrentCycle, CycleState
  <2>5. CurrentCycle(id)'.end_time <= now' + Period(id)' /\ Period(id)' = Period(id)
    BY <1>1, <1>2, <2>2, <2>4 DEF Period
  <2> QED
    BY <1>1, <2>2, <2>5 DEF Scheduled, EncoreShort, EndsInTime, Period
<1>4. ASSUME NEW payer \in Users, CloseCycle(id, payer) PROVE Scheduled(id)'
  <2> DEFINE next == n + 1
             settled == Settled(root[id], TopBidAmount(CurrentCycle(id)))
  <2>1. settled \in RootState /\ settled.auction_config = root[id].auction_config
    BY <1>2, <1>4, SettledType, TopBidType DEF CloseCycle, BotAssumptions
  <2> HIDE DEF settled
  <2>2. /\ next \in CycleNumbers
        /\ root'[id] = [settled EXCEPT !.current_auction_cycle = next]
        /\ cycle'[id][next] = [end_time |-> now + Period(id), bid_history |-> <<>>]
    BY <1>4 DEF CloseCycle, settled, Period, TypeInv, TypeOK
  <2> HIDE DEF next
  <2>3. /\ root'[id].auction_config = root[id].auction_config
        /\ root'[id].current_auction_cycle = next
    BY <2>1, <2>2 DEF RootState
  <2>4. CurrentCycle(id)'.end_time = now + Period(id)
    BY <2>2, <2>3 DEF CurrentCycle
  <2>5. CurrentCycle(id)'.end_time <= now' + Period(id)' /\ Period(id)' = Period(id)
    BY <1>1, <1>2, <2>3, <2>4 DEF Period
  <2> QED
    BY <1>1, <2>3, <2>5 DEF Scheduled, EncoreShort, EndsInTime, Period
<1> QED
  BY <1>3, <1>4

LEMMA ClaimKeepsSchedule ==
    ASSUME BotAssumptions, TypeInv, NEW id \in AuctionIds, Claim(id)
    PROVE  ScheduleKept(id)
<1>1. ASSUME NEW amount \in ClaimAmounts, ClaimFunds(id, amount) PROVE ScheduleKept(id)
  <2>1. HasRoot(id) /\ CurrentCycle(id) # NoAccount /\ root[id] \in RootState
    BY <1>1, ScheduleTypes DEF ClaimFunds, HasCurrentCycle
  <2>2. (\E funds : root'[id] = [root[id] EXCEPT !.available_funds = funds]) /\ cycle' = cycle
    BY <1>1 DEF ClaimFunds, TypeInv, TypeOK
  <2>3. /\ root'[id].auction_config = root[id].auction_config
        /\ root'[id].start_time = root[id].start_time
        /\ root'[id].current_auction_cycle = root[id].current_auction_cycle
        /\ IsOngoing(root'[id]) = IsOngoing(root[id])
    BY <2>1, <2>2 DEF RootState, IsOngoing
  <2> QED
    BY <2>1, <2>2, <2>3 DEF ScheduleKept, CurrentCycle
<1>2. ASSUME NEW n \in CycleNumbers, ClaimRewards(id, n) PROVE ScheduleKept(id)
  <2>1. HasRoot(id) /\ cycle[id][n] # NoAccount /\ root[id] \in RootState
        /\ root[id].current_auction_cycle \in CycleNumbers
    BY <1>2, ScheduleTypes DEF ClaimRewards, RewardIsDue
  <2>2. /\ \E unclaimed : root'[id] = [root[id] EXCEPT !.unclaimed_rewards = unclaimed]
        /\ cycle' = [cycle EXCEPT ![id][n].end_time = 0]
    BY <1>2 DEF ClaimRewards, RewardTaken, TypeInv, TypeOK
  <2>3. /\ root'[id].auction_config = root[id].auction_config
        /\ root'[id].start_time = root[id].start_time
        /\ root'[id].current_auction_cycle = root[id].current_auction_cycle
        /\ IsOngoing(root'[id]) = IsOngoing(root[id])
    BY <2>1, <2>2 DEF RootState, IsOngoing
  <2>4. CASE root[id].current_auction_cycle = n
    <3>1. CurrentCycle(id) \in CycleState /\ CurrentCycle(id) # NoAccount
      BY <2>1, <2>4, ScheduleTypes DEF HasCurrentCycle, CurrentCycle
    <3>2. CurrentCycle(id)' = [CurrentCycle(id) EXCEPT !.end_time = 0]
      BY <2>1, <2>2, <2>3, <2>4 DEF CurrentCycle, TypeInv, TypeOK
    <3>3. CurrentCycle(id)'.end_time = 0
      BY <3>1, <3>2 DEF CycleState
    <3> QED
      BY <2>1, <2>3, <3>1, <3>3 DEF ScheduleKept
  <2>5. CASE root[id].current_auction_cycle # n
    <3>1. CurrentCycle(id)' = CurrentCycle(id)
      BY <2>1, <2>2, <2>3, <2>5 DEF CurrentCycle, TypeInv, TypeOK
    <3> QED
      BY <2>1, <2>3, <3>1 DEF ScheduleKept, HasCurrentCycle
  <2> QED
    BY <2>4, <2>5
<1> QED
  BY <1>1, <1>2 DEF Claim

LEMMA EndedKeepsSchedule ==
    ASSUME BotAssumptions, TypeInv, NEW id \in AuctionIds, Delete(id) \/ CloseLastCycle(id)
    PROVE  ScheduleKept(id)
<1>1. CASE Delete(id)
  <2>1. PICK owner \in Owners, batch \in DeleteBatches :
            DeleteCycles(id, owner, batch) \/ DeleteAuction(id, owner, batch)
    BY <1>1 DEF Delete
  <2>2. CASE DeleteAuction(id, owner, batch)
    BY <2>2, DeleteAuctionEffect DEF Deleted, ScheduleKept
  <2>3. CASE DeleteCycles(id, owner, batch)
    <3>1. HasRoot(id) /\ root[id] \in RootState
      BY <2>3, ScheduleTypes DEF DeleteCycles
    <3>2. \E left : root'[id] = [root[id] EXCEPT !.current_auction_cycle = left,
                          !.is_frozen = root[id].is_frozen \/ IsOngoing(root[id])]
      BY <2>3 DEF DeleteCycles, TypeInv, TypeOK
    <3>3. /\ root'[id].auction_config = root[id].auction_config
          /\ root'[id].start_time = root[id].start_time
          /\ ~IsOngoing(root'[id])
      BY <3>1, <3>2 DEF RootState, IsOngoing
    <3> QED
      BY <3>1, <3>3 DEF ScheduleKept
  <2> QED
    BY <2>1, <2>2, <2>3
<1>2. CASE CloseLastCycle(id)
  <2> DEFINE settled == Settled(root[id], TopBidAmount(CurrentCycle(id)))
  <2>1. /\ HasRoot(id) /\ root[id] \in RootState
        /\ RewardCountable(root[id]) /\ TopBidAmount(CurrentCycle(id)) \in Nat
    BY <1>2, ScheduleTypes, TopBidType DEF CloseLastCycle, CanClose, HasCurrentCycle
  <2>2. /\ settled \in RootState /\ settled.auction_config = root[id].auction_config
    BY <2>1, SettledType
  <2>3. settled.start_time = root[id].start_time
    BY <2>1 DEF Settled, RootState
  <2> HIDE DEF settled
  <2>4. root'[id] = [settled EXCEPT !.is_finished = TRUE,
                                    !.available_funds = FundsWithRent(settled)]
    BY <1>2 DEF CloseLastCycle, settled, TypeInv, TypeOK
  <2>5. /\ root'[id].auction_config = root[id].auction_config
        /\ root'[id].start_time = root[id].start_time
        /\ ~IsOngoing(root'[id])
    BY <2>2, <2>3, <2>4 DEF RootState, IsOngoing
  <2> QED
    BY <2>1, <2>5 DEF ScheduleKept
<1> QED
  BY <1>1, <1>2

LEMMA AdministerScheduled ==
    ASSUME BotAssumptions, TypeInv, NEW id \in AuctionIds, Scheduled(id), Administer(id)
    PROVE  Scheduled(id)'
<1>1. HasRoot(id) /\ root[id] \in RootState /\ root[id].auction_config \in AuctionConfig
      /\ Period(id) \in Nat /\ now' = now /\ cycle' = cycle
  BY ScheduleTypes
     DEF Administer, FilterAuction, ModifyAuction, VerifyAuction, IsAuctionOwner, HasRoot
<1>2. /\ root'[id].auction_config.cycle_period = Period(id)
      /\ root'[id].auction_config.encore_period <= Period(id)
      /\ root'[id].start_time = root[id].start_time
      /\ root'[id].current_auction_cycle = root[id].current_auction_cycle
      /\ IsOngoing(root'[id]) = IsOngoing(root[id])
  <2>1. ASSUME \E v : root'[id] = [root[id] EXCEPT !.is_filtered = v]
                   \/ root'[id] = [root[id] EXCEPT !.is_verified = v]
        PROVE  /\ root'[id].auction_config = root[id].auction_config
               /\ root'[id].start_time = root[id].start_time
               /\ root'[id].current_auction_cycle = root[id].current_auction_cycle
               /\ IsOngoing(root'[id]) = IsOngoing(root[id])
    BY <1>1, <2>1 DEF RootState, IsOngoing
  <2>2. ASSUME NEW owner \in Owners, NEW encore \in EncorePeriods, ModifyAuction(id, owner, encore)
        PROVE  <1>2
    <3> DEFINE config == [root[id].auction_config EXCEPT !.encore_period = encore]
    <3>1. encore \in 0..(Period(id) \div 2)
      BY <2>2 DEF ModifyAuction, Period
    <3>2. encore <= Period(id)
      BY <1>1, <3>1
    <3>3. config.cycle_period = Period(id) /\ config.encore_period = encore
      BY <1>1 DEF AuctionConfig, Period
    <3> HIDE DEF config
    <3>4. root'[id] = [root[id] EXCEPT !.auction_config = config]
      BY <2>2 DEF ModifyAuction, config, TypeInv, TypeOK
    <3> QED
      BY <1>1, <3>2, <3>3, <3>4 DEF RootState, IsOngoing
  <2>3. ASSUME NEW admin \in Users, NEW filter \in Filters, FilterAuction(id, admin, filter)
        PROVE  \E v : root'[id] = [root[id] EXCEPT !.is_filtered = v]
    BY <2>3 DEF FilterAuction, TypeInv, TypeOK
  <2>4. ASSUME NEW admin \in Users, VerifyAuction(id, admin)
        PROVE  \E v : root'[id] = [root[id] EXCEPT !.is_verified = v]
    BY <2>4 DEF VerifyAuction, TypeInv, TypeOK
  <2>5. root[id].auction_config.encore_period <= Period(id)
    BY <1>1 DEF Scheduled, EncoreShort
  <2> QED
    BY <2>1, <2>2, <2>3, <2>4, <2>5 DEF Administer, Period
<1>3. CurrentCycle(id)' = CurrentCycle(id)
  BY <1>1, <1>2 DEF CurrentCycle
<1> QED
  BY <1>1, <1>2, <1>3 DEF Scheduled, EncoreShort, EndsInTime, Period, HasCurrentCycle

(* A cycle is closed, whoever pays for it. *)
ClosedByAnyone(id) ==
    CloseIdleCycle(id) \/ CloseLastCycle(id) \/ (\E payer \in Users : CloseCycle(id, payer))

AuctionsScheduled == \A id \in AuctionIds : Scheduled(id)

LEMMA StepOnAuction ==
    ASSUME BotAssumptions, TypeInv, NEW id \in AuctionIds, Scheduled(id),
           AuctionStep(id) \/ ClosedByAnyone(id)
    PROVE  Scheduled(id)'
<1>1. CASE Start(id)
  BY <1>1, StartScheduled
<1>2. CASE AnyBid(id)
  BY <1>2, BidScheduled
<1>3. CASE Close(id) \/ ClosedByAnyone(id)
  <2>1. ClosedByAnyone(id)
    BY <1>3 DEF Close, ClosedByAnyone, BotAssumptions, AuctionAssumption
  <2>2. CloseLastCycle(id) => now' = now
    BY DEF CloseLastCycle
  <2> QED
    BY <2>1, <2>2, CloseScheduled, EndedKeepsSchedule, ScheduledWhenKept DEF ClosedByAnyone
<1>4. CASE Claim(id)
  <2>1. now' = now
    BY <1>4 DEF Claim, ClaimFunds, ClaimRewards
  <2> QED
    BY <1>4, <2>1, ClaimKeepsSchedule, ScheduledWhenKept
<1>5. CASE Delete(id)
  <2>1. now' = now
    BY <1>5 DEF Delete, DeleteCycles, DeleteAuction
  <2> QED
    BY <1>5, <2>1, EndedKeepsSchedule, ScheduledWhenKept
<1>6. CASE Administer(id)
  BY <1>6, AdministerScheduled
<1>7. ASSUME NEW user \in Bidders, NEW amount \in Deposits, Deposit(id, user, amount)
      PROVE  Scheduled(id)'
  <2>1. root' = root /\ cycle' = cycle /\ now' = now
    BY <1>7 DEF Deposit
  <2> QED
    BY <2>1 DEF Scheduled, EncoreShort, EndsInTime, Period, HasRoot, HasCurrentCycle, CurrentCycle
<1> QED
  BY <1>1, <1>2, <1>3, <1>4, <1>5, <1>6, <1>7 DEF AuctionStep

(* Nothing happens to an auction, though time may pass. *)
LEMMA UntouchedScheduled ==
    ASSUME BotAssumptions, TypeInv, NEW id \in AuctionIds, Scheduled(id),
           root'[id] = root[id], cycle'[id] = cycle[id], now' \in {now, now + 1}
    PROVE  Scheduled(id)'
<1>1. ScheduleKept(id)
  BY DEF ScheduleKept, HasRoot, HasCurrentCycle, CurrentCycle
<1> QED
  BY <1>1, ScheduledWhenKept

LEMMA StepKeepsTime ==
    ASSUME NEW id \in AuctionIds, AuctionStep(id) \/ ClosedByAnyone(id)
    PROVE  now' = now
<1>1. CASE AuctionStep(id)
  BY <1>1 DEF AuctionStep, Start, InitializeAuction, AnyBid, Bid, BidInactive, PlaceBid,
         Close, CloseIdleCycle, CloseLastCycle, CloseCycle, Claim, ClaimFunds, ClaimRewards,
         Delete, DeleteCycles, DeleteAuction, Administer, FilterAuction, ModifyAuction,
         VerifyAuction, Deposit
<1>2. CASE ClosedByAnyone(id)
  BY <1>2 DEF ClosedByAnyone, CloseIdleCycle, CloseLastCycle, CloseCycle
<1> QED
  BY <1>1, <1>2

LEMMA ScheduleStep ==
    ASSUME BotAssumptions, TypeInv, FlightOK, AuctionsScheduled, [NextBot]_allVars
    PROVE  AuctionsScheduled'
<1> SUFFICES ASSUME NEW id \in AuctionIds PROVE Scheduled(id)'
  BY DEF AuctionsScheduled
<1>1. Scheduled(id)
  BY DEF AuctionsScheduled
<1>2. ASSUME NEW at \in AuctionIds, AuctionStep(at) \/ ClosedByAnyone(at)
      PROVE  Scheduled(id)'
  <2>1. CASE at = id
    BY <1>1, <1>2, <2>1, StepOnAuction
  <2>2. CASE at # id
    <3>1. ASSUME ClosedByAnyone(at) PROVE root'[id] = root[id] /\ cycle'[id] = cycle[id]
      BY <2>2, <3>1 DEF ClosedByAnyone, CloseIdleCycle, CloseLastCycle, CloseCycle,
                        TypeInv, TypeOK
    <3>2. root'[id] = root[id] /\ cycle'[id] = cycle[id]
      BY <1>2, <2>2, <3>1, AuctionStepLocal DEF BotAssumptions
    <3> QED
      BY <1>1, <1>2, <3>2, StepKeepsTime, UntouchedScheduled
  <2> QED
    BY <2>1, <2>2
<1>3. CASE UNCHANGED <<root, cycle>> /\ now' \in {now, now + 1}
  BY <1>1, <1>3, UntouchedScheduled
<1>4. CASE [Next]_vars
  <2>1. CASE \E at \in AuctionIds : AuctionStep(at)
    BY <1>2, <2>1
  <2>2. CASE NextContract /\ UNCHANGED <<now, stateVars, rewardVars>>
    BY <1>3, <2>2 DEF stateVars
  <2>3. CASE Tick \/ UNCHANGED vars
    BY <1>3, <2>3 DEF Tick, vars, stateVars
  <2> QED
    BY <1>4, <2>1, <2>2, <2>3 DEF Next, AuctionStep
<1>5. ASSUME NEW tx \in BagToSet(in_flight), Execute(tx) PROVE Scheduled(id)'
  <2>1. tx.auction_id \in AuctionIds /\ ClosedByAnyone(tx.auction_id)
    BY <1>5 DEF FlightOK, Transactions, Execute, Closes, ClosedByAnyone, BotAssumptions,
                BotAssumption
  <2> QED
    BY <1>2, <2>1
<1>6. CASE Airdrop
  BY <1>3, <1>6 DEF Airdrop, stateVars
<1>7. CASE UNCHANGED allVars
  BY <1>4, <1>7 DEF allVars
<1> QED
  BY <1>4, <1>5, <1>6, <1>7, ChainStep

-----------------------------------------------------------------------------
(* The bot's own state.  BotTypeOK is not inductive: that a streak stays   *)
(* within its limit rests on a faulty auction never being at hand again,   *)
(* and that a record can be counted up on the cycle number the chain had   *)
(* when it accepted the transaction.                                       *)

IdleSteps == {"start", "stopped", "pass", "pool"}
RecordSteps == {"refresh", "send", "advance", "report_root", "report_cycle"}
HandSteps == RecordSteps \cup {"new_root", "new_cycle"}

PassOK ==
    /\ pc \in Steps
    /\ focus \subseteq AuctionIds
    /\ todo \subseteq AuctionIds
    /\ (todo = {}) <=> pc \in IdleSteps
    /\ fetched \in RootViews \cup {NoAccount}
    /\ (fetched = NoAccount) <=> pc # "new_cycle"
    /\ failure \in {"none", "other", "AuctionIsInProgress"}
    /\ (failure = "none") <=> pc \notin {"report_root", "report_cycle"}

StreakOK(id) ==
    hashed_pool[id] # NoAccount =>
        /\ hashed_pool[id].error_streak <= MAX_ERROR_STREAK + 1
        /\ hashed_pool[id].error_streak > MAX_ERROR_STREAK => id \in error_auctions

CacheOK ==
    /\ hashed_pool \in [AuctionIds -> PoolRecords \cup {NoAccount}]
    /\ inactive_auctions \subseteq AuctionIds
    /\ error_auctions \subseteq AuctionIds
    /\ \A id \in AuctionIds : StreakOK(id)

HandOK ==
    /\ pc \in RecordSteps => Record # NoAccount
    /\ pc \in HandSteps => Id \notin error_auctions
    /\ pc = "advance" => Record.current_cycle_number \in CycleNumbers

ClockOK == block_time \in 0..now /\ faults \in 0..Faults

BotInv == TypeInv /\ PassOK /\ CacheOK /\ HandOK /\ FlightOK /\ ClockOK

LEMMA NaturalsHaveMinimum ==
    ASSUME NEW S \in SUBSET Nat, S # {}
    PROVE  Min(S) \in S
<1>1. PICK n \in S : \A m \in S : ~(<<m, n>> \in OpToRel(<, Nat))
  <2>1. IsWellFoundedOn(OpToRel(<, Nat), S)
    BY NatLessThanWellFounded, IsWellFoundedOnSubset
  <2> QED
    BY <2>1, WFMin
<1>2. ASSUME NEW m \in S, m < n PROVE FALSE
  <2>1. <<m, n>> \in OpToRel(<, Nat)
    BY <1>2 DEF OpToRel
  <2> QED
    BY <1>1, <2>1
<1>3. \A m \in S : n <= m
  BY <1>2
<1> QED
  BY <1>3 DEF Min

LEMMA IdAtHand ==
    ASSUME BotAssumptions, PassOK, todo # {}
    PROVE  Id \in todo /\ Id \in AuctionIds
BY NaturalsHaveMinimum DEF Id, PassOK, BotAssumptions, BotAssumption

LEMMA IdKept == ASSUME todo' = todo PROVE Id' = Id
BY DEF Id

LEMMA RecordAtHand ==
    ASSUME BotAssumptions, BotInv, todo # {}, Record # NoAccount
    PROVE  /\ Id \in AuctionIds
           /\ Record \in PoolRecords
           /\ Record.root_state \in RootViews
           /\ Record.cycle_state \in [end_time: Nat, top_bidder: Users \cup {NoAccount}]
           /\ Record.current_cycle_number \in 1..(MaxCycle + 1)
           /\ Record.error_streak \in Nat
           /\ CachedCycle \in CycleNumbers
<1>1. Id \in AuctionIds /\ Record \in PoolRecords
  BY IdAtHand DEF BotInv, CacheOK, Record
<1> QED
  BY <1>1 DEF PoolRecords, RootViews, CachedCycle

-----------------------------------------------------------------------------
(* The end of an auction's turn *)

LEMMA PassEnded ==
    ASSUME BotAssumptions, PassOK, focus' = focus, EndPass
    PROVE  PassOK' /\ HandOK'
<1>1. PassOK'
  BY DEF PassOK, EndPass, IdleSteps, Steps
<1>2. HandOK'
  BY DEF HandOK, EndPass, RecordSteps, HandSteps
<1> QED
  BY <1>1, <1>2

LEMMA AuctionLeft ==
    ASSUME BotAssumptions, PassOK, todo # {}, focus' = focus, AuctionDone
    PROVE  PassOK' /\ HandOK'
<1>1. CASE todo = {Id}
  BY <1>1, PassEnded DEF AuctionDone
<1>2. CASE todo # {Id}
  <2>1. todo \ {Id} # {}
    BY <1>2, IdAtHand
  <2>2. /\ pc' = "auction" /\ todo' = todo \ {Id}
        /\ fetched' = NoAccount /\ failure' = "none"
    BY <1>2 DEF AuctionDone
  <2>3. PassOK'
    BY <2>1, <2>2 DEF PassOK, IdleSteps, Steps
  <2>4. HandOK'
    BY <2>2 DEF HandOK, RecordSteps, HandSteps
  <2> QED
    BY <2>3, <2>4
<1> QED
  BY <1>1, <1>2

LEMMA Considered ==
    ASSUME BotAssumptions, PassOK, inactive_auctions \subseteq AuctionIds,
           pc \in {"auction", "new_cycle"}, Id \notin error_auctions,
           focus' = focus, error_auctions' = error_auctions,
           hashed_pool'[Id] # NoAccount, NEW r, Consider(r)
    PROVE  PassOK' /\ HandOK' /\ inactive_auctions' \subseteq AuctionIds
<1>1. todo # {} /\ Id \in AuctionIds
  BY IdAtHand DEF PassOK, IdleSteps
<1>2. CASE AuctionDone
  BY <1>1, <1>2, AuctionLeft DEF Consider
<1>3. CASE ~AuctionDone
  <2>1. /\ pc' = "refresh" /\ fetched' = NoAccount /\ todo' = todo /\ failure' = failure
        /\ inactive_auctions' = inactive_auctions
    BY <1>3 DEF Consider
  <2>2. failure = "none"
    BY <1>3 DEF Consider, PassOK
  <2>3. PassOK'
    BY <2>1, <2>2 DEF PassOK, IdleSteps, Steps
  <2>4. HandOK'
    BY <2>1, IdKept DEF HandOK, RecordSteps, HandSteps, Record
  <2> QED
    BY <2>1, <2>3, <2>4
<1> QED
  BY <1>2, <1>3

-----------------------------------------------------------------------------
(* The steps of the bot *)

LEMMA RootViewType ==
    ASSUME BotAssumptions, TypeInv, NEW id \in AuctionIds, HasRoot(id)
    PROVE  RootView(root[id]) \in RootViews
<1>1. root[id] \in RootState /\ root[id].current_auction_cycle \in CycleNumbers
  BY AccountTypes DEF TypeInv, BotAssumptions
<1>2. IsActive(root[id]) \in BOOLEAN
  BY <1>1 DEF IsActive, IsOngoing, RootState
<1>3. root[id].auction_owner \in Users
  BY <1>1 DEF RootState
<1> QED
  BY <1>1, <1>2, <1>3 DEF RootView, RootViews

LEMMA CycleViewType ==
    ASSUME BotAssumptions, TypeInv, NEW id \in AuctionIds, NEW n, HasCycle(id, n)
    PROVE  CycleView(cycle[id][n]) \in [end_time: Nat, top_bidder: Users \cup {NoAccount}]
<1>1. n \in CycleNumbers /\ cycle[id][n] \in CycleState
  BY DEF HasCycle, TypeInv, TypeOK
<1>2. cycle[id][n].end_time \in Nat
  BY <1>1 DEF CycleState
<1>3. HasBid(cycle[id][n]) => TopBid(cycle[id][n]).bidder_pubkey \in Users
  BY <1>1, TopBidType DEF BidData
<1> QED
  BY <1>2, <1>3 DEF CycleView

(* The bot waits between two passes, or begins one. *)
LEMMA PassStep ==
    ASSUME BotAssumptions, BotInv, StartProcess \/ BeginPass \/ ReadPool
    PROVE  PassOK' /\ CacheOK' /\ HandOK' /\ FlightOK'
<1>1. UNCHANGED <<focus, managed_pool, in_flight>>
  BY DEF StartProcess, BeginPass, ReadPool, managed_pool
<1>2. CacheOK' /\ FlightOK'
  BY <1>1 DEF BotInv, CacheOK, StreakOK, FlightOK, managed_pool
<1>3. CASE StartProcess
  <2>1. PassOK'
    BY <1>3 DEF StartProcess, BotInv, PassOK, IdleSteps, Steps
  <2>2. HandOK'
    BY <1>3 DEF StartProcess, HandOK, RecordSteps, HandSteps
  <2> QED
    BY <1>2, <2>1, <2>2
<1>4. CASE BeginPass
  <2>1. PassOK'
    BY <1>4 DEF BeginPass, BotInv, PassOK, IdleSteps, Steps
  <2>2. HandOK'
    BY <1>4 DEF BeginPass, HandOK, RecordSteps, HandSteps
  <2> QED
    BY <1>2, <2>1, <2>2
<1>5. CASE ReadPool /\ EndPass
  BY <1>1, <1>2, <1>5, PassEnded DEF BotInv
<1>6. CASE ReadPool /\ ~EndPass
  <2>1. /\ pc' = "auction" /\ todo' = pool["primary"] /\ pool["primary"] # {}
        /\ pc = "pool" /\ UNCHANGED <<focus, fetched, failure>>
    BY <1>6 DEF ReadPool, PassFails
  <2>2. pool["primary"] \subseteq AuctionIds
    BY DEF BotInv, TypeInv, TypeOK, ContractTypeOK, Pools
  <2>3. PassOK'
    BY <2>1, <2>2 DEF BotInv, PassOK, IdleSteps, Steps
  <2>4. HandOK'
    BY <2>1 DEF HandOK, RecordSteps, HandSteps
  <2> QED
    BY <1>2, <2>3, <2>4
<1> QED
  BY <1>3, <1>4, <1>5, <1>6

LEMMA LookUpStep ==
    ASSUME BotAssumptions, BotInv, LookUp
    PROVE  PassOK' /\ CacheOK' /\ HandOK' /\ FlightOK'
<1>1. /\ pc = "auction" /\ todo # {}
      /\ UNCHANGED <<focus, hashed_pool, error_auctions, in_flight>>
  BY DEF LookUp, BotInv, PassOK, IdleSteps
<1>2. FlightOK'
  BY <1>1 DEF BotInv, FlightOK
<1>3. PassOK' /\ HandOK' /\ inactive_auctions' \subseteq AuctionIds
  <2>1. CASE IsExcluded(Id) /\ AuctionDone /\ UNCHANGED inactive_auctions
    BY <1>1, <2>1, AuctionLeft DEF BotInv, CacheOK
  <2>2. CASE ~IsExcluded(Id) /\ Record # NoAccount /\ Consider(Record)
    <3>1. hashed_pool'[Id] # NoAccount /\ Id \notin error_auctions
      BY <1>1, <2>2 DEF Record, IsExcluded
    <3> QED
      BY <1>1, <2>2, <3>1, Considered DEF BotInv, CacheOK
  <2>3. CASE /\ ~IsExcluded(Id) /\ pc' = "new_root"
             /\ UNCHANGED <<todo, block_time, fetched, failure, inactive_auctions>>
    <3>1. PassOK'
      BY <1>1, <2>3 DEF BotInv, PassOK, IdleSteps, Steps
    <3>2. HandOK'
      BY <1>1, <2>3, IdKept DEF HandOK, RecordSteps, HandSteps, IsExcluded
    <3> QED
      BY <2>3, <3>1, <3>2 DEF BotInv, CacheOK
  <2> QED
    BY <2>1, <2>2, <2>3 DEF LookUp
<1>4. CacheOK'
  BY <1>1, <1>3 DEF BotInv, CacheOK, StreakOK
<1> QED
  BY <1>2, <1>3, <1>4

LEMMA FetchStep ==
    ASSUME BotAssumptions, BotInv, FetchRoot \/ FetchCycle
    PROVE  PassOK' /\ CacheOK' /\ HandOK' /\ FlightOK'
<1>1. /\ pc \in {"new_root", "new_cycle"} /\ todo # {}
      /\ UNCHANGED <<focus, error_auctions, in_flight>>
  BY DEF FetchRoot, FetchCycle, BotInv, PassOK, IdleSteps, managed_pool
<1>2. Id \in AuctionIds /\ Id \notin error_auctions
  BY <1>1, IdAtHand DEF BotInv, HandOK, HandSteps
<1>3. FlightOK'
  BY <1>1 DEF BotInv, FlightOK
<1>4. CASE EndPass /\ UNCHANGED <<hashed_pool, inactive_auctions>>
  <2>1. CacheOK'
    BY <1>1, <1>4 DEF BotInv, CacheOK, StreakOK
  <2> QED
    BY <1>1, <1>3, <1>4, <2>1, PassEnded DEF BotInv
<1>5. CASE FetchRoot /\ ~EndPass
  <2>1. /\ pc = "new_root" /\ HasRoot(Id) /\ fetched' = RootView(root[Id]) /\ pc' = "new_cycle"
        /\ UNCHANGED <<todo, failure, managed_pool>>
    BY <1>5 DEF FetchRoot, PassFails
  <2>2. fetched' \in RootViews /\ fetched' # NoAccount
    BY <1>2, <2>1, RootViewType DEF BotInv, BotAssumptions, NoRecordAssumption
  <2>3. PassOK'
    BY <1>1, <2>1, <2>2 DEF BotInv, PassOK, IdleSteps, Steps
  <2>4. HandOK'
    BY <1>1, <1>2, <2>1, IdKept DEF HandOK, RecordSteps, HandSteps
  <2>5. CacheOK'
    BY <2>1 DEF BotInv, CacheOK, StreakOK, managed_pool
  <2> QED
    BY <1>3, <2>3, <2>4, <2>5
<1>6. CASE FetchCycle /\ ~(EndPass /\ UNCHANGED <<hashed_pool, inactive_auctions>>)
  <2> DEFINE n == fetched.current_auction_cycle
             r == PoolRecord(fetched, CycleView(cycle[Id][n]))
  <2>1. /\ pc = "new_cycle" /\ HasCycle(Id, n)
        /\ hashed_pool' = [hashed_pool EXCEPT ![Id] = r]
        /\ Consider(r)
    BY <1>6 DEF FetchCycle, PassFails
  <2>2. fetched \in RootViews /\ n \in CycleNumbers
    BY <2>1 DEF BotInv, PassOK, RootViews
  <2>3. CycleView(cycle[Id][n]) \in [end_time: Nat, top_bidder: Users \cup {NoAccount}]
    BY <1>2, <2>1, CycleViewType DEF BotInv
  <2>4. n \in 1..(MaxCycle + 1)
    BY <2>2 DEF CycleNumbers, BotAssumptions, AuctionAssumption
  <2>5. r \in PoolRecords /\ r.error_streak = 0
    BY <2>2, <2>3, <2>4 DEF PoolRecord, PoolRecords
  <2>6. r # NoAccount
    BY <2>5 DEF BotAssumptions, NoRecordAssumption
  <2> HIDE DEF r
  <2>7. hashed_pool'[Id] = r
    BY <1>2, <2>1 DEF BotInv, CacheOK
  <2>8. PassOK' /\ HandOK' /\ inactive_auctions' \subseteq AuctionIds
    BY <1>1, <1>2, <2>1, <2>6, <2>7, Considered DEF BotInv, CacheOK
  <2>9. \A id \in AuctionIds : StreakOK(id)'
    <3> SUFFICES ASSUME NEW id \in AuctionIds PROVE StreakOK(id)'
      OBVIOUS
    <3>1. CASE id = Id
      BY <2>5, <2>7, <3>1 DEF StreakOK, BotAssumptions, BotAssumption
    <3>2. CASE id # Id
      <4>1. hashed_pool'[id] = hashed_pool[id] /\ StreakOK(id)
        BY <2>1, <3>2 DEF BotInv, CacheOK
      <4> QED
        BY <1>1, <4>1 DEF StreakOK
    <3> QED
      BY <3>1, <3>2
  <2>10. CacheOK'
    BY <1>1, <2>1, <2>5, <2>8, <2>9 DEF BotInv, CacheOK
  <2> QED
    BY <1>3, <2>8, <2>10
<1> QED
  BY <1>4, <1>5, <1>6 DEF FetchRoot, FetchCycle, PassFails, managed_pool

(* The record of the auction at hand is replaced.                          *)
LEMMA RecordReplaced ==
    ASSUME BotAssumptions, BotInv, todo # {}, NEW r \in PoolRecords,
           hashed_pool' = [hashed_pool EXCEPT ![Id] = r],
           r.error_streak <= MAX_ERROR_STREAK + 1,
           r.error_streak > MAX_ERROR_STREAK => Id \in error_auctions',
           inactive_auctions' = inactive_auctions,
           error_auctions' \in {error_auctions, error_auctions \cup {Id}}
    PROVE  CacheOK' /\ hashed_pool'[Id] = r /\ r # NoAccount
<1>1. Id \in AuctionIds
  BY IdAtHand DEF BotInv
<1>2. hashed_pool'[Id] = r
  BY <1>1 DEF BotInv, CacheOK
<1>3. ASSUME NEW id \in AuctionIds PROVE StreakOK(id)'
  <2>1. CASE id = Id
    BY <1>2, <2>1 DEF StreakOK
  <2>2. CASE id # Id
    <3>1. hashed_pool'[id] = hashed_pool[id] /\ StreakOK(id)
      BY <2>2 DEF BotInv, CacheOK
    <3> QED
      BY <3>1 DEF StreakOK
  <2> QED
    BY <2>1, <2>2
<1>4. CacheOK'
  BY <1>1, <1>3 DEF BotInv, CacheOK
<1> QED
  BY <1>2, <1>4 DEF BotAssumptions, NoRecordAssumption

(* What an auction at hand with a record promises.                         *)
LEMMA AtHand ==
    ASSUME BotAssumptions, BotInv, pc \in RecordSteps
    PROVE  /\ todo # {}
           /\ Id \in AuctionIds
           /\ Id \notin error_auctions
           /\ Record \in PoolRecords
           /\ Record.root_state \in RootViews
           /\ Record.cycle_state \in [end_time: Nat, top_bidder: Users \cup {NoAccount}]
           /\ Record.current_cycle_number \in 1..(MaxCycle + 1)
           /\ Record.error_streak \in Nat
           /\ Record.error_streak <= MAX_ERROR_STREAK
           /\ CachedCycle \in CycleNumbers
<1>1. todo # {} /\ Id \notin error_auctions /\ Record # NoAccount
  BY DEF BotInv, PassOK, HandOK, RecordSteps, HandSteps, IdleSteps
<1>2. Id \in AuctionIds /\ StreakOK(Id) /\ Record.error_streak \in Nat
  BY <1>1, RecordAtHand DEF BotInv, CacheOK
<1>3. Record.error_streak <= MAX_ERROR_STREAK
  BY <1>1, <1>2 DEF StreakOK, Record, BotAssumptions, BotAssumption
<1> QED
  BY <1>1, <1>3, RecordAtHand

LEMMA RefreshStep ==
    ASSUME BotAssumptions, BotInv, Refresh
    PROVE  PassOK' /\ CacheOK' /\ HandOK' /\ FlightOK'
<1>1. /\ pc = "refresh" /\ pc \in RecordSteps
      /\ UNCHANGED <<focus, todo, fetched, inactive_auctions, error_auctions, in_flight>>
  BY DEF Refresh, RecordSteps
<1>2. FlightOK' /\ Id' = Id
  BY <1>1, IdKept DEF BotInv, FlightOK
<1>3. CASE Fails("other") /\ UNCHANGED hashed_pool
  <2>1. PassOK'
    BY <1>1, <1>3 DEF Fails, BotInv, PassOK, IdleSteps, Steps
  <2>2. HandOK'
    BY <1>1, <1>2, <1>3 DEF Fails, BotInv, HandOK, RecordSteps, HandSteps, Record
  <2>3. CacheOK'
    BY <1>1, <1>3 DEF BotInv, CacheOK, StreakOK
  <2> QED
    BY <1>2, <2>1, <2>2, <2>3
<1>4. CASE ~(Fails("other") /\ UNCHANGED hashed_pool)
  <2> DEFINE view == CycleView(cycle[Id][CachedCycle])
             r == [Record EXCEPT !.cycle_state = view]
  <2>1. /\ HasCycle(Id, CachedCycle) /\ pc' = "send" /\ failure' = failure
        /\ hashed_pool' = [hashed_pool EXCEPT ![Id].cycle_state = view]
    BY <1>4 DEF Refresh
  <2>2. view \in [end_time: Nat, top_bidder: Users \cup {NoAccount}]
    BY <1>1, <2>1, AtHand, CycleViewType DEF BotInv
  <2>3. r \in PoolRecords /\ r.error_streak = Record.error_streak
    BY <1>1, <2>2, AtHand DEF PoolRecords
  <2>4. hashed_pool' = [hashed_pool EXCEPT ![Id] = r]
    BY <1>1, <2>1, AtHand DEF BotInv, CacheOK, Record
  <2> HIDE DEF r
  <2>5. todo # {} /\ r.error_streak <= MAX_ERROR_STREAK + 1 /\ ~(r.error_streak > MAX_ERROR_STREAK)
    BY <1>1, <2>3, AtHand DEF BotAssumptions, BotAssumption
  <2>6. CacheOK' /\ hashed_pool'[Id] = r /\ r # NoAccount
    BY <1>1, <2>3, <2>4, <2>5, RecordReplaced
  <2>7. PassOK'
    BY <1>1, <2>1 DEF BotInv, PassOK, IdleSteps, Steps
  <2>8. HandOK'
    BY <1>1, <1>2, <2>1, <2>6, AtHand DEF HandOK, RecordSteps, HandSteps, Record
  <2> QED
    BY <1>2, <2>6, <2>7, <2>8
<1> QED
  BY <1>3, <1>4

LEMMA BagAdd ==
    ASSUME NEW S, NEW b, IsABag(b), BagToSet(b) \subseteq S, NEW e \in S
    PROVE  IsABag(b (+) SetToBag({e})) /\ BagToSet(b (+) SetToBag({e})) \subseteq S
BY DEF IsABag, BagToSet, SetToBag, (+)

LEMMA BagTake ==
    ASSUME NEW S, NEW b, IsABag(b), BagToSet(b) \subseteq S, NEW e
    PROVE  IsABag(b (-) SetToBag({e})) /\ BagToSet(b (-) SetToBag({e})) \subseteq S
BY DEF IsABag, BagToSet, SetToBag, (-)

LEMMA SendStep ==
    ASSUME BotAssumptions, BotInv, Send
    PROVE  PassOK' /\ CacheOK' /\ HandOK' /\ FlightOK'
<1> DEFINE tx == CloseAuctionCycle(Id, Record)
<1>1. /\ pc = "send" /\ pc \in RecordSteps
      /\ UNCHANGED <<focus, todo, fetched, hashed_pool, inactive_auctions, error_auctions>>
  BY DEF Send, RecordSteps, managed_pool
<1>2. CacheOK' /\ Id' = Id /\ Record' = Record
  BY <1>1, IdKept DEF BotInv, CacheOK, StreakOK, Record
<1>3. ASSUME IsValid(tx) PROVE tx \in Transactions
  <2>1. HasRoot(Id) /\ Record.current_cycle_number = root[Id].current_auction_cycle
    BY <1>3 DEF IsValid, NamesAccounts, CloseAuctionCycle
  <2>2. Record.current_cycle_number \in CycleNumbers
    BY <1>1, <2>1, AtHand, AccountTypes DEF BotInv, TypeInv, BotAssumptions
  <2>3. Record.root_state \in RootViews /\ Id \in AuctionIds
        /\ Record.cycle_state.top_bidder \in Users \cup {NoAccount}
    BY <1>1, AtHand
  <2> QED
    BY <2>2, <2>3 DEF CloseAuctionCycle, Transactions, RootViews
<1>4. FlightOK'
  <2>1. in_flight' = in_flight \/ (IsValid(tx) /\ in_flight' = in_flight (+) SetToBag({tx}))
    BY DEF Send
  <2> QED
    BY <1>3, <2>1, BagAdd DEF BotInv, FlightOK
<1>5. CASE pc' = "advance" /\ UNCHANGED failure /\ IsValid(tx)
  <2>1. PassOK'
    BY <1>1, <1>5 DEF BotInv, PassOK, IdleSteps, Steps
  <2>2. Record.current_cycle_number \in CycleNumbers
    BY <1>3, <1>5 DEF CloseAuctionCycle, Transactions
  <2>3. HandOK'
    BY <1>1, <1>2, <1>5, <2>2 DEF BotInv, HandOK, RecordSteps, HandSteps
  <2> QED
    BY <1>2, <1>4, <2>1, <2>3
<1>6. ASSUME NEW error \in {"other", "AuctionIsInProgress"}, Fails(error)
      PROVE  PassOK' /\ HandOK'
  <2>1. PassOK'
    BY <1>1, <1>6 DEF Fails, BotInv, PassOK, IdleSteps, Steps
  <2>2. HandOK'
    BY <1>1, <1>2, <1>6 DEF Fails, BotInv, HandOK, RecordSteps, HandSteps
  <2> QED
    BY <2>1, <2>2
<1>7. \/ pc' = "advance" /\ UNCHANGED failure /\ IsValid(tx)
      \/ Fails("other") \/ Fails("AuctionIsInProgress")
  BY DEF Send
<1> QED
  BY <1>2, <1>4, <1>5, <1>6, <1>7

LEMMA AdvanceStep ==
    ASSUME BotAssumptions, BotInv, Advance
    PROVE  PassOK' /\ CacheOK' /\ HandOK' /\ FlightOK'
<1>1. /\ pc = "advance" /\ pc \in RecordSteps
      /\ UNCHANGED <<focus, inactive_auctions, error_auctions, in_flight>>
  BY DEF Advance, RecordSteps
<1>2. FlightOK' /\ PassOK' /\ HandOK'
  <2>1. EndPass \/ AuctionDone
    BY DEF Advance, PassFails
  <2> QED
    BY <1>1, <2>1, AtHand, PassEnded, AuctionLeft DEF BotInv, FlightOK
<1>3. Record.current_cycle_number + 1 \in 1..(MaxCycle + 1)
  BY <1>1 DEF BotInv, HandOK, CycleNumbers, BotAssumptions, AuctionAssumption
<1>4. Counted(Record) \in PoolRecords /\ Counted(Record).error_streak = Record.error_streak
  BY <1>1, <1>3, AtHand DEF Counted, PoolRecords
<1>5. ASSUME NEW r \in PoolRecords, hashed_pool' = [hashed_pool EXCEPT ![Id] = r],
             r.error_streak \in {0, Record.error_streak}
      PROVE  CacheOK'
  <2>1. todo # {} /\ r.error_streak <= MAX_ERROR_STREAK + 1 /\ ~(r.error_streak > MAX_ERROR_STREAK)
    BY <1>1, <1>5, AtHand DEF BotAssumptions, BotAssumption
  <2> QED
    BY <1>1, <1>5, <2>1, RecordReplaced
<1>6. CASE hashed_pool' = [hashed_pool EXCEPT ![Id] = Counted(@)]
  <2>1. hashed_pool' = [hashed_pool EXCEPT ![Id] = Counted(Record)]
    BY <1>6 DEF Record
  <2> QED
    BY <1>2, <1>4, <1>5, <2>1
<1>7. CASE hashed_pool' # [hashed_pool EXCEPT ![Id] = Counted(@)]
  <2> DEFINE view == CycleView(cycle[Id][CachedCycle])
             r == Closed(Record, view)
  <2>1. HasCycle(Id, CachedCycle) /\ hashed_pool' = [hashed_pool EXCEPT ![Id] = r]
    BY <1>7 DEF Advance, Record
  <2>2. view \in [end_time: Nat, top_bidder: Users \cup {NoAccount}]
    BY <1>1, <2>1, AtHand, CycleViewType DEF BotInv
  <2>3. r \in PoolRecords /\ r.error_streak = 0
    BY <1>4, <2>2 DEF Closed, PoolRecords
  <2> HIDE DEF r
  <2> QED
    BY <1>2, <1>5, <2>1, <2>3
<1> QED
  BY <1>6, <1>7

LEMMA ReportStep ==
    ASSUME BotAssumptions, BotInv, ReportRoot \/ ReportCycle
    PROVE  PassOK' /\ CacheOK' /\ HandOK' /\ FlightOK'
<1>1. /\ pc \in {"report_root", "report_cycle"} /\ pc \in RecordSteps
      /\ UNCHANGED <<focus, inactive_auctions, in_flight>>
  BY DEF ReportRoot, ReportCycle, RecordSteps
<1>2. FlightOK' /\ todo # {}
  BY <1>1, AtHand DEF BotInv, FlightOK
<1>3. Record.error_streak <= MAX_ERROR_STREAK /\ Record.error_streak \in Nat
      /\ MAX_ERROR_STREAK \in Nat
  BY <1>1, AtHand DEF BotAssumptions, BotAssumption
<1>4. CASE EndPass /\ UNCHANGED <<hashed_pool, error_auctions>>
  <2>1. CacheOK'
    BY <1>1, <1>4 DEF BotInv, CacheOK, StreakOK
  <2> QED
    BY <1>1, <1>2, <1>4, <2>1, PassEnded DEF BotInv
<1>5. CASE ReportRoot /\ ~(EndPass /\ UNCHANGED <<hashed_pool, error_auctions>>)
  <2> DEFINE view == RootView(root[Id])
             r == RootUpdated(Record, view)
  <2>1. /\ HasRoot(Id) /\ pc = "report_root" /\ pc' = "report_cycle"
        /\ hashed_pool' = [hashed_pool EXCEPT ![Id] = r]
        /\ UNCHANGED <<todo, fetched, failure, error_auctions>>
    BY <1>5 DEF ReportRoot, PassFails, Record
  <2>2. view \in RootViews
    BY <1>1, <2>1, AtHand, RootViewType DEF BotInv
  <2>3. view.current_auction_cycle \in 1..(MaxCycle + 1)
    BY <2>2 DEF RootViews, CycleNumbers, BotAssumptions, AuctionAssumption
  <2>4. r \in PoolRecords /\ r.error_streak = Record.error_streak
    BY <1>1, <2>2, <2>3, AtHand DEF RootUpdated, PoolRecords
  <2> HIDE DEF r
  <2>5. r.error_streak <= MAX_ERROR_STREAK + 1 /\ ~(r.error_streak > MAX_ERROR_STREAK)
    BY <1>3, <2>4
  <2>6. CacheOK' /\ hashed_pool'[Id] = r /\ r # NoAccount
    BY <1>1, <1>2, <2>1, <2>4, <2>5, RecordReplaced
  <2>7. PassOK'
    BY <1>1, <2>1 DEF BotInv, PassOK, IdleSteps, Steps
  <2>8. HandOK'
    BY <1>1, <2>1, <2>6, AtHand, IdKept DEF HandOK, RecordSteps, HandSteps, Record
  <2> QED
    BY <1>2, <2>6, <2>7, <2>8
<1>6. CASE ReportCycle /\ ~(EndPass /\ UNCHANGED <<hashed_pool, error_auctions>>)
  <2> DEFINE view == CycleView(cycle[Id][CachedCycle])
             streak == IF IsUnexpectedError THEN Record.error_streak + 1 ELSE Record.error_streak
             r == [Record EXCEPT !.cycle_state = view, !.error_streak = streak]
  <2>1. /\ HasCycle(Id, CachedCycle)
        /\ hashed_pool' = [hashed_pool EXCEPT ![Id] = r]
        /\ error_auctions' = IF IsUnexpectedError /\ IsFaultyAuction(r)
                             THEN error_auctions \cup {Id} ELSE error_auctions
        /\ AuctionDone
    BY <1>6 DEF ReportCycle, PassFails
  <2>2. view \in [end_time: Nat, top_bidder: Users \cup {NoAccount}]
    BY <1>1, <2>1, AtHand, CycleViewType DEF BotInv
  <2>3. /\ streak \in Nat /\ streak <= MAX_ERROR_STREAK + 1
        /\ streak > MAX_ERROR_STREAK => IsUnexpectedError
    BY <1>3
  <2> HIDE DEF streak
  <2>4. r \in PoolRecords /\ r.error_streak = streak
    BY <1>1, <2>2, <2>3, AtHand DEF PoolRecords
  <2> HIDE DEF r
  <2>5. r.error_streak > MAX_ERROR_STREAK => Id \in error_auctions'
    BY <2>1, <2>3, <2>4 DEF IsFaultyAuction
  <2>6. CacheOK'
    BY <1>1, <1>2, <2>1, <2>3, <2>4, <2>5, RecordReplaced
  <2>7. PassOK' /\ HandOK'
    BY <1>1, <1>2, <2>1, AuctionLeft DEF BotInv
  <2> QED
    BY <1>2, <2>6, <2>7
<1> QED
  BY <1>4, <1>5, <1>6

-----------------------------------------------------------------------------
(* Everything else that happens *)

LEMMA RestartStep ==
    ASSUME BotAssumptions, BotInv, Restart
    PROVE  PassOK' /\ CacheOK' /\ HandOK' /\ FlightOK'
<1>1. PassOK'
  BY DEF Restart, BotInv, PassOK, IdleSteps, Steps
<1>2. CacheOK'
  BY DEF Restart, CacheOK, StreakOK
<1>3. HandOK'
  BY DEF Restart, HandOK, RecordSteps, HandSteps
<1>4. FlightOK'
  BY DEF Restart, BotInv, FlightOK
<1> QED
  BY <1>1, <1>2, <1>3, <1>4

LEMMA OutsideStep ==
    ASSUME BotAssumptions, BotInv, Land \/ Expire \/ UNCHANGED botVars
    PROVE  PassOK' /\ CacheOK' /\ HandOK' /\ FlightOK'
<1>1. UNCHANGED <<focus, passVars, managed_pool>>
  BY DEF Land, Expire, botVars
<1>2. PassOK' /\ CacheOK'
  BY <1>1 DEF BotInv, PassOK, CacheOK, StreakOK, passVars, managed_pool
<1>3. HandOK'
  BY <1>1 DEF BotInv, HandOK, Record, Id, passVars, managed_pool
<1>4. FlightOK'
  <2>1. CASE in_flight' = in_flight
    BY <2>1 DEF BotInv, FlightOK
  <2>2. ASSUME NEW tx, in_flight' = in_flight (-) SetToBag({tx}) PROVE FlightOK'
    BY <2>2, BagTake DEF BotInv, FlightOK
  <2> QED
    BY <2>1, <2>2 DEF Land, Expire, botVars
<1> QED
  BY <1>2, <1>3, <1>4

LEMMA BotStateStep ==
    ASSUME BotAssumptions, BotInv, [NextBot]_allVars
    PROVE  PassOK' /\ CacheOK' /\ HandOK' /\ FlightOK'
<1>1. CASE BotStep
  BY <1>1, PassStep, LookUpStep, FetchStep, RefreshStep, SendStep, AdvanceStep, ReportStep
     DEF BotStep
<1>2. CASE Restart
  BY <1>2, RestartStep
<1>3. CASE Land \/ Expire \/ UNCHANGED botVars
  BY <1>3, OutsideStep
<1> QED
  BY <1>1, <1>2, <1>3 DEF NextBot, allVars

LEMMA ClockStep ==
    ASSUME BotAssumptions, BotInv, [NextBot]_allVars
    PROVE  ClockOK'
<1>1. now \in Nat /\ Faults \in Nat /\ block_time \in 0..now /\ faults \in 0..Faults
  BY DEF BotInv, ClockOK, TypeInv, TypeOK, BotAssumptions, BotAssumption
<1>2. now' \in {now, now + 1}
  <2>1. ASSUME [Next]_vars PROVE now' \in {now, now + 1}
    <3>1. ASSUME Next PROVE now' \in {now, now + 1}
      BY <3>1, StepKeepsTime DEF Next, Tick, AuctionStep
    <3> QED
      BY <2>1, <3>1 DEF vars
  <2>2. ASSUME NEW tx \in BagToSet(in_flight), Execute(tx) PROVE now' = now
    BY <2>2 DEF Execute, Closes, CloseIdleCycle, CloseLastCycle, CloseCycle
  <2>3. Airdrop => now' = now
    BY DEF Airdrop
  <2> QED
    BY <2>1, <2>2, <2>3, ChainStep DEF allVars
<1>3. block_time' \in {block_time, 0} \/ (block_time' = now /\ now' = now)
  <2>1. CASE BeginPass
    BY <2>1 DEF BeginPass
  <2>2. CASE BotStep /\ ~BeginPass
    BY <2>2 DEF BotStep, StartProcess, ReadPool, LookUp, FetchRoot, FetchCycle, Refresh, Send,
                Advance, ReportRoot, ReportCycle, PassFails, Consider, AuctionDone, EndPass
  <2>3. CASE ~BotStep
    BY <2>3 DEF NextBot, Restart, Land, Expire, allVars, botVars, passVars
  <2> QED
    BY <2>1, <2>2, <2>3
<1>4. faults' = faults \/ (faults < Faults /\ faults' = faults + 1)
  <2>1. CASE BotStep
    BY <2>1 DEF BotStep, StartProcess, BeginPass, ReadPool, LookUp, FetchRoot, FetchCycle, Refresh,
                Send, Advance, ReportRoot, ReportCycle, PassFails, CallFails, CallReturns
  <2>2. CASE ~BotStep
    BY <2>2 DEF NextBot, Restart, Land, Expire, CallFails, allVars, botVars
  <2> QED
    BY <2>1, <2>2
<1> QED
  BY <1>1, <1>2, <1>3, <1>4 DEF ClockOK

LEMMA BotInvStep ==
    ASSUME BotAssumptions, BotInv, [NextBot]_allVars
    PROVE  BotInv'
BY BotStateStep, ClockStep, ChainTypeStep DEF BotInv

LEMMA BotInvInit ==
    ASSUME BotAssumptions, InitBot
    PROVE  BotInv
<1>1. TypeInv
  BY InitType DEF InitBot, BotAssumptions
<1>2. focus \subseteq AuctionIds
  BY DEF InitBot, BotAssumptions, BotAssumption
<1>3. PassOK
  BY <1>2 DEF InitBot, PassOK, IdleSteps, Steps
<1>4. CacheOK
  BY DEF InitBot, CacheOK, StreakOK
<1>5. HandOK
  BY DEF InitBot, HandOK, RecordSteps, HandSteps
<1>6. FlightOK
  BY DEF InitBot, FlightOK, EmptyBag, SetToBag, IsABag, BagToSet
<1>7. ClockOK
  BY <1>1 DEF InitBot, ClockOK, TypeInv, TypeOK, BotAssumptions, BotAssumption
<1> QED
  BY <1>1, <1>3, <1>4, <1>5, <1>6, <1>7 DEF BotInv

LEMMA BotInvariant == BotSpec => []BotInv
<1>1. InitBot => BotInv
  BY BotInvInit, BotAssumed
<1>2. BotInv /\ [NextBot]_allVars => BotInv'
  BY BotInvStep, BotAssumed
<1> QED
  BY <1>1, <1>2, PTL DEF BotSpec

-----------------------------------------------------------------------------

(* Every step of the bot finds what it uses, whatever others do to an      *)
(* auction between two of its calls: the auction at hand, a record of it,  *)
(* the reason of a failed closing; the streak counter stays one above its  *)
(* limit at most, and every transaction names a cycle the chain had.       *)
THEOREM BotTypeInvariant == BotSpec => []BotTypeOK
<1>1. BotInv => BotTypeOK
  BY DEF BotInv, PassOK, CacheOK, StreakOK, HandOK, FlightOK, ClockOK, BotTypeOK, IdleSteps,
         RecordSteps
<1> QED
  BY <1>1, BotInvariant, PTL

(* No transaction of the bot, sent twice or landing late, and no bid or    *)
(* change of the encore period in between extends a cycle by more than one *)
(* period at a time.                                                       *)
THEOREM EndsWithinPeriodInvariant == BotSpec => []EndsWithinPeriod
<1>1. InitBot => AuctionsScheduled
  BY DEF InitBot, Init, AuctionsScheduled, Scheduled, EncoreShort, EndsInTime, HasCurrentCycle,
         HasRoot
<1>2. BotInv /\ AuctionsScheduled /\ [NextBot]_allVars => AuctionsScheduled'
  BY ScheduleStep, BotAssumed DEF BotInv
<1>3. AuctionsScheduled => EndsWithinPeriod
  BY DEF AuctionsScheduled, Scheduled, EndsInTime, EndsWithinPeriod, Period
<1> QED
  BY <1>1, <1>2, <1>3, BotInvariant, PTL DEF BotSpec

=============================================================================
