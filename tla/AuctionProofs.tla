--------------------------- MODULE AuctionProofs ---------------------------
(***************************************************************************)
(* Type correctness of the gold program, and the invariants of the state   *)
(* its auctions share.  Every account of every auction keeps a value of    *)
(* its type under every instruction, whatever the constants; the           *)
(* strengthening TypeInv adds that an NFT auction has a master, without    *)
(* which the increment of its URI would have no type.  The pools list the  *)
(* existing auctions within their capacity, and the contract bank keeps    *)
(* its rent.                                                               *)
(*                                                                         *)
(* The lemmas follow the actions: one for each instruction says that it    *)
(* re-establishes the type of what it changes, and TypeStep puts them      *)
(* together.  BankProofs, RewardProofs, LedgerProofs, BotProofs and        *)
(* DeletionProofs build on the result.                                     *)
(***************************************************************************)
EXTENDS AuctionProperties, FiniteSetTheorems, TLAPS

(* An NFT auction has a master. *)
MastersExist ==
    \A id \in AuctionIds : HasRoot(id) /\ IsNft(id) => master[id] # NoAccount

TypeInv == TypeOK /\ MastersExist

-----------------------------------------------------------------------------
(* What the helpers return *)

LEMMA FeeSharesNat ==
    ASSUME ContractAssumption, ContractTypeOK, NEW amount \in Nat, NEW share \in FeeShares(amount)
    PROVE  share \in Nat
<1>1. PICK n \in {amount * ProtocolFee, amount * ProtocolFee - 1} \cap Nat : share = n \div FeeScale
  BY DEF FeeShares
<1>2. n \in Nat /\ FeeScale \in Nat \ {0}
  BY <1>1 DEF ContractAssumption
<1>3. QED
  BY <1>1, <1>2

LEMMA TopBidType ==
    ASSUME NEW c \in CycleState
    PROVE  /\ HasBid(c) => TopBid(c) \in BidData
           /\ TopBidAmount(c) \in Nat
<1>1. c.bid_history \in Seq(BidData)
  BY DEF CycleState
<1>2. ASSUME HasBid(c) PROVE TopBid(c) \in BidData
  BY <1>1, <1>2 DEF HasBid, TopBid
<1>3. TopBidAmount(c) \in Nat
  BY <1>2 DEF TopBidAmount, BidData
<1> QED
  BY <1>2, <1>3

LEMMA RefundedType ==
    ASSUME NEW w \in [Users -> Nat], NEW c \in CycleState
    PROVE  Refunded(w, c) \in [Users -> Nat]
<1>1. HasBid(c) => TopBid(c).bidder_pubkey \in Users /\ TopBid(c).bid_amount \in Nat
  BY TopBidType DEF BidData
<1> QED
  BY <1>1 DEF Refunded

LEMMA CyclicPushType ==
    ASSUME AuctionAssumption, NEW h \in Seq(BidData), NEW b \in BidData
    PROVE  CyclicPush(h, b) \in Seq(BidData)
<1>1. Append(h, b) \in Seq(BidData)
  OBVIOUS
<1>2. ASSUME Len(h) >= MAX_BID_HISTORY_LENGTH PROVE Append(Tail(h), b) \in Seq(BidData)
  <2>1. h # <<>>
    BY <1>2 DEF AuctionAssumption
  <2>2. Tail(h) \in Seq(BidData)
    BY <2>1
  <2> QED
    BY <2>2
<1> QED
  BY <1>1, <1>2 DEF CyclicPush, AuctionAssumption

LEMMA AccountTypes ==
    ASSUME AuctionAssumption, TypeOK, NEW id \in AuctionIds
    PROVE  /\ HasRoot(id) => root[id] \in RootState
           /\ HasRoot(id) => root[id].current_auction_cycle \in CycleNumbers
           /\ HasCurrentCycle(id) => CurrentCycle(id) \in CycleState
<1>1. HasRoot(id) => root[id] \in RootState
  BY DEF TypeOK, HasRoot
<1>2. HasRoot(id) => root[id].current_auction_cycle \in CycleNumbers
  BY <1>1 DEF RootState
<1>3. HasCurrentCycle(id) => CurrentCycle(id) \in CycleState
  BY <1>2 DEF TypeOK, HasCurrentCycle, CurrentCycle
<1> QED
  BY <1>1, <1>2, <1>3

-----------------------------------------------------------------------------
LEMMA InitType == ASSUME ContractAssumption, AuctionAssumption, Init PROVE TypeInv
<1>1. ContractTypeOK
  BY DEF Init, InitContract, ContractTypeOK, ContractAssumption
<1>2. TypeOK
  BY <1>1 DEF Init, TypeOK, AuctionAssumption
<1>3. MastersExist
  BY DEF Init, MastersExist, HasRoot
<1> QED
  BY <1>2, <1>3 DEF TypeInv

LEMMA ContractType ==
    ASSUME ContractAssumption, AuctionAssumption, TypeInv, NextContract,
           UNCHANGED <<now, stateVars, rewardVars>>
    PROVE  TypeInv'
<1> USE DEF ContractTypeOK
<1>0. ContractTypeOK /\ ContractAssumption
  BY DEF TypeInv, TypeOK
<1>1. PICK user \in Users :
        \/ \E authority \in Users, len \in PoolLens : InitializeContract(user, authority, len)
        \/ \E amount \in Withdrawals : AdminWithdraw(user, amount)
        \/ \E new \in NewAuthorities : AdminWithdrawReassign(user, new)
        \/ \E fee \in Fees : SetProtocolFee(user, fee)
        \/ \E p \in Pools, len \in PoolLens : ReallocatePool(user, p, len)
  BY DEF NextContract
<1>2. ASSUME NEW authority \in Users, NEW len \in PoolLens,
             InitializeContract(user, authority, len)
      PROVE  ContractTypeOK'
  <2>1. 2 * PoolRent(len) + ContractBankRent \in Nat
    BY DEF PoolRent, ContractAssumption
  <2> QED
  BY <1>0, <1>2, <2>1 DEF InitializeContract, ContractAssumption
<1>3. ASSUME NEW amount \in Withdrawals, AdminWithdraw(user, amount)
      PROVE  ContractTypeOK'
  BY <1>0, <1>3 DEF AdminWithdraw, Withdrawable, ContractAssumption
<1>4. ASSUME NEW new \in NewAuthorities, AdminWithdrawReassign(user, new)
      PROVE  ContractTypeOK'
  BY <1>0, <1>4 DEF AdminWithdrawReassign, IsWithdrawAuthority, ContractAssumption
<1>5. ASSUME NEW fee \in Fees, SetProtocolFee(user, fee)
      PROVE  ContractTypeOK'
  BY <1>0, <1>5 DEF SetProtocolFee, ContractAssumption
<1>6. ASSUME NEW p \in Pools, NEW len \in PoolLens, ReallocatePool(user, p, len)
      PROVE  ContractTypeOK'
  <2>1. PoolRent(len) - PoolRent(max_len[p]) \in Nat
    BY <1>0, <1>6 DEF PoolRent, ContractAssumption, ReallocatePool, MayReallocate
  <2> QED
  BY <1>0, <1>6, <2>1 DEF ReallocatePool, ContractAssumption
<1>7. ContractTypeOK'
  BY <1>1, <1>2, <1>3, <1>4, <1>5, <1>6
<1>8. TypeOK'
  BY <1>7 DEF TypeInv, TypeOK, stateVars, rewardVars
<1>9. MastersExist'
  BY DEF TypeInv, MastersExist, HasRoot, IsNft, stateVars, rewardVars
<1> QED
  BY <1>8, <1>9 DEF TypeInv

LEMMA InitializeAuctionType ==
    ASSUME ContractAssumption, AuctionAssumption, TypeInv,
           NEW id \in AuctionIds, NEW owner \in Owners, NEW config \in AuctionConfigs,
           NEW start \in StartTimes \cup {now}, InitializeAuction(id, owner, config, start)
    PROVE  TypeInv' /\ HasRoot(id)'
<1>1. config \in AuctionConfig /\ start \in Nat /\ owner \in Users
  BY DEF TypeInv, TypeOK, AuctionAssumption
<1>2. NewRootState(owner, config, start) \in RootState
  BY <1>1 DEF NewRootState, RootState, AuctionAssumption, CycleNumbers
<1>3. [end_time |-> start + config.cycle_period, bid_history |-> <<>>] \in CycleState
  <2>1. start + config.cycle_period \in Nat
    BY <1>1 DEF AuctionConfig
  <2>2. <<>> \in Seq(BidData)
    OBVIOUS
  <2> QED
    BY <2>1, <2>2 DEF CycleState
<1>4. RootStateRent + CycleStateRent + BankRent \in Nat
  BY DEF AuctionAssumption
<1>5. ContractTypeOK'
  <2>1. wallet' \in [Users -> Nat]
    BY <1>1, <1>4 DEF InitializeAuction, TypeInv, TypeOK, ContractTypeOK
  <2>2. pool' \in [Pools -> SUBSET AuctionIds]
    <3>1. pool' = [pool EXCEPT !["primary"] = pool["primary"] \cup {id}]
      BY DEF InitializeAuction, Inserted
    <3>2. pool \in [Pools -> SUBSET AuctionIds] /\ "primary" \in Pools
      BY DEF TypeInv, TypeOK, ContractTypeOK, Pools
    <3> QED
      BY <3>1, <3>2
  <2> QED
    BY <2>1, <2>2 DEF InitializeAuction, TypeInv, TypeOK, ContractTypeOK
<1>6. cycle' \in [AuctionIds -> [CycleNumbers -> CycleState \cup {NoAccount}]]
  BY <1>3 DEF InitializeAuction, TypeInv, TypeOK
<1>7. /\ master' \in [AuctionIds -> Nat \cup {NoAccount}]
      /\ children' \in [AuctionIds -> [CycleNumbers -> Users \cup {NoAccount}]]
      /\ tokens' \in [AuctionIds -> [Users -> Nat]]
  <2>1. InitializeTokens(id, config.token_config)
    BY DEF InitializeAuction
  <2>2. CASE config.token_config = "Token"
    <3>1. /\ tokens' = [tokens EXCEPT ![id] = [user \in Users |-> 0]]
          /\ UNCHANGED <<master, children>>
      BY <2>1, <2>2 DEF InitializeTokens
    <3>2. [user \in Users |-> 0] \in [Users -> Nat]
      OBVIOUS
    <3> QED
      BY <3>1, <3>2 DEF TypeInv, TypeOK
  <2>3. CASE config.token_config # "Token"
    <3>1. /\ master' = [master EXCEPT ![id] = IF config.token_config = "Nft" THEN 1 ELSE 0]
          /\ UNCHANGED <<children, tokens>>
      BY <2>1, <2>3 DEF InitializeTokens
    <3> QED
      BY <3>1 DEF TypeInv, TypeOK
  <2> QED
    BY <2>2, <2>3
<1>8. TypeOK'
  BY <1>2, <1>5, <1>6, <1>7 DEF InitializeAuction, TypeInv, TypeOK, AuctionAssumption
<1>9. MastersExist'
  <2> SUFFICES ASSUME NEW other \in AuctionIds, HasRoot(other)', IsNft(other)'
               PROVE  master'[other] # NoAccount
    BY DEF MastersExist
  <2>1. CASE other = id
    BY <2>1, <1>1 DEF InitializeAuction, InitializeTokens, IsNft, NewRootState, TypeInv, TypeOK,
                 ContractAssumption
  <2>2. CASE other # id
    BY <2>2 DEF InitializeAuction, InitializeTokens, IsNft, HasRoot, MastersExist, TypeInv, TypeOK
  <2> QED
    BY <2>1, <2>2
<1>10. HasRoot(id)'
  BY <1>2 DEF HasRoot, AuctionAssumption, InitializeAuction, TypeInv, TypeOK
<1> QED
  BY <1>8, <1>9, <1>10 DEF TypeInv

LEMMA PlaceBidType ==
    ASSUME ContractAssumption, AuctionAssumption, TypeInv,
           NEW id \in AuctionIds, NEW user \in Bidders, NEW amount \in BidAmounts, NEW end \in Nat,
           HasCurrentCycle(id), PlaceBid(id, user, amount, end),
           pool' \in [Pools -> SUBSET AuctionIds]
    PROVE  TypeInv'
<1> DEFINE c == CurrentCycle(id)
<1>1. c \in CycleState /\ root[id] \in RootState
      /\ root[id].current_auction_cycle \in CycleNumbers
  BY AccountTypes DEF TypeInv, HasCurrentCycle
<1>2. user \in Users /\ amount \in Nat /\ now \in Nat
      /\ root[id].auction_config.encore_period \in Nat
  BY <1>1 DEF TypeInv, TypeOK, AuctionAssumption, RootState, AuctionConfig
<1>3. wallet' \in [Users -> Nat]
  <2>1. [wallet EXCEPT ![user] = @ - amount] \in [Users -> Nat]
    BY <1>2 DEF PlaceBid, TypeInv, TypeOK, ContractTypeOK
  <2> QED
    BY <1>1, <2>1, RefundedType DEF PlaceBid
<1>4. ContractTypeOK'
  BY <1>3 DEF PlaceBid, TypeInv, TypeOK, ContractTypeOK
<1>5. bank' \in [AuctionIds -> Nat]
  <2>1. TopBidAmount(c) \in Nat
    BY <1>1, TopBidType
  <2> QED
    BY <1>2, <2>1 DEF PlaceBid, TypeInv, TypeOK
<1>6. cycle' \in [AuctionIds -> [CycleNumbers -> CycleState \cup {NoAccount}]]
  <2> DEFINE b == [bidder_pubkey |-> user, bid_amount |-> amount]
             e == EndAfterBid(end, root[id].auction_config.encore_period)
  <2>1. CyclicPush(c.bid_history, b) \in Seq(BidData)
    BY <1>1, <1>2, CyclicPushType DEF CycleState, BidData
  <2>2. e \in Nat
    BY <1>2 DEF EndAfterBid
  <2>3. [end_time |-> e, bid_history |-> CyclicPush(c.bid_history, b)] \in CycleState
    BY <2>1, <2>2 DEF CycleState
  <2> HIDE DEF b, e
  <2> QED
    BY <1>1, <2>3 DEF PlaceBid, TypeInv, TypeOK, b, e
<1>7. TypeOK'
  BY <1>4, <1>5, <1>6 DEF PlaceBid, TypeInv, TypeOK, rewardVars
<1>8. MastersExist'
  BY DEF PlaceBid, TypeInv, MastersExist, HasRoot, IsNft, rewardVars
<1> QED
  BY <1>7, <1>8 DEF TypeInv

LEMMA MovedToType ==
    ASSUME ContractTypeOK, NEW id \in AuctionIds, NEW to \in Pools, NEW from \in Pools
    PROVE  MovedTo(id, to, from) \in [Pools -> SUBSET AuctionIds]
BY DEF MovedTo, ContractTypeOK, Inserted, Removed

LEMMA BidType ==
    ASSUME ContractAssumption, AuctionAssumption, TypeInv,
           NEW id \in AuctionIds, NEW user \in Bidders, NEW amount \in BidAmounts,
           Bid(id, user, amount) \/ BidInactive(id, user, amount)
    PROVE  TypeInv'
<1>1. CurrentCycle(id) \in CycleState /\ root[id] \in RootState
  BY AccountTypes DEF TypeInv, Bid, BidInactive, HasCurrentCycle
<1>2. CASE Bid(id, user, amount)
  <2>1. CurrentCycle(id).end_time \in Nat
    BY <1>1 DEF CycleState
  <2> QED
    BY <1>2, <2>1, PlaceBidType DEF Bid, TypeInv, TypeOK, ContractTypeOK
<1>3. CASE BidInactive(id, user, amount)
  <2>1. now + root[id].auction_config.cycle_period \in Nat
    BY <1>1 DEF TypeInv, TypeOK, RootState, AuctionConfig
  <2>2. pool' \in [Pools -> SUBSET AuctionIds]
    BY <1>3, MovedToType DEF BidInactive, TypeInv, TypeOK, Pools
  <2> QED
    BY <1>3, <2>1, <2>2, PlaceBidType DEF BidInactive
<1> QED
  BY <1>2, <1>3

LEMMA SettledType ==
    ASSUME NEW r \in RootState, NEW won \in Nat, RewardCountable(r)
    PROVE  /\ Settled(r, won) \in RootState
           /\ Settled(r, won).auction_config = r.auction_config
           /\ Settled(r, won).current_auction_cycle = r.current_auction_cycle
<1> DEFINE funds == r.available_funds + won
           treasury == r.all_time_treasury + won
           unclaimed == r.unclaimed_rewards + 1
<1>0. MaxUnclaimed \in Nat
  BY AuctionAssumption DEF AuctionAssumption
<1>1. funds \in Nat /\ treasury \in Nat /\ unclaimed \in 0..MaxUnclaimed
  <2>1. /\ r.available_funds \in Nat
        /\ r.all_time_treasury \in Nat
        /\ r.unclaimed_rewards \in 0..MaxUnclaimed
    BY DEF RootState
  <2> QED
    BY <1>0, <2>1 DEF RewardCountable
<1>2. Settled(r, won) = [r EXCEPT !.available_funds = funds, !.all_time_treasury = treasury,
                                  !.current_idle_cycle_streak = 0,
                                  !.unclaimed_rewards = unclaimed]
  BY DEF Settled
<1> HIDE DEF funds, treasury, unclaimed
<1> QED
  <2> DEFINE paid == [r EXCEPT !.available_funds = funds, !.all_time_treasury = treasury]
  <2>1. /\ paid \in RootState
        /\ paid.auction_config = r.auction_config
        /\ paid.current_auction_cycle = r.current_auction_cycle
    BY <1>1 DEF RootState
  <2> DEFINE busy == [paid EXCEPT !.current_idle_cycle_streak = 0]
  <2>2. Settled(r, won) = [busy EXCEPT !.unclaimed_rewards = unclaimed]
    BY <1>2
  <2> HIDE DEF paid
  <2>3. /\ busy \in RootState
        /\ busy.auction_config = r.auction_config
        /\ busy.current_auction_cycle = r.current_auction_cycle
    BY <2>1 DEF RootState
  <2> HIDE DEF busy
  <2> QED
    BY <1>1, <2>2, <2>3 DEF RootState

LEMMA IncrementedUriType ==
    ASSUME ContractAssumption, AuctionAssumption, TypeInv, NEW id \in AuctionIds, HasRoot(id)
    PROVE  /\ IncrementedUri(id) \in [AuctionIds -> Nat \cup {NoAccount}]
           /\ \A other \in AuctionIds :
                 master[other] # NoAccount => IncrementedUri(id)[other] # NoAccount
<1>1. master \in [AuctionIds -> Nat \cup {NoAccount}]
  BY DEF TypeInv, TypeOK
<1>2. CASE root[id].auction_config.token_config = "Nft"
  <2> DEFINE uri == IF IsLastAuctionCycle(root[id]) THEN 0 ELSE master[id] + 1
  <2>1. master[id] \in Nat
    BY <1>1, <1>2 DEF TypeInv, MastersExist, IsNft
  <2>2. uri \in Nat
    BY <2>1
  <2>3. IncrementedUri(id) = [master EXCEPT ![id] = uri]
    BY <1>2 DEF IncrementedUri
  <2> HIDE DEF uri
  <2> QED
    BY <1>1, <2>2, <2>3 DEF ContractAssumption
<1>3. CASE root[id].auction_config.token_config # "Nft"
  BY <1>1, <1>3 DEF IncrementedUri
<1> QED
  BY <1>2, <1>3

LEMMA CloseIdleCycleType ==
    ASSUME ContractAssumption, AuctionAssumption, TypeInv, NEW id \in AuctionIds, CloseIdleCycle(id)
    PROVE  TypeInv' /\ HasRoot(id)'
<1>1. CurrentCycle(id) \in CycleState /\ root[id] \in RootState
      /\ root[id].current_auction_cycle \in CycleNumbers
  BY AccountTypes DEF TypeInv, CloseIdleCycle, CanClose, HasCurrentCycle
<1>2. ContractTypeOK'
  <2>1. pool' \in [Pools -> SUBSET AuctionIds]
    BY MovedToType DEF CloseIdleCycle, TypeInv, TypeOK, ContractTypeOK, Pools
  <2> QED
    BY <2>1 DEF CloseIdleCycle, TypeInv, TypeOK, ContractTypeOK
<1>3. cycle' \in [AuctionIds -> [CycleNumbers -> CycleState \cup {NoAccount}]]
  <2> DEFINE n == root[id].current_auction_cycle
             c == [cycle[id][n] EXCEPT !.end_time = @ + root[id].auction_config.cycle_period]
  <2>1. cycle' = [cycle EXCEPT ![id][n] = c]
    BY DEF CloseIdleCycle
  <2>2. cycle[id][n] \in CycleState /\ root[id].auction_config.cycle_period \in Nat
    BY <1>1 DEF CurrentCycle, RootState, AuctionConfig
  <2>3. c \in CycleState
    <3> DEFINE end == cycle[id][n].end_time + root[id].auction_config.cycle_period
    <3>1. end \in Nat
      <4>1. cycle[id][n].end_time \in Nat
        BY <2>2 DEF CycleState
      <4> QED
        BY <2>2, <4>1
    <3>2. c = [cycle[id][n] EXCEPT !.end_time = end]
      OBVIOUS
    <3> HIDE DEF end, c
    <3> QED
      BY <2>2, <3>1, <3>2 DEF CycleState
  <2> HIDE DEF c
  <2> QED
    BY <1>1, <2>1, <2>3 DEF TypeInv, TypeOK
<1>4. root'[id] \in RootState /\ root'[id].auction_config = root[id].auction_config
  <2>1. root' = [root EXCEPT ![id] =
            [root[id] EXCEPT !.current_idle_cycle_streak = root[id].current_idle_cycle_streak + 1]]
    BY DEF CloseIdleCycle
  <2> DEFINE streak == root[id].current_idle_cycle_streak + 1
  <2>2. streak \in Nat
    BY <1>1 DEF RootState
  <2>3. root'[id] = [root[id] EXCEPT !.current_idle_cycle_streak = streak]
    BY <2>1 DEF TypeInv, TypeOK
  <2> HIDE DEF streak
  <2> QED
    BY <1>1, <2>2, <2>3 DEF RootState
<1>5. root' = [root EXCEPT ![id] = root'[id]]
  BY DEF CloseIdleCycle, TypeInv, TypeOK
<1>6. TypeOK'
  BY <1>2, <1>3, <1>4, <1>5 DEF CloseIdleCycle, TypeInv, TypeOK, rewardVars
<1>7. MastersExist'
  BY <1>1, <1>4, <1>5 DEF CloseIdleCycle, CanClose, HasCurrentCycle, TypeInv, TypeOK, MastersExist,
                    HasRoot, IsNft, rewardVars
<1>10. HasRoot(id)'
  BY <1>4 DEF HasRoot, AuctionAssumption
<1> QED
  BY <1>6, <1>7, <1>10 DEF TypeInv

LEMMA CloseWonCycleType ==
    ASSUME ContractAssumption, AuctionAssumption, TypeInv, NEW id \in AuctionIds,
           CloseLastCycle(id) \/ (\E payer \in Users : CloseCycle(id, payer))
    PROVE  TypeInv' /\ HasRoot(id)'
<1> DEFINE won == TopBidAmount(CurrentCycle(id))
           settled == Settled(root[id], won)
<1>1. CurrentCycle(id) \in CycleState /\ root[id] \in RootState /\ HasRoot(id)
  BY AccountTypes DEF TypeInv, CloseLastCycle, CloseCycle, CanClose, HasCurrentCycle
<1>2. settled \in RootState /\ settled.auction_config = root[id].auction_config
  BY <1>1, SettledType, TopBidType DEF CloseLastCycle, CloseCycle
<1> HIDE DEF settled
<1>3. /\ master' = IncrementedUri(id)
      /\ UNCHANGED <<contract_bank_state, contract_bank, protocol_fee_state, max_len,
                     now, bank, children, tokens>>
  BY DEF CloseLastCycle, CloseCycle
<1>4. /\ pool' \in [Pools -> SUBSET AuctionIds]
      /\ wallet' \in [Users -> Nat]
      /\ cycle' \in [AuctionIds -> [CycleNumbers -> CycleState \cup {NoAccount}]]
      /\ root' = [root EXCEPT ![id] = root'[id]]
      /\ root'[id] \in RootState
      /\ root'[id].auction_config = root[id].auction_config
  <2>1. CASE CloseLastCycle(id)
    <3>1. /\ pool' = MovedTo(id, "secondary", "primary")
          /\ root' = [root EXCEPT ![id] = [settled EXCEPT
                 !.is_finished = TRUE, !.available_funds = FundsWithRent(settled)]]
          /\ UNCHANGED <<wallet, cycle>>
      BY <2>1 DEF CloseLastCycle, settled
    <3>2. FundsWithRent(settled) \in Nat
      BY <1>2 DEF FundsWithRent, RootState, AuctionAssumption
    <3>3. [settled EXCEPT !.is_finished = TRUE, !.available_funds = FundsWithRent(settled)]
              \in RootState
      BY <1>2, <3>2 DEF RootState
    <3>4. pool' \in [Pools -> SUBSET AuctionIds]
      BY <3>1, MovedToType DEF TypeInv, TypeOK, Pools
    <3> QED
      BY <1>2, <3>1, <3>3, <3>4 DEF TypeInv, TypeOK, ContractTypeOK, RootState
  <2>2. ASSUME NEW payer \in Users, CloseCycle(id, payer)
        PROVE  <1>4!1 /\ <1>4!2 /\ <1>4!3 /\ <1>4!4 /\ <1>4!5 /\ <1>4!6
    <3> DEFINE next == root[id].current_auction_cycle + 1
               c == [end_time |-> now + root[id].auction_config.cycle_period,
                     bid_history |-> <<>>]
    <3>1. /\ next \in CycleNumbers
          /\ wallet[payer] >= CycleStateRent
          /\ wallet' = [wallet EXCEPT ![payer] = @ - CycleStateRent]
          /\ cycle' = [cycle EXCEPT ![id][next] = c]
          /\ root' = [root EXCEPT ![id] = [settled EXCEPT !.current_auction_cycle = next]]
          /\ UNCHANGED pool
      BY <2>2 DEF CloseCycle, settled, TypeInv, TypeOK
    <3>2. c \in CycleState
      <4>1. now + root[id].auction_config.cycle_period \in Nat
        BY <1>1 DEF TypeInv, TypeOK, RootState, AuctionConfig
      <4>2. <<>> \in Seq(BidData)
        OBVIOUS
      <4> QED
        BY <4>1, <4>2 DEF CycleState
    <3> HIDE DEF next, c
    <3>3. [settled EXCEPT !.current_auction_cycle = next] \in RootState
      BY <1>2, <3>1 DEF RootState
    <3>4. wallet' \in [Users -> Nat]
      BY <3>1 DEF TypeInv, TypeOK, ContractTypeOK, AuctionAssumption
    <3> QED
      BY <1>2, <3>1, <3>2, <3>3, <3>4 DEF TypeInv, TypeOK, ContractTypeOK, RootState
  <2> QED
    BY <2>1, <2>2
<1>5. master' \in [AuctionIds -> Nat \cup {NoAccount}]
  BY <1>1, <1>3, IncrementedUriType
<1>6. TypeOK'
  <2>1. ContractTypeOK'
    BY <1>3, <1>4 DEF TypeInv, TypeOK, ContractTypeOK
  <2> QED
    BY ZenonT(30), <1>3, <1>4, <1>5, <2>1 DEF TypeInv, TypeOK
<1>7. MastersExist'
  <2> SUFFICES ASSUME NEW other \in AuctionIds, HasRoot(other)', IsNft(other)'
               PROVE  master'[other] # NoAccount
    BY DEF MastersExist
  <2>1. HasRoot(other) /\ IsNft(other)
    BY <1>1, <1>4 DEF HasRoot, IsNft, TypeInv, TypeOK
  <2> QED
    BY <1>1, <1>3, <2>1, IncrementedUriType DEF TypeInv, MastersExist
<1>10. HasRoot(id)'
  BY <1>4 DEF HasRoot, AuctionAssumption
<1> QED
  BY <1>6, <1>7, <1>10 DEF TypeInv

LEMMA ClaimFundsType ==
    ASSUME ContractAssumption, AuctionAssumption, TypeInv,
           NEW id \in AuctionIds, NEW amount \in ClaimAmounts, ClaimFunds(id, amount)
    PROVE  TypeInv' /\ HasRoot(id)'
<1>1. CurrentCycle(id) \in CycleState /\ root[id] \in RootState /\ HasRoot(id)
  BY AccountTypes DEF TypeInv, ClaimFunds, HasCurrentCycle
<1>2. /\ amount \in Nat
      /\ root[id].auction_owner \in Users
      /\ root[id].available_funds \in Nat
      /\ TopBidAmount(CurrentCycle(id)) \in Nat
  BY <1>1, TopBidType DEF AuctionAssumption, RootState
<1>3. PICK share \in FeeShares(amount) :
          /\ share <= amount
          /\ contract_bank' = contract_bank + share
          /\ wallet' = [wallet EXCEPT ![root[id].auction_owner] = @ + amount - share]
          /\ root' = [root EXCEPT ![id].available_funds = @ - TakenFromFunds(amount, share)]
  BY DEF ClaimFunds
<1>4. share \in Nat
  BY <1>2, FeeSharesNat DEF TypeInv, TypeOK
<1>5. ContractTypeOK'
  <2>1. contract_bank' \in Nat
    BY <1>3, <1>4 DEF TypeInv, TypeOK, ContractTypeOK
  <2>2. wallet' \in [Users -> Nat]
    BY <1>2, <1>3, <1>4 DEF TypeInv, TypeOK, ContractTypeOK
  <2> QED
    BY <2>1, <2>2 DEF ClaimFunds, TypeInv, TypeOK, ContractTypeOK
<1>6. /\ root' = [root EXCEPT ![id] = root'[id]]
      /\ root'[id] \in RootState
      /\ root'[id].auction_config = root[id].auction_config
  <2> DEFINE left == root[id].available_funds - amount
  <2>1. left \in Nat
    BY <1>2 DEF ClaimFunds
  <2>2. root' = [root EXCEPT ![id] = [root[id] EXCEPT !.available_funds = left]]
    BY <1>3 DEF TakenFromFunds
  <2> HIDE DEF left
  <2> QED
    BY <1>1, <2>1, <2>2 DEF TypeInv, TypeOK, RootState
<1>7. bank' \in [AuctionIds -> Nat]
  <2>1. bank[id] - amount \in Nat
    BY <1>2 DEF ClaimFunds, Claimable, TypeInv, TypeOK, AuctionAssumption
  <2> QED
    BY <2>1 DEF ClaimFunds, TypeInv, TypeOK
<1>8. TypeOK'
  BY <1>5, <1>6, <1>7 DEF ClaimFunds, TypeInv, TypeOK, rewardVars
<1>9. MastersExist'
  BY <1>1, <1>6 DEF ClaimFunds, TypeInv, TypeOK, MastersExist, HasRoot, IsNft, rewardVars
<1>10. HasRoot(id)'
  BY <1>6 DEF HasRoot, AuctionAssumption
<1> QED
  BY <1>8, <1>9, <1>10 DEF TypeInv

LEMMA DeliverRewardType ==
    ASSUME AuctionAssumption, TypeOK, NEW id \in AuctionIds, NEW n \in CycleNumbers,
           NEW winner \in Users, DeliverReward(id, n, winner)
    PROVE  /\ master' = master
           /\ children' \in [AuctionIds -> [CycleNumbers -> Users \cup {NoAccount}]]
           /\ tokens' \in [AuctionIds -> [Users -> Nat]]
<1>1. CASE root[id].auction_config.token_config = "Token"
  <2>1. tokens' = [tokens EXCEPT ![id][winner] = @ + 1] /\ UNCHANGED <<master, children>>
    BY <1>1 DEF DeliverReward
  <2> QED
    BY <2>1 DEF TypeOK
<1>2. CASE root[id].auction_config.token_config # "Token"
  <2>1. children' = [children EXCEPT ![id][n] = winner] /\ UNCHANGED <<master, tokens>>
    BY <1>2 DEF DeliverReward
  <2> QED
    BY <2>1 DEF TypeOK
<1> QED
  BY <1>1, <1>2

LEMMA ClaimRewardsType ==
    ASSUME ContractAssumption, AuctionAssumption, TypeInv,
           NEW id \in AuctionIds, NEW n \in CycleNumbers, ClaimRewards(id, n)
    PROVE  TypeInv' /\ HasRoot(id)'
<1>1. root[id] \in RootState /\ HasRoot(id)
  BY AccountTypes DEF TypeInv, ClaimRewards, RewardIsDue
<1>2. cycle[id][n] \in CycleState /\ HasBid(cycle[id][n])
  BY DEF TypeInv, TypeOK, ClaimRewards, RewardIsDue
<1>3. TopBid(cycle[id][n]).bidder_pubkey \in Users
  BY <1>2, TopBidType DEF BidData
<1>4. /\ master' = master
      /\ children' \in [AuctionIds -> [CycleNumbers -> Users \cup {NoAccount}]]
      /\ tokens' \in [AuctionIds -> [Users -> Nat]]
  BY <1>3, DeliverRewardType DEF TypeInv, ClaimRewards
<1>5. /\ root' = [root EXCEPT ![id] = root'[id]]
      /\ root'[id] \in RootState
      /\ root'[id].auction_config = root[id].auction_config
  <2> DEFINE left == root[id].unclaimed_rewards - 1
  <2>1. left \in 0..MaxUnclaimed
    <3>1. root[id].unclaimed_rewards \in 0..MaxUnclaimed
      BY <1>1 DEF RootState
    <3> QED
      BY <3>1 DEF ClaimRewards, AuctionAssumption
  <2>2. root' = [root EXCEPT ![id] = [root[id] EXCEPT !.unclaimed_rewards = left]]
    BY DEF ClaimRewards, RewardTaken
  <2> HIDE DEF left
  <2> QED
    BY <1>1, <2>1, <2>2 DEF TypeInv, TypeOK, RootState
<1>6. cycle' \in [AuctionIds -> [CycleNumbers -> CycleState \cup {NoAccount}]]
  <2> DEFINE c == [cycle[id][n] EXCEPT !.end_time = 0]
  <2>1. c \in CycleState
    BY <1>2 DEF CycleState
  <2>2. cycle' = [cycle EXCEPT ![id][n] = c]
    BY DEF ClaimRewards
  <2> HIDE DEF c
  <2> QED
    BY <2>1, <2>2 DEF TypeInv, TypeOK
<1>7. TypeOK'
  BY <1>4, <1>5, <1>6 DEF ClaimRewards, TypeInv, TypeOK, ContractTypeOK, contractVars
<1>8. MastersExist'
  BY <1>1, <1>4, <1>5 DEF TypeInv, TypeOK, MastersExist, HasRoot, IsNft
<1>10. HasRoot(id)'
  BY <1>5 DEF HasRoot, AuctionAssumption
<1> QED
  BY <1>7, <1>8, <1>10 DEF TypeInv

LEMMA DeletableType ==
    ASSUME ContractAssumption, AuctionAssumption, TypeInv,
           NEW id \in AuctionIds, NEW owner, NEW left \in Nat, HasRoot(id),
           left < root[id].current_auction_cycle, DeletableDownTo(id, owner, left)
    PROVE  /\ root[id] \in RootState
           /\ CurrentCycle(id) \in CycleState
           /\ RefundOnDelete(id) \in Nat
           /\ bank[id] - RefundOnDelete(id) \in Nat
           /\ WalletsAfterRefund(id) \in [Users -> Nat]
           /\ CyclesDownTo(id, left) \in
                  [AuctionIds -> [CycleNumbers -> CycleState \cup {NoAccount}]]
<1>1. root[id] \in RootState /\ root[id].current_auction_cycle \in CycleNumbers
  BY AccountTypes DEF TypeInv
<1>2. root[id].current_auction_cycle \in Nat
  BY <1>1 DEF CycleNumbers, AuctionAssumption
<1>3. HasCurrentCycle(id)
  BY <1>1, <1>2 DEF DeletableDownTo, HasCurrentCycle, CurrentCycle
<1>4. CurrentCycle(id) \in CycleState
  BY <1>3, AccountTypes DEF TypeInv
<1>5. RefundOnDelete(id) \in Nat
  BY <1>4, TopBidType DEF RefundOnDelete
<1>6. bank[id] - RefundOnDelete(id) \in Nat
  BY <1>5 DEF DeletableDownTo, TypeInv, TypeOK
<1>7. WalletsAfterRefund(id) \in [Users -> Nat]
  <2>1. wallet \in [Users -> Nat]
    BY DEF TypeInv, TypeOK, ContractTypeOK
  <2>2. Refunded(wallet, CurrentCycle(id)) \in [Users -> Nat]
    BY <1>4, <2>1, RefundedType
  <2> QED
    BY <2>1, <2>2 DEF WalletsAfterRefund
<1>8. CyclesDownTo(id, left) \in [AuctionIds -> [CycleNumbers -> CycleState \cup {NoAccount}]]
  BY DEF CyclesDownTo, TypeInv, TypeOK
<1> QED
  BY <1>1, <1>4, <1>5, <1>6, <1>7, <1>8

LEMMA DeleteCyclesType ==
    ASSUME ContractAssumption, AuctionAssumption, TypeInv,
           NEW id \in AuctionIds, NEW owner \in Users, NEW batch \in Nat \ {0},
           DeleteCycles(id, owner, batch)
    PROVE  TypeInv' /\ HasRoot(id)'
<1> DEFINE left == root[id].current_auction_cycle - batch
           frozen == root[id].is_frozen \/ IsOngoing(root[id])
<1>1. HasRoot(id) /\ root[id].current_auction_cycle \in CycleNumbers
  BY AccountTypes DEF TypeInv, DeleteCycles
<1>2. left \in CycleNumbers /\ left \in Nat /\ left < root[id].current_auction_cycle
  BY <1>1 DEF DeleteCycles, CycleNumbers, AuctionAssumption
<1>3. /\ DeletableDownTo(id, owner, left)
      /\ cycle' = CyclesDownTo(id, left)
      /\ root' = [root EXCEPT ![id] = [[root[id] EXCEPT !.current_auction_cycle = left]
                                            EXCEPT !.is_frozen = frozen]]
      /\ bank' = [bank EXCEPT ![id] = @ - RefundOnDelete(id)]
      /\ wallet' = WalletsAfterRefund(id)
      /\ contract_bank' = contract_bank + batch * CycleStateRent
      /\ UNCHANGED <<contract_bank_state, protocol_fee_state, pool, max_len, now, rewardVars>>
  BY DEF DeleteCycles, TypeInv, TypeOK
<1> HIDE DEF left
<1>4. /\ root[id] \in RootState
      /\ bank[id] - RefundOnDelete(id) \in Nat
      /\ wallet' \in [Users -> Nat]
      /\ cycle' \in [AuctionIds -> [CycleNumbers -> CycleState \cup {NoAccount}]]
  BY <1>1, <1>2, <1>3, DeletableType
<1>5. contract_bank' \in Nat
  <2>1. batch * CycleStateRent \in Nat
    BY DEF AuctionAssumption
  <2> QED
    BY <1>3, <2>1 DEF TypeInv, TypeOK, ContractTypeOK
<1>6. /\ root' = [root EXCEPT ![id] = root'[id]]
      /\ root'[id] \in RootState
      /\ root'[id].auction_config = root[id].auction_config
  <2> DEFINE r == [root[id] EXCEPT !.current_auction_cycle = left]
  <2>1. r \in RootState /\ r.auction_config = root[id].auction_config
    BY <1>2, <1>4 DEF RootState
  <2>2. frozen \in BOOLEAN
    BY <1>4 DEF IsOngoing, RootState
  <2>3. root' = [root EXCEPT ![id] = [r EXCEPT !.is_frozen = frozen]]
    BY <1>3
  <2> HIDE DEF r, frozen
  <2>4. [r EXCEPT !.is_frozen = frozen] \in RootState
    BY <2>1, <2>2 DEF RootState
  <2> QED
    BY <2>1, <2>3, <2>4 DEF TypeInv, TypeOK, RootState
<1>7. ContractTypeOK'
  BY <1>3, <1>4, <1>5 DEF TypeInv, TypeOK, ContractTypeOK
<1>8. TypeOK'
  BY <1>3, <1>4, <1>6, <1>7 DEF TypeInv, TypeOK, rewardVars
<1>9. MastersExist'
  BY <1>1, <1>3, <1>6 DEF TypeInv, TypeOK, MastersExist, HasRoot, IsNft, rewardVars
<1>10. HasRoot(id)'
  BY <1>6 DEF HasRoot, AuctionAssumption
<1> QED
  BY <1>8, <1>9, <1>10 DEF TypeInv

LEMMA DeleteAuctionType ==
    ASSUME ContractAssumption, AuctionAssumption, TypeInv,
           NEW id \in AuctionIds, NEW owner \in Users, NEW batch \in Nat \ {0},
           DeleteAuction(id, owner, batch)
    PROVE  TypeInv'
<1> DEFINE rest == bank[id] - RefundOnDelete(id)
<1>1. HasRoot(id) /\ root[id].current_auction_cycle \in CycleNumbers /\ owner \in Users
  BY AccountTypes DEF TypeInv, DeleteAuction, AuctionAssumption
<1>2. root[id].current_auction_cycle \in Nat /\ 0 < root[id].current_auction_cycle
  BY <1>1 DEF CycleNumbers, AuctionAssumption
<1>3. DeletableDownTo(id, owner, 0) /\ 0 \in Nat
  BY DEF DeleteAuction
<1>4. /\ rest \in Nat
      /\ WalletsAfterRefund(id) \in [Users -> Nat]
      /\ CyclesDownTo(id, 0) \in [AuctionIds -> [CycleNumbers -> CycleState \cup {NoAccount}]]
  BY <1>1, <1>2, <1>3, DeletableType
<1>5. PICK share \in FeeShares(rest) :
          /\ share <= rest
          /\ contract_bank' = contract_bank + share
                 + root[id].current_auction_cycle * CycleStateRent
          /\ wallet' = [WalletsAfterRefund(id) EXCEPT ![owner] = @ + rest - share + RootStateRent]
  BY DEF DeleteAuction
<1> HIDE DEF rest
<1>6. share \in Nat
  BY <1>4, FeeSharesNat DEF TypeInv, TypeOK
<1>7. ContractTypeOK'
  <2>1. contract_bank' \in Nat
    <3>1. root[id].current_auction_cycle * CycleStateRent \in Nat
      BY <1>2 DEF AuctionAssumption
    <3> QED
      BY <1>5, <1>6, <3>1 DEF TypeInv, TypeOK, ContractTypeOK
  <2>2. wallet' \in [Users -> Nat]
    <3>1. WalletsAfterRefund(id)[owner] + rest - share + RootStateRent \in Nat
      BY <1>1, <1>4, <1>5, <1>6 DEF AuctionAssumption
    <3> QED
      BY <1>1, <1>4, <1>5, <3>1
  <2>3. pool' \in [Pools -> SUBSET AuctionIds]
    BY DEF DeleteAuction, Removed, TypeInv, TypeOK, ContractTypeOK
  <2> QED
    BY <2>1, <2>2, <2>3 DEF DeleteAuction, TypeInv, TypeOK, ContractTypeOK
<1>8. TypeOK'
  BY <1>4, <1>7 DEF DeleteAuction, TypeInv, TypeOK, rewardVars
<1>9. MastersExist'
  BY DEF DeleteAuction, TypeInv, TypeOK, MastersExist, HasRoot, IsNft, rewardVars
<1> QED
  BY <1>8, <1>9 DEF TypeInv

LEMMA AdministerType ==
    ASSUME ContractAssumption, AuctionAssumption, TypeInv, NEW id \in AuctionIds, Administer(id)
    PROVE  TypeInv' /\ HasRoot(id)'
<1> DEFINE Kept ==
        /\ root' = [root EXCEPT ![id] = root'[id]]
        /\ root'[id] \in RootState
        /\ root'[id].auction_config.token_config = root[id].auction_config.token_config
        /\ HasRoot(id)
        /\ UNCHANGED <<now, cycle, bank, rewardVars>>
        /\ UNCHANGED <<contract_bank_state, contract_bank, protocol_fee_state, max_len, wallet>>
        /\ pool' \in [Pools -> SUBSET AuctionIds]
<1>1. ASSUME NEW admin \in Users, NEW filter \in Filters, FilterAuction(id, admin, filter)
      PROVE  Kept
  <2>1. root[id] \in RootState /\ filter \in BOOLEAN /\ HasRoot(id)
    BY <1>1, AccountTypes DEF TypeInv, FilterAuction, AuctionAssumption
  <2>2. root' = [root EXCEPT ![id] = [root[id] EXCEPT !.is_filtered = filter]]
    BY <1>1 DEF FilterAuction
  <2>3. pool' \in [Pools -> SUBSET AuctionIds]
    BY <1>1, MovedToType DEF FilterAuction, TypeInv, TypeOK, Pools
  <2> QED
    <3> DEFINE r == [root[id] EXCEPT !.is_filtered = filter]
    <3>1. r \in RootState /\ r.auction_config = root[id].auction_config
      BY <2>1 DEF RootState
    <3> HIDE DEF r
    <3>2. root'[id] = r
      BY <2>2 DEF TypeInv, TypeOK, r
    <3> QED
      BY <1>1, <2>1, <2>2, <2>3, <3>1, <3>2 DEF FilterAuction, r
<1>2. ASSUME NEW owner \in Owners, NEW encore \in EncorePeriods, ModifyAuction(id, owner, encore)
      PROVE  Kept
  <2> DEFINE config == [root[id].auction_config EXCEPT !.encore_period = encore]
  <2>1. root[id] \in RootState /\ encore \in Nat /\ HasRoot(id)
    BY <1>2, AccountTypes DEF TypeInv, ModifyAuction, IsAuctionOwner
  <2>2. root[id].auction_config \in AuctionConfig
    BY <2>1 DEF RootState
  <2>3. config \in AuctionConfig /\ config.token_config = root[id].auction_config.token_config
    BY <2>1, <2>2 DEF AuctionConfig
  <2>4. root' = [root EXCEPT ![id] = [root[id] EXCEPT !.auction_config = config]]
    BY <1>2 DEF ModifyAuction
  <2> HIDE DEF config
  <2> DEFINE r == [root[id] EXCEPT !.auction_config = config]
  <2>5. r \in RootState /\ r.auction_config = config
    BY <2>1, <2>3 DEF RootState
  <2>6. root'[id] = r
    BY <2>4 DEF TypeInv, TypeOK
  <2>7. pool' \in [Pools -> SUBSET AuctionIds]
    BY <1>2 DEF ModifyAuction, contractVars, TypeInv, TypeOK, ContractTypeOK
  <2> QED
    BY <1>2, <2>1, <2>3, <2>4, <2>5, <2>6, <2>7 DEF ModifyAuction, contractVars
<1>3. ASSUME NEW admin \in Users, VerifyAuction(id, admin)
      PROVE  Kept
  <2>1. root[id] \in RootState /\ HasRoot(id)
    BY <1>3, AccountTypes DEF TypeInv, VerifyAuction
  <2>2. root' = [root EXCEPT ![id] = [root[id] EXCEPT !.is_verified = TRUE]]
    BY <1>3 DEF VerifyAuction
  <2> QED
    <3> DEFINE r == [root[id] EXCEPT !.is_verified = TRUE]
    <3>1. r \in RootState /\ r.auction_config = root[id].auction_config
      BY <2>1 DEF RootState
    <3>2. root'[id] = r
      BY <2>2 DEF TypeInv, TypeOK
    <3>3. pool' \in [Pools -> SUBSET AuctionIds]
      BY <1>3 DEF VerifyAuction, contractVars, TypeInv, TypeOK, ContractTypeOK
    <3> QED
      BY <1>3, <2>1, <2>2, <3>1, <3>2, <3>3 DEF VerifyAuction, contractVars
<1>4. Kept
  BY <1>1, <1>2, <1>3 DEF Administer
<1>5. TypeOK'
  BY <1>4 DEF TypeInv, TypeOK, ContractTypeOK, rewardVars
<1>6. MastersExist'
  BY <1>4 DEF TypeInv, TypeOK, MastersExist, HasRoot, IsNft, rewardVars
<1>10. HasRoot(id)'
  BY <1>4 DEF HasRoot, AuctionAssumption
<1> QED
  BY <1>5, <1>6, <1>10 DEF TypeInv

LEMMA EnvironmentType ==
    ASSUME ContractAssumption, AuctionAssumption, TypeInv,
           \/ Tick
           \/ \E id \in AuctionIds, user \in Bidders, amount \in Deposits : Deposit(id, user, amount)
    PROVE  TypeInv'
<1>1. CASE Tick
  <2>1. TypeOK'
    BY <1>1 DEF Tick, TypeInv, TypeOK, ContractTypeOK, contractVars, stateVars, rewardVars
  <2>2. MastersExist'
    BY <1>1 DEF Tick, TypeInv, MastersExist, HasRoot, IsNft, stateVars, rewardVars
  <2> QED
    BY <2>1, <2>2 DEF TypeInv
<1>2. ASSUME NEW id \in AuctionIds, NEW user \in Bidders, NEW amount \in Deposits,
             Deposit(id, user, amount)
      PROVE  TypeInv'
  <2>1. amount \in Nat /\ user \in Users
    BY DEF AuctionAssumption
  <2>2. ContractTypeOK'
    BY <1>2, <2>1 DEF Deposit, TypeInv, TypeOK, ContractTypeOK
  <2>3. TypeOK'
    BY <1>2, <2>1, <2>2 DEF Deposit, TypeInv, TypeOK, rewardVars
  <2>4. MastersExist'
    BY <1>2 DEF Deposit, TypeInv, MastersExist, HasRoot, IsNft, rewardVars
  <2> QED
    BY <2>3, <2>4 DEF TypeInv
<1> QED
  BY <1>1, <1>2

-----------------------------------------------------------------------------

LEMMA TypeStep ==
    ASSUME ContractAssumption, AuctionAssumption, TypeInv, [Next]_vars
    PROVE  TypeInv'
<1>1. CASE NextContract /\ UNCHANGED <<now, stateVars, rewardVars>>
  BY <1>1, ContractType
<1>2. ASSUME NEW id \in AuctionIds, Start(id) PROVE TypeInv'
  BY <1>2, InitializeAuctionType DEF Start
<1>3. ASSUME NEW id \in AuctionIds, AnyBid(id) PROVE TypeInv'
  BY <1>3, BidType DEF AnyBid
<1>4. ASSUME NEW id \in AuctionIds, Close(id) PROVE TypeInv'
  BY <1>4, CloseIdleCycleType, CloseWonCycleType DEF Close, AuctionAssumption
<1>5. ASSUME NEW id \in AuctionIds, Claim(id) PROVE TypeInv'
  BY <1>5, ClaimFundsType, ClaimRewardsType DEF Claim
<1>6. ASSUME NEW id \in AuctionIds, Delete(id) PROVE TypeInv'
  BY <1>6, DeleteCyclesType, DeleteAuctionType DEF Delete, AuctionAssumption
<1>7. ASSUME NEW id \in AuctionIds, Administer(id) PROVE TypeInv'
  BY <1>7, AdministerType
<1>8. ASSUME NEW id \in AuctionIds, NEW user \in Bidders, NEW amount \in Deposits,
             Deposit(id, user, amount)
      PROVE  TypeInv'
  BY <1>8, EnvironmentType
<1>9. CASE Tick
  BY <1>9, EnvironmentType
<1>10. CASE UNCHANGED vars
  BY <1>10 DEF vars, contractVars, stateVars, rewardVars, TypeInv, TypeOK, ContractTypeOK,
               MastersExist, HasRoot, IsNft
<1> QED
  BY <1>1, <1>2, <1>3, <1>4, <1>5, <1>6, <1>7, <1>8, <1>9, <1>10 DEF Next

LEMMA TypeInvariant == Spec => []TypeInv
<1>1. Init => TypeInv
  BY InitType, ContractAssumption, AuctionAssumption
<1>2. TypeInv /\ [Next]_vars => TypeInv'
  BY TypeStep, ContractAssumption, AuctionAssumption
<1> QED
  BY <1>1, <1>2, PTL DEF Spec

(* In every reachable state each account and each wallet holds a value of  *)
(* its type: no checked subtraction of the program goes below zero, and    *)
(* unclaimed_rewards keeps its width.                                      *)
THEOREM TypeCorrect == Spec => []TypeOK
<1>1. TypeInv => TypeOK
  BY DEF TypeInv
<1> QED
  BY <1>1, TypeInvariant, PTL


-----------------------------------------------------------------------------
(* The contract bank and the two pools.  That the pools list exactly the   *)
(* existing auctions rests on the contract's state: no auction exists      *)
(* before initialize_contract, the only instruction that empties the       *)
(* pools, and it cannot run a second time.                                 *)

RootsNeedContract ==
    \A id \in AuctionIds : HasRoot(id) => contract_bank_state # NoAccount

ContractInv == ContractBankRentExempt /\ RootsNeedContract

(* An instruction of module Auction. *)
AuctionStep(id) ==
    \/ Start(id) \/ AnyBid(id) \/ Close(id) \/ Claim(id) \/ Delete(id) \/ Administer(id)
    \/ \E user \in Bidders, amount \in Deposits : Deposit(id, user, amount)

LEMMA StepCases ==
    ASSUME [Next]_vars
    PROVE  \/ NextContract /\ UNCHANGED <<now, stateVars, rewardVars>>
           \/ \E id \in AuctionIds : AuctionStep(id)
           \/ UNCHANGED <<contractVars, stateVars, rewardVars>>
BY DEF Next, AuctionStep, Tick, vars

LEMMA ClaimShare ==
    ASSUME ContractAssumption, AuctionAssumption, TypeInv, NEW id \in AuctionIds,
           NEW amount \in ClaimAmounts, ClaimFunds(id, amount)
    PROVE  contract_bank' \in Nat /\ contract_bank' >= contract_bank
<1>1. PICK share \in FeeShares(amount) : contract_bank' = contract_bank + share
  BY DEF ClaimFunds
<1>2. share \in Nat
  BY FeeSharesNat DEF AuctionAssumption, TypeInv, TypeOK
<1> QED
  BY <1>1, <1>2 DEF TypeInv, TypeOK, ContractTypeOK

LEMMA DeleteShare ==
    ASSUME ContractAssumption, AuctionAssumption, TypeInv, NEW id \in AuctionIds,
           NEW owner \in Owners, NEW batch \in DeleteBatches,
           DeleteCycles(id, owner, batch) \/ DeleteAuction(id, owner, batch)
    PROVE  contract_bank' \in Nat /\ contract_bank' >= contract_bank
<1>0. contract_bank \in Nat
  BY DEF TypeInv, TypeOK, ContractTypeOK
<1>1. CASE DeleteCycles(id, owner, batch)
  <2>1. batch * CycleStateRent \in Nat
    BY DEF AuctionAssumption
  <2> QED
    BY <1>0, <1>1, <2>1 DEF DeleteCycles
<1>2. CASE DeleteAuction(id, owner, batch)
  <2> DEFINE rest == bank[id] - RefundOnDelete(id)
  <2>1. HasRoot(id) /\ DeletableDownTo(id, owner, 0)
    BY <1>2 DEF DeleteAuction
  <2>2. root[id].current_auction_cycle \in Nat /\ 0 < root[id].current_auction_cycle
    BY <2>1, AccountTypes DEF TypeInv, CycleNumbers, AuctionAssumption
  <2>3. rest \in Nat
    BY <2>1, <2>2, DeletableType
  <2>4. PICK share \in FeeShares(rest) :
            contract_bank' = contract_bank + share + root[id].current_auction_cycle * CycleStateRent
    BY <1>2 DEF DeleteAuction
  <2>5. share \in Nat
    BY <2>3, FeeSharesNat DEF TypeInv, TypeOK
  <2>6. root[id].current_auction_cycle * CycleStateRent \in Nat
    BY <2>2 DEF AuctionAssumption
  <2> QED
    BY <1>0, <2>4, <2>5, <2>6
<1> QED
  BY <1>1, <1>2

(* The ways a step of an auction may change the pools and its root state.  *)
Placed(id) ==
    /\ ~HasRoot(id) /\ HasRoot(id)'
    /\ contract_bank_state # NoAccount
    /\ CanMoveTo(id, "primary")
    /\ pool' = [pool EXCEPT !["primary"] = Inserted(@, id)]

Moved(id) ==
    \E to, from \in Pools :
        /\ to # from
        /\ HasRoot(id) /\ HasRoot(id)'
        /\ CanMoveTo(id, to)
        /\ pool' = MovedTo(id, to, from)

Dropped(id) ==
    /\ HasRoot(id) /\ ~HasRoot(id)'
    /\ pool' = [p \in Pools |-> Removed(pool[p], id)]

Stayed(id) ==
    /\ HasRoot(id) /\ HasRoot(id)'
    /\ pool' = pool

Untouched(id) == pool' = pool /\ root' = root

ContractKept ==
    /\ contract_bank_state' = contract_bank_state
    /\ max_len' = max_len
    /\ contract_bank' \in Nat /\ contract_bank' >= contract_bank

LEMMA AuctionStepOnPools ==
    ASSUME ContractAssumption, AuctionAssumption, TypeInv, NEW id \in AuctionIds, AuctionStep(id)
    PROVE  /\ ContractKept
           /\ \A other \in AuctionIds \ {id} : root'[other] = root[other]
           /\ Placed(id) \/ Moved(id) \/ Dropped(id) \/ Stayed(id) \/ Untouched(id)
<1> DEFINE Goal ==
        /\ ContractKept
        /\ \A other \in AuctionIds \ {id} : root'[other] = root[other]
        /\ Placed(id) \/ Moved(id) \/ Dropped(id) \/ Stayed(id) \/ Untouched(id)
<1>0. contract_bank \in Nat /\ root \in [AuctionIds -> RootState \cup {NoAccount}]
  BY DEF TypeInv, TypeOK, ContractTypeOK
<1>1. ASSUME NEW owner \in Owners, NEW config \in AuctionConfigs,
             NEW start \in StartTimes \cup {now}, InitializeAuction(id, owner, config, start)
      PROVE  Goal
  <2>1. HasRoot(id)'
    BY <1>1, InitializeAuctionType
  <2> QED
    BY <1>0, <1>1, <2>1 DEF InitializeAuction, Placed, ContractKept
<1>2. ASSUME NEW user \in Bidders, NEW amount \in BidAmounts, Bid(id, user, amount)
      PROVE  Goal
  BY <1>0, <1>2 DEF Bid, PlaceBid, Untouched, ContractKept
<1>3. ASSUME NEW user \in Bidders, NEW amount \in BidAmounts, BidInactive(id, user, amount)
      PROVE  Goal
  <2>1. ContractKept /\ root' = root
    BY <1>0, <1>3 DEF BidInactive, PlaceBid, ContractKept
  <2>2. Moved(id)
    BY <1>3, <2>1 DEF BidInactive, HasCurrentCycle, HasRoot, Moved, Pools
  <2> QED
    BY <2>1, <2>2
<1>4. ASSUME CloseIdleCycle(id) PROVE Goal
  <2>1. HasRoot(id) /\ HasRoot(id)'
    BY <1>4, CloseIdleCycleType DEF CloseIdleCycle, CanClose, HasCurrentCycle
  <2>2. ContractKept /\ \A other \in AuctionIds \ {id} : root'[other] = root[other]
    BY <1>0, <1>4 DEF CloseIdleCycle, ContractKept
  <2>3. CASE pool' = pool
    BY <2>1, <2>2, <2>3 DEF Stayed
  <2>4. CASE CanMoveTo(id, "secondary") /\ pool' = MovedTo(id, "secondary", "primary")
    <3>1. Moved(id)
      BY <2>1, <2>4 DEF Moved, Pools
    <3> QED
      BY <2>2, <3>1
  <2> QED
    BY <1>4, <2>3, <2>4 DEF CloseIdleCycle
<1>5. ASSUME CloseLastCycle(id) PROVE Goal
  <2>1. HasRoot(id) /\ HasRoot(id)'
    BY <1>5, CloseWonCycleType DEF CloseLastCycle, CanClose, HasCurrentCycle
  <2>2. ContractKept /\ \A other \in AuctionIds \ {id} : root'[other] = root[other]
    BY <1>0, <1>5 DEF CloseLastCycle, ContractKept
  <2>3. Moved(id)
    BY <1>5, <2>1 DEF CloseLastCycle, Moved, Pools
  <2> QED
    BY <2>2, <2>3
<1>6. ASSUME NEW payer \in Payers, CloseCycle(id, payer)
      PROVE  Goal
  <2>1. HasRoot(id) /\ HasRoot(id)'
    BY <1>6, CloseWonCycleType DEF CloseCycle, CanClose, HasCurrentCycle
  <2> QED
    BY <1>0, <1>6, <2>1 DEF CloseCycle, ContractKept, Stayed
<1>7. ASSUME NEW amount \in ClaimAmounts, ClaimFunds(id, amount)
      PROVE  Goal
  <2>1. HasRoot(id) /\ HasRoot(id)'
    BY <1>7, ClaimFundsType DEF ClaimFunds, HasCurrentCycle
  <2>2. ContractKept
    BY <1>7, ClaimShare DEF ClaimFunds, ContractKept
  <2>3. pool' = pool /\ \A other \in AuctionIds \ {id} : root'[other] = root[other]
    BY <1>0, <1>7 DEF ClaimFunds
  <2> QED
    BY <2>1, <2>2, <2>3 DEF Stayed
<1>8. ASSUME NEW n \in CycleNumbers, ClaimRewards(id, n)
      PROVE  Goal
  <2>1. HasRoot(id) /\ HasRoot(id)'
    BY <1>8, ClaimRewardsType DEF ClaimRewards, RewardIsDue
  <2> QED
    BY <1>0, <1>8, <2>1 DEF ClaimRewards, contractVars, ContractKept, Stayed
<1>9. ASSUME NEW owner \in Owners, NEW batch \in DeleteBatches, DeleteCycles(id, owner, batch)
      PROVE  Goal
  <2>1. HasRoot(id) /\ HasRoot(id)'
    BY <1>9, DeleteCyclesType DEF DeleteCycles, AuctionAssumption
  <2>2. ContractKept
    BY <1>9, DeleteShare DEF DeleteCycles, ContractKept
  <2> QED
    BY <1>0, <1>9, <2>1, <2>2 DEF DeleteCycles, Stayed
<1>10. ASSUME NEW owner \in Owners, NEW batch \in DeleteBatches, DeleteAuction(id, owner, batch)
       PROVE  Goal
  <2>1. ContractKept
    BY <1>10, DeleteShare DEF DeleteAuction, ContractKept
  <2>2. Dropped(id)
    BY <1>0, <1>10 DEF DeleteAuction, Dropped, HasRoot
  <2> QED
    BY <1>0, <1>10, <2>1, <2>2 DEF DeleteAuction
<1>11. ASSUME Administer(id) PROVE Goal
  <2>1. HasRoot(id)'
    BY <1>11, AdministerType
  <2>2. ASSUME NEW admin \in Users, NEW filter \in Filters, FilterAuction(id, admin, filter)
        PROVE  Goal
    <3>1. Moved(id)
      BY <2>1, <2>2 DEF FilterAuction, Moved, Pools
    <3> QED
      BY <1>0, <2>2, <3>1 DEF FilterAuction, ContractKept
  <2>3. ASSUME NEW owner \in Owners, NEW encore \in EncorePeriods, ModifyAuction(id, owner, encore)
        PROVE  Goal
    BY <1>0, <2>1, <2>3 DEF ModifyAuction, IsAuctionOwner, contractVars, ContractKept, Stayed
  <2>4. ASSUME NEW admin \in Users, VerifyAuction(id, admin)
        PROVE  Goal
    BY <1>0, <2>1, <2>4 DEF VerifyAuction, contractVars, ContractKept, Stayed
  <2> QED
    BY <1>11, <2>2, <2>3, <2>4 DEF Administer
<1>12. ASSUME NEW user \in Bidders, NEW amount \in Deposits, Deposit(id, user, amount)
       PROVE  Goal
  BY <1>0, <1>12 DEF Deposit, ContractKept, Untouched
<1> HIDE DEF Goal
<1>13. ASSUME Start(id) PROVE Goal
  BY <1>1, <1>13 DEF Start
<1>14. ASSUME AnyBid(id) PROVE Goal
  BY <1>2, <1>3, <1>14 DEF AnyBid
<1>15. ASSUME Close(id) PROVE Goal
  BY <1>4, <1>5, <1>6, <1>15 DEF Close
<1>16. ASSUME Claim(id) PROVE Goal
  BY <1>7, <1>8, <1>16 DEF Claim
<1>17. ASSUME Delete(id) PROVE Goal
  BY <1>9, <1>10, <1>17 DEF Delete
<1>18. Goal
  BY <1>11, <1>12, <1>13, <1>14, <1>15, <1>16, <1>17 DEF AuctionStep
<1> QED
  BY <1>18 DEF Goal

-----------------------------------------------------------------------------
(* The contract bank *)

LEMMA ContractInvStep ==
    ASSUME ContractAssumption, AuctionAssumption, TypeInv, ContractInv, [Next]_vars
    PROVE  ContractInv'
<1>0. contract_bank \in Nat
  BY DEF TypeInv, TypeOK, ContractTypeOK
<1>1. ASSUME NextContract, UNCHANGED <<now, stateVars, rewardVars>>
      PROVE  ContractInv'
  <2>1. PICK user \in Users :
        \/ \E authority \in Users, len \in PoolLens : InitializeContract(user, authority, len)
        \/ \E amount \in Withdrawals : AdminWithdraw(user, amount)
        \/ \E new \in NewAuthorities : AdminWithdrawReassign(user, new)
        \/ \E fee \in Fees : SetProtocolFee(user, fee)
        \/ \E p \in Pools, len \in PoolLens : ReallocatePool(user, p, len)
    BY <1>1 DEF NextContract
  <2>2. \A id \in AuctionIds : HasRoot(id)' <=> HasRoot(id)
    BY <1>1 DEF HasRoot, stateVars
  <2>3. ASSUME NEW authority \in Users, NEW len \in PoolLens,
               InitializeContract(user, authority, len)
        PROVE  ContractInv'
    BY <2>2, <2>3 DEF InitializeContract, ContractInv, ContractBankRentExempt, RootsNeedContract,
                      ContractAssumption
  <2>4. ASSUME NEW amount \in Withdrawals, AdminWithdraw(user, amount)
        PROVE  ContractInv'
    <3>1. /\ contract_bank_state' = contract_bank_state
          /\ contract_bank' = contract_bank - amount
          /\ amount <= contract_bank - ContractBankRent
      BY <2>4 DEF AdminWithdraw, Withdrawable
    <3>2. amount \in Nat /\ ContractBankRent \in Nat
      BY DEF ContractAssumption
    <3>3. contract_bank' >= ContractBankRent
      BY <1>0, <3>1, <3>2
    <3> QED
      BY <2>2, <3>1, <3>3 DEF ContractInv, ContractBankRentExempt, RootsNeedContract
  <2>5. ASSUME NEW new \in NewAuthorities, AdminWithdrawReassign(user, new)
        PROVE  ContractInv'
    <3>1. contract_bank_state' # NoAccount
      BY <2>5, ContractType, <1>1 DEF AdminWithdrawReassign, IsWithdrawAuthority, TypeInv, TypeOK,
         ContractTypeOK, ContractAssumption
    <3> QED
      BY <2>2, <2>5, <3>1 DEF AdminWithdrawReassign, IsWithdrawAuthority, ContractInv,
         ContractBankRentExempt, RootsNeedContract
  <2>6. ASSUME NEW fee \in Fees, SetProtocolFee(user, fee)
        PROVE  ContractInv'
    BY <2>2, <2>6 DEF SetProtocolFee, ContractInv, ContractBankRentExempt, RootsNeedContract
  <2>7. ASSUME NEW p \in Pools, NEW len \in PoolLens, ReallocatePool(user, p, len)
        PROVE  ContractInv'
    BY <2>2, <2>7 DEF ReallocatePool, ContractInv, ContractBankRentExempt, RootsNeedContract
  <2> QED
    BY <2>1, <2>3, <2>4, <2>5, <2>6, <2>7
<1>2. ASSUME NEW id \in AuctionIds, AuctionStep(id) PROVE ContractInv'
  <2>1. ContractBankRentExempt'
    BY <1>0, <1>2, AuctionStepOnPools DEF ContractKept, ContractInv, ContractBankRentExempt,
       ContractAssumption
  <2>2. RootsNeedContract'
    BY <1>2, AuctionStepOnPools DEF ContractKept, Placed, Moved, Dropped, Stayed, Untouched,
       ContractInv, RootsNeedContract, HasRoot
  <2> QED
    BY <2>1, <2>2 DEF ContractInv
<1>3. ASSUME UNCHANGED <<contractVars, stateVars, rewardVars>> PROVE ContractInv'
  BY <1>3 DEF ContractInv, ContractBankRentExempt, RootsNeedContract, HasRoot, contractVars,
              stateVars
<1> QED
  BY <1>1, <1>2, <1>3, StepCases

LEMMA ContractInvariant == Spec => []ContractInv
<1>1. Init => ContractInv
  BY DEF Init, InitContract, ContractInv, ContractBankRentExempt, RootsNeedContract, HasRoot
<1>2. TypeInv /\ ContractInv /\ [Next]_vars => ContractInv'
  BY ContractInvStep, ContractAssumption, AuctionAssumption
<1> QED
  BY <1>1, <1>2, TypeInvariant, PTL DEF Spec

(* Once initialized, the contract bank never falls below its rent-exempt   *)
(* minimum: no withdrawal purges it, whoever has the authority and however *)
(* large the fees are that came in.                                        *)
THEOREM ContractBankKeepsRent == Spec => []ContractBankRentExempt
<1>1. ContractInv => ContractBankRentExempt
  BY DEF ContractInv
<1> QED
  BY <1>1, ContractInvariant, PTL

-----------------------------------------------------------------------------
(* The pools *)

LEMMA PoolPlacementStep ==
    ASSUME ContractAssumption, AuctionAssumption, TypeInv, ContractInv, PoolPlacement, [Next]_vars
    PROVE  PoolPlacement'
<1>0. pool \in [Pools -> SUBSET AuctionIds] /\ contract_bank \in Nat
  BY DEF TypeInv, TypeOK, ContractTypeOK
<1>1. ASSUME NextContract, UNCHANGED <<now, stateVars, rewardVars>>
      PROVE  PoolPlacement'
  <2>1. \A id \in AuctionIds : HasRoot(id)' <=> HasRoot(id)
    BY <1>1 DEF HasRoot, stateVars
  <2>2. ASSUME NEW user \in Users, NEW authority \in Users, NEW len \in PoolLens,
               InitializeContract(user, authority, len)
        PROVE  PoolPlacement'
    <3>1. contract_bank_state = NoAccount
      BY <1>0, <2>2 DEF InitializeContract, ContractInv, ContractBankRentExempt, ContractAssumption
    <3>2. \A id \in AuctionIds : ~HasRoot(id)
      BY <3>1 DEF ContractInv, RootsNeedContract
    <3> QED
      BY <2>1, <2>2, <3>2 DEF InitializeContract, PoolPlacement, Pools
  <2>3. (\E user \in Users, authority \in Users, len \in PoolLens :
             InitializeContract(user, authority, len)) \/ pool' = pool
    BY <1>1 DEF NextContract, AdminWithdraw, AdminWithdrawReassign, SetProtocolFee, ReallocatePool
  <2> QED
    BY <2>1, <2>2, <2>3 DEF PoolPlacement
<1>2. ASSUME NEW id \in AuctionIds, AuctionStep(id) PROVE PoolPlacement'
  <2>1. \A other \in AuctionIds \ {id} : HasRoot(other)' <=> HasRoot(other)
    BY <1>2, AuctionStepOnPools DEF HasRoot
  <2>2. CASE Placed(id)
    <3>1. pool'["primary"] = pool["primary"] \cup {id} /\ pool'["secondary"] = pool["secondary"]
      BY <1>0, <2>2 DEF Placed, Inserted, Pools
    <3> QED
      BY <2>1, <2>2, <3>1 DEF Placed, PoolPlacement
  <2>3. CASE Moved(id)
    <3>1. PICK to, from \in Pools :
              /\ to # from
              /\ CanMoveTo(id, to)
              /\ pool' = MovedTo(id, to, from)
      BY <2>3 DEF Moved
    <3>2. pool'[to] = pool[to] \cup {id} /\ pool'[from] = pool[from] \ {id}
      BY <1>0, <3>1 DEF MovedTo, Inserted, Removed
    <3> QED
      BY <2>1, <2>3, <3>1, <3>2 DEF Moved, PoolPlacement, Pools
  <2>4. CASE Dropped(id)
    <3>1. \A p \in Pools : pool'[p] = pool[p] \ {id}
      BY <2>4 DEF Dropped, Removed
    <3> QED
      BY <2>1, <2>4, <3>1 DEF Dropped, PoolPlacement, Pools
  <2>5. CASE Stayed(id)
    BY <2>1, <2>5 DEF Stayed, PoolPlacement
  <2>6. CASE Untouched(id)
    BY <2>6 DEF Untouched, PoolPlacement, HasRoot
  <2> QED
    BY <1>2, <2>2, <2>3, <2>4, <2>5, <2>6, AuctionStepOnPools
<1>3. ASSUME UNCHANGED <<contractVars, stateVars, rewardVars>> PROVE PoolPlacement'
  BY <1>3 DEF PoolPlacement, HasRoot, contractVars, stateVars
<1> QED
  BY <1>1, <1>2, <1>3, StepCases

(* Every auction is listed in exactly one of the two pools from its        *)
(* creation to its deletion, and nothing else is listed.                   *)
THEOREM PoolPlacementInvariant == Spec => []PoolPlacement
<1>1. Init => PoolPlacement
  BY DEF Init, InitContract, PoolPlacement, HasRoot, Pools
<1>2. TypeInv /\ ContractInv /\ PoolPlacement /\ [Next]_vars => PoolPlacement'
  BY PoolPlacementStep, ContractAssumption, AuctionAssumption
<1> QED
  BY <1>1, <1>2, TypeInvariant, ContractInvariant, PTL DEF Spec

LEMMA InsertedFits ==
    ASSUME NEW ids, IsFiniteSet(ids), NEW len \in Nat, Cardinality(ids) <= len,
           NEW id, CanInsert(ids, len, id)
    PROVE  Cardinality(Inserted(ids, id)) <= len
<1>1. Cardinality(ids) \in Nat
  BY FS_CardinalityType
<1>2. Cardinality(ids \cup {id}) = Cardinality(ids) + 1
  BY FS_AddElement DEF CanInsert
<1> QED
  BY <1>1, <1>2 DEF CanInsert, IsFull, Inserted

LEMMA RemovedFits ==
    ASSUME NEW ids, IsFiniteSet(ids), NEW len \in Nat, Cardinality(ids) <= len, NEW id
    PROVE  Cardinality(Removed(ids, id)) <= len
<1>1. Cardinality(ids) \in Nat
  BY FS_CardinalityType
<1>2. Cardinality(ids \ {id}) = IF id \in ids THEN Cardinality(ids) - 1 ELSE Cardinality(ids)
  BY FS_RemoveElement
<1> QED
  BY <1>1, <1>2 DEF Removed

LEMMA PoolsWithinCapacityStep ==
    ASSUME ContractAssumption, AuctionAssumption, TypeInv, PoolsWithinCapacity, [Next]_vars
    PROVE  PoolsWithinCapacity'
<1>0. /\ pool \in [Pools -> SUBSET AuctionIds] /\ max_len \in [Pools -> Nat]
      /\ \A p \in Pools : IsFiniteSet(pool[p])
  <2>1. pool \in [Pools -> SUBSET AuctionIds] /\ max_len \in [Pools -> Nat]
    BY DEF TypeInv, TypeOK, ContractTypeOK
  <2> QED
    BY <2>1, FS_Subset DEF ContractAssumption
<1>1. ASSUME NextContract, UNCHANGED <<now, stateVars, rewardVars>>
      PROVE  PoolsWithinCapacity'
  <2>1. ASSUME NEW user \in Users, NEW authority \in Users, NEW len \in PoolLens,
               InitializeContract(user, authority, len)
        PROVE  PoolsWithinCapacity'
    <3>1. len \in Nat
      BY DEF ContractAssumption
    <3>2. \A p \in Pools : pool'[p] = {} /\ max_len'[p] = len
      BY <2>1 DEF InitializeContract
    <3> QED
      <4>1. Cardinality({}) = 0
        BY FS_EmptySet
      <4>2. ASSUME NEW p \in Pools PROVE Cardinality(pool'[p]) <= max_len'[p]
        <5>1. Cardinality(pool'[p]) = 0 /\ max_len'[p] = len
          BY <3>2, <4>1
        <5> QED
          BY <3>1, <5>1
      <4> QED
        BY <4>2 DEF PoolsWithinCapacity
  <2>2. ASSUME NEW user \in Users, NEW q \in Pools, NEW len \in PoolLens,
               ReallocatePool(user, q, len)
        PROVE  PoolsWithinCapacity'
    <3>1. pool' = pool /\ len \in Nat /\ len >= max_len[q]
          /\ max_len' = [max_len EXCEPT ![q] = len]
      BY <2>2 DEF ReallocatePool, MayReallocate, ContractAssumption
    <3>2. \A p \in Pools : Cardinality(pool[p]) \in Nat
      BY <1>0, FS_CardinalityType
    <3> QED
      BY <1>0, <3>1, <3>2 DEF PoolsWithinCapacity
  <2>3. \/ \E user \in Users, authority \in Users, len \in PoolLens :
               InitializeContract(user, authority, len)
        \/ \E user \in Users, p \in Pools, len \in PoolLens : ReallocatePool(user, p, len)
        \/ pool' = pool /\ max_len' = max_len
    BY <1>1 DEF NextContract, AdminWithdraw, AdminWithdrawReassign, SetProtocolFee
  <2> QED
    BY <2>1, <2>2, <2>3 DEF PoolsWithinCapacity
<1>2. ASSUME NEW id \in AuctionIds, AuctionStep(id) PROVE PoolsWithinCapacity'
  <2>0. max_len' = max_len
    BY <1>2, AuctionStepOnPools DEF ContractKept
  <2> SUFFICES ASSUME NEW p \in Pools PROVE Cardinality(pool'[p]) <= max_len[p]
    BY <2>0 DEF PoolsWithinCapacity
  <2>1. \/ pool'[p] = pool[p]
        \/ pool'[p] = Inserted(pool[p], id) /\ CanInsert(pool[p], max_len[p], id)
        \/ pool'[p] = Removed(pool[p], id)
    <3>1. CASE Placed(id)
      BY <1>0, <3>1 DEF Placed, CanMoveTo
    <3>2. CASE Moved(id)
      <4>1. PICK to, from \in Pools :
                to # from /\ CanMoveTo(id, to) /\ pool' = MovedTo(id, to, from)
        BY <3>2 DEF Moved
      <4> QED
        BY <1>0, <4>1 DEF MovedTo, CanMoveTo
    <3>3. CASE Dropped(id)
      BY <3>3 DEF Dropped
    <3>4. CASE Stayed(id) \/ Untouched(id)
      BY <3>4 DEF Stayed, Untouched
    <3> QED
      BY <1>2, <3>1, <3>2, <3>3, <3>4, AuctionStepOnPools
  <2>2. IsFiniteSet(pool[p]) /\ max_len[p] \in Nat /\ Cardinality(pool[p]) <= max_len[p]
    BY <1>0 DEF PoolsWithinCapacity
  <2> QED
    BY <2>1, <2>2, InsertedFits, RemovedFits
<1>3. ASSUME UNCHANGED <<contractVars, stateVars, rewardVars>> PROVE PoolsWithinCapacity'
  BY <1>3 DEF PoolsWithinCapacity, contractVars
<1> QED
  BY <1>1, <1>2, <1>3, StepCases

(* No pool ever holds more ids than its account has room for.  The test of *)
(* the code is one of equality, so this depends on capacities never        *)
(* shrinking.                                                              *)
THEOREM PoolsWithinCapacityInvariant == Spec => []PoolsWithinCapacity
<1>1. Init => PoolsWithinCapacity
  BY FS_EmptySet DEF Init, InitContract, PoolsWithinCapacity
<1>2. TypeInv /\ PoolsWithinCapacity /\ [Next]_vars => PoolsWithinCapacity'
  BY PoolsWithinCapacityStep, ContractAssumption, AuctionAssumption
<1> QED
  BY <1>1, <1>2, TypeInvariant, PTL DEF Spec

=============================================================================
