---------------------------- MODULE DeletionProofs ----------------------------
(***************************************************************************)
(* Proofs about the deletion of an auction by its owner's client.  The     *)
(* instructions of a plan take over from each other: each one leaves as    *)
(* many cycle states as the next one names.  And an auction that is being  *)
(* deleted is out of everybody else's reach: it is frozen or finished, and *)
(* has no reward to claim.                                                 *)
(***************************************************************************)
EXTENDS DeletionPlan, BankProofs

batch == RECOMMENDED_CYCLE_STATES_DELETED_PER_CALL

DeletionAssumptions == ContractAssumption /\ AuctionAssumption /\ DeletionAssumption

LEMMA DeletionAssumed == DeletionAssumptions
BY ContractAssumption, AuctionAssumption, DeletionAssumption DEF DeletionAssumptions

-----------------------------------------------------------------------------
(* The rounds of a deletion *)

(* They begin with the number of cycles, and go down by the batch to a     *)
(* round for which one call suffices, but not further.                     *)
LEMMA RoundsCover ==
    ASSUME DeletionAssumptions, NEW cycles \in Nat \ {0}
    PROVE  LET last == Rounds(cycles, batch)
           IN  /\ last \in Nat /\ last >= 1
               /\ RoundStart(cycles, batch, 1) = cycles
               /\ \A k \in 1..last : RoundStart(cycles, batch, k) \in Nat \ {0}
               /\ \A k \in 1..(last - 1) :
                      RoundStart(cycles, batch, k + 1) = RoundStart(cycles, batch, k) - batch
               /\ RoundStart(cycles, batch, last) <= batch
<1> DEFINE q == cycles \div batch
           r == cycles % batch
           last == Rounds(cycles, batch)
<1>1. batch \in Nat \ {0}
  BY DEF DeletionAssumptions, DeletionAssumption, batch
<1>2. q \in Nat /\ r \in Nat /\ r < batch /\ cycles = batch * q + r
  BY <1>1
<1> HIDE DEF q, r
<1>3. last = IF r # 0 THEN q + 1 ELSE q
  BY <1>2 DEF Rounds, q, r
<1> HIDE DEF last
<1>4. last \in Nat /\ last >= 1
  BY <1>1, <1>2, <1>3
<1>5. batch * (last - 1) < cycles /\ cycles <= batch * last
  <2>1. batch * (q - 1) = batch * q - batch /\ batch * (q + 1) = batch * q + batch
    BY <1>1, <1>2
  <2> QED
    BY <1>1, <1>2, <1>3, <2>1
<1>6. \A k \in Nat : RoundStart(cycles, batch, k) = cycles - (k - 1) * batch
  BY DEF RoundStart
<1>7. ASSUME NEW k \in 1..last PROVE RoundStart(cycles, batch, k) \in Nat \ {0}
  <2>1. (k - 1) * batch <= batch * (last - 1)
    BY <1>1, <1>4
  <2> QED
    BY <1>1, <1>4, <1>5, <1>6, <2>1
<1>8. ASSUME NEW k \in 1..(last - 1)
      PROVE  RoundStart(cycles, batch, k + 1) = RoundStart(cycles, batch, k) - batch
  <2>1. ((k + 1) - 1) * batch = (k - 1) * batch + batch
    BY <1>1, <1>4
  <2> QED
    BY <1>1, <1>4, <1>6, <2>1
<1>9. RoundStart(cycles, batch, last) <= batch
  <2>1. (last - 1) * batch = batch * last - batch
    BY <1>1, <1>4
  <2> QED
    BY <1>1, <1>4, <1>5, <1>6, <2>1
<1>10. RoundStart(cycles, batch, 1) = cycles
  BY <1>1, <1>6
<1> QED
  BY <1>4, <1>7, <1>8, <1>9, <1>10 DEF last

-----------------------------------------------------------------------------
(* The inductive invariant *)

Pages == [id: AuctionIds, current_cycle: CycleNumbers, owner_pubkey: Users]

Instructions ==
    [auction_id: AuctionIds, current_auction_cycle: Nat \ {0},
     top_bidder: Users \cup {NoAccount}]

PageOK ==
    /\ page \in Pages \cup {NoAccount}
    /\ page_bids \in Seq(BidData) \cup {NoAccount}

(* What is left of a plan is about the page's auction, and each of its     *)
(* instructions names a batch less than the one before.                    *)
PlanOK ==
    /\ plan \in Seq(Instructions)
    /\ plan # <<>> =>
           /\ page \in Pages
           /\ \A k \in 1..Len(plan) : plan[k].auction_id = page.id
           /\ \A k \in 1..(Len(plan) - 1) :
                  plan[k + 1].current_auction_cycle = plan[k].current_auction_cycle - batch
           /\ plan[Len(plan)].current_auction_cycle <= batch

(* Nobody else can do anything with the auction that would matter.         *)
OutOfReach(id) ==
    HasRoot(id) /\ ~IsOngoing(root[id]) /\ root[id].unclaimed_rewards = 0

StartedOK ==
    started # NoAccount =>
        /\ plan # <<>>
        /\ started = page.id
        /\ OutOfReach(page.id)
        /\ root[page.id].auction_owner = page.owner_pubkey
        /\ root[page.id].current_auction_cycle = Head(plan).current_auction_cycle

DeletionInv == TypeInv /\ CycleAccounts /\ PageOK /\ PlanOK /\ StartedOK

LEMMA HeadOfPlan ==
    ASSUME PlanOK, plan # <<>>
    PROVE  /\ Head(plan) = plan[1] /\ Head(plan) \in Instructions
           /\ Head(plan).auction_id = page.id
           /\ page.id \in AuctionIds /\ page.owner_pubkey \in Users
           /\ Len(plan) \in Nat \ {0}
<1>1. Len(plan) \in Nat \ {0} /\ Head(plan) = plan[1] /\ plan[1] \in Instructions
  BY DEF PlanOK
<1>2. page \in Pages /\ plan[1].auction_id = page.id
  BY <1>1 DEF PlanOK
<1> QED
  BY <1>1, <1>2 DEF Pages

-----------------------------------------------------------------------------
(* The chain *)

(* The chain sees of the client the instructions that take effect.         *)
LEMMA ChainStepOfClient ==
    ASSUME [NextClient]_allVars
    PROVE  [Next]_vars \/ (plan # <<>> /\ Execute(Head(plan)))
<1>1. CASE (\E id \in AuctionIds : GetAuction(id)) \/ GetAuctionCycleState \/ DeleteAll
  <2>1. UNCHANGED vars
    BY <1>1 DEF GetAuction, GetAuctionCycleState, DeleteAll
  <2> QED
    BY <2>1
<1>2. CASE SendNext
  BY <1>2 DEF SendNext
<1>3. CASE SendFails
  <2>1. UNCHANGED vars
    BY <1>3 DEF SendFails
  <2> QED
    BY <2>1
<1>4. CASE Next
  BY <1>4
<1>5. CASE UNCHANGED allVars
  BY <1>5 DEF allVars
<1> QED
  BY <1>1, <1>2, <1>3, <1>4, <1>5 DEF NextClient

LEMMA ExecuteAccounts ==
    ASSUME DeletionAssumptions, TypeInv, CycleAccounts, PlanOK, plan # <<>>,
           Execute(Head(plan))
    PROVE  TypeInv' /\ CycleAccounts'
<1>0. PICK id \in AuctionIds, owner \in Users : id = page.id /\ owner = page.owner_pubkey
  BY HeadOfPlan
<1>1. batch \in Nat \ {0} /\ ContractAssumption /\ AuctionAssumption
  BY DEF DeletionAssumptions, DeletionAssumption, batch
<1>2. DeleteCycles(id, owner, batch) \/ DeleteAuction(id, owner, batch)
  BY <1>0, HeadOfPlan DEF Execute, batch
<1>3. TypeInv' /\ (CyclesDeleted(id) \/ Deleted(id))
  BY <1>1, <1>2, DeleteCyclesType, DeleteAuctionType, DeleteCyclesEffect, DeleteAuctionEffect
<1>4. \A other \in AuctionIds \ {id} :
          root'[other] = root[other] /\ cycle'[other] = cycle[other]
  BY <1>1, <1>2 DEF DeleteCycles, DeleteAuction, CyclesDownTo, TypeInv, TypeOK
<1>5. CycleAccounts'
  BY <1>1, <1>3, <1>4, CycleAccountsEffect
<1> QED
  BY <1>3, <1>5

LEMMA AccountsStep ==
    ASSUME DeletionAssumptions, DeletionInv, [NextClient]_allVars
    PROVE  TypeInv' /\ CycleAccounts'
<1>1. CASE [Next]_vars
  BY <1>1, TypeStep, CycleAccountsStep DEF DeletionAssumptions, DeletionInv
<1>2. CASE plan # <<>> /\ Execute(Head(plan))
  BY <1>2, ExecuteAccounts DEF DeletionInv
<1> QED
  BY <1>1, <1>2, ChainStepOfClient

(* No bid, closing, claim or filtering changes what a deletion rests on.   *)
LEMMA StaysOutOfReach ==
    ASSUME DeletionAssumptions, TypeInv, NEW id \in AuctionIds, OutOfReach(id), [Next]_vars
    PROVE  /\ OutOfReach(id)'
           /\ root'[id].auction_owner = root[id].auction_owner
           /\ root'[id].current_auction_cycle = root[id].current_auction_cycle
<1> DEFINE Goal == /\ OutOfReach(id)'
                   /\ root'[id].auction_owner = root[id].auction_owner
                   /\ root'[id].current_auction_cycle = root[id].current_auction_cycle
<1>1. /\ ContractAssumption /\ AuctionAssumption /\ DeleteBatches = {}
      /\ root[id] \in RootState /\ root \in [AuctionIds -> RootState \cup {NoAccount}]
  BY AccountTypes DEF DeletionAssumptions, DeletionAssumption, OutOfReach, TypeInv, TypeOK
<1>2. CASE root'[id] = root[id]
  BY <1>2 DEF OutOfReach, HasRoot
<1>3. ASSUME NEW other \in AuctionIds, AuctionStep(other), other # id PROVE Goal
  BY <1>1, <1>2, <1>3, AuctionStepLocal
<1>4. ASSUME AuctionStep(id) PROVE Goal
  <2>1. ~Start(id) /\ ~AnyBid(id) /\ ~Close(id) /\ ~Delete(id)
        /\ \A n \in CycleNumbers : ~ClaimRewards(id, n)
    <3>1. ~Start(id)
      BY DEF Start, InitializeAuction, OutOfReach
    <3>2. ~AnyBid(id)
      BY DEF AnyBid, Bid, BidInactive, CheckStatus, OutOfReach
    <3>3. ~Close(id)
      BY DEF Close, CloseIdleCycle, CloseLastCycle, CloseCycle, CanClose, CheckStatus, OutOfReach
    <3>4. ~Delete(id)
      BY <1>1 DEF Delete
    <3>5. \A n \in CycleNumbers : ~ClaimRewards(id, n)
      BY DEF ClaimRewards, OutOfReach
    <3> QED
      BY <3>1, <3>2, <3>3, <3>4, <3>5
  <2>2. ASSUME NEW amount \in ClaimAmounts, ClaimFunds(id, amount) PROVE Goal
    <3>1. root'[id] = [root[id] EXCEPT !.available_funds = @ - amount]
      BY <1>1, <2>2 DEF ClaimFunds, TakenFromFunds
    <3>2. HasRoot(id)'
      BY <1>1, <2>2, ClaimFundsType
    <3> QED
      BY <1>1, <3>1, <3>2 DEF OutOfReach, IsOngoing, RootState
  <2>3. ASSUME Administer(id) PROVE Goal
    <3>1. HasRoot(id)'
      BY <1>1, <2>3, AdministerType
    <3>2. \/ \E filter : root'[id] = [root[id] EXCEPT !.is_filtered = filter]
          \/ \E config : root'[id] = [root[id] EXCEPT !.auction_config = config]
          \/ root'[id] = [root[id] EXCEPT !.is_verified = TRUE]
      BY <1>1, <2>3 DEF Administer, FilterAuction, ModifyAuction, VerifyAuction
    <3>3. ASSUME NEW filter, root'[id] = [root[id] EXCEPT !.is_filtered = filter] PROVE Goal
      BY <1>1, <3>1, <3>3 DEF OutOfReach, IsOngoing, RootState
    <3>4. ASSUME NEW config, root'[id] = [root[id] EXCEPT !.auction_config = config] PROVE Goal
      BY <1>1, <3>1, <3>4 DEF OutOfReach, IsOngoing, RootState
    <3>5. CASE root'[id] = [root[id] EXCEPT !.is_verified = TRUE]
      BY <1>1, <3>1, <3>5 DEF OutOfReach, IsOngoing, RootState
    <3> QED
      BY <3>2, <3>3, <3>4, <3>5
  <2>4. ASSUME NEW user \in Bidders, NEW amount \in Deposits, Deposit(id, user, amount)
        PROVE  Goal
    BY <1>2, <2>4 DEF Deposit
  <2> QED
    BY <1>4, <2>1, <2>2, <2>3, <2>4 DEF AuctionStep, Claim
<1>5. CASE UNCHANGED stateVars
  BY <1>2, <1>5 DEF stateVars
<1> QED
  BY <1>3, <1>4, <1>5, StepCases

-----------------------------------------------------------------------------
(* The client *)

LEMMA ReadingStep ==
    ASSUME DeletionAssumptions, DeletionInv,
           (\E id \in AuctionIds : GetAuction(id)) \/ GetAuctionCycleState
    PROVE  PageOK' /\ PlanOK' /\ StartedOK'
<1> USE DEF DeletionInv
<1>0. AuctionAssumption /\ plan = <<>> /\ plan' = plan /\ started' = started
      /\ started = NoAccount
  BY DEF DeletionAssumptions, GetAuction, GetAuctionCycleState, StartedOK
<1>1. ASSUME NEW id \in AuctionIds, GetAuction(id) PROVE PageOK'
  <2>1. root[id] \in RootState /\ root[id].current_auction_cycle \in CycleNumbers
        /\ root[id].auction_owner \in Users
    BY <1>0, <1>1, AccountTypes DEF GetAuction, TypeInv, RootState
  <2>2. page' \in Pages
    BY <1>1, <2>1 DEF GetAuction, Pages
  <2> QED
    BY <1>1, <2>2 DEF GetAuction, PageOK
<1>2. ASSUME GetAuctionCycleState PROVE PageOK'
  <2>1. page \in Pages /\ page' = page
    BY <1>2 DEF GetAuctionCycleState, PageOK
  <2>2. page.id \in AuctionIds /\ page.current_cycle \in CycleNumbers
    BY <2>1 DEF Pages
  <2>3. cycle[page.id][page.current_cycle] \in CycleState
    BY <1>2, <2>2 DEF GetAuctionCycleState, TypeInv, TypeOK
  <2>4. page_bids' \in Seq(BidData)
    BY <1>2, <2>3 DEF GetAuctionCycleState, CycleState
  <2> QED
    BY <2>1, <2>4 DEF PageOK
<1>3. PlanOK' /\ StartedOK'
  BY <1>0 DEF PlanOK, StartedOK
<1> QED
  BY <1>1, <1>2, <1>3

LEMMA DeleteAllStep ==
    ASSUME DeletionAssumptions, DeletionInv, DeleteAll
    PROVE  PageOK' /\ PlanOK' /\ StartedOK'
<1> DEFINE cycles == page.current_cycle
           last == Rounds(cycles, batch)
<1>1. /\ page \in Pages /\ page_bids \in Seq(BidData)
      /\ page' = page /\ page_bids' = page_bids
      /\ plan' = [round \in 1..last |-> DeleteAuctionIx(RoundStart(cycles, batch, round))]
      /\ started' = NoAccount
  BY DEF DeletionInv, PageOK, DeleteAll, pageVars, batch
<1>2. cycles \in Nat \ {0} /\ page.id \in AuctionIds
  <2>1. page.current_cycle \in CycleNumbers /\ page.id \in AuctionIds
    BY <1>1 DEF Pages
  <2>2. CycleNumbers \subseteq Nat \ {0}
    BY DEF CycleNumbers, DeletionAssumptions, AuctionAssumption
  <2> QED
    BY <2>1, <2>2
<1>3. /\ last \in Nat /\ last >= 1
      /\ \A k \in 1..last : RoundStart(cycles, batch, k) \in Nat \ {0}
      /\ \A k \in 1..(last - 1) :
             RoundStart(cycles, batch, k + 1) = RoundStart(cycles, batch, k) - batch
      /\ RoundStart(cycles, batch, last) <= batch
  BY <1>2, RoundsCover
<1> HIDE DEF cycles, last
<1>4. ASSUME NEW number \in Nat \ {0}
      PROVE  /\ DeleteAuctionIx(number) \in Instructions
             /\ DeleteAuctionIx(number).auction_id = page.id
             /\ DeleteAuctionIx(number).current_auction_cycle = number
  <2>1. page_bids # <<>> => page_bids[Len(page_bids)] \in BidData
    BY <1>1
  <2>2. page_bids # <<>> => page_bids[Len(page_bids)].bidder_pubkey \in Users
    BY <2>1 DEF BidData
  <2> QED
    BY <1>2, <2>2 DEF DeleteAuctionIx, Instructions
<1>5. plan' \in Seq(Instructions) /\ Len(plan') = last
      /\ \A k \in 1..last : plan'[k] = DeleteAuctionIx(RoundStart(cycles, batch, k))
  <2> DEFINE ix(k) == DeleteAuctionIx(RoundStart(cycles, batch, k))
  <2>1. \A k \in 1..last : ix(k) \in Instructions
    BY <1>3, <1>4
  <2>2. plan' = [k \in 1..last |-> ix(k)]
    BY <1>1
  <2> HIDE DEF ix
  <2>3. plan' \in Seq(Instructions) /\ Len(plan') = last /\ \A k \in 1..last : plan'[k] = ix(k)
    BY <1>3, <2>1, <2>2
  <2> QED
    BY <2>3 DEF ix
<1>6. \A k \in 1..last :
          /\ plan'[k].auction_id = page.id
          /\ plan'[k].current_auction_cycle = RoundStart(cycles, batch, k)
  BY <1>3, <1>4, <1>5
<1>7. ASSUME NEW k \in 1..(last - 1)
      PROVE  plan'[k + 1].current_auction_cycle = plan'[k].current_auction_cycle - batch
  <2>1. k \in 1..last /\ k + 1 \in 1..last
    BY <1>3
  <2> QED
    BY <1>3, <1>6, <2>1
<1>8. plan'[last].current_auction_cycle <= batch
  <2>1. last \in 1..last
    BY <1>3
  <2> QED
    BY <1>3, <1>6, <2>1
<1>9. PlanOK'
  BY <1>1, <1>5, <1>6, <1>7, <1>8 DEF PlanOK, batch
<1> QED
  BY <1>1, <1>9 DEF PageOK, StartedOK

LEMMA SendNextStep ==
    ASSUME DeletionAssumptions, DeletionInv, SendNext
    PROVE  PageOK' /\ PlanOK' /\ StartedOK'
<1> DEFINE n == Len(plan)
<1>0. PICK id \in AuctionIds, owner \in Users : id = page.id /\ owner = page.owner_pubkey
  BY HeadOfPlan DEF DeletionInv, SendNext
<1>1. /\ plan # <<>> /\ Execute(Head(plan)) /\ plan' = Tail(plan)
      /\ started' = IF root'[id] = NoAccount THEN NoAccount ELSE id
      /\ n = 1 => page' = NoAccount /\ page_bids' = NoAccount
      /\ n # 1 => page' = page /\ page_bids' = page_bids
  BY <1>0 DEF SendNext, ClosePage, pageVars
<1>2. PageOK'
  BY <1>1 DEF DeletionInv, PageOK
<1>3. /\ plan \in Seq(Instructions) /\ n \in Nat \ {0}
      /\ plan' \in Seq(Instructions) /\ Len(plan') = n - 1
      /\ \A k \in 1..(n - 1) : plan'[k] = plan[k + 1]
      /\ n = 1 => plan' = <<>>
  BY <1>1 DEF DeletionInv, PlanOK
<1>4. /\ page \in Pages
      /\ \A k \in 1..n : plan[k].auction_id = id
      /\ \A k \in 1..(n - 1) :
             plan[k + 1].current_auction_cycle = plan[k].current_auction_cycle - batch
      /\ plan[n].current_auction_cycle <= batch
  BY <1>0, <1>1 DEF DeletionInv, PlanOK
<1>5. batch \in Nat \ {0} /\ AuctionAssumption
  BY DEF DeletionAssumptions, DeletionAssumption, batch
<1> HIDE DEF n
<1>6. PlanOK'
  <2>1. CASE n = 1
    BY <1>3, <2>1 DEF PlanOK
  <2>2. CASE n # 1
    <3>1. \A k \in 1..(n - 1) : plan'[k].auction_id = id
      <4>1. \A k \in 1..(n - 1) : k + 1 \in 1..n
        BY <1>3
      <4> QED
        BY <1>3, <1>4, <4>1
    <3>2. ASSUME NEW k \in 1..(n - 1 - 1)
          PROVE  plan'[k + 1].current_auction_cycle = plan'[k].current_auction_cycle - batch
      <4>1. k \in 1..(n - 1) /\ k + 1 \in 1..(n - 1)
        BY <1>3
      <4> QED
        BY <1>3, <1>4, <4>1
    <3>3. plan'[n - 1].current_auction_cycle <= batch
      <4>1. n - 1 \in 1..(n - 1) /\ (n - 1) + 1 = n
        BY <1>3, <2>2
      <4> QED
        BY <1>3, <1>4, <4>1
    <3>4. page' = page
      BY <1>1, <2>2 DEF n
    <3> QED
      BY <1>0, <1>3, <1>4, <3>1, <3>2, <3>3, <3>4 DEF PlanOK, batch
  <2> QED
    BY <2>1, <2>2
<1>7. ASSUME root'[id] # NoAccount PROVE StartedOK'
  <2>1. DeleteCycles(id, owner, batch) /\ NamesAccounts(Head(plan))
    <3>1. ~DeleteAuction(id, owner, batch)
      <4>1. TypeInv
        BY DEF DeletionInv
      <4>2. Deleted(id) => FALSE
        BY <1>7 DEF Deleted, HasRoot
      <4> QED
        BY <4>1, <4>2, DeleteAuctionEffect
    <3>2. PlanOK /\ Head(plan).auction_id = id
      BY <1>0, <1>1, HeadOfPlan DEF DeletionInv
    <3> QED
      BY <1>0, <1>1, <3>1, <3>2 DEF Execute, batch
  <2>2. /\ HasRoot(id) /\ plan[1].current_auction_cycle = root[id].current_auction_cycle
        /\ root[id] \in RootState /\ root[id].current_auction_cycle \in Nat
    <3>1. Head(plan).auction_id = id /\ Head(plan) = plan[1]
      BY <1>0, <1>1, HeadOfPlan DEF DeletionInv
    <3>2. HasRoot(id) /\ plan[1].current_auction_cycle = root[id].current_auction_cycle
      BY <2>1, <3>1 DEF NamesAccounts
    <3>3. root[id] \in RootState /\ root[id].current_auction_cycle \in CycleNumbers
      BY <1>5, <3>2, AccountTypes DEF DeletionInv, TypeInv
    <3> QED
      BY <1>5, <3>2, <3>3 DEF CycleNumbers, AuctionAssumption
  <2> DEFINE left == root[id].current_auction_cycle - batch
             frozen == root[id].is_frozen \/ IsOngoing(root[id])
             r == [root[id] EXCEPT !.current_auction_cycle = left]
  <2>3. /\ left > 0 /\ root[id].unclaimed_rewards = 0
        /\ root[id].auction_owner = owner
        /\ root'[id] = [r EXCEPT !.is_frozen = frozen]
    BY <2>1 DEF DeleteCycles, DeletableDownTo, IsAuctionOwner, DeletionInv, TypeInv, TypeOK
  <2>4. n # 1
    BY <1>4, <1>5, <2>2, <2>3
  <2> HIDE DEF frozen
  <2>5. /\ root'[id].current_auction_cycle = left
        /\ root'[id].unclaimed_rewards = 0
        /\ root'[id].auction_owner = owner
        /\ root'[id].is_finished = root[id].is_finished
        /\ root'[id].is_frozen = frozen
    BY <2>2, <2>3 DEF RootState
  <2>6. ~IsOngoing(root'[id])
    BY <2>5 DEF IsOngoing, frozen
  <2>7. page' = page /\ plan' # <<>> /\ Head(plan').current_auction_cycle = left
    <3>1. 1 \in 1..(n - 1) /\ 1 + 1 = 2
      BY <1>3, <2>4
    <3>2. plan'[1] = plan[2] /\ plan[2].current_auction_cycle = left
      BY <1>3, <1>4, <2>2, <3>1
    <3>3. plan' # <<>> /\ Head(plan') = plan'[1]
      BY <1>3, <3>1
    <3> QED
      BY <1>1, <2>4, <3>2, <3>3 DEF n
  <2>8. started' = id
    BY <1>1, <1>7
  <2>9. page'.id = id /\ page'.owner_pubkey = owner
    BY <1>0, <2>7
  <2> QED
    BY <1>7, <2>5, <2>6, <2>7, <2>8, <2>9 DEF StartedOK, OutOfReach, HasRoot
<1>8. ASSUME root'[id] = NoAccount PROVE StartedOK'
  BY <1>1, <1>8 DEF StartedOK
<1> QED
  BY <1>2, <1>6, <1>7, <1>8

LEMMA OthersStep ==
    ASSUME DeletionAssumptions, DeletionInv, [Next]_vars, UNCHANGED clientVars
    PROVE  PageOK' /\ PlanOK' /\ StartedOK'
<1>1. page' = page /\ page_bids' = page_bids /\ plan' = plan /\ started' = started
  BY DEF clientVars, pageVars
<1>2. PageOK' /\ PlanOK'
  BY <1>1 DEF DeletionInv, PageOK, PlanOK
<1>3. ASSUME started # NoAccount PROVE StartedOK'
  <2>1. PICK id \in AuctionIds : id = page.id
    BY <1>3, HeadOfPlan DEF DeletionInv, StartedOK
  <2>2. OutOfReach(id)
    BY <1>3, <2>1 DEF DeletionInv, StartedOK
  <2>3. /\ HasRoot(id)' /\ ~IsOngoing(root[id])' /\ root'[id].unclaimed_rewards = 0
        /\ root'[id].auction_owner = root[id].auction_owner
        /\ root'[id].current_auction_cycle = root[id].current_auction_cycle
    BY <2>2, StaysOutOfReach DEF DeletionInv, OutOfReach
  <2>4. page'.id = id /\ OutOfReach(page.id)'
    BY <1>1, <2>1, <2>3 DEF OutOfReach, HasRoot, IsOngoing
  <2> QED
    BY <1>1, <1>3, <2>1, <2>3, <2>4 DEF DeletionInv, StartedOK
<1> QED
  BY <1>1, <1>2, <1>3 DEF StartedOK

LEMMA DeletionInvStep ==
    ASSUME DeletionAssumptions, DeletionInv, [NextClient]_allVars
    PROVE  DeletionInv'
<1>1. TypeInv' /\ CycleAccounts'
  BY AccountsStep
<1>2. CASE (\E id \in AuctionIds : GetAuction(id)) \/ GetAuctionCycleState
  BY <1>1, <1>2, ReadingStep DEF DeletionInv
<1>3. CASE DeleteAll
  BY <1>1, <1>3, DeleteAllStep DEF DeletionInv
<1>4. CASE SendNext
  BY <1>1, <1>4, SendNextStep DEF DeletionInv
<1>5. CASE SendFails
  <2>1. plan' = <<>> /\ started' = NoAccount /\ page' = NoAccount /\ page_bids' = NoAccount
    BY <1>5 DEF SendFails, ClosePage
  <2>2. PageOK' /\ PlanOK' /\ StartedOK'
    BY <2>1 DEF PageOK, PlanOK, StartedOK
  <2> QED
    BY <1>1, <2>2 DEF DeletionInv
<1>6. CASE Next /\ UNCHANGED clientVars
  BY <1>1, <1>6, OthersStep DEF DeletionInv
<1>7. CASE UNCHANGED allVars
  BY <1>1, <1>7, OthersStep DEF DeletionInv, allVars
<1> QED
  BY <1>2, <1>3, <1>4, <1>5, <1>6, <1>7 DEF NextClient

LEMMA DeletionInvariant == ClientSpec => []DeletionInv
<1>1. InitClient => DeletionInv
  <2> SUFFICES ASSUME InitClient PROVE DeletionInv
    OBVIOUS
  <2>1. TypeInv
    BY InitType, DeletionAssumed DEF InitClient, DeletionAssumptions
  <2>2. CycleAccounts
    BY DEF InitClient, Init, CycleAccounts, HasRoot
  <2>3. PageOK /\ PlanOK /\ StartedOK
    BY DEF InitClient, PageOK, PlanOK, StartedOK
  <2> QED
    BY <2>1, <2>2, <2>3 DEF DeletionInv
<1>2. DeletionInv /\ [NextClient]_allVars => DeletionInv'
  BY DeletionInvStep, DeletionAssumed
<1> QED
  BY <1>1, <1>2, PTL DEF ClientSpec

-----------------------------------------------------------------------------
(* The property *)

(* Nothing is a share of nothing, and no share exceeds its amount. *)
LEMMA ShareExists ==
    ASSUME ContractAssumption, ContractTypeOK, NEW amount \in Nat
    PROVE  \E share \in FeeShares(amount) : share <= amount
<1>1. ProtocolFee \in Nat /\ ProtocolFee <= FeeScale /\ FeeScale \in Nat \ {0}
  BY DEF ContractAssumption, ContractTypeOK, ProtocolFee
<1> DEFINE product == amount * ProtocolFee
<1>2. product \in Nat /\ product <= amount * FeeScale
  BY <1>1
<1> HIDE DEF product
<1>3. product \div FeeScale <= amount
  BY <1>1, <1>2
<1>4. product \div FeeScale \in FeeShares(amount)
  BY <1>2 DEF FeeShares, product
<1> QED
  BY <1>3, <1>4

(* Once an instruction of delete_all took effect, the next one finds what  *)
(* it names and passes every check, whatever instructions others send in   *)
(* between, until the auction is gone.                                     *)
THEOREM StartedDeletionAlwaysGoesOn == ClientSpec => []StartedDeletionGoesOn
<1>1. ASSUME DeletionInv, started # NoAccount
      PROVE  plan # <<>> /\ CanExecute(Head(plan))
  <2> DEFINE id == page.id
             owner == page.owner_pubkey
             k == root[id].current_auction_cycle
  <2>1. /\ plan # <<>> /\ Head(plan).auction_id = id /\ id \in AuctionIds
        /\ OutOfReach(id) /\ root[id].auction_owner = owner
        /\ k = Head(plan).current_auction_cycle
    BY <1>1, HeadOfPlan DEF DeletionInv, StartedOK
  <2>2. /\ ContractAssumption /\ AuctionAssumption /\ batch \in Nat \ {0}
        /\ k \in CycleNumbers /\ k \in Nat
    BY <1>1, <2>1, AccountTypes, DeletionAssumed
       DEF DeletionAssumptions, DeletionAssumption, batch, DeletionInv, TypeInv, OutOfReach,
           CycleNumbers, AuctionAssumption
  <2>3. NamesAccounts(Head(plan))
    BY <2>1 DEF NamesAccounts, OutOfReach
  <2>4. RefundOnDelete(id) = 0 /\ bank[id] \in Nat /\ ContractTypeOK
    BY <1>1, <2>1 DEF RefundOnDelete, OutOfReach, DeletionInv, TypeInv, TypeOK
  <2>5. ASSUME NEW left \in Nat PROVE DeletableDownTo(id, owner, left)
    <3>1. \A n \in (left + 1)..k : n \in CycleNumbers /\ n <= k
      BY <2>2, <2>5 DEF CycleNumbers, AuctionAssumption
    <3>2. \A n \in (left + 1)..k : cycle[id][n] # NoAccount
      BY <1>1, <2>1, <3>1 DEF DeletionInv, CycleAccounts, OutOfReach
    <3> QED
      BY <2>1, <2>4, <3>2 DEF DeletableDownTo, IsAuctionOwner, OutOfReach
  <2>6. \E share \in FeeShares(bank[id] - RefundOnDelete(id)) :
            share <= bank[id] - RefundOnDelete(id)
    <3>1. bank[id] - RefundOnDelete(id) \in Nat
      BY <2>4
    <3> QED
      BY <2>2, <2>4, <3>1, ShareExists
  <2>7. CASE k - batch > 0
    <3>1. DeletableDownTo(id, owner, k - batch)
      BY <2>2, <2>5, <2>7
    <3> QED
      BY <2>1, <2>3, <2>7, <3>1 DEF CanExecute, batch
  <2>8. CASE k - batch <= 0
    <3>1. DeletableDownTo(id, owner, 0)
      BY <2>5
    <3> QED
      BY <2>1, <2>3, <2>6, <2>8, <3>1 DEF CanExecute, batch
  <2>9. k - batch > 0 \/ k - batch <= 0
    BY <2>2
  <2> QED
    BY <2>1, <2>7, <2>8, <2>9
<1>2. DeletionInv => StartedDeletionGoesOn
  BY <1>1 DEF StartedDeletionGoesOn
<1> QED
  BY <1>2, DeletionInvariant, PTL

=============================================================================
