---------------------------- MODULE LedgerProofs ----------------------------
(***************************************************************************)
(* Proofs about money.  First, module Auction implements module Escrow: an *)
(* instruction changes the money of one auction only (MoneyUpdated), and   *)
(* each of the effects of BankProofs is one step of Escrow or none.        *)
(*                                                                         *)
(* Then the proofs about sums: no instruction creates or loses lamports,   *)
(* and the all-time treasury of an auction is the sum of its winning bids. *)
(* The sums are folds, that is recursive functions on the subsets of a     *)
(* set, so that they can be computed in any order is proved first, by      *)
(* induction on the size of the set.                                       *)
(***************************************************************************)
EXTENDS BankProofs, SequenceTheorems

-----------------------------------------------------------------------------
(* The money of an auction *)

Wins(id) == [n \in 1..SoldCycles(id) |-> TopBid(cycle[id][n])]

MoneyAssumptions == ContractAssumption /\ AuctionAssumption /\ NoBidAssumption

MoneyInv == TypeInv /\ CycleAccounts /\ ClosedCyclesWon

LEMMA MoneyOf ==
    ASSUME NEW id \in AuctionIds
    PROVE  /\ Phases[id] = Phase(id)
           /\ StandingBids[id] = StandingBid(id)
           /\ Sales[id] = Wins(id)
           /\ AllProceeds[id] = Proceeds(id)
BY DEF Phases, StandingBids, Sales, AllProceeds, Wins

(* The cycles sold are closed ones, and each was won. *)
LEMMA WinsType ==
    ASSUME MoneyAssumptions, MoneyInv, NEW id \in AuctionIds
    PROVE  /\ SoldCycles(id) \in Nat
           /\ Wins(id) \in Seq(BidData)
           /\ Len(Wins(id)) = SoldCycles(id)
           /\ \A n \in 1..SoldCycles(id) : Wins(id)[n] = TopBid(cycle[id][n])
<1> DEFINE k == root[id].current_auction_cycle
<1>1. HasRoot(id) => k \in CycleNumbers /\ k \in Nat /\ k >= 1
  BY AccountTypes DEF MoneyInv, TypeInv, MoneyAssumptions, CycleNumbers, AuctionAssumption
<1>2. SoldCycles(id) \in Nat /\ (HasRoot(id) => SoldCycles(id) <= k)
  <2>1. HasRoot(id) => OpenCycle(id) = IF IsOngoing(root[id]) THEN k ELSE 0
    BY DEF OpenCycle
  <2> QED
    BY <1>1, <2>1 DEF SoldCycles
<1>3. ASSUME NEW n \in 1..SoldCycles(id) PROVE TopBid(cycle[id][n]) \in BidData
  <2>1. HasRoot(id)
    BY <1>3 DEF SoldCycles
  <2>2. n \in CycleNumbers /\ n <= k
    BY <1>1, <1>2, <2>1 DEF CycleNumbers, MoneyAssumptions, AuctionAssumption
  <2>3. cycle[id][n] # NoAccount
    BY <2>1, <2>2 DEF MoneyInv, CycleAccounts
  <2>4. IsOngoing(root[id]) => n < k
    BY <1>1, <2>1 DEF SoldCycles, OpenCycle
  <2>5. HasBid(cycle[id][n])
    BY <2>1, <2>2, <2>3, <2>4 DEF MoneyInv, ClosedCyclesWon, ClosedCycles, ExistingCycles
  <2>6. cycle[id][n] \in CycleState
    BY <2>2, <2>3 DEF MoneyInv, TypeInv, TypeOK
  <2> QED
    BY <2>5, <2>6 DEF HasBid, TopBid, CycleState
<1>4. Wins(id) \in [1..SoldCycles(id) -> BidData]
  BY <1>3 DEF Wins
<1> QED
  BY <1>2, <1>4 DEF Wins

WinsTyped ==
    \A id \in AuctionIds :
        /\ Wins(id) \in Seq(BidData)
        /\ Len(Wins(id)) = SoldCycles(id)
        /\ \A n \in 1..SoldCycles(id) : Wins(id)[n] = TopBid(cycle[id][n])

LEMMA WinsTypedAfter == MoneyInv' => WinsTyped'
<1>1. MoneyInv => WinsTyped
  BY WinsType, ContractAssumption, AuctionAssumption, NoBidAssumption
     DEF WinsTyped, MoneyAssumptions
<1> QED
  BY <1>1, PTL

(* What the money of an auction depends on. *)
LEMMA MoneyKept ==
    ASSUME NEW id \in AuctionIds, root'[id] = root[id], cycle'[id] = cycle[id]
    PROVE  /\ Phase(id)' = Phase(id)
           /\ StandingBid(id)' = StandingBid(id)
           /\ Wins(id)' = Wins(id)
           /\ Proceeds(id)' = Proceeds(id)
BY DEF Phase, StandingBid, Wins, Proceeds, SoldCycles, OpenCycle, HasRoot, IsOngoing, HasBid, TopBid

(* Only the money of auction id changes. *)
MoneySet(id) ==
    /\ Phases' = [Phases EXCEPT ![id] = Phase(id)']
    /\ StandingBids' = [StandingBids EXCEPT ![id] = StandingBid(id)']
    /\ Sales' = [Sales EXCEPT ![id] = Wins(id)']
    /\ AllProceeds' = [AllProceeds EXCEPT ![id] = Proceeds(id)']

LEMMA MoneyUpdated ==
    ASSUME ContractAssumption, AuctionAssumption, TypeInv, NEW id \in AuctionIds, AuctionStep(id)
    PROVE  MoneySet(id)
<1>1. ASSUME NEW other \in AuctionIds \ {id}
      PROVE  /\ Phase(other)' = Phase(other)
             /\ StandingBid(other)' = StandingBid(other)
             /\ Wins(other)' = Wins(other)
             /\ Proceeds(other)' = Proceeds(other)
  <2>1. root'[other] = root[other] /\ cycle'[other] = cycle[other]
    BY <1>1, AuctionStepLocal
  <2> QED
    BY <2>1, MoneyKept
<1>2. Phases' = [Phases EXCEPT ![id] = Phase(id)']
  BY <1>1 DEF Phases
<1>3. StandingBids' = [StandingBids EXCEPT ![id] = StandingBid(id)']
  BY <1>1 DEF StandingBids
<1>4. Sales = [other \in AuctionIds |-> Wins(other)] /\ Sales' = [other \in AuctionIds |-> Wins(other)']
  BY DEF Sales, Wins
<1>5. Sales' = [Sales EXCEPT ![id] = Wins(id)']
  BY <1>1, <1>4
<1>6. AllProceeds' = [AllProceeds EXCEPT ![id] = Proceeds(id)']
  BY <1>1 DEF AllProceeds
<1> QED
  BY <1>2, <1>3, <1>5, <1>6 DEF MoneySet

-----------------------------------------------------------------------------
(* The effects of the instructions, as steps of Escrow *)

MoneyStep(id) ==
    \/ Money!Open(id) \/ Money!Raise(id) \/ Money!Withdraw(id)
    \/ \E is_last \in BOOLEAN : Money!Sell(id, is_last)
    \/ \E left \in 0..Len(Sales[id]) : Money!Dissolve(id, left)
    \/ Money!Remove(id)
    \/ UNCHANGED <<Phases, StandingBids, Sales, AllProceeds>>

LEMMA MoneyFunctions ==
    /\ Phases = [id \in AuctionIds |-> Phase(id)]
    /\ StandingBids = [id \in AuctionIds |-> StandingBid(id)]
    /\ Sales = [id \in AuctionIds |-> Wins(id)]
    /\ AllProceeds = [id \in AuctionIds |-> Proceeds(id)]
BY DEF Phases, StandingBids, Sales, AllProceeds, Wins

LEMMA MoneySame ==
    ASSUME NEW id \in AuctionIds, MoneySet(id),
           Phase(id)' = Phase(id), StandingBid(id)' = StandingBid(id), Wins(id)' = Wins(id),
           Proceeds(id)' = Proceeds(id)
    PROVE  MoneyStep(id)
<1>1. /\ Phases' = Phases /\ StandingBids' = StandingBids
      /\ Sales' = Sales /\ AllProceeds' = AllProceeds
  BY MoneyFunctions DEF MoneySet
<1> QED
  BY <1>1 DEF MoneyStep

LEMMA CreatedMoney ==
    ASSUME MoneyAssumptions, MoneyInv, MoneyInv', NEW id \in AuctionIds, Created(id),
           MoneySet(id)
    PROVE  MoneyStep(id)
<1>1. Phase(id) = "none" /\ StandingBid(id) = NoAccount /\ Proceeds(id) = 0 /\ SoldCycles(id) = 0
  BY DEF Created, Phase, StandingBid, Proceeds, SoldCycles, OpenCycle
<1>2. PICK c : CycleSet(id, 1, c) /\ c.bid_history = <<>>
  BY DEF Created
<1>3. cycle'[id][1] = c
  <2>1. 1 \in CycleNumbers
    BY DEF CycleNumbers, MoneyAssumptions, AuctionAssumption
  <2> QED
    BY <1>2, <2>1 DEF CycleSet, MoneyInv, TypeInv, TypeOK
<1>4. Phase(id)' = "open" /\ Proceeds(id)' = 0
  BY DEF Created, Phase, Proceeds, IsOngoing
<1>5. OpenCycle(id)' = 1 /\ SoldCycles(id)' = 0
  BY DEF Created, OpenCycle, SoldCycles, IsOngoing
<1>6. StandingBid(id)' = NoAccount
  BY <1>2, <1>3, <1>5 DEF StandingBid, HasBid
<1>7. Wins(id) = <<>> /\ Wins(id)' = <<>>
  BY <1>1, <1>5 DEF Wins
<1>8. /\ Phases' = [Phases EXCEPT ![id] = "open"]
      /\ StandingBids' = StandingBids /\ Sales' = Sales /\ AllProceeds' = AllProceeds
  BY <1>1, <1>4, <1>6, <1>7, MoneyFunctions DEF MoneySet
<1>9. Money!Open(id)
  BY <1>1, <1>8, MoneyOf DEF Money!Open
<1> QED
  BY <1>9 DEF MoneyStep

LEMMA BidPlacedMoney ==
    ASSUME MoneyAssumptions, MoneyInv, MoneyInv', NEW id \in AuctionIds, BidPlaced(id),
           MoneySet(id)
    PROVE  MoneyStep(id)
<1> DEFINE k == root[id].current_auction_cycle
<1>1. /\ HasRoot(id) /\ IsOngoing(root[id]) /\ root' = root
      /\ k \in CycleNumbers /\ k # 0
      /\ CurrentCycle(id) \in CycleState
  BY AccountTypes DEF BidPlaced, HasCurrentCycle, MoneyInv, TypeInv, MoneyAssumptions, CycleNumbers
<1>2. PICK c : \E bid \in BidData :
          /\ CycleSet(id, k, c) /\ HasBid(c)
          /\ HasBid(CurrentCycle(id)) => bid.bid_amount > TopBidAmount(CurrentCycle(id))
          /\ c.bid_history = CyclicPush(CurrentCycle(id).bid_history, bid)
  BY DEF BidPlaced
<1>3. PICK bid \in BidData :
          /\ CycleSet(id, k, c) /\ HasBid(c)
          /\ HasBid(CurrentCycle(id)) => bid.bid_amount > TopBidAmount(CurrentCycle(id))
          /\ c.bid_history = CyclicPush(CurrentCycle(id).bid_history, bid)
  BY <1>2
<1>4. \A n \in CycleNumbers : cycle'[id][n] = IF n = k THEN c ELSE cycle[id][n]
  BY <1>3 DEF CycleSet, MoneyInv, TypeInv, TypeOK
<1>5. OpenCycle(id) = k /\ OpenCycle(id)' = k /\ SoldCycles(id)' = SoldCycles(id)
  BY <1>1 DEF OpenCycle, SoldCycles, HasRoot
<1>6. Phase(id) = "open" /\ Phase(id)' = Phase(id) /\ Proceeds(id)' = Proceeds(id)
  BY <1>1 DEF Phase, Proceeds, HasRoot, IsOngoing
<1>7. StandingBid(id)' = bid
  <2>1. CurrentCycle(id).bid_history \in Seq(BidData)
    BY <1>1 DEF CycleState
  <2>2. TopBid(c) = bid
    <3> DEFINE h == CurrentCycle(id).bid_history
               pushed == CyclicPush(h, bid)
    <3>1. pushed[Len(pushed)] = bid
      <4> HIDE DEF h
      <4> QED
        BY <2>1, CyclicPushTop DEF h, MoneyAssumptions
    <3> HIDE DEF pushed
    <3> QED
      BY <1>3, <3>1 DEF TopBid, pushed
  <2> QED
    BY <1>1, <1>3, <1>4, <1>5, <2>2 DEF StandingBid, HasBid, TopBid
<1>8. Wins(id)' = Wins(id)
  <2>1. ASSUME NEW n \in 1..SoldCycles(id) PROVE cycle'[id][n] = cycle[id][n]
    <3>1. SoldCycles(id) = k - 1 /\ k \in Nat
      BY <1>1, <1>5 DEF SoldCycles, CycleNumbers
    <3>2. n \in CycleNumbers /\ n # k
      BY <1>1, <3>1 DEF CycleNumbers, MoneyAssumptions, AuctionAssumption
    <3> QED
      BY <1>4, <3>2
  <2> QED
    BY <1>5, <2>1 DEF Wins, TopBid
<1>9. StandingBid(id) # NoAccount => bid.bid_amount > StandingBid(id).bid_amount
  BY <1>1, <1>3, <1>5 DEF StandingBid, CurrentCycle, TopBidAmount
<1>10. /\ Phases' = Phases /\ Sales' = Sales /\ AllProceeds' = AllProceeds
       /\ StandingBids' = [StandingBids EXCEPT ![id] = bid]
  BY <1>6, <1>7, <1>8, MoneyFunctions DEF MoneySet
<1>11. StandingBids'[id] = bid /\ bid \in Money!Bids
  BY <1>10, MoneyFunctions DEF BidData, Money!Bids
<1>12. Money!Raise(id)
  BY <1>6, <1>9, <1>10, <1>11, MoneyOf DEF Money!Raise
<1> QED
  BY <1>12 DEF MoneyStep

(* Whether anything depends on a cycle but its bids. *)
LEMMA QuietMoney ==
    ASSUME MoneyAssumptions, MoneyInv, MoneyInv', NEW id \in AuctionIds,
           CycleTouched(id) \/ AccountsKept(id),
           MoneySet(id)
    PROVE  MoneyStep(id)
<1>1. /\ HasRoot(id)' <=> HasRoot(id)
      /\ HasRoot(id) =>
            /\ root'[id].current_auction_cycle = root[id].current_auction_cycle
            /\ root'[id].is_frozen = root[id].is_frozen
            /\ root'[id].is_finished = root[id].is_finished
            /\ root'[id].available_funds = root[id].available_funds
  BY DEF CycleTouched, AccountsKept, SameRoot, HasRoot
<1>2. \A n \in CycleNumbers :
          /\ TopBid(cycle'[id][n]) = TopBid(cycle[id][n])
          /\ HasBid(cycle'[id][n]) <=> HasBid(cycle[id][n])
  <2>1. CASE CycleTouched(id)
    <3>1. PICK m, c : /\ m \in CycleNumbers /\ CycleSet(id, m, c)
                      /\ c.bid_history = cycle[id][m].bid_history
      BY <2>1 DEF CycleTouched
    <3>2. \A n \in CycleNumbers : cycle'[id][n] = IF n = m THEN c ELSE cycle[id][n]
      BY <3>1 DEF CycleSet, MoneyInv, TypeInv, TypeOK
    <3> QED
      BY <3>1, <3>2 DEF TopBid, HasBid
  <2>2. CASE AccountsKept(id)
    BY <2>2 DEF AccountsKept, TopBid, HasBid
  <2> QED
    BY <2>1, <2>2
<1>3. OpenCycle(id)' = OpenCycle(id) /\ SoldCycles(id)' = SoldCycles(id)
  BY <1>1 DEF OpenCycle, SoldCycles, IsOngoing
<1>4. Phase(id)' = Phase(id) /\ Proceeds(id)' = Proceeds(id)
  BY <1>1 DEF Phase, Proceeds
<1>5. HasRoot(id) => root[id].current_auction_cycle \in CycleNumbers
  BY AccountTypes DEF MoneyInv, TypeInv, MoneyAssumptions
<1>6. StandingBid(id)' = StandingBid(id)
  <2>1. OpenCycle(id) # 0 => OpenCycle(id) \in CycleNumbers
    BY <1>5 DEF OpenCycle
  <2> QED
    BY <1>2, <1>3, <2>1 DEF StandingBid, TopBid, HasBid
<1>7. Wins(id)' = Wins(id)
  <2>1. ASSUME NEW n \in 1..SoldCycles(id) PROVE TopBid(cycle'[id][n]) = TopBid(cycle[id][n])
    <3>1. n \in CycleNumbers
      BY <1>5 DEF SoldCycles, OpenCycle, CycleNumbers, MoneyAssumptions, AuctionAssumption
    <3> QED
      BY <1>2, <3>1
  <2> QED
    BY <1>3, <2>1 DEF Wins, TopBid
<1> QED
  BY <1>4, <1>6, <1>7, MoneySame

(* The sale of the standing bid of cycle k. *)
LEMMA Sale ==
    ASSUME MoneyAssumptions, MoneyInv, MoneyInv', NEW id \in AuctionIds,
           HasRoot(id), IsOngoing(root[id]), HasBid(CurrentCycle(id)),
           SoldCycles(id)' = root[id].current_auction_cycle,
           \A n \in 1..root[id].current_auction_cycle : cycle'[id][n] = cycle[id][n]
    PROVE  /\ StandingBid(id) = TopBid(CurrentCycle(id))
           /\ StandingBid(id) \in BidData /\ StandingBid(id) # NoAccount
           /\ TopBidAmount(CurrentCycle(id)) = StandingBid(id).bid_amount
           /\ Wins(id)' = Append(Wins(id), StandingBid(id))
<1> DEFINE k == root[id].current_auction_cycle
<1>1. k \in Nat /\ k >= 1 /\ OpenCycle(id) = k /\ SoldCycles(id) = k - 1
  BY AccountTypes DEF OpenCycle, SoldCycles, MoneyInv, TypeInv, MoneyAssumptions, CycleNumbers,
                      AuctionAssumption
<1>2. StandingBid(id) = TopBid(cycle[id][k])
  BY <1>1 DEF StandingBid, CurrentCycle
<1>3. StandingBid(id) \in BidData /\ StandingBid(id) # NoAccount
  <2>1. CurrentCycle(id) \in CycleState
    <3>1. k \in CycleNumbers
      BY AccountTypes DEF MoneyInv, TypeInv, MoneyAssumptions
    <3>2. HasCurrentCycle(id)
      BY <1>1, <3>1 DEF MoneyInv, CycleAccounts, HasCurrentCycle, CurrentCycle
    <3> QED
      BY <3>2, AccountTypes DEF MoneyInv, TypeInv, MoneyAssumptions
  <2>2. TopBid(CurrentCycle(id)) \in BidData
    BY <2>1 DEF HasBid, TopBid, CycleState
  <2> QED
    BY <1>2, <2>2 DEF CurrentCycle, MoneyAssumptions, NoBidAssumption
<1>4. /\ Wins(id) \in Seq(BidData) /\ Len(Wins(id)) = k - 1
      /\ \A n \in 1..(k - 1) : Wins(id)[n] = TopBid(cycle[id][n])
  BY <1>1, WinsType
<1>5. /\ Wins(id)' \in Seq(BidData) /\ Len(Wins(id)') = k
      /\ \A n \in 1..k : Wins(id)'[n] = TopBid(cycle[id][n])
  <2>1. /\ Wins(id)' \in Seq(BidData) /\ Len(Wins(id)') = SoldCycles(id)'
        /\ \A n \in 1..SoldCycles(id)' : Wins(id)'[n] = TopBid(cycle'[id][n])
    BY WinsTypedAfter DEF WinsTyped
  <2> QED
    BY <2>1 DEF TopBid
<1>6. Wins(id)' = Append(Wins(id), StandingBid(id))
  <2> DEFINE old == Wins(id)
             new == Wins(id)'
             bid == StandingBid(id)
  <2>1. /\ Append(old, bid) \in Seq(BidData)
        /\ Len(Append(old, bid)) = k
        /\ \A n \in 1..(k - 1) : Append(old, bid)[n] = old[n]
        /\ Append(old, bid)[k] = bid
    BY <1>1, <1>3, <1>4, AppendProperties
  <2>2. \A n \in 1..k : new[n] = Append(old, bid)[n]
    BY SMTT(30), <1>1, <1>2, <1>4, <1>5, <2>1
  <2> HIDE DEF old, new, bid
  <2>3. new \in Seq(BidData) /\ Len(new) = k
    BY <1>5 DEF new
  <2>4. new = Append(old, bid)
    BY <2>1, <2>2, <2>3, SeqEqual
  <2> QED
    BY <2>4 DEF old, new, bid
<1> QED
  BY <1>2, <1>3, <1>6 DEF CurrentCycle, TopBidAmount

LEMMA SoldMoney ==
    ASSUME MoneyAssumptions, MoneyInv, MoneyInv', NEW id \in AuctionIds,
           Finished(id) \/ Advanced(id),
           MoneySet(id)
    PROVE  MoneyStep(id)
<1> DEFINE k == root[id].current_auction_cycle
           is_last == root'[id].is_finished
           won == TopBidAmount(CurrentCycle(id))
<1>1. /\ HasRoot(id) /\ HasRoot(id)' /\ IsOngoing(root[id]) /\ HasBid(CurrentCycle(id))
      /\ root'[id].is_frozen = root[id].is_frozen
      /\ is_last <=> Finished(id)
  BY DEF Finished, Advanced, HasCurrentCycle, IsOngoing
<1>2. k \in CycleNumbers /\ k \in Nat /\ k >= 1 /\ k + 1 # 0
  BY <1>1, AccountTypes DEF MoneyInv, TypeInv, MoneyAssumptions, CycleNumbers, AuctionAssumption
<1>3. is_last \in BOOLEAN
  <2>1. root'[id] \in RootState
    BY <1>1 DEF MoneyInv, TypeInv, TypeOK, HasRoot
  <2> QED
    BY <2>1 DEF RootState
<1>4. SoldCycles(id)' = k
  BY <1>1, <1>2 DEF Finished, Advanced, SoldCycles, OpenCycle, IsOngoing
<1>5. \A n \in 1..k : cycle'[id][n] = cycle[id][n]
  <2>1. CASE Finished(id)
    BY <2>1 DEF Finished
  <2>2. CASE Advanced(id)
    <3>1. PICK c : k + 1 \in CycleNumbers /\ CycleSet(id, k + 1, c)
      BY <2>2 DEF Advanced
    <3>2. \A n \in CycleNumbers : n # k + 1 => cycle'[id][n] = cycle[id][n]
      BY <3>1 DEF CycleSet, MoneyInv, TypeInv, TypeOK
    <3>3. \A n \in 1..k : n \in CycleNumbers /\ n # k + 1
      BY <1>2 DEF CycleNumbers, MoneyAssumptions, AuctionAssumption
    <3> QED
      BY <3>2, <3>3
  <2> QED
    BY <1>1, <2>1, <2>2
<1>6. /\ StandingBid(id) # NoAccount
      /\ won = StandingBid(id).bid_amount
      /\ Wins(id)' = Append(Wins(id), StandingBid(id))
  BY <1>1, <1>4, <1>5, Sale
<1>7. StandingBid(id)' = NoAccount
  <2>1. CASE is_last
    <3>1. OpenCycle(id)' = 0
      BY <2>1 DEF OpenCycle, IsOngoing
    <3> QED
      BY <3>1 DEF StandingBid
  <2>2. CASE ~is_last
    <3>1. Advanced(id)
      BY <1>1, <2>2
    <3>2. PICK c : /\ k + 1 \in CycleNumbers /\ CycleSet(id, k + 1, c)
                   /\ c.bid_history = <<>>
      BY <3>1 DEF Advanced
    <3>3. cycle'[id][k + 1] = c
      BY <3>2 DEF CycleSet, MoneyInv, TypeInv, TypeOK
    <3>4. OpenCycle(id)' = k + 1
      BY <1>1, <2>2, <3>1 DEF Advanced, OpenCycle, IsOngoing
    <3> QED
      BY <3>2, <3>3, <3>4 DEF StandingBid, HasBid
  <2> QED
    BY <2>1, <2>2
<1>8. Phase(id) = "open" /\ Phase(id)' = IF is_last THEN "finished" ELSE "open"
  BY <1>1 DEF Phase, IsOngoing
<1>9. Proceeds(id)' = Proceeds(id) + StandingBid(id).bid_amount + (IF is_last THEN BankRent ELSE 0)
  <2>1. Proceeds(id) = root[id].available_funds /\ Proceeds(id)' = root'[id].available_funds
    BY <1>1 DEF Proceeds
  <2>2. root[id].available_funds \in Nat /\ won \in Nat
    <3>1. root[id] \in RootState /\ CurrentCycle(id) \in CycleState
      BY <1>1, AccountTypes DEF MoneyInv, TypeInv, MoneyAssumptions, Finished, Advanced
    <3>2. TopBid(CurrentCycle(id)) \in BidData
      BY <1>1, <3>1 DEF HasBid, TopBid, CycleState
    <3> QED
      BY <1>1, <3>1, <3>2 DEF RootState, TopBidAmount, BidData
  <2>3. CASE is_last
    BY <1>1, <1>6, <2>1, <2>3 DEF Finished
  <2>4. CASE ~is_last
    <3>1. root'[id].available_funds = root[id].available_funds + won
      BY <1>1, <2>4 DEF Advanced
    <3> HIDE DEF is_last, won
    <3> QED
      BY <1>6, <2>1, <2>2, <2>4, <3>1
  <2> QED
    BY <2>3, <2>4
<1> HIDE DEF is_last, won
<1>10. Money!Sell(id, is_last)
  <2>1. /\ Phases' = [Phases EXCEPT ![id] = IF is_last THEN "finished" ELSE "open"]
        /\ StandingBids' = [StandingBids EXCEPT ![id] = NoAccount]
        /\ Sales' = [Sales EXCEPT ![id] = Append(@, StandingBids[id])]
    BY <1>6, <1>7, <1>8, MoneyOf DEF MoneySet
  <2>2. AllProceeds' = [AllProceeds EXCEPT ![id] =
            @ + StandingBids[id].bid_amount + (IF is_last THEN BankRent ELSE 0)]
    BY <1>9, MoneyOf DEF MoneySet
  <2> QED
    BY <1>6, <1>8, <2>1, <2>2, MoneyOf DEF Money!Sell
<1> QED
  BY <1>3, <1>10 DEF MoneyStep

LEMMA FundsClaimedMoney ==
    ASSUME MoneyAssumptions, MoneyInv, MoneyInv', NEW id \in AuctionIds, FundsClaimed(id),
           MoneySet(id)
    PROVE  MoneyStep(id)
<1>1. /\ HasRoot(id) /\ HasRoot(id)' /\ cycle' = cycle /\ ~root[id].is_frozen
      /\ root'[id].current_auction_cycle = root[id].current_auction_cycle
      /\ root'[id].is_finished = root[id].is_finished
      /\ root'[id].is_frozen = root[id].is_frozen
  BY DEF FundsClaimed, HasCurrentCycle
<1>2. Phase(id) \in {"open", "finished"} /\ Phase(id)' = Phase(id)
  BY <1>1 DEF Phase
<1>3. OpenCycle(id)' = OpenCycle(id) /\ SoldCycles(id)' = SoldCycles(id)
  BY <1>1 DEF OpenCycle, SoldCycles, IsOngoing
<1>4. StandingBid(id)' = StandingBid(id) /\ Wins(id)' = Wins(id)
  BY <1>1, <1>3 DEF StandingBid, Wins, TopBid, HasBid
<1>5. Proceeds(id)' \in 0..Proceeds(id)
  <2>1. root[id] \in RootState /\ root'[id] \in RootState
    BY <1>1 DEF MoneyInv, TypeInv, TypeOK, HasRoot
  <2>2. root[id].available_funds \in Nat /\ root'[id].available_funds \in Nat
    BY <2>1 DEF RootState
  <2>3. PICK amount \in Nat : root'[id].available_funds = root[id].available_funds - amount
    BY DEF FundsClaimed
  <2> QED
    BY <1>1, <2>2, <2>3 DEF Proceeds
<1>6. /\ Phases' = Phases /\ StandingBids' = StandingBids /\ Sales' = Sales
      /\ AllProceeds' = [AllProceeds EXCEPT ![id] = Proceeds(id)']
  BY <1>2, <1>4, MoneyFunctions DEF MoneySet
<1>7. AllProceeds'[id] = Proceeds(id)'
  BY <1>6, MoneyFunctions
<1>8. Money!Withdraw(id)
  BY <1>2, <1>5, <1>6, <1>7, MoneyOf DEF Money!Withdraw
<1> QED
  BY <1>8 DEF MoneyStep

LEMMA CyclesDeletedMoney ==
    ASSUME MoneyAssumptions, MoneyInv, MoneyInv', NEW id \in AuctionIds, CyclesDeleted(id),
           MoneySet(id)
    PROVE  MoneyStep(id)
<1> DEFINE k == root[id].current_auction_cycle
           left == root'[id].current_auction_cycle
<1>1. /\ HasRoot(id) /\ HasRoot(id)' /\ k \in Nat /\ left \in Nat /\ left >= 1 /\ left < k
      /\ root'[id].is_finished = root[id].is_finished
      /\ root'[id].is_frozen = (root[id].is_frozen \/ IsOngoing(root[id]))
      /\ cycle' = CyclesDownTo(id, left)
      /\ Proceeds(id)' = Proceeds(id)
  BY AccountTypes DEF CyclesDeleted, HasCurrentCycle, CycleNumbers, Proceeds, MoneyInv, TypeInv,
                      MoneyAssumptions
<1>2. root[id].is_frozen \in BOOLEAN /\ root[id].is_finished \in BOOLEAN
  BY <1>1, AccountTypes DEF RootState, MoneyInv, TypeInv, MoneyAssumptions
<1>3. OpenCycle(id)' = 0 /\ SoldCycles(id)' = left /\ StandingBid(id)' = NoAccount
  BY <1>1, <1>2 DEF OpenCycle, SoldCycles, StandingBid, IsOngoing
<1>4. left \in 0..SoldCycles(id)
  BY <1>1 DEF SoldCycles, OpenCycle
<1>5. Phase(id) # "none" /\ Phase(id)' = IF Phase(id) = "open" THEN "dissolving" ELSE Phase(id)
  BY <1>1, <1>2 DEF Phase, IsOngoing
<1>6. /\ Wins(id) \in Seq(BidData) /\ Len(Wins(id)) = SoldCycles(id)
      /\ \A n \in 1..SoldCycles(id) : Wins(id)[n] = TopBid(cycle[id][n])
      /\ SoldCycles(id) \in Nat
  BY WinsType
<1>7. /\ Wins(id)' \in Seq(BidData) /\ Len(Wins(id)') = left
      /\ \A n \in 1..left : Wins(id)'[n] = TopBid(cycle'[id][n])
  BY <1>3, WinsTypedAfter DEF WinsTyped, TopBid
<1>8. \A n \in 1..left : cycle'[id][n] = cycle[id][n]
  <2>1. \A n \in CycleNumbers : cycle'[id][n] =
            IF n \in (left + 1)..k THEN NoAccount ELSE cycle[id][n]
    BY <1>1 DEF CyclesDownTo, MoneyInv, TypeInv, TypeOK
  <2>2. \A n \in 1..left : n \in CycleNumbers /\ n \notin (left + 1)..k
    <3>1. k \in CycleNumbers
      BY <1>1, AccountTypes DEF MoneyInv, TypeInv, MoneyAssumptions
    <3> QED
      BY <1>1, <3>1 DEF CycleNumbers, MoneyAssumptions, AuctionAssumption
  <2> QED
    BY <2>1, <2>2
<1> HIDE DEF left
<1>9. Wins(id)' = SubSeq(Wins(id), 1, left)
  <2> DEFINE old == Wins(id)
             new == Wins(id)'
  <2>1. \A n \in 1..left : old[n] \in BidData
    BY <1>4, <1>6
  <2>2. new \in Seq(BidData) /\ Len(new) = left /\ left \in Nat
    BY <1>1, <1>7
  <2>3. \A n \in 1..left : new[n] = old[n]
    BY <1>4, <1>6, <1>7, <1>8 DEF TopBid
  <2> HIDE DEF old, new
  <2>4. /\ SubSeq(old, 1, left) \in Seq(BidData)
        /\ Len(SubSeq(old, 1, left)) = left
        /\ \A n \in 1..left : SubSeq(old, 1, left)[n] = old[n]
    <3>1. /\ SubSeq(old, 1, left) \in Seq(BidData)
          /\ Len(SubSeq(old, 1, left)) = IF 1 <= left THEN left - 1 + 1 ELSE 0
          /\ \A n \in 1..(left - 1 + 1) : SubSeq(old, 1, left)[n] = old[1 + n - 1]
      BY <2>1, <2>2, SubSeqProperties
    <3> QED
      BY <2>2, <3>1
  <2>5. new = SubSeq(old, 1, left)
    BY <2>2, <2>3, <2>4, SeqEqual
  <2> QED
    BY <2>5 DEF old, new
<1>10. Money!Dissolve(id, left)
  <2>1. /\ Phases' = [Phases EXCEPT ![id] = IF @ = "open" THEN "dissolving" ELSE @]
        /\ StandingBids' = [StandingBids EXCEPT ![id] = NoAccount]
    BY <1>3, <1>5, MoneyOf DEF MoneySet
  <2>2. Sales' = [Sales EXCEPT ![id] = SubSeq(@, 1, left)]
    BY <1>9, MoneyOf DEF MoneySet
  <2>3. AllProceeds' = AllProceeds
    BY <1>1, MoneyFunctions DEF MoneySet
  <2> QED
    BY <1>5, <2>1, <2>2, <2>3, MoneyOf DEF Money!Dissolve
<1>11. left \in 0..Len(Sales[id])
  BY <1>4, <1>6, MoneyOf
<1> QED
  BY <1>10, <1>11 DEF MoneyStep

LEMMA DeletedMoney ==
    ASSUME NEW id \in AuctionIds, Deleted(id),
           MoneySet(id)
    PROVE  MoneyStep(id)
<1>1. /\ Phase(id) # "none" /\ Phase(id)' = "none"
      /\ OpenCycle(id)' = 0 /\ SoldCycles(id)' = 0 /\ Proceeds(id)' = 0
  BY DEF Deleted, Phase, OpenCycle, SoldCycles, Proceeds
<1>2. StandingBid(id)' = NoAccount /\ Wins(id)' = <<>>
  BY <1>1 DEF StandingBid, Wins
<1>3. Money!Remove(id)
  BY <1>1, <1>2, MoneyOf DEF MoneySet, Money!Remove
<1> QED
  BY <1>3 DEF MoneyStep

-----------------------------------------------------------------------------

LEMMA MoneyStepCorrect ==
    ASSUME MoneyAssumptions, MoneyInv, MoneyInv', [Next]_vars
    PROVE  [Money!Next]_(Money!escrow)
<1>1. ASSUME UNCHANGED stateVars PROVE UNCHANGED Money!escrow
  BY <1>1 DEF stateVars, Money!escrow, Phases, StandingBids, Sales, AllProceeds, Phase, StandingBid,
              Proceeds, SoldCycles, OpenCycle, HasRoot, IsOngoing, HasBid, TopBid
<1>2. ASSUME NEW id \in AuctionIds, AuctionStep(id) PROVE MoneyStep(id)
  <2>1. MoneySet(id)
    BY <1>2, MoneyUpdated DEF MoneySet, MoneyInv, MoneyAssumptions
  <2>2. \/ Created(id) \/ BidPlaced(id) \/ CycleTouched(id) \/ AccountsKept(id)
        \/ Finished(id) \/ Advanced(id) \/ FundsClaimed(id) \/ CyclesDeleted(id)
        \/ Deleted(id)
    BY <1>2, AuctionStepEffect DEF MoneyInv, MoneyAssumptions
  <2> QED
    BY <2>1, <2>2, CreatedMoney, BidPlacedMoney, QuietMoney, SoldMoney, FundsClaimedMoney,
       CyclesDeletedMoney, DeletedMoney
<1>3. ASSUME NEW id \in AuctionIds, MoneyStep(id) PROVE [Money!Next]_(Money!escrow)
  BY <1>3 DEF MoneyStep, Money!Next, Money!escrow
<1> QED
  BY <1>1, <1>2, <1>3, StepCases

(* Module Auction implements module Escrow, for every configuration: each  *)
(* instruction is one step of one auction's money, or none at all.         *)
THEOREM AuctionImplementsEscrow == Spec => ImplementsEscrow
<1>1. Init => Money!Init
  BY DEF Init, Money!Init, Phases, StandingBids, Sales, AllProceeds, Phase, StandingBid, Proceeds,
         SoldCycles, OpenCycle, HasRoot
<1>2. MoneyInv /\ MoneyInv' /\ [Next]_vars => [Money!Next]_(Money!escrow)
  BY MoneyStepCorrect, ContractAssumption, AuctionAssumption, NoBidAssumption DEF MoneyAssumptions
<1>3. Spec => []MoneyInv
  BY TypeInvariant, CycleAccountsInvariant, ClosedCyclesWonInvariant, PTL DEF MoneyInv
<1> QED
  BY <1>1, <1>2, <1>3, PTL DEF Spec, ImplementsEscrow, Money!Spec

-----------------------------------------------------------------------------
(* Sums over finite sets *)

(* Induction on the natural numbers, for a property given as a set. *)
LEMMA NatInductionOnSet ==
    ASSUME NEW T, 0 \in T, \A n \in Nat : n \in T => n + 1 \in T
    PROVE  Nat \subseteq T
<1> SUFFICES ASSUME Nat \ T # {} PROVE FALSE
  OBVIOUS
<1>1. PICK n \in Nat \ T : \A m \in Nat \ T : ~(<<m, n>> \in OpToRel(<, Nat))
  BY NatLessThanWellFounded, WFMin
<1>2. n # 0 /\ n - 1 \in Nat /\ (n - 1) + 1 = n
  OBVIOUS
<1>3. <<n - 1, n>> \in OpToRel(<, Nat)
  BY <1>2 DEF OpToRel
<1> QED
  BY <1>1, <1>2, <1>3

(* The sum of the values of f on S, as the properties write it. *)
Total(f, S) == MapThenSumSet(LAMBDA x : f[x], S)

(* The fold takes the elements of a set in the order of this choice, and   *)
(* the function it recurs through has the sum of every subset.             *)
Pick(s) == CHOOSE x \in s : TRUE

SumsOf(f, S, it) ==
    it = [s \in SUBSET S |-> IF s = {} THEN 0 ELSE f[Pick(s)] + it[s \ {Pick(s)}]]

LEMMA TotalAsChoice ==
    ASSUME NEW f, NEW S PROVE Total(f, S) = (CHOOSE it : SumsOf(f, S, it))[S]
BY Zenon DEF Total, MapThenSumSet, MapThenFoldSet, SumsOf, Pick

LEMMA Picked ==
    ASSUME NEW S, IsFiniteSet(S), NEW s \in SUBSET S, s # {}
    PROVE  /\ Pick(s) \in s
           /\ s \ {Pick(s)} \in SUBSET S
           /\ Cardinality(s) \in Nat
           /\ Cardinality(s \ {Pick(s)}) = Cardinality(s) - 1
<1>1. Pick(s) \in s
  BY DEF Pick
<1>2. IsFiniteSet(s) /\ Cardinality(s) \in Nat
  BY FS_Subset, FS_CardinalityType
<1> QED
  BY <1>1, <1>2, FS_RemoveElement

LEMMA SumsExist ==
    ASSUME NEW S, IsFiniteSet(S), NEW f \in [S -> Nat]
    PROVE  \E it \in [SUBSET S -> Nat] : SumsOf(f, S, it)
(* A function that is right on the sets with up to n elements. *)
<1> DEFINE step(it, s) == IF s = {} THEN 0 ELSE f[Pick(s)] + it[s \ {Pick(s)}]
           right(it, n) == \A s \in SUBSET S : Cardinality(s) <= n => it[s] = step(it, s)
           T == {n \in Nat : \E it \in [SUBSET S -> Nat] : right(it, n)}
<1>0. \A it \in [SUBSET S -> Nat], s \in SUBSET S : step(it, s) \in Nat
  <2> SUFFICES ASSUME NEW it \in [SUBSET S -> Nat], NEW s \in SUBSET S, s # {}
               PROVE  f[Pick(s)] + it[s \ {Pick(s)}] \in Nat
    OBVIOUS
  <2>1. Pick(s) \in S /\ s \ {Pick(s)} \in SUBSET S
    BY Picked
  <2> QED
    BY <2>1
<1>1. 0 \in T
  <2> DEFINE zero == [s \in SUBSET S |-> 0]
  <2>1. zero \in [SUBSET S -> Nat]
    OBVIOUS
  <2>2. ASSUME NEW s \in SUBSET S, Cardinality(s) <= 0 PROVE zero[s] = step(zero, s)
    <3>1. s = {}
      <4>1. IsFiniteSet(s) /\ Cardinality(s) \in Nat
        BY FS_Subset, FS_CardinalityType
      <4>2. Cardinality(s) = 0
        BY <2>2, <4>1
      <4> QED
        BY <4>1, <4>2, FS_EmptySet
    <3> QED
      BY <3>1
  <2> QED
    BY <2>1, <2>2
<1>2. ASSUME NEW n \in Nat, n \in T PROVE n + 1 \in T
  <2>1. PICK it \in [SUBSET S -> Nat] : right(it, n)
    BY <1>2
  <2> DEFINE next == [s \in SUBSET S |-> step(it, s)]
  <2>2. next \in [SUBSET S -> Nat]
    BY <1>0
  <2>3. ASSUME NEW s \in SUBSET S, Cardinality(s) <= n + 1 PROVE next[s] = step(next, s)
    <3>1. CASE s = {}
      BY <3>1
    <3>2. CASE s # {}
      <4> DEFINE rest == s \ {Pick(s)}
      <4>1. rest \in SUBSET S /\ Cardinality(rest) = Cardinality(s) - 1 /\ Cardinality(s) \in Nat
        BY <3>2, Picked
      <4>2. Cardinality(rest) <= n
        BY <2>3, <4>1
      <4>3. it[rest] = step(it, rest)
        BY <2>1, <4>1, <4>2
      <4>4. next[rest] = it[rest]
        BY <4>1, <4>3
      <4>5. next[s] = f[Pick(s)] + it[rest]
        BY <3>2
      <4> QED
        BY <3>2, <4>4, <4>5
    <3> QED
      BY <3>1, <3>2
  <2>4. right(next, n + 1)
    BY <2>3
  <2> HIDE DEF next, right
  <2> QED
    BY <2>2, <2>4
<1>3. Cardinality(S) \in T
  <2> HIDE DEF T
  <2> QED
    BY <1>1, <1>2, NatInductionOnSet, FS_CardinalityType
<1>4. PICK it \in [SUBSET S -> Nat] : right(it, Cardinality(S))
  BY <1>3
<1>5. \A s \in SUBSET S : it[s] = step(it, s)
  BY <1>4, FS_Subset
<1> QED
  BY <1>5 DEF SumsOf

(* There is one such function only. *)
LEMMA SumsUnique ==
    ASSUME NEW S, IsFiniteSet(S), NEW f \in [S -> Nat], NEW it, SumsOf(f, S, it),
           NEW other, SumsOf(f, S, other)
    PROVE  it = other
<1> DEFINE T == {n \in Nat : \A s \in SUBSET S : Cardinality(s) = n => it[s] = other[s]}
<1>0. /\ it = [s \in SUBSET S |-> it[s]] /\ other = [s \in SUBSET S |-> other[s]]
      /\ \A s \in SUBSET S :
             it[s] = (IF s = {} THEN 0 ELSE f[Pick(s)] + it[s \ {Pick(s)}])
      /\ \A s \in SUBSET S :
             other[s] = (IF s = {} THEN 0 ELSE f[Pick(s)] + other[s \ {Pick(s)}])
  BY Zenon DEF SumsOf
<1>1. 0 \in T
  <2> SUFFICES ASSUME NEW s \in SUBSET S, Cardinality(s) = 0 PROVE it[s] = other[s]
    OBVIOUS
  <2>1. s = {}
    BY FS_Subset, FS_EmptySet
  <2> QED
    BY <1>0, <2>1
<1>2. ASSUME NEW n \in Nat, n \in T PROVE n + 1 \in T
  <2> SUFFICES ASSUME NEW s \in SUBSET S, Cardinality(s) = n + 1 PROVE it[s] = other[s]
    OBVIOUS
  <2>1. s # {}
    BY FS_EmptySet
  <2>2. s \ {Pick(s)} \in SUBSET S /\ Cardinality(s \ {Pick(s)}) = n
    BY <2>1, Picked
  <2>3. it[s \ {Pick(s)}] = other[s \ {Pick(s)}]
    BY <1>2, <2>2
  <2> QED
    BY <1>0, <2>1, <2>3
<1>3. Nat \subseteq T
  <2> HIDE DEF T
  <2> QED
    BY <1>1, <1>2, NatInductionOnSet
<1>4. ASSUME NEW s \in SUBSET S PROVE it[s] = other[s]
  <2>1. Cardinality(s) \in Nat
    BY FS_Subset, FS_CardinalityType
  <2> QED
    BY <1>3, <2>1
<1> QED
  BY <1>0, <1>4

(* What the sums are, whichever term stands for the values. *)
LEMMA SumsTotal ==
    ASSUME NEW S, IsFiniteSet(S), NEW f \in [S -> Nat], NEW it, SumsOf(f, S, it)
    PROVE  Total(f, S) = it[S] /\ it \in [SUBSET S -> Nat]
<1>1. SumsOf(f, S, CHOOSE i : SumsOf(f, S, i))
  OBVIOUS
<1>2. it = CHOOSE i : SumsOf(f, S, i)
  BY <1>1, SumsUnique
<1>3. it \in [SUBSET S -> Nat]
  <2>1. PICK other \in [SUBSET S -> Nat] : SumsOf(f, S, other)
    BY SumsExist
  <2>2. it = other
    BY <2>1, SumsUnique
  <2> QED
    BY <2>1, <2>2
<1> QED
  BY <1>2, <1>3, TotalAsChoice

LEMMA TotalType ==
    ASSUME NEW S, IsFiniteSet(S), NEW f \in [S -> Nat]
    PROVE  Total(f, S) \in Nat
<1>1. PICK it \in [SUBSET S -> Nat] : SumsOf(f, S, it)
  BY SumsExist
<1>2. Total(f, S) = it[S]
  BY <1>1, SumsTotal
<1> QED
  BY <1>1, <1>2

(* The sum over a subset depends on the values there only. *)
LEMMA TotalOfSubset ==
    ASSUME NEW S, IsFiniteSet(S), NEW f \in [S -> Nat], NEW it, SumsOf(f, S, it),
           NEW T \in SUBSET S, NEW g, \A x \in T : g[x] = f[x]
    PROVE  Total(g, T) = it[T]
<1> DEFINE part == [s \in SUBSET T |-> it[s]]
           h == [x \in T |-> f[x]]
<1>1. IsFiniteSet(T) /\ h \in [T -> Nat]
  BY FS_Subset
<1>2. \A s \in SUBSET S : it[s] = (IF s = {} THEN 0 ELSE f[Pick(s)] + it[s \ {Pick(s)}])
  BY Zenon DEF SumsOf
<1>3. ASSUME NEW s \in SUBSET T
      PROVE  part[s] = IF s = {} THEN 0 ELSE h[Pick(s)] + part[s \ {Pick(s)}]
  <2>1. CASE s = {}
    BY <1>2, <2>1
  <2>2. CASE s # {}
    <3>1. Pick(s) \in T /\ s \ {Pick(s)} \in SUBSET T /\ s \in SUBSET S
      BY <1>1, <2>2, Picked
    <3> QED
      BY <1>2, <2>2, <3>1
  <2> QED
    BY <2>1, <2>2
<1>4. SumsOf(h, T, part)
  BY <1>3 DEF SumsOf
<1>5. \A i : SumsOf(g, T, i) <=> SumsOf(h, T, i)
  <2> SUFFICES ASSUME NEW i
               PROVE  [s \in SUBSET T |-> IF s = {} THEN 0 ELSE g[Pick(s)] + i[s \ {Pick(s)}]]
                    = [s \in SUBSET T |-> IF s = {} THEN 0 ELSE h[Pick(s)] + i[s \ {Pick(s)}]]
    BY Zenon DEF SumsOf
  <2>1. \A s \in SUBSET T : s # {} => g[Pick(s)] = h[Pick(s)]
    BY <1>1, Picked
  <2> HIDE DEF h
  <2> QED
    BY <2>1
<1>6. SumsOf(g, T, CHOOSE i : SumsOf(g, T, i))
  BY <1>4, <1>5
<1>7. (CHOOSE i : SumsOf(g, T, i)) = part
  BY <1>1, <1>4, <1>5, <1>6, SumsUnique
<1>8. part[T] = it[T]
  OBVIOUS
<1> QED
  BY <1>7, <1>8, TotalAsChoice

(* A sum may be taken in any order: any element may be taken out first. *)
LEMMA TotalTakenOut ==
    ASSUME NEW S, IsFiniteSet(S), NEW f \in [S -> Nat], NEW y \in S
    PROVE  Total(f, S) = f[y] + Total(f, S \ {y})
<1>1. PICK it \in [SUBSET S -> Nat] : SumsOf(f, S, it)
  BY SumsExist
<1>2. \A s \in SUBSET S : it[s] = (IF s = {} THEN 0 ELSE f[Pick(s)] + it[s \ {Pick(s)}])
  BY <1>1, Zenon DEF SumsOf
<1> DEFINE taken(s) == \A x \in s : it[s] = f[x] + it[s \ {x}]
           T == {n \in Nat : \A s \in SUBSET S : Cardinality(s) = n => taken(s)}
<1>3. 0 \in T
  <2> SUFFICES ASSUME NEW s \in SUBSET S, Cardinality(s) = 0 PROVE taken(s)
    OBVIOUS
  <2>1. s = {}
    BY FS_Subset, FS_EmptySet
  <2> QED
    BY <2>1
<1>4. ASSUME NEW n \in Nat, n \in T PROVE n + 1 \in T
  <2> SUFFICES ASSUME NEW s \in SUBSET S, Cardinality(s) = n + 1, NEW x \in s
               PROVE  it[s] = f[x] + it[s \ {x}]
    OBVIOUS
  <2> DEFINE p == Pick(s)
  <2>1. s # {} /\ p \in s /\ x \in S /\ p \in S
    BY Picked
  <2>2. it[s] = f[p] + it[s \ {p}]
    BY <1>2, <2>1
  <2>3. IsFiniteSet(s)
    BY FS_Subset
  <2> HIDE DEF p
  <2>4. CASE x = p
    BY <2>2, <2>4
  <2>5. CASE x # p
    <3>1. /\ s \ {p} \in SUBSET S /\ Cardinality(s \ {p}) = n /\ x \in s \ {p}
          /\ s \ {x} \in SUBSET S /\ Cardinality(s \ {x}) = n /\ p \in s \ {x}
      <4>1. Cardinality(s \ {p}) = (n + 1) - 1 /\ Cardinality(s \ {x}) = (n + 1) - 1
        BY <2>1, <2>3, FS_RemoveElement
      <4>2. (n + 1) - 1 = n
        OBVIOUS
      <4> QED
        BY <2>1, <2>5, <4>1, <4>2
    <3>2. taken(s \ {p}) /\ taken(s \ {x})
      BY <1>4, <3>1
    <3>3. /\ it[s \ {p}] = f[x] + it[(s \ {p}) \ {x}]
          /\ it[s \ {x}] = f[p] + it[(s \ {x}) \ {p}]
      BY <3>1, <3>2
    <3>4. (s \ {p}) \ {x} = (s \ {x}) \ {p} /\ (s \ {p}) \ {x} \in SUBSET S
      OBVIOUS
    <3>5. /\ f[p] \in Nat /\ f[x] \in Nat /\ it[(s \ {x}) \ {p}] \in Nat
          /\ it[(s \ {p}) \ {x}] = it[(s \ {x}) \ {p}]
      BY <1>1, <2>1, <3>4
    <3> QED
      BY <2>2, <3>3, <3>5
  <2> QED
    BY <2>4, <2>5
<1>5. Nat \subseteq T
  <2> HIDE DEF T
  <2> QED
    BY <1>3, <1>4, NatInductionOnSet
<1>6. taken(S)
  <2>1. Cardinality(S) \in Nat
    BY FS_CardinalityType
  <2> QED
    BY <1>5, <2>1
<1>7. it[S] = f[y] + it[S \ {y}]
  BY <1>6
<1>8. Total(f, S) = it[S]
  BY <1>1, SumsTotal
<1>9. Total(f, S \ {y}) = it[S \ {y}]
  BY <1>1, TotalOfSubset
<1> QED
  BY <1>7, <1>8, <1>9

(* Two functions that agree on a set have the same sum there. *)
LEMMA TotalSame ==
    ASSUME NEW S, IsFiniteSet(S), NEW f \in [S -> Nat], NEW g, \A x \in S : g[x] = f[x]
    PROVE  Total(g, S) = Total(f, S)
<1>1. PICK it \in [SUBSET S -> Nat] : SumsOf(f, S, it)
  BY SumsExist
<1>2. Total(g, S) = it[S] /\ Total(f, S) = it[S]
  BY <1>1, SumsTotal, TotalOfSubset
<1> QED
  BY <1>2

LEMMA TotalEmpty == ASSUME NEW f, NEW S, S = {} PROVE Total(f, S) = 0
<1> DEFINE none == [x \in S |-> 0]
<1>1. IsFiniteSet(S) /\ none \in [S -> Nat]
  BY FS_EmptySet
<1>2. \A x \in S : f[x] = none[x]
  OBVIOUS
<1> HIDE DEF none
<1>3. PICK it \in [SUBSET S -> Nat] : SumsOf(none, S, it)
  BY <1>1, SumsExist
<1>4. it[S] = 0
  BY <1>3 DEF SumsOf
<1>5. Total(none, S) = it[S]
  BY <1>1, <1>3, SumsTotal
<1>6. Total(f, S) = Total(none, S)
  BY <1>1, <1>2, TotalSame
<1> QED
  BY <1>4, <1>5, <1>6

LEMMA TotalAdded ==
    ASSUME NEW S, IsFiniteSet(S), NEW x, x \notin S, NEW f \in [S \cup {x} -> Nat]
    PROVE  Total(f, S \cup {x}) = f[x] + Total(f, S)
<1>1. IsFiniteSet(S \cup {x}) /\ (S \cup {x}) \ {x} = S
  BY FS_AddElement
<1>2. Total(f, S \cup {x}) = f[x] + Total(f, (S \cup {x}) \ {x})
  BY <1>1, TotalTakenOut
<1> QED
  BY <1>1, <1>2

LEMMA TotalZero ==
    ASSUME NEW S, IsFiniteSet(S), NEW f \in [S -> Nat], \A x \in S : f[x] = 0
    PROVE  Total(f, S) = 0
<1> DEFINE zero == [s \in SUBSET S |-> 0]
<1>1. \A s \in SUBSET S : zero[s] = (IF s = {} THEN 0 ELSE f[Pick(s)] + zero[s \ {Pick(s)}])
  <2> SUFFICES ASSUME NEW s \in SUBSET S, s # {}
               PROVE  0 = f[Pick(s)] + zero[s \ {Pick(s)}]
    OBVIOUS
  <2>1. Pick(s) \in S /\ s \ {Pick(s)} \in SUBSET S
    BY Picked
  <2> QED
    BY <2>1
<1>2. SumsOf(f, S, zero)
  BY <1>1 DEF SumsOf
<1>3. zero[S] = 0
  OBVIOUS
<1> HIDE DEF zero
<1>4. \A it : SumsOf(f, S, it) => Total(f, S) = it[S]
  BY SumsTotal
<1> QED
  BY <1>2, <1>3, <1>4

(* A sum changes by as much as one of its values. *)
LEMMA TotalChanged ==
    ASSUME NEW S, IsFiniteSet(S), NEW f \in [S -> Nat], NEW g \in [S -> Nat], NEW y \in S,
           \A x \in S \ {y} : g[x] = f[x]
    PROVE  Total(g, S) = Total(f, S) + g[y] - f[y]
<1>1. IsFiniteSet(S \ {y})
  BY FS_RemoveElement
<1> DEFINE h == [x \in S \ {y} |-> f[x]]
<1>2. /\ Total(f, S \ {y}) = Total(h, S \ {y})
      /\ Total(g, S \ {y}) = Total(h, S \ {y})
      /\ Total(h, S \ {y}) \in Nat
  <2>1. /\ h \in [S \ {y} -> Nat]
        /\ \A x \in S \ {y} : f[x] = h[x]
        /\ \A x \in S \ {y} : g[x] = h[x]
    OBVIOUS
  <2> HIDE DEF h
  <2> QED
    BY <1>1, <2>1, TotalSame, TotalType
<1>3. Total(f, S) = f[y] + Total(f, S \ {y}) /\ Total(g, S) = g[y] + Total(g, S \ {y})
  BY TotalTakenOut
<1>4. f[y] \in Nat /\ g[y] \in Nat
  OBVIOUS
<1> HIDE DEF h
<1> QED
  BY <1>2, <1>3, <1>4

-----------------------------------------------------------------------------
(* The treasury *)

WinAmounts(id) == [n \in 1..SoldCycles(id) |-> TopBidAmount(cycle[id][n])]

(* What TreasuryIsSumOfWins says of one auction. *)
TreasuryCorrect(id) ==
    HasRoot(id) /\ ~root[id].is_frozen
    /\ (root[id].is_finished => IsLastAuctionCycle(root[id])) =>
        root[id].all_time_treasury = Total(WinAmounts(id), 1..SoldCycles(id))

LEMMA SoldCyclesType ==
    ASSUME AuctionAssumption, TypeInv, CycleAccounts, NEW id \in AuctionIds, HasRoot(id)
    PROVE  /\ SoldCycles(id) \in Nat
           /\ ClosedCycles(id) = 1..SoldCycles(id)
           /\ IsFiniteSet(1..SoldCycles(id))
           /\ WinAmounts(id) \in [1..SoldCycles(id) -> Nat]
<1> DEFINE k == root[id].current_auction_cycle
<1>1. k \in CycleNumbers /\ k \in Nat /\ k >= 1 /\ k <= MaxCycle /\ MaxCycle \in Nat
  BY AccountTypes DEF TypeInv, CycleNumbers, AuctionAssumption
<1>2. SoldCycles(id) = IF IsOngoing(root[id]) THEN k - 1 ELSE k
  BY <1>1 DEF SoldCycles, OpenCycle
<1>3. \A n \in CycleNumbers : cycle[id][n] # NoAccount <=> n <= k
  BY DEF CycleAccounts
<1>4. CycleNumbers = 1..MaxCycle
  BY DEF CycleNumbers
<1>5. ClosedCycles(id) = {n \in CycleNumbers : n <= k /\ (IsOngoing(root[id]) => n < k)}
  BY <1>3 DEF ClosedCycles, ExistingCycles
<1>6. SoldCycles(id) \in Nat /\ ClosedCycles(id) = 1..SoldCycles(id)
  <2>1. CASE IsOngoing(root[id])
    BY <1>1, <1>2, <1>4, <1>5, <2>1
  <2>2. CASE ~IsOngoing(root[id])
    BY <1>1, <1>2, <1>4, <1>5, <2>2
  <2> QED
    BY <2>1, <2>2
<1>7. IsFiniteSet(1..SoldCycles(id))
  BY <1>6, FS_Interval
<1>8. ASSUME NEW n \in 1..SoldCycles(id) PROVE TopBidAmount(cycle[id][n]) \in Nat
  <2>1. n \in CycleNumbers /\ cycle[id][n] # NoAccount
    BY <1>6 DEF ClosedCycles, ExistingCycles
  <2>2. cycle[id][n] \in CycleState
    BY <2>1 DEF TypeInv, TypeOK
  <2> QED
    BY <2>2, TopBidType
<1> QED
  BY <1>6, <1>7, <1>8 DEF WinAmounts

LEMMA TreasuryAsTotal ==
    ASSUME AuctionAssumption, TypeInv, CycleAccounts, \A id \in AuctionIds : TreasuryCorrect(id)
    PROVE  TreasuryIsSumOfWins
<1> SUFFICES ASSUME NEW id \in AuctionIds, HasRoot(id)
             PROVE  MapThenSumSet(LAMBDA n : TopBidAmount(cycle[id][n]), ClosedCycles(id))
                        = Total(WinAmounts(id), 1..SoldCycles(id))
  BY DEF TreasuryIsSumOfWins, TreasuryCorrect
<1> DEFINE S == 1..SoldCycles(id)
           f == WinAmounts(id)
           Sums(it) == it = [s \in SUBSET S |->
               IF s = {} THEN 0 ELSE TopBidAmount(cycle[id][Pick(s)]) + it[s \ {Pick(s)}]]
<1>1. MapThenSumSet(LAMBDA n : TopBidAmount(cycle[id][n]), S) = (CHOOSE it : Sums(it))[S]
  BY Zenon DEF MapThenSumSet, MapThenFoldSet, Pick
<1>2. ClosedCycles(id) = S /\ IsFiniteSet(S) /\ f \in [S -> Nat]
  BY SoldCyclesType
<1>3. \A n \in S : f[n] = TopBidAmount(cycle[id][n])
  BY DEF WinAmounts
<1> HIDE DEF S, f
<1>4. \A it : Sums(it) <=> SumsOf(f, S, it)
  <2> SUFFICES ASSUME NEW it
               PROVE  [s \in SUBSET S |-> IF s = {} THEN 0
                          ELSE TopBidAmount(cycle[id][Pick(s)]) + it[s \ {Pick(s)}]]
                    = [s \in SUBSET S |-> IF s = {} THEN 0 ELSE f[Pick(s)] + it[s \ {Pick(s)}]]
    BY Zenon DEF SumsOf
  <2>1. \A s \in SUBSET S : s # {} => f[Pick(s)] = TopBidAmount(cycle[id][Pick(s)])
    BY <1>2, <1>3, Picked
  <2> QED
    BY <2>1
<1>5. PICK it \in [SUBSET S -> Nat] : SumsOf(f, S, it)
  BY <1>2, SumsExist
<1>6. Sums(CHOOSE i : Sums(i))
  BY <1>4, <1>5
<1> HIDE DEF Sums
<1>7. Total(f, S) = (CHOOSE i : Sums(i))[S]
  BY <1>2, <1>4, <1>6, SumsTotal
<1> QED
  BY <1>1, <1>2, <1>7 DEF f, S

(* A sale adds its amount to the sum. *)
LEMMA WinAdded ==
    ASSUME NEW k \in Nat \ {0}, NEW f \in [1..(k - 1) -> Nat], NEW g \in [1..k -> Nat],
           \A n \in 1..(k - 1) : g[n] = f[n]
    PROVE  Total(g, 1..k) = Total(f, 1..(k - 1)) + g[k]
<1> DEFINE before == 1..(k - 1)
<1>1. 1..k = before \cup {k} /\ k \notin before /\ k \in 1..k
  OBVIOUS
<1>2. IsFiniteSet(before)
  BY FS_Interval
<1>3. \A n \in before : g[n] = f[n]
  OBVIOUS
<1> HIDE DEF before
<1>4. g \in [before \cup {k} -> Nat] /\ f \in [before -> Nat]
  BY <1>1 DEF before
<1>5. Total(g, before \cup {k}) = g[k] + Total(g, before)
  BY <1>1, <1>2, <1>4, TotalAdded
<1>6. Total(g, before) = Total(f, before) /\ Total(f, before) \in Nat
  BY <1>2, <1>3, <1>4, TotalSame, TotalType
<1>7. g[k] \in Nat
  BY <1>1
<1>8. Total(g, before \cup {k}) = Total(f, before) + g[k]
  BY <1>5, <1>6, <1>7
<1>9. Total(g, 1..k) = Total(g, before \cup {k})
  BY <1>1
<1> QED
  BY <1>8, <1>9 DEF before

SalesTyped ==
    \A id \in AuctionIds : HasRoot(id) =>
        /\ SoldCycles(id) \in Nat
        /\ IsFiniteSet(1..SoldCycles(id))
        /\ WinAmounts(id) \in [1..SoldCycles(id) -> Nat]

LEMMA SalesTypedAfter == TypeInv' /\ CycleAccounts' => SalesTyped'
<1>1. TypeInv /\ CycleAccounts => SalesTyped
  BY SoldCyclesType, AuctionAssumption DEF SalesTyped
<1> QED
  BY <1>1, PTL

LEMMA TreasuryStep ==
    ASSUME ContractAssumption, AuctionAssumption, TypeInv, CycleAccounts, TypeInv', CycleAccounts',
           ClosedCyclesWon, NEW id \in AuctionIds, AuctionStep(id), TreasuryCorrect(id)
    PROVE  TreasuryCorrect(id)'
<1> DEFINE k == root[id].current_auction_cycle
           sold == SoldCycles(id)
           f == WinAmounts(id)
           top == TopBidAmount(CurrentCycle(id))
           sold1 == SoldCycles(id)'
           g == WinAmounts(id)'
<1>0. /\ CycleNumbers \subseteq Nat
      /\ HasRoot(id) => /\ k \in CycleNumbers /\ k \in Nat \ {0}
                        /\ sold = (IF IsOngoing(root[id]) THEN k - 1 ELSE k)
                        /\ HasCurrentCycle(id) /\ top \in Nat
                        /\ root[id].all_time_treasury \in Nat
                        /\ \A n \in 1..sold : n \in CycleNumbers
  <2>1. ASSUME HasRoot(id)
        PROVE  /\ root[id] \in RootState /\ k \in CycleNumbers /\ k \in Nat \ {0}
               /\ root[id].all_time_treasury \in Nat
    <3>1. root[id] \in RootState /\ k \in CycleNumbers
      BY <2>1, AccountTypes DEF TypeInv
    <3> QED
      BY <3>1 DEF RootState, CycleNumbers
  <2>2. ASSUME HasRoot(id)
        PROVE  sold = IF IsOngoing(root[id]) THEN k - 1 ELSE k
    BY <2>1, <2>2 DEF SoldCycles, OpenCycle
  <2>3. ASSUME HasRoot(id) PROVE HasCurrentCycle(id)
    BY <2>1, <2>3 DEF CycleAccounts, HasCurrentCycle, CurrentCycle
  <2>4. ASSUME HasRoot(id) PROVE top \in Nat
    BY <2>3, <2>4, AccountTypes, TopBidType DEF TypeInv
  <2>5. CycleNumbers \subseteq Nat
    BY DEF CycleNumbers
  <2>6. ASSUME HasRoot(id), NEW n \in 1..sold PROVE n \in CycleNumbers
    <3>1. k \in 1..MaxCycle /\ sold <= k /\ sold \in Nat
      BY <2>1, <2>2, <2>6 DEF CycleNumbers
    <3> QED
      BY <3>1 DEF CycleNumbers, AuctionAssumption
  <2> QED
    BY <2>1, <2>2, <2>3, <2>4, <2>5, <2>6
<1>1. HasRoot(id) => sold \in Nat /\ IsFiniteSet(1..sold) /\ f \in [1..sold -> Nat]
  BY SoldCyclesType
<1> SUFFICES ASSUME HasRoot(id)', ~root'[id].is_frozen,
                    root'[id].is_finished => IsLastAuctionCycle(root'[id])
             PROVE  root'[id].all_time_treasury = Total(g, 1..sold1)
  BY DEF TreasuryCorrect
<1>2. sold1 \in Nat /\ IsFiniteSet(1..sold1) /\ g \in [1..sold1 -> Nat]
  BY SalesTypedAfter DEF SalesTyped
<1>3. /\ root'[id].current_auction_cycle \in Nat \ {0}
      /\ sold1 = IF IsOngoing(root'[id]) THEN root'[id].current_auction_cycle - 1
                                         ELSE root'[id].current_auction_cycle
  <2>1. root'[id].current_auction_cycle \in CycleNumbers
    BY DEF TypeInv, TypeOK, HasRoot, RootState
  <2>2. CycleNumbers \subseteq Nat \ {0}
    BY DEF CycleNumbers
  <2> QED
    BY <2>1, <2>2 DEF SoldCycles, OpenCycle, HasRoot
<1>4. /\ \A n \in 1..sold : f[n] = TopBidAmount(cycle[id][n])
      /\ \A n \in 1..sold1 : g[n] = TopBidAmount(cycle'[id][n])
  BY DEF WinAmounts
<1> HIDE DEF sold, f, sold1, g
(* When nothing is sold, the wins are those of before. *)
<1>5. ASSUME HasRoot(id), sold1 = sold, TreasuryCorrect(id),
             root[id].is_finished => IsLastAuctionCycle(root[id]), ~root[id].is_frozen,
             root'[id].all_time_treasury = root[id].all_time_treasury,
             \A n \in 1..sold : TopBidAmount(cycle'[id][n]) = TopBidAmount(cycle[id][n])
      PROVE  root'[id].all_time_treasury = Total(g, 1..sold1)
  <2>1. root[id].all_time_treasury = Total(f, 1..sold)
    BY <1>5 DEF TreasuryCorrect, f, sold
  <2>2. \A n \in 1..sold : g[n] = f[n]
    BY <1>4, <1>5
  <2>3. Total(g, 1..sold) = Total(f, 1..sold)
    BY <1>1, <1>5, <2>2, TotalSame
  <2> QED
    BY <1>5, <2>1, <2>3
(* When the current cycle is sold, its top bid is one more win. *)
<1>6. ASSUME HasRoot(id), IsOngoing(root[id]), sold1 = k,
             root'[id].all_time_treasury = root[id].all_time_treasury + top,
             \A n \in 1..k : cycle'[id][n] = cycle[id][n]
      PROVE  root'[id].all_time_treasury = Total(g, 1..sold1)
  <2>1. sold = k - 1 /\ k \in Nat \ {0}
    BY <1>0, <1>6
  <2>2. root[id].all_time_treasury = Total(f, 1..sold)
    BY <1>6 DEF TreasuryCorrect, f, sold, IsOngoing
  <2>3. \A n \in 1..(k - 1) : g[n] = f[n]
    BY <1>4, <1>6, <2>1
  <2>4. g[k] = top
    BY <1>4, <1>6, <2>1 DEF CurrentCycle
  <2>5. f \in [1..(k - 1) -> Nat] /\ g \in [1..k -> Nat]
    BY <1>1, <1>2, <1>6, <2>1
  <2> HIDE DEF k, top
  <2>6. Total(g, 1..k) = Total(f, 1..(k - 1)) + g[k]
    BY <2>1, <2>3, <2>5, WinAdded
  <2> QED
    BY <1>6, <2>1, <2>2, <2>4, <2>6
<1>7. CASE Created(id)
  <2>1. sold1 = 0
    BY <1>3, <1>7 DEF Created
  <2>2. Total(g, 1..sold1) = 0
    <3>1. 1..sold1 = {}
      BY <2>1
    <3> QED
      BY <3>1, TotalEmpty
  <2> QED
    BY <1>7, <2>2 DEF Created
<1>8. CASE BidPlaced(id)
  <2>1. HasRoot(id) /\ root' = root /\ IsOngoing(root[id])
    BY <1>8 DEF BidPlaced, HasCurrentCycle
  <2>2. PICK c : CycleSet(id, k, c)
    BY <1>8 DEF BidPlaced
  <2>3. \A n \in 1..sold : n # k /\ n \in CycleNumbers
    BY <1>0, <2>1
  <2>4. \A n \in 1..sold : cycle'[id][n] = cycle[id][n]
    BY <2>2, <2>3 DEF CycleSet, TypeInv, TypeOK
  <2>5. sold1 = sold
    BY <1>0, <1>3, <2>1
  <2> QED
    BY <1>5, <2>1, <2>4, <2>5 DEF IsOngoing
<1>9. ASSUME SameRoot(id) \/ root' = root,
             \A n \in CycleNumbers : TopBidAmount(cycle'[id][n]) = TopBidAmount(cycle[id][n])
      PROVE  root'[id].all_time_treasury = Total(g, 1..sold1)
  <2>1. /\ HasRoot(id)
        /\ ~root[id].is_frozen
        /\ root'[id].all_time_treasury = root[id].all_time_treasury
        /\ root[id].is_finished => IsLastAuctionCycle(root[id])
        /\ sold1 = sold
    BY <1>0, <1>3, <1>9 DEF SameRoot, HasRoot, IsLastAuctionCycle, IsOngoing
  <2> QED
    BY <1>0, <1>5, <1>9, <2>1
<1>10. CASE CycleTouched(id)
  <2>1. PICK n, c : /\ n \in CycleNumbers /\ CycleSet(id, n, c)
                    /\ c.bid_history = cycle[id][n].bid_history
    BY <1>10 DEF CycleTouched
  <2>2. \A m \in CycleNumbers : cycle'[id][m] = IF m = n THEN c ELSE cycle[id][m]
    BY <2>1 DEF CycleSet, TypeInv, TypeOK
  <2>3. \A m \in CycleNumbers : TopBidAmount(cycle'[id][m]) = TopBidAmount(cycle[id][m])
    BY <2>1, <2>2, TopBidAmountSame
  <2> QED
    BY <1>9, <1>10, <2>3 DEF CycleTouched
<1>11. CASE AccountsKept(id)
  BY <1>9, <1>11 DEF AccountsKept
<1>12. CASE FundsClaimed(id)
  <2>1. /\ HasRoot(id)
        /\ ~root[id].is_frozen
        /\ root'[id].all_time_treasury = root[id].all_time_treasury
        /\ root[id].is_finished => IsLastAuctionCycle(root[id])
        /\ sold1 = sold
    BY <1>0, <1>3, <1>12 DEF FundsClaimed, HasCurrentCycle, IsLastAuctionCycle, IsOngoing
  <2> QED
    BY <1>5, <1>12, <2>1 DEF FundsClaimed
<1>13. CASE Finished(id)
  <2>1. HasRoot(id) /\ IsOngoing(root[id]) /\ sold1 = k
    BY <1>0, <1>3, <1>13 DEF Finished, HasCurrentCycle, IsOngoing
  <2> QED
    BY <1>6, <1>13, <2>1 DEF Finished
<1>14. CASE Advanced(id)
  <2>0. /\ HasRoot(id) /\ IsOngoing(root[id]) /\ IsOngoing(root'[id])
        /\ root'[id].current_auction_cycle = k + 1
    BY <1>14 DEF Advanced, HasCurrentCycle, IsOngoing
  <2>1. HasRoot(id) /\ IsOngoing(root[id]) /\ sold1 = k
    BY <1>0, <1>3, <2>0
  <2>2. PICK c : CycleSet(id, k + 1, c)
    BY <1>14 DEF Advanced
  <2>3. \A n \in 1..k : n # k + 1
    BY <1>0, <2>1
  <2>4. \A n \in 1..k : cycle'[id][n] = cycle[id][n]
    BY <2>2, <2>3 DEF CycleSet, TypeInv, TypeOK
  <2> QED
    BY <1>6, <1>14, <2>1, <2>4 DEF Advanced
<1>15. CASE CyclesDeleted(id)
  <2>1. HasRoot(id) /\ ~root[id].is_frozen /\ root[id].is_finished
    BY <1>0, <1>15 DEF CyclesDeleted, HasCurrentCycle, IsOngoing, TypeInv, TypeOK, RootState
  <2>2. IsLastAuctionCycle(root'[id])
    BY <1>15, <2>1 DEF CyclesDeleted
  <2>3. k <= root[id].auction_config.number_of_cycles
    BY <1>15, <2>1, <2>2 DEF CyclesDeleted, IsLastAuctionCycle, ClosedCyclesWon
  <2>4. root[id].auction_config.number_of_cycles \in Nat
    BY <2>1, AccountTypes DEF TypeInv, RootState, AuctionConfig
  <2>5. /\ root'[id].current_auction_cycle < k
        /\ root'[id].current_auction_cycle >= root[id].auction_config.number_of_cycles
    BY <1>15, <2>1, <2>2 DEF CyclesDeleted, IsLastAuctionCycle
  <2>6. FALSE
    BY <1>0, <1>3, <2>1, <2>3, <2>4, <2>5
  <2> QED
    BY <2>6
<1>16. CASE Deleted(id)
  BY <1>16 DEF Deleted
<1> QED
  BY <1>7, <1>8, <1>10, <1>11, <1>12, <1>13, <1>14, <1>15, <1>16, AuctionStepEffect

TreasuriesCorrect == \A id \in AuctionIds : TreasuryCorrect(id)

LEMMA TreasuriesStep ==
    ASSUME ContractAssumption, AuctionAssumption, TypeInv, CycleAccounts, TypeInv', CycleAccounts',
           ClosedCyclesWon, TreasuriesCorrect, [Next]_vars
    PROVE  TreasuriesCorrect'
<1> USE DEF TreasuriesCorrect
<1>1. ASSUME NEW id \in AuctionIds, root'[id] = root[id], cycle'[id] = cycle[id]
      PROVE  TreasuryCorrect(id)'
  <2>1. SoldCycles(id)' = SoldCycles(id)
    BY <1>1 DEF SoldCycles, OpenCycle, HasRoot
  <2>2. WinAmounts(id)' = WinAmounts(id)
    BY <1>1, <2>1 DEF WinAmounts
  <2> QED
    BY <1>1, <2>1, <2>2, Zenon DEF TreasuryCorrect, HasRoot
<1>2. CASE \E id \in AuctionIds : AuctionStep(id)
  <2>1. PICK id \in AuctionIds : AuctionStep(id)
    BY <1>2
  <2>2. TreasuryCorrect(id)'
    BY <2>1, TreasuryStep
  <2>3. ASSUME NEW other \in AuctionIds \ {id} PROVE TreasuryCorrect(other)'
    BY <1>1, <2>1, AuctionStepLocal
  <2> QED
    BY <2>2, <2>3
<1>3. CASE UNCHANGED stateVars
  BY <1>1, <1>3 DEF stateVars
<1> QED
  BY <1>2, <1>3, StepCases

(* all_time_treasury is the sum of the winning bids: no bid is counted     *)
(* twice and none is left out, whatever is claimed, extended, filtered or  *)
(* reactivated in between.                                                 *)
THEOREM TreasuryInvariant == Spec => []TreasuryIsSumOfWins
<1>1. Init => TreasuriesCorrect
  BY DEF Init, TreasuriesCorrect, TreasuryCorrect, HasRoot
<1>2. TypeInv /\ CycleAccounts /\ TypeInv' /\ CycleAccounts' /\ ClosedCyclesWon
          /\ TreasuriesCorrect /\ [Next]_vars => TreasuriesCorrect'
  BY TreasuriesStep, ContractAssumption, AuctionAssumption
<1>3. TypeInv /\ CycleAccounts /\ TreasuriesCorrect => TreasuryIsSumOfWins
  BY TreasuryAsTotal, AuctionAssumption DEF TreasuriesCorrect
<1> QED
  BY <1>1, <1>2, <1>3, TypeInvariant, CycleAccountsInvariant, ClosedCyclesWonInvariant, PTL
     DEF Spec

-----------------------------------------------------------------------------
(* The lamports *)

(* Rents are multiplied by numbers of accounts. *)
LEMMA RentsAdd ==
    ASSUME NEW c \in Nat, NEW a \in Nat, NEW b \in Nat
    PROVE  /\ c * (a + b) = c * a + c * b
           /\ c * a \in Nat /\ c * a = a * c
           /\ c * 0 = 0 /\ c * 1 = c
OBVIOUS

(* Paying somebody changes the sum of the wallets by what is paid. *)
LEMMA WalletPaid ==
    ASSUME ContractAssumption, NEW w \in [Users -> Nat], NEW user \in Users, NEW v \in Nat
    PROVE  /\ [w EXCEPT ![user] = v] \in [Users -> Nat]
           /\ Total([w EXCEPT ![user] = v], Users) = Total(w, Users) + v - w[user]
           /\ Total(w, Users) \in Nat
<1> DEFINE g == [w EXCEPT ![user] = v]
<1>1. g \in [Users -> Nat] /\ g[user] = v /\ \A x \in Users \ {user} : g[x] = w[x]
  OBVIOUS
<1>2. IsFiniteSet(Users)
  BY DEF ContractAssumption
<1> HIDE DEF g
<1>3. Total(g, Users) = Total(w, Users) + v - w[user]
  BY <1>1, <1>2, TotalChanged
<1>4. Total(w, Users) \in Nat
  BY <1>2, TotalType
<1> QED
  BY <1>1, <1>3, <1>4 DEF g

LEMMA WalletRefunded ==
    ASSUME ContractAssumption, NEW w \in [Users -> Nat], NEW c \in CycleState
    PROVE  Total(Refunded(w, c), Users) = Total(w, Users) + TopBidAmount(c)
<1>1. CASE HasBid(c)
  <2> DEFINE user == TopBid(c).bidder_pubkey
             amount == TopBid(c).bid_amount
  <2>1. user \in Users /\ amount \in Nat
    BY <1>1, TopBidType DEF BidData
  <2>2. Refunded(w, c) = [w EXCEPT ![user] = w[user] + amount] /\ TopBidAmount(c) = amount
    BY <1>1 DEF Refunded, TopBidAmount
  <2>3. w[user] \in Nat /\ w[user] + amount \in Nat
    BY <2>1
  <2> HIDE DEF user, amount
  <2>4. /\ Total(Refunded(w, c), Users) = Total(w, Users) + (w[user] + amount) - w[user]
        /\ Total(w, Users) \in Nat
    BY <2>1, <2>2, <2>3, WalletPaid
  <2> QED
    BY <2>1, <2>2, <2>3, <2>4
<1>2. CASE ~HasBid(c)
  <2>1. Total(w, Users) \in Nat
    BY TotalType DEF ContractAssumption
  <2>2. Refunded(w, c) = w /\ TopBidAmount(c) = 0
    BY <1>2 DEF Refunded, TopBidAmount
  <2> QED
    BY <2>1, <2>2
<1> QED
  BY <1>1, <1>2

(* What the accounts of an auction hold. *)
HeldBy(id) ==
    bank[id] + (IF HasRoot(id) THEN RootStateRent ELSE 0) + CycleStateRent * CyclesOf(id)

LEMMA HeldType ==
    ASSUME AuctionAssumption, TypeInv, NEW id \in AuctionIds
    PROVE  /\ HeldBy(id) \in Nat
           /\ bank[id] \in Nat
           /\ CyclesOf(id) \in Nat
           /\ CycleStateRent * CyclesOf(id) \in Nat
<1>1. CyclesOf(id) \in Nat
  BY AccountTypes DEF TypeInv, CyclesOf, CycleNumbers
<1>2. CycleStateRent * CyclesOf(id) \in Nat
  BY <1>1, RentsAdd DEF AuctionAssumption
<1>3. bank[id] \in Nat
  BY DEF TypeInv, TypeOK
<1> QED
  BY <1>1, <1>2, <1>3 DEF HeldBy, AuctionAssumption

(* A step of an auction moves lamports between wallets, the contract bank  *)
(* and its own accounts only.                                              *)
LamportsMoved(id) ==
    Total(wallet', Users) + contract_bank' + HeldBy(id)'
        = Total(wallet, Users) + contract_bank + HeldBy(id)

LEMMA NothingMoved ==
    ASSUME NEW id \in AuctionIds, wallet' = wallet, contract_bank' = contract_bank,
           bank'[id] = bank[id], HasRoot(id)' <=> HasRoot(id), CyclesOf(id)' = CyclesOf(id)
    PROVE  LamportsMoved(id)
<1>1. HeldBy(id)' = HeldBy(id)
  BY DEF HeldBy
<1> QED
  BY <1>1 DEF LamportsMoved

LEMMA StartMoves ==
    ASSUME ContractAssumption, AuctionAssumption, TypeInv, NEW id \in AuctionIds, Start(id)
    PROVE  LamportsMoved(id)
<1> DEFINE rent == RootStateRent + CycleStateRent + BankRent
<1>1. PICK owner \in Owners, config \in AuctionConfigs, start \in StartTimes \cup {now} :
          InitializeAuction(id, owner, config, start)
  BY DEF Start
<1>2. rent \in Nat /\ RootStateRent \in Nat /\ CycleStateRent \in Nat /\ BankRent \in Nat
  BY DEF AuctionAssumption
<1>3. owner \in Users /\ wallet \in [Users -> Nat] /\ contract_bank \in Nat
  BY DEF AuctionAssumption, TypeInv, TypeOK, ContractTypeOK
<1>4. /\ wallet' = [wallet EXCEPT ![owner] = wallet[owner] - rent] /\ wallet[owner] >= rent
      /\ contract_bank' = contract_bank
      /\ bank[id] = 0 /\ ~HasRoot(id)
  BY <1>1 DEF InitializeAuction
<1>5. HasRoot(id)' /\ CyclesOf(id)' = 1 /\ bank'[id] = BankRent
  BY StartEffect DEF Created, CyclesOf
<1>6. HeldBy(id)' = rent
  BY <1>2, <1>5, RentsAdd DEF HeldBy
<1>7. HeldBy(id) = 0
  BY <1>2, <1>4, RentsAdd DEF HeldBy, CyclesOf
<1> HIDE DEF rent
<1>8. wallet[owner] \in Nat /\ wallet[owner] - rent \in Nat
  BY <1>2, <1>3, <1>4
<1>9. /\ Total(wallet', Users) = Total(wallet, Users) + (wallet[owner] - rent) - wallet[owner]
      /\ Total(wallet, Users) \in Nat
  BY <1>3, <1>4, <1>8, WalletPaid
<1>10. Total(wallet', Users) = Total(wallet, Users) - rent
  BY <1>2, <1>8, <1>9
<1> QED
  BY <1>2, <1>3, <1>4, <1>6, <1>7, <1>9, <1>10 DEF LamportsMoved

LEMMA BidMoves ==
    ASSUME ContractAssumption, AuctionAssumption, TypeInv, NEW id \in AuctionIds, AnyBid(id)
    PROVE  LamportsMoved(id)
<1> DEFINE c == CurrentCycle(id)
<1>1. PICK user \in Bidders, amount \in BidAmounts, end \in Nat : PlaceBid(id, user, amount, end)
  <2>1. PICK user \in Bidders, amount \in BidAmounts :
            Bid(id, user, amount) \/ BidInactive(id, user, amount)
    BY DEF AnyBid
  <2>2. HasCurrentCycle(id)
    BY <2>1 DEF Bid, BidInactive
  <2>3. root[id] \in RootState /\ CurrentCycle(id) \in CycleState
    BY <2>2, AccountTypes DEF TypeInv, HasCurrentCycle
  <2>4. CurrentCycle(id).end_time \in Nat
    BY <2>3 DEF CycleState
  <2>5. root[id].auction_config.cycle_period \in Nat
    BY <2>3 DEF RootState, AuctionConfig
  <2>6. now + root[id].auction_config.cycle_period \in Nat
    BY <2>5 DEF TypeInv, TypeOK
  <2> QED
    BY <2>1, <2>4, <2>6 DEF Bid, BidInactive
<1>2. c \in CycleState
  BY AnyBidEffect, AccountTypes DEF BidPlaced, TypeInv
<1>3. /\ user \in Users /\ amount \in Nat /\ TopBidAmount(c) \in Nat
      /\ wallet \in [Users -> Nat] /\ contract_bank \in Nat /\ bank \in [AuctionIds -> Nat]
  BY <1>2, TopBidType DEF AuctionAssumption, TypeInv, TypeOK, ContractTypeOK
<1> DEFINE w == [wallet EXCEPT ![user] = wallet[user] - amount]
<1>4. /\ wallet' = Refunded(w, c) /\ wallet[user] >= amount
      /\ bank'[id] = bank[id] + amount - TopBidAmount(c)
      /\ contract_bank' = contract_bank /\ root' = root
  BY <1>1, <1>3 DEF PlaceBid
<1>5. wallet[user] \in Nat /\ wallet[user] - amount \in Nat
  BY <1>3, <1>4
<1>6. /\ w \in [Users -> Nat]
      /\ Total(w, Users) = Total(wallet, Users) + (wallet[user] - amount) - wallet[user]
      /\ Total(wallet, Users) \in Nat
  BY <1>3, <1>5, WalletPaid
<1> HIDE DEF w, c
<1>7. Total(wallet', Users) = Total(w, Users) + TopBidAmount(c)
  BY <1>2, <1>4, <1>6, WalletRefunded
<1>8. HeldBy(id)' = HeldBy(id) + amount - TopBidAmount(c)
  <2>1. HeldBy(id)' = bank'[id] + (IF HasRoot(id) THEN RootStateRent ELSE 0)
                          + CycleStateRent * CyclesOf(id)
    BY <1>4 DEF HeldBy, HasRoot, CyclesOf
  <2>2. /\ CycleStateRent * CyclesOf(id) \in Nat /\ bank[id] \in Nat
        /\ (IF HasRoot(id) THEN RootStateRent ELSE 0) \in Nat
    BY HeldType DEF AuctionAssumption
  <2> QED
    BY <1>3, <1>4, <2>1, <2>2 DEF HeldBy
<1>9. HeldBy(id) \in Nat
  BY HeldType
<1>10. Total(wallet', Users) = Total(wallet, Users) - amount + TopBidAmount(c)
  BY <1>3, <1>5, <1>6, <1>7
<1> QED
  BY <1>3, <1>4, <1>6, <1>8, <1>9, <1>10 DEF LamportsMoved

LEMMA CloseCycleMoves ==
    ASSUME ContractAssumption, AuctionAssumption, TypeInv, NEW id \in AuctionIds,
           NEW payer \in Payers, CloseCycle(id, payer)
    PROVE  LamportsMoved(id)
<1> DEFINE k == root[id].current_auction_cycle
<1>1. /\ HasRoot(id) /\ HasRoot(id)' /\ root'[id].current_auction_cycle = k + 1
      /\ bank'[id] = bank[id]
  BY CloseCycleEffect DEF Advanced, HasCurrentCycle
<1>2. /\ wallet' = [wallet EXCEPT ![payer] = wallet[payer] - CycleStateRent]
      /\ wallet[payer] >= CycleStateRent
      /\ contract_bank' = contract_bank
  BY DEF CloseCycle
<1>3. /\ payer \in Users /\ wallet \in [Users -> Nat] /\ contract_bank \in Nat
      /\ CycleStateRent \in Nat /\ RootStateRent \in Nat
  BY DEF AuctionAssumption, TypeInv, TypeOK, ContractTypeOK
<1>4. CyclesOf(id) = k /\ CyclesOf(id)' = k + 1 /\ k \in Nat /\ bank[id] \in Nat
  BY <1>1, HeldType DEF CyclesOf
<1> HIDE DEF k
<1>5. CycleStateRent * (k + 1) = CycleStateRent * k + CycleStateRent /\ CycleStateRent * k \in Nat
  <2>1. CycleStateRent * (k + 1) = CycleStateRent * k + CycleStateRent * 1
    BY <1>3, <1>4, RentsAdd
  <2>2. CycleStateRent * 1 = CycleStateRent /\ CycleStateRent * k \in Nat
    BY <1>3, <1>4, RentsAdd
  <2> QED
    BY <2>1, <2>2
<1>6. /\ HeldBy(id) = bank[id] + RootStateRent + CycleStateRent * k
      /\ HeldBy(id)' = bank[id] + RootStateRent + CycleStateRent * (k + 1)
  BY <1>1, <1>4 DEF HeldBy
<1>7. HeldBy(id)' = HeldBy(id) + CycleStateRent /\ HeldBy(id) \in Nat
  <2> DEFINE rents == CycleStateRent * k
             later == CycleStateRent * (k + 1)
  <2>1. /\ later = rents + CycleStateRent /\ rents \in Nat
        /\ HeldBy(id) = bank[id] + RootStateRent + rents
        /\ HeldBy(id)' = bank[id] + RootStateRent + later
    BY <1>5, <1>6
  <2> HIDE DEF rents, later
  <2> QED
    BY <1>3, <1>4, <2>1
<1>8. wallet[payer] \in Nat /\ wallet[payer] - CycleStateRent \in Nat
  BY <1>2, <1>3
<1>9. /\ Total(wallet', Users)
             = Total(wallet, Users) + (wallet[payer] - CycleStateRent) - wallet[payer]
      /\ Total(wallet, Users) \in Nat
  BY <1>2, <1>3, <1>8, WalletPaid
<1>10. Total(wallet', Users) = Total(wallet, Users) - CycleStateRent
  BY <1>3, <1>8, <1>9
<1> QED
  BY <1>2, <1>3, <1>7, <1>9, <1>10 DEF LamportsMoved

LEMMA CloseMoves ==
    ASSUME ContractAssumption, AuctionAssumption, TypeInv, NEW id \in AuctionIds, Close(id)
    PROVE  LamportsMoved(id)
<1>1. CASE CloseIdleCycle(id)
  <2>1. HasRoot(id)' /\ HasRoot(id) /\ CyclesOf(id)' = CyclesOf(id)
    BY <1>1, CloseIdleCycleEffect DEF CycleTouched, SameRoot, CyclesOf
  <2>2. wallet' = wallet /\ contract_bank' = contract_bank /\ bank'[id] = bank[id]
    BY <1>1 DEF CloseIdleCycle
  <2> QED
    BY <2>1, <2>2, NothingMoved
<1>2. CASE CloseLastCycle(id)
  <2>1. HasRoot(id)' /\ HasRoot(id) /\ CyclesOf(id)' = CyclesOf(id)
    BY <1>2, CloseLastCycleEffect DEF Finished, HasCurrentCycle, CyclesOf
  <2>2. wallet' = wallet /\ contract_bank' = contract_bank /\ bank'[id] = bank[id]
    BY <1>2 DEF CloseLastCycle
  <2> QED
    BY <2>1, <2>2, NothingMoved
<1> QED
  BY <1>1, <1>2, CloseCycleMoves DEF Close

(* A payment is split between the contract bank and a user.                *)
LEMMA ClaimFundsMoves ==
    ASSUME ContractAssumption, AuctionAssumption, TypeInv, NEW id \in AuctionIds,
           NEW amount \in ClaimAmounts, ClaimFunds(id, amount)
    PROVE  LamportsMoved(id)
<1> DEFINE owner == root[id].auction_owner
<1>0. HasRoot(id)' /\ HasRoot(id) /\ CyclesOf(id)' = CyclesOf(id)
  BY ClaimFundsEffect DEF FundsClaimed, HasCurrentCycle, CyclesOf
<1>1. owner \in Users
  <2>1. root[id] \in RootState
    BY <1>0, AccountTypes DEF TypeInv
  <2> QED
    BY <2>1 DEF RootState
<1>2. /\ amount \in Nat /\ wallet \in [Users -> Nat] /\ contract_bank \in Nat
      /\ bank \in [AuctionIds -> Nat]
  BY DEF AuctionAssumption, TypeInv, TypeOK, ContractTypeOK
<1>3. PICK share \in FeeShares(amount) :
          /\ share <= amount
          /\ contract_bank' = contract_bank + share
          /\ wallet' = [wallet EXCEPT ![owner] = wallet[owner] + amount - share]
  BY DEF ClaimFunds
<1>4. share \in Nat
  BY <1>2, FeeSharesNat DEF TypeInv, TypeOK
<1>5. bank'[id] = bank[id] - amount
  BY <1>2 DEF ClaimFunds
<1> HIDE DEF owner
<1>6. wallet[owner] \in Nat /\ wallet[owner] + amount - share \in Nat
  BY <1>1, <1>2, <1>3, <1>4
<1>7. /\ Total(wallet', Users)
             = Total(wallet, Users) + (wallet[owner] + amount - share) - wallet[owner]
      /\ Total(wallet, Users) \in Nat
  BY <1>1, <1>2, <1>3, <1>6, WalletPaid
<1>8. Total(wallet', Users) = Total(wallet, Users) + amount - share
  BY <1>2, <1>4, <1>6, <1>7
<1>9. HeldBy(id)' = HeldBy(id) - amount /\ HeldBy(id) \in Nat
  <2>1. HeldBy(id)' = bank[id] - amount + RootStateRent + CycleStateRent * CyclesOf(id)
    BY <1>0, <1>5 DEF HeldBy
  <2>2. HeldBy(id) = bank[id] + RootStateRent + CycleStateRent * CyclesOf(id)
    BY <1>0 DEF HeldBy
  <2>3. CycleStateRent * CyclesOf(id) \in Nat /\ RootStateRent \in Nat /\ HeldBy(id) \in Nat
    BY HeldType DEF AuctionAssumption
  <2> QED
    BY <1>2, <2>1, <2>2, <2>3
<1> QED
  BY <1>2, <1>3, <1>4, <1>7, <1>8, <1>9 DEF LamportsMoved

LEMMA ClaimRewardsMoves ==
    ASSUME ContractAssumption, AuctionAssumption, TypeInv, NEW id \in AuctionIds,
           NEW n \in CycleNumbers, ClaimRewards(id, n)
    PROVE  LamportsMoved(id)
<1>1. HasRoot(id)' /\ HasRoot(id) /\ CyclesOf(id)' = CyclesOf(id)
  BY ClaimRewardsEffect DEF CycleTouched, SameRoot, CyclesOf
<1>2. wallet' = wallet /\ contract_bank' = contract_bank /\ bank'[id] = bank[id]
  BY DEF ClaimRewards, contractVars
<1> QED
  BY <1>1, <1>2, NothingMoved

(* A refund on deletion goes from the bank to a wallet. *)
LEMMA DeletionRefunds ==
    ASSUME ContractAssumption, AuctionAssumption, TypeInv,
           NEW id \in AuctionIds, NEW owner \in Owners, NEW left \in Nat, HasRoot(id),
           left < root[id].current_auction_cycle, DeletableDownTo(id, owner, left)
    PROVE  /\ WalletsAfterRefund(id) \in [Users -> Nat]
           /\ Total(WalletsAfterRefund(id), Users) = Total(wallet, Users) + RefundOnDelete(id)
           /\ Total(wallet, Users) \in Nat
           /\ RefundOnDelete(id) \in Nat
           /\ bank[id] \in Nat /\ bank[id] - RefundOnDelete(id) \in Nat
<1>1. /\ CurrentCycle(id) \in CycleState /\ RefundOnDelete(id) \in Nat
      /\ bank[id] - RefundOnDelete(id) \in Nat
      /\ WalletsAfterRefund(id) \in [Users -> Nat]
  BY DeletableType
<1>2. wallet \in [Users -> Nat] /\ bank[id] \in Nat
  BY DEF TypeInv, TypeOK, ContractTypeOK
<1>3. Total(wallet, Users) \in Nat
  BY <1>2, TotalType DEF ContractAssumption
<1>4. Total(WalletsAfterRefund(id), Users) = Total(wallet, Users) + RefundOnDelete(id)
  <2>1. CASE IsOngoing(root[id])
    BY <1>1, <1>2, <2>1, WalletRefunded DEF WalletsAfterRefund, RefundOnDelete
  <2>2. CASE ~IsOngoing(root[id])
    BY <1>3, <2>2 DEF WalletsAfterRefund, RefundOnDelete
  <2> QED
    BY <2>1, <2>2
<1> QED
  BY <1>1, <1>2, <1>3, <1>4

LEMMA DeleteCyclesMoves ==
    ASSUME ContractAssumption, AuctionAssumption, TypeInv, NEW id \in AuctionIds,
           NEW owner \in Owners, NEW batch \in DeleteBatches, DeleteCycles(id, owner, batch)
    PROVE  LamportsMoved(id)
<1> DEFINE k == root[id].current_auction_cycle
           left == k - batch
           refund == RefundOnDelete(id)
<1>1. HasRoot(id) /\ HasRoot(id)' /\ left > 0
  BY DeleteCyclesType DEF DeleteCycles, AuctionAssumption
<1>2. k \in Nat /\ batch \in Nat \ {0} /\ bank[id] \in Nat /\ contract_bank \in Nat
  <2>1. CyclesOf(id) = k
    BY <1>1 DEF CyclesOf
  <2> QED
    BY <2>1, HeldType DEF AuctionAssumption, TypeInv, TypeOK, ContractTypeOK
<1>3. left \in Nat /\ left < k /\ k = left + batch
  BY <1>1, <1>2
<1>4. root'[id].current_auction_cycle = left
  BY DEF DeleteCycles, TypeInv, TypeOK
<1>5. /\ bank'[id] = bank[id] - refund
      /\ wallet' = WalletsAfterRefund(id)
      /\ contract_bank' = contract_bank + batch * CycleStateRent
      /\ DeletableDownTo(id, owner, left)
  BY DEF DeleteCycles, TypeInv, TypeOK
<1>6. CyclesOf(id) = k /\ CyclesOf(id)' = left
  BY <1>1, <1>4 DEF CyclesOf
<1>7. /\ Total(wallet', Users) = Total(wallet, Users) + refund
      /\ Total(wallet, Users) \in Nat /\ refund \in Nat
  BY <1>1, <1>3, <1>5, DeletionRefunds
<1>8. /\ CycleStateRent \in Nat /\ RootStateRent \in Nat
  BY DEF AuctionAssumption
<1>9. /\ HeldBy(id) = bank[id] + RootStateRent + CycleStateRent * k
      /\ HeldBy(id)' = bank[id] - refund + RootStateRent + CycleStateRent * left
  BY <1>1, <1>5, <1>6 DEF HeldBy
<1> HIDE DEF k, left, refund
<1> DEFINE gone == CycleStateRent * batch
           kept == CycleStateRent * left
           all == CycleStateRent * k
<1>10. /\ all = kept + gone /\ kept \in Nat /\ gone \in Nat
       /\ gone = batch * CycleStateRent
  BY <1>2, <1>3, <1>8, RentsAdd
<1>11. /\ HeldBy(id) = bank[id] + RootStateRent + all
       /\ HeldBy(id)' = bank[id] - refund + RootStateRent + kept
       /\ contract_bank' = contract_bank + gone
  BY <1>5, <1>9, <1>10
<1> HIDE DEF gone, kept, all
<1> QED
  BY <1>2, <1>7, <1>8, <1>10, <1>11 DEF LamportsMoved

LEMMA DeleteAuctionMoves ==
    ASSUME ContractAssumption, AuctionAssumption, TypeInv, NEW id \in AuctionIds,
           NEW owner \in Owners, NEW batch \in DeleteBatches, DeleteAuction(id, owner, batch)
    PROVE  LamportsMoved(id)
<1> DEFINE k == root[id].current_auction_cycle
           refund == RefundOnDelete(id)
           rest == bank[id] - refund
           w == WalletsAfterRefund(id)
<1>1. HasRoot(id) /\ ~HasRoot(id)' /\ bank'[id] = 0
  BY DeleteAuctionEffect DEF Deleted
<1>2. k \in Nat /\ 0 < k /\ contract_bank \in Nat /\ owner \in Users
  <2>1. k \in CycleNumbers
    BY <1>1, AccountTypes DEF TypeInv
  <2> QED
    BY <2>1 DEF CycleNumbers, AuctionAssumption, TypeInv, TypeOK, ContractTypeOK
<1>3. /\ w \in [Users -> Nat]
      /\ Total(w, Users) = Total(wallet, Users) + refund
      /\ Total(wallet, Users) \in Nat /\ refund \in Nat
      /\ bank[id] \in Nat /\ rest \in Nat
  BY <1>1, <1>2, DeletionRefunds DEF DeleteAuction
<1>4. PICK share \in FeeShares(rest) :
          /\ share <= rest
          /\ contract_bank' = contract_bank + share + k * CycleStateRent
          /\ wallet' = [w EXCEPT ![owner] = w[owner] + rest - share + RootStateRent]
  BY DEF DeleteAuction
<1>5. share \in Nat
  BY <1>3, FeeSharesNat DEF TypeInv, TypeOK
<1>6. CycleStateRent \in Nat /\ RootStateRent \in Nat
  BY DEF AuctionAssumption
<1>7. /\ HeldBy(id) = bank[id] + RootStateRent + CycleStateRent * k
      /\ HeldBy(id)' = 0 + 0 + CycleStateRent * 0
  BY <1>1 DEF HeldBy, CyclesOf
<1>8. bank[id] = rest + refund
  BY <1>3
<1> HIDE DEF k, refund, rest, w
<1> DEFINE rents == CycleStateRent * k
<1>9. /\ rents \in Nat /\ k * CycleStateRent = rents
      /\ HeldBy(id)' = 0
      /\ HeldBy(id) = rest + refund + RootStateRent + rents
      /\ contract_bank' = contract_bank + share + rents
  BY <1>2, <1>4, <1>6, <1>7, <1>8, RentsAdd
<1> HIDE DEF rents
<1>10. w[owner] \in Nat /\ w[owner] + rest - share + RootStateRent \in Nat
  BY <1>2, <1>3, <1>4, <1>5, <1>6
<1>11. Total(wallet', Users) = Total(w, Users) + (w[owner] + rest - share + RootStateRent) - w[owner]
  BY <1>2, <1>3, <1>4, <1>10, WalletPaid
<1>12. Total(wallet', Users) = Total(wallet, Users) + refund + rest - share + RootStateRent
  BY <1>3, <1>5, <1>6, <1>10, <1>11
<1> QED
  BY <1>2, <1>3, <1>5, <1>6, <1>9, <1>12 DEF LamportsMoved

LEMMA AdministerMoves ==
    ASSUME ContractAssumption, AuctionAssumption, TypeInv, NEW id \in AuctionIds, Administer(id)
    PROVE  LamportsMoved(id)
<1>1. HasRoot(id)' <=> HasRoot(id)
  BY AdministerEffect DEF AccountsKept, SameRoot, HasRoot
<1>2. CyclesOf(id)' = CyclesOf(id)
  BY AdministerEffect DEF AccountsKept, SameRoot, HasRoot, CyclesOf
<1>3. wallet' = wallet /\ contract_bank' = contract_bank /\ bank'[id] = bank[id]
  BY DEF Administer, FilterAuction, ModifyAuction, VerifyAuction, contractVars
<1> QED
  BY <1>1, <1>2, <1>3, NothingMoved

LEMMA DepositMoves ==
    ASSUME ContractAssumption, AuctionAssumption, TypeInv, NEW id \in AuctionIds,
           NEW user \in Bidders, NEW amount \in Deposits, Deposit(id, user, amount)
    PROVE  LamportsMoved(id)
<1>1. /\ user \in Users /\ amount \in Nat /\ wallet \in [Users -> Nat]
      /\ contract_bank \in Nat /\ bank \in [AuctionIds -> Nat]
  BY DEF AuctionAssumption, TypeInv, TypeOK, ContractTypeOK
<1>2. /\ wallet' = [wallet EXCEPT ![user] = wallet[user] - amount] /\ wallet[user] >= amount
      /\ bank'[id] = bank[id] + amount
      /\ contract_bank' = contract_bank /\ root' = root
  BY <1>1 DEF Deposit
<1>3. wallet[user] \in Nat /\ wallet[user] - amount \in Nat
  BY <1>1, <1>2
<1>4. /\ Total(wallet', Users) = Total(wallet, Users) + (wallet[user] - amount) - wallet[user]
      /\ Total(wallet, Users) \in Nat
  BY <1>1, <1>2, <1>3, WalletPaid
<1>5. Total(wallet', Users) = Total(wallet, Users) - amount
  BY <1>1, <1>3, <1>4
<1>6. HeldBy(id)' = HeldBy(id) + amount /\ HeldBy(id) \in Nat
  <2> DEFINE rents == CycleStateRent * CyclesOf(id)
             r == IF HasRoot(id) THEN RootStateRent ELSE 0
  <2>1. HeldBy(id)' = bank[id] + amount + r + rents /\ HeldBy(id) = bank[id] + r + rents
    BY <1>2 DEF HeldBy, HasRoot, CyclesOf
  <2>2. r \in Nat /\ rents \in Nat /\ bank[id] \in Nat /\ HeldBy(id) \in Nat
    BY HeldType DEF AuctionAssumption
  <2> HIDE DEF r, rents
  <2> QED
    BY <1>1, <2>1, <2>2
<1> QED
  BY <1>1, <1>2, <1>4, <1>5, <1>6 DEF LamportsMoved

LEMMA AuctionMoves ==
    ASSUME ContractAssumption, AuctionAssumption, TypeInv, NEW id \in AuctionIds, AuctionStep(id)
    PROVE  LamportsMoved(id) /\ protocol_fee_state' = protocol_fee_state
<1>1. LamportsMoved(id)
  <2>1. Claim(id) => LamportsMoved(id)
    BY ClaimFundsMoves, ClaimRewardsMoves DEF Claim
  <2>2. Delete(id) => LamportsMoved(id)
    BY DeleteCyclesMoves, DeleteAuctionMoves DEF Delete
  <2> QED
    BY <2>1, <2>2, StartMoves, BidMoves, CloseMoves, AdministerMoves, DepositMoves DEF AuctionStep
<1>2. protocol_fee_state' = protocol_fee_state
  BY DEF AuctionStep, Start, InitializeAuction, AnyBid, Bid, BidInactive, PlaceBid,
         Close, CloseIdleCycle, CloseLastCycle, CloseCycle, Claim, ClaimFunds, ClaimRewards,
         Delete, DeleteCycles, DeleteAuction, Administer, FilterAuction, ModifyAuction,
         VerifyAuction, Deposit, contractVars
<1> QED
  BY <1>1, <1>2

Held == [id \in AuctionIds |-> HeldBy(id)]

(* The rents of the contract's other accounts, and the sum of everything.  *)
ContractRents ==
    (IF contract_bank_state = NoAccount THEN 0
     ELSE PoolRent(max_len["primary"]) + PoolRent(max_len["secondary"]))
    + (IF protocol_fee_state = NoAccount THEN 0 ELSE ProtocolFeeRent)

Ledger ==
    Total(wallet, Users) + contract_bank + Total(Held, AuctionIds) + ContractRents

LEMMA LedgerTypes ==
    ASSUME ContractAssumption, AuctionAssumption, TypeInv
    PROVE  /\ Held \in [AuctionIds -> Nat]
           /\ wallet \in [Users -> Nat] /\ contract_bank \in Nat
           /\ Total(wallet, Users) \in Nat
           /\ Total(Held, AuctionIds) \in Nat
           /\ \A len \in Nat : PoolRent(len) \in Nat
           /\ ContractRents \in Nat
<1>1. Held \in [AuctionIds -> Nat]
  BY HeldType DEF Held
<1>2. wallet \in [Users -> Nat] /\ contract_bank \in Nat
  BY DEF TypeInv, TypeOK, ContractTypeOK
<1>3. Total(wallet, Users) \in Nat /\ Total(Held, AuctionIds) \in Nat
  BY <1>1, <1>2, TotalType DEF ContractAssumption
<1>4. ASSUME NEW len \in Nat PROVE PoolRent(len) \in Nat
  <2>1. PoolSlotRent \in Nat /\ PoolBaseRent \in Nat
    BY DEF ContractAssumption
  <2>2. PoolSlotRent * len \in Nat
    BY <2>1, RentsAdd
  <2> QED
    BY <2>1, <2>2 DEF PoolRent
<1>5. max_len["primary"] \in Nat /\ max_len["secondary"] \in Nat /\ ProtocolFeeRent \in Nat
  BY DEF TypeInv, TypeOK, ContractTypeOK, Pools, ContractAssumption
<1>6. ContractRents \in Nat
  BY <1>4, <1>5 DEF ContractRents
<1> QED
  BY <1>1, <1>2, <1>3, <1>4, <1>6

LedgerTyped ==
    /\ Held \in [AuctionIds -> Nat]
    /\ contract_bank \in Nat
    /\ ContractRents \in Nat

LEMMA LedgerTypedAfter == TypeInv' => LedgerTyped'
<1>1. TypeInv => LedgerTyped
  BY LedgerTypes, ContractAssumption, AuctionAssumption DEF LedgerTyped
<1> QED
  BY <1>1, PTL

LEMMA CardinalityUpTo == \A m \in Nat : Cardinality(1..m) = m
<1> SUFFICES ASSUME NEW m \in Nat PROVE Cardinality(1..m) = m
  OBVIOUS
<1>1. m \in Int /\ 1 \in Int
  OBVIOUS
<1>2. Cardinality(1..m) = IF 1 > m THEN 0 ELSE m - 1 + 1
  BY <1>1, FS_Interval, Zenon
<1> DEFINE c == Cardinality(1..m)
<1>3. c = IF 1 > m THEN 0 ELSE m - 1 + 1
  BY <1>2
<1> HIDE DEF c
<1>4. c = m
  BY <1>3
<1> QED
  BY <1>4 DEF c

(* The cycle accounts that exist are as many as the root state says, so    *)
(* that the ledger is the sum of all accounts.                             *)
LEMMA LedgerAsSum ==
    ASSUME ContractAssumption, AuctionAssumption, TypeInv, CycleAccounts
    PROVE  TotalLamports = Ledger
<1> DEFINE Sums(it) == it = [s \in SUBSET AuctionIds |-> IF s = {} THEN 0 ELSE
               (bank[Pick(s)] + (IF HasRoot(Pick(s)) THEN RootStateRent ELSE 0)
                    + CycleStateRent * Cardinality(ExistingCycles(Pick(s))))
               + it[s \ {Pick(s)}]]
           Accounts == MapThenSumSet(LAMBDA id :
               bank[id] + (IF HasRoot(id) THEN RootStateRent ELSE 0)
               + CycleStateRent * Cardinality(ExistingCycles(id)), AuctionIds)
<1>1. ASSUME NEW id \in AuctionIds
      PROVE  Held[id] = bank[id] + (IF HasRoot(id) THEN RootStateRent ELSE 0)
                            + CycleStateRent * Cardinality(ExistingCycles(id))
  <2> DEFINE k == CyclesOf(id)
  <2>1. k \in Nat /\ k <= MaxCycle /\ MaxCycle \in Nat
    BY AccountTypes DEF TypeInv, CyclesOf, CycleNumbers, AuctionAssumption
  <2>2. NumberedTo(cycle[id], k)
    BY CycleAccountsAsNumbers
  <2> HIDE DEF k
  <2>3. ExistingCycles(id) = 1..k
    BY <2>1, <2>2 DEF ExistingCycles, NumberedTo, CycleNumbers
  <2>5. Cardinality(1..k) = k
    BY <2>1, CardinalityUpTo
  <2> QED
    BY <2>3, <2>5 DEF Held, HeldBy, k
<1>2. Accounts = (CHOOSE it : Sums(it))[AuctionIds]
  BY Zenon DEF MapThenSumSet, MapThenFoldSet, Pick
<1>3. IsFiniteSet(AuctionIds) /\ Held \in [AuctionIds -> Nat]
  BY LedgerTypes DEF ContractAssumption
<1>4. \A it : Sums(it) <=> SumsOf(Held, AuctionIds, it)
  <2> SUFFICES ASSUME NEW it
               PROVE  [s \in SUBSET AuctionIds |-> IF s = {} THEN 0 ELSE
                          (bank[Pick(s)] + (IF HasRoot(Pick(s)) THEN RootStateRent ELSE 0)
                               + CycleStateRent * Cardinality(ExistingCycles(Pick(s))))
                          + it[s \ {Pick(s)}]]
                    = [s \in SUBSET AuctionIds |->
                          IF s = {} THEN 0 ELSE Held[Pick(s)] + it[s \ {Pick(s)}]]
    BY Zenon DEF SumsOf
  <2>1. ASSUME NEW s \in SUBSET AuctionIds, s # {}
        PROVE  Held[Pick(s)] = bank[Pick(s)] + (IF HasRoot(Pick(s)) THEN RootStateRent ELSE 0)
                                   + CycleStateRent * Cardinality(ExistingCycles(Pick(s)))
    BY <1>1, <1>3, <2>1, Picked
  <2> QED
    BY <2>1
<1>5. PICK it \in [SUBSET AuctionIds -> Nat] : SumsOf(Held, AuctionIds, it)
  BY <1>3, SumsExist
<1>6. Sums(CHOOSE i : Sums(i))
  BY <1>4, <1>5
<1> HIDE DEF Sums
<1>7. Total(Held, AuctionIds) = (CHOOSE i : Sums(i))[AuctionIds]
  BY <1>3, <1>4, <1>6, SumsTotal
<1>8. Accounts = Total(Held, AuctionIds)
  BY <1>2, <1>7
<1>9. MapThenSumSet(LAMBDA user : wallet[user], Users) = Total(wallet, Users)
  BY Zenon DEF Total
<1>10. TotalLamports = Total(wallet, Users) + contract_bank + Accounts
           + (IF contract_bank_state = NoAccount THEN 0
              ELSE PoolRent(max_len["primary"]) + PoolRent(max_len["secondary"]))
           + (IF protocol_fee_state = NoAccount THEN 0 ELSE ProtocolFeeRent)
  BY <1>9, Zenon DEF TotalLamports
<1> HIDE DEF Accounts
<1>11. /\ Total(wallet, Users) \in Nat /\ contract_bank \in Nat
       /\ Total(Held, AuctionIds) \in Nat
       /\ \A len \in Nat : PoolRent(len) \in Nat
       /\ max_len["primary"] \in Nat /\ max_len["secondary"] \in Nat
       /\ ProtocolFeeRent \in Nat
  BY LedgerTypes DEF TypeInv, TypeOK, ContractTypeOK, Pools, ContractAssumption
<1> QED
  BY <1>8, <1>10, <1>11 DEF Ledger, ContractRents

LEMMA ContractStepLedger ==
    ASSUME ContractAssumption, AuctionAssumption, TypeInv, TypeInv', NextContract,
           UNCHANGED <<now, stateVars, rewardVars>>
    PROVE  Ledger' = Ledger
<1>1. Held' = Held
  BY DEF Held, HeldBy, HasRoot, CyclesOf, stateVars
<1>2. /\ wallet \in [Users -> Nat] /\ contract_bank \in Nat
      /\ Total(wallet, Users) \in Nat /\ Total(Held, AuctionIds) \in Nat
      /\ \A len \in Nat : PoolRent(len) \in Nat
      /\ ContractRents \in Nat
      /\ max_len \in [Pools -> Nat]
      /\ ContractBankRent \in Nat /\ ProtocolFeeRent \in Nat
      /\ PoolLens \subseteq Nat /\ Withdrawals \subseteq Nat
  BY LedgerTypes DEF TypeInv, TypeOK, ContractTypeOK, ContractAssumption
<1>3. Total(Held, AuctionIds)' = Total(Held, AuctionIds)
  BY <1>1
(* The wallet of one user pays for what the contract gets. *)
<1>4. ASSUME NEW user \in Users, NEW paid \in Int, wallet[user] - paid \in Nat,
             wallet' = [wallet EXCEPT ![user] = wallet[user] - paid],
             contract_bank' + ContractRents' = contract_bank + ContractRents + paid
      PROVE  Ledger' = Ledger
  <2>1. /\ Total(wallet', Users) = Total(wallet, Users) + (wallet[user] - paid) - wallet[user]
        /\ wallet[user] \in Nat
    BY <1>2, <1>4, WalletPaid
  <2>2. Total(wallet', Users) = Total(wallet, Users) - paid
    BY <1>2, <1>4, <2>1
  <2>3. Ledger' = Total(wallet', Users) + contract_bank' + Total(Held, AuctionIds) + ContractRents'
    BY <1>3 DEF Ledger
  <2>4. contract_bank' \in Nat /\ ContractRents' \in Nat
    BY LedgerTypedAfter DEF LedgerTyped
  <2> QED
    BY <1>2, <1>4, <2>2, <2>3, <2>4 DEF Ledger
<1>5. PICK user \in Users :
          \/ \E authority \in Users, len \in PoolLens : InitializeContract(user, authority, len)
          \/ \E amount \in Withdrawals : AdminWithdraw(user, amount)
          \/ \E new \in NewAuthorities : AdminWithdrawReassign(user, new)
          \/ \E fee \in Fees : SetProtocolFee(user, fee)
          \/ \E p \in Pools, len \in PoolLens : ReallocatePool(user, p, len)
  BY DEF NextContract
<1>6. wallet[user] \in Nat
  BY <1>2
<1>7. ASSUME NEW authority \in Users, NEW len \in PoolLens,
             InitializeContract(user, authority, len)
      PROVE  Ledger' = Ledger
  <2> DEFINE paid == 2 * PoolRent(len) + ContractBankRent
  <2>1. PoolRent(len) \in Nat
    BY <1>2
  <2>2. /\ contract_bank_state = NoAccount /\ contract_bank = 0
        /\ contract_bank' = ContractBankRent
        /\ protocol_fee_state' = protocol_fee_state
        /\ wallet[user] >= paid /\ wallet' = [wallet EXCEPT ![user] = wallet[user] - paid]
    BY <1>7 DEF InitializeContract
  <2>3. contract_bank_state' # NoAccount
    BY <1>7 DEF InitializeContract, ContractAssumption
  <2>4. max_len'["primary"] = len /\ max_len'["secondary"] = len
    BY <1>7 DEF InitializeContract, Pools
  <2> DEFINE feerent == IF protocol_fee_state = NoAccount THEN 0 ELSE ProtocolFeeRent
             poolrent == PoolRent(len)
  <2>5. ContractRents = 0 + feerent /\ ContractRents' = (poolrent + poolrent) + feerent
    BY <2>2, <2>3, <2>4 DEF ContractRents
  <2>6. feerent \in Nat /\ poolrent \in Nat /\ paid = 2 * poolrent + ContractBankRent
    BY <1>2, <2>1
  <2> HIDE DEF feerent, paid, poolrent
  <2>7. contract_bank' + ContractRents' = contract_bank + ContractRents + paid
    BY <1>2, <2>2, <2>5, <2>6
  <2>8. wallet[user] - paid \in Nat /\ paid \in Int
    BY <1>2, <1>6, <2>2, <2>6
  <2> QED
    BY <1>4, <2>2, <2>7, <2>8
<1>8. ASSUME NEW amount \in Withdrawals, AdminWithdraw(user, amount) PROVE Ledger' = Ledger
  <2> DEFINE paid == 0 - amount
  <2>1. amount \in Nat /\ paid \in Int /\ wallet[user] - paid = wallet[user] + amount
    BY <1>2, <1>6
  <2>2. /\ wallet' = [wallet EXCEPT ![user] = wallet[user] - paid]
        /\ contract_bank' = contract_bank - amount
        /\ ContractRents' = ContractRents
    BY <1>8, <2>1 DEF AdminWithdraw, ContractRents
  <2>3. wallet[user] - paid \in Nat
    BY <1>6, <2>1
  <2>4. contract_bank' + ContractRents' = contract_bank + ContractRents + paid
    BY <1>2, <2>1, <2>2
  <2> HIDE DEF paid
  <2> QED
    BY <1>4, <2>1, <2>2, <2>3, <2>4
<1>9. ASSUME NEW new \in NewAuthorities, AdminWithdrawReassign(user, new)
      PROVE  Ledger' = Ledger
  <2>1. /\ wallet' = wallet /\ contract_bank' = contract_bank
        /\ max_len' = max_len /\ protocol_fee_state' = protocol_fee_state
    BY <1>9 DEF AdminWithdrawReassign
  <2>2. contract_bank_state # NoAccount
    BY <1>9 DEF AdminWithdrawReassign, IsWithdrawAuthority
  <2>3. contract_bank_state' # NoAccount
    <3>1. contract_bank_state \in [contract_admin: Users, withdraw_authority: Users]
      BY <2>2 DEF TypeInv, TypeOK, ContractTypeOK
    <3>2. contract_bank_state' \in [contract_admin: Users, withdraw_authority: Users]
      BY <1>9, <3>1 DEF AdminWithdrawReassign, ContractAssumption
    <3> QED
      BY <3>2 DEF ContractAssumption
  <2>4. ContractRents' = ContractRents
    BY <2>1, <2>2, <2>3 DEF ContractRents
  <2> QED
    BY <1>3, <2>1, <2>4 DEF Ledger
<1>10. ASSUME NEW fee \in Fees, SetProtocolFee(user, fee) PROVE Ledger' = Ledger
  <2> DEFINE paid == IF protocol_fee_state = NoAccount THEN ProtocolFeeRent ELSE 0
             poolrents == IF contract_bank_state = NoAccount THEN 0
                          ELSE PoolRent(max_len["primary"]) + PoolRent(max_len["secondary"])
  <2>1. /\ wallet[user] >= paid /\ wallet' = [wallet EXCEPT ![user] = wallet[user] - paid]
        /\ contract_bank' = contract_bank /\ contract_bank_state' = contract_bank_state
        /\ max_len' = max_len /\ protocol_fee_state' = fee
    BY <1>10 DEF SetProtocolFee
  <2>2. protocol_fee_state' # NoAccount
    BY <2>1 DEF ContractAssumption
  <2>3. max_len["primary"] \in Nat /\ max_len["secondary"] \in Nat
    BY <1>2 DEF Pools
  <2>4. poolrents \in Nat
    BY <1>2, <2>3
  <2>5. paid \in Nat
    BY <1>2
  <2>6. ContractRents' = poolrents + ProtocolFeeRent
    BY <2>1, <2>2 DEF ContractRents
  <2>7. ContractRents = poolrents + (IF protocol_fee_state = NoAccount THEN 0 ELSE ProtocolFeeRent)
    BY DEF ContractRents
  <2> HIDE DEF poolrents
  <2>8. ContractRents' = ContractRents + paid
    BY <1>2, <2>4, <2>6, <2>7
  <2> HIDE DEF paid
  <2>9. contract_bank' + ContractRents' = contract_bank + ContractRents + paid
    BY <1>2, <2>1, <2>5, <2>8
  <2>10. wallet[user] - paid \in Nat /\ paid \in Int
    BY <1>6, <2>1, <2>5
  <2> QED
    BY <1>4, <2>1, <2>9, <2>10
<1>11. ASSUME NEW p \in Pools, NEW len \in PoolLens, ReallocatePool(user, p, len)
       PROVE  Ledger' = Ledger
  <2> DEFINE old == PoolRent(max_len[p])
             paid == PoolRent(len) - old
             primary == PoolRent(max_len["primary"])
             secondary == PoolRent(max_len["secondary"])
             feerent == IF protocol_fee_state = NoAccount THEN 0 ELSE ProtocolFeeRent
  <2>1. /\ wallet[user] >= paid /\ wallet' = [wallet EXCEPT ![user] = wallet[user] - paid]
        /\ contract_bank' = contract_bank /\ contract_bank_state' = contract_bank_state
        /\ max_len' = [max_len EXCEPT ![p] = len] /\ protocol_fee_state' = protocol_fee_state
        /\ contract_bank_state # NoAccount
    BY <1>11 DEF ReallocatePool, IsContractAdmin
  <2>2. /\ max_len["primary"] \in Nat /\ max_len["secondary"] \in Nat /\ max_len[p] \in Nat
        /\ len \in Nat
    BY <1>2 DEF Pools
  <2>3. /\ old \in Nat /\ PoolRent(len) \in Nat /\ primary \in Nat /\ secondary \in Nat
        /\ feerent \in Nat
    BY <1>2, <2>2
  <2>4. paid \in Int
    BY <2>3
  <2>5. ContractRents = (primary + secondary) + feerent
    BY <2>1 DEF ContractRents
  <2>6. ContractRents' = (PoolRent(max_len'["primary"]) + PoolRent(max_len'["secondary"])) + feerent
    BY <2>1 DEF ContractRents
  <2>7. ContractRents' = ContractRents + paid
    <3>1. CASE p = "primary"
      <4>1. max_len'["primary"] = len /\ max_len'["secondary"] = max_len["secondary"] /\ old = primary
        BY <1>2, <2>1, <3>1 DEF Pools
      <4>2. ContractRents' = (PoolRent(len) + secondary) + feerent
        BY <2>6, <4>1
      <4>3. paid = PoolRent(len) - primary
        BY <4>1
      <4> HIDE DEF old, paid, primary, secondary, feerent
      <4> QED
        BY <2>3, <2>5, <4>2, <4>3
    <3>2. CASE p = "secondary"
      <4>1. max_len'["secondary"] = len /\ max_len'["primary"] = max_len["primary"] /\ old = secondary
        BY <1>2, <2>1, <3>2 DEF Pools
      <4>2. ContractRents' = (primary + PoolRent(len)) + feerent
        BY <2>6, <4>1
      <4>3. paid = PoolRent(len) - secondary
        BY <4>1
      <4> HIDE DEF old, paid, primary, secondary, feerent
      <4> QED
        BY <2>3, <2>5, <4>2, <4>3
    <3> QED
      BY <3>1, <3>2 DEF Pools
  <2> HIDE DEF paid
  <2>8. wallet[user] - paid \in Nat
    BY <1>6, <2>1, <2>4
  <2>9. contract_bank' + ContractRents' = contract_bank + ContractRents + paid
    BY <1>2, <2>1, <2>4, <2>7
  <2> QED
    BY <1>4, <2>1, <2>4, <2>8, <2>9
<1> QED
  BY <1>5, <1>7, <1>8, <1>9, <1>10, <1>11

LEMMA LedgerStep ==
    ASSUME ContractAssumption, AuctionAssumption, TypeInv, TypeInv', [Next]_vars
    PROVE  Ledger' = Ledger
<1>1. CASE NextContract /\ UNCHANGED <<now, stateVars, rewardVars>>
  BY <1>1, ContractStepLedger
<1>2. ASSUME NEW id \in AuctionIds, AuctionStep(id) PROVE Ledger' = Ledger
  <2>1. /\ Held \in [AuctionIds -> Nat] /\ contract_bank \in Nat /\ Total(wallet, Users) \in Nat
        /\ Total(Held, AuctionIds) \in Nat /\ ContractRents \in Nat
    BY LedgerTypes
  <2>2. Held' \in [AuctionIds -> Nat] /\ contract_bank' \in Nat
    BY LedgerTypedAfter DEF LedgerTyped
  <2>3. \A other \in AuctionIds \ {id} : Held'[other] = Held[other]
    <3> SUFFICES ASSUME NEW other \in AuctionIds \ {id}
                 PROVE  Held'[other] = Held[other]
      OBVIOUS
    <3>1. root'[other] = root[other] /\ bank'[other] = bank[other]
      BY <1>2, AuctionStepLocal
    <3> QED
      BY <3>1 DEF Held, HeldBy, HasRoot, CyclesOf
  <2>4. Total(Held', AuctionIds) = Total(Held, AuctionIds) + Held'[id] - Held[id]
    BY <2>1, <2>2, <2>3, TotalChanged DEF ContractAssumption
  <2>5. Held[id] = HeldBy(id) /\ Held'[id] = HeldBy(id)' /\ Held[id] \in Nat /\ Held'[id] \in Nat
    BY <2>1, <2>2 DEF Held
  <2>6. Total(wallet', Users) + contract_bank' + Held'[id]
            = Total(wallet, Users) + contract_bank + Held[id]
    BY <1>2, <2>5, AuctionMoves DEF LamportsMoved
  <2>7. ContractRents' = ContractRents
    BY <1>2, AuctionMoves, AuctionStepOnPools DEF ContractKept, ContractRents
  <2>8. Total(wallet', Users) \in Nat
    <3>1. wallet' \in [Users -> Nat]
      BY DEF TypeInv, TypeOK, ContractTypeOK
    <3> QED
      BY <3>1, TotalType DEF ContractAssumption
  <2>9. Ledger' = Total(wallet', Users) + contract_bank' + Total(Held', AuctionIds) + ContractRents
    BY <2>7 DEF Ledger
  <2> QED
    BY <2>1, <2>2, <2>4, <2>5, <2>6, <2>8, <2>9 DEF Ledger
<1>3. CASE UNCHANGED <<contractVars, stateVars, rewardVars>>
  <2>1. Held' = Held /\ wallet' = wallet /\ contract_bank' = contract_bank
    BY <1>3 DEF Held, HeldBy, HasRoot, CyclesOf, contractVars, stateVars
  <2>2. ContractRents' = ContractRents
    BY <1>3 DEF ContractRents, contractVars
  <2> QED
    BY <2>1, <2>2 DEF Ledger
<1> QED
  BY <1>1, <1>2, <1>3, StepCases

LEMMA InitLedger ==
    ASSUME ContractAssumption, AuctionAssumption, Init PROVE Ledger = Total(Funds, Users)
<1>1. wallet = Funds /\ contract_bank = 0 /\ ContractRents = 0
  BY DEF Init, InitContract, ContractRents
<1>2. Total(Funds, Users) \in Nat
  BY TotalType DEF ContractAssumption
<1>3. Total(Held, AuctionIds) = 0
  <2> DEFINE zero == [id \in AuctionIds |-> 0]
  <2>1. Held = zero
    <3>1. CycleStateRent * 0 = 0
      BY RentsAdd DEF AuctionAssumption
    <3> QED
      BY <3>1 DEF Held, HeldBy, HasRoot, CyclesOf, Init
  <2>2. zero \in [AuctionIds -> Nat] /\ \A x \in AuctionIds : zero[x] = 0
    OBVIOUS
  <2> HIDE DEF zero
  <2> QED
    BY <2>1, <2>2, TotalZero DEF ContractAssumption
<1> QED
  BY <1>1, <1>2, <1>3 DEF Ledger

(* No instruction creates or loses lamports, for any number of users and   *)
(* auctions: bids, refunds, fee shares, rents and the closing of accounts  *)
(* balance, whichever way the fee of a claim was rounded.                  *)
THEOREM LamportsConservedInvariant == Spec => []LamportsConserved
<1> DEFINE Balanced == Ledger = Total(Funds, Users)
<1>1. Init => Balanced
  BY InitLedger, ContractAssumption, AuctionAssumption
<1>2. TypeInv /\ TypeInv' /\ Balanced /\ [Next]_vars => Balanced'
  <2>1. Total(Funds, Users)' = Total(Funds, Users)
    OBVIOUS
  <2> QED
    BY <2>1, LedgerStep, ContractAssumption, AuctionAssumption
<1>3. TypeInv /\ CycleAccounts /\ Balanced => LamportsConserved
  <2>1. MapThenSumSet(LAMBDA user : Funds[user], Users) = Total(Funds, Users)
    BY Zenon DEF Total
  <2>2. TypeInv /\ CycleAccounts => TotalLamports = Ledger
    BY LedgerAsSum, ContractAssumption, AuctionAssumption
  <2> QED
    BY <2>1, <2>2, Zenon DEF LamportsConserved
<1> HIDE DEF Balanced
<1> QED
  BY <1>1, <1>2, <1>3, TypeInvariant, CycleAccountsInvariant, PTL DEF Spec
=============================================================================
