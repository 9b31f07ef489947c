----------------------------- MODULE DeletionPlan -----------------------------
(***************************************************************************)
(* An owner deletes an auction with the client: its page is read in two    *)
(* calls (client/src/get_auction.rs), the instructions that delete all its *)
(* cycle states in rounds are computed from what was read (delete_all),    *)
(* and are sent one after the other.  The chain is module Auction, all     *)
(* whose instructions go on between any two of these steps.                *)
(***************************************************************************)
EXTENDS AuctionProperties

CONSTANT RECOMMENDED_CYCLE_STATES_DELETED_PER_CALL

(* The owner deletes with this client only: the plan is not crossed by     *)
(* other deletions of the same owner.                                      *)
ASSUME DeletionAssumption ==
    /\ RECOMMENDED_CYCLE_STATES_DELETED_PER_CALL \in Nat \ {0}
    /\ DeleteBatches = {}

VARIABLES
    page,       \* what get_auction returned last, or NoAccount
    page_bids,  \* what get_auction_cycle_state returned for it, or NoAccount
    plan,       \* the instructions not sent yet,
    started     \* the auction whose deletion one of them began, or NoAccount

pageVars == <<page, page_bids>>
clientVars == <<pageVars, plan, started>>
allVars == <<vars, clientVars>>

-----------------------------------------------------------------------------
(* Reading the page *)

(* A filtered auction is not shown.  Of an NFT auction the metadata of the *)
(* master is read as well; the part shown does not depend on the cycle.    *)
GetAuction(id) ==
    /\ plan = <<>>
    /\ HasRoot(id)
    /\ ~root[id].is_filtered
    /\ page' = [id |-> id, current_cycle |-> root[id].current_auction_cycle,
                owner_pubkey |-> root[id].auction_owner]
    /\ page_bids' = NoAccount
    /\ UNCHANGED <<vars, plan, started>>

(* The call for the cycle follows later, and fails when the state is gone. *)
GetAuctionCycleState ==
    /\ page # NoAccount
    /\ plan = <<>>
    /\ cycle[page.id][page.current_cycle] # NoAccount
    /\ page_bids' = cycle[page.id][page.current_cycle].bid_history
    /\ UNCHANGED <<vars, page, plan, started>>

-----------------------------------------------------------------------------
(* delete_all *)

(* Fault: the cycles that remain get no round. *)
RoundsWithoutRemainder(cycles, batch) == cycles \div batch

Rounds(cycles, batch) ==
    cycles \div batch + (IF cycles % batch # 0 THEN 1 ELSE 0)

(* Fault: a round begins with the last cycle of the one before. *)
RoundStartOverlapping(cycles, batch, round) == cycles - (round - 1) * (batch - 1)

RoundStart(cycles, batch, round) == cycles - (round - 1) * batch

(* An instruction names the top bidder and the cycle states from the       *)
(* number given downwards, as many as one call deletes.                    *)
DeleteAuctionIx(number) ==
    [auction_id |-> page.id, current_auction_cycle |-> number,
     top_bidder |-> IF page_bids = <<>> THEN NoAccount
                    ELSE page_bids[Len(page_bids)].bidder_pubkey]

DeleteAll ==
    LET batch == RECOMMENDED_CYCLE_STATES_DELETED_PER_CALL
    IN  /\ page # NoAccount /\ page_bids # NoAccount
        /\ plan = <<>>
        /\ plan' = [round \in 1..Rounds(page.current_cycle, batch) |->
                        DeleteAuctionIx(RoundStart(page.current_cycle, batch, round))]
        /\ started' = NoAccount
        /\ UNCHANGED <<vars, pageVars>>

-----------------------------------------------------------------------------
(* Sending the instructions *)

(* The program finds the accounts it looks for. *)
NamesAccounts(ix) ==
    LET id == ix.auction_id
    IN  /\ HasRoot(id)
        /\ ix.current_auction_cycle = root[id].current_auction_cycle
        /\ (IsOngoing(root[id]) /\ HasBid(CurrentCycle(id))) =>
               ix.top_bidder = TopBid(CurrentCycle(id)).bidder_pubkey

(* The program would execute the instruction as things stand: all checks   *)
(* of DeleteCycles or of DeleteAuction pass.                               *)
CanExecute(ix) ==
    LET id == ix.auction_id
        left == root[id].current_auction_cycle - RECOMMENDED_CYCLE_STATES_DELETED_PER_CALL
        rest == bank[id] - RefundOnDelete(id)
    IN  /\ NamesAccounts(ix)
        /\ \/ left > 0 /\ DeletableDownTo(id, page.owner_pubkey, left)
           \/ /\ left <= 0 /\ DeletableDownTo(id, page.owner_pubkey, 0)
              /\ \E share \in FeeShares(rest) : share <= rest

Execute(ix) ==
    LET batch == RECOMMENDED_CYCLE_STATES_DELETED_PER_CALL
    IN  /\ NamesAccounts(ix)
        /\ \/ DeleteCycles(ix.auction_id, page.owner_pubkey, batch)
           \/ DeleteAuction(ix.auction_id, page.owner_pubkey, batch)

ClosePage == page' = NoAccount /\ page_bids' = NoAccount

SendNext ==
    /\ plan # <<>>
    /\ Execute(Head(plan))
    /\ plan' = Tail(plan)
    /\ started' = IF root'[page.id] = NoAccount THEN NoAccount ELSE page.id
    /\ IF Len(plan) = 1 THEN ClosePage ELSE UNCHANGED pageVars

(* An instruction that fails ends the plan; the owner reads the page anew. *)
(* What fails is decided here by the actions themselves, so that a started *)
(* deletion could not end well (DeletionEnds) if CanExecute missed a check.*)
SendFails ==
    /\ plan # <<>>
    /\ ~ENABLED Execute(Head(plan))
    /\ plan' = <<>>
    /\ started' = NoAccount
    /\ ClosePage
    /\ UNCHANGED vars

-----------------------------------------------------------------------------

InitClient ==
    /\ Init
    /\ page = NoAccount /\ page_bids = NoAccount
    /\ plan = <<>> /\ started = NoAccount

NextClient ==
    \/ \E id \in AuctionIds : GetAuction(id)
    \/ GetAuctionCycleState
    \/ DeleteAll
    \/ SendNext \/ SendFails
    \/ Next /\ UNCHANGED clientVars

(* An owner who started to delete an auction goes on.                      *)
ClientSpec == InitClient /\ [][NextClient]_allVars /\ WF_allVars(SendNext \/ SendFails)

-----------------------------------------------------------------------------
(* Properties *)

(* A plan may be made from a page that is out of date, and its first       *)
(* instruction then fails and changes nothing.  But once one took effect,  *)
(* and until the auction is gone, there is a next one and nothing that     *)
(* others do makes it fail: no bid, closing, claim or filtering gets in    *)
(* between, so that no auction is stuck half deleted.                      *)
StartedDeletionGoesOn ==
    started # NoAccount => plan # <<>> /\ CanExecute(Head(plan))

(* An auction whose deletion began is gone in the end.                     *)
DeletionEnds == \A id \in AuctionIds : (started = id) ~> ~HasRoot(id)
=============================================================================
