------------------------------- MODULE Escrow -------------------------------
(***************************************************************************)
(* What the gold program promises of an auction's money, without accounts, *)
(* cycles, pools and time: one standing bid that only a higher bid or the  *)
(* end of the auction displaces, sales that stay as they were made, and    *)
(* proceeds that are the owner's until withdrawn.                          *)
(***************************************************************************)
EXTENDS Integers, Sequences

CONSTANTS
    AuctionIds,
    Users,
    BankRent,       \* released to the owner by the last sale
    NoAccount

Bids == [bidder_pubkey: Users, bid_amount: Nat]

VARIABLES
    phase,          \* of each auction: none, open, finished or dissolving
    standing,       \* the bid an open auction holds, or NoAccount
    sold,           \* the bids that won, in order
    proceeds        \* what the owner may withdraw

escrow == <<phase, standing, sold, proceeds>>

Open(id) ==
    /\ phase[id] = "none"
    /\ phase' = [phase EXCEPT ![id] = "open"]
    /\ UNCHANGED <<standing, sold, proceeds>>

Raise(id) ==
    /\ phase[id] = "open"
    /\ standing'[id] \in Bids
    /\ standing[id] # NoAccount => standing'[id].bid_amount > standing[id].bid_amount
    /\ standing' = [standing EXCEPT ![id] = standing'[id]]
    /\ UNCHANGED <<phase, sold, proceeds>>

(* The standing bid wins; with the last sale the auction is finished. *)
Sell(id, is_last) ==
    /\ phase[id] = "open"
    /\ standing[id] # NoAccount
    /\ phase' = [phase EXCEPT ![id] = IF is_last THEN "finished" ELSE "open"]
    /\ standing' = [standing EXCEPT ![id] = NoAccount]
    /\ sold' = [sold EXCEPT ![id] = Append(@, standing[id])]
    /\ proceeds' = [proceeds EXCEPT ![id] =
           @ + standing[id].bid_amount + (IF is_last THEN BankRent ELSE 0)]

Withdraw(id) ==
    /\ phase[id] \in {"open", "finished"}
    /\ proceeds'[id] \in 0..proceeds[id]
    /\ proceeds' = [proceeds EXCEPT ![id] = proceeds'[id]]
    /\ UNCHANGED <<phase, standing, sold>>

(* The owner begins or goes on to delete the auction: no bid stands any    *)
(* more, and none will; the newest sales are forgotten.                    *)
Dissolve(id, left) ==
    /\ phase[id] # "none"
    /\ phase' = [phase EXCEPT ![id] = IF @ = "open" THEN "dissolving" ELSE @]
    /\ standing' = [standing EXCEPT ![id] = NoAccount]
    /\ sold' = [sold EXCEPT ![id] = SubSeq(@, 1, left)]
    /\ UNCHANGED proceeds

Remove(id) ==
    /\ phase[id] # "none"
    /\ phase' = [phase EXCEPT ![id] = "none"]
    /\ standing' = [standing EXCEPT ![id] = NoAccount]
    /\ sold' = [sold EXCEPT ![id] = <<>>]
    /\ proceeds' = [proceeds EXCEPT ![id] = 0]

Init ==
    /\ phase = [id \in AuctionIds |-> "none"]
    /\ standing = [id \in AuctionIds |-> NoAccount]
    /\ sold = [id \in AuctionIds |-> <<>>]
    /\ proceeds = [id \in AuctionIds |-> 0]

(* One auction at a time. *)
Next ==
    \E id \in AuctionIds :
        \/ Open(id) \/ Raise(id) \/ Withdraw(id)
        \/ \E is_last \in BOOLEAN : Sell(id, is_last)
        \/ \E left \in 0..Len(sold[id]) : Dissolve(id, left)
        \/ Remove(id)

Spec == Init /\ [][Next]_escrow

=============================================================================
