------------------------------ MODULE MCAuction ------------------------------
(* Values for the constants of Auction in TLC's runs.  The owner, who is   *)
(* also the only one rich enough to be the contract's admin, and two       *)
(* bidders; periods, amounts and limits scaled down so that each limit is  *)
(* reached within a few steps.                                             *)
EXTENDS AuctionProperties, TLC

CONSTANTS owner, alice, bob

MCUsers == {owner, alice, bob}
MCOwners == {owner}
MCBidders == {alice, bob}
MCAlice == {alice}
MCBob == {bob}

Config(period, encore, cycles, kind) ==
    [cycle_period |-> period, encore_period |-> encore, number_of_cycles |-> cycles,
     minimum_bid_amount |-> 1, token_config |-> kind]

MCFunds == [user \in MCUsers |-> IF user = owner THEN 20 ELSE 3]

MCScarceFunds == [user \in MCUsers |-> IF user = owner THEN 14 ELSE 2]

(* Two cycles of an NFT auction with an encore. *)
OneNft == {Config(2, 1, 2, "Nft")}

(* Auctions without end, and one that repeats a single NFT. *)
Endless == {Config(2, 0, 0, "Token"), Config(2, 1, 2, "RepeatingNft"), Config(2, 1, 0, "Nft")}

(* Single-cycle auctions; one whose period is out of bounds, one whose     *)
(* encore period is.                                                       *)
Short == {Config(2, 0, 1, "Nft"), Config(2, 0, 1, "Token"),
          Config(1, 0, 1, "Token"), Config(2, 2, 1, "Token")}

(* A single token auction of one cycle. *)
OneToken == {Config(2, 0, 1, "Token")}

Symmetry == Permutations(MCBidders)
=============================================================================
