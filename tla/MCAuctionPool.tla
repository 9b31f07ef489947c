--------------------------- MODULE MCAuctionPool ---------------------------
(* Six ids in every order of insertion and removal, and pools of one to   *)
(* five slots, so that full pools, both ends of the vector and growing a   *)
(* full pool all occur.                                                    *)
EXTENDS AuctionPool

MCIds == 1..6
MCMaxLens == 1..5
=============================================================================
