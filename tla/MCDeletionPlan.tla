---------------------------- MODULE MCDeletionPlan ----------------------------
(* Values for the constants of DeletionPlan in TLC's runs, besides those   *)
(* of MCAuction.                                                           *)
EXTENDS DeletionPlan, MCAuction

MCPlanUsers == {owner, alice}

MCPlanFunds == [user \in MCPlanUsers |-> IF user = owner THEN 12 ELSE 3]

(* Up to three cycles, to be deleted in rounds of two. *)
ThreeCycles == {Config(2, 0, 3, "Token")}
=============================================================================
