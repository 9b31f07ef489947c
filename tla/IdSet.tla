------------------------------- MODULE IdSet -------------------------------
(***************************************************************************)
(* What the program relies on when it calls an AuctionPool                 *)
(* (contract/src/state.rs): a set of auction ids that holds at most        *)
(* max_len of them.  The module has no state; Contract applies these       *)
(* operators to the two pools of the program, BoundedIdSet wraps them in a *)
(* specification, and AuctionPool, the sorted vector of the code, is shown *)
(* to implement that specification.                                        *)
(***************************************************************************)
EXTENDS Integers, FiniteSets

(* is_full compares the length with max_len for equality. *)
IsFull(ids, max_len) == Cardinality(ids) = max_len

(* try_insert_sorted succeeds: there is room and the id is not there yet.  *)
CanInsert(ids, max_len, id) == ~IsFull(ids, max_len) /\ id \notin ids

Inserted(ids, id) == ids \cup {id}

(* remove never fails: an absent id leaves the pool as it was. *)
Removed(ids, id) == ids \ {id}
=============================================================================
