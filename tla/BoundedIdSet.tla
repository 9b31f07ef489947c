---------------------------- MODULE BoundedIdSet ----------------------------
(***************************************************************************)
(* The abstract specification of one auction pool: a set of ids that a     *)
(* caller extends, shrinks, or gives more room, and that never holds more  *)
(* than max_len ids.                                                       *)
(***************************************************************************)
EXTENDS IdSet

CONSTANTS
    Ids,        \* the auction ids
    MaxLens     \* the values max_len may take

VARIABLES
    ids,        \* the ids the pool holds
    max_len     \* how many it may hold

vars == <<ids, max_len>>

Init == ids = {} /\ max_len \in MaxLens

Insert(id) ==
    /\ CanInsert(ids, max_len, id)
    /\ ids' = Inserted(ids, id)
    /\ UNCHANGED max_len

Delete(id) ==
    /\ ids' = Removed(ids, id)
    /\ UNCHANGED max_len

Grow(new) ==
    /\ new >= max_len
    /\ max_len' = new
    /\ UNCHANGED ids

Next ==
    \/ \E id \in Ids : Insert(id) \/ Delete(id)
    \/ \E new \in MaxLens : Grow(new)

Spec == Init /\ [][Next]_vars
=============================================================================
