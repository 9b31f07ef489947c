---------------------------- MODULE AuctionPool ----------------------------
(***************************************************************************)
(* The pool account of the program (AuctionPool in contract/src/state.rs): *)
(* a vector of auction ids kept in ascending order by binary search, its   *)
(* max_len, and the size in bytes of the account that stores it.           *)
(*                                                                         *)
(* An AuctionId is a [u8; 32], compared lexicographically; all that counts *)
(* here is that the order is total, so an id is a natural number.          *)
(***************************************************************************)
EXTENDS Integers, Sequences, SequencesExt

CONSTANTS
    Ids,        \* auction ids, a set of naturals
    MaxLens     \* the values an admin may give max_len

ASSUME IdsAssumption == Ids \subseteq Nat
ASSUME MaxLensAssumption == MaxLens \subseteq Nat

VARIABLES
    pool,       \* the sorted vector
    max_len,    \* the most ids it may hold
    data_len    \* bytes allocated to the pool's account

vars == <<pool, max_len, data_len>>

-----------------------------------------------------------------------------

StrictlySorted(s) == \A i, j \in DOMAIN s : i < j => s[i] < s[j]

(* slice::binary_search of the standard library: Ok with an index of the   *)
(* element, or Err with the index that keeps the slice sorted.  Its result *)
(* on a slice that is not sorted is unspecified: any index whose content   *)
(* agrees with the answer may come back.                                   *)
Found(s, x) == {i \in DOMAIN s : s[i] = x}

InsertionPoints(s, x) ==
    {i \in 1..(Len(s) + 1) :
        StrictlySorted(s) =>
            /\ \A j \in DOMAIN s : s[j] # x
            /\ \A j \in 1..(i - 1) : s[j] < x
            /\ \A j \in i..Len(s) : s[j] > x}

(* max_serialized_len: 32 bytes for each id, 4 for the length, 4 for max_len. *)
MaxSerializedLen(n) == 32 * n + 8

(* Fault: the capacity test one slot late. *)
IsFullOneLate == Len(pool) = max_len + 1

IsFull == Len(pool) = max_len

-----------------------------------------------------------------------------

(* AuctionPool::new, written into an account of just that capacity. *)
Init ==
    /\ pool = <<>>
    /\ max_len \in MaxLens
    /\ data_len = MaxSerializedLen(max_len)

(* A full pool and a duplicate id are errors and change nothing. *)
TryInsertSorted(id) ==
    /\ ~IsFull
    /\ \E i \in InsertionPoints(pool, id) : pool' = InsertAt(pool, i, id)
    /\ UNCHANGED <<max_len, data_len>>

(* Fault: Vec::swap_remove in the place of Vec::remove. *)
SwapRemoveId(id) ==
    /\ \E i \in Found(pool, id) :
           pool' = Front(ReplaceAt(pool, i, Last(pool)))
    /\ UNCHANGED <<max_len, data_len>>

(* Fault: the slot is zeroed, as in an array of fixed length. *)
ZeroId(id) ==
    /\ \E i \in Found(pool, id) : pool' = ReplaceAt(pool, i, 0)
    /\ UNCHANGED <<max_len, data_len>>

(* An absent id leaves the vector alone (a stuttering step here). *)
RemoveId(id) ==
    /\ \E i \in Found(pool, id) : pool' = RemoveAt(pool, i)
    /\ UNCHANGED <<max_len, data_len>>

(* Fault: the account is left at its old size. *)
ReallocateMaxLenOnly(new) ==
    /\ new >= max_len
    /\ max_len' = new
    /\ UNCHANGED <<pool, data_len>>

(* reallocate_pool: shrinking is refused, and the account grows with max_len. *)
ReallocatePool(new) ==
    /\ new >= max_len
    /\ max_len' = new
    /\ data_len' = MaxSerializedLen(new)
    /\ UNCHANGED pool

Next ==
    \/ \E id \in Ids : TryInsertSorted(id) \/ RemoveId(id)
    \/ \E new \in MaxLens : ReallocatePool(new)

Spec == Init /\ [][Next]_vars

-----------------------------------------------------------------------------
(* Properties *)

(* The variables hold what their Rust types allow. *)
TypeOK ==
    /\ pool \in Seq(Ids)
    /\ max_len \in Nat
    /\ data_len \in Nat

(* The vector stays strictly ascending.  binary_search is only specified   *)
(* on a sorted slice, so every later insertion, removal and lookup (bid's   *)
(* choice of its branch included) rests on it.                             *)
PoolSorted == StrictlySorted(pool)

(* The serialized pool, 4 + 4 + 32 bytes an id, fits the account that      *)
(* reallocate_pool sized: a write of the pool never runs out of room.      *)
PoolFitsAccount == 8 + 32 * Len(pool) <= data_len

(* The vector implements a bounded set of ids: an insertion adds its id    *)
(* and no other, removal takes out exactly its id, wherever in the vector  *)
(* it is, and no more than max_len ids are ever held.                      *)
Abstract == INSTANCE BoundedIdSet WITH ids <- ToSet(pool)
ImplementsIdSet == Abstract!Spec
=============================================================================
