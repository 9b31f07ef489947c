------------------------- MODULE AuctionPoolProofs -------------------------
(***************************************************************************)
(* Proofs about the pool vector: it stays sorted, it fits its account, and *)
(* it implements the bounded set of ids that the other modules take a pool *)
(* for.  The insertion and the removal at an index, whatever binary search *)
(* answers, are described element by element first.                        *)
(***************************************************************************)
EXTENDS AuctionPool, SequenceTheorems, FiniteSetTheorems, TLAPS

-----------------------------------------------------------------------------
(* Inserting and removing at an index *)

LEMMA InsertAtProperties ==
    ASSUME NEW S, NEW s \in Seq(S), NEW i \in 1..(Len(s) + 1), NEW e \in S
    PROVE  /\ InsertAt(s, i, e) \in Seq(S)
           /\ Len(InsertAt(s, i, e)) = Len(s) + 1
           /\ \A j \in 1..(Len(s) + 1) :
                  InsertAt(s, i, e)[j] = IF j < i THEN s[j] ELSE IF j = i THEN e ELSE s[j - 1]
<1> DEFINE front == SubSeq(s, 1, i - 1)
           back == SubSeq(s, i, Len(s))
<1>0. Len(s) \in Nat /\ i \in Nat /\ i >= 1 /\ i <= Len(s) + 1 /\ \A j \in 1..Len(s) : s[j] \in S
  BY LenProperties, ElementOfSeq
<1>1. front \in Seq(S) /\ Len(front) = i - 1 /\ \A j \in 1..(i - 1) : front[j] = s[j]
  <2>1. \A j \in 1..(i - 1) : s[j] \in S
    BY <1>0
  <2>2. /\ front \in Seq(S)
        /\ Len(front) = IF 1 <= i - 1 THEN (i - 1) - 1 + 1 ELSE 0
        /\ \A j \in 1..((i - 1) - 1 + 1) : front[j] = s[1 + j - 1]
    BY <1>0, <2>1, SubSeqProperties
  <2> HIDE DEF front
  <2>3. Len(front) = i - 1
    BY <1>0, <2>2
  <2>4. ASSUME NEW j \in 1..(i - 1) PROVE front[j] = s[j]
    <3>1. j \in 1..((i - 1) - 1 + 1) /\ 1 + j - 1 = j
      BY <1>0
    <3> QED
      BY <2>2, <3>1
  <2> QED
    BY <2>2, <2>3, <2>4
<1>2. /\ back \in Seq(S)
      /\ Len(back) = Len(s) - i + 1
      /\ \A j \in 1..(Len(s) - i + 1) : back[j] = s[i + j - 1]
  <2>1. \A j \in i..Len(s) : s[j] \in S
    BY <1>0
  <2>2. /\ back \in Seq(S)
        /\ Len(back) = IF i <= Len(s) THEN Len(s) - i + 1 ELSE 0
        /\ \A j \in 1..(Len(s) - i + 1) : back[j] = s[i + j - 1]
    BY <1>0, <2>1, SubSeqProperties
  <2> HIDE DEF back
  <2> QED
    BY <1>0, <2>2
<1>3. <<e>> \in Seq(S) /\ Len(<<e>>) = 1 /\ <<e>>[1] = e
  OBVIOUS
<1>4. InsertAt(s, i, e) = (front \o <<e>>) \o back
  BY DEF InsertAt
<1> HIDE DEF front, back
<1> DEFINE most == front \o <<e>>
<1>5. /\ most \in Seq(S)
      /\ Len(most) = i
      /\ \A j \in 1..i : most[j] = IF j <= i - 1 THEN s[j] ELSE e
  <2>1. /\ most \in Seq(S)
        /\ Len(most) = Len(front) + 1
        /\ \A j \in 1..(Len(front) + 1) : most[j] =
              IF j <= Len(front) THEN front[j] ELSE <<e>>[j - Len(front)]
    BY <1>1, <1>3, ConcatProperties
  <2> HIDE DEF most
  <2>2. ASSUME NEW j \in 1..i PROVE most[j] = IF j <= i - 1 THEN s[j] ELSE e
    <3>1. j \in 1..(Len(front) + 1)
      BY <1>0, <1>1
    <3>2. CASE j <= i - 1
      BY <1>0, <1>1, <2>1, <3>1, <3>2
    <3>3. CASE j = i
      <4>1. most[j] = <<e>>[j - Len(front)] /\ j - Len(front) = 1
        BY <1>0, <1>1, <2>1, <3>1, <3>3
      <4> QED
        BY <1>0, <1>3, <3>3, <4>1
    <3> QED
      BY <1>0, <3>2, <3>3
  <2> QED
    BY <1>0, <1>1, <2>1, <2>2
<1> HIDE DEF most
<1>6. /\ most \o back \in Seq(S)
      /\ Len(most \o back) = Len(most) + Len(back)
      /\ \A j \in 1..(Len(most) + Len(back)) : (most \o back)[j] =
             IF j <= Len(most) THEN most[j] ELSE back[j - Len(most)]
  BY <1>2, <1>5, ConcatProperties
<1>7. InsertAt(s, i, e) = most \o back
  BY <1>4 DEF most
<1>8. ASSUME NEW j \in 1..(Len(s) + 1)
      PROVE  (most \o back)[j] = IF j < i THEN s[j] ELSE IF j = i THEN e ELSE s[j - 1]
  <2>1. (most \o back)[j] = IF j <= i THEN most[j] ELSE back[j - i]
    BY <1>0, <1>2, <1>5, <1>6
  <2>2. CASE j <= i
    BY <1>0, <1>5, <2>1, <2>2
  <2>3. CASE j > i
    <3>1. j - i \in 1..(Len(s) - i + 1) /\ i + (j - i) - 1 = j - 1
      BY <1>0, <2>3
    <3> QED
      BY SMTT(30), <1>0, <1>2, <2>1, <2>3, <3>1
  <2>4. j <= i \/ j > i
    BY <1>0
  <2> QED
    BY <2>2, <2>3, <2>4
<1> QED
  BY <1>0, <1>2, <1>5, <1>6, <1>7, <1>8

LEMMA RemoveAtProperties ==
    ASSUME NEW S, NEW s \in Seq(S), NEW i \in 1..Len(s)
    PROVE  /\ RemoveAt(s, i) \in Seq(S)
           /\ Len(RemoveAt(s, i)) = Len(s) - 1
           /\ \A j \in 1..(Len(s) - 1) :
                  RemoveAt(s, i)[j] = IF j < i THEN s[j] ELSE s[j + 1]
<1> DEFINE front == SubSeq(s, 1, i - 1)
           back == SubSeq(s, i + 1, Len(s))
<1>0. Len(s) \in Nat /\ i \in Nat /\ i >= 1 /\ i <= Len(s) /\ \A j \in 1..Len(s) : s[j] \in S
  BY LenProperties, ElementOfSeq
<1>1. front \in Seq(S) /\ Len(front) = i - 1 /\ \A j \in 1..(i - 1) : front[j] = s[j]
  <2>1. \A j \in 1..(i - 1) : s[j] \in S
    BY <1>0
  <2>2. /\ front \in Seq(S)
        /\ Len(front) = IF 1 <= i - 1 THEN (i - 1) - 1 + 1 ELSE 0
        /\ \A j \in 1..((i - 1) - 1 + 1) : front[j] = s[1 + j - 1]
    BY <1>0, <2>1, SubSeqProperties
  <2> HIDE DEF front
  <2>3. Len(front) = i - 1
    BY <1>0, <2>2
  <2>4. ASSUME NEW j \in 1..(i - 1) PROVE front[j] = s[j]
    <3>1. j \in 1..((i - 1) - 1 + 1) /\ 1 + j - 1 = j
      BY <1>0
    <3> QED
      BY <2>2, <3>1
  <2> QED
    BY <2>2, <2>3, <2>4
<1>2. /\ back \in Seq(S)
      /\ Len(back) = Len(s) - i
      /\ \A j \in 1..(Len(s) - i) : back[j] = s[i + j]
  <2>1. \A j \in (i + 1)..Len(s) : s[j] \in S
    BY <1>0
  <2>2. /\ back \in Seq(S)
        /\ Len(back) = IF i + 1 <= Len(s) THEN Len(s) - (i + 1) + 1 ELSE 0
        /\ \A j \in 1..(Len(s) - (i + 1) + 1) : back[j] = s[(i + 1) + j - 1]
    BY <1>0, <2>1, SubSeqProperties
  <2> HIDE DEF back
  <2> QED
    BY <1>0, <2>2
<1>3. RemoveAt(s, i) = front \o back
  BY DEF RemoveAt
<1> HIDE DEF front, back
<1>4. /\ front \o back \in Seq(S)
      /\ Len(front \o back) = Len(front) + Len(back)
      /\ \A j \in 1..(Len(front) + Len(back)) : (front \o back)[j] =
             IF j <= Len(front) THEN front[j] ELSE back[j - Len(front)]
  BY <1>1, <1>2, ConcatProperties
<1>5. ASSUME NEW j \in 1..(Len(s) - 1)
      PROVE  (front \o back)[j] = IF j < i THEN s[j] ELSE s[j + 1]
  <2>1. (front \o back)[j] = IF j <= i - 1 THEN front[j] ELSE back[j - (i - 1)]
    BY <1>0, <1>1, <1>2, <1>4
  <2>2. CASE j < i
    BY <1>0, <1>1, <2>1, <2>2
  <2>3. CASE j >= i
    <3>1. j - (i - 1) \in 1..(Len(s) - i) /\ i + (j - (i - 1)) = j + 1
      BY <1>0, <2>3
    <3> QED
      BY SMTT(30), <1>0, <1>2, <2>1, <2>3, <3>1
  <2>4. j < i \/ j >= i
    BY <1>0
  <2> QED
    BY <2>2, <2>3, <2>4
<1> QED
  BY <1>0, <1>1, <1>2, <1>3, <1>4, <1>5

-----------------------------------------------------------------------------
(* Sorted vectors *)

(* Wherever binary search may put an id into a sorted vector, the vector   *)
(* has one id more afterwards, none twice, and is sorted again.            *)
LEMMA InsertSorted ==
    ASSUME NEW s \in Seq(Nat), StrictlySorted(s), NEW x \in Nat, NEW i \in InsertionPoints(s, x)
    PROVE  /\ StrictlySorted(InsertAt(s, i, x))
           /\ ToSet(InsertAt(s, i, x)) = ToSet(s) \cup {x}
           /\ x \notin ToSet(s)
<1> DEFINE t == InsertAt(s, i, x)
<1>1. /\ i \in 1..(Len(s) + 1)
      /\ \A j \in 1..Len(s) : s[j] # x
      /\ \A j \in 1..(i - 1) : s[j] < x
      /\ \A j \in i..Len(s) : s[j] > x
  BY LenProperties DEF InsertionPoints
<1>2. /\ Len(s) \in Nat /\ i \in Nat /\ i >= 1 /\ i <= Len(s) + 1
      /\ DOMAIN s = 1..Len(s)
      /\ \A j \in 1..Len(s) : s[j] \in Nat
  BY <1>1, LenProperties, ElementOfSeq
<1>3. /\ t \in Seq(Nat)
      /\ Len(t) = Len(s) + 1
      /\ \A j \in 1..(Len(s) + 1) :
             t[j] = IF j < i THEN s[j] ELSE IF j = i THEN x ELSE s[j - 1]
  BY <1>1, InsertAtProperties
<1>4. DOMAIN t = 1..(Len(s) + 1)
  BY <1>3, LenProperties
<1> HIDE DEF t
<1>5. ASSUME NEW j \in 1..(Len(s) + 1), NEW k \in 1..(Len(s) + 1), j < k
      PROVE  t[j] < t[k]
  <2>1. CASE k < i
    <3>1. j \in DOMAIN s /\ k \in DOMAIN s /\ t[j] = s[j] /\ t[k] = s[k]
      BY <1>2, <1>3, <1>5, <2>1
    <3> QED
      BY <1>5, <3>1 DEF StrictlySorted
  <2>2. CASE k = i
    BY <1>1, <1>2, <1>3, <1>5, <2>2
  <2>3. CASE j < i /\ i < k
    <3>1. s[j] < x /\ s[k - 1] > x /\ s[j] \in Nat /\ s[k - 1] \in Nat
      BY <1>1, <1>2, <1>5, <2>3
    <3> QED
      BY <1>2, <1>3, <2>3, <3>1
  <2>4. CASE j = i
    <3>1. s[k - 1] > x /\ s[k - 1] \in Nat
      BY <1>1, <1>2, <1>5, <2>4
    <3> QED
      BY <1>2, <1>3, <1>5, <2>4, <3>1
  <2>5. CASE i < j
    <3>1. j - 1 \in 1..Len(s) /\ k - 1 \in 1..Len(s) /\ j - 1 < k - 1
      BY <1>2, <1>5, <2>5
    <3>2. s[j - 1] < s[k - 1]
      BY <1>2, <3>1 DEF StrictlySorted
    <3> QED
      BY <1>2, <1>3, <1>5, <2>5, <3>2
  <2>6. k < i \/ k = i \/ (j < i /\ i < k) \/ j = i \/ i < j
    BY <1>2
  <2> QED
    BY <2>1, <2>2, <2>3, <2>4, <2>5, <2>6
<1>6. ToSet(t) \subseteq ToSet(s) \cup {x}
  <2> SUFFICES ASSUME NEW j \in 1..(Len(s) + 1) PROVE t[j] \in ToSet(s) \cup {x}
    BY <1>4 DEF ToSet
  <2>1. CASE j < i
    BY SMTT(30), <1>2, <1>3, <2>1 DEF ToSet
  <2>2. CASE j = i
    BY <1>2, <1>3, <2>2
  <2>3. CASE j > i
    <3>1. j - 1 \in DOMAIN s /\ t[j] = s[j - 1]
      BY <1>2, <1>3, <2>3
    <3> QED
      BY <3>1 DEF ToSet
  <2>4. j < i \/ j = i \/ j > i
    BY <1>2
  <2> QED
    BY <2>1, <2>2, <2>3, <2>4
<1>7. ToSet(s) \cup {x} \subseteq ToSet(t)
  <2>1. x \in ToSet(t)
    <3>1. i \in DOMAIN t /\ t[i] = x
      BY <1>1, <1>2, <1>3, <1>4
    <3> QED
      BY <3>1 DEF ToSet
  <2>2. ASSUME NEW j \in DOMAIN s PROVE s[j] \in ToSet(t)
    <3>1. CASE j < i
      <4>1. j \in DOMAIN t /\ t[j] = s[j]
        BY <1>2, <1>3, <1>4, <3>1
      <4> QED
        BY <4>1 DEF ToSet
    <3>2. CASE j >= i
      <4>1. j + 1 \in DOMAIN t /\ ~(j + 1 < i) /\ j + 1 # i /\ (j + 1) - 1 = j
        BY <1>2, <1>4, <3>2
      <4>2. t[j + 1] = s[j]
        BY <1>3, <1>4, <4>1
      <4> QED
        BY <4>1, <4>2 DEF ToSet
    <3>3. j < i \/ j >= i
      BY <1>2
    <3> QED
      BY <3>1, <3>2, <3>3
  <2> QED
    BY <2>1, <2>2 DEF ToSet
<1>8. x \notin ToSet(s)
  BY <1>1, <1>2 DEF ToSet
<1>9. StrictlySorted(t)
  BY <1>4, <1>5 DEF StrictlySorted
<1> QED
  BY <1>6, <1>7, <1>8, <1>9 DEF t

(* Removing an id from a sorted vector leaves the others, in order. *)
LEMMA RemoveSorted ==
    ASSUME NEW s \in Seq(Nat), StrictlySorted(s), NEW x, NEW i \in Found(s, x)
    PROVE  /\ StrictlySorted(RemoveAt(s, i))
           /\ ToSet(RemoveAt(s, i)) = ToSet(s) \ {x}
<1> DEFINE t == RemoveAt(s, i)
<1>2. /\ Len(s) \in Nat /\ i \in Nat /\ i >= 1 /\ i <= Len(s) /\ i \in 1..Len(s)
      /\ DOMAIN s = 1..Len(s)
      /\ \A j \in 1..Len(s) : s[j] \in Nat
      /\ s[i] = x
  BY LenProperties, ElementOfSeq DEF Found
<1>3. /\ t \in Seq(Nat)
      /\ Len(t) = Len(s) - 1
      /\ \A j \in 1..(Len(s) - 1) : t[j] = IF j < i THEN s[j] ELSE s[j + 1]
  BY <1>2, RemoveAtProperties
<1>4. DOMAIN t = 1..(Len(s) - 1)
  BY <1>3, LenProperties
<1> HIDE DEF t
(* Where the element at j of the shorter vector came from. *)
<1> DEFINE from(j) == IF j < i THEN j ELSE j + 1
<1>5. \A j \in 1..(Len(s) - 1) : from(j) \in 1..Len(s) /\ from(j) # i /\ t[j] = s[from(j)]
  BY SMTT(30), <1>2, <1>3
<1>6. \A j, k \in 1..(Len(s) - 1) : j < k => from(j) < from(k)
  BY <1>2
<1>7. \A j \in 1..Len(s) : j # i => \E k \in 1..(Len(s) - 1) : from(k) = j
  <2> SUFFICES ASSUME NEW j \in 1..Len(s), j # i
               PROVE  \E k \in 1..(Len(s) - 1) : from(k) = j
    OBVIOUS
  <2>1. CASE j < i
    <3>1. j \in 1..(Len(s) - 1) /\ from(j) = j
      BY <1>2, <2>1
    <3> QED
      BY <3>1
  <2>2. CASE j > i
    <3>1. j - 1 \in 1..(Len(s) - 1) /\ from(j - 1) = j
      BY <1>2, <2>2
    <3> QED
      BY <3>1
  <2> QED
    BY <1>2, <2>1, <2>2
<1> HIDE DEF from
<1>8. StrictlySorted(t)
  BY <1>2, <1>4, <1>5, <1>6 DEF StrictlySorted
<1>9. \A j, k \in 1..Len(s) : j # k => s[j] # s[k]
  <2> SUFFICES ASSUME NEW j \in 1..Len(s), NEW k \in 1..Len(s), j # k PROVE s[j] # s[k]
    OBVIOUS
  <2>1. j < k \/ k < j
    BY <1>2
  <2>2. s[j] < s[k] \/ s[k] < s[j]
    BY <1>2, <2>1 DEF StrictlySorted
  <2> QED
    BY <1>2, <2>2
<1>10. ToSet(t) \subseteq ToSet(s) \ {x}
  BY ZenonT(30), <1>2, <1>4, <1>5, <1>9 DEF ToSet
<1>11. ToSet(s) \ {x} \subseteq ToSet(t)
  <2> SUFFICES ASSUME NEW j \in 1..Len(s), s[j] # x PROVE s[j] \in ToSet(t)
    BY <1>2 DEF ToSet
  <2>1. PICK k \in 1..(Len(s) - 1) : from(k) = j
    BY <1>2, <1>7
  <2> QED
    BY <1>4, <1>5, <2>1 DEF ToSet
<1> QED
  BY <1>8, <1>10, <1>11 DEF t

(* A sorted vector has as many ids as it has slots. *)
LEMMA SortedCardinality ==
    ASSUME NEW s \in Seq(Nat), StrictlySorted(s)
    PROVE  IsFiniteSet(ToSet(s)) /\ Cardinality(ToSet(s)) = Len(s)
<1>1. Len(s) \in Nat /\ DOMAIN s = 1..Len(s) /\ s \in [1..Len(s) -> Nat]
  BY LenProperties
<1>2. s \in [1..Len(s) -> ToSet(s)]
  <2>1. \A j \in 1..Len(s) : s[j] \in ToSet(s)
    BY <1>1 DEF ToSet
  <2> QED
    BY <1>1, <2>1
<1>3. \A j, k \in 1..Len(s) : s[j] = s[k] => j = k
  <2> SUFFICES ASSUME NEW j \in 1..Len(s), NEW k \in 1..Len(s), j # k PROVE s[j] # s[k]
    OBVIOUS
  <2>1. j < k \/ k < j
    BY <1>1
  <2>2. s[j] < s[k] \/ s[k] < s[j]
    BY <1>1, <2>1 DEF StrictlySorted
  <2> QED
    BY <1>1, <2>2
<1>4. s \in Bijection(1..Len(s), ToSet(s))
  BY <1>1, <1>2, <1>3 DEF Bijection, Injection, IsInjective, Surjection, ToSet
<1>5. ExistsBijection(1..Len(s), ToSet(s))
  BY <1>4 DEF ExistsBijection
<1> QED
  <2>1. IsFiniteSet(1..Len(s)) /\ Cardinality(1..Len(s)) = Len(s)
    <3>1. /\ IsFiniteSet(1..Len(s))
          /\ Cardinality(1..Len(s)) = IF 1 > Len(s) THEN 0 ELSE Len(s) - 1 + 1
      BY <1>1, FS_Interval
    <3> QED
      BY <1>1, <3>1
  <2> QED
    BY <1>5, <2>1, FS_Bijection

-----------------------------------------------------------------------------
(* The invariant *)

(* What no theorem below needs by itself, but all of them together: the    *)
(* account has room for max_len ids, and the vector for no more.           *)
Room == data_len = MaxSerializedLen(max_len) /\ Len(pool) <= max_len

Inv == TypeOK /\ PoolSorted /\ Room

LEMMA SequenceOfNaturals == TypeOK => pool \in Seq(Nat)
BY IdsAssumption, SeqMonotonic DEF TypeOK

LEMMA TryInsertSortedStep ==
    ASSUME Inv, NEW id \in Ids, TryInsertSorted(id)
    PROVE  /\ Inv'
           /\ ToSet(pool)' = ToSet(pool) \cup {id}
           /\ id \notin ToSet(pool)
<1>1. PICK i \in InsertionPoints(pool, id) : pool' = InsertAt(pool, i, id)
  BY DEF TryInsertSorted
<1>2. pool \in Seq(Nat) /\ id \in Nat /\ StrictlySorted(pool) /\ i \in 1..(Len(pool) + 1)
  BY SequenceOfNaturals, IdsAssumption DEF Inv, PoolSorted, InsertionPoints
<1>3. pool' \in Seq(Ids) /\ Len(pool') = Len(pool) + 1
  BY <1>1, <1>2, InsertAtProperties DEF Inv, TypeOK
<1>4. /\ StrictlySorted(InsertAt(pool, i, id))
      /\ ToSet(InsertAt(pool, i, id)) = ToSet(pool) \cup {id}
      /\ id \notin ToSet(pool)
  BY <1>2, InsertSorted
<1>5. Room'
  <2>1. Len(pool) \in Nat /\ max_len \in Nat /\ Len(pool) # max_len
    BY <1>2, LenProperties DEF Inv, TypeOK, TryInsertSorted, IsFull
  <2>2. Len(pool') <= max_len
    BY <1>3, <2>1 DEF Inv, Room
  <2> QED
    BY <2>2 DEF Inv, Room, TryInsertSorted, MaxSerializedLen
<1>6. TypeOK' /\ PoolSorted' /\ ToSet(pool)' = ToSet(pool')
  BY <1>1, <1>3, <1>4 DEF Inv, TypeOK, PoolSorted, TryInsertSorted, StrictlySorted, ToSet
<1> QED
  BY <1>1, <1>4, <1>5, <1>6 DEF Inv

LEMMA RemoveIdStep ==
    ASSUME Inv, NEW id \in Ids, RemoveId(id)
    PROVE  Inv' /\ ToSet(pool)' = ToSet(pool) \ {id}
<1>1. PICK i \in Found(pool, id) : pool' = RemoveAt(pool, i)
  BY DEF RemoveId
<1>2. pool \in Seq(Nat) /\ StrictlySorted(pool) /\ i \in 1..Len(pool)
  BY SequenceOfNaturals, LenProperties DEF Inv, PoolSorted, Found
<1>3. pool' \in Seq(Ids) /\ Len(pool') = Len(pool) - 1
  BY <1>1, <1>2, RemoveAtProperties DEF Inv, TypeOK
<1>4. StrictlySorted(RemoveAt(pool, i)) /\ ToSet(RemoveAt(pool, i)) = ToSet(pool) \ {id}
  BY <1>2, RemoveSorted
<1>5. Room'
  <2>1. Len(pool) \in Nat /\ max_len \in Nat
    BY <1>2, LenProperties DEF Inv, TypeOK
  <2>2. Len(pool') <= max_len
    BY <1>3, <2>1 DEF Inv, Room
  <2> QED
    BY <2>2 DEF Inv, Room, RemoveId, MaxSerializedLen
<1>6. TypeOK' /\ PoolSorted' /\ ToSet(pool)' = ToSet(pool')
  BY <1>1, <1>3, <1>4 DEF Inv, TypeOK, PoolSorted, RemoveId, StrictlySorted, ToSet
<1> QED
  BY <1>1, <1>4, <1>5, <1>6 DEF Inv

LEMMA ReallocatePoolStep ==
    ASSUME Inv, NEW new \in MaxLens, ReallocatePool(new)
    PROVE  Inv' /\ ToSet(pool)' = ToSet(pool)
<1>1. pool' = pool /\ max_len' = new /\ data_len' = MaxSerializedLen(new)
      /\ new \in Nat /\ new >= max_len
  BY MaxLensAssumption DEF ReallocatePool
<1>2. Len(pool) \in Nat /\ max_len \in Nat /\ Len(pool) <= max_len
  BY LenProperties DEF Inv, TypeOK, Room
<1>3. Room'
  BY <1>1, <1>2 DEF Room, MaxSerializedLen
<1>4. TypeOK' /\ PoolSorted'
  BY <1>1 DEF Inv, TypeOK, PoolSorted, StrictlySorted, MaxSerializedLen
<1> QED
  BY <1>1, <1>3, <1>4 DEF Inv, ToSet

LEMMA InvInit == Init => Inv
<1> SUFFICES ASSUME Init PROVE Inv
  OBVIOUS
<1>1. max_len \in Nat /\ data_len = MaxSerializedLen(max_len) /\ data_len \in Nat
  BY MaxLensAssumption DEF Init, MaxSerializedLen
<1>2. pool \in Seq(Ids) /\ Len(pool) = 0 /\ DOMAIN pool = {}
  BY EmptySeq DEF Init
<1> QED
  BY <1>1, <1>2 DEF Inv, TypeOK, PoolSorted, StrictlySorted, Room

LEMMA InvStep == Inv /\ [Next]_vars => Inv'
<1> SUFFICES ASSUME Inv, [Next]_vars PROVE Inv'
  OBVIOUS
<1>1. ASSUME NEW id \in Ids, TryInsertSorted(id) PROVE Inv'
  BY <1>1, TryInsertSortedStep
<1>2. ASSUME NEW id \in Ids, RemoveId(id) PROVE Inv'
  BY <1>2, RemoveIdStep
<1>3. ASSUME NEW new \in MaxLens, ReallocatePool(new) PROVE Inv'
  BY <1>3, ReallocatePoolStep
<1>4. CASE UNCHANGED vars
  BY <1>4 DEF vars, Inv, TypeOK, PoolSorted, StrictlySorted, Room, MaxSerializedLen
<1> QED
  BY <1>1, <1>2, <1>3, <1>4 DEF Next

LEMMA InvInvariant == Spec => []Inv
BY InvInit, InvStep, PTL DEF Spec

(* The vector holds ids, and the two lengths are natural numbers. *)
THEOREM PoolTypeInvariant == Spec => []TypeOK
<1>1. Inv => TypeOK
  BY DEF Inv
<1> QED
  BY <1>1, InvInvariant, PTL

(* For any set of ids and any capacities, the vector of a pool stays       *)
(* strictly ascending, whichever index binary search answers with.         *)
THEOREM PoolSortedInvariant == Spec => []PoolSorted
<1>1. Inv => PoolSorted
  BY DEF Inv
<1> QED
  BY <1>1, InvInvariant, PTL

(* A pool never outgrows the account it is stored in.  The test for a full *)
(* pool is for equality; it suffices because the capacity never shrinks    *)
(* below the number of ids.                                                *)
THEOREM PoolFitsAccountInvariant == Spec => []PoolFitsAccount
<1>1. Inv => PoolFitsAccount
  <2> SUFFICES ASSUME Inv PROVE PoolFitsAccount
    OBVIOUS
  <2>1. Len(pool) \in Nat /\ max_len \in Nat
    BY LenProperties DEF Inv, TypeOK
  <2> QED
    BY <2>1 DEF Inv, Room, PoolFitsAccount, MaxSerializedLen
<1> QED
  BY <1>1, InvInvariant, PTL

-----------------------------------------------------------------------------
(* The pool as a set of ids *)

(* The cardinality that the abstract module counts with is that of this one. *)
LEMMA SameCardinality == ASSUME NEW S PROVE Abstract!Cardinality(S) = Cardinality(S)
BY Zenon DEF Abstract!Cardinality, Cardinality

LEMMA AbstractInit == Init => Abstract!Init
BY DEF Init, Abstract!Init, ToSet

LEMMA AbstractStep == Inv /\ [Next]_vars => [Abstract!Next]_Abstract!vars
<1> SUFFICES ASSUME Inv, [Next]_vars PROVE [Abstract!Next]_Abstract!vars
  OBVIOUS
<1>1. ASSUME NEW id \in Ids, TryInsertSorted(id) PROVE Abstract!Insert(id)
  <2>1. ToSet(pool)' = ToSet(pool) \cup {id} /\ id \notin ToSet(pool)
    BY <1>1, TryInsertSortedStep
  <2>2. Cardinality(ToSet(pool)) = Len(pool)
    BY SequenceOfNaturals, SortedCardinality DEF Inv, PoolSorted
  <2> QED
    BY <1>1, <2>1, <2>2, SameCardinality DEF Abstract!Insert, Abstract!CanInsert, Abstract!IsFull, Abstract!Inserted,
                            TryInsertSorted, IsFull
<1>2. ASSUME NEW id \in Ids, RemoveId(id) PROVE Abstract!Delete(id)
  BY <1>2, RemoveIdStep DEF RemoveId, Abstract!Delete, Abstract!Removed
<1>3. ASSUME NEW new \in MaxLens, ReallocatePool(new) PROVE Abstract!Grow(new)
  BY <1>3, ReallocatePoolStep DEF ReallocatePool, Abstract!Grow
<1>4. CASE UNCHANGED vars
  BY <1>4 DEF vars, Abstract!vars, ToSet
<1> QED
  BY <1>1, <1>2, <1>3, <1>4 DEF Next, Abstract!Next

(* For any set of ids and any capacities, the sorted vector implements the *)
(* bounded set of ids: every insertion, removal and reallocation is one of *)
(* the set, and the vector is full exactly when the set is.                *)
THEOREM PoolImplementsIdSet == Spec => ImplementsIdSet
<1>1. Init => Abstract!Init
  BY AbstractInit
<1>2. Inv /\ [Next]_vars => [Abstract!Next]_Abstract!vars
  BY AbstractStep
<1> QED
  BY <1>1, <1>2, InvInvariant, PTL DEF Spec, ImplementsIdSet, Abstract!Spec
=============================================================================
