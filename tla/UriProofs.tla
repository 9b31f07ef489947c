------------------------------- MODULE UriProofs -------------------------------
(***************************************************************************)
(* Proofs about the number in the URIs of an auction: the conversions of   *)
(* numbers undo each other, the search finds the number wherever the       *)
(* directory has slashes, dots and digits of its own, and so the URIs show *)
(* what they should, and nothing but their length stops an auction.        *)
(***************************************************************************)
EXTENDS UriNumber, SequenceTheorems, WellFoundedInduction, TLAPS

-----------------------------------------------------------------------------
(* Induction, for a property given as a set *)

LEMMA StrongInductionOnSet ==
    ASSUME NEW T, \A n \in Nat : (\A m \in 0..(n - 1) : m \in T) => n \in T
    PROVE  Nat \subseteq T
<1> SUFFICES ASSUME Nat \ T # {} PROVE FALSE
  OBVIOUS
<1>1. PICK n \in Nat \ T : \A m \in Nat \ T : ~(<<m, n>> \in OpToRel(<, Nat))
  BY NatLessThanWellFounded, WFMin
<1>2. ASSUME NEW m \in 0..(n - 1) PROVE m \in T
  <2>1. n \in Nat /\ m \in Nat /\ m < n
    OBVIOUS
  <2>2. <<m, n>> \in OpToRel(<, Nat)
    BY <2>1 DEF OpToRel
  <2> QED
    BY <1>1, <2>1, <2>2, Zenon
<1> QED
  BY <1>1, <1>2

LEMMA InductionOnSet ==
    ASSUME NEW T, 0 \in T, \A n \in Nat : n \in T => n + 1 \in T
    PROVE  Nat \subseteq T
<1>1. ASSUME NEW n \in Nat, \A m \in 0..(n - 1) : m \in T PROVE n \in T
  <2>1. CASE n = 0
    BY <2>1
  <2>2. CASE n # 0
    <3>1. n - 1 \in Nat /\ n - 1 \in 0..(n - 1) /\ (n - 1) + 1 = n
      BY <2>2
    <3> QED
      BY <1>1, <3>1
  <2> QED
    BY <2>1, <2>2
<1> QED
  BY <1>1, StrongInductionOnSet

(* A function defined step by step exists: step[v, i] is its value at i    *)
(* when it is v at i - 1.                                                  *)
Stepwise(f, base, step, last) ==
    \A i \in 0..last : f[i] = IF i = 0 THEN base ELSE step[<<f[i - 1], i>>]

LEMMA StepwiseFunction ==
    ASSUME NEW V, NEW base \in V, NEW last \in Nat, NEW step \in [V \X (1..last) -> V]
    PROVE  \E f \in [0..last -> V] : Stepwise(f, base, step, last)
<1> DEFINE right(f, n) ==
               \A i \in 0..last : i <= n =>
                   f[i] = IF i = 0 THEN base ELSE step[<<f[i - 1], i>>]
           T == {n \in Nat : \E f \in [0..last -> V] : right(f, n)}
<1>1. 0 \in T
  <2> DEFINE first == [i \in 0..last |-> base]
  <2>1. first \in [0..last -> V] /\ right(first, 0)
    OBVIOUS
  <2> HIDE DEF first, right
  <2> QED
    BY <2>1
<1>2. ASSUME NEW n \in Nat, n \in T PROVE n + 1 \in T
  <2>1. PICK f \in [0..last -> V] : right(f, n)
    BY <1>2
  <2> DEFINE next == [i \in 0..last |-> IF i = 0 THEN base ELSE step[<<f[i - 1], i>>]]
  <2>2. next \in [0..last -> V]
    <3>1. ASSUME NEW i \in 0..last, i # 0 PROVE step[<<f[i - 1], i>>] \in V
      <4>1. f[i - 1] \in V /\ i \in 1..last
        BY <3>1
      <4> QED
        BY <4>1
    <3> QED
      BY <3>1
  <2>3. ASSUME NEW i \in 0..last, i <= n + 1
        PROVE  next[i] = IF i = 0 THEN base ELSE step[<<next[i - 1], i>>]
    <3>1. CASE i = 0
      BY <3>1
    <3>2. CASE i # 0
      <4>1. i - 1 \in 0..last /\ i - 1 <= n
        BY <2>3, <3>2
      <4>2. next[i - 1] = f[i - 1]
        BY <2>1, <4>1
      <4> QED
        BY <3>2, <4>2
    <3> QED
      BY <3>1, <3>2
  <2>4. right(next, n + 1)
    BY <2>3
  <2> HIDE DEF next, right
  <2> QED
    BY <2>2, <2>4
<1>3. last \in T
  <2> HIDE DEF T
  <2> QED
    BY <1>1, <1>2, InductionOnSet
<1>4. PICK f \in [0..last -> V] : right(f, last)
  BY <1>3
<1> QED
  BY <1>4 DEF Stepwise

-----------------------------------------------------------------------------
(* The least and the greatest element *)

LEMMA MinOf ==
    ASSUME NEW S \in SUBSET Int, NEW m \in S, \A x \in S : m <= x
    PROVE  Min(S) = m
<1>1. \A x \in S : (\A y \in S : x <= y) => x = m
  OBVIOUS
<1> QED
  BY <1>1 DEF Min

LEMMA MaxOf ==
    ASSUME NEW S \in SUBSET Int, NEW m \in S, \A x \in S : x <= m
    PROVE  Max(S) = m
<1>1. \A x \in S : (\A y \in S : x >= y) => x = m
  OBVIOUS
<1> QED
  BY <1>1 DEF Max

-----------------------------------------------------------------------------
(* Digits *)

Digits == {Digit(n) : n \in 0..9}

(* The bytes of a URI.  (The provers do not know that a literal is a       *)
(* STRING.)                                                                *)
Bytes == STRING \cup Digits \cup {"/", ".", "j", "s", "o", "n", ZERO}

LEMMA DigitFacts ==
    ASSUME NEW n \in 0..9
    PROVE  /\ Digit(n) \in Digits /\ Digit(n) \in Bytes
           /\ Digit(n) \notin {ZERO, "/", ".", "+"}
           /\ IsDigit(Digit(n))
           /\ DigitValue(Digit(n)) = n
<1>1. DOMAIN DigitBytes = 1..10
  BY DEF DigitBytes
<1>2. n + 1 \in 1..10
  OBVIOUS
<1>3. \A i \in 1..10 : DigitBytes[i] \notin {ZERO, "/", ".", "+"}
  BY DEF DigitBytes, ZERO
<1>4. IsDigit(Digit(n))
  BY <1>1, <1>2 DEF IsDigit, Digit
<1>5. \A i \in 1..10 : DigitBytes[i] = Digit(n) => i = n + 1
  BY DEF Digit, DigitBytes
<1>6. DigitValue(Digit(n)) = n
  BY <1>1, <1>2, <1>5 DEF DigitValue, Digit
<1> QED
  BY <1>2, <1>3, <1>4, <1>6 DEF Digit, Digits, Bytes

-----------------------------------------------------------------------------
(* What u64::from_str computes *)

(* The function by which Value is defined. *)
IsValueOf(text, value) ==
    value = [i \in 0..Len(text) |->
                IF i = 0 THEN 0 ELSE value[i - 1] * 10 + DigitValue(text[i])]

LEMMA ValueAsChoice ==
    ASSUME NEW text \in Seq(Digits)
    PROVE  Value(text) = (CHOOSE value : IsValueOf(text, value))[Len(text)]
<1>1. Unsigned(text) = text
  <2>1. CASE text = <<>>
    BY <2>1 DEF Unsigned
  <2>2. CASE text # <<>>
    <3>1. text[1] \in Digits
      BY <2>2
    <3> QED
      BY <3>1, DigitFacts DEF Unsigned, Digits
  <2> QED
    BY <2>1, <2>2
<1> QED
  BY <1>1, Zenon DEF Value, IsValueOf

LEMMA ValueExists ==
    ASSUME NEW text \in Seq(Digits)
    PROVE  \E value \in [0..Len(text) -> Nat] : IsValueOf(text, value)
<1> DEFINE step == [x \in Nat \X (1..Len(text)) |-> x[1] * 10 + DigitValue(text[x[2]])]
<1>1. Len(text) \in Nat /\ \A i \in 1..Len(text) : DigitValue(text[i]) \in Nat
  <2>1. \A i \in 1..Len(text) : text[i] \in Digits
    BY ElementOfSeq
  <2> QED
    BY <2>1, LenProperties, DigitFacts DEF Digits
<1>2. step \in [Nat \X (1..Len(text)) -> Nat]
  BY <1>1
<1>3. PICK f \in [0..Len(text) -> Nat] : Stepwise(f, 0, step, Len(text))
  <2>1. 0 \in Nat /\ Len(text) \in Nat
    BY <1>1
  <2> HIDE DEF step
  <2> QED
    BY <1>2, <2>1, StepwiseFunction
<1>4. ASSUME NEW i \in 0..Len(text), i # 0
      PROVE  f[i] = f[i - 1] * 10 + DigitValue(text[i])
  <2>1. i - 1 \in 0..Len(text) /\ i \in 1..Len(text)
    BY <1>1, <1>4
  <2>2. f[i - 1] \in Nat
    BY <1>3, <2>1
  <2>3. f[i] = step[<<f[i - 1], i>>]
    BY <1>3, <1>4, Zenon DEF Stepwise
  <2> QED
    BY <2>1, <2>2, <2>3
<1>5. f[0] = 0
  BY <1>1, <1>3 DEF Stepwise
<1>6. IsValueOf(text, f)
  BY <1>4, <1>5 DEF IsValueOf
<1> QED
  BY <1>6

(* Reading one digit more. *)
LEMMA ValueOfAppend ==
    ASSUME NEW text \in Seq(Digits), NEW n \in 0..9
    PROVE  /\ Value(text) \in Nat
           /\ Value(Append(text, Digit(n))) = Value(text) * 10 + n
<1> DEFINE longer == Append(text, Digit(n))
           v == CHOOSE value : IsValueOf(text, value)
           w == CHOOSE value : IsValueOf(longer, value)
<1>1. longer \in Seq(Digits) /\ Len(text) \in Nat /\ Len(longer) = Len(text) + 1
      /\ longer[Len(longer)] = Digit(n) /\ \A i \in 1..Len(text) : longer[i] = text[i]
  BY DigitFacts
<1>2. IsValueOf(text, v) /\ IsValueOf(longer, w)
  BY <1>1, ValueExists
<1> HIDE DEF v, w, longer
<1>3. \A i \in 0..Len(text) :
          v[i] = IF i = 0 THEN 0 ELSE v[i - 1] * 10 + DigitValue(text[i])
  BY <1>2, Zenon DEF IsValueOf
<1>4. \A i \in 0..Len(longer) :
          w[i] = IF i = 0 THEN 0 ELSE w[i - 1] * 10 + DigitValue(longer[i])
  BY <1>2, Zenon DEF IsValueOf
<1>5. \A i \in 1..Len(text) : DigitValue(text[i]) \in Nat
  <2>1. \A i \in 1..Len(text) : text[i] \in Digits
    BY ElementOfSeq
  <2> QED
    BY <2>1, DigitFacts DEF Digits
<1> DEFINE T == {i \in Nat : i <= Len(text) => v[i] \in Nat /\ w[i] = v[i]}
<1>6. 0 \in T
  BY <1>1, <1>3, <1>4
<1>7. ASSUME NEW i \in Nat, i \in T PROVE i + 1 \in T
  <2> SUFFICES ASSUME i + 1 <= Len(text) PROVE v[i + 1] \in Nat /\ w[i + 1] = v[i + 1]
    OBVIOUS
  <2>1. i + 1 \in 1..Len(text) /\ i + 1 \in 0..Len(text) /\ i + 1 \in 0..Len(longer)
        /\ (i + 1) - 1 = i /\ i + 1 # 0
    BY <1>1
  <2>2. v[i + 1] = v[i] * 10 + DigitValue(text[i + 1])
    BY <1>3, <2>1
  <2>3. w[i + 1] = w[i] * 10 + DigitValue(text[i + 1])
    BY <1>1, <1>4, <2>1
  <2> QED
    BY <1>1, <1>5, <1>7, <2>1, <2>2, <2>3
<1>8. Nat \subseteq T
  <2> HIDE DEF T
  <2> QED
    BY <1>6, <1>7, InductionOnSet
<1>9. v[Len(text)] \in Nat /\ w[Len(text)] = v[Len(text)]
  BY <1>1, <1>8
<1>10. w[Len(longer)] = w[Len(text)] * 10 + n
  <2>1. Len(longer) \in 0..Len(longer) /\ Len(longer) # 0 /\ Len(longer) - 1 = Len(text)
    BY <1>1
  <2> QED
    BY <1>1, <1>4, <2>1, DigitFacts
<1>11. Value(text) = v[Len(text)] /\ Value(longer) = w[Len(longer)]
  BY <1>1, ValueAsChoice DEF v, w
<1> QED
  BY <1>9, <1>10, <1>11 DEF longer

LEMMA ValueOfDigit ==
    ASSUME NEW n \in 0..9 PROVE Value(<<Digit(n)>>) = n
<1>1. <<>> \in Seq(Digits) /\ Append(<<>>, Digit(n)) = <<Digit(n)>>
  OBVIOUS
<1>2. Value(<<>>) = 0
  <2>1. PICK value \in [0..0 -> Nat] : IsValueOf(<<>>, value)
    BY <1>1, ValueExists
  <2>2. IsValueOf(<<>>, CHOOSE v : IsValueOf(<<>>, v))
    BY <2>1
  <2>3. (CHOOSE v : IsValueOf(<<>>, v))[0] = 0
    BY <2>2 DEF IsValueOf
  <2> QED
    BY <1>1, <2>3, ValueAsChoice
<1>3. Value(Append(<<>>, Digit(n))) = Value(<<>>) * 10 + n
  BY <1>1, ValueOfAppend
<1> QED
  BY <1>1, <1>2, <1>3

-----------------------------------------------------------------------------
(* What u64::to_string computes *)

(* The function by which Decimal is defined. *)
AreTexts(n, text) ==
    text = [m \in 0..n |-> IF m < 10 THEN <<Digit(m)>>
                           ELSE Append(text[m \div 10], Digit(m % 10))]

LEMMA DivisionByTen ==
    ASSUME NEW m \in Nat
    PROVE  /\ m \div 10 \in Nat /\ m % 10 \in 0..9
           /\ m = (m \div 10) * 10 + (m % 10)
           /\ m >= 10 => m \div 10 < m /\ m \div 10 > 0
OBVIOUS

LEMMA TextsExist ==
    ASSUME NEW n \in Nat PROVE \E text : AreTexts(n, text)
<1> DEFINE V == Seq(Digits)
           step(f, m) == IF m < 10 THEN <<Digit(m)>>
                         ELSE Append(f[m \div 10], Digit(m % 10))
           right(f, k) == \A m \in 0..n : m <= k => f[m] = step(f, m)
           T == {k \in Nat : \E f \in [0..n -> V] : right(f, k)}
<1>1. ASSUME NEW f \in [0..n -> V], NEW m \in 0..n PROVE step(f, m) \in V
  <2>1. CASE m < 10
    <3>1. m \in 0..9
      BY <2>1
    <3>2. Digit(m) \in Digits
      BY <3>1, DigitFacts
    <3> QED
      BY <2>1, <3>2
  <2>2. CASE ~(m < 10)
    <3>1. m \div 10 \in 0..n /\ m % 10 \in 0..9
      BY <2>2, DivisionByTen
    <3>2. f[m \div 10] \in Seq(Digits) /\ Digit(m % 10) \in Digits
      BY <3>1, DigitFacts
    <3> QED
      BY <2>2, <3>2
  <2> QED
    BY <2>1, <2>2
<1>2. 0 \in T
  <2> DEFINE first == [m \in 0..n |-> <<Digit(0)>>]
  <2>1. first \in [0..n -> V]
    BY DigitFacts
  <2>2. right(first, 0)
    OBVIOUS
  <2> HIDE DEF first, right, V
  <2> QED
    BY <2>1, <2>2
<1>3. ASSUME NEW k \in Nat, k \in T PROVE k + 1 \in T
  <2>1. PICK f \in [0..n -> V] : right(f, k)
    BY <1>3
  <2> DEFINE next == [m \in 0..n |-> step(f, m)]
  <2>2. next \in [0..n -> V]
    <3> HIDE DEF step, V
    <3> QED
      BY <1>1
  <2>3. ASSUME NEW m \in 0..n, m <= k + 1 PROVE next[m] = step(next, m)
    <3>1. CASE m < 10
      BY <3>1
    <3>2. CASE ~(m < 10)
      <4>1. m \div 10 \in 0..n /\ m \div 10 <= k
        BY <2>3, <3>2, DivisionByTen
      <4>2. next[m \div 10] = f[m \div 10]
        BY <2>1, <4>1
      <4> QED
        BY <3>2, <4>2
    <3> QED
      BY <3>1, <3>2
  <2>4. right(next, k + 1)
    BY <2>3
  <2> HIDE DEF next, right, V
  <2> QED
    BY <2>2, <2>4
<1>4. n \in T
  <2> HIDE DEF T
  <2> QED
    BY <1>2, <1>3, InductionOnSet
<1>5. PICK f \in [0..n -> V] : right(f, n)
  BY <1>4
<1>6. f = [m \in 0..n |-> step(f, m)]
  <2> HIDE DEF step, V
  <2>1. \A m \in 0..n : f[m] = step(f, m)
    BY <1>5
  <2> QED
    BY <2>1
<1> QED
  BY <1>6 DEF AreTexts

(* The text of a number does not depend on the numbers after it. *)
LEMMA TextsAgree ==
    ASSUME NEW n \in Nat, NEW k \in 0..n, NEW text, AreTexts(n, text),
           NEW part, AreTexts(k, part)
    PROVE  text[k] = part[k]
<1> DEFINE T == {m \in Nat : m <= k => text[m] = part[m]}
<1>1. ASSUME NEW m \in Nat, \A i \in 0..(m - 1) : i \in T PROVE m \in T
  <2> SUFFICES ASSUME m <= k PROVE text[m] = part[m]
    OBVIOUS
  <2>1. m \in 0..n /\ m \in 0..k
    OBVIOUS
  <2>2. text[m] = IF m < 10 THEN <<Digit(m)>> ELSE Append(text[m \div 10], Digit(m % 10))
    BY <2>1, Zenon DEF AreTexts
  <2>3. part[m] = IF m < 10 THEN <<Digit(m)>> ELSE Append(part[m \div 10], Digit(m % 10))
    BY <2>1, Zenon DEF AreTexts
  <2>4. ~(m < 10) => text[m \div 10] = part[m \div 10]
    <3>1. ~(m < 10) => m \div 10 \in 0..(m - 1) /\ m \div 10 <= k
      BY DivisionByTen
    <3> QED
      BY <1>1, <3>1
  <2> QED
    BY <2>2, <2>3, <2>4
<1>2. Nat \subseteq T
  <2> HIDE DEF T
  <2> QED
    BY <1>1, StrongInductionOnSet
<1> QED
  BY <1>2

LEMMA DecimalByDigits ==
    ASSUME NEW n \in Nat
    PROVE  Decimal(n) = IF n < 10 THEN <<Digit(n)>>
                        ELSE Append(Decimal(n \div 10), Digit(n % 10))
<1> DEFINE texts(k) == CHOOSE text : AreTexts(k, text)
<1>1. \A k \in Nat : AreTexts(k, texts(k))
  BY TextsExist
<1>2. \A k : Decimal(k) = texts(k)[k]
  BY Zenon DEF Decimal, AreTexts
<1> HIDE DEF texts
<1>3. texts(n)[n] = IF n < 10 THEN <<Digit(n)>>
                    ELSE Append(texts(n)[n \div 10], Digit(n % 10))
  <2>1. n \in 0..n
    OBVIOUS
  <2>2. AreTexts(n, texts(n))
    BY <1>1
  <2> QED
    BY <2>1, <2>2, Zenon DEF AreTexts
<1>4. n >= 10 => texts(n)[n \div 10] = Decimal(n \div 10)
  <2>1. n >= 10 => n \div 10 \in 0..n /\ n \div 10 \in Nat
    BY DivisionByTen
  <2> QED
    BY <1>1, <1>2, <2>1, TextsAgree
<1>5. CASE n < 10
  BY <1>2, <1>3, <1>5
<1>6. CASE ~(n < 10)
  <2>1. texts(n)[n] = Append(texts(n)[n \div 10], Digit(n % 10))
    BY <1>3, <1>6
  <2>2. texts(n)[n \div 10] = Decimal(n \div 10)
    BY <1>4, <1>6
  <2> QED
    BY <1>2, <1>6, <2>1, <2>2
<1> QED
  BY <1>5, <1>6

(* A number is read as what it was written from. *)
LEMMA DecimalProperties ==
    ASSUME NEW n \in Nat
    PROVE  /\ Decimal(n) \in Seq(Digits)
           /\ Len(Decimal(n)) >= 1
           /\ Value(Decimal(n)) = n
<1> DEFINE good(m) == /\ Decimal(m) \in Seq(Digits)
                      /\ Len(Decimal(m)) >= 1
                      /\ Value(Decimal(m)) = m
           T == {m \in Nat : good(m)}
<1>1. ASSUME NEW m \in Nat, \A i \in 0..(m - 1) : i \in T PROVE good(m)
  <2>1. CASE m < 10
    <3>1. Decimal(m) = <<Digit(m)>> /\ m \in 0..9
      BY <2>1, DecimalByDigits
    <3> QED
      BY <3>1, DigitFacts, ValueOfDigit
  <2>2. CASE ~(m < 10)
    <3> DEFINE tens == m \div 10
               ones == m % 10
    <3>1. Decimal(m) = Append(Decimal(tens), Digit(ones))
      BY <2>2, DecimalByDigits
    <3>2. tens \in 0..(m - 1) /\ ones \in 0..9 /\ m = tens * 10 + ones
      BY <2>2, DivisionByTen
    <3> HIDE DEF tens, ones
    <3>3. good(tens)
      BY <1>1, <3>2
    <3>4. Digit(ones) \in Digits
      BY <3>2, DigitFacts
    <3>5. Value(Append(Decimal(tens), Digit(ones))) = Value(Decimal(tens)) * 10 + ones
      BY <3>2, <3>3, ValueOfAppend
    <3> QED
      BY <3>1, <3>2, <3>3, <3>4, <3>5
  <2> QED
    BY <2>1, <2>2
<1>2. Nat \subseteq T
  <2> HIDE DEF good
  <2>1. \A m \in Nat : (\A i \in 0..(m - 1) : i \in T) => m \in T
    BY <1>1
  <2> HIDE DEF T
  <2> QED
    BY <2>1, StrongInductionOnSet
<1> QED
  BY <1>2

-----------------------------------------------------------------------------
(* Padding and taking it away *)

Padding(k) == [i \in 1..k |-> ZERO]
Padded(t, k) == t \o Padding(k)

LEMMA PaddedElements ==
    ASSUME NEW t \in Seq(Bytes), NEW k \in Nat
    PROVE  /\ Padded(t, k) \in Seq(Bytes)
           /\ Len(t) \in Nat
           /\ Len(Padded(t, k)) = Len(t) + k
           /\ \A i \in 1..Len(t) : Padded(t, k)[i] = t[i]
           /\ \A i \in (Len(t) + 1)..(Len(t) + k) : Padded(t, k)[i] = ZERO
<1>1. Padding(k) \in Seq(Bytes) /\ Len(Padding(k)) = k
      /\ \A i \in 1..k : Padding(k)[i] = ZERO
  BY DEF Padding, Bytes
<1>2. Len(t) \in Nat
  BY LenProperties
<1>3. /\ Padded(t, k) \in Seq(Bytes)
      /\ Len(Padded(t, k)) = Len(t) + k
      /\ \A i \in 1..(Len(t) + k) :
             Padded(t, k)[i] = IF i <= Len(t) THEN t[i] ELSE Padding(k)[i - Len(t)]
  BY <1>1, <1>2, ConcatProperties DEF Padded
<1>4. ASSUME NEW i \in (Len(t) + 1)..(Len(t) + k) PROVE Padded(t, k)[i] = ZERO
  <2>1. i \in 1..(Len(t) + k) /\ ~(i <= Len(t)) /\ i - Len(t) \in 1..k
    BY <1>2
  <2> QED
    BY <1>1, <1>3, <2>1
<1> QED
  BY <1>2, <1>3, <1>4

LEMMA PuffedIsPadded ==
    ASSUME NEW t \in Seq(Bytes), Fits(t)
    PROVE  /\ MAX_URI_LENGTH - Len(t) \in Nat
           /\ Puffed(t) = Padded(t, MAX_URI_LENGTH - Len(t))
           /\ Puffed(t) \in Seq(Bytes)
<1>1. Len(t) \in Nat
  BY LenProperties
<1>2. MAX_URI_LENGTH - Len(t) \in Nat /\ Puffed(t) = Padded(t, MAX_URI_LENGTH - Len(t))
  BY <1>1, UriAssumption DEF Fits, Puffed, Padded, Padding
<1> QED
  BY <1>2, PaddedElements

-----------------------------------------------------------------------------
(* A URI with a number *)

(* Numbered, for any directory. *)
Text(d, n) == d \o <<"/">> \o Decimal(n) \o Suffix

LEMMA SuffixElements ==
    /\ Suffix \in Seq(Bytes) /\ Len(Suffix) = 5
    /\ Suffix[1] = "." /\ \A i \in 1..5 : Suffix[i] \notin {"/", ZERO}
<1>1. {".", "j", "s", "o", "n"} \subseteq Bytes
  BY DEF Bytes
<1> QED
  BY <1>1 DEF Suffix, ZERO

LEMMA TextElements ==
    ASSUME NEW d \in Seq(Bytes), NEW n \in Nat
    PROVE  LET t == Text(d, n)
               dir == Len(d)
               num == Len(Decimal(n))
           IN  /\ t \in Seq(Bytes)
               /\ dir \in Nat /\ num \in Nat /\ num >= 1
               /\ Len(t) = dir + num + 6
               /\ \A i \in 1..dir : t[i] = d[i]
               /\ t[dir + 1] = "/"
               /\ \A i \in (dir + 2)..(dir + num + 1) :
                      t[i] = Decimal(n)[i - (dir + 1)] /\ t[i] \in Digits
               /\ \A i \in (dir + num + 2)..(dir + num + 6) :
                      t[i] = Suffix[i - (dir + num + 1)]
<1> DEFINE t == Text(d, n)
           dir == Len(d)
           num == Len(Decimal(n))
           a == d \o <<"/">>
           b == a \o Decimal(n)
<1>1. /\ Decimal(n) \in Seq(Digits) /\ Decimal(n) \in Seq(Bytes)
      /\ num \in Nat /\ num >= 1
      /\ \A i \in 1..num : Decimal(n)[i] \in Digits
  <2>1. Digits \subseteq Bytes
    BY DigitFacts DEF Digits
  <2>2. Decimal(n) \in Seq(Digits) /\ num >= 1
    BY DecimalProperties
  <2> QED
    BY <2>1, <2>2, SeqMonotonic, LenProperties, ElementOfSeq
<1>2. <<"/">> \in Seq(Bytes) /\ Len(<<"/">>) = 1 /\ <<"/">>[1] = "/"
  <2>1. "/" \in Bytes
    BY DEF Bytes
  <2> QED
    BY <2>1
<1>3. dir \in Nat
  BY LenProperties
<1>4. a \in Seq(Bytes) /\ Len(a) = dir + 1
      /\ \A i \in 1..(dir + 1) : a[i] = IF i <= dir THEN d[i] ELSE <<"/">>[i - dir]
  BY <1>2, ConcatProperties
<1> HIDE DEF a, num
<1>5. b \in Seq(Bytes) /\ Len(b) = dir + 1 + num
      /\ \A i \in 1..(dir + 1 + num) :
             b[i] = IF i <= dir + 1 THEN a[i] ELSE Decimal(n)[i - (dir + 1)]
  <2>1. /\ b \in Seq(Bytes)
        /\ Len(b) = Len(a) + Len(Decimal(n))
        /\ \A i \in 1..(Len(a) + Len(Decimal(n))) :
               b[i] = IF i <= Len(a) THEN a[i] ELSE Decimal(n)[i - Len(a)]
    BY <1>1, <1>4, ConcatProperties
  <2> HIDE DEF b, dir
  <2> QED
    BY <1>4, <2>1 DEF num
<1> HIDE DEF b
<1>6. t = b \o Suffix
  BY DEF Text, a, b
<1> HIDE DEF t
<1>7. t \in Seq(Bytes) /\ Len(t) = dir + 1 + num + 5
      /\ \A i \in 1..(dir + 1 + num + 5) :
             t[i] = IF i <= dir + 1 + num THEN b[i] ELSE Suffix[i - (dir + 1 + num)]
  <2>1. /\ t \in Seq(Bytes)
        /\ Len(t) = Len(b) + Len(Suffix)
        /\ \A i \in 1..(Len(b) + Len(Suffix)) :
               t[i] = IF i <= Len(b) THEN b[i] ELSE Suffix[i - Len(b)]
    BY <1>5, <1>6, SuffixElements, ConcatProperties
  <2> HIDE DEF dir
  <2> QED
    BY <1>5, <2>1, SuffixElements
<1> HIDE DEF dir
<1>8. Len(t) = dir + num + 6
  BY <1>1, <1>3, <1>7
<1>9. ASSUME NEW i \in 1..dir PROVE t[i] = d[i]
  <2>1. i \in 1..(dir + 1) /\ i \in 1..(dir + 1 + num) /\ i \in 1..(dir + 1 + num + 5)
        /\ i <= dir /\ i <= dir + 1 /\ i <= dir + 1 + num
    BY <1>1, <1>3
  <2> QED
    BY <1>4, <1>5, <1>7, <2>1
<1>10. t[dir + 1] = "/"
  <2>1. dir + 1 \in 1..(dir + 1) /\ dir + 1 \in 1..(dir + 1 + num)
        /\ dir + 1 \in 1..(dir + 1 + num + 5)
        /\ ~(dir + 1 <= dir) /\ dir + 1 <= dir + 1 /\ dir + 1 <= dir + 1 + num
        /\ (dir + 1) - dir = 1
    BY <1>1, <1>3
  <2> QED
    BY <1>2, <1>4, <1>5, <1>7, <2>1
<1>11. ASSUME NEW i \in (dir + 2)..(dir + num + 1)
       PROVE  t[i] = Decimal(n)[i - (dir + 1)] /\ t[i] \in Digits
  <2>1. i \in 1..(dir + 1 + num) /\ i \in 1..(dir + 1 + num + 5)
        /\ ~(i <= dir + 1) /\ i <= dir + 1 + num /\ i - (dir + 1) \in 1..num
    BY <1>1, <1>3
  <2> QED
    BY <1>1, <1>5, <1>7, <2>1
<1>12. ASSUME NEW i \in (dir + num + 2)..(dir + num + 6)
       PROVE  t[i] = Suffix[i - (dir + num + 1)]
  <2>1. i \in 1..(dir + 1 + num + 5) /\ ~(i <= dir + 1 + num)
        /\ i - (dir + 1 + num) = i - (dir + num + 1)
    BY <1>1, <1>3
  <2> QED
    BY <1>7, <2>1
<1> QED
  BY <1>1, <1>3, <1>7, <1>8, <1>9, <1>10, <1>11, <1>12 DEF t, dir, num

-----------------------------------------------------------------------------
(* What the search finds *)

(* Whatever slashes, dots and digits the directory has, it is the last     *)
(* slash, the dot after it and the first padding byte that are found.      *)
LEMMA SearchFinds ==
    ASSUME NEW d \in Seq(Bytes), NEW n \in Nat, NEW k \in Nat
    PROVE  LET s == Padded(Text(d, n), k)
               dir == Len(d)
               num == Len(Decimal(n))
           IN  /\ SlashPos(s) = dir + 1
               /\ DotPos(s) = dir + num + 1
               /\ LastPos(s) = dir + num + 6
<1> DEFINE t == Text(d, n)
           s == Padded(t, k)
           dir == Len(d)
           num == Len(Decimal(n))
<1>1. /\ t \in Seq(Bytes)
      /\ dir \in Nat /\ num \in Nat /\ num >= 1
      /\ Len(t) = dir + num + 6
      /\ t[dir + 1] = "/"
      /\ \A i \in (dir + 2)..(dir + num + 1) : t[i] \in Digits
      /\ \A i \in (dir + num + 2)..(dir + num + 6) :
             t[i] = Suffix[i - (dir + num + 1)]
  BY TextElements
<1>2. /\ Len(s) = Len(t) + k
      /\ \A i \in 1..Len(t) : s[i] = t[i]
      /\ \A i \in (Len(t) + 1)..(Len(t) + k) : s[i] = ZERO
  BY <1>1, PaddedElements
<1> HIDE DEF t, s, dir, num
<1>3. /\ Len(s) = dir + num + 6 + k /\ Len(s) \in Nat
      /\ s[dir + 1] = "/"
      /\ \A i \in (dir + 2)..(dir + num + 1) : s[i] \in Digits
      /\ \A i \in (dir + num + 2)..(dir + num + 6) :
             s[i] = Suffix[i - (dir + num + 1)]
      /\ \A i \in (dir + num + 7)..Len(s) : s[i] = ZERO
  BY <1>1, <1>2
<1>4. \A b \in Digits : b # "/" /\ b # "." /\ b # ZERO
  BY DigitFacts DEF Digits
<1>5. s[dir + num + 2] = "."
  <2>1. dir + num + 2 \in (dir + num + 2)..(dir + num + 6)
        /\ (dir + num + 2) - (dir + num + 1) = 1
    BY <1>1
  <2> QED
    BY <1>3, <2>1, SuffixElements
<1>6. /\ \A i \in (dir + 2)..(dir + num + 6) : s[i] \notin {"/", ZERO}
      /\ \A i \in (dir + 2)..Len(s) : s[i] # "/"
  <2>1. ASSUME NEW i \in (dir + 2)..(dir + num + 6) PROVE s[i] \notin {"/", ZERO}
    <3>1. CASE i \in (dir + 2)..(dir + num + 1)
      BY <1>3, <1>4, <3>1
    <3>2. CASE i \in (dir + num + 2)..(dir + num + 6)
      <4>1. i - (dir + num + 1) \in 1..5
        BY <1>1, <3>2
      <4> QED
        BY <1>3, <3>2, <4>1, SuffixElements
    <3>3. i \in (dir + 2)..(dir + num + 1) \/ i \in (dir + num + 2)..(dir + num + 6)
      BY <1>1
    <3> QED
      BY <3>1, <3>2, <3>3
  <2>2. ASSUME NEW i \in (dir + num + 7)..Len(s) PROVE s[i] # "/"
    BY <1>3, <2>2 DEF ZERO
  <2>3. \A i \in (dir + 2)..Len(s) :
            i \in (dir + 2)..(dir + num + 6) \/ i \in (dir + num + 7)..Len(s)
    BY <1>1, <1>3
  <2> QED
    BY <2>1, <2>2, <2>3
<1>7. Contains(s, "/") /\ dir + 1 \in 1..Len(s)
  BY <1>1, <1>3 DEF Contains
<1>8. SlashPos(s) = dir + 1
  <2> DEFINE found == {i \in 1..Len(s) : s[i] = "/"} \cup
                      (IF Contains(s, "/") THEN {} ELSE {Len(s)})
  <2>1. found \in SUBSET Int /\ dir + 1 \in found
    BY <1>1, <1>3, <1>7
  <2>2. \A i \in found : i <= dir + 1
    BY <1>1, <1>3, <1>6, <1>7
  <2>3. Max(found) = dir + 1
    <3> HIDE DEF found
    <3> QED
      BY <2>1, <2>2, MaxOf
  <2> QED
    BY <2>3 DEF SlashPos
<1>9. SearchStart(s) = dir + 1
  BY <1>7, <1>8 DEF SearchStart
<1>10. DotPos(s) = dir + num + 1
  <2> DEFINE found == {i \in (dir + 1)..(Len(s) - 1) : s[i + 1] = "."} \cup {Len(s)}
  <2>1. found \in SUBSET Int /\ dir + num + 1 \in found
    <3>1. dir + num + 1 \in (dir + 1)..(Len(s) - 1) /\ (dir + num + 1) + 1 = dir + num + 2
      BY <1>1, <1>3
    <3> QED
      BY <1>1, <1>3, <1>5, <3>1
  <2>2. \A i \in found : dir + num + 1 <= i
    <3> SUFFICES ASSUME NEW i \in (dir + 1)..(dir + num) PROVE s[i + 1] # "."
      BY <1>1, <1>3
    <3>1. i + 1 \in (dir + 2)..(dir + num + 1)
      BY <1>1
    <3> QED
      BY <1>3, <1>4, <3>1
  <2>3. Min(found) = dir + num + 1
    <3> HIDE DEF found
    <3> QED
      BY <2>1, <2>2, MinOf
  <2> QED
    BY <1>9, <2>3 DEF DotPos, FirstSince
<1>11. LastPos(s) = dir + num + 6
  <2> DEFINE found == {i \in (dir + 1)..(Len(s) - 1) : s[i + 1] = ZERO} \cup {Len(s)}
  <2>1. found \in SUBSET Int /\ dir + num + 6 \in found
    <3>1. CASE k = 0
      BY <1>1, <1>3, <3>1
    <3>2. CASE k # 0
      <4>1. dir + num + 6 \in (dir + 1)..(Len(s) - 1)
            /\ (dir + num + 6) + 1 \in (dir + num + 7)..Len(s)
        BY <1>1, <1>3, <3>2
      <4> QED
        BY <1>1, <1>3, <4>1
    <3> QED
      BY <3>1, <3>2
  <2>2. \A i \in found : dir + num + 6 <= i
    <3> SUFFICES ASSUME NEW i \in (dir + 1)..(dir + num + 5) PROVE s[i + 1] # ZERO
      BY <1>1, <1>3
    <3>1. i + 1 \in (dir + 2)..(dir + num + 6)
      BY <1>1
    <3> QED
      BY <1>6, <3>1
  <2>3. Min(found) = dir + num + 6
    <3> HIDE DEF found
    <3> QED
      BY <2>1, <2>2, MinOf
  <2> QED
    BY <1>9, <2>3 DEF LastPos, FirstSince
<1> QED
  BY <1>8, <1>10, <1>11 DEF t, s, dir, num

-----------------------------------------------------------------------------
(* Reading and replacing the number *)

LEMMA SubSeqIs ==
    ASSUME NEW S, NEW s, NEW m \in Int, NEW n \in Int, NEW part \in Seq(S),
           Len(part) = n - m + 1,
           \A i \in 1..Len(part) : s[m + i - 1] = part[i]
    PROVE  SubSeq(s, m, n) = part
<1>1. Len(part) \in Nat /\ \A i \in 1..Len(part) : part[i] \in S
  BY LenProperties, ElementOfSeq
<1>2. ASSUME NEW i \in m..n PROVE s[i] \in S
  <2>1. i - m + 1 \in 1..Len(part) /\ m + (i - m + 1) - 1 = i
    BY <1>1
  <2> QED
    BY <1>1, <2>1
<1>3. /\ SubSeq(s, m, n) \in Seq(S)
      /\ Len(SubSeq(s, m, n)) = IF m <= n THEN n - m + 1 ELSE 0
      /\ \A i \in 1..(n - m + 1) : SubSeq(s, m, n)[i] = s[m + i - 1]
  BY <1>2, SubSeqProperties
<1>4. Len(SubSeq(s, m, n)) = Len(part)
  BY <1>1, <1>3
<1>5. \A i \in 1..Len(part) : SubSeq(s, m, n)[i] = part[i]
  BY <1>3
<1> QED
  BY <1>3, <1>4, <1>5, SeqEqual

(* The number found is the one the URI has, and another one can be put in  *)
(* its place: what was padding is gone then.                               *)
LEMMA NumberFound ==
    ASSUME NEW d \in Seq(Bytes), NEW n \in Nat, NEW k \in Nat
    PROVE  LET s == Padded(Text(d, n), k)
           IN  /\ Slice(s, SlashPos(s), DotPos(s)) = Decimal(n)
               /\ \A m \in Nat : WithNumber(s, m) = Text(d, m)
               /\ LastPos(s) # 0 /\ DotPos(s) # 0 /\ SlashPos(s) # 0
               /\ SlashPos(s) <= DotPos(s) /\ DotPos(s) <= LastPos(s)
<1> DEFINE t == Text(d, n)
           s == Padded(t, k)
           dir == Len(d)
           num == Len(Decimal(n))
<1>1. /\ t \in Seq(Bytes)
      /\ dir \in Nat /\ num \in Nat /\ num >= 1
      /\ Len(t) = dir + num + 6
      /\ \A i \in 1..dir : t[i] = d[i]
      /\ t[dir + 1] = "/"
      /\ \A i \in (dir + 2)..(dir + num + 1) : t[i] = Decimal(n)[i - (dir + 1)]
      /\ \A i \in (dir + num + 2)..(dir + num + 6) :
             t[i] = Suffix[i - (dir + num + 1)]
  BY TextElements
<1>2. \A i \in 1..Len(t) : s[i] = t[i]
  BY <1>1, PaddedElements
<1>3. SlashPos(s) = dir + 1 /\ DotPos(s) = dir + num + 1 /\ LastPos(s) = dir + num + 6
  BY SearchFinds
<1>4. Decimal(n) \in Seq(Digits) /\ Suffix \in Seq(Bytes) /\ Len(Suffix) = 5
  BY DecimalProperties, SuffixElements
<1> DEFINE a == d \o <<"/">>
<1>5. /\ a \in Seq(Bytes) /\ Len(a) = dir + 1
      /\ \A i \in 1..(dir + 1) : a[i] = t[i]
  <2>1. <<"/">> \in Seq(Bytes) /\ Len(<<"/">>) = 1 /\ <<"/">>[1] = "/"
    <3>1. "/" \in Bytes
      BY DEF Bytes
    <3> QED
      BY <3>1
  <2>2. a \in Seq(Bytes) /\ Len(a) = dir + 1
        /\ \A i \in 1..(dir + 1) : a[i] = IF i <= dir THEN d[i] ELSE <<"/">>[i - dir]
    BY <2>1, ConcatProperties
  <2> HIDE DEF a, t, dir, num
  <2>3. ASSUME NEW i \in 1..(dir + 1) PROVE a[i] = t[i]
    <3>1. CASE i <= dir
      <4>1. i \in 1..dir
        BY <1>1, <3>1
      <4> QED
        BY <1>1, <2>2, <3>1, <4>1
    <3>2. CASE ~(i <= dir)
      <4>1. i = dir + 1 /\ i - dir = 1
        BY <1>1, <3>2
      <4> QED
        BY <1>1, <2>1, <2>2, <3>2, <4>1
    <3> QED
      BY <3>1, <3>2
  <2> QED
    BY <2>2, <2>3
<1> HIDE DEF t, s, dir, num, a
<1>6. SubSeq(s, dir + 2, dir + num + 1) = Decimal(n)
  <2> DEFINE first == dir + 2
             last == dir + num + 1
  <2>1. first \in Int /\ last \in Int /\ Len(Decimal(n)) = last - first + 1
    BY <1>1 DEF num
  <2>2. ASSUME NEW i \in 1..Len(Decimal(n)) PROVE s[first + i - 1] = Decimal(n)[i]
    <3>1. (dir + 2) + i - 1 \in 1..Len(t) /\ (dir + 2) + i - 1 \in (dir + 2)..(dir + num + 1)
          /\ ((dir + 2) + i - 1) - (dir + 1) = i
      BY <1>1 DEF num
    <3> QED
      BY <1>1, <1>2, <3>1
  <2> HIDE DEF first, last
  <2>3. SubSeq(s, first, last) = Decimal(n)
    BY <1>4, <2>1, <2>2, SubSeqIs
  <2> QED
    BY <2>3 DEF first, last
<1>7. SubSeq(s, 1, dir + num + 6) = t
  <2> DEFINE last == dir + num + 6
  <2>1. 1 \in Int /\ last \in Int /\ Len(t) = last - 1 + 1
    BY <1>1
  <2>2. \A i \in 1..Len(t) : s[1 + i - 1] = t[i]
    BY <1>1, <1>2
  <2> HIDE DEF last
  <2>3. SubSeq(s, 1, last) = t
    BY <1>1, <2>1, <2>2, SubSeqIs
  <2> QED
    BY <2>3 DEF last
<1>8. SubSeq(t, 1, dir + 1) = a
  <2>1. 1 \in Int /\ dir + 1 \in Int /\ Len(a) = (dir + 1) - 1 + 1
        /\ a \in Seq(Bytes)
    BY <1>1, <1>5
  <2>2. \A i \in 1..Len(a) : t[1 + i - 1] = a[i]
    BY <1>1, <1>5
  <2> QED
    BY <2>1, <2>2, SubSeqIs
<1>9. SubSeq(t, dir + num + 2, Len(t)) = Suffix
  <2> DEFINE first == dir + num + 2
  <2>1. first \in Int /\ Len(t) \in Int /\ Len(Suffix) = Len(t) - first + 1
    BY <1>1, <1>4
  <2>2. ASSUME NEW i \in 1..Len(Suffix) PROVE t[first + i - 1] = Suffix[i]
    <3>1. (dir + num + 2) + i - 1 \in (dir + num + 2)..(dir + num + 6)
          /\ ((dir + num + 2) + i - 1) - (dir + num + 1) = i
      BY <1>1, <1>4
    <3> QED
      BY <1>1, <3>1
  <2> HIDE DEF first
  <2>3. Suffix \in Seq(Bytes)
    BY <1>4
  <2>4. SubSeq(t, first, Len(t)) = Suffix
    BY <2>1, <2>2, <2>3, SubSeqIs
  <2> QED
    BY <2>4 DEF first
<1>10. Slice(s, SlashPos(s), DotPos(s)) = Decimal(n)
  <2>1. (dir + 1) + 1 = dir + 2
    BY <1>1
  <2> QED
    BY <1>3, <1>6, <2>1 DEF Slice
<1>11. ASSUME NEW m \in Nat PROVE WithNumber(s, m) = Text(d, m)
  <2>1. Truncated(s, LastPos(s)) = t
    BY <1>3, <1>7 DEF Truncated
  <2>2. WithNumber(s, m) =
            SubSeq(t, 1, dir + 1) \o Decimal(m) \o SubSeq(t, (dir + num + 1) + 1, Len(t))
    BY <1>3, <2>1 DEF WithNumber, ReplacedRange
  <2>3. (dir + num + 1) + 1 = dir + num + 2
    BY <1>1
  <2> QED
    BY <1>8, <1>9, <2>2, <2>3 DEF Text, a
<1>12. /\ LastPos(s) # 0 /\ DotPos(s) # 0 /\ SlashPos(s) # 0
       /\ SlashPos(s) <= DotPos(s) /\ DotPos(s) <= LastPos(s)
  BY <1>1, <1>3
<1> QED
  BY <1>10, <1>11, <1>12 DEF s, t

LEMMA DecimalIsNumber ==
    ASSUME NEW n \in Nat, n <= MaxNumber PROVE IsNumber(Decimal(n))
<1>1. Decimal(n) \in Seq(Digits) /\ Len(Decimal(n)) \in Nat /\ Len(Decimal(n)) >= 1
      /\ Value(Decimal(n)) = n
  BY DecimalProperties, LenProperties
<1>2. \A i \in 1..Len(Decimal(n)) : Decimal(n)[i] \in Digits
  BY <1>1, ElementOfSeq
<1>3. Unsigned(Decimal(n)) = Decimal(n)
  <2>1. Decimal(n)[1] \in Digits
    BY <1>1, <1>2
  <2> QED
    BY <2>1, DigitFacts DEF Unsigned, Digits
<1>4. Decimal(n) # <<>> /\ DOMAIN Decimal(n) = 1..Len(Decimal(n))
  BY <1>1
<1>5. \A b \in Digits : IsDigit(b)
  BY DigitFacts DEF Digits
<1> QED
  BY <1>1, <1>2, <1>3, <1>4, <1>5 DEF IsNumber

(* All that the handlers do with a URI: with padding and without it. *)
LEMMA PaddedUri ==
    ASSUME NEW d \in Seq(Bytes), NEW n \in Nat, n <= MaxNumber, NEW k \in Nat
    PROVE  LET s == Padded(Text(d, n), k)
           IN  /\ HasNumber(s) /\ Number(s) = n
               /\ \A m \in Nat : WithNumber(s, m) = Text(d, m)
<1>1. IsNumber(Decimal(n)) /\ Value(Decimal(n)) = n
  BY DecimalIsNumber, DecimalProperties
<1> QED
  BY <1>1, NumberFound DEF HasNumber, Number

LEMMA PuffedUri ==
    ASSUME NEW d \in Seq(Bytes), NEW n \in Nat, n <= MaxNumber, Fits(Text(d, n))
    PROVE  LET s == Puffed(Text(d, n))
           IN  /\ HasNumber(s) /\ Number(s) = n
               /\ \A m \in Nat : WithNumber(s, m) = Text(d, m)
<1> DEFINE t == Text(d, n)
<1>1. t \in Seq(Bytes)
  BY TextElements
<1>2. PICK k \in Nat : Puffed(t) = Padded(t, k)
  BY <1>1, PuffedIsPadded
<1> QED
  BY <1>2, PaddedUri

LEMMA TextUri ==
    ASSUME NEW d \in Seq(Bytes), NEW n \in Nat, n <= MaxNumber
    PROVE  /\ HasNumber(Text(d, n)) /\ Number(Text(d, n)) = n
           /\ \A m \in Nat : WithNumber(Text(d, n), m) = Text(d, m)
<1>1. Text(d, n) \in Seq(Bytes)
  BY TextElements
<1>2. Padding(0) = <<>>
  BY DEF Padding
<1>3. Padded(Text(d, n), 0) = Text(d, n)
  BY <1>1, <1>2, ConcatEmptySeq DEF Padded
<1> QED
  BY <1>3, PaddedUri

-----------------------------------------------------------------------------
(* The inductive invariant *)

(* The number the master's URI shows. *)
Shown == IF is_repeating \/ is_finished THEN 0 ELSE current_auction_cycle

(* The stored URI is what Metaplex makes of the numbered directory: all of *)
(* it, and nothing else but padding.                                       *)
UriInv ==
    /\ directory \in Seq(Bytes)
    /\ number_of_cycles \in Nat
    /\ is_repeating \in BOOLEAN /\ is_finished \in BOOLEAN
    /\ current_auction_cycle \in Nat
    /\ current_auction_cycle >= 1 /\ current_auction_cycle <= MaxNumber
    /\ is_over \in BOOLEAN /\ unclaimed_rewards \in Nat
    /\ children \in Seq(Seq(Bytes)) /\ Len(children) = current_auction_cycle
    /\ ChildUriShowsCycle
    /\ Fits(Numbered(Shown)) /\ uri = Puffed(Numbered(Shown))

LEMMA NumberedIsText ==
    ASSUME NEW n PROVE Numbered(n) = Text(directory, n)
BY DEF Numbered, Text

(* Both functions find the number shown and put any other in its place. *)
LEMMA MasterUri ==
    ASSUME UriInv
    PROVE  /\ Shown \in Nat /\ Shown <= MaxNumber
           /\ HasNumber(uri) /\ Number(uri) = Shown
           /\ \A n \in Nat : WithNumber(uri, n) = Numbered(n)
<1>1. Shown \in Nat /\ Shown <= MaxNumber
  BY UriAssumption DEF UriInv, Shown
<1> QED
  BY <1>1, NumberedIsText, PuffedUri DEF UriInv

(* The URI a child inherits can be renumbered again. *)
LEMMA ChildUri ==
    ASSUME UriInv, NEW n \in DOMAIN children
    PROVE  /\ n \in Nat /\ WithNumber(uri, n) = Numbered(n)
           /\ HasNumber(Numbered(n))
           /\ \A m \in Nat : WithNumber(Numbered(n), m) = Numbered(m)
<1>1. n \in Nat /\ n <= MaxNumber
  <2>1. children \in Seq(Seq(Bytes)) /\ Len(children) = current_auction_cycle
        /\ current_auction_cycle \in Nat /\ current_auction_cycle <= MaxNumber
    BY DEF UriInv
  <2>2. DOMAIN children = 1..Len(children)
    BY <2>1, LenProperties
  <2> QED
    BY <2>1, <2>2, UriAssumption
<1> QED
  BY <1>1, MasterUri, NumberedIsText, TextUri DEF UriInv

(* No number is shorter than 0. *)
LEMMA ZeroIsShortest ==
    ASSUME UriInv, NEW n \in Nat, Fits(Numbered(n)) PROVE Fits(Numbered(0))
<1> DEFINE dir == Len(directory)
           num == Len(Decimal(n))
           zero == Len(Decimal(0))
           long == Len(Numbered(n))
           short == Len(Numbered(0))
<1>1. long = dir + num + 6 /\ short = dir + zero + 6 /\ dir \in Nat /\ num \in Nat
  BY NumberedIsText, TextElements DEF UriInv
<1>2. Decimal(0) = <<Digit(0)>>
  BY DecimalByDigits
<1>3. zero = 1
  BY <1>2
<1>4. num >= 1
  BY DecimalProperties
<1> HIDE DEF dir, num, zero, long, short
<1>5. short <= long /\ short \in Nat /\ long \in Nat
  BY <1>1, <1>3, <1>4
<1> QED
  BY <1>5, UriAssumption DEF Fits, long, short

LEMMA UriInvInit ==
    ASSUME Init PROVE UriInv
<1>1. directory \in Seq(Bytes)
  <2>1. directory \in Seq(STRING) /\ STRING \subseteq Bytes
    BY UriAssumption DEF Init, Bytes
  <2> QED
    BY <2>1, SeqMonotonic
<1>2. current_auction_cycle = 1 /\ is_finished = FALSE /\ number_of_cycles \in Nat
      /\ is_repeating \in BOOLEAN /\ 1 <= MaxNumber
  BY UriAssumption DEF Init
<1>3. children \in Seq(Seq(Bytes)) /\ Len(children) = 1 /\ children[1] = <<>>
  <2>1. <<>> \in Seq(Bytes)
    OBVIOUS
  <2> QED
    BY <2>1 DEF Init
<1>4. Decimal(0) = <<"0">> /\ Decimal(1) = <<"1">>
  BY DecimalByDigits DEF Digit, DigitBytes
<1>5. directory \o <<"/", IF is_repeating THEN "0" ELSE "1">> \o Suffix = Numbered(Shown)
  <2> DEFINE digit == IF is_repeating THEN "0" ELSE "1"
  <2>1. Decimal(Shown) = <<digit>>
    BY <1>2, <1>4 DEF Shown
  <2>2. directory \o <<"/", digit>> = directory \o <<"/">> \o <<digit>>
    <3>1. digit \in Bytes /\ "/" \in Bytes
      <4>1. "0" \in Bytes /\ "1" \in Bytes
        BY DigitFacts DEF Digit, DigitBytes
      <4> QED
        BY <4>1 DEF Bytes
    <3> DEFINE slash == <<"/">>
               one == <<digit>>
    <3> HIDE DEF digit
    <3>2. slash \in Seq(Bytes) /\ one \in Seq(Bytes) /\ <<"/", digit>> = slash \o one
      BY <3>1
    <3> HIDE DEF slash, one
    <3>3. (directory \o slash) \o one = directory \o (slash \o one)
      BY <1>1, <3>2, ConcatAssociative
    <3> QED
      BY <3>2, <3>3 DEF slash, one
  <2> QED
    BY <2>1, <2>2 DEF Numbered
<1>6. Fits(Numbered(Shown)) /\ uri = Puffed(Numbered(Shown))
  BY <1>5 DEF Init
<1>7. ChildUriShowsCycle
  BY <1>3 DEF ChildUriShowsCycle
<1>8. is_finished \in BOOLEAN /\ is_over \in BOOLEAN /\ unclaimed_rewards \in Nat
  BY <1>2 DEF Init
<1>9. /\ current_auction_cycle \in Nat
      /\ current_auction_cycle >= 1 /\ current_auction_cycle <= MaxNumber
      /\ Len(children) = current_auction_cycle
  BY <1>2, <1>3
<1> QED
  BY <1>1, <1>2, <1>3, <1>6, <1>7, <1>8, <1>9, Zenon DEF UriInv

LEMMA CloseCycleUri ==
    ASSUME UriInv, CloseCycle PROVE UriInv'
<1> DEFINE next == IF IsLastAuctionCycle THEN 0 ELSE Shown + 1
<1>1. /\ CanClose /\ ~is_finished
      /\ IsLastAuctionCycle \/ current_auction_cycle < MaxNumber
      /\ directory' = directory /\ number_of_cycles' = number_of_cycles
      /\ is_repeating' = is_repeating
      /\ uri' = IF is_repeating THEN uri ELSE Puffed(IncrementUri(uri, IsLastAuctionCycle))
  BY DEF CloseCycle, CanClose, config
<1>2. /\ directory \in Seq(Bytes) /\ number_of_cycles \in Nat
      /\ is_repeating \in BOOLEAN /\ is_finished \in BOOLEAN
      /\ current_auction_cycle \in Nat
      /\ current_auction_cycle >= 1 /\ current_auction_cycle <= MaxNumber
      /\ is_over \in BOOLEAN /\ unclaimed_rewards \in Nat
      /\ children \in Seq(Seq(Bytes)) /\ Len(children) = current_auction_cycle
      /\ ChildUriShowsCycle
      /\ Fits(Numbered(Shown)) /\ uri = Puffed(Numbered(Shown))
  BY DEF UriInv
<1>3. \A n : Numbered(n)' = Numbered(n)
  BY <1>1 DEF Numbered
<1>4. ~is_repeating => IncrementUri(uri, IsLastAuctionCycle) = Numbered(next)
  <2>1. next \in Nat /\ Number(uri) = Shown /\ \A n \in Nat : WithNumber(uri, n) = Numbered(n)
    BY MasterUri
  <2> QED
    BY <2>1 DEF IncrementUri
<1>5. ~is_repeating => Fits(Numbered(next))
  BY <1>1, <1>4 DEF CanClose
<1>6. is_repeating => Shown' = 0 /\ Shown = 0
  BY <1>1 DEF Shown
<1>7. ~is_repeating => Shown' = next
  <2>1. CASE IsLastAuctionCycle
    BY <2>1 DEF CloseCycle, Shown
  <2>2. CASE ~IsLastAuctionCycle
    BY <1>1, <2>2 DEF CloseCycle, Shown
  <2> QED
    BY <2>1, <2>2
<1>8. Fits(Numbered(Shown))' /\ (uri = Puffed(Numbered(Shown)))'
  <2>1. CASE is_repeating
    BY <1>1, <1>2, <1>3, <1>6, <2>1 DEF Fits, Puffed
  <2>2. CASE ~is_repeating
    <3>1. Numbered(Shown)' = Numbered(next)
      BY <1>1, <1>7, <2>2 DEF Numbered
    <3>2. uri' = Puffed(Numbered(next))
      BY <1>1, <1>4, <2>2
    <3> QED
      BY <1>5, <2>2, <3>1, <3>2 DEF Fits, Puffed
  <2> QED
    BY <2>1, <2>2
<1>9. is_over' \in BOOLEAN /\ unclaimed_rewards' \in Nat
  <2>1. unclaimed_rewards' = unclaimed_rewards + 1 /\ unclaimed_rewards \in Nat
    BY <1>2 DEF CloseCycle
  <2>2. is_over' = is_over \/ is_over' = FALSE
    BY DEF CloseCycle
  <2>3. is_over' \in BOOLEAN
    BY <1>2, <2>2
  <2> QED
    BY <2>1, <2>3
<1>10. CASE IsLastAuctionCycle
  <2>1. /\ is_finished' = TRUE
        /\ current_auction_cycle' = current_auction_cycle /\ children' = children
    BY <1>10 DEF CloseCycle
  <2>2. ChildUriShowsCycle'
    BY <1>2, <1>3, <2>1 DEF ChildUriShowsCycle, Puffed
  <2>3. is_finished' \in BOOLEAN
    BY <2>1
  <2> QED
    BY <1>1, <1>2, <1>8, <1>9, <2>1, <2>2, <2>3 DEF UriInv
<1>11. CASE ~IsLastAuctionCycle
  <2>1. /\ is_finished' = is_finished
        /\ current_auction_cycle' = current_auction_cycle + 1
        /\ children' = Append(children, <<>>)
    BY <1>11 DEF CloseCycle
  <2>2. /\ children' \in Seq(Seq(Bytes)) /\ Len(children') = Len(children) + 1
        /\ \A n \in 1..Len(children) : children'[n] = children[n]
        /\ children'[Len(children) + 1] = <<>>
        /\ DOMAIN children' = 1..(Len(children) + 1) /\ DOMAIN children = 1..Len(children)
    <3>1. <<>> \in Seq(Bytes)
      OBVIOUS
    <3> QED
      BY <1>2, <2>1, <3>1
  <2>3. ChildUriShowsCycle'
    <3>1. ASSUME NEW n \in DOMAIN children', children'[n] # <<>>
          PROVE  children'[n] = Puffed(Numbered(n))
      <4>1. n \in 1..Len(children)
        BY <1>2, <2>2, <3>1
      <4> QED
        BY <1>2, <2>2, <3>1, <4>1 DEF ChildUriShowsCycle
    <3> QED
      BY <1>3, <3>1 DEF ChildUriShowsCycle, Puffed
  <2>4. /\ current_auction_cycle' \in Nat /\ current_auction_cycle' >= 1
        /\ current_auction_cycle' <= MaxNumber
        /\ Len(children') = current_auction_cycle'
    BY <1>1, <1>2, <1>11, <2>1, <2>2, UriAssumption
  <2>5. children' \in Seq(Seq(Bytes))
    BY <2>2
  <2> QED
    BY <1>1, <1>2, <1>8, <1>9, <2>1, <2>3, <2>4, <2>5, Zenon DEF UriInv
<1> QED
  BY <1>10, <1>11

LEMMA ClaimRewardsUri ==
    ASSUME UriInv, NEW n \in DOMAIN children, ClaimRewards(n) PROVE UriInv'
<1>1. /\ children' = [children EXCEPT ![n] = Puffed(WithNumber(uri, n))]
      /\ uri' = Puffed(WithNumber(WithNumber(uri, n), Number(uri)))
      /\ directory' = directory /\ number_of_cycles' = number_of_cycles
      /\ is_repeating' = is_repeating /\ is_finished' = is_finished
      /\ current_auction_cycle' = current_auction_cycle
      /\ is_over' = is_over /\ unclaimed_rewards' = unclaimed_rewards - 1
      /\ unclaimed_rewards > 0 /\ Fits(WithNumber(uri, n))
  BY DEF ClaimRewards, CanClaim, config
<1>2. /\ directory \in Seq(Bytes) /\ number_of_cycles \in Nat
      /\ is_repeating \in BOOLEAN /\ is_finished \in BOOLEAN
      /\ current_auction_cycle \in Nat
      /\ current_auction_cycle >= 1 /\ current_auction_cycle <= MaxNumber
      /\ is_over \in BOOLEAN /\ unclaimed_rewards \in Nat
      /\ children \in Seq(Seq(Bytes)) /\ Len(children) = current_auction_cycle
      /\ ChildUriShowsCycle
      /\ Fits(Numbered(Shown)) /\ uri = Puffed(Numbered(Shown))
  BY DEF UriInv
<1>3. uri' = uri
  BY <1>1, <1>2, MasterUri, ChildUri
<1>4. /\ children' = [children EXCEPT ![n] = Puffed(Numbered(n))]
      /\ Puffed(Numbered(n)) \in Seq(Bytes)
  <2>1. n \in Nat /\ WithNumber(uri, n) = Numbered(n)
    BY ChildUri
  <2>2. Numbered(n) \in Seq(Bytes) /\ Fits(Numbered(n))
    BY <1>1, <1>2, <2>1, NumberedIsText, TextElements
  <2> QED
    BY <1>1, <2>1, <2>2, PuffedIsPadded
<1>5. children' \in Seq(Seq(Bytes)) /\ Len(children') = Len(children)
      /\ DOMAIN children' = DOMAIN children
      /\ \A m \in DOMAIN children :
             children'[m] = IF m = n THEN Puffed(Numbered(n)) ELSE children[m]
  BY <1>2, <1>4, ExceptSeq
<1>6. ChildUriShowsCycle'
  <2>1. \A m : Numbered(m)' = Numbered(m)
    BY <1>1 DEF Numbered
  <2> QED
    BY <1>2, <1>5, <2>1 DEF ChildUriShowsCycle, Puffed
<1>7. Shown' = Shown /\ Numbered(Shown)' = Numbered(Shown)
  BY <1>1 DEF Shown, Numbered
<1>8. Fits(Numbered(Shown))' /\ (uri = Puffed(Numbered(Shown)))'
  BY <1>2, <1>3, <1>7 DEF Fits, Puffed
<1>9. unclaimed_rewards' \in Nat
  BY <1>1, <1>2
<1> QED
  BY <1>1, <1>2, <1>5, <1>6, <1>8, <1>9 DEF UriInv

LEMMA UriInvStep ==
    ASSUME UriInv, [Next]_vars PROVE UriInv'
<1>1. CASE CloseCycle
  BY <1>1, CloseCycleUri
<1>2. ASSUME NEW n \in DOMAIN children, ClaimRewards(n) PROVE UriInv'
  BY <1>2, ClaimRewardsUri
<1>3. CASE CycleEnds \/ Reactivate \/ UNCHANGED vars
  <2>1. /\ is_over' \in BOOLEAN
        /\ UNCHANGED <<config, current_auction_cycle, is_finished, unclaimed_rewards, uri,
                       children>>
    BY <1>3 DEF CycleEnds, Reactivate, vars, UriInv
  <2> QED
    BY <2>1 DEF config, UriInv, ChildUriShowsCycle, Shown, Numbered, Fits, Puffed
<1> QED
  BY <1>1, <1>2, <1>3 DEF Next

(* The stored URI is the padded text with the number shown, always. *)
THEOREM UriInvariance == Spec => []UriInv
<1>1. Init => UriInv
  BY UriInvInit
<1>2. UriInv /\ [Next]_vars => UriInv'
  BY UriInvStep
<1> QED
  BY <1>1, <1>2, PTL DEF Spec

-----------------------------------------------------------------------------
(* The properties *)

(* However cycles are closed and rewards claimed, before or after their    *)
(* cycle is closed, the master's URI is the directory with the number of   *)
(* the running cycle: increment_uri and the renumbering of a claim find    *)
(* the number among any other slashes, dots, digits and zero bytes,        *)
(* whatever its length.                                                    *)
THEOREM MasterUriIsRight == Spec => []MasterUriShowsCycle
<1>1. UriInv => MasterUriShowsCycle
  BY DEF UriInv, MasterUriShowsCycle, Shown
<1> QED
  BY <1>1, UriInvariance, PTL

(* The URI a child inherits has the number of the cycle it was claimed     *)
(* for, whichever number the master shows at that time.                    *)
THEOREM ChildUrisAreRight == Spec => []ChildUriShowsCycle
<1>1. UriInv => ChildUriShowsCycle
  BY DEF UriInv
<1> QED
  BY <1>1, UriInvariance, PTL

(* The searches of close_auction_cycle and claim_rewards never fail and    *)
(* never panic: where the counter of unclaimed rewards and the cycle       *)
(* number allow it, nothing but a number that makes the URI too long keeps *)
(* a cycle from being closed or a due reward from being claimed.           *)
THEOREM UriStopsByLengthAlone == Spec => []UriStopsByLengthOnly
<1>1. ASSUME UriInv PROVE UriStopsByLengthOnly
  <2>1. /\ Shown \in Nat /\ Shown <= MaxNumber
        /\ HasNumber(uri) /\ Number(uri) = Shown
        /\ \A n \in Nat : WithNumber(uri, n) = Numbered(n)
    BY <1>1, MasterUri
  <2>2. ASSUME ~is_finished, is_over, unclaimed_rewards < MaxUnclaimed,
               \/ IsLastAuctionCycle
               \/ /\ current_auction_cycle < MaxNumber
                  /\ is_repeating \/ Fits(Numbered(current_auction_cycle + 1))
        PROVE  CanClose
    <3> SUFFICES ASSUME ~is_repeating
                 PROVE  /\ CanIncrement(uri, IsLastAuctionCycle)
                        /\ Fits(IncrementUri(uri, IsLastAuctionCycle))
      BY <2>2 DEF CanClose
    <3>1. Shown = current_auction_cycle /\ Fits(Numbered(Shown))
      BY <1>1, <2>2 DEF Shown, UriInv
    <3>2. CanIncrement(uri, IsLastAuctionCycle)
      BY <2>1, <2>2, <3>1 DEF CanIncrement
    <3>3. CASE IsLastAuctionCycle
      <4>1. IncrementUri(uri, IsLastAuctionCycle) = Numbered(0)
        BY <2>1, <3>3 DEF IncrementUri
      <4>2. Fits(Numbered(0))
        BY <1>1, <2>1, <3>1, ZeroIsShortest
      <4> QED
        BY <3>2, <4>1, <4>2
    <3>4. CASE ~IsLastAuctionCycle
      <4>1. IncrementUri(uri, IsLastAuctionCycle) = Numbered(current_auction_cycle + 1)
        BY <2>1, <3>1, <3>4 DEF IncrementUri
      <4> QED
        BY <2>2, <3>2, <3>4, <4>1
    <3> QED
      BY <3>3, <3>4
  <2>3. ASSUME NEW n \in DOMAIN children,
               IsDue(n), unclaimed_rewards > 0, Fits(Numbered(n))
        PROVE  CanClaim(n)
    <3>1. n \in Nat /\ WithNumber(uri, n) = Numbered(n) /\ HasNumber(Numbered(n))
      BY <1>1, ChildUri
    <3> QED
      BY <2>1, <2>3, <3>1 DEF CanClaim
  <2> QED
    BY <2>2, <2>3 DEF UriStopsByLengthOnly
<1> QED
  BY <1>1, UriInvariance, PTL

=============================================================================
