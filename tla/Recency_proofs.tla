--------------------------- MODULE Recency_proofs ---------------------------
(* What the order of rows by a time column keeps, and that there is a latest  *)
(* row.  Bargain_proofs and LiveFloor_proofs rest on it, and ClientCart_proofs *)
(* on the least number it begins with.                                        *)
EXTENDS Recency, WellFoundedInduction, TLAPS

-----------------------------------------------------------------------------
(* Least and greatest numbers.                                             *)

\* Every set of natural numbers that is not empty has a least element.
LEMMA HasLeast ==
    ASSUME NEW T, T \subseteq Nat, T # {}
    PROVE  \E x \in T : \A y \in T : x <= y
<1> DEFINE R == OpToRel(<, Nat)
<1>1. PICK x \in T : \A y \in T : ~ (<<y, x>> \in R)
  <2>1. IsWellFoundedOn(R, Nat)
    BY NatLessThanWellFounded
  <2> HIDE DEF R
  <2>2. QED
    BY <2>1, WFMin
<1>2. ASSUME NEW y \in T PROVE x <= y
  <2>1. <<y, x>> \notin R
    BY <1>1
  <2>2. ~(y < x)
    BY <2>1 DEF OpToRel
  <2>3. QED
    BY <2>2
<1>3. QED
  BY <1>2

\* Every set of numbers up to n that is not empty has a greatest element.
LEMMA HasGreatest ==
    ASSUME NEW n \in Nat, NEW T, T \subseteq 0..n, T # {}
    PROVE  \E x \in T : \A y \in T : y <= x
<1> DEFINE D == {m \in Nat : \E x \in T : m = n - x}
<1>1. PICK z \in T : TRUE
  OBVIOUS
<1>2. n - z \in D
  BY <1>1
<1>3. PICK d \in D : \A e \in D : d <= e
  BY <1>2, HasLeast
<1>4. PICK x \in T : d = n - x
  BY <1>3
<1>5. ASSUME NEW y \in T PROVE y <= x
  <2>1. n - y \in D
    OBVIOUS
  <2>2. d <= n - y
    BY <1>3, <2>1
  <2>3. QED
    BY <1>4, <2>2
<1>6. QED
  BY <1>5

-----------------------------------------------------------------------------
(* The order.                                                              *)

\* A sequence in which every one of n rows has a place.
Ordered(s, n) == /\ s \in Seq(1..n) /\ Len(s) = n
                 /\ \A b \in 1..n : \E i \in 1..n : s[i] = b

\* A row that is touched moves behind the others.
LEMMA TouchedOK ==
    ASSUME NEW n \in Nat, NEW s, Ordered(s, n), NEW b \in 1..n
    PROVE  Ordered(Touched(s, b), n)
<1> DEFINE k == CHOOSE i \in DOMAIN s : s[i] = b
           t == [i \in 1..n |-> IF i < k THEN s[i]
                                ELSE IF i < n THEN s[i + 1] ELSE b]
<1>1. DOMAIN s = 1..n /\ Len(s) = n /\ \A i \in 1..n : s[i] \in 1..n
  <2> DEFINE S == 1..n
  <2>1. s \in Seq(S) /\ Len(s) = n
    BY DEF Ordered
  <2> HIDE DEF S
  <2>2. DOMAIN s = 1..n /\ \A i \in 1..n : s[i] \in S
    BY <2>1
  <2>3. QED
    BY <2>1, <2>2 DEF S
<1>2. k \in 1..n /\ s[k] = b
  BY <1>1 DEF Ordered
<1>3. Touched(s, b) = t
  BY <1>1 DEF Touched
<1> HIDE DEF k
<1>4. \A i \in 1..n : t[i] = IF i < k THEN s[i]
                             ELSE IF i < n THEN s[i + 1] ELSE b
  OBVIOUS
<1>5. \A i \in 1..n : t[i] \in 1..n
  <2> SUFFICES ASSUME NEW i \in 1..n PROVE t[i] \in 1..n
    OBVIOUS
  <2>1. CASE i < k
    BY <1>1, <1>4, <2>1
  <2>2. CASE ~(i < k) /\ i < n
    BY <1>1, <1>4, <2>2
  <2>3. CASE ~(i < k) /\ ~(i < n)
    BY <1>4, <2>3
  <2>4. QED
    BY <2>1, <2>2, <2>3
<1>6. t \in Seq(1..n) /\ Len(t) = n
  <2> DEFINE S == 1..n
  <2>1. t \in [1..n -> S]
    BY <1>5
  <2> HIDE DEF S
  <2>2. t \in Seq(S) /\ Len(t) = n
    BY <2>1
  <2>3. QED
    BY <2>2 DEF S
<1> HIDE DEF t
<1>7. ASSUME NEW x \in 1..n PROVE \E i \in 1..n : t[i] = x
  <2>1. PICK i \in 1..n : s[i] = x
    BY DEF Ordered
  <2>2. CASE x = b
    <3>1. n \in 1..n /\ t[n] = b
      BY <1>2, <1>4
    <3>2. QED
      BY <2>2, <3>1
  <2>3. CASE x # b /\ i < k
    BY <1>4, <2>1, <2>3
  <2>4. CASE x # b /\ i >= k
    <3>1. i > k /\ i - 1 \in 1..n
      BY <1>2, <2>1, <2>4
    <3>2. t[i - 1] = s[i]
      BY <1>2, <1>4, <3>1
    <3>3. QED
      BY <2>1, <3>1, <3>2
  <2>5. QED
    BY <1>2, <2>2, <2>3, <2>4
<1>8. QED
  BY <1>3, <1>6, <1>7 DEF Ordered

\* A new row comes last.
LEMMA AppendedOK ==
    ASSUME NEW n \in Nat, NEW s, Ordered(s, n)
    PROVE  Ordered(Append(s, n + 1), n + 1)
<1> DEFINE t == Append(s, n + 1)
<1>1. /\ t \in Seq(1..(n + 1)) /\ Len(t) = n + 1 /\ t[n + 1] = n + 1
      /\ \A i \in 1..n : t[i] = s[i]
  BY DEF Ordered
<1> HIDE DEF t
<1>2. ASSUME NEW b \in 1..(n + 1) PROVE \E i \in 1..(n + 1) : t[i] = b
  <2>1. CASE b = n + 1
    BY <1>1, <2>1
  <2>2. CASE b # n + 1
    <3>1. PICK i \in 1..n : s[i] = b
      BY <2>2 DEF Ordered
    <3>2. QED
      BY <1>1, <3>1
  <2>3. QED
    BY <2>1, <2>2
<1>3. QED
  BY <1>1, <1>2 DEF Ordered, t

\* The latest of some rows is one of them.
LEMMA LatestOK ==
    ASSUME NEW n \in Nat, NEW s, Ordered(s, n), NEW rows, rows \subseteq 1..n,
           rows # {}
    PROVE  Latest(s, rows) \in rows
<1> DEFINE T == {Position(s, b) : b \in rows}
<1>1. DOMAIN s = 1..n
  BY DEF Ordered
<1>2. ASSUME NEW b \in rows PROVE Position(s, b) \in 1..n
  <2>1. \E i \in DOMAIN s : s[i] = b
    BY <1>1 DEF Ordered
  <2>2. QED
    BY <1>1, <2>1 DEF Position
<1>3. T \subseteq 0..n /\ T # {}
  <2>1. \A b \in rows : Position(s, b) \in 0..n
    BY <1>2
  <2>2. PICK b \in rows : TRUE
    OBVIOUS
  <2>3. Position(s, b) \in T
    OBVIOUS
  <2>4. QED
    BY <2>1, <2>3
<1>4. PICK m \in T : \A y \in T : y <= m
  BY <1>3, HasGreatest
<1>5. PICK b \in rows : m = Position(s, b)
  BY <1>4
<1>6. \A x \in rows : Position(s, x) <= Position(s, b)
  BY <1>4, <1>5
<1>7. \E c \in rows : \A x \in rows : Position(s, x) <= Position(s, c)
  BY <1>6
<1>8. QED
  BY <1>7, Zenon DEF Latest
=============================================================================
