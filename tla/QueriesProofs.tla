---------------------------- MODULE QueriesProofs ----------------------------
(***************************************************************************)
(* What the queries show, for every shop, catalogue, opening hours, span   *)
(* and number of rows: dates and slots, the lists of a customer, search    *)
(* and profiles, quotes and created bookings.                              *)
(***************************************************************************)
EXTENDS SystemProofs, SystemQueries, ShopHours, Quotes, FiniteSetTheorems,
        SequenceTheorems, WellFoundedInduction

-----------------------------------------------------------------------------
(* Numbers, orders and pages.                                              *)

(* A set of naturals with an element has a least one, because inclusion is  *)
(* well-founded on the subsets of a finite set.  It stands for the          *)
(* induction theorems, whose predicate the provers cannot instantiate.      *)
LEMMA LeastNumber ==
  ASSUME NEW T \in SUBSET Nat, T # {}
  PROVE  \E m \in T : \A k \in T : m <= k
<1>1. PICK n \in T : TRUE
  OBVIOUS
<1> DEFINE S == 0..n
           R == StrictSubsetOrdering(S)
           U == {0..j : j \in {i \in T : i <= n}}
<1>2. IsWellFoundedOn(R, SUBSET S)
  <2>1. IsFiniteSet(S)
    BY FS_Interval
  <2> HIDE DEF S
  <2>2. FiniteSubsetsOf(S) = SUBSET S
    BY <2>1, FS_FiniteSubsetsOfFinite
  <2>3. IsWellFoundedOn(R, FiniteSubsetsOf(S))
    BY FS_StrictSubsetOrderingWellFounded
  <2>4. QED
    BY <2>2, <2>3
<1>3. U \in SUBSET (SUBSET S) /\ U # {}
  BY <1>1
<1>4. PICK x \in U : \A y \in U : ~ (<<y, x>> \in R)
  <2> HIDE DEF R, U, S
  <2>1. QED
    BY <1>2, <1>3, WFMin
<1>5. PICK m \in T : m <= n /\ x = 0..m
  BY <1>4
<1>6. ASSUME NEW k \in T, k < m
      PROVE  FALSE
  <2>1. 0..k \in U /\ k <= n
    BY <1>5, <1>6
  <2>2. <<0..k, 0..m>> \notin R
    BY <2>1, <1>5, <1>4
  <2>3. 0..k \subseteq 0..m
    BY <1>6
  <2>4. m \in 0..m /\ m \notin 0..k
    BY <1>6
  <2>5. <<0..k, 0..m>> \in (SUBSET S) \X (SUBSET S)
    BY <1>5, <2>1
  <2>6. QED
    BY <2>2, <2>3, <2>4, <2>5 DEF StrictSubsetOrdering
<1>7. QED
  BY <1>6

LEMMA Division ==
  ASSUME NEW c \in Nat, NEW d \in Nat \ {0}
  PROVE  /\ c \div d \in Nat /\ c % d \in 0..(d - 1)
         /\ c = (c \div d) * d + (c % d)
<1> DEFINE q == c \div d
           r == c % d
<1>1. q \in Nat /\ r \in Nat /\ c = q * d + r /\ r < d
  OBVIOUS
<1>2. r \in 0..(d - 1)
  <2> HIDE DEF q, r
  <2>1. QED
    BY <1>1
<1>3. QED
  BY <1>1, <1>2

(* A number has one quotient and one rest.                                  *)
LEMMA Quotient ==
  ASSUME NEW q \in Nat, NEW d \in Nat \ {0}, NEW r \in 0..(d - 1)
  PROVE  (q * d + r) \div d = q /\ (q * d + r) % d = r
<1> DEFINE c == q * d + r
           p == c \div d
           s == c % d
<1>1. c \in Nat
  OBVIOUS
<1>2. p \in Nat /\ s \in 0..(d - 1) /\ c = p * d + s
  BY <1>1, Division
<1>3. ASSUME NEW x \in Nat, NEW y \in Nat, NEW u \in 0..(d - 1),
             NEW v \in 0..(d - 1), x < y
      PROVE  x * d + u # y * d + v
  <2>1. PICK k \in Nat : y = x + 1 + k
    <3>1. y - x - 1 \in Nat /\ y = x + 1 + (y - x - 1)
      BY <1>3
    <3>2. QED
      BY <3>1
  <2>2. y * d = x * d + d + k * d
    BY <2>1
  <2>3. k * d \in Nat /\ x * d \in Nat
    BY <2>1
  <2>4. QED
    BY <2>2, <2>3
<1>4. p = q
  <2> HIDE DEF p, s
  <2>1. ~(p < q) /\ ~(q < p)
    BY <1>2, <1>3
  <2>2. QED
    BY <1>2, <2>1
<1>5. s = r
  <2> HIDE DEF p, s
  <2>1. q * d \in Nat
    OBVIOUS
  <2>2. QED
    BY <1>2, <1>4, <2>1
<1>6. QED
  BY <1>4, <1>5

(* A multiple of d up to c is one up to the quotient.                       *)
LEMMA Reached ==
  ASSUME NEW c \in Nat, NEW q \in Nat, NEW d \in Nat \ {0}
  PROVE  q * d <= c <=> q <= c \div d
<1> DEFINE p == c \div d
           r == c % d
<1>1. p \in Nat /\ r \in 0..(d - 1) /\ c = p * d + r
  BY Division
<1> HIDE DEF p, r
<1>2. ASSUME q <= p
      PROVE  q * d <= c
  <2>1. PICK k \in Nat : p = q + k
    <3>1. p - q \in Nat /\ p = q + (p - q)
      BY <1>1, <1>2
    <3>2. QED
      BY <3>1
  <2>2. p * d = q * d + k * d /\ k * d \in Nat /\ q * d \in Nat
    BY <2>1
  <2>3. QED
    BY <1>1, <2>2
<1>3. ASSUME p < q
      PROVE  ~(q * d <= c)
  <2>1. PICK k \in Nat : q = p + 1 + k
    <3>1. q - p - 1 \in Nat /\ q = p + 1 + (q - p - 1)
      BY <1>1, <1>3
    <3>2. QED
      BY <3>1
  <2>2. q * d = p * d + d + k * d /\ k * d \in Nat /\ p * d \in Nat
    BY <1>1, <2>1
  <2>3. QED
    BY <1>1, <2>2
<1>4. QED
  BY <1>1, <1>2, <1>3 DEF p

(* Orders of a finite set are sequences of all its elements.                *)
LEMMA OrderIsSeq ==
  ASSUME NEW S, IsFiniteSet(S), NEW q \in SetToSeqs(S)
  PROVE  /\ q \in Seq(S) /\ Len(q) = Cardinality(S) /\ Cardinality(S) \in Nat
         /\ \A x \in S : \E i \in 1..Len(q) : q[i] = x
         /\ \A i, j \in 1..Len(q) : q[i] = q[j] => i = j
<1> DEFINE n == Cardinality(S)
<1>1. n \in Nat
  BY FS_CardinalityType
<1>2. q \in [1..n -> S] /\ \A i, j \in 1..n : q[i] = q[j] => i = j
  BY DEF SetToSeqs
<1> HIDE DEF n
<1>3. q \in Seq(S) /\ Len(q) = n
  BY <1>1, <1>2
<1>4. q \in Injection(1..n, S)
  BY <1>2 DEF Injection, IsInjective
<1>5. Cardinality(1..n) = n
  BY <1>1, FS_Interval
<1>6. q \in Surjection(1..n, S)
  BY <1>4, <1>5, FS_Injection DEF n
<1>7. \A x \in S : \E i \in 1..n : q[i] = x
  BY <1>6 DEF Surjection
<1>8. QED
  BY <1>1, <1>2, <1>3, <1>7 DEF n

(* The rows of a finite table can be ordered by a numeric column.           *)
LEMMA SortedOrder ==
  ASSUME NEW S, IsFiniteSet(S), NEW key, \A x \in S : key[x] \in Nat
  PROVE  \E q \in SetToSeqs(S) : \A i, j \in DOMAIN q : i < j => key[q[i]] <= key[q[j]]
<1> DEFINE Sorted(n, T) ==
             \E q \in [1..n -> T] :
               /\ \A i, j \in 1..n : i # j => q[i] # q[j]
               /\ \A i, j \in 1..n : i < j => key[q[i]] <= key[q[j]]
           Good(n) == \A T \in SUBSET S : Cardinality(T) = n => Sorted(n, T)
<1>1. Good(0)
  <2>1. SUFFICES ASSUME NEW T \in SUBSET S PROVE Sorted(0, T)
    OBVIOUS
  <2> DEFINE q == [i \in 1..0 |-> 0]
  <2>2. q \in [1..0 -> T] /\ 1..0 = {}
    OBVIOUS
  <2> HIDE DEF q
  <2>3. QED
    BY <2>2
<1>2. ASSUME NEW n \in Nat, Good(n)
      PROVE  Good(n + 1)
  <2>1. SUFFICES ASSUME NEW T \in SUBSET S, Cardinality(T) = n + 1
                 PROVE  Sorted(n + 1, T)
    OBVIOUS
  <2>2. IsFiniteSet(T) /\ T # {}
    <3>1. IsFiniteSet(T)
      BY FS_Subset
    <3>2. n + 1 # 0
      OBVIOUS
    <3>3. QED
      BY <2>1, <3>1, <3>2, FS_EmptySet
  <2>3. PICK m \in T : \A x \in T : key[m] <= key[x]
    <3> DEFINE keys == {key[x] : x \in T}
    <3>1. keys \in SUBSET Nat /\ keys # {}
      BY <2>2
    <3> HIDE DEF keys
    <3>2. PICK k \in keys : \A l \in keys : k <= l
      BY <3>1, LeastNumber
    <3>3. QED
      BY <3>2 DEF keys
  <2>4. Cardinality(T \ {m}) = n
    <3>1. Cardinality(T \ {m}) = Cardinality(T) - 1
      BY <2>2, <2>3, FS_RemoveElement
    <3>2. QED
      BY <2>1, <3>1
  <2>5. PICK q \in [1..n -> T \ {m}] :
          /\ \A i, j \in 1..n : i # j => q[i] # q[j]
          /\ \A i, j \in 1..n : i < j => key[q[i]] <= key[q[j]]
    BY <1>2, <2>4
  <2> DEFINE r == [i \in 1..(n + 1) |-> IF i = 1 THEN m ELSE q[i - 1]]
  <2>6. \A i \in 1..(n + 1) : i # 1 => i - 1 \in 1..n
    OBVIOUS
  <2>7. r \in [1..(n + 1) -> T]
    BY <2>3, <2>5, <2>6
  <2>8. /\ r[1] = m
        /\ \A i \in 1..(n + 1) : i # 1 => i - 1 \in 1..n /\ r[i] = q[i - 1]
    BY <2>6
  <2> HIDE DEF r
  <2>9. \A i, j \in 1..(n + 1) : i # j => r[i] # r[j]
    BY <2>5, <2>8
  <2>10. ASSUME NEW i \in 1..(n + 1), NEW j \in 1..(n + 1), i < j
         PROVE  key[r[i]] <= key[r[j]]
    <3>1. j # 1
      BY <2>10
    <3>2. j - 1 \in 1..n /\ r[j] = q[j - 1] /\ q[j - 1] \in T
      BY <2>5, <2>8, <3>1
    <3>3. CASE i = 1
      BY <2>3, <2>8, <3>2, <3>3
    <3>4. CASE i # 1
      <4>1. i - 1 \in 1..n /\ r[i] = q[i - 1]
        BY <2>8, <3>4
      <4>2. i - 1 < j - 1
        BY <2>10
      <4>3. QED
        BY <2>5, <3>2, <4>1, <4>2
    <3>5. QED
      BY <3>3, <3>4
  <2>11. QED
    BY <2>7, <2>9, <2>10
<1> DEFINE N == Cardinality(S)
<1> HIDE DEF Good
<1>3. N \in Nat
  BY FS_CardinalityType
<1>4. Good(N)
  <2> DEFINE T == {n \in Nat : ~Good(n)}
  <2> HIDE DEF N
  <2>1. SUFFICES ASSUME T # {} PROVE FALSE
    BY <1>3
  <2>2. PICK m \in T : \A k \in T : m <= k
    BY <2>1, LeastNumber
  <2>3. m # 0
    BY <1>1, <2>2
  <2>4. m - 1 \in Nat /\ Good(m - 1)
    BY <2>2, <2>3
  <2>5. Good((m - 1) + 1)
    BY <2>4, <1>2
  <2>6. QED
    BY <2>5, <2>4, <2>2
<1>5. Sorted(N, S)
  BY <1>4 DEF Good
<1>6. QED
  BY <1>5 DEF SetToSeqs

(* ... and by one that sorts the other way.                                 *)
LEMMA FallingOrder ==
  ASSUME NEW S, IsFiniteSet(S), NEW key, \A x \in S : key[x] \in Nat
  PROVE  \E q \in SetToSeqs(S) : \A i, j \in DOMAIN q : i < j => key[q[i]] >= key[q[j]]
<1> DEFINE n == Cardinality(S)
<1>1. n \in Nat
  BY FS_CardinalityType
<1>2. PICK p \in SetToSeqs(S) : \A i, j \in DOMAIN p : i < j => key[p[i]] <= key[p[j]]
  BY SortedOrder
<1>3. p \in [1..n -> S] /\ \A i, j \in 1..n : p[i] = p[j] => i = j
  BY DEF SetToSeqs
<1> DEFINE q == [i \in 1..n |-> p[n + 1 - i]]
<1> HIDE DEF n
<1>4. \A i \in 1..n : n + 1 - i \in 1..n
  BY <1>1
<1>5. q \in [1..n -> S] /\ DOMAIN q = 1..n /\ \A i \in 1..n : q[i] = p[n + 1 - i]
  BY <1>3, <1>4
<1> HIDE DEF q
<1>6. ASSUME NEW i \in 1..n, NEW j \in 1..n, q[i] = q[j]
      PROVE  i = j
  <2>1. n + 1 - i = n + 1 - j
    BY <1>3, <1>4, <1>5, <1>6
  <2>2. QED
    BY <1>1, <2>1
<1>7. ASSUME NEW i \in 1..n, NEW j \in 1..n, i < j
      PROVE  key[q[i]] >= key[q[j]]
  <2> DEFINE k == n + 1 - i
             m == n + 1 - j
  <2>1. k \in 1..n /\ m \in 1..n /\ m < k
    BY <1>1, <1>4, <1>7
  <2>2. q[i] = p[k] /\ q[j] = p[m] /\ p[k] \in S /\ p[m] \in S
    BY <1>3, <1>5, <2>1
  <2> HIDE DEF k, m
  <2>3. key[p[m]] <= key[p[k]]
    BY <1>2, <1>3, <2>1
  <2>4. QED
    BY <2>2, <2>3
<1>8. q \in SetToSeqs(S)
  BY <1>5, <1>6 DEF SetToSeqs, n
<1>9. QED
  BY <1>5, <1>7, <1>8

(* Two orders of a set by one column have the same key at every place, so   *)
(* only ties may have changed places.                                       *)
LEMMA NotBefore ==
  ASSUME NEW S, IsFiniteSet(S), NEW key, \A x \in S : key[x] \in Int,
         NEW p \in SetToSeqs(S), NEW q \in SetToSeqs(S),
         \A i, j \in DOMAIN p : i < j => key[p[i]] <= key[p[j]],
         \A i, j \in DOMAIN q : i < j => key[q[i]] <= key[q[j]],
         NEW i \in 1..Len(p)
  PROVE  key[q[i]] <= key[p[i]]
<1> DEFINE n == Cardinality(S)
<1>1. /\ n \in Nat /\ p \in Seq(S) /\ Len(p) = n /\ q \in Seq(S) /\ Len(q) = n
      /\ \A x \in S : \E m \in 1..n : q[m] = x
      /\ \A k, m \in 1..n : p[k] = p[m] => k = m
  <2>1. /\ p \in Seq(S) /\ Len(p) = n /\ n \in Nat
        /\ \A k, m \in 1..Len(p) : p[k] = p[m] => k = m
    BY OrderIsSeq
  <2>2. /\ q \in Seq(S) /\ Len(q) = n
        /\ \A x \in S : \E m \in 1..Len(q) : q[m] = x
    BY OrderIsSeq
  <2> HIDE DEF n
  <2>3. QED
    BY <2>1, <2>2
<1> HIDE DEF n
<1>2. /\ DOMAIN p = 1..n /\ DOMAIN q = 1..n /\ i \in 1..n
      /\ \A m \in 1..n : p[m] \in S /\ q[m] \in S
  BY <1>1
<1>3. SUFFICES ASSUME key[p[i]] < key[q[i]]
               PROVE  FALSE
  BY <1>2
<1>4. ASSUME NEW k \in 1..i
      PROVE  \E m \in 1..(i - 1) : q[m] = p[k]
  <2>1. k \in 1..n
    BY <1>1, <1>2
  <2>2. PICK m \in 1..n : q[m] = p[k]
    BY <1>1, <1>2, <2>1
  <2>3. key[p[k]] <= key[p[i]]
    <3>1. CASE k = i
      BY <1>2, <3>1
    <3>2. CASE k # i
      <4>1. k < i
        BY <1>2, <2>1, <3>2
      <4>2. QED
        BY <1>2, <2>1, <4>1
    <3>3. QED
      BY <3>1, <3>2
  <2>4. key[q[m]] < key[q[i]]
    <3>1. /\ key[p[k]] \in Int /\ key[p[i]] \in Int /\ key[q[i]] \in Int
          /\ key[q[m]] = key[p[k]]
      BY <1>2, <2>1, <2>2
    <3>2. QED
      BY <1>3, <2>3, <3>1
  <2>5. ~(i < m) /\ i # m
    <3>1. i < m => key[q[i]] <= key[q[m]]
      BY <1>2
    <3>2. key[q[m]] \in Int /\ key[q[i]] \in Int
      BY <1>2
    <3>3. QED
      BY <2>4, <3>1, <3>2
  <2>6. m \in 1..(i - 1)
    BY <1>1, <1>2, <2>5
  <2>7. QED
    BY <2>2, <2>6
<1> DEFINE f == [k \in 1..i |-> CHOOSE m \in 1..(i - 1) : q[m] = p[k]]
<1>5. \A k \in 1..i : f[k] \in 1..(i - 1) /\ q[f[k]] = p[k]
  BY <1>4
<1>6. f \in [1..i -> 1..(i - 1)]
  BY <1>5
<1> HIDE DEF f
<1>7. /\ IsFiniteSet(1..i) /\ Cardinality(1..i) = i
      /\ IsFiniteSet(1..(i - 1)) /\ Cardinality(1..(i - 1)) = i - 1
  <2>1. i \in Nat /\ i >= 1 /\ i \in Int /\ i - 1 \in Int /\ 1 \in Int
    BY SMTT(60), <1>1, <1>2
  <2>2. IsFiniteSet(1..i) /\ Cardinality(1..i) = IF 1 > i THEN 0 ELSE i-1+1
    BY <2>1, FS_Interval
  <2> DEFINE j == i - 1
  <2>3. /\ IsFiniteSet(1..j)
        /\ Cardinality(1..j) = IF 1 > j THEN 0 ELSE j-1+1
    <3> HIDE DEF j
    <3>1. j \in Int
      BY <2>1 DEF j
    <3>2. QED
      BY <2>1, <3>1, FS_Interval
  <2>4. Cardinality(1..i) = i
    BY <2>1, <2>2
  <2>5. Cardinality(1..(i - 1)) = i - 1
    BY <2>1, <2>3
  <2>6. QED
    BY <2>2, <2>3, <2>4, <2>5
<1>8. PICK x, y \in 1..i : x # y /\ f[x] = f[y]
  <2>1. Cardinality(1..(i - 1)) < Cardinality(1..i)
    BY <1>1, <1>2, <1>7
  <2>2. QED
    BY <1>6, <1>7, <2>1, FS_PigeonHole
<1>9. x \in 1..n /\ y \in 1..n /\ p[x] = p[y]
  <2>1. x \in 1..n /\ y \in 1..n
    BY <1>1, <1>2, <1>8
  <2>2. q[f[x]] = p[x] /\ q[f[y]] = p[y] /\ f[x] = f[y]
    BY Zenon, <1>5, <1>8
  <2>3. QED
    BY <2>1, <2>2
<1>10. QED
  BY <1>1, <1>8, <1>9

OnOnePage(row, list, perPage) ==
  \E p \in 1..TotalPages(Len(list), perPage) :
    \A n \in 1..TotalPages(Len(list), perPage) :
      row \in Range(PageOf(list, n, perPage)) <=> n = p

Offset(n, d) == (n - 1) * d

End(n, d, len) == IF n * d > len THEN len ELSE n * d

LEMMA Offsets ==
  ASSUME NEW d \in Nat \ {0}, NEW n \in Nat \ {0}, NEW len \in Nat
  PROVE  /\ Offset(n, d) \in Nat /\ n * d \in Nat /\ n * d = Offset(n, d) + d
         /\ End(n, d, len) \in Nat /\ End(n, d, len) <= len
<1>1. PICK m \in Nat : n = m + 1
  <2>1. n - 1 \in Nat /\ n = (n - 1) + 1
    OBVIOUS
  <2>2. QED
    BY <2>1
<1>2. m * d \in Nat /\ n * d = m * d + d /\ n - 1 = m
  BY <1>1
<1>3. Offset(n, d) \in Nat /\ n * d \in Nat /\ n * d = Offset(n, d) + d
  BY <1>2 DEF Offset
<1> DEFINE e == n * d
<1>4. e \in Nat /\ End(n, d, len) = IF e > len THEN len ELSE e
  BY <1>3 DEF End
<1> HIDE DEF e
<1>5. QED
  BY <1>3, <1>4

(* A part of a list has its rows from its start on.                         *)
LEMMA SliceShows ==
  ASSUME NEW S, NEW list \in Seq(S), NEW lo \in Nat, NEW hi \in Nat, hi <= Len(list)
  PROVE  /\ SubSeq(list, lo + 1, hi) \in Seq(S)
         /\ Len(SubSeq(list, lo + 1, hi)) = IF lo + 1 <= hi THEN hi - lo ELSE 0
         /\ \A i \in DOMAIN SubSeq(list, lo + 1, hi) :
              /\ lo + i \in 1..Len(list) /\ lo + i <= hi
              /\ SubSeq(list, lo + 1, hi)[i] = list[lo + i]
<1> DEFINE shown == SubSeq(list, lo + 1, hi)
<1>1. /\ shown \in Seq(S)
      /\ Len(shown) = IF lo + 1 <= hi THEN hi - (lo + 1) + 1 ELSE 0
      /\ \A i \in 1..(hi - (lo + 1) + 1) : shown[i] = list[(lo + 1) + i - 1]
  <2>1. \A i \in (lo + 1)..hi : list[i] \in S
    OBVIOUS
  <2>2. lo + 1 \in Int /\ hi \in Int
    OBVIOUS
  <2>3. QED
    BY <2>1, <2>2, SubSeqProperties
<1> HIDE DEF shown
<1>2. Len(shown) = (IF lo + 1 <= hi THEN hi - lo ELSE 0) /\ DOMAIN shown = 1..Len(shown)
  BY <1>1
<1>3. ASSUME NEW i \in DOMAIN shown
      PROVE  lo + i \in 1..Len(list) /\ lo + i <= hi /\ shown[i] = list[lo + i]
  <2>1. i \in 1..(hi - lo)
    BY <1>2
  <2>2. i \in 1..(hi - (lo + 1) + 1) /\ (lo + 1) + i - 1 = lo + i
    BY <2>1
  <2>3. lo + i \in 1..Len(list) /\ lo + i <= hi
    BY <2>1
  <2>4. QED
    BY <1>1, <2>2, <2>3
<1>4. QED
  BY <1>1, <1>2, <1>3 DEF shown

(* A page has the rows of a list from its offset on.                        *)
LEMMA PageShows ==
  ASSUME NEW S, NEW list \in Seq(S), NEW d \in Nat \ {0}, NEW n \in Nat \ {0}
  PROVE  /\ PageOf(list, n, d) \in Seq(S)
         /\ Len(PageOf(list, n, d)) = IF Offset(n, d) + 1 <= End(n, d, Len(list))
                                      THEN End(n, d, Len(list)) - Offset(n, d) ELSE 0
         /\ \A i \in DOMAIN PageOf(list, n, d) :
              /\ Offset(n, d) + i \in 1..Len(list)
              /\ Offset(n, d) + i <= End(n, d, Len(list))
              /\ PageOf(list, n, d)[i] = list[Offset(n, d) + i]
<1>1. PageOf(list, n, d) = SubSeq(list, Offset(n, d) + 1, End(n, d, Len(list)))
  BY DEF PageOf, Offset, End
<1>2. /\ Len(list) \in Nat /\ Offset(n, d) \in Nat /\ End(n, d, Len(list)) \in Nat
      /\ End(n, d, Len(list)) <= Len(list)
  <2>1. Len(list) \in Nat
    OBVIOUS
  <2>2. QED
    BY <2>1, Offsets
<1>3. QED
  BY SMTT(60), <1>1, <1>2, SliceShows

(* Two lists of one length have the rows of a page at the same places.      *)
LEMMA SamePlace ==
  ASSUME NEW S, NEW p \in Seq(S), NEW q \in Seq(S), Len(p) = Len(q),
         NEW d \in Nat \ {0}, NEW n \in Nat \ {0}, NEW k \in DOMAIN PageOf(p, n, d)
  PROVE  /\ k \in DOMAIN PageOf(q, n, d)
         /\ \E i \in 1..Len(p) : PageOf(p, n, d)[k] = p[i] /\ PageOf(q, n, d)[k] = q[i]
<1> DEFINE Shows(r) == /\ PageOf(r, n, d) \in Seq(S)
                       /\ \A i \in DOMAIN PageOf(r, n, d) :
                            /\ Offset(n, d) + i \in 1..Len(r)
                            /\ PageOf(r, n, d)[i] = r[Offset(n, d) + i]
<1>1. ASSUME NEW r \in Seq(S)
      PROVE  Shows(r)
  BY PageShows
<1>2. Shows(p) /\ Shows(q)
  <2> HIDE DEF Shows
  <2>1. QED
    BY <1>1
<1>3. Len(PageOf(p, n, d)) = Len(PageOf(q, n, d))
  <2> DEFINE length(len) == IF Offset(n, d) + 1 <= End(n, d, len)
                            THEN End(n, d, len) - Offset(n, d) ELSE 0
  <2>1. Len(PageOf(p, n, d)) = length(Len(p))
    BY PageShows
  <2>2. Len(PageOf(q, n, d)) = length(Len(q))
    BY PageShows
  <2> HIDE DEF length
  <2>3. QED
    BY <2>1, <2>2
<1>4. DOMAIN PageOf(p, n, d) = DOMAIN PageOf(q, n, d)
  <2>1. /\ DOMAIN PageOf(p, n, d) = 1..Len(PageOf(p, n, d))
        /\ DOMAIN PageOf(q, n, d) = 1..Len(PageOf(q, n, d))
    BY <1>2
  <2>2. QED
    BY <1>3, <2>1
<1>5. QED
  BY <1>2, <1>4

(* Every row is on exactly one of the pages promised, and the page after    *)
(* them is empty.                                                           *)
LEMMA PagesShowAll ==
  ASSUME NEW S, NEW list \in Seq(S), NEW perPage \in Nat \ {0},
         \A i, k \in 1..Len(list) : list[i] = list[k] => i = k,
         NEW j \in 1..Len(list)
  PROVE  /\ TotalPages(Len(list), perPage) \in Nat
         /\ OnOnePage(list[j], list, perPage)
         /\ PageOf(list, TotalPages(Len(list), perPage) + 1, perPage) = <<>>
<1> DEFINE N == Len(list)
           d == perPage
           T == TotalPages(N, d)
           q == (j - 1) \div d
<1>1. N \in Nat /\ d \in Nat \ {0} /\ j \in 1..N /\ j - 1 \in Nat /\ N + d - 1 \in Nat
  OBVIOUS
<1>2. T = (N + d - 1) \div d
  BY DEF TotalPages
<1>3. T \in Nat /\ q \in Nat
  <2> HIDE DEF N, d
  <2>1. QED
    BY ZenonT(60), <1>1, <1>2, Division
<1>4. q + 1 \in 1..T
  <2> HIDE DEF N, d, T
  <2>1. q * d <= j - 1
    BY <1>1, <1>3, Reached
  <2> HIDE DEF q
  <2>2. q * d \in Nat /\ (q + 1) * d = q * d + d
    BY <1>1, <1>3
  <2>3. (q + 1) * d <= N + d - 1
    BY <1>1, <1>3, <2>1, <2>2
  <2>4. q + 1 <= T
    <3>1. q + 1 \in Nat
      BY <1>3
    <3>2. QED
      BY <1>1, <1>2, <2>3, <3>1, Reached
  <2>5. QED
    BY <1>3, <2>4
<1>5. ASSUME NEW n \in Nat \ {0}
      PROVE  list[j] \in Range(PageOf(list, n, d)) <=> n = q + 1
  <2> DEFINE lo == Offset(n, d)
             hi == End(n, d, N)
             shown == PageOf(list, n, d)
  <2>1. lo \in Nat /\ n * d \in Nat /\ hi \in Nat /\ hi <= N /\ n * d = lo + d
    BY <1>1, Offsets
  <2>2. hi = IF n * d > N THEN N ELSE n * d
    BY DEF End
  <2>3. shown \in Seq(S) /\ Len(shown) = IF lo + 1 <= hi THEN hi - lo ELSE 0
    BY PageShows
  <2>4. \A i \in DOMAIN shown : lo + i \in 1..N /\ lo + i <= hi /\ shown[i] = list[lo + i]
    BY PageShows
  <2> HIDE DEF lo, hi, shown, N, d
  <2>5. list[j] \in Range(shown) <=> lo + 1 <= j /\ j <= hi
    <3>1. ASSUME list[j] \in Range(shown)
          PROVE  lo + 1 <= j /\ j <= hi
      <4>1. PICK i \in DOMAIN shown : shown[i] = list[j]
        BY <3>1 DEF Range
      <4>2. lo + i = j
        BY <1>1, <2>4, <4>1 DEF N
      <4>3. i \in Nat /\ i >= 1
        BY <2>3, <4>1
      <4>4. QED
        BY <2>1, <2>4, <4>1, <4>2, <4>3
    <3>2. ASSUME lo + 1 <= j, j <= hi
          PROVE  list[j] \in Range(shown)
      <4>1. j - lo \in 1..Len(shown) /\ lo + (j - lo) = j
        BY <1>1, <2>1, <2>3, <3>2
      <4>2. j - lo \in DOMAIN shown
        BY <2>3, <4>1
      <4>3. shown[j - lo] = list[j]
        BY <2>4, <4>1, <4>2
      <4>4. QED
        BY <4>2, <4>3 DEF Range
    <3>3. QED
      BY <3>1, <3>2
  <2>6. j <= hi <=> j <= n * d
    BY <1>1, <2>1, <2>2
  <2>7. lo <= j - 1 <=> n - 1 <= q
    <3>1. n - 1 \in Nat
      OBVIOUS
    <3>2. QED
      BY <1>1, <3>1, Reached DEF lo, Offset
  <2>8. n * d <= j - 1 <=> n <= q
    BY <1>1, Reached
  <2> HIDE DEF q
  <2>9. (lo + 1 <= j /\ j <= n * d) <=> (n - 1 <= q /\ ~(n <= q))
    <3> DEFINE e == n * d
    <3> HIDE DEF e
    <3>1. e \in Nat /\ lo \in Nat /\ (lo <= j - 1 <=> n - 1 <= q) /\ (e <= j - 1 <=> n <= q)
      BY <2>1, <2>7, <2>8 DEF e
    <3>2. (lo + 1 <= j /\ j <= e) <=> (n - 1 <= q /\ ~(n <= q))
      BY <1>1, <3>1
    <3>3. QED
      BY <3>2 DEF e
  <2>10. (n - 1 <= q /\ ~(n <= q)) <=> n = q + 1
    BY <1>3
  <2>11. QED
    BY <2>5, <2>6, <2>9, <2>10 DEF d, shown
<1>6. PageOf(list, T + 1, d) = <<>>
  <2> DEFINE n  == T + 1
             lo == (n - 1) * d
             hi == IF n * d > N THEN N ELSE n * d
  <2>1. PageOf(list, n, d) = SubSeq(list, lo + 1, hi)
    <3> HIDE DEF n
    <3>1. QED
      BY DEF PageOf
  <2>2. lo \in Nat /\ n * d = lo + d
    <3> HIDE DEF T, N, d
    <3>1. n - 1 = T
      BY <1>3
    <3>2. T * d \in Nat /\ (T + 1) * d = T * d + d
      BY <1>1, <1>3
    <3>3. QED
      BY <3>1, <3>2
  <2>3. ~(n * d <= N + d - 1)
    <3> HIDE DEF T, N, d
    <3>1. T + 1 \in Nat /\ ~(T + 1 <= T)
      BY <1>3
    <3>2. QED
      BY <1>1, <1>2, <3>1, Reached
  <2> HIDE DEF n, N, d, lo
  <2>4. N <= lo /\ hi \in Int /\ hi <= N
    BY <1>1, <2>2, <2>3
  <2> HIDE DEF hi
  <2>5. lo + 1 \in Int /\ hi < lo + 1
    BY <1>1, <2>2, <2>4
  <2>6. SubSeq(list, lo + 1, hi) = <<>>
    BY <2>4, <2>5, SubSeqEmpty
  <2>7. PageOf(list, n, d) = <<>>
    BY <2>1, <2>6
  <2>8. QED
    BY <2>7 DEF n
<1>7. ASSUME NEW n \in 1..T
      PROVE  list[j] \in Range(PageOf(list, n, d)) <=> n = q + 1
  <2> HIDE DEF T, N, d, q
  <2>1. n \in Nat \ {0}
    BY <1>3
  <2>2. QED
    BY <1>5, <2>1
<1>8. QED
  <2> HIDE DEF T, q
  <2>1. QED
    BY <1>3, <1>4, <1>6, <1>7 DEF T, OnOnePage

-----------------------------------------------------------------------------
(* Opening hours.                                                           *)

HoursInv == hours \subseteq HoursRow /\ moment \in Nat

(* Less than a day before midnight of day 0 is the day before it.           *)
LEMMA DayBefore ==
  ASSUME NEW d \in Nat \ {0}, NEW r \in 0..(d - 1)
  PROVE  (r - d) \div d = -1
<1> DEFINE q == (r - d) \div d
           s == (r - d) % d
<1>1. q \in Int /\ s \in Nat /\ s < d /\ r - d = q * d + s
  OBVIOUS
<1> HIDE DEF q, s
<1>2. ~(q >= 0)
  <2>1. q >= 0 => q * d >= 0
    BY <1>1
  <2>2. QED
    BY <1>1, <2>1
<1>3. ~(q < -1)
  <2>1. ASSUME q < -1 PROVE FALSE
    <3>1. PICK k \in Nat : q = -2 - k
      <4>1. -2 - q \in Nat /\ q = -2 - (-2 - q)
        BY <1>1, <2>1
      <4>2. QED
        BY <4>1
    <3>2. q * d = -(2 * d) - k * d /\ k * d \in Nat
      BY <3>1
    <3>3. QED
      BY <1>1, <3>2
  <2>2. QED
    BY <2>1
<1>4. QED
  BY <1>1, <1>2, <1>3 DEF q

(* UTC gives a date its own weekday, and so does a server at or east of it; *)
(* one to the west gives it that of the day before.                         *)
LEMMA SameWeekday ==
  ASSUME NEW date \in Nat
  PROVE  /\ Weekday(ParsedDate(date)) = (date % 7) + 1
         /\ \A ahead \in ServerZones :
              Weekday(ParsedDate(date) + ahead)
                = ((IF ahead < 0 THEN date - 1 ELSE date) % 7) + 1
<1>1. DayLength \in Nat \ {0} /\ 0 \in 0..(DayLength - 1)
      /\ ServerZones \subseteq (1 - DayLength)..(DayLength - 1)
  BY OpeningsAssumption, ShopHoursAssumption
<1>2. ASSUME NEW ahead \in 0..(DayLength - 1)
      PROVE  (date * DayLength + ahead) \div DayLength = date
  BY <1>1, Quotient
<1>3. Weekday(ParsedDate(date)) = (date % 7) + 1
  <2>1. (date * DayLength + 0) \div DayLength = date
    BY <1>1, <1>2
  <2>2. date * DayLength + 0 = date * DayLength
    BY <1>1
  <2>3. QED
    BY <2>1, <2>2 DEF Weekday, ParsedDate
<1>4. ASSUME NEW ahead \in ServerZones, ahead < 0
      PROVE  (date * DayLength + ahead) \div DayLength = date - 1
  <2> DEFINE r == DayLength + ahead
  <2>1. r \in 0..(DayLength - 1) /\ ahead = r - DayLength
    BY <1>1, <1>4
  <2> HIDE DEF r
  <2>2. CASE date = 0
    <3>1. date * DayLength + ahead = r - DayLength
      BY <1>1, <2>1, <2>2
    <3>2. (r - DayLength) \div DayLength = -1
      BY <1>1, <2>1, DayBefore
    <3>3. QED
      BY <2>2, <3>1, <3>2
  <2>3. CASE date # 0
    <3>1. PICK k \in Nat : date = k + 1
      <4>1. date - 1 \in Nat /\ date = (date - 1) + 1
        BY <2>3
      <4>2. QED
        BY <4>1
    <3>2. date * DayLength = k * DayLength + DayLength /\ k * DayLength \in Nat
      BY <1>1, <3>1
    <3>3. date * DayLength + ahead = k * DayLength + r
      BY <1>1, <2>1, <3>2
    <3>4. (k * DayLength + r) \div DayLength = k
      BY <1>1, <2>1, Quotient
    <3>5. QED
      BY <3>1, <3>3, <3>4
  <2>4. QED
    BY <2>2, <2>3
<1>5. ASSUME NEW ahead \in ServerZones
      PROVE  Weekday(ParsedDate(date) + ahead)
               = ((IF ahead < 0 THEN date - 1 ELSE date) % 7) + 1
  <2>1. CASE ahead < 0
    BY <1>4, <2>1 DEF Weekday, ParsedDate
  <2>2. CASE ~(ahead < 0)
    <3>1. ahead \in 0..(DayLength - 1)
      BY <1>1, <2>2
    <3>2. QED
      BY <1>2, <2>2, <3>1 DEF Weekday, ParsedDate
  <2>3. QED
    BY <2>1, <2>2
<1>6. QED
  BY <1>3, <1>5

(* The slot that a moment inside the hours falls into starts a multiple of  *)
(* the slot's length after them.                                            *)
LEMMA SlotOf ==
  ASSUME NEW row \in HoursRow, NEW time \in Nat,
         row.start <= time, time < row.end
  PROVE  \/ \E slot \in GenerateSlots(row) :
              slot <= time /\ time < slot + SlotLength
         \/ row.end < time + SlotLength
<1> DEFINE L == SlotLength
           q == (time - row.start) \div L
           slot == row.start + q * L
<1>1. L \in Nat \ {0} /\ row.start \in Nat /\ row.end \in Nat
  BY OpeningsAssumption DEF HoursRow
<1>2. time - row.start \in Nat
  BY <1>1
<1>3. PICK r \in 0..(L - 1) : q \in Nat /\ time - row.start = q * L + r
  BY <1>1, <1>2, Division
<1>4. (q * L + 0) % L = 0 /\ q * L \in Nat
  <2> HIDE DEF q, L
  <2>1. 0 \in 0..(L - 1)
    BY <1>1
  <2>2. (q * L + 0) % L = 0
    BY <1>1, <1>3, <2>1, Quotient
  <2>3. q * L \in Nat
    BY <1>1, <1>3
  <2>4. QED
    BY <2>2, <2>3
<1>5. /\ slot \in row.start..row.end /\ slot - row.start = q * L + 0
      /\ slot <= time /\ time < slot + L
  <2> DEFINE m == q * L
  <2>1. /\ m \in Nat /\ row.start \in Nat /\ row.end \in Nat /\ L \in Nat
        /\ time - row.start = m + r /\ r < L /\ time < row.end
    BY <1>1, <1>3, <1>4
  <2> HIDE DEF m, L
  <2>2. /\ row.start + m \in row.start..row.end
        /\ row.start + m - row.start = m + 0
        /\ row.start + m <= time /\ time < row.start + m + L
    BY <2>1
  <2>3. slot = row.start + m /\ q * L + 0 = m + 0
    BY DEF m
  <2> HIDE DEF slot, q
  <2>4. QED
    BY <2>1, <2>2, <2>3
<1>6. CASE slot + L <= row.end
  <2>1. slot \in GenerateSlots(row)
    <3> HIDE DEF q, slot
    <3>1. QED
      BY <1>4, <1>5, <1>6 DEF GenerateSlots
  <2>2. QED
    BY <2>1, <1>5
<1>7. CASE ~(slot + L <= row.end)
  <2> HIDE DEF q, L
  <2>1. row.end < time + L
    BY <1>1, <1>3, <1>4, <1>5, <1>7
  <2>2. QED
    BY <2>1 DEF L
<1>8. QED
  BY <1>6, <1>7

(* Without items every slot of the hours is free, and there is one unless   *)
(* the hours are shorter than it.                                           *)
LEMMA SlotsOfHours ==
  ASSUME NEW row \in HoursRow, NEW date
  PROVE  /\ TimeSlots(row, date, {}) = GenerateSlots(row)
         /\ GenerateSlots(row) = {} => row.end - row.start < SlotLength
<1>1. TimeSlots(row, date, {}) = GenerateSlots(row)
  BY DEF TimeSlots, FreeSlot
<1>2. row.start \in Nat /\ row.end \in Nat /\ SlotLength \in Nat \ {0}
      /\ row.start <= row.end
  BY OpeningsAssumption DEF HoursRow
<1>3. ASSUME row.start + SlotLength <= row.end
      PROVE  row.start \in GenerateSlots(row)
  <2>1. row.start - row.start = 0 * SlotLength + 0 /\ 0 \in 0..(SlotLength - 1)
    BY <1>2
  <2>2. (row.start - row.start) % SlotLength = 0
    BY <2>1, <1>2, Quotient
  <2>3. QED
    BY <1>2, <1>3, <2>2 DEF GenerateSlots
<1>4. QED
  BY <1>1, <1>2, <1>3

(* The three readers of any rows, at any moment.                            *)
LEMMA ReadersAgree == HoursInv => OpenShopHasSlots
<1> DEFINE local == moment + ZoneAhead
           today == local \div DayLength
           time  == local % DayLength
           shown(date) == {row \in WorkingHours(hours, (date % 7) + 1) : ~row.closed}
<1>1. SUFFICES ASSUME HoursInv
               PROVE  OpenShopHasSlots
  OBVIOUS
<1>2. /\ DayLength \in Nat \ {0} /\ LookAhead \in Nat \ {0}
      /\ local \in Nat /\ today \in Nat /\ time \in Nat
  BY <1>1, OpeningsAssumption, Division DEF HoursInv
<1>3. ASSUME IsShopOpenNow(hours, moment)
      PROVE  \E row \in RowsFor(hours, today) :
               \/ \E slot \in TimeSlots(row, today, {}) :
                    slot <= time /\ time < slot + SlotLength
               \/ /\ row.start <= time /\ time < row.end
                  /\ row.end < time + SlotLength
  <2>1. PICK row \in hours : /\ ~row.closed /\ row.day = Weekday(local)
                             /\ row.start <= time /\ time < row.end
    BY <1>3 DEF IsShopOpenNow
  <2>2. Weekday(local) = (today % 7) + 1
    BY DEF Weekday
  <2> HIDE DEF local, today, time
  <2>3. row \in RowsFor(hours, today)
    BY <1>2, <2>1, <2>2, SameWeekday DEF RowsFor
  <2>4. row \in HoursRow
    BY <1>1, <2>1 DEF HoursInv
  <2>5. \/ \E slot \in TimeSlots(row, today, {}) :
             slot <= time /\ time < slot + SlotLength
        \/ row.end < time + SlotLength
    BY <1>2, <2>1, <2>4, SlotOf, SlotsOfHours
  <2>6. QED
    BY <2>1, <2>3, <2>5
<1>4. ASSUME NEW date \in today..(today + LookAhead - 1)
      PROVE  /\ RowsFor(hours, date) = shown(date)
             /\ \A row \in shown(date) :
                  TimeSlots(row, date, {}) = {} => row.end - row.start < SlotLength
             /\ \A ahead \in ServerZones :
                  date \in AvailableDates(hours, today, ahead)
                    <=> shown(IF ahead < 0 THEN date - 1 ELSE date) # {}
  <2> HIDE DEF local, today, time
  <2>1. date \in Nat
    BY <1>2
  <2>2. RowsFor(hours, date) = shown(date)
    BY <2>1, SameWeekday DEF RowsFor, WorkingHours
  <2>3. ASSUME NEW row \in shown(date), TimeSlots(row, date, {}) = {}
        PROVE  row.end - row.start < SlotLength
    <3>1. row \in HoursRow
      BY <1>1 DEF HoursInv, WorkingHours
    <3>2. QED
      BY <3>1, <2>3, SlotsOfHours
  <2>4. ASSUME NEW ahead \in ServerZones
        PROVE  date \in AvailableDates(hours, today, ahead)
                 <=> shown(IF ahead < 0 THEN date - 1 ELSE date) # {}
    <3> DEFINE judged == IF ahead < 0 THEN date - 1 ELSE date
    <3>1. Weekday(ParsedDate(date) + ahead) = (judged % 7) + 1
      BY <2>1, SameWeekday
    <3> HIDE DEF judged
    <3>2. date \in AvailableDates(hours, today, ahead) <=> shown(judged) # {}
      BY <3>1 DEF AvailableDates, WorkingHours
    <3>3. QED
      BY <3>2 DEF judged
  <2>5. QED
    BY <2>2, <2>3, <2>4
<1>5. QED
  BY <1>3, <1>4 DEF OpenShopHasSlots

(* What a shop's profile says of its hours is what can be booked, wherever  *)
(* the server runs, however the hours are edited and whatever the time; the *)
(* dates offered are the ones with hours unless it runs west of UTC.        *)
THEOREM OpenShopsHaveSlots ==
  HoursInit /\ [][HoursNext]_hoursVars => []OpenShopHasSlots
<1>1. HoursInit => HoursInv
  BY DEF HoursInit, HoursInv
<1>2. HoursInv /\ [HoursNext]_hoursVars => HoursInv'
  BY DEF HoursInv, HoursNext, AddRow, RemoveRow, Pass, hoursVars
<1>3. QED
  BY <1>1, <1>2, ReadersAgree, PTL

-----------------------------------------------------------------------------
(* Slots.                                                                   *)

(* A moment from the opening to the end of some slot is in a slot.          *)
LEMMA InSomeSlot ==
  ASSUME NEW row \in HoursRow, NEW last \in GenerateSlots(row), NEW time \in Nat,
         row.start <= time, time < last + SlotLength
  PROVE  \E slot \in GenerateSlots(row) : slot <= time /\ time < slot + SlotLength
<1> DEFINE L == SlotLength
<1>1. /\ L \in Nat \ {0} /\ row.start \in Nat /\ row.end \in Nat
      /\ last \in Nat /\ row.start <= last /\ last + L <= row.end
  BY OpeningsAssumption DEF GenerateSlots, HoursRow
<1>2. time < row.end
  BY <1>1
<1>3. CASE row.end < time + L
  <2> DEFINE k == (last - row.start) \div L
             q == (time - row.start) \div L
             m == q * L
  <2>1. last - row.start \in Nat /\ time - row.start \in Nat
    BY <1>1
  <2>2. k \in Nat /\ last - row.start = k * L
    <3>1. (last - row.start) % L = 0
      BY DEF GenerateSlots
    <3>2. k \in Nat /\ last - row.start = k * L + ((last - row.start) % L)
      BY <1>1, <2>1, Division
    <3>3. k * L \in Nat
      BY <1>1, <3>2
    <3> HIDE DEF k, L
    <3>4. QED
      BY <3>1, <3>2, <3>3
  <2>3. q \in Nat
    BY <1>1, <2>1, Division
  <2> HIDE DEF q, k
  <2>4. (k + 1) * L = k * L + L
    BY <1>1, <2>2
  <2>5. ~((k + 1) * L <= time - row.start)
    <3> DEFINE e == k * L
    <3>1. e \in Nat /\ last - row.start = e /\ (k + 1) * L = e + L
      BY <1>1, <2>2, <2>4
    <3> HIDE DEF e
    <3>2. QED
      BY <1>1, <3>1
  <2>6. q <= k
    <3>1. ~(k + 1 <= (time - row.start) \div L)
      <4> DEFINE c == time - row.start
                 next == k + 1
      <4>1. c \in Nat /\ next \in Nat /\ ~(next * L <= c)
        BY <2>1, <2>2, <2>5
      <4> HIDE DEF c, next
      <4>2. ~(next <= c \div L)
        BY <1>1, <4>1, Reached
      <4>3. QED
        BY <4>2 DEF c, next
    <3>2. QED
      BY <2>2, <2>3, <3>1 DEF q
  <2>7. m <= time - row.start /\ m \in Nat
    <3>1. q * L <= time - row.start
      BY <1>1, <2>1, <2>3, Reached DEF q
    <3>2. QED
      BY <1>1, <2>3, <3>1
  <2>8. m <= last - row.start
    <3>1. q * L <= last - row.start
      BY <1>1, <2>1, <2>3, <2>6, Reached DEF k
    <3>2. QED
      BY <3>1
  <2>9. m % L = 0
    <3>1. 0 \in 0..(L - 1) /\ m + 0 = m
      BY <1>1, <2>7
    <3>2. (q * L + 0) % L = 0
      BY <1>1, <2>3, <3>1, Quotient
    <3>3. QED
      BY <3>1, <3>2
  <2>10. time - row.start < m + L
    <3>1. ~((q + 1) * L <= time - row.start)
      <4>1. q + 1 \in Nat /\ ~(q + 1 <= q)
        BY <2>3
      <4>2. QED
        BY <1>1, <2>1, <4>1, Reached DEF q
    <3>2. (q + 1) * L = m + L
      BY <1>1, <2>3
    <3> HIDE DEF m, L
    <3>3. QED
      BY <1>1, <2>1, <2>7, <3>1, <3>2
  <2> HIDE DEF m
  <2>11. row.start + m \in GenerateSlots(row)
    <3>1. row.start + m - row.start = m /\ row.start + m \in row.start..row.end
          /\ row.start + m + SlotLength <= row.end
      BY <1>1, <2>7, <2>8
    <3> DEFINE x == row.start + m
    <3>2. x \in row.start..row.end /\ x - row.start = m /\ x + SlotLength <= row.end
      BY <1>1, <2>7, <3>1
    <3> HIDE DEF x
    <3>3. x \in GenerateSlots(row)
      BY <2>9, <3>2 DEF GenerateSlots
    <3>4. QED
      BY <3>3 DEF x
  <2>12. row.start + m <= time /\ time < row.start + m + SlotLength
    BY <1>1, <2>7, <2>10
  <2>13. QED
    BY <2>11, <2>12
<1>4. QED
  BY <1>2, <1>3, SlotOf

(* What the search offers for one day and what the slot check accepts.      *)
LEMMA OfferedIsFree == BookingsTypeOK /\ ItemsHaveSpans => OfferedMatchesCheck
<1> SUFFICES ASSUME BookingsTypeOK, ItemsHaveSpans,
                    NEW s \in Staff, NEW date \in Dates, NEW row \in HoursRow,
                    NEW t \in GenerateSlots(row), NEW d \in 1..DayLength
             PROVE  LET slots   == GenerateSlots(row)
                        offered == GetAvailability(row, date, s)
                        at(x)   == date * DayLength + x
                        span    == [start |-> at(t), end |-> at(t + d)]
                        inside  == {u \in slots : t <= u /\ u + SlotLength <= t + d}
                        touched == {u \in slots : u < t + d /\ t < u + SlotLength}
                    IN /\ ~IsSlotTaken(s, span) => inside \subseteq offered
                       /\ /\ touched \subseteq offered
                          /\ \E u \in slots : t + d <= u + SlotLength
                          /\ IsSlotTaken(s, span)
                          => \E b \in DOMAIN items :
                               /\ items[b].staff = s /\ LiveItem(b)
                               /\ Overlaps(items[b], span) /\ CrossesMidnight(b, date)
  BY DEF OfferedMatchesCheck
<1> DEFINE day  == date * DayLength
           span == [start |-> day + t, end |-> day + (t + d)]
<1>1. DayLength \in Nat \ {0} /\ SlotLength \in Nat \ {0} /\ d \in Nat \ {0}
  BY OpeningsAssumption
<1>2. date \in Nat
  <2>1. PICK x \in Nat : date = x \div DayLength
    BY SpansAssumption DEF Dates
  <2>2. QED
    BY <1>1, <2>1, Division
<1>3. day \in Nat /\ (date + 1) * DayLength = day + DayLength
  BY <1>1, <1>2
<1>4. \A u \in GenerateSlots(row) : u \in Nat /\ row.start <= u /\ u + SlotLength <= row.end
  BY <1>1 DEF GenerateSlots, HoursRow
<1>5. ASSUME NEW u \in GenerateSlots(row)
      PROVE  u \in GetAvailability(row, date, s) <=> FreeSlot(u, date, BookedItems(s))
  BY QueriesAssumption DEF GetAvailability, TimeSlots
<1>6. \A b \in DOMAIN items :
        /\ items[b].start \in Nat /\ items[b].end \in Nat
        /\ items[b].start < items[b].end
  BY SpansAssumption DEF BookingsTypeOK, RowsTypeOK, ItemRow, ItemsHaveSpans
<1>7. ASSUME NEW b \in DOMAIN items
      PROVE  CrossesMidnight(b, date)
               <=> items[b].start < day \/ items[b].end > day + DayLength
  BY <1>3 DEF CrossesMidnight
<1> HIDE DEF day
<1>8. ASSUME ~IsSlotTaken(s, span),
             NEW u \in GenerateSlots(row), t <= u, u + SlotLength <= t + d
      PROVE  u \in GetAvailability(row, date, s)
  <2>1. SUFFICES ASSUME ~FreeSlot(u, date, BookedItems(s))
                 PROVE  FALSE
    BY <1>5
  <2>2. PICK x \in BookedItems(s) :
          x.live /\ x.start < day + u + SlotLength /\ x.end > day + u
    BY <2>1 DEF FreeSlot, day
  <2>3. PICK b \in DOMAIN items :
          /\ items[b].staff = s
          /\ x = [start |-> items[b].start, end |-> items[b].end, live |-> LiveItem(b)]
    BY DEF BookedItems
  <2>4. LiveItem(b) /\ items[b].start < day + u + SlotLength /\ items[b].end > day + u
    BY <2>2, <2>3
  <2>5. items[b].start < day + (t + d) /\ items[b].end > day + t
    BY <1>1, <1>3, <1>4, <1>6, <1>8, <2>4
  <2>6. Overlaps(items[b], span)
    BY <2>5 DEF Overlaps
  <2> HIDE DEF span
  <2>7. QED
    BY <1>8, <2>3, <2>4, <2>6 DEF IsSlotTaken
<1>9. ASSUME \A u \in GenerateSlots(row) :
               u < t + d /\ t < u + SlotLength => u \in GetAvailability(row, date, s),
             NEW last \in GenerateSlots(row), t + d <= last + SlotLength,
             NEW b \in DOMAIN items, items[b].staff = s, LiveItem(b),
             Overlaps(items[b], span), ~CrossesMidnight(b, date)
      PROVE  FALSE
  <2> DEFINE from == items[b].start
             to   == items[b].end
             time == IF from <= day + t THEN t ELSE from - day
  <2>1. /\ from \in Nat /\ to \in Nat /\ from < to
        /\ from < day + (t + d) /\ to > day + t
        /\ from >= day /\ to <= day + DayLength
    BY <1>1, <1>3, <1>6, <1>7, <1>9 DEF Overlaps
  <2>2. t \in Nat /\ row.start <= t /\ last \in Nat /\ row.start \in Nat
    BY <1>4 DEF HoursRow
  <2> HIDE DEF from, to
  <2>3. /\ time \in Nat /\ t <= time /\ time < t + d
        /\ from <= day + time /\ day + time < to
    BY <1>1, <1>3, <2>1, <2>2
  <2> HIDE DEF time
  <2>4. row.start <= time /\ time < last + SlotLength
    BY <1>1, <1>9, <2>2, <2>3
  <2>5. PICK u \in GenerateSlots(row) : u <= time /\ time < u + SlotLength
    BY <2>3, <2>4, InSomeSlot
  <2>6. u \in Nat
    BY <1>4
  <2>7. u < t + d /\ t < u + SlotLength
    BY <1>1, <2>2, <2>3, <2>5, <2>6
  <2>8. FreeSlot(u, date, BookedItems(s))
    BY <1>5, <1>9, <2>7
  <2> DEFINE x == [start |-> items[b].start, end |-> items[b].end, live |-> LiveItem(b)]
  <2>9. x \in BookedItems(s) /\ x.live /\ x.start = from /\ x.end = to
    BY <1>9 DEF BookedItems, from, to
  <2> HIDE DEF x
  <2>10. /\ x.start >= date * DayLength /\ x.end <= (date + 1) * DayLength
         /\ x.start < date * DayLength + u + SlotLength
         /\ x.end > date * DayLength + u
    <3>1. from < day + u + SlotLength /\ to > day + u
      BY <1>1, <1>3, <2>1, <2>3, <2>5, <2>6
    <3>2. QED
      BY <1>3, <2>1, <2>9, <3>1 DEF day
  <2>11. QED
    BY <2>8, <2>9, <2>10 DEF FreeSlot
<1>10. ASSUME IsSlotTaken(s, span)
       PROVE  \E b \in DOMAIN items :
                items[b].staff = s /\ LiveItem(b) /\ Overlaps(items[b], span)
  <2> HIDE DEF span
  <2>1. QED
    BY <1>10 DEF IsSlotTaken
<1>11. QED
  BY <1>8, <1>9, <1>10 DEF day

(* A create that is not refused finds its slots offered, and one whose      *)
(* slots are all offered is refused only for an item across midnight, while *)
(* requests and webhooks are at work.                                       *)
THEOREM OfferedIsBookable == SystemSpec => []OfferedMatchesCheck
<1>1. SystemTypeOK => BookingsTypeOK
  BY DEF SystemTypeOK
<1>2. QED
  BY <1>1, OfferedIsFree, SystemTypeCorrect, SpansCorrect, PTL

-----------------------------------------------------------------------------
(* The lists of a customer.                                                 *)

RowsOf(c, tab) == {b \in DOMAIN bookings : bookings[b].customer = c /\ TabFilter(b, tab)}

(* A page longer than the list is the list.                                 *)
LEMMA FullPage ==
  ASSUME NEW S, NEW q \in Seq(S), NEW n \in Nat, Len(q) < n
  PROVE  PageOf(q, 1, n) = q
<1>1. Len(q) \in Nat /\ (1 - 1) * n + 1 = 1 /\ 1 * n > Len(q)
  OBVIOUS
<1>2. PageOf(q, 1, n) = SubSeq(q, 1, Len(q))
  BY <1>1 DEF PageOf
<1>3. QED
  BY <1>2, SubSeqFull

(* Who is listed in a tab are the rows of that tab.                         *)
LEMMA ListsAreRows ==
  ASSUME BookingsTypeOK, NEW c, NEW tab
  PROVE  /\ \A x \in ListedIn(c, tab) : \E r \in RowsOf(c, tab) : x = ListItem(r, tab)
         /\ tab = "upcoming" =>
              \A r \in RowsOf(c, tab) : ListItem(r, tab) \in ListedIn(c, tab)
<1> DEFINE rows  == RowsOf(c, tab)
           long  == Cardinality(BookingIds) + 1
           lists == IF tab = "upcoming" THEN Orderings(rows, Later)
                                        ELSE Orderings(rows, Earlier)
           shown(q) == [i \in DOMAIN q |-> ListItem(q[i], tab)]
           answer(q) == [data |-> shown(PageOf(q, 1, long)), total |-> Cardinality(rows),
                         totalPages |-> TotalPages(Cardinality(rows), long)]
<1>1. ListForCustomer(c, tab, 1, long) = {answer(q) : q \in lists}
  BY DEF ListForCustomer, RowsOf
<1>2. IsFiniteSet(rows) /\ Cardinality(rows) < long /\ long \in Nat
  <2>1. rows \subseteq BookingIds /\ IsFiniteSet(BookingIds)
    BY QueriesAssumption DEF RowsOf, BookingsTypeOK, RowsTypeOK
  <2> HIDE DEF rows
  <2>2. /\ IsFiniteSet(rows) /\ Cardinality(rows) <= Cardinality(BookingIds)
        /\ Cardinality(BookingIds) \in Nat /\ Cardinality(rows) \in Nat
    BY <2>1, FS_Subset, FS_CardinalityType
  <2>3. QED
    BY <2>2
<1>3. lists \subseteq SetToSeqs(rows)
  BY DEF Orderings
<1>4. tab = "upcoming" => lists # {}
  <2> DEFINE key == [r \in rows |-> items[r].start]
  <2>1. \A r \in rows : key[r] \in Nat
    BY DEF RowsOf, BookingsTypeOK, RowsTypeOK, ItemRow
  <2>2. \A r \in rows : key[r] = items[r].start
    OBVIOUS
  <2> HIDE DEF rows, key
  <2>3. PICK q \in SetToSeqs(rows) :
          \A i, j \in DOMAIN q : i < j => key[q[i]] <= key[q[j]]
    BY <1>2, <2>1, SortedOrder
  <2>4. q \in Seq(rows)
    BY <1>2, OrderIsSeq
  <2>5. \A i \in DOMAIN q : key[q[i]] \in Nat /\ key[q[i]] = items[q[i]].start
    BY <2>1, <2>2, <2>4
  <2>6. \A i, j \in DOMAIN q : i < j => ~Later(q[i], q[j])
    BY <2>3, <2>5 DEF Later
  <2>7. QED
    BY <2>6 DEF Orderings
<1> HIDE DEF lists, rows
<1>5. ASSUME NEW q \in lists
      PROVE  /\ answer(q).data = shown(q) /\ \A i \in DOMAIN q : q[i] \in rows
             /\ \A r \in rows : \E i \in DOMAIN q : q[i] = r
  <2>1. /\ q \in Seq(rows) /\ Len(q) = Cardinality(rows)
        /\ \A r \in rows : \E i \in 1..Len(q) : q[i] = r
    BY <1>2, <1>3, OrderIsSeq
  <2>2. DOMAIN q = 1..Len(q) /\ Len(q) < long
    BY <1>2, <2>1
  <2>3. PageOf(q, 1, long) = q
    BY <1>2, <2>1, <2>2, FullPage
  <2>4. \A i \in DOMAIN q : q[i] \in rows
    BY <2>1
  <2>5. QED
    BY <2>1, <2>2, <2>3, <2>4
<1> HIDE DEF answer
<1>6. ListedIn(c, tab) = UNION {Range(shown(q)) : q \in lists}
  <2>1. ListedIn(c, tab) = UNION {Range(x.data) : x \in {answer(q) : q \in lists}}
    BY <1>1 DEF ListedIn
  <2> HIDE DEF shown
  <2>2. QED
    BY <1>5, <2>1
<1>7. ASSUME NEW x \in ListedIn(c, tab)
      PROVE  \E r \in rows : x = ListItem(r, tab)
  <2>1. PICK q \in lists : x \in Range(shown(q))
    <3> HIDE DEF shown
    <3>1. QED
      BY <1>6
  <2>2. PICK i \in DOMAIN q : x = ListItem(q[i], tab)
    BY <2>1 DEF Range
  <2>3. q[i] \in rows
    BY <1>5
  <2>4. QED
    BY <2>2, <2>3
<1>8. ASSUME tab = "upcoming", NEW r \in rows
      PROVE  ListItem(r, tab) \in ListedIn(c, tab)
  <2>1. PICK q \in lists : TRUE
    BY <1>4, <1>8
  <2>2. PICK i \in DOMAIN q : q[i] = r
    BY <1>5
  <2>3. ListItem(r, tab) \in Range(shown(q))
    BY <2>2 DEF Range
  <2>4. QED
    <3> HIDE DEF shown
    <3>1. QED
      BY <1>6, <2>3
<1>9. QED
  BY <1>7, <1>8 DEF rows

(* Both tabs against the rows, the orders and what was captured.            *)
LEMMA ListsShowActionable ==
  BookingsTypeOK /\ ReleasedUnlessCaptured /\ PaidOnlyIfCaptured => ActionableIsUpcoming
<1> SUFFICES ASSUME BookingsTypeOK, ReleasedUnlessCaptured, PaidOnlyIfCaptured,
                    NEW b \in DOMAIN bookings
             PROVE  LET c    == bookings[b].customer
                        past == ListedIn(c, "past")
                    IN /\ (/\ bookings[b].status # "cancelled"
                           /\ \/ now + CancelMinHours <= items[b].start
                              \/ now < items[b].start)
                            => /\ ListItem(b, "upcoming") \in ListedIn(c, "upcoming")
                               /\ ~ListItem(b, "upcoming").dimmed
                               /\ \A x \in past : x.id # b
                       /\ \A x \in ListedIn(c, "upcoming") \cup past :
                            x.id = b /\ x.dimmed
                              => items[b].start < now \/ ~LiveItem(b) \/ Captured(b)
                       /\ \A x \in past : x.id = b /\ ~x.dimmed => Captured(b)
  BY DEF ActionableIsUpcoming
<1> DEFINE c == bookings[b].customer
<1>1. /\ items[b].start \in Nat /\ now \in Nat /\ CancelMinHours \in Nat
      /\ bookings[b].status \in {"pending", "confirmed", "cancelled"}
  BY CancelAssumption DEF BookingsTypeOK, RowsTypeOK, QueueTypeOK, BookingRow, ItemRow
<1>2. ASSUME bookings[b].status # "cancelled",
             now + CancelMinHours <= items[b].start \/ now < items[b].start
      PROVE  /\ ListItem(b, "upcoming") \in ListedIn(c, "upcoming")
             /\ ~ListItem(b, "upcoming").dimmed
             /\ \A x \in ListedIn(c, "past") : x.id # b
  <2>1. items[b].start >= now /\ bookings[b].status \in {"pending", "confirmed"}
    BY <1>1, <1>2
  <2>2. TabFilter(b, "upcoming") /\ ~TabFilter(b, "past")
    BY <2>1 DEF TabFilter
  <2>3. b \in RowsOf(c, "upcoming") /\ b \notin RowsOf(c, "past")
    BY <2>2 DEF RowsOf
  <2>4. ListItem(b, "upcoming") \in ListedIn(c, "upcoming")
    BY <2>3, ListsAreRows
  <2>5. ~ListItem(b, "upcoming").dimmed
    BY <1>2 DEF ListItem, Dimmed
  <2>6. ASSUME NEW x \in ListedIn(c, "past") PROVE x.id # b
    <3>1. PICK r \in RowsOf(c, "past") : x = ListItem(r, "past")
      BY ListsAreRows
    <3>2. x.id = r
      BY <3>1 DEF ListItem
    <3>3. QED
      BY <2>3, <3>2
  <2>7. QED
    BY <2>4, <2>5, <2>6
<1>3. ASSUME NEW tab \in {"upcoming", "past"}, NEW x \in ListedIn(c, tab), x.id = b
      PROVE  TabFilter(b, tab) /\ (x.dimmed <=> Dimmed(b, tab))
  <2>1. PICK r \in RowsOf(c, tab) : x = ListItem(r, tab)
    BY ListsAreRows
  <2>2. r = b /\ (x.dimmed <=> Dimmed(b, tab))
    BY <1>3, <2>1 DEF ListItem
  <2>3. QED
    BY <2>1, <2>2 DEF RowsOf
<1>4. ASSUME NEW tab \in {"upcoming", "past"}, NEW x \in ListedIn(c, tab),
             x.id = b, x.dimmed
      PROVE  items[b].start < now \/ ~LiveItem(b) \/ Captured(b)
  <2>1. TabFilter(b, tab) /\ Dimmed(b, tab)
    BY <1>3, <1>4
  <2>2. CASE bookings[b].status = "cancelled"
    BY <2>2 DEF ReleasedUnlessCaptured, LiveItem
  <2>3. CASE tab = "past" /\ bookings[b].status = "pending"
    <3>1. ~(items[b].start >= now)
      BY <2>1, <2>3 DEF TabFilter
    <3>2. QED
      BY <1>1, <3>1
  <2>4. QED
    BY <2>1, <2>2, <2>3 DEF Dimmed
<1>5. ASSUME NEW x \in ListedIn(c, "past"), x.id = b, ~x.dimmed
      PROVE  Captured(b)
  <2>1. ~Dimmed(b, "past")
    BY <1>3, <1>5
  <2>2. bookings[b].status = "confirmed" \/ bookings[b].payment = "paid"
    BY <1>1, <2>1 DEF Dimmed
  <2>3. QED
    BY <2>2 DEF PaidOnlyIfCaptured
<1>6. QED
  BY <1>2, <1>4, <1>5

(* What a customer may still act on is in his upcoming list, what is dimmed *)
(* holds no time to come that was not paid for, and what is past and not    *)
(* dimmed was paid for, whatever requests and webhooks are at work.         *)
THEOREM ActionableIsShown == SystemSpec => []ActionableIsUpcoming
<1>1. SystemTypeOK => BookingsTypeOK
  BY DEF SystemTypeOK
<1>2. QED
  BY <1>1, ListsShowActionable, SystemTypeCorrect, SystemReleases, SystemPaidIsCaptured, PTL

-----------------------------------------------------------------------------
(* Quotes and bookings.                                                     *)

(* The equation of the fold that adds the first n numbers has a solution.   *)
AddUp(s, g, T) == IF T = {} THEN 0 ELSE g[T \ {Max(T)}] + s[Max(T)]

LEMMA FoldExists ==
  ASSUME NEW s, NEW N \in Nat
  PROVE  \E g : g = [T \in SUBSET (1..N) |-> AddUp(s, g, T)]
<1> DEFINE Good(n) == \E g : g = [T \in SUBSET (1..n) |-> AddUp(s, g, T)]
<1>1. Good(0)
  <2> DEFINE h == [T \in SUBSET (1..0) |-> 0]
  <2>1. ASSUME NEW T \in SUBSET (1..0) PROVE AddUp(s, h, T) = 0
    <3>1. 1..0 = {}
      OBVIOUS
    <3>2. T = {}
      BY <3>1
    <3>3. QED
      BY <3>2 DEF AddUp
  <2>2. h = [T \in SUBSET (1..0) |-> AddUp(s, h, T)]
    <3> HIDE DEF h
    <3>1. h = [T \in SUBSET (1..0) |-> 0]
      BY DEF h
    <3>2. QED
      BY <3>1, <2>1
  <2> HIDE DEF h
  <2>3. QED
    BY <2>2
<1>2. ASSUME NEW n \in Nat, Good(n)
      PROVE  Good(n + 1)
  <2>1. PICK g : g = [T \in SUBSET (1..n) |-> AddUp(s, g, T)]
    BY <1>2
  <2> DEFINE m == n + 1
             h == [T \in SUBSET (1..m) |->
                     IF m \in T THEN g[T \ {m}] + s[m] ELSE g[T]]
  <2>2. ASSUME NEW T \in SUBSET (1..m), m \notin T
        PROVE  h[T] = AddUp(s, h, T)
    <3>1. T \in SUBSET (1..n)
      BY <2>2
    <3>2. h[T] = AddUp(s, g, T)
      BY <2>1, <2>2, <3>1
    <3>3. ASSUME NEW x PROVE h[T \ {x}] = g[T \ {x}]
      BY <2>2
    <3> HIDE DEF h
    <3>4. QED
      BY <3>2, <3>3 DEF AddUp
  <2>3. ASSUME NEW T \in SUBSET (1..m), m \in T
        PROVE  h[T] = AddUp(s, h, T)
    <3>1. h[T] = g[T \ {m}] + s[m]
      BY <2>3
    <3>2. h[T \ {m}] = g[T \ {m}]
      BY <2>3
    <3>3. Max(T) = m
      <4>1. \A y \in T : y \in Nat /\ m >= y
        OBVIOUS
      <4> HIDE DEF m
      <4>2. \A x \in T : x >= m => x = m
        BY <2>3, <4>1
      <4>3. QED
        BY <2>3, <4>1, <4>2 DEF Max
    <3> HIDE DEF h
    <3>4. QED
      BY <2>3, <3>1, <3>2, <3>3 DEF AddUp
  <2>4. h = [T \in SUBSET (1..m) |-> AddUp(s, h, T)]
    <3>1. h = [T \in SUBSET (1..m) |-> h[T]]
      OBVIOUS
    <3> HIDE DEF h
    <3>2. QED
      BY <3>1, <2>2, <2>3
  <2> HIDE DEF h
  <2>5. QED
    BY <2>4
<1> HIDE DEF Good
<1>3. Good(N)
  <2> DEFINE T == {n \in Nat : ~Good(n)}
  <2>1. SUFFICES ASSUME T # {} PROVE FALSE
    OBVIOUS
  <2>2. PICK m \in T : \A k \in T : m <= k
    BY <2>1, LeastNumber
  <2>3. m # 0
    BY <1>1, <2>2
  <2>4. m - 1 \in Nat /\ Good(m - 1)
    BY <2>2, <2>3
  <2>5. Good((m - 1) + 1)
    BY <2>4, <1>2
  <2>6. QED
    BY <2>5, <2>4, <2>2
<1>4. QED
  BY <1>3 DEF Good

(* The sums of the first numbers of s, one by one.                          *)
Sums(s, t) ==
  /\ t \in [0..Len(s) -> Nat] /\ t[0] = 0
  /\ \A k \in 1..Len(s) : t[k] = t[k - 1] + s[k]

(* A total is the last of the sums.                                         *)
LEMMA TotalIsLastSum ==
  ASSUME NEW s \in Seq(Nat), NEW t, Sums(s, t)
  PROVE  Total(s) = t[Len(s)]
<1> DEFINE N == Len(s)
           f == CHOOSE g : g = [T \in SUBSET (1..N) |-> AddUp(s, g, T)]
<1>1. N \in Nat /\ DOMAIN s = 1..N /\ \A i \in 1..N : s[i] \in Nat
  OBVIOUS
<1>2. Total(s) = f[1..N]
  BY <1>1 DEF Total, FoldLeft, MapThenFoldSet, AddUp
<1>3. f = [T \in SUBSET (1..N) |-> AddUp(s, f, T)]
  <2> HIDE DEF N
  <2>1. QED
    BY <1>1, FoldExists
<1> HIDE DEF f
<1>4. ASSUME NEW k \in 1..N, f[1..(k - 1)] = t[k - 1]
      PROVE  f[1..k] = t[k]
  <2>1. k \in 1..k /\ (1..k) \in SUBSET (1..N) /\ (1..k) \ {k} = 1..(k - 1)
    BY <1>1
  <2>2. Max(1..k) = k
    <3>1. k \in 1..k /\ \A y \in 1..k : k >= y
      BY <1>1
    <3>2. \A x \in 1..k : x >= k => x = k
      BY <1>1
    <3>3. QED
      BY <3>1, <3>2 DEF Max
  <2>3. f[1..k] = f[1..(k - 1)] + s[k]
    BY <1>3, <2>1, <2>2 DEF AddUp
  <2>4. QED
    BY <1>4, <2>3 DEF Sums
<1>5. f[1..0] = t[0]
  <2>1. 1..0 = {} /\ {} \in SUBSET (1..N)
    OBVIOUS
  <2>2. QED
    BY <1>3, <2>1 DEF Sums, AddUp
<1>6. f[1..N] = t[N]
  <2> DEFINE T == {k \in 0..N : f[1..k] # t[k]}
  <2> HIDE DEF N
  <2>1. SUFFICES ASSUME T # {} PROVE FALSE
    BY <1>1
  <2>2. PICK m \in T : \A k \in T : m <= k
    <3>1. T \in SUBSET Nat
      BY <1>1
    <3> HIDE DEF T
    <3>2. QED
      BY <2>1, <3>1, LeastNumber
  <2>3. m # 0
    BY <1>5, <2>2
  <2>4. m \in 1..N /\ m - 1 \in 0..N /\ ~(m <= m - 1)
    BY <1>1, <2>2, <2>3
  <2>5. f[1..(m - 1)] = t[m - 1]
    BY <2>2, <2>4
  <2>6. QED
    BY <1>4, <2>2, <2>4, <2>5
<1>7. QED
  BY <1>2, <1>6

(* Numbers have sums.                                                       *)
LEMMA SumsExist ==
  ASSUME NEW s \in Seq(Nat)
  PROVE  \E t : Sums(s, t)
<1> DEFINE N == Len(s)
           Good(n) == \E t : /\ t \in [0..n -> Nat] /\ t[0] = 0
                             /\ \A k \in 1..n : t[k] = t[k - 1] + s[k]
<1>1. N \in Nat /\ \A i \in 1..N : s[i] \in Nat
  OBVIOUS
<1>2. Good(0)
  <2> DEFINE t == [k \in 0..0 |-> 0]
  <2>1. t \in [0..0 -> Nat] /\ t[0] = 0 /\ \A k \in 1..0 : t[k] = t[k - 1] + s[k]
    OBVIOUS
  <2> HIDE DEF t
  <2>2. QED
    BY <2>1
<1>3. ASSUME NEW n \in Nat, n < N, Good(n)
      PROVE  Good(n + 1)
  <2>1. PICK t : /\ t \in [0..n -> Nat] /\ t[0] = 0
                 /\ \A k \in 1..n : t[k] = t[k - 1] + s[k]
    BY <1>3
  <2> DEFINE u == [k \in 0..(n + 1) |-> IF k <= n THEN t[k] ELSE t[n] + s[n + 1]]
  <2>2. s[n + 1] \in Nat /\ t[n] \in Nat
    <3> HIDE DEF N
    <3>1. n + 1 \in 1..N /\ n \in 0..n
      BY <1>1, <1>3
    <3>2. QED
      BY <1>1, <2>1, <3>1
  <2>3. u \in [0..(n + 1) -> Nat] /\ u[0] = 0
    BY <2>1, <2>2
  <2>4. ASSUME NEW k \in 1..(n + 1)
        PROVE  u[k] = u[k - 1] + s[k]
    <3>1. k - 1 \in 0..(n + 1) /\ k - 1 <= n /\ k \in 0..(n + 1)
      OBVIOUS
    <3>2. u[k - 1] = t[k - 1]
      BY <3>1
    <3>3. CASE k = n + 1
      <4>1. u[k] = t[n] + s[k] /\ k - 1 = n
        BY <3>1, <3>3
      <4> HIDE DEF u
      <4>2. QED
        BY <3>2, <4>1
    <3>4. CASE k # n + 1
      <4>1. k \in 1..n
        BY <3>4
      <4>2. u[k] = t[k]
        BY <3>1, <4>1
      <4> HIDE DEF u
      <4>3. QED
        BY <2>1, <3>2, <4>1, <4>2
    <3>5. QED
      BY <3>3, <3>4
  <2> HIDE DEF u
  <2>5. QED
    BY <2>3, <2>4
<1>4. Good(N)
  <2> DEFINE T == {n \in 0..N : ~Good(n)}
  <2> HIDE DEF Good, N
  <2>1. SUFFICES ASSUME T # {} PROVE FALSE
    BY <1>1
  <2>2. PICK m \in T : \A k \in T : m <= k
    <3>1. T \in SUBSET Nat
      BY <1>1
    <3> HIDE DEF T
    <3>2. QED
      BY <2>1, <3>1, LeastNumber
  <2>3. m # 0
    BY <1>2, <2>2
  <2>4. m - 1 \in 0..N /\ m - 1 < N /\ m - 1 \in Nat /\ ~(m <= m - 1) /\ (m - 1) + 1 = m
    BY <1>1, <2>2, <2>3
  <2>5. Good(m - 1)
    BY <2>2, <2>4
  <2>6. Good((m - 1) + 1)
    BY <1>3, <2>4, <2>5
  <2>7. QED
    BY <2>2, <2>4, <2>6
<1>5. QED
  BY <1>4 DEF Sums

(* What is selected becomes a list of priced lines that take time.          *)
Lines == [item : ServiceIds \cup PackageIds, price : Nat, minutes : Nat]

CatalogueInv ==
  /\ shops \in [Shops -> ShopRow]
  /\ catalog \in [CatalogIds -> Entry]
  /\ services \in [ServiceIds -> Offer]
  /\ packages \in [PackageIds -> Offer]

LEMMA CatalogueStart == CatalogueInit => CatalogueInv
<1>1. (CHOOSE r \in Ratings : TRUE) \in Ratings /\ (CHOOSE p \in Prices : TRUE) \in Prices
  BY CatalogueAssumption
<1>2. QED
  BY <1>1 DEF CatalogueInit, CatalogueInv, ShopRow, Entry, Offer

LEMMA EditsKeep == CatalogueInv /\ [EditCatalogue]_catalogueVars => CatalogueInv'
<1>1. SUFFICES ASSUME CatalogueInv, EditCatalogue
               PROVE  CatalogueInv'
  BY DEF CatalogueInv, catalogueVars
<1>2. QED
  BY <1>1 DEF CatalogueInv, EditCatalogue

LEMMA LinesType ==
  ASSUME CatalogueInv, NEW h \in Shops, NEW ids \in SUBSET ServiceIds,
         NEW pkgs \in {{}} \cup {{g} : g \in PackageIds},
         NEW lines \in ResolveServiceLines(h, ids, pkgs)
  PROVE  lines \in Seq(Lines)
<1> DEFINE there == {g \in pkgs : ShopOf[g] = h}
           n     == Cardinality(there)
           first(q) == [i \in DOMAIN q |-> ServiceLine(q[i])]
           last  == [i \in 1..n |-> PackageLine(CHOOSE g \in pkgs : TRUE)]
<1>1. PICK q \in SetToSeqs(ids \cap Joined(h)) : lines = first(q) \o last
  BY DEF ResolveServiceLines
<1>2. first(q) \in Seq(Lines)
  <2>1. IsFiniteSet(ids \cap Joined(h))
    BY CatalogueAssumption, FS_Subset
  <2>2. q \in Seq(ids \cap Joined(h))
    BY <2>1, OrderIsSeq
  <2>3. Len(q) \in Nat /\ DOMAIN q = 1..Len(q) /\ \A i \in 1..Len(q) : q[i] \in ids
    BY <2>2
  <2>4. \A i \in 1..Len(q) : ServiceLine(q[i]) \in Lines
    BY <2>3, CatalogueAssumption, QuotesAssumption
       DEF ServiceLine, Lines, CatalogueInv, Offer
  <2>5. QED
    BY <2>3, <2>4, IsASeq
<1>3. last \in Seq(Lines)
  <2>1. CASE pkgs = {}
    <3>1. there = {}
      BY <2>1
    <3> HIDE DEF there
    <3>2. n = 0
      BY <3>1, FS_EmptySet
    <3>3. QED
      BY <3>2
  <2>2. ASSUME NEW g \in PackageIds, pkgs = {g}
        PROVE  last \in Seq(Lines)
    <3>1. (CHOOSE x \in pkgs : TRUE) = g
      BY <2>2
    <3>2. PackageLine(g) \in Lines
      BY CatalogueAssumption DEF PackageLine, PackageMinutes, Lines, CatalogueInv, Offer
    <3>3. n \in Nat
      <4>1. there \in SUBSET {g} /\ IsFiniteSet({g})
        BY <2>2, FS_Singleton
      <4> HIDE DEF there
      <4>2. QED
        BY <4>1, FS_Subset, FS_CardinalityType
    <3> DEFINE line == PackageLine(g)
    <3>4. last = [i \in 1..n |-> line]
      BY <3>1
    <3> HIDE DEF n, line, last
    <3>5. last \in [1..n -> Lines]
      BY <3>2, <3>4 DEF line
    <3>6. QED
      BY <3>3, <3>5
  <2>3. QED
    BY <2>1, <2>2
<1>4. QED
  <2> HIDE DEF first, last
  <2>1. QED
    BY <1>1, <1>2, <1>3, ConcatProperties

LEMMA RoundedIs ==
  ASSUME NEW p \in Nat
  PROVE  /\ Rounded(p) \in Nat
         /\ 100 * Rounded(p) <= p + 50 /\ p <= 100 * Rounded(p) + 49
         /\ p % 100 = 0 => p = 100 * Rounded(p)
<1> DEFINE r == Rounded(p)
           m == (p + 50) % 100
<1>1. r \in Nat /\ m \in 0..99 /\ p + 50 = r * 100 + m
  BY Division DEF Rounded
<1>2. (p % 100 = 0) => m = 50
  OBVIOUS
<1> HIDE DEF r, m
<1>3. r \in Nat /\ 100 * r <= p + 50 /\ p <= 100 * r + 49 /\ (p % 100 = 0 => p = 100 * r)
  BY <1>1, <1>2
<1>4. QED
  BY <1>3 DEF r

(* Rounding each price or their sum: less than one apart per price.         *)
LEMMA RoundedTotals ==
  ASSUME NEW s \in Seq(Nat), Len(s) # 0, NEW r \in Seq(Nat), Len(r) = Len(s),
         \A i \in 1..Len(s) : r[i] = Rounded(s[i])
  PROVE  /\ Total(r) \in Nat /\ Rounded(Total(s)) \in Nat
         /\ Total(r) - Rounded(Total(s)) < Len(s)
         /\ Rounded(Total(s)) - Total(r) < Len(s)
         /\ (\A i \in 1..Len(s) : s[i] % 100 = 0) => Total(r) = Rounded(Total(s))
<1> DEFINE n == Len(s)
<1>1. n \in Nat /\ n # 0 /\ (\A i \in 1..n : s[i] \in Nat /\ r[i] \in Nat)
  OBVIOUS
<1>2. PICK t, u : Sums(s, t) /\ Sums(r, u)
  BY SumsExist
<1> DEFINE Close(k) == 100 * u[k] <= t[k] + 50 * k /\ t[k] <= 100 * u[k] + 49 * k
           Even(k)  == (\A i \in 1..n : s[i] % 100 = 0) => t[k] = 100 * u[k]
<1>3. /\ t \in [0..n -> Nat] /\ u \in [0..n -> Nat] /\ t[0] = 0 /\ u[0] = 0
      /\ \A k \in 1..n : t[k] = t[k - 1] + s[k] /\ u[k] = u[k - 1] + r[k]
  BY <1>2 DEF Sums
<1>4. ASSUME NEW k \in 1..n, Close(k - 1), Even(k - 1)
      PROVE  Close(k) /\ Even(k)
  <2> DEFINE a == t[k - 1]
             b == u[k - 1]
             p == s[k]
             x == r[k]
  <2> HIDE DEF n
  <2>1. k - 1 \in 0..n
    BY <1>1
  <2>2. a \in Nat /\ b \in Nat /\ p \in Nat /\ x \in Nat
    BY <1>1, <1>3, <2>1
  <2>3. t[k] = a + p /\ u[k] = b + x
    BY <1>3
  <2>4. 100 * x <= p + 50 /\ p <= 100 * x + 49 /\ (p % 100 = 0 => p = 100 * x)
    BY ZenonT(60), <2>2, RoundedIs DEF n
  <2>5. 100 * b <= a + 50 * (k - 1) /\ a <= 100 * b + 49 * (k - 1)
    BY <1>4
  <2>6. (\A i \in 1..n : s[i] % 100 = 0) => (a = 100 * b /\ p % 100 = 0)
    BY <1>4
  <2> HIDE DEF a, b, p, x
  <2>7. 100 * (b + x) <= a + p + 50 * k /\ a + p <= 100 * (b + x) + 49 * k
    BY <1>1, <2>2, <2>4, <2>5
  <2>8. (\A i \in 1..n : s[i] % 100 = 0) => a + p = 100 * (b + x)
    BY <2>2, <2>4, <2>6
  <2>9. QED
    BY <2>3, <2>7, <2>8
<1>5. Close(n) /\ Even(n)
  <2> DEFINE Good(k) == Close(k) /\ Even(k)
             T == {k \in 0..n : ~Good(k)}
  <2>1. Good(0)
    <3> HIDE DEF n
    <3>1. QED
      BY <1>3
  <2>2. \A k \in 1..n : Good(k - 1) => Good(k)
    <3> HIDE DEF n, Close, Even
    <3>1. QED
      BY <1>4
  <2>3. SUFFICES Good(n)
    OBVIOUS
  <2> HIDE DEF Good, n
  <2>4. SUFFICES ASSUME T # {} PROVE FALSE
    <3>1. n \in 0..n
      BY <1>1
    <3>2. QED
      BY <3>1
  <2>5. PICK m \in T : \A k \in T : m <= k
    <3>1. T \in SUBSET Nat
      BY <1>1
    <3> HIDE DEF T
    <3>2. QED
      BY <2>4, <3>1, LeastNumber
  <2>6. m # 0
    BY <2>1, <2>5
  <2>7. m \in 1..n /\ m - 1 \in 0..n /\ ~(m <= m - 1)
    BY <1>1, <2>5, <2>6
  <2>8. Good(m - 1)
    BY <2>5, <2>7
  <2>9. QED
    BY <2>2, <2>5, <2>7, <2>8
<1>6. Total(s) = t[n] /\ Total(r) = u[n]
  BY <1>2, TotalIsLastSum
<1> DEFINE a == Total(s)
           b == Total(r)
           c == Rounded(a)
<1>7. a \in Nat /\ b \in Nat
  <2> HIDE DEF n
  <2>1. n \in 0..n
    BY <1>1
  <2>2. QED
    BY <1>3, <1>6, <2>1
<1>8. 100 * b <= a + 50 * n /\ a <= 100 * b + 49 * n
  BY <1>5, <1>6
<1>9. (\A i \in 1..n : s[i] % 100 = 0) => a = 100 * b
  BY <1>5, <1>6
<1>10. c \in Nat /\ 100 * c <= a + 50 /\ a <= 100 * c + 49
  BY <1>7, RoundedIs
<1> HIDE DEF a, b, c, n, Close, Even
<1>11. b - c < n /\ c - b < n /\ (a = 100 * b => b = c)
  BY <1>1, <1>7, <1>8, <1>10
<1>12. QED
  BY <1>7, <1>9, <1>10, <1>11 DEF a, b, c, n

(* The sums of the first lines are the sums of all lines, up to there.      *)
LEMMA DurationOfFirst ==
  ASSUME NEW lines \in Seq(Lines), NEW t,
         Sums([i \in DOMAIN lines |-> lines[i].minutes], t),
         NEW k \in 0..Len(lines)
  PROVE  Duration(SubSeq(lines, 1, k)) = t[k]
<1> DEFINE n     == Len(lines)
           s     == [i \in DOMAIN lines |-> lines[i].minutes]
           first == SubSeq(lines, 1, k)
           f     == [i \in DOMAIN first |-> first[i].minutes]
           u     == [i \in 0..k |-> t[i]]
<1>1. n \in Nat /\ DOMAIN lines = 1..n /\ \A i \in 1..n : lines[i].minutes \in Nat
  <2>1. n \in Nat /\ DOMAIN lines = 1..n /\ \A i \in 1..n : lines[i] \in Lines
    OBVIOUS
  <2>2. QED
    BY <2>1 DEF Lines
<1>2. first \in Seq(Lines) /\ Len(first) = k /\ \A i \in 1..k : first[i] = lines[i]
  <2>1. \A i \in 1..k : lines[i] \in Lines
    BY <1>1
  <2>2. k \in Nat
    BY <1>1
  <2>3. Len(first) = (IF 1 <= k THEN k - 1 + 1 ELSE 0)
        /\ \A i \in 1..(k - 1 + 1) : first[i] = lines[1 + i - 1]
    BY <2>1, <2>2, SubSeqProperties
  <2>4. first \in Seq(Lines)
    BY <2>1, <2>2, SubSeqProperties
  <2> HIDE DEF first
  <2>5. QED
    BY <2>2, <2>3, <2>4
<1>3. DOMAIN first = 1..k
  BY <1>2
<1>4. s \in Seq(Nat) /\ Len(s) = n /\ \A i \in 1..n : s[i] = lines[i].minutes
  BY <1>1
<1>5. f \in Seq(Nat) /\ Len(f) = k /\ \A i \in 1..k : f[i] = s[i]
  <2> HIDE DEF first
  <2>1. \A i \in 1..k : first[i].minutes = s[i] /\ s[i] \in Nat
    BY <1>1, <1>2, <1>4
  <2>2. k \in Nat
    BY <1>1
  <2> HIDE DEF s, n
  <2>3. QED
    BY <1>3, <2>1, <2>2
<1>6. Sums(f, u)
  <2> HIDE DEF f, n, s
  <2>1. /\ t \in [0..n -> Nat] /\ t[0] = 0
        /\ \A i \in 1..n : t[i] = t[i - 1] + s[i]
    BY <1>4 DEF Sums, s
  <2>2. u \in [0..k -> Nat] /\ u[0] = 0
    BY <1>1, <2>1 DEF n
  <2>3. ASSUME NEW i \in 1..k
        PROVE  u[i] = u[i - 1] + f[i]
    <3>1. i \in 1..n /\ i \in 0..k /\ i - 1 \in 0..k
      BY <1>1 DEF n
    <3>2. QED
      BY <1>5, <2>1, <3>1
  <2> HIDE DEF u
  <2>4. QED
    BY <1>5, <2>2, <2>3 DEF Sums
<1>7. Duration(first) = u[k]
  <2>1. Total(f) = u[k]
    <3> HIDE DEF f, u
    <3>1. QED
      BY <1>5, <1>6, TotalIsLastSum
  <2>2. QED
    BY <2>1 DEF Duration
<1>8. k \in 0..k
  BY <1>1
<1>9. QED
  BY <1>7, <1>8

LEMMA QuotedAndCreated == CatalogueInv => BookingCostsItsQuote
<1> SUFFICES ASSUME CatalogueInv, NEW h \in Shops, NEW lines \in Requests(h)
             PROVE  LET quoted  == ComputeQuote(lines).total
                        created == BookingCreated(lines).total
                        placed  == ItemsOf(lines, 0)
                    IN /\ \/ quoted = created
                          \/ \E i \in DOMAIN lines : lines[i].price % 100 # 0
                       /\ quoted - created < Len(lines)
                       /\ created - quoted < Len(lines)
                       /\ placed[1].start = 0 /\ placed[Len(placed)].end = Duration(lines)
                       /\ \A i \in 1..(Len(placed) - 1) :
                            placed[i].end = placed[i + 1].start
  BY DEF BookingCostsItsQuote
<1> DEFINE n    == Len(lines)
           s    == [i \in DOMAIN lines |-> lines[i].price]
           m    == [i \in DOMAIN lines |-> lines[i].minutes]
           r    == LineItems(lines)
           span == ItemsOf(lines, 0)
<1>1. lines \in Seq(Lines) /\ lines # <<>>
  <2> DEFINE A == SUBSET ServiceIds
             B == {{}} \cup {{g} : g \in PackageIds}
             U == UNION {ResolveServiceLines(h, ids, pkgs) : ids \in A, pkgs \in B}
  <2>1. Requests(h) = U \ {<<>>}
    BY DEF Requests
  <2>2. PICK ids \in A, pkgs \in B : lines \in ResolveServiceLines(h, ids, pkgs)
    <3> HIDE DEF A, B
    <3>1. lines \in U
      <4> HIDE DEF U
      <4>1. QED
        BY <2>1
    <3>2. QED
      BY <3>1
  <2>3. lines # <<>>
    BY DEF Requests
  <2>4. QED
    BY <2>2, <2>3, LinesType
<1>2. /\ n \in Nat /\ n # 0 /\ DOMAIN lines = 1..n
      /\ \A i \in 1..n : lines[i].price \in Nat /\ lines[i].minutes \in Nat
  <2>1. /\ n \in Nat /\ n # 0 /\ DOMAIN lines = 1..n
        /\ \A i \in 1..n : lines[i] \in Lines
    BY <1>1
  <2>2. QED
    BY <2>1 DEF Lines
<1>3. s \in Seq(Nat) /\ Len(s) = n /\ \A i \in 1..n : s[i] = lines[i].price
  BY <1>2
<1>4. m \in Seq(Nat) /\ Len(m) = n /\ \A i \in 1..n : m[i] = lines[i].minutes
  BY <1>2
<1>5. r \in Seq(Nat) /\ Len(r) = n /\ \A i \in 1..n : r[i] = Rounded(s[i])
  <2>1. \A i \in 1..n : Rounded(lines[i].price) \in Nat
    BY <1>2, RoundedIs
  <2>2. r = [i \in 1..n |-> Rounded(lines[i].price)]
    BY <1>2 DEF LineItems
  <2> HIDE DEF r, s
  <2>3. QED
    BY <1>2, <1>3, <2>1, <2>2
<1>6. /\ Total(r) - Rounded(Total(s)) < n /\ Rounded(Total(s)) - Total(r) < n
      /\ (\A i \in 1..n : s[i] % 100 = 0) => Total(r) = Rounded(Total(s))
  <2> HIDE DEF r, s, n
  <2>1. QED
    BY <1>2, <1>3, <1>5, RoundedTotals
<1>7. ComputeQuote(lines).total = Total(r) /\ BookingCreated(lines).total = Rounded(Total(s))
  BY DEF ComputeQuote, BookingCreated
<1>8. PICK t : Sums(m, t)
  BY <1>4, SumsExist
<1>9. t[0] = 0 /\ \A k \in 1..n : t[k] = t[k - 1] + m[k] /\ t[k - 1] \in Nat
  BY <1>2, <1>4, <1>8 DEF Sums
<1>10. /\ Len(span) = n
       /\ \A i \in 1..n : span[i].start = t[i - 1] /\ span[i].end = t[i]
  <2>1. \A i \in 1..n :
          span[i] = [start |-> 0 + Duration(SubSeq(lines, 1, i - 1)),
                     end |-> 0 + Duration(SubSeq(lines, 1, i - 1)) + lines[i].minutes]
    BY <1>2 DEF ItemsOf
  <2>2. Len(span) = n
    BY <1>2 DEF ItemsOf
  <2>3. ASSUME NEW i \in 1..n
        PROVE  Duration(SubSeq(lines, 1, i - 1)) = t[i - 1]
    <3>1. i - 1 \in 0..n
      BY <1>2
    <3>2. QED
      BY <1>1, <1>8, <3>1, DurationOfFirst
  <2>4. ASSUME NEW i \in 1..n
        PROVE  span[i].start = t[i - 1] /\ span[i].end = t[i]
    <3>1. lines[i].minutes = m[i]
      BY <1>4
    <3> HIDE DEF span, m, n
    <3>2. span[i] = [start |-> 0 + t[i - 1], end |-> 0 + t[i - 1] + m[i]]
      BY <2>1, <2>3, <3>1
    <3>3. QED
      BY <1>9, <3>2
  <2>5. QED
    BY <2>2, <2>4
<1>11. Duration(lines) = t[n]
  <2>1. Duration(SubSeq(lines, 1, n)) = t[n]
    <3>1. n \in 0..n
      BY <1>2
    <3>2. QED
      BY <1>1, <1>8, <3>1, DurationOfFirst
  <2>2. SubSeq(lines, 1, n) = lines
    BY <1>1, SubSeqFull
  <2>3. QED
    BY <2>1, <2>2
<1> HIDE DEF span, r, s, m, n
<1>12. span[1].start = 0 /\ span[Len(span)].end = Duration(lines)
  <2>1. 1 \in 1..n /\ n \in 1..n /\ 1 - 1 = 0
    BY <1>2
  <2>2. QED
    BY <1>9, <1>10, <1>11, <2>1
<1>13. ASSUME NEW i \in 1..(Len(span) - 1)
       PROVE  span[i].end = span[i + 1].start
  <2>1. i \in 1..n /\ i + 1 \in 1..n /\ i + 1 - 1 = i
    BY <1>2, <1>10
  <2>2. QED
    BY <1>10, <2>1
<1>14. QED
  BY ZenonT(60), <1>2, <1>3, <1>6, <1>7, <1>12, <1>13 DEF n, span

(* A booking costs what its quote said up to less than one unit per line,   *)
(* exactly so for whole rupees, and its items tile its span, whatever is    *)
(* selected of whatever catalogue and however that is edited.               *)
THEOREM BookingsCostTheirQuotes ==
  CatalogueInit /\ [][EditCatalogue]_catalogueVars => []BookingCostsItsQuote
<1>1. QED
  BY CatalogueStart, EditsKeep, QuotedAndCreated, PTL

-----------------------------------------------------------------------------
(* What is shown and what is booked.                                        *)

LEMMA RoundedMonotone ==
  ASSUME NEW a \in Nat, NEW b \in Nat, a <= b
  PROVE  Rounded(a) <= Rounded(b)
<1> DEFINE r == Rounded(a)
           s == Rounded(b)
<1>1. r \in Nat /\ s \in Nat /\ 100 * r <= a + 50 /\ b <= 100 * s + 49
  BY RoundedIs
<1> HIDE DEF r, s
<1>2. r <= s
  BY <1>1
<1>3. QED
  BY <1>2 DEF r, s

(* The line of one service on sale is at its price.                         *)
LEMMA OneServiceLine ==
  ASSUME NEW h, NEW v \in Joined(h), NEW lines \in ResolveServiceLines(h, {v}, {})
  PROVE  ComputeQuote(lines).lineItems = <<Rounded(services[v].price)>>
<1> DEFINE there == {g \in {} : ShopOf[g] = h}
           first(q) == [i \in DOMAIN q |-> ServiceLine(q[i])]
           last  == [i \in 1..Cardinality(there) |-> PackageLine(CHOOSE g \in {} : TRUE)]
<1>1. PICK q \in SetToSeqs({v} \cap Joined(h)) : lines = first(q) \o last
  BY DEF ResolveServiceLines
<1>2. DOMAIN q = 1..1 /\ q[1] = v
  <2>1. {v} \cap Joined(h) = {v} /\ IsFiniteSet({v}) /\ Cardinality({v}) = 1
    BY FS_Singleton
  <2>2. q \in Seq({v}) /\ Len(q) = 1
    BY <2>1, OrderIsSeq
  <2>3. QED
    BY <2>2
<1>3. last = <<>>
  <2>1. there = {}
    OBVIOUS
  <2> HIDE DEF there
  <2>2. Cardinality(there) = 0
    BY <2>1, FS_EmptySet
  <2>3. QED
    BY <2>2
<1>4. first(q) = <<ServiceLine(v)>>
  <2> DEFINE line == ServiceLine(v)
  <2>1. \A i \in 1..1 : ServiceLine(q[i]) = line
    BY <1>2
  <2>2. first(q) = [i \in 1..1 |-> line]
    BY <1>2, <2>1
  <2> HIDE DEF line, first
  <2>3. QED
    BY <2>2 DEF line
<1> HIDE DEF first, last
<1> DEFINE line == ServiceLine(v)
<1>5. lines = <<line>>
  <2> HIDE DEF line
  <2>1. lines = <<line>> \o <<>>
    BY <1>1, <1>3, <1>4 DEF line
  <2>2. <<line>> \in Seq({line})
    OBVIOUS
  <2>3. QED
    BY <2>1, <2>2, ConcatEmptySeq
<1>6. line.price = services[v].price
  BY DEF ServiceLine
<1> HIDE DEF line
<1>7. LineItems(lines) = <<Rounded(services[v].price)>>
  BY <1>5, <1>6 DEF LineItems
<1>8. QED
  BY <1>7 DEF ComputeQuote

(* The line of one package of a shop is at its price.                       *)
LEMMA OnePackageLine ==
  ASSUME NEW h, NEW g, ShopOf[g] = h, NEW lines \in ResolveServiceLines(h, {}, {g})
  PROVE  ComputeQuote(lines).lineItems = <<Rounded(packages[g].price)>>
<1> DEFINE there == {x \in {g} : ShopOf[x] = h}
           first(q) == [i \in DOMAIN q |-> ServiceLine(q[i])]
           last  == [i \in 1..Cardinality(there) |-> PackageLine(CHOOSE x \in {g} : TRUE)]
<1>1. PICK q \in SetToSeqs({} \cap Joined(h)) : lines = first(q) \o last
  BY DEF ResolveServiceLines
<1>2. DOMAIN q = {}
  <2>1. {} \cap Joined(h) = {} /\ IsFiniteSet({}) /\ Cardinality({}) = 0
    BY FS_EmptySet
  <2>2. q \in Seq({}) /\ Len(q) = 0
    BY <2>1, OrderIsSeq
  <2>3. QED
    BY <2>2
<1>3. last = <<PackageLine(g)>>
  <2>1. there = {g} /\ (CHOOSE x \in {g} : TRUE) = g
    OBVIOUS
  <2> DEFINE line == PackageLine(g)
  <2>2. Cardinality(there) = 1
    <3> HIDE DEF there
    <3>1. QED
      BY <2>1, FS_Singleton
  <2>3. last = [i \in 1..1 |-> line]
    BY <2>1, <2>2
  <2> HIDE DEF line, last
  <2>4. QED
    BY <2>3 DEF line
<1>4. first(q) = <<>>
  <2>1. DOMAIN first(q) = {}
    BY <1>2
  <2>2. QED
    BY <1>2
<1> HIDE DEF first, last
<1> DEFINE line == PackageLine(g)
<1>5. lines = <<line>>
  <2> HIDE DEF line
  <2>1. lines = <<>> \o <<line>>
    BY <1>1, <1>3, <1>4 DEF line
  <2>2. <<line>> \in Seq({line})
    OBVIOUS
  <2>3. QED
    BY <2>1, <2>2, ConcatEmptySeq
<1>6. line.price = packages[g].price
  BY DEF PackageLine
<1> HIDE DEF line
<1>7. LineItems(lines) = <<Rounded(packages[g].price)>>
  BY <1>5, <1>6 DEF LineItems
<1>8. QED
  BY <1>7 DEF ComputeQuote

(* The pin of a shop is the least of the prices on sale.                    *)
LEMMA PinIsLeast ==
  ASSUME CatalogueInv, NEW h, NEW prices,
         prices = {Rounded(services[v].price) : v \in Joined(h)}
  PROVE  /\ \A p \in prices : MinPrice(h) <= p
         /\ \/ MinPrice(h) \in prices
            \/ prices = {} /\ MinPrice(h) = 0
            \/ \E v \in OnSale(h) : /\ catalog[CatalogOf[v]].deleted
                                    /\ MinPrice(h) = Rounded(services[v].price)
<1> DEFINE sold == {services[v].price : v \in OnSale(h)}
           least == CHOOSE p \in sold : \A x \in sold : p <= x
<1>1. Joined(h) \subseteq OnSale(h) /\ OnSale(h) \subseteq ServiceIds
  BY DEF Joined, OnSale
<1>2. \A v \in ServiceIds : services[v].price \in Nat
  BY CatalogueAssumption DEF CatalogueInv, Offer
<1>3. CASE sold = {}
  <2>1. OnSale(h) = {}
    BY <1>3
  <2>2. prices = {}
    BY <1>1, <2>1
  <2>3. MinPrice(h) = 0
    BY <1>3 DEF MinPrice
  <2>4. QED
    BY <2>2, <2>3
<1>4. CASE sold # {}
  <2>1. MinPrice(h) = Rounded(least)
    BY <1>4 DEF MinPrice
  <2>2. sold \in SUBSET Nat
    BY <1>1, <1>2
  <2>3. least \in sold /\ \A x \in sold : least <= x
    <3> HIDE DEF sold
    <3>1. \E m \in sold : \A k \in sold : m <= k
      BY <1>4, <2>2, LeastNumber
    <3>2. QED
      BY <3>1
  <2> HIDE DEF least
  <2>4. PICK v \in OnSale(h) : least = services[v].price
    BY <2>3
  <2>5. ASSUME NEW p \in prices
        PROVE  MinPrice(h) <= p
    <3>1. PICK w \in Joined(h) : p = Rounded(services[w].price)
      OBVIOUS
    <3>2. services[w].price \in sold
      BY <1>1
    <3>3. least \in Nat /\ services[w].price \in Nat /\ least <= services[w].price
      BY <2>2, <2>3, <3>2
    <3>4. QED
      BY <2>1, <3>1, <3>3, RoundedMonotone
  <2>6. v \in Joined(h) \/ catalog[CatalogOf[v]].deleted
    BY DEF Joined
  <2>7. QED
    BY <2>1, <2>4, <2>5, <2>6
<1>5. QED
  BY <1>3, <1>4

LEMMA ShownAndBooked == CatalogueInv => ShownIsBookable
<1> SUFFICES ASSUME CatalogueInv PROVE ShownIsBookable
  OBVIOUS
<1>1. ASSUME NEW h \in Listed, NEW c \in Categories, NEW gender \in {"man", "woman"},
             NEW x \in FindVariants(h, c, gender),
             NEW lines \in ResolveServiceLines(
               h, CollectShopServiceIds([k \in {c} |-> x.id], {}), {})
      PROVE  ComputeQuote(lines).lineItems = <<x.price>>
  <2>1. PICK v \in Joined(h) : x = [id |-> v, price |-> Rounded(services[v].price)]
    BY DEF FindVariants
  <2>2. CollectShopServiceIds([k \in {c} |-> x.id], {}) = {v}
    BY <2>1 DEF CollectShopServiceIds
  <2>3. QED
    BY <2>1, <2>2, OneServiceLine
<1>2. ASSUME NEW h \in Listed, NEW x \in BuildQuickBook(h),
             NEW lines \in ResolveServiceLines(
               h, CollectShopServiceIds([k \in {} |-> x.id], {x.id}), {})
      PROVE  ComputeQuote(lines).lineItems = <<x.price>>
  <2>1. PICK v \in Joined(h) : x = [id |-> v, price |-> Rounded(services[v].price)]
    BY DEF BuildQuickBook
  <2>2. CollectShopServiceIds([k \in {} |-> x.id], {x.id}) = {v}
    BY <2>1 DEF CollectShopServiceIds
  <2>3. QED
    BY <2>1, <2>2, OneServiceLine
<1>3. ASSUME NEW h \in Listed, NEW x \in FindPackages(h),
             NEW lines \in ResolveServiceLines(h, {}, {x.id})
      PROVE  ComputeQuote(lines).lineItems = <<x.price>>
  <2>1. PICK g \in PackagesOf(h) : x = PackageCard(g)
    BY DEF FindPackages
  <2>2. ShopOf[g] = h /\ x.id = g /\ x.price = Rounded(packages[g].price)
    BY <2>1 DEF PackagesOf, PackageCard
  <2>3. lines \in ResolveServiceLines(h, {}, {g})
    BY <1>3, <2>2
  <2>4. ComputeQuote(lines).lineItems = <<Rounded(packages[g].price)>>
    BY <2>2, <2>3, OnePackageLine
  <2>5. QED
    BY <2>2, <2>4
<1>4. ASSUME NEW h \in Listed, NEW s \in FindSpecialists(h)
      PROVE  SpecialistBelongsToShop(h, s)
  BY DEF FindSpecialists, SpecialistBelongsToShop
<1>5. ASSUME NEW h \in Listed, NEW pin \in FindMapPins(NearbyRadius), pin.id = h,
             NEW prices, prices = {x.price : x \in BuildQuickBook(h)}
      PROVE  /\ \A p \in prices : pin.price <= p
             /\ \/ pin.price \in prices
                \/ prices = {} /\ pin.price = 0
                \/ \E v \in OnSale(h) : /\ catalog[CatalogOf[v]].deleted
                                        /\ pin.price = Rounded(services[v].price)
  <2>1. pin.price = MinPrice(h)
    BY <1>5 DEF FindMapPins
  <2>2. prices = {Rounded(services[v].price) : v \in Joined(h)}
    <3> DEFINE card(v) == [id |-> v, price |-> Rounded(services[v].price)]
    <3>1. BuildQuickBook(h) = {card(v) : v \in Joined(h)}
      BY DEF BuildQuickBook
    <3>2. \A v : card(v).price = Rounded(services[v].price)
      OBVIOUS
    <3> HIDE DEF card
    <3>3. QED
      BY <1>5, <3>1, <3>2
  <2>3. QED
    BY <2>1, <2>2, PinIsLeast
<1>6. QED
  BY <1>1, <1>2, <1>3, <1>4, <1>5 DEF ShownIsBookable

(* Everything the app shows can be booked in that shop, at the price shown, *)
(* and the pin on the map says the least of it, however operators edit      *)
(* whatever catalogue.                                                      *)
THEOREM ShownCanBeBooked ==
  CatalogueInit /\ [][EditCatalogue]_catalogueVars => []ShownIsBookable
<1>1. QED
  BY CatalogueStart, EditsKeep, ShownAndBooked, PTL

-----------------------------------------------------------------------------
(* Search and profiles.                                                     *)

(* q has the first n rows of p.                                             *)
FirstRows(q, p, n) ==
  /\ Len(q) \in {n, Len(p)} /\ Len(q) <= n /\ Len(q) <= Len(p)
  /\ \A i \in 1..Len(q) : q[i] = p[i]

LEMMA LimitedPrefix ==
  ASSUME NEW S, IsFiniteSet(S), NEW lists \in SUBSET SetToSeqs(S), NEW n \in Nat,
         NEW q \in Limited(lists, n)
  PROVE  /\ q \in Seq(S)
         /\ \E p \in lists : FirstRows(q, p, n)
<1>1. PICK p \in lists : q = SubSeq(p, 1, IF Len(p) < n THEN Len(p) ELSE n)
  BY DEF Limited
<1> DEFINE k == IF Len(p) < n THEN Len(p) ELSE n
<1>2. p \in Seq(S) /\ Len(p) \in Nat
  BY OrderIsSeq
<1>3. k \in Nat /\ k <= Len(p)
  BY <1>2
<1>4. \A i \in 1..k : p[i] \in S
  BY <1>2, <1>3
<1> HIDE DEF k
<1>5. /\ q \in Seq(S) /\ Len(q) = (IF 1 <= k THEN k - 1 + 1 ELSE 0)
      /\ \A i \in 1..(k - 1 + 1) : q[i] = p[1 + i - 1]
  BY <1>1, <1>3, <1>4, SubSeqProperties DEF k
<1>6. Len(q) = k /\ \A i \in 1..Len(q) : q[i] = p[i]
  <2>1. Len(q) = k
    BY <1>3, <1>5
  <2>2. ASSUME NEW i \in 1..k PROVE q[i] = p[i]
    <3>1. i \in 1..(k - 1 + 1) /\ 1 + i - 1 = i
      BY <1>3
    <3>2. QED
      BY <1>5, <3>1
  <2>3. QED
    BY <2>1, <2>2
<1>7. k \in {n, Len(p)} /\ k <= n /\ k <= Len(p)
  BY <1>2 DEF k
<1>8. FirstRows(q, p, n)
  BY <1>6, <1>7 DEF FirstRows
<1>9. QED
  BY <1>5, <1>8

(* A list ordered by distance has a nearest salon first, and quick booking  *)
(* without a shop is that of one as near.                                   *)
LEMMA NearestIsFirst ==
  ASSUME NEW q \in FindNearestSalons(TRUE, 1), NEW offered \in QuickBookNearby
  PROVE  LET near == {h \in Range(q) : Distance[h] <= NearbyRadius}
         IN IF near = {} THEN offered = {}
            ELSE \E h \in Shops : /\ \A x \in near : Distance[h] = Distance[x]
                                  /\ offered \in GetQuickBookServices(h)
<1> DEFINE within == Within(NearbyRadius)
           near   == {h \in Range(q) : Distance[h] <= NearbyRadius}
           lists  == Orderings(Listed, ByDistance)
<1>1. IsFiniteSet(Listed) /\ Listed \subseteq Shops /\ NearbyRadius \in Nat
  BY CatalogueAssumption, FS_Subset DEF Listed
<1>2. \A a \in Listed : Distance[a] \in Nat
  BY <1>1, CatalogueAssumption
<1>3. q \in Limited(lists, 1)
  BY DEF FindNearestSalons
<1>4. lists \in SUBSET SetToSeqs(Listed)
      /\ \A p \in lists : \A i, j \in DOMAIN p : i < j => ~ByDistance(p[i], p[j])
  BY DEF Orderings
<1> HIDE DEF lists
<1>5. q \in Seq(Listed) /\ \E p \in lists : FirstRows(q, p, 1)
  BY <1>1, <1>3, <1>4, LimitedPrefix
<1>6. PICK p \in lists : FirstRows(q, p, 1)
  BY <1>5
<1>7. /\ p \in Seq(Listed) /\ Len(p) \in Nat
      /\ \A x \in Listed : \E i \in 1..Len(p) : p[i] = x
      /\ Len(q) = (IF Len(p) = 0 THEN 0 ELSE 1) /\ \A i \in 1..Len(q) : q[i] = p[i]
  <2>1. /\ p \in Seq(Listed) /\ Len(p) \in Nat
        /\ \A x \in Listed : \E i \in 1..Len(p) : p[i] = x
    BY <1>1, <1>4, OrderIsSeq
  <2>2. Len(q) \in Nat
    BY <1>5
  <2>3. Len(q) = (IF Len(p) = 0 THEN 0 ELSE 1) /\ \A i \in 1..Len(q) : q[i] = p[i]
    <3> DEFINE a == Len(q)
               b == Len(p)
    <3>1. /\ a \in {1, b} /\ a <= 1 /\ a <= b /\ a \in Nat /\ b \in Nat
          /\ \A i \in 1..a : q[i] = p[i]
      BY <1>6, <2>1, <2>2 DEF FirstRows
    <3> HIDE DEF a, b
    <3>2. a = IF b = 0 THEN 0 ELSE 1
      BY <3>1
    <3>3. QED
      BY <3>1, <3>2 DEF a, b
  <2>4. QED
    BY <2>1, <2>3
<1>8. CASE Len(p) = 0
  <2>1. DOMAIN q = {}
    BY <1>5, <1>7, <1>8
  <2>2. Listed = {}
    BY <1>7, <1>8
  <2>3. NearestOf(within) = {} /\ near = {}
    BY <2>1, <2>2 DEF NearestOf, Within, Range
  <2>4. offered = {}
    BY <2>3 DEF QuickBookNearby
  <2>5. QED
    BY <2>3, <2>4
<1>9. CASE Len(p) # 0
  <2> DEFINE a == p[1]
  <2>1. DOMAIN q = {1} /\ q[1] = a /\ 1 \in 1..Len(p) /\ a \in Listed
    BY <1>5, <1>7, <1>9, SMTT(60)
  <2>2. ASSUME NEW b \in Listed
        PROVE  Distance[a] <= Distance[b]
    <3>1. PICK i \in 1..Len(p) : p[i] = b
      BY <1>7
    <3>2. DOMAIN p = 1..Len(p)
      BY <1>7
    <3>3. CASE i = 1
      BY <1>2, <2>1, <3>1, <3>3
    <3>4. CASE i # 1
      <4>1. 1 \in DOMAIN p /\ i \in DOMAIN p /\ 1 < i
        BY <2>1, <3>1, <3>2, <3>4
      <4>2. ~ByDistance(p[1], p[i])
        BY <1>4, <4>1
      <4>3. ~(Distance[a] > Distance[b])
        BY <3>1, <4>2 DEF ByDistance, a
      <4>4. Distance[a] \in Nat /\ Distance[b] \in Nat
        BY <1>2, <2>1
      <4>5. QED
        BY <4>3, <4>4
    <3>5. QED
      BY <3>3, <3>4
  <2> HIDE DEF a
  <2>3. Range(q) = {a}
    BY <2>1 DEF Range
  <2>4. CASE Distance[a] <= NearbyRadius
    <3>1. near = {a}
      BY <2>3, <2>4
    <3>2. a \in NearestOf(within)
      BY <2>1, <2>2, <2>4 DEF NearestOf, Within
    <3>3. PICK h \in NearestOf(within) : offered = BuildQuickBook(h)
      BY <3>2 DEF QuickBookNearby
    <3>4. h \in Listed /\ Distance[h] <= Distance[a]
      BY <2>1, <2>4, <3>3 DEF NearestOf, Within
    <3>5. Distance[h] = Distance[a]
      <4>1. Distance[h] \in Nat /\ Distance[a] \in Nat /\ Distance[a] <= Distance[h]
        BY <1>2, <2>1, <2>2, <3>4
      <4>2. QED
        BY <3>4, <4>1
    <3>6. offered \in GetQuickBookServices(h)
      BY <3>3, <3>4 DEF GetQuickBookServices, ShopExists
    <3>7. h \in Shops
      BY <1>1, <3>4
    <3> HIDE DEF near
    <3>8. QED
      BY <3>1, <3>5, <3>6, <3>7 DEF near
  <2>5. CASE ~(Distance[a] <= NearbyRadius)
    <3>1. near = {}
      BY <2>3, <2>5
    <3>2. \A b \in Listed : ~(Distance[b] <= NearbyRadius)
      BY <1>1, <1>2, <2>1, <2>2, <2>5
    <3>3. NearestOf(within) = {}
      BY <3>2 DEF NearestOf, Within
    <3>4. offered = {}
      BY <3>3 DEF QuickBookNearby
    <3>5. QED
      BY <3>1, <3>4
  <2>6. QED
    BY <2>4, <2>5
<1>10. QED
  BY <1>8, <1>9

(* A category of a profile counts what it shows.                            *)
LEMMA CountsWhatItShows ==
  ASSUME CatalogueInv, NEW h \in Listed, NEW r \in FindServiceCategories(h), NEW shown,
         shown = UNION (GetCategoryVariants(h, r.id, "man")
                          \cup GetCategoryVariants(h, r.id, "woman"))
  PROVE  /\ Cardinality(shown) <= r.variantCount
         /\ \A v \in Joined(h) :
              CategoryOf[CatalogOf[v]] = r.id /\ catalog[CatalogOf[v]].active => shown # {}
<1> DEFINE counted(c) == {v \in Joined(h) : CategoryOf[CatalogOf[v]] = c}
           card(v)    == [id |-> v, price |-> Rounded(services[v].price)]
<1>1. PICK c \in Categories : /\ counted(c) # {}
                              /\ r = [id |-> c, variantCount |-> Cardinality(counted(c))]
  BY DEF FindServiceCategories
<1> DEFINE C == counted(c)
           man   == FindVariants(h, c, "man")
           woman == FindVariants(h, c, "woman")
<1>2. r.id = c /\ r.variantCount = Cardinality(C)
  BY <1>1
<1>3. shown = man \cup woman
  <2>1. /\ GetCategoryVariants(h, r.id, "man") = {man} \ {{}}
        /\ GetCategoryVariants(h, r.id, "woman") = {woman} \ {{}}
    BY <1>2 DEF GetCategoryVariants, FindApprovedShop
  <2> HIDE DEF man, woman
  <2>2. QED
    BY <2>1
<1>4. shown \subseteq {card(v) : v \in C}
  BY <1>3 DEF FindVariants
<1>5. IsFiniteSet(C)
  <2>1. C \subseteq ServiceIds
    BY DEF Joined, OnSale
  <2> HIDE DEF C
  <2>2. QED
    BY <2>1, CatalogueAssumption, FS_Subset
<1>6. Cardinality(shown) <= Cardinality(C)
  <2> DEFINE I == {card(v) : v \in C}
             f == [v \in C |-> card(v)]
  <2> HIDE DEF C, card
  <2>1. f \in Surjection(C, I)
    BY DEF Surjection
  <2> HIDE DEF f, I
  <2>2. IsFiniteSet(I) /\ Cardinality(I) <= Cardinality(C)
    BY <1>5, <2>1, FS_Surjection
  <2>3. IsFiniteSet(shown) /\ Cardinality(shown) <= Cardinality(I)
    BY <1>4, <2>2, FS_Subset DEF I
  <2>4. Cardinality(I) \in Nat /\ Cardinality(shown) \in Nat /\ Cardinality(C) \in Nat
    BY <1>5, <2>2, <2>3, FS_CardinalityType
  <2>5. QED
    BY <2>2, <2>3, <2>4
<1>7. ASSUME NEW v \in Joined(h), CategoryOf[CatalogOf[v]] = c, catalog[CatalogOf[v]].active
      PROVE  shown # {}
  <2>1. v \in ServiceIds
    BY DEF Joined, OnSale
  <2>2. CatalogOf[v] \in CatalogIds
    BY <2>1, CatalogueAssumption
  <2>3. GenderOf[CatalogOf[v]] \in {"male", "female", "unisex"} /\ catalog[CatalogOf[v]].active
    BY <1>7, <2>2, CatalogueAssumption
  <2>4. \/ GenderOf[CatalogOf[v]] \in VariantGenders("man")
        \/ GenderOf[CatalogOf[v]] \in VariantGenders("woman")
    BY <2>3 DEF VariantGenders
  <2>5. card(v) \in man \cup woman
    BY <1>7, <2>3, <2>4 DEF FindVariants
  <2>6. QED
    BY <1>3, <2>5
<1>8. QED
  BY <1>2, <1>6, <1>7

(* What a search orders its rows by, ascending.                             *)
SearchKey(f) ==
  [x \in SearchHits(f) |-> IF f.geo THEN Distance[x] ELSE -shops[x].rating]

(* A search has an order, and every order it may have is one of all its     *)
(* rows by that key.                                                        *)
LEMMA SearchLists ==
  ASSUME CatalogueInv, NEW f
  PROVE  /\ IsFiniteSet(SearchHits(f)) /\ SearchHits(f) \subseteq Listed
         /\ \A x \in SearchHits(f) : SearchKey(f)[x] \in Int
         /\ SearchOrders(f) # {}
         /\ \A q \in SearchOrders(f) :
              /\ q \in SetToSeqs(SearchHits(f))
              /\ \A i, j \in DOMAIN q : i < j => SearchKey(f)[q[i]] <= SearchKey(f)[q[j]]
<1> DEFINE hits == SearchHits(f)
           far  == [x \in hits |-> Distance[x]]
           rate == [x \in hits |-> shops[x].rating]
<1>1. /\ hits \subseteq Listed /\ IsFiniteSet(hits)
      /\ \A x \in hits : Distance[x] \in Nat /\ shops[x].rating \in Nat
  <2>1. hits \subseteq Listed
    BY DEF SearchHits
  <2> HIDE DEF hits
  <2>2. hits \subseteq Shops
    BY <2>1 DEF Listed
  <2>3. IsFiniteSet(hits)
    BY <2>2, CatalogueAssumption, FS_Subset
  <2>4. QED
    BY <2>1, <2>2, <2>3, CatalogueAssumption DEF CatalogueInv, ShopRow
<1>2. SearchKey(f) = [x \in hits |-> IF f.geo THEN Distance[x] ELSE -shops[x].rating]
  BY DEF SearchKey
<1>3. /\ \A x \in hits : far[x] = Distance[x] /\ far[x] \in Nat
      /\ \A x \in hits : rate[x] = shops[x].rating /\ rate[x] \in Nat
  BY <1>1
<1>4. SearchOrders(f) = IF f.geo THEN Orderings(hits, ByDistance) ELSE Orderings(hits, ByRating)
  BY DEF SearchOrders
<1> HIDE DEF hits, far, rate
<1>5. ASSUME NEW q \in SetToSeqs(hits)
      PROVE  \A i \in DOMAIN q : q[i] \in hits
  <2>1. q \in Seq(hits)
    BY <1>1, OrderIsSeq
  <2>2. QED
    BY <2>1
<1>6. SearchOrders(f) # {}
  <2>1. PICK p \in SetToSeqs(hits) : \A i, j \in DOMAIN p : i < j => far[p[i]] <= far[p[j]]
    BY <1>1, <1>3, SortedOrder
  <2>2. \A i, j \in DOMAIN p : i < j => ~ByDistance(p[i], p[j])
    BY <1>3, <1>5, <2>1 DEF ByDistance
  <2>3. PICK q \in SetToSeqs(hits) : \A i, j \in DOMAIN q : i < j => rate[q[i]] >= rate[q[j]]
    BY <1>1, <1>3, FallingOrder
  <2>4. \A i, j \in DOMAIN q : i < j => ~ByRating(q[i], q[j])
    BY <1>3, <1>5, <2>3 DEF ByRating
  <2>5. p \in Orderings(hits, ByDistance) /\ q \in Orderings(hits, ByRating)
    BY <2>2, <2>4 DEF Orderings
  <2>6. QED
    BY <1>4, <2>5
<1>7. ASSUME NEW q \in SearchOrders(f)
      PROVE  /\ q \in SetToSeqs(hits)
             /\ \A i, j \in DOMAIN q : i < j => SearchKey(f)[q[i]] <= SearchKey(f)[q[j]]
  <2>1. q \in SetToSeqs(hits)
    BY <1>4 DEF Orderings
  <2>2. ASSUME NEW i \in DOMAIN q, NEW j \in DOMAIN q, i < j
        PROVE  SearchKey(f)[q[i]] <= SearchKey(f)[q[j]]
    <3>1. q[i] \in hits /\ q[j] \in hits
      BY <1>5, <2>1
    <3>2. CASE f.geo
      <4>1. ~ByDistance(q[i], q[j])
        BY <1>4, <2>2, <3>2 DEF Orderings
      <4>2. QED
        BY <1>1, <1>2, <3>1, <3>2, <4>1 DEF ByDistance
    <3>3. CASE ~f.geo
      <4>1. ~ByRating(q[i], q[j])
        BY <1>4, <2>2, <3>3 DEF Orderings
      <4>2. QED
        BY <1>1, <1>2, <3>1, <3>3, <4>1 DEF ByRating
    <3>4. QED
      BY <3>2, <3>3
  <2>3. QED
    BY <2>1, <2>2
<1>8. \A x \in hits : SearchKey(f)[x] \in Int
  BY <1>1, <1>2
<1>9. QED
  BY <1>1, <1>6, <1>7, <1>8 DEF hits

LEMMA ListedShopsOpen == CatalogueInv => FoundShopOpens
<1> SUFFICES ASSUME CatalogueInv PROVE FoundShopOpens
  OBVIOUS
<1>1. IsFiniteSet(Listed) /\ Listed \subseteq Shops /\ HomeLimit \in Nat
  BY CatalogueAssumption, FS_Subset DEF Listed
<1>2. ASSUME NEW h \in Listed
      PROVE  GetShopById(h) # {} /\ GetQuickBookServices(h) # {}
  BY DEF GetShopById, GetQuickBookServices, FindApprovedShop, ShopExists
<1>3. ASSUME NEW q \in FindNearestSalons(TRUE, HomeLimit)
                     \cup FindNearestSalons(FALSE, HomeLimit) \cup FindPopularSalons(HomeLimit),
             NEW h \in Range(q)
      PROVE  GetShopById(h) # {}
  <2> DEFINE far   == Orderings(Listed, ByDistance)
             rated == Orderings(Listed, ByRating)
  <2>1. far \in SUBSET SetToSeqs(Listed) /\ rated \in SUBSET SetToSeqs(Listed)
    BY DEF Orderings
  <2>2. q \in Limited(far, HomeLimit) \cup Limited(rated, HomeLimit)
    BY DEF FindNearestSalons, FindPopularSalons
  <2> HIDE DEF far, rated
  <2>3. q \in Seq(Listed)
    BY <1>1, <2>1, <2>2, LimitedPrefix
  <2>4. h \in Listed
    BY <2>3 DEF Range
  <2>5. QED
    BY <1>2, <2>4
<1>4. ASSUME NEW geo \in BOOLEAN, NEW home \in GetHome(geo)
      PROVE  /\ \A c \in home.categories : GetCategorySalons(c, Loosest, 1, 1) # {}
             /\ \A h \in Range(home.nearest) \cup Range(home.popular) : GetShopById(h) # {}
  <2>1. /\ home.categories \subseteq Categories
        /\ home.nearest \in FindNearestSalons(geo, HomeLimit)
        /\ home.popular \in FindPopularSalons(HomeLimit)
    BY DEF GetHome
  <2>2. \A c \in home.categories : GetCategorySalons(c, Loosest, 1, 1) # {}
    <3>1. SUFFICES ASSUME NEW c \in Categories
                   PROVE  GetCategorySalons(c, Loosest, 1, 1) # {}
      BY <2>1
    <3> DEFINE f == [Loosest EXCEPT !.category = c]
    <3> HIDE DEF f
    <3>2. {c} \cap Categories = {c} /\ SearchOrders(f) # {}
      BY SearchLists
    <3>3. SearchSalons(f, 1, 1) # {}
      BY <3>2 DEF SearchSalons
    <3>4. GetCategorySalons(c, Loosest, 1, 1) = SearchSalons(f, 1, 1)
      BY <3>2 DEF GetCategorySalons, f
    <3>5. QED
      BY <3>3, <3>4
  <2>3. home.nearest \in FindNearestSalons(TRUE, HomeLimit)
                         \cup FindNearestSalons(FALSE, HomeLimit)
    BY <2>1
  <2>4. QED
    BY <1>3, <2>1, <2>2, <2>3
<1>5. ASSUME NEW map \in GetDiscoverMap(NearbyRadius)
      PROVE  /\ \A pin \in map.pins : GetQuickBookServices(pin.id) # {}
             /\ \A h \in map.areas : GetShopById(h) # {}
  <2>1. map.pins = FindMapPins(NearbyRadius) /\ map.areas = FindServiceAreaCircles(NearbyRadius)
    BY DEF GetDiscoverMap
  <2>2. \A pin \in map.pins : pin.id \in Listed
    BY <2>1 DEF FindMapPins, Within
  <2>3. map.areas \subseteq Listed
    BY <2>1 DEF FindServiceAreaCircles, Within
  <2>4. QED
    BY <1>2, <2>2, <2>3
<1>6. ASSUME NEW s \in PopularArtists
      PROVE  \E found \in GetSpecialists(ShopOf[s]) : s \in found
  BY DEF PopularArtists, GetSpecialists, FindSpecialists, FindApprovedShop
<1>7. ASSUME NEW h \in Shops, NEW shop \in GetShopById(h), NEW x \in shop.packages
      PROVE  GetShopPackageById(h, x.id) = {x}
  <2>1. h \in Listed /\ shop.packages = FindPackages(h)
    BY DEF GetShopById, FindApprovedShop
  <2>2. PICK g \in PackagesOf(h) : x = PackageCard(g)
    BY <2>1 DEF FindPackages
  <2>3. x.id = g
    BY <2>2 DEF PackageCard
  <2>4. {y : y \in {g} \cap PackagesOf(h)} = {g} /\ {g} \cap PackagesOf(h) = {g}
    OBVIOUS
  <2>5. FindPackageById(h, g) = {x}
    BY <2>2, <2>4 DEF FindPackageById
  <2>6. QED
    BY <2>1, <2>3, <2>5 DEF GetShopPackageById, FindApprovedShop
<1>8. ASSUME NEW h \in Shops, NEW shop \in GetShopById(h), NEW r \in shop.categories,
             NEW shown, shown = UNION (GetCategoryVariants(h, r.id, "man")
                                         \cup GetCategoryVariants(h, r.id, "woman"))
      PROVE  /\ Cardinality(shown) <= r.variantCount
             /\ \A v \in Joined(h) :
                  CategoryOf[CatalogOf[v]] = r.id /\ catalog[CatalogOf[v]].active
                    => shown # {}
  <2>1. h \in Listed /\ shop.categories = FindServiceCategories(h)
    BY DEF GetShopById, FindApprovedShop
  <2>2. QED
    BY <1>8, <2>1, CountsWhatItShows
<1>9. ASSUME NEW geo \in BOOLEAN, NEW h,
             NEW answer \in SearchSalons([Loosest EXCEPT !.geo = geo], 1, Cardinality(Shops)),
             h \in Range(answer.data)
      PROVE  GetShopById(h) # {}
  <2> DEFINE f == [Loosest EXCEPT !.geo = geo]
             n == Cardinality(Shops)
  <2> HIDE DEF f, n
  <2>1. PICK q \in SearchOrders(f) : answer.data = PageOf(q, 1, n)
    BY <1>9 DEF SearchSalons, f, n
  <2>2. q \in SetToSeqs(SearchHits(f)) /\ IsFiniteSet(SearchHits(f))
        /\ SearchHits(f) \subseteq Listed
    BY SearchLists
  <2>3. q \in Seq(SearchHits(f))
    BY <2>2, OrderIsSeq
  <2>4. n \in Nat
    BY CatalogueAssumption, FS_CardinalityType DEF n
  <2>5. CASE n = 0
    <3>1. PageOf(q, 1, n) = SubSeq(q, 1, 0)
      <4>1. (1 - 1) * n + 1 = 1 /\ 1 * n = 0 /\ ~(0 > Len(q))
        BY <2>3, <2>4, <2>5
      <4>2. QED
        BY <4>1 DEF PageOf
    <3>2. PageOf(q, 1, n) = <<>>
      BY <2>3, <3>1, SubSeqEmpty
    <3>3. QED
      BY <1>9, <2>1, <3>2 DEF Range
  <2>6. CASE n # 0
    <3>1. PageOf(q, 1, n) \in Seq(SearchHits(f))
      BY <2>3, <2>4, <2>6, PageShows
    <3>2. h \in SearchHits(f)
      BY <1>9, <2>1, <3>1 DEF Range
    <3>3. QED
      BY <1>2, <2>2, <3>2
  <2>7. QED
    BY <2>5, <2>6
<1>10. QED
  BY <1>4, <1>5, <1>6, <1>7, <1>8, <1>9, NearestIsFirst DEF FoundShopOpens

(* Whatever a client is shown leads on, however operators edit whatever     *)
(* catalogue, as long as they do not edit it in between.                    *)
THEOREM FoundShopsOpen ==
  CatalogueInit /\ [][EditCatalogue]_catalogueVars => []FoundShopOpens
<1>1. QED
  BY CatalogueStart, EditsKeep, ListedShopsOpen, PTL

LEMMA VariantsAreListed == CatalogueInv => VariantsAreFound
<1> SUFFICES ASSUME CatalogueInv, NEW h \in Listed, NEW c \in Categories,
                    NEW gender \in {"man", "woman"}, NEW geo \in BOOLEAN,
                    FindVariants(h, c, gender) # {}, NEW perPage \in 1..Cardinality(Shops)
             PROVE  FoundOnItsPages(h, c, [Loosest EXCEPT !.gender = gender, !.geo = geo],
                                    perPage)
  BY DEF VariantsAreFound
<1> DEFINE g    == [Loosest EXCEPT !.gender = gender, !.geo = geo]
           f    == [g EXCEPT !.category = c]
           hits == SearchHits(f)
           N    == Cardinality(hits)
           T    == TotalPages(N, perPage)
           ties == {x \in hits : IF geo THEN Distance[x] = Distance[h]
                                        ELSE shops[x].rating = shops[h].rating}
           answers(n) == GetCategorySalons(c, g, n, perPage)
           reply(q, n) == [data |-> PageOf(q, n, perPage), total |-> Len(q),
                           totalPages |-> TotalPages(Len(q), perPage)]
<1>1. /\ f.geo = geo /\ f.minRating = 0 /\ f.radius = -1 /\ f.services = {}
      /\ f.gender = gender /\ f.category = c /\ g.geo = geo
  BY DEF Loosest
<1> HIDE DEF f, g
<1>2. ASSUME NEW n
      PROVE  answers(n) = {reply(q, n) : q \in SearchOrders(f)}
  <2>1. {c} \cap Categories = {c}
    OBVIOUS
  <2>2. GetCategorySalons(c, g, n, perPage) = SearchSalons(f, n, perPage)
    BY <2>1 DEF GetCategorySalons, f
  <2>3. QED
    BY <2>2 DEF SearchSalons
<1>3. h \in hits
  <2>1. PICK v \in Joined(h) : /\ CategoryOf[CatalogOf[v]] = c
                               /\ GenderOf[CatalogOf[v]] \in VariantGenders(gender)
    BY DEF FindVariants
  <2>2. shops[h].rating \in Nat
    BY CatalogueAssumption DEF Listed, CatalogueInv, ShopRow
  <2>3. Sells(h, f)
    BY <1>1, <2>1 DEF Sells, VariantGenders, GendersFor
  <2> DEFINE r == shops[h].rating
  <2>4. r >= 0
    BY <2>2
  <2>5. QED
    BY <1>1, <2>3, <2>4 DEF SearchHits
<1>4. f.geo = geo
  BY <1>1
<1>5. perPage \in Nat \ {0}
  BY CatalogueAssumption, FS_CardinalityType
<1>6. /\ IsFiniteSet(hits) /\ hits \subseteq Listed
      /\ \A x \in hits : SearchKey(f)[x] \in Int
      /\ SearchOrders(f) # {}
  BY SearchLists
<1>7. ASSUME NEW q \in SearchOrders(f)
      PROVE  /\ q \in SetToSeqs(hits) /\ q \in Seq(hits) /\ Len(q) = N
             /\ \A i, j \in DOMAIN q : i < j => SearchKey(f)[q[i]] <= SearchKey(f)[q[j]]
             /\ PageOf(q, T + 1, perPage) = <<>>
             /\ \E p \in 1..T : \A n \in 1..T :
                  h \in Range(PageOf(q, n, perPage)) <=> n = p
  <2>1. /\ q \in SetToSeqs(hits)
        /\ \A i, j \in DOMAIN q : i < j => SearchKey(f)[q[i]] <= SearchKey(f)[q[j]]
    BY SearchLists
  <2> HIDE DEF hits
  <2>2. /\ q \in Seq(hits) /\ Len(q) = N
        /\ \E j \in 1..Len(q) : q[j] = h
        /\ \A i, j \in 1..Len(q) : q[i] = q[j] => i = j
    BY <1>3, <1>6, <2>1, OrderIsSeq
  <2>3. PICK j \in 1..Len(q) : q[j] = h
    BY <2>2
  <2>4. PageOf(q, T + 1, perPage) = <<>> /\ OnOnePage(h, q, perPage)
    BY <1>5, <2>2, <2>3, PagesShowAll
  <2>5. QED
    BY <2>1, <2>2, <2>4 DEF OnOnePage
<1>8. ASSUME NEW x \in hits
      PROVE  x \in ties <=> SearchKey(f)[x] = SearchKey(f)[h]
  <2>1. /\ SearchKey(f)[x] = IF geo THEN Distance[x] ELSE -shops[x].rating
        /\ SearchKey(f)[h] = IF geo THEN Distance[h] ELSE -shops[h].rating
    BY <1>3, <1>4 DEF SearchKey
  <2>2. shops[x].rating \in Nat /\ shops[h].rating \in Nat
    BY <1>3, <1>6, CatalogueAssumption DEF Listed, CatalogueInv, ShopRow
  <2> DEFINE a == shops[x].rating
             b == shops[h].rating
  <2> HIDE DEF a, b
  <2>3. -a = -b <=> a = b
    BY <2>2 DEF a, b
  <2>4. QED
    BY <2>1, <2>3 DEF a, b
<1> HIDE DEF hits, ties, N
<1>9. T \in Nat
  <2>1. N \in Nat
    BY <1>6, FS_CardinalityType DEF N
  <2>2. N + perPage - 1 \in Nat
    BY <1>5, <2>1
  <2>3. QED
    BY <1>5, <2>2, Division DEF TotalPages
<1> HIDE DEF T
<1>10. ASSUME NEW n \in 1..T, NEW p \in SearchOrders(f), h \in Range(PageOf(p, n, perPage)),
              NEW q \in SearchOrders(f)
       PROVE  Range(PageOf(q, n, perPage)) \cap ties # {}
  <2>1. PICK k \in DOMAIN PageOf(p, n, perPage) : PageOf(p, n, perPage)[k] = h
    BY <1>10 DEF Range
  <2>2. n \in Nat \ {0} /\ p \in Seq(hits) /\ q \in Seq(hits) /\ Len(p) = Len(q)
    BY <1>7, <1>9
  <2>3. PICK i \in 1..Len(p) : /\ k \in DOMAIN PageOf(q, n, perPage) /\ p[i] = h
                               /\ PageOf(q, n, perPage)[k] = q[i]
    BY <1>5, <2>1, <2>2, SamePlace
  <2>4. /\ SearchKey(f)[q[i]] <= SearchKey(f)[p[i]]
        /\ SearchKey(f)[p[i]] <= SearchKey(f)[q[i]]
    <3> DEFINE key == SearchKey(f)
    <3>1. \A x \in hits : key[x] \in Int
      BY <1>6
    <3>2. /\ p \in SetToSeqs(hits) /\ \A a, b \in DOMAIN p : a < b => key[p[a]] <= key[p[b]]
          /\ q \in SetToSeqs(hits) /\ \A a, b \in DOMAIN q : a < b => key[q[a]] <= key[q[b]]
      BY <1>7
    <3> HIDE DEF key
    <3>3. key[q[i]] <= key[p[i]]
      BY <1>6, <3>1, <3>2, NotBefore
    <3>4. key[p[i]] <= key[q[i]]
      BY <1>6, <2>2, <3>1, <3>2, NotBefore
    <3>5. QED
      BY <3>3, <3>4 DEF key
  <2>5. q[i] \in hits /\ p[i] \in hits
    BY <2>2
  <2>6. SearchKey(f)[q[i]] = SearchKey(f)[h]
    BY <1>6, <2>3, <2>4, <2>5
  <2>7. q[i] \in ties
    BY <1>8, <2>5, <2>6
  <2>8. q[i] \in Range(PageOf(q, n, perPage))
    BY <2>3 DEF Range
  <2>9. QED
    BY <2>7, <2>8
<1>11. ASSUME NEW n
       PROVE  /\ (\E answer \in answers(n) : h \in Range(answer.data))
                   <=> \E q \in SearchOrders(f) : h \in Range(PageOf(q, n, perPage))
              /\ \A answer \in answers(n) :
                   \E q \in SearchOrders(f) :
                     answer.data = PageOf(q, n, perPage) /\ answer.totalPages = T
  <2>1. \A q \in SearchOrders(f) : reply(q, n).data = PageOf(q, n, perPage)
                                   /\ reply(q, n).totalPages = T
    BY <1>7 DEF T
  <2> HIDE DEF reply, answers
  <2>2. QED
    BY <1>2, <2>1
<1>12. answers(1) # {}
  <2> HIDE DEF reply, answers
  <2>1. QED
    BY <1>2, <1>6
<1> HIDE DEF answers, reply
<1> DEFINE listing == {n \in 1..T : \E answer \in answers(n) : h \in Range(answer.data)}
<1>13. PICK q \in SearchOrders(f) : TRUE
  BY <1>6
<1>14. PICK p \in 1..T : \A n \in 1..T : h \in Range(PageOf(q, n, perPage)) <=> n = p
  BY <1>7
<1>15. p \in listing
  BY <1>11, <1>14
<1>16. ASSUME NEW n \in listing, NEW answer \in answers(n)
       PROVE  Range(answer.data) \cap ties # {}
  BY <1>10, <1>11
<1>17. ASSUME ties = {h}
       PROVE  Cardinality(listing) = 1
  <2>1. ASSUME NEW n \in listing PROVE n = p
    <3>1. Range(PageOf(q, n, perPage)) \cap {h} # {}
      BY <1>10, <1>11, <1>17
    <3>2. QED
      BY <1>14, <3>1
  <2>2. listing = {p}
    BY <1>15, <2>1
  <2>3. QED
    BY <2>2, FS_Singleton
<1>18. \A answer \in answers(T + 1) : answer.data = <<>>
  BY <1>7, <1>11
<1> HIDE DEF listing
<1>19. ASSUME NEW first \in answers(1)
       PROVE  /\ first.totalPages = T
              /\ {n \in 1..first.totalPages :
                    \E answer \in answers(n) : h \in Range(answer.data)} = listing
  BY <1>11 DEF listing
<1>20. ties = {x \in SearchHits([g EXCEPT !.category = c]) :
                 IF g.geo THEN Distance[x] = Distance[h]
                          ELSE shops[x].rating = shops[h].rating}
  BY <1>1 DEF ties, hits, f
<1>21. QED
  <2>1. listing # {}
    BY <1>15
  <2>2. FoundOnItsPages(h, c, g, perPage)
    BY <1>12, <1>16, <1>17, <1>18, <1>19, <1>20, <2>1 DEF FoundOnItsPages, answers
  <2>3. QED
    BY <2>2 DEF g

(* A shop with variants of a category is on the pages of a search for that  *)
(* category, on exactly one unless shops tie with it, and only those may    *)
(* take its place, whatever the catalogue, its edits and the page size.     *)
THEOREM VariantsCanBeFound ==
  CatalogueInit /\ [][EditCatalogue]_catalogueVars => []VariantsAreFound
<1>1. QED
  BY CatalogueStart, EditsKeep, VariantsAreListed, PTL
=============================================================================
