---------------------------- MODULE TestPlan_proofs ----------------------------
(***************************************************************************)
(* Proofs about TestPlan for every campaign, number of colours and number  *)
(* of variants of each guest.                                              *)
(***************************************************************************)
EXTENDS TestPlan, TLAPS, FiniteSetTheorems, SequenceTheorems,
        WellFoundedInduction

(* The least number principle.                                             *)
LEMMA Least ==
  ASSUME NEW T \in SUBSET Nat, T # {}
  PROVE  \E x \in T : \A y \in T : x <= y
<1>1. PICK x \in T : \A y \in T : ~ (<< y, x >> \in OpToRel(<, Nat))
  BY WFMin, NatLessThanWellFounded
<1>2. \A y \in T : ~ (y < x)
  BY <1>1 DEF OpToRel
<1> QED
  BY <1>2

(* What holds of 0, and of the next number after each, holds of all.       *)
LEMMA Counting ==
  ASSUME NEW T, 0 \in T, \A n \in Nat : n \in T => n + 1 \in T
  PROVE  \A n \in Nat : n \in T
<1> SUFFICES ASSUME Nat \ T # {} PROVE FALSE
  OBVIOUS
<1>1. PICK x \in Nat \ T : \A y \in Nat \ T : x <= y
  BY Least, Nat \ T \in SUBSET Nat
<1>2. x # 0 /\ x - 1 \in Nat /\ ~ (x <= x - 1)
  BY <1>1
<1>3. x - 1 \in T
  BY <1>1, <1>2
<1> QED
  BY <1>1, <1>2, <1>3

-----------------------------------------------------------------------------
(* In a finite set with a strict total order the elements are numbered by  *)
(* how many are before them.                                               *)
Before(S, R, x) == {y \in S : << y, x >> \in R}
TotalOrder(S, R) ==
  /\ \A x \in S : ~ (<< x, x >> \in R)
  /\ \A x, y, z \in S : << x, y >> \in R /\ << y, z >> \in R => << x, z >> \in R
  /\ \A x, y \in S : x # y => << x, y >> \in R \/ << y, x >> \in R

(* Who comes later has more before it.                                     *)
LEMMA BeforeGrows ==
  ASSUME NEW S, IsFiniteSet(S), NEW R, TotalOrder(S, R),
         NEW x \in S, NEW y \in S, << x, y >> \in R
  PROVE  Cardinality(Before(S, R, x)) < Cardinality(Before(S, R, y))
<1> DEFINE a == Before(S, R, x)
           b == Before(S, R, y)
<1>1. a \subseteq b
  BY DEF TotalOrder, Before
<1>2. x \in b /\ ~ (x \in a)
  BY DEF TotalOrder, Before
<1>3. b \in SUBSET S
  BY DEF Before
<1>4. IsFiniteSet(b)
  BY <1>3, FS_Subset
<1> HIDE DEF a, b
<1>5. IsFiniteSet(a) /\ Cardinality(a) <= Cardinality(b)
      /\ (Cardinality(b) = Cardinality(a) => b = a)
  BY <1>1, <1>4, FS_Subset
<1>6. Cardinality(a) # Cardinality(b)
  BY <1>2, <1>5
<1>7. Cardinality(a) \in Nat /\ Cardinality(b) \in Nat
  BY <1>4, <1>5, FS_CardinalityType
<1>8. Cardinality(a) < Cardinality(b)
  BY <1>5, <1>6, <1>7
<1> QED
  BY <1>8 DEF a, b

(* Every number up to the size of the set is that of an element.           *)
LEMMA Ranking ==
  ASSUME NEW S, IsFiniteSet(S), NEW R, TotalOrder(S, R)
  PROVE  /\ \A x \in S : Cardinality(Before(S, R, x)) + 1 \in 1..Cardinality(S)
         /\ \A n \in 1..Cardinality(S) :
              \E x \in S : Cardinality(Before(S, R, x)) = n - 1
<1> DEFINE C == Cardinality(S)
           rank == [x \in S |-> Cardinality(Before(S, R, x)) + 1]
<1>1. C \in Nat
  BY FS_CardinalityType
<1>2. \A x \in S : Cardinality(Before(S, R, x)) \in 0..(C - 1)
  <2> TAKE x \in S
  <2> DEFINE b == Before(S, R, x)
  <2>1. b \in SUBSET S /\ ~ (x \in b)
    BY DEF Before, TotalOrder
  <2> HIDE DEF b
  <2>2. IsFiniteSet(b) /\ Cardinality(b) <= C /\ (C = Cardinality(b) => S = b)
    BY <2>1, FS_Subset
  <2>3. Cardinality(b) \in Nat /\ Cardinality(b) # C
    BY <2>1, <2>2, FS_CardinalityType
  <2>4. Cardinality(b) \in 0..(C - 1)
    BY <1>1, <2>2, <2>3
  <2> QED
    BY <2>4 DEF b
<1>3. \A x \in S : Cardinality(Before(S, R, x)) + 1 \in 1..C
  BY <1>1, <1>2
<1>4. rank \in [S -> 1..C]
  BY <1>3
<1>5. \A x, y \in S : x # y => rank[x] # rank[y]
  <2>1. \A x, y \in S : << x, y >> \in R => rank[x] # rank[y]
    <3> TAKE x, y \in S
    <3> HAVE << x, y >> \in R
    <3> DEFINE a == Cardinality(Before(S, R, x))
               b == Cardinality(Before(S, R, y))
    <3>1. a < b
      BY BeforeGrows
    <3>2. a \in 0..(C - 1) /\ b \in 0..(C - 1)
      BY <1>2
    <3>3. rank[x] = a + 1 /\ rank[y] = b + 1
      OBVIOUS
    <3> HIDE DEF a, b, rank
    <3> QED
      BY <1>1, <3>1, <3>2, <3>3
  <2> HIDE DEF rank
  <2> QED
    BY <2>1 DEF TotalOrder
<1>6. rank \in Injection(S, 1..C)
  <2> HIDE DEF rank
  <2> QED
    BY <1>4, <1>5 DEF Injection, IsInjective
<1>7. IsFiniteSet(1..C) /\ Cardinality(1..C) = C
  BY <1>1, FS_Interval
<1>8. rank \in Surjection(S, 1..C)
  <2> HIDE DEF rank, C
  <2> QED
    BY <1>6, <1>7, FS_Injection DEF C
<1>9. \A n \in 1..C : \E x \in S : Cardinality(Before(S, R, x)) = n - 1
  <2> TAKE n \in 1..C
  <2>1. PICK x \in S : rank[x] = n
    <3> HIDE DEF rank, C
    <3> QED
      BY <1>8 DEF Surjection
  <2>2. Cardinality(Before(S, R, x)) + 1 = n
    BY <2>1
  <2>3. Cardinality(Before(S, R, x)) \in 0..(C - 1)
    BY <1>2
  <2> QED
    BY <1>1, <2>2, <2>3
<1> QED
  BY <1>3, <1>9

-----------------------------------------------------------------------------
(* Sequences.                                                              *)

(* The places in a sequence are numbered in their order.                   *)
LEMMA PlaceFacts ==
  ASSUME NEW places \in SUBSET Int, IsFiniteSet(places)
  PROVE  /\ \A n \in 1..Cardinality(places) :
              /\ Place(places, n) \in places
              /\ Cardinality({j \in places : j < Place(places, n)}) = n - 1
         /\ \A i \in places :
              /\ Cardinality({j \in places : j < i}) + 1 \in 1..Cardinality(places)
              /\ Place(places, Cardinality({j \in places : j < i}) + 1) = i
         /\ \A m, n \in 1..Cardinality(places) :
              m < n => Place(places, m) < Place(places, n)
<1> DEFINE R == {r \in places \X places : r[1] < r[2]}
           C == Cardinality(places)
           below(i) == Cardinality({j \in places : j < i})
<1>0. C \in Nat
  BY FS_CardinalityType
<1>1. \A i \in places : Before(places, R, i) = {j \in places : j < i}
  BY DEF Before
<1>2. TotalOrder(places, R)
  BY DEF TotalOrder
<1>3. \A i \in places : below(i) + 1 \in 1..C
  <2> HIDE DEF R
  <2> QED  BY <1>1, <1>2, Ranking
<1>4. \A n \in 1..C : \E i \in places : below(i) = n - 1
  <2>1. \A n \in 1..C : \E i \in places : Cardinality(Before(places, R, i)) = n - 1
    <3> HIDE DEF R
    <3> QED  BY <1>2, Ranking
  <2> HIDE DEF R
  <2> QED  BY <1>1, <2>1
<1>5. \A i, j \in places : i < j => below(i) < below(j)
  <2> TAKE i, j \in places
  <2> HAVE i < j
  <2>1. << i, j >> \in R
    OBVIOUS
  <2> HIDE DEF R
  <2>2. Cardinality(Before(places, R, i)) < Cardinality(Before(places, R, j))
    BY <1>2, <2>1, BeforeGrows
  <2> QED  BY <1>1, <2>2
<1> HIDE DEF R
<1>6. \A n \in 1..C : Place(places, n) \in places /\ below(Place(places, n)) = n - 1
  BY <1>4 DEF Place
<1>7. \A i \in places : Place(places, below(i) + 1) = i
  <2> TAKE i \in places
  <2> DEFINE p == Place(places, below(i) + 1)
  <2>1. p \in places /\ below(p) = (below(i) + 1) - 1
    BY <1>3, <1>6
  <2>2. below(i) \in Int /\ below(p) \in Int
    BY <1>3, <2>1, <1>0, FS_CardinalityType, FS_Subset
  <2>3. below(p) = below(i)
    BY <2>1, <2>2
  <2>4. ~ (p < i) /\ ~ (i < p)
    <3>1. (p < i => below(p) < below(i)) /\ (i < p => below(i) < below(p))
      BY <1>5, <2>1
    <3> DEFINE a == below(p)
               b == below(i)
    <3> HIDE DEF a, b
    <3> QED  BY <2>2, <2>3, <3>1 DEF a, b
  <2>5. p \in Int /\ i \in Int
    BY <2>1
  <2>6. p = i
    <3> HIDE DEF p
    <3> QED  BY <2>4, <2>5
  <2> QED  BY <2>6 DEF p
<1>8. \A m, n \in 1..C : m < n => Place(places, m) < Place(places, n)
  <2> TAKE m, n \in 1..C
  <2> HAVE m < n
  <2> DEFINE p == Place(places, m)
             q == Place(places, n)
             a == below(p)
             b == below(q)
  <2>1. p \in places /\ q \in places /\ a = m - 1 /\ b = n - 1
    BY <1>6
  <2>2. q < p => b < a
    BY <1>5, <2>1
  <2>3. p = q => a = b
    OBVIOUS
  <2>4. p \in Int /\ q \in Int
    BY <2>1
  <2> HIDE DEF p, q, a, b
  <2>5. p < q
    BY <1>0, <2>1, <2>2, <2>3, <2>4
  <2> QED  BY <2>5 DEF p, q
<1> QED
  BY <1>3, <1>6, <1>7, <1>8

LEMMA MapIsSeq ==
  ASSUME NEW S, NEW n \in Nat, NEW f \in [1..n -> S]
  PROVE  f \in Seq(S) /\ Len(f) = n /\ DOMAIN f = 1..n
OBVIOUS

LEMMA UpToFinite ==
  ASSUME NEW n \in Nat
  PROVE  IsFiniteSet(1..n) /\ Cardinality(1..n) = n
<1>1. IsFiniteSet(1..n) /\ Cardinality(1..n) = IF 1 > n THEN 0 ELSE n - 1 + 1
  BY FS_Interval
<1> QED
  BY <1>1

(* What is picked of a sequence is a sequence of elements of it.           *)
LEMMA PickedFacts ==
  ASSUME NEW S, NEW seq \in Seq(S), NEW places \in SUBSET DOMAIN seq
  PROVE  /\ Picked(seq, places) \in Seq(S)
         /\ IsFiniteSet(places)
         /\ Cardinality(places) \in Nat
         /\ Cardinality(places) <= Len(seq)
         /\ Len(Picked(seq, places)) = Cardinality(places)
         /\ DOMAIN Picked(seq, places) = 1..Cardinality(places)
         /\ \A n \in 1..Cardinality(places) :
              /\ Place(places, n) \in places
              /\ Picked(seq, places)[n] = seq[Place(places, n)]
<1>1. DOMAIN seq = 1..Len(seq) /\ Len(seq) \in Nat
  OBVIOUS
<1>2. IsFiniteSet(1..Len(seq)) /\ Cardinality(1..Len(seq)) = Len(seq)
  BY <1>1, UpToFinite
<1>3. IsFiniteSet(places) /\ Cardinality(places) <= Len(seq)
  BY <1>1, <1>2, FS_Subset
<1>4. Cardinality(places) \in Nat
  BY <1>3, FS_CardinalityType
<1>5. places \in SUBSET Int
  BY <1>1
<1>6. \A n \in 1..Cardinality(places) : Place(places, n) \in places
  BY <1>3, <1>5, PlaceFacts
<1>7. \A n \in 1..Cardinality(places) :
        seq[Place(places, n)] \in S
  BY <1>1, <1>6
<1> QED
  BY <1>3, <1>4, <1>6, <1>7 DEF Picked

(* itertools.product of a sequence of products and one more sequence.      *)
LEMMA TimesFacts ==
  ASSUME NEW S, NEW product \in Seq(Seq(S)), NEW seq \in Seq(S)
  PROVE  /\ Times(product, seq) \in Seq(Seq(S))
         /\ Len(Times(product, seq)) = Len(product) * Len(seq)
         /\ \A k \in 1..Len(Times(product, seq)) :
              /\ (k - 1) \div Len(seq) + 1 \in 1..Len(product)
              /\ ((k - 1) % Len(seq)) + 1 \in 1..Len(seq)
              /\ Times(product, seq)[k]
                   = Append(product[(k - 1) \div Len(seq) + 1],
                            seq[((k - 1) % Len(seq)) + 1])
<1> DEFINE P == Len(product)
           L == Len(seq)
<1>1. P \in Nat /\ L \in Nat
  OBVIOUS
<1>2. P * L \in Nat
  <2> HIDE DEF P, L
  <2> QED  BY <1>1
<1>3. \A k \in 1..(P * L) :
        (k - 1) \div L + 1 \in 1..P /\ ((k - 1) % L) + 1 \in 1..L
  <2> TAKE k \in 1..(P * L)
  <2> DEFINE q == (k - 1) \div L
             r == (k - 1) % L
  <2> HIDE DEF P, L
  <2>1. L > 0
    <3> SUFFICES ASSUME L = 0 PROVE FALSE
      BY <1>1
    <3>1. P * L = 0
      BY <1>1
    <3> QED  BY <3>1
  <2>2. k - 1 \in Nat /\ k - 1 < P * L
    BY <1>2
  <2>3. q \in Int /\ r \in 0..(L - 1) /\ k - 1 = L * q + r
    BY <1>1, <2>1, <2>2
  <2> HIDE DEF q, r
  <2>4. q >= 0
    <3> SUFFICES ASSUME q <= -1 PROVE FALSE
      BY <2>3
    <3>1. L * q <= - L
      BY <1>1, <2>1, <2>3
    <3> DEFINE t == L * q
    <3>2. t \in Int
      BY <1>1, <2>3
    <3> HIDE DEF t
    <3>3. k - 1 = t + r /\ t <= - L
      BY <2>3, <3>1 DEF t
    <3> QED  BY <3>2, <3>3, <1>1, <2>2, <2>3
  <2>5. q < P
    <3> SUFFICES ASSUME q >= P PROVE FALSE
      BY <1>1, <2>3
    <3>1. L * q >= L * P /\ L * P = P * L
      BY <1>1, <2>1, <2>3
    <3> DEFINE t == L * q
               u == P * L
    <3>2. t \in Int /\ u \in Nat
      BY <1>1, <1>2, <2>3
    <3> HIDE DEF t, u
    <3>3. k - 1 = t + r /\ t >= u /\ k - 1 < u
      BY <2>2, <2>3, <3>1 DEF t, u
    <3> QED  BY <3>2, <3>3, <1>1, <2>2, <2>3
  <2>6. q + 1 \in 1..P /\ r + 1 \in 1..L
    BY <1>1, <2>3, <2>4, <2>5
  <2> QED  BY <2>6 DEF q, r
<1>4. \A k \in 1..(P * L) :
        Append(product[(k - 1) \div L + 1], seq[((k - 1) % L) + 1]) \in Seq(S)
  <2> TAKE k \in 1..(P * L)
  <2>1. product[(k - 1) \div L + 1] \in Seq(S)
    BY <1>3
  <2>2. seq[((k - 1) % L) + 1] \in S
    BY <1>3
  <2> QED  BY <2>1, <2>2
<1>5. Times(product, seq) =
        [k \in 1..(P * L) |->
           Append(product[(k - 1) \div L + 1], seq[((k - 1) % L) + 1])]
  BY DEF Times
<1> HIDE DEF P, L
<1>6. Times(product, seq) \in Seq(Seq(S)) /\ Len(Times(product, seq)) = P * L
  <2> DEFINE N == P * L
             g == [k \in 1..N |-> Append(product[(k - 1) \div L + 1],
                                        seq[((k - 1) % L) + 1])]
  <2>1. N \in Nat /\ DOMAIN g = 1..N /\ \A k \in 1..N : g[k] \in Seq(S)
    BY <1>2, <1>4
  <2>2. g \in [1..N -> Seq(S)]
    BY <2>1
  <2> HIDE DEF N, g
  <2>3. g \in Seq(Seq(S)) /\ Len(g) = N
    BY <2>1, <2>2, MapIsSeq
  <2> QED  BY <1>5, <2>3 DEF N, g
<1>7. \A k \in 1..(P * L) : Times(product, seq)[k]
         = Append(product[(k - 1) \div L + 1], seq[((k - 1) % L) + 1])
  BY <1>5
<1> QED
  BY <1>3, <1>6, <1>7 DEF P, L

-----------------------------------------------------------------------------
(* itertools.product.                                                      *)

(* Division with remainder of a natural number.                            *)
LEMMA Divided ==
  ASSUME NEW x \in Nat, NEW L \in Nat, L > 0
  PROVE  /\ x \div L \in Int
         /\ x % L \in 0..(L - 1)
         /\ x = L * (x \div L) + (x % L)
<1>1. x \div L \in Int
  OBVIOUS
<1>2. x % L \in 0..(L - 1)
  OBVIOUS
<1>3. x = L * (x \div L) + (x % L)
  OBVIOUS
<1> QED
  BY <1>1, <1>2, <1>3

(* Every pair of an element of the product and one of the sequence has its *)
(* place, and no place has two.                                            *)
LEMMA TimesPlaces ==
  ASSUME NEW P \in Nat, NEW L \in Nat
  PROVE  /\ \A a \in 1..P : \A b \in 1..L : \E k \in 1..(P * L) :
              (k - 1) \div L + 1 = a /\ ((k - 1) % L) + 1 = b
         /\ \A j, k \in 1..(P * L) :
              (j - 1) \div L = (k - 1) \div L /\ (j - 1) % L = (k - 1) % L => j = k
<1>1. P * L \in Nat
  OBVIOUS
<1>2. ASSUME NEW a \in 1..P, NEW b \in 1..L
      PROVE  \E k \in 1..(P * L) : (k - 1) \div L + 1 = a /\ ((k - 1) % L) + 1 = b
  <2> DEFINE t == (a - 1) * L
             u == P * L
  <2>0. L > 0 /\ a - 1 \in Nat /\ a - 1 <= P - 1
    BY <1>2
  <2>1. t \in Nat
    BY <2>0
  <2>2. t + L <= u
    <3>1. t + L = a * L
      OBVIOUS
    <3>2. a * L <= P * L
      BY <2>0
    <3> QED  BY <3>1, <3>2
  <2>3. u \in Nat
    BY <1>1
  <2>4. (t + b - 1) \div L = a - 1 /\ (t + b - 1) % L = b - 1
    <3>1. t + b - 1 = L * (a - 1) + (b - 1) /\ b - 1 \in 0..(L - 1)
      OBVIOUS
    <3> HIDE DEF t
    <3> DEFINE x == t + b - 1
               q == x \div L
               r == x % L
    <3>2. x \in Nat
      BY <2>0, <2>1
    <3> HIDE DEF x
    <3>3. q \in Int /\ r \in 0..(L - 1) /\ x = L * q + r
      BY <2>0, <3>2
    <3>4. x = L * (a - 1) + (b - 1)
      BY <3>1 DEF x
    <3> HIDE DEF q, r
    <3>5. L * (q - (a - 1)) = (b - 1) - r
      BY <3>1, <3>3, <3>4
    <3> DEFINE d == q - (a - 1)
               m == L * d
    <3>6. d \in Int /\ m = (b - 1) - r
      BY <3>3, <3>5, <2>0
    <3>7. m < L /\ m > - L
      BY <3>1, <3>3, <3>6
    <3> HIDE DEF d
    <3>8. d < 1
      <4> SUFFICES ASSUME d >= 1 PROVE FALSE
        BY <3>6
      <4>1. L * d >= L
        BY <3>6, <2>0
      <4>2. m >= L
        BY <4>1
      <4> HIDE DEF m
      <4> QED  BY <4>2, <3>6, <3>7, <3>1
    <3>9. d > -1
      <4> SUFFICES ASSUME d <= -1 PROVE FALSE
        BY <3>6
      <4>1. L * d <= - L
        BY <3>6, <2>0
      <4>2. m <= - L
        BY <4>1
      <4> HIDE DEF m
      <4> QED  BY <4>2, <3>6, <3>7, <3>1
    <3>10. d = 0
      BY <3>6, <3>8, <3>9
    <3>11. q = a - 1
      BY <3>10, <3>3, <2>0 DEF d
    <3>12. m = 0
      BY <3>10
    <3>13. r = b - 1
      BY <3>12, <3>6, <3>3, <3>1
    <3> QED  BY <3>11, <3>13 DEF q, r, x
  <2>5. t + b \in 1..u
    <3> HIDE DEF t, u
    <3> QED  BY <2>1, <2>2, <2>3
  <2> HIDE DEF t, u
  <2>6. /\ t + b \in 1..u
        /\ (t + b - 1) \div L + 1 = a
        /\ ((t + b - 1) % L) + 1 = b
    BY <2>4, <2>5
  <2> DEFINE w == t + b
  <2>7. w \in 1..(P * L) /\ (w - 1) \div L + 1 = a /\ ((w - 1) % L) + 1 = b
    <3>1. w \in 1..(P * L)
      BY <2>6 DEF u
    <3>2. w - 1 = t + b - 1
      BY <2>1
    <3>3. (w - 1) \div L + 1 = a /\ ((w - 1) % L) + 1 = b
      BY <2>6, <3>2
    <3> QED  BY <3>1, <3>3
  <2> HIDE DEF w
  <2> QED  BY <2>7
<1>3. ASSUME NEW j \in 1..(P * L), NEW k \in 1..(P * L),
             (j - 1) \div L = (k - 1) \div L, (j - 1) % L = (k - 1) % L
      PROVE  j = k
  <2>1. L > 0
    <3> SUFFICES ASSUME L = 0 PROVE FALSE
      OBVIOUS
    <3>1. P * L = 0
      OBVIOUS
    <3> QED  BY <3>1, <1>3
  <2>2. j \in Int /\ k \in Int /\ j - 1 \in Nat /\ k - 1 \in Nat
    BY <1>1, <1>3
  <2>3. j - 1 = L * ((j - 1) \div L) + ((j - 1) % L)
    BY <2>1, <2>2, Divided
  <2>4. k - 1 = L * ((k - 1) \div L) + ((k - 1) % L)
    BY <2>1, <2>2, Divided
  <2>5. j - 1 = k - 1
    BY <1>3, <2>3, <2>4
  <2> QED  BY <2>5, <2>2
<1> QED
  BY <1>2, <1>3

(* A choice takes an element of each of the first n sequences.             *)
IsChoice(c, seqs, n) ==
  /\ Len(c) = n
  /\ \A k \in 1..n : \E j \in DOMAIN seqs[k] : c[k] = seqs[k][j]

(* A sequence of all choices, each once if the sequences have no element   *)
(* twice.                                                                  *)
AllChoices(S, P, seqs, n) ==
  /\ P \in Seq(Seq(S))
  /\ \A i \in DOMAIN P : IsChoice(P[i], seqs, n)
  /\ \A c \in Seq(S) : IsChoice(c, seqs, n) => \E i \in DOMAIN P : P[i] = c
  /\ (\A k \in 1..n : IsInjective(seqs[k])) => IsInjective(P)

LEMMA AppendFacts ==
  ASSUME NEW S, NEW s \in Seq(S), NEW x \in S
  PROVE  /\ Append(s, x) \in Seq(S)
         /\ Len(Append(s, x)) = Len(s) + 1
         /\ \A k \in 1..Len(s) : Append(s, x)[k] = s[k]
         /\ Append(s, x)[Len(s) + 1] = x
OBVIOUS

LEMMA SameSeq ==
  ASSUME NEW S, NEW s \in Seq(S), NEW t \in Seq(S), Len(s) = Len(t),
         \A k \in 1..Len(s) : s[k] = t[k]
  PROVE  s = t
OBVIOUS

(* Of no sequences there is one choice, the empty one.                     *)
LEMMA NoChoice ==
  ASSUME NEW S, NEW seqs \in Seq(Seq(S))
  PROVE  AllChoices(S, << << >> >>, seqs, 0)
<1> DEFINE e == << >>
           P == << e >>
<1>1. e \in Seq(S) /\ Len(e) = 0
  OBVIOUS
<1>2. \A c \in Seq(S) : Len(c) = 0 => c = e
  OBVIOUS
<1> HIDE DEF e
<1>3. P \in Seq(Seq(S)) /\ DOMAIN P = {1} /\ P[1] = e
  BY <1>1
<1> HIDE DEF P
<1>4. \A i \in DOMAIN P : IsChoice(P[i], seqs, 0)
  BY <1>1, <1>3 DEF IsChoice
<1>5. \A c \in Seq(S) : IsChoice(c, seqs, 0) => \E i \in DOMAIN P : P[i] = c
  BY <1>2, <1>3 DEF IsChoice
<1>6. IsInjective(P)
  BY <1>3 DEF IsInjective
<1>7. AllChoices(S, P, seqs, 0)
  BY <1>3, <1>4, <1>5, <1>6 DEF AllChoices
<1> QED
  BY <1>7 DEF P, e

(* One more sequence extends every choice by each of its elements.         *)
LEMMA NextChoice ==
  ASSUME NEW S, NEW seqs \in Seq(Seq(S)), NEW n \in Nat, n < Len(seqs),
         NEW P, AllChoices(S, P, seqs, n)
  PROVE  AllChoices(S, Times(P, seqs[n + 1]), seqs, n + 1)
<1> DEFINE seq == seqs[n + 1]
           T == Times(P, seq)
           Q(k) == (k - 1) \div Len(seq) + 1
           R(k) == ((k - 1) % Len(seq)) + 1
<1>1. n + 1 \in 1..Len(seqs) /\ seq \in Seq(S)
  OBVIOUS
<1>2. P \in Seq(Seq(S))
  BY DEF AllChoices
<1> HIDE DEF seq
<1>3. /\ T \in Seq(Seq(S)) /\ Len(T) = Len(P) * Len(seq)
      /\ \A k \in 1..Len(T) : /\ Q(k) \in 1..Len(P) /\ R(k) \in 1..Len(seq)
                              /\ T[k] = Append(P[Q(k)], seq[R(k)])
  BY <1>1, <1>2, TimesFacts
<1>4. DOMAIN T = 1..Len(T) /\ Len(P) \in Nat /\ Len(seq) \in Nat
  BY <1>1, <1>2, <1>3
<1>5. \A i \in 1..Len(P) : P[i] \in Seq(S) /\ IsChoice(P[i], seqs, n)
  BY <1>2 DEF AllChoices
<1>6. \A j \in 1..Len(seq) : seq[j] \in S
  BY <1>1
<1> HIDE DEF T
<1>7. \A i \in DOMAIN T : IsChoice(T[i], seqs, n + 1)
  <2> TAKE i \in DOMAIN T
  <2> DEFINE a == P[Q(i)]
             b == seq[R(i)]
  <2>1. a \in Seq(S) /\ IsChoice(a, seqs, n) /\ b \in S /\ T[i] = Append(a, b)
    BY <1>3, <1>4, <1>5, <1>6
  <2>2. \E j \in DOMAIN seqs[n + 1] : b = seqs[n + 1][j]
    <3> DEFINE at == R(i)
    <3>1. at \in 1..Len(seq)
      BY <1>3, <1>4
    <3>2. b = seq[at]
      OBVIOUS
    <3> HIDE DEF at, b, R
    <3>3. at \in DOMAIN seq
      BY <1>1, <3>1
    <3>4. \E j \in DOMAIN seq : b = seq[j]
      BY <3>2, <3>3
    <3> QED  BY <3>4 DEF seq
  <2> HIDE DEF a, b
  <2>3. Len(a) = n /\ \A k \in 1..n : \E j \in DOMAIN seqs[k] : a[k] = seqs[k][j]
    BY <2>1 DEF IsChoice
  <2>4. /\ Len(T[i]) = n + 1 /\ T[i][n + 1] = b
        /\ \A k \in 1..n : T[i][k] = a[k]
    BY <2>1, <2>3, AppendFacts
  <2>5. \A k \in 1..(n + 1) : \E j \in DOMAIN seqs[k] : T[i][k] = seqs[k][j]
    <3> TAKE k \in 1..(n + 1)
    <3>1. k \in 1..n \/ k = n + 1
      OBVIOUS
    <3> QED  BY <2>2, <2>3, <2>4, <3>1
  <2> QED  BY <2>4, <2>5 DEF IsChoice
<1>8. ASSUME NEW c \in Seq(S), IsChoice(c, seqs, n + 1)
      PROVE  \E i \in DOMAIN T : T[i] = c
  <2> DEFINE f == [k \in 1..n |-> c[k]]
  <2>1. Len(c) = n + 1 /\ \A k \in 1..(n + 1) : \E j \in DOMAIN seqs[k] : c[k] = seqs[k][j]
    BY <1>8 DEF IsChoice
  <2>2. f \in [1..n -> S]
    BY <2>1
  <2>3. f \in Seq(S) /\ Len(f) = n
    BY <2>2, MapIsSeq
  <2>4. \A k \in 1..n : f[k] = c[k]
    OBVIOUS
  <2> HIDE DEF f
  <2>5. IsChoice(f, seqs, n)
    <3>1. \A k \in 1..n : \E j \in DOMAIN seqs[k] : f[k] = seqs[k][j]
      <4> TAKE k \in 1..n
      <4>1. k \in 1..(n + 1) /\ f[k] = c[k]
        BY <2>4
      <4> QED  BY <2>1, <4>1
    <3> QED  BY <2>3, <3>1 DEF IsChoice
  <2>6. PICK a \in DOMAIN P : P[a] = f
    BY <2>3, <2>5 DEF AllChoices
  <2>7. PICK b \in DOMAIN seq : c[n + 1] = seq[b]
    <3>1. n + 1 \in 1..(n + 1)
      OBVIOUS
    <3> QED  BY <2>1, <3>1 DEF seq
  <2>8. a \in 1..Len(P) /\ b \in 1..Len(seq)
    BY <1>1, <1>2, <2>6, <2>7
  <2>9. PICK k \in 1..(Len(P) * Len(seq)) : Q(k) = a /\ R(k) = b
    <3> DEFINE p == Len(P)
               l == Len(seq)
    <3>1. p \in Nat /\ l \in Nat /\ a \in 1..p /\ b \in 1..l
      BY <1>4, <2>8
    <3> HIDE DEF p, l
    <3>2. \A d \in 1..p : \A e \in 1..l : \E k \in 1..(p * l) :
             (k - 1) \div l + 1 = d /\ ((k - 1) % l) + 1 = e
      BY <3>1, TimesPlaces
    <3>3. \E k \in 1..(p * l) : (k - 1) \div l + 1 = a /\ ((k - 1) % l) + 1 = b
      BY <3>1, <3>2
    <3> QED  BY <3>3 DEF p, l
  <2>10. k \in 1..Len(T)
    BY <1>3, <2>9
  <2>11. T[k] = Append(f, c[n + 1])
    BY <1>3, <2>6, <2>7, <2>9, <2>10
  <2>12. c[n + 1] \in S
    BY <2>1
  <2>13. T[k] = c
    <3> DEFINE g == Append(f, c[n + 1])
    <3>1. g \in Seq(S) /\ Len(g) = n + 1 /\ g[n + 1] = c[n + 1]
          /\ \A i \in 1..n : g[i] = f[i]
      <4>1. /\ g \in Seq(S)
            /\ Len(g) = Len(f) + 1
            /\ \A i \in 1..Len(f) : g[i] = f[i]
            /\ g[Len(f) + 1] = c[n + 1]
        <5> DEFINE x == c[n + 1]
        <5>1. f \in Seq(S) /\ x \in S
          BY <2>3, <2>12
        <5> HIDE DEF x
        <5>2. /\ Append(f, x) \in Seq(S)
              /\ Len(Append(f, x)) = Len(f) + 1
              /\ \A i \in 1..Len(f) : Append(f, x)[i] = f[i]
              /\ Append(f, x)[Len(f) + 1] = x
          BY <5>1, AppendFacts
        <5> QED  BY <5>2 DEF x
      <4> QED  BY <2>3, <4>1
    <3> HIDE DEF g
    <3>2. \A i \in 1..(n + 1) : g[i] = c[i]
      <4> TAKE i \in 1..(n + 1)
      <4>1. i \in 1..n \/ i = n + 1
        OBVIOUS
      <4> QED  BY <3>1, <2>4, <4>1
    <3>3. g = c
      BY <2>1, <3>1, <3>2, SameSeq
    <3> QED  BY <2>11, <3>3 DEF g
  <2> QED  BY <1>4, <2>10, <2>13
<1>9. ASSUME \A k \in 1..(n + 1) : IsInjective(seqs[k])
      PROVE  IsInjective(T)
  <2>1. IsInjective(P)
    BY <1>9 DEF AllChoices
  <2>2. IsInjective(seq)
    BY <1>9 DEF seq
  <2>3. ASSUME NEW j \in DOMAIN T, NEW k \in DOMAIN T, T[j] = T[k]
        PROVE  j = k
    <3> DEFINE a == P[Q(j)]
               b == seq[R(j)]
               x == P[Q(k)]
               y == seq[R(k)]
    <3>1. a \in Seq(S) /\ x \in Seq(S) /\ b \in S /\ y \in S
      BY <1>3, <1>4, <1>5, <1>6, <2>3
    <3>2. Len(a) = n /\ Len(x) = n
      BY <1>3, <1>4, <1>5, <2>3 DEF IsChoice
    <3>3. Append(a, b) = Append(x, y)
      BY <1>3, <1>4, <2>3
    <3> HIDE DEF a, b, x, y
    <3>4. b = y /\ \A i \in 1..n : a[i] = x[i]
      <4>1. /\ \A i \in 1..Len(a) : Append(a, b)[i] = a[i]
            /\ Append(a, b)[Len(a) + 1] = b
        BY <3>1, AppendFacts
      <4>2. /\ \A i \in 1..Len(x) : Append(x, y)[i] = x[i]
            /\ Append(x, y)[Len(x) + 1] = y
        BY <3>1, AppendFacts
      <4> QED  BY <3>2, <3>3, <4>1, <4>2
    <3>5. a = x
      BY <3>1, <3>2, <3>4, SameSeq
    <3>6. Q(j) \in DOMAIN P /\ Q(k) \in DOMAIN P /\ R(j) \in DOMAIN seq /\ R(k) \in DOMAIN seq
      <4>1. DOMAIN P = 1..Len(P) /\ DOMAIN seq = 1..Len(seq)
        BY <1>1, <1>2
      <4> QED  BY <1>3, <1>4, <2>3, <4>1
    <3>7. Q(j) = Q(k) /\ R(j) = R(k)
      BY <2>1, <2>2, <3>4, <3>5, <3>6 DEF IsInjective, a, b, x, y
    <3>8. j \in 1..(Len(P) * Len(seq)) /\ k \in 1..(Len(P) * Len(seq))
      BY <1>3, <1>4, <2>3
    <3>9. Len(seq) # 0
      BY <1>3, <1>4, <2>3
    <3>10. (j - 1) \div Len(seq) = (k - 1) \div Len(seq)
           /\ (j - 1) % Len(seq) = (k - 1) % Len(seq)
      <4> DEFINE l == Len(seq)
                 q == (j - 1) \div l
                 r == (j - 1) % l
                 u == (k - 1) \div l
                 v == (k - 1) % l
      <4>1. j - 1 \in Nat /\ k - 1 \in Nat /\ l \in Nat /\ l > 0
        BY <1>4, <2>3, <3>9
      <4> HIDE DEF l
      <4>2. q \in Int /\ r \in 0..(l - 1) /\ u \in Int /\ v \in 0..(l - 1)
        BY <4>1, Divided
      <4>3. q + 1 = u + 1 /\ r + 1 = v + 1
        BY <3>7 DEF l
      <4> HIDE DEF q, r, u, v
      <4>4. q = u /\ r = v
        BY <4>1, <4>2, <4>3
      <4> QED  BY <4>4 DEF q, r, u, v, l
    <3> QED  BY <1>4, <3>8, <3>10, TimesPlaces
  <2> QED  BY <2>3 DEF IsInjective
<1>10. AllChoices(S, T, seqs, n + 1)
  BY <1>3, <1>7, <1>8, <1>9 DEF AllChoices
<1> QED
  BY <1>10 DEF T, seq

(* itertools.product makes all choices.                                    *)
LEMMA ProductFacts ==
  ASSUME NEW S, NEW seqs \in Seq(Seq(S))
  PROVE  AllChoices(S, Product(seqs), seqs, Len(seqs))
<1> DEFINE N == Len(seqs)
           UpTo(f, m) == f = [n \in 0..m |->
                                IF n = 0 THEN << << >> >> ELSE Times(f[n - 1], seqs[n])]
           T == {m \in Nat : \E f : UpTo(f, m)}
           upTo == CHOOSE f : UpTo(f, N)
           U == {m \in Nat : m <= N => AllChoices(S, upTo[m], seqs, m)}
<1>1. N \in Nat
  OBVIOUS
<1>2. 0 \in T
  <2> DEFINE f == [n \in 0..0 |-> << << >> >>]
  <2>1. UpTo(f, 0)
    OBVIOUS
  <2> HIDE DEF f, UpTo
  <2> QED  BY <2>1
<1>3. ASSUME NEW m \in Nat, m \in T
      PROVE  m + 1 \in T
  <2>1. PICK f : UpTo(f, m)
    BY <1>3
  <2> DEFINE x == Times(f[m], seqs[m + 1])
             g == [n \in 0..(m + 1) |-> IF n = m + 1 THEN x ELSE f[n]]
  <2> HIDE DEF x
  <2>2. g[m + 1] = x /\ \A n \in 0..m : g[n] = f[n]
    OBVIOUS
  <2>3. f[0] = << << >> >> /\ \A n \in 1..m : f[n] = Times(f[n - 1], seqs[n])
    <3>1. \A n \in 0..m : f[n] = IF n = 0 THEN << << >> >> ELSE Times(f[n - 1], seqs[n])
      BY <2>1
    <3> QED  BY <3>1
  <2>4. g = [n \in 0..(m + 1) |-> g[n]]
    OBVIOUS
  <2> HIDE DEF g
  <2>5. \A n \in 0..(m + 1) :
          g[n] = IF n = 0 THEN << << >> >> ELSE Times(g[n - 1], seqs[n])
    <3> TAKE n \in 0..(m + 1)
    <3>1. CASE n = 0
      BY <2>2, <2>3, <3>1
    <3>2. CASE n = m + 1
      <4>1. n - 1 = m /\ m \in 0..m /\ n # 0
        BY <3>2
      <4> QED  BY <2>2, <3>2, <4>1 DEF x
    <3>3. CASE n \in 1..m
      <4>1. n - 1 \in 0..m /\ n \in 0..m /\ n # 0
        BY <3>3
      <4> QED  BY <2>2, <2>3, <3>3, <4>1
    <3>4. n = 0 \/ n = m + 1 \/ n \in 1..m
      OBVIOUS
    <3> QED  BY <3>1, <3>2, <3>3, <3>4
  <2>6. UpTo(g, m + 1)
    BY <2>4, <2>5
  <2> HIDE DEF UpTo
  <2> QED  BY <2>6
<1>4. N \in T
  <2> HIDE DEF T
  <2> QED  BY <1>1, <1>2, <1>3, Counting
<1>5. UpTo(upTo, N)
  <2> HIDE DEF UpTo, N
  <2> QED  BY <1>4
<1>6. Product(seqs) = upTo[N]
  BY DEF Product
<1> HIDE DEF upTo
<1>7. /\ upTo[0] = << << >> >>
      /\ \A n \in 1..N : upTo[n] = Times(upTo[n - 1], seqs[n])
  <2>1. \A n \in 0..N : upTo[n] = IF n = 0 THEN << << >> >> ELSE Times(upTo[n - 1], seqs[n])
    BY <1>5
  <2> QED  BY <1>1, <2>1
<1>8. 0 \in U
  BY <1>7, NoChoice
<1>9. ASSUME NEW m \in Nat, m \in U
      PROVE  m + 1 \in U
  <2> SUFFICES ASSUME m + 1 <= N PROVE AllChoices(S, upTo[m + 1], seqs, m + 1)
    OBVIOUS
  <2>1. m < N /\ m <= N /\ m + 1 \in 1..N /\ (m + 1) - 1 = m
    BY <1>1
  <2>2. AllChoices(S, upTo[m], seqs, m)
    BY <1>9, <2>1
  <2>3. upTo[m + 1] = Times(upTo[m], seqs[m + 1])
    BY <1>7, <2>1
  <2>4. AllChoices(S, Times(upTo[m], seqs[m + 1]), seqs, m + 1)
    BY <2>1, <2>2, NextChoice
  <2> QED  BY <2>3, <2>4
<1>10. N \in U
  <2> HIDE DEF U
  <2> QED  BY <1>1, <1>8, <1>9, Counting
<1> QED
  BY <1>1, <1>6, <1>10

(* F holds all there is in the first n rows, and two of it have the same   *)
(* name only if two in the rows have.                                      *)
AllRows(S, F, rows, n) ==
  /\ F \in Seq(S)
  /\ \A i \in DOMAIN F : \E r \in 1..n : \E j \in DOMAIN rows[r] : F[i] = rows[r][j]
  /\ \A r \in 1..n : \A j \in DOMAIN rows[r] : \E i \in DOMAIN F : F[i] = rows[r][j]
  /\ (\A q, r \in 1..n : \A i \in DOMAIN rows[q] : \A j \in DOMAIN rows[r] :
        rows[q][i].name = rows[r][j].name => q = r /\ i = j)
     => \A i, j \in DOMAIN F : F[i].name = F[j].name => i = j

LEMMA JoinFacts ==
  ASSUME NEW S, NEW s \in Seq(S), NEW t \in Seq(S)
  PROVE  /\ s \o t \in Seq(S)
         /\ Len(s \o t) = Len(s) + Len(t)
         /\ \A i \in 1..Len(s) : (s \o t)[i] = s[i]
         /\ \A j \in 1..Len(t) : (s \o t)[Len(s) + j] = t[j]
OBVIOUS

(* One more row keeps what the joined rows have.                           *)
LEMMA NextRow ==
  ASSUME NEW S, NEW rows \in Seq(Seq(S)), NEW n \in Nat, n < Len(rows),
         NEW F, AllRows(S, F, rows, n)
  PROVE  AllRows(S, F \o rows[n + 1], rows, n + 1)
<1> DEFINE row == rows[n + 1]
           G == F \o row
           L == Len(F)
           M == Len(row)
<1>1. row \in Seq(S) /\ F \in Seq(S)
  BY DEF AllRows
<1>2. L \in Nat /\ M \in Nat /\ DOMAIN F = 1..L /\ DOMAIN row = 1..M
  BY <1>1
<1>3. \A r \in 1..n : r \in 1..(n + 1)
  OBVIOUS
<1>4. n + 1 \in 1..(n + 1)
  OBVIOUS
<1>5. /\ G \in Seq(S) /\ Len(G) = L + M
      /\ \A i \in 1..L : G[i] = F[i]
      /\ \A j \in 1..M : G[L + j] = row[j]
  <2> HIDE DEF row
  <2> QED  BY <1>1, JoinFacts
<1>6. DOMAIN G = 1..(L + M)
  BY <1>5
<1>7. \A i \in 1..(L + M) : i \in 1..L \/ \E j \in 1..M : i = L + j
  <2> TAKE i \in 1..(L + M)
  <2> HIDE DEF L, M
  <2>1. CASE i <= L
    BY <1>2, <2>1
  <2>2. CASE i > L
    <3>1. i - L \in 1..M /\ i = L + (i - L)
      BY <1>2, <2>2
    <3> QED  BY <3>1
  <2> QED  BY <1>2, <2>1, <2>2
<1>8. \A i \in 1..L : i \in 1..(L + M)
  <2> HIDE DEF L, M
  <2> QED  BY <1>2
<1>9. \A j \in 1..M : L + j \in 1..(L + M)
  <2> HIDE DEF L, M
  <2> QED  BY <1>2
<1>10. \A i \in DOMAIN F : \E r \in 1..n : \E j \in DOMAIN rows[r] : F[i] = rows[r][j]
  BY DEF AllRows
<1>11. \A r \in 1..n : \A j \in DOMAIN rows[r] : \E i \in DOMAIN F : F[i] = rows[r][j]
  BY DEF AllRows
<1> HIDE DEF G, L, M
<1>12. \A i \in DOMAIN G : \E r \in 1..(n + 1) : \E j \in DOMAIN rows[r] : G[i] = rows[r][j]
  <2> TAKE i \in DOMAIN G
  <2>1. CASE i \in 1..L
    <3>1. PICK r \in 1..n : \E j \in DOMAIN rows[r] : F[i] = rows[r][j]
      BY <1>2, <1>10, <2>1
    <3>2. G[i] = F[i]
      BY <1>5, <2>1
    <3>3. r \in 1..(n + 1) /\ \E j \in DOMAIN rows[r] : G[i] = rows[r][j]
      BY <1>3, <3>1, <3>2
    <3> QED  BY <3>3
  <2>2. CASE \E j \in 1..M : i = L + j
    BY <1>2, <1>4, <1>5, <2>2 DEF row
  <2> QED  BY <1>6, <1>7, <2>1, <2>2
<1>13. \A r \in 1..(n + 1) : \A j \in DOMAIN rows[r] : \E i \in DOMAIN G : G[i] = rows[r][j]
  <2> TAKE r \in 1..(n + 1)
  <2> TAKE j \in DOMAIN rows[r]
  <2>1. CASE r \in 1..n
    <3>1. PICK i \in DOMAIN F : F[i] = rows[r][j]
      BY <1>11, <2>1
    <3> QED  BY <1>2, <1>5, <1>6, <1>8, <3>1
  <2>2. CASE r = n + 1
    BY <1>2, <1>5, <1>6, <1>9, <2>2 DEF row
  <2>3. r \in 1..n \/ r = n + 1
    OBVIOUS
  <2> QED  BY <2>1, <2>2, <2>3
<1>14. ASSUME \A q, r \in 1..(n + 1) : \A i \in DOMAIN rows[q] : \A j \in DOMAIN rows[r] :
                rows[q][i].name = rows[r][j].name => q = r /\ i = j,
              NEW i \in DOMAIN G, NEW j \in DOMAIN G, G[i].name = G[j].name
       PROVE  i = j
  <2>1. \A a, b \in DOMAIN F : F[a].name = F[b].name => a = b
    <3>1. \A q, r \in 1..n : \A a \in DOMAIN rows[q] : \A b \in DOMAIN rows[r] :
            rows[q][a].name = rows[r][b].name => q = r /\ a = b
      BY <1>3, <1>14
    <3> QED  BY <3>1 DEF AllRows
  <2>2. \A a, b \in 1..M : row[a].name = row[b].name => a = b
    BY <1>2, <1>4, <1>14 DEF row
  <2>3. \A a \in 1..L : \A b \in 1..M : F[a].name # row[b].name
    <3> TAKE a \in 1..L
    <3> TAKE b \in 1..M
    <3>1. PICK r \in 1..n : \E k \in DOMAIN rows[r] : F[a] = rows[r][k]
      BY <1>2, <1>10
    <3>2. PICK k \in DOMAIN rows[r] : F[a] = rows[r][k]
      BY <3>1
    <3>3. r # n + 1
      BY <3>1
    <3> QED  BY <1>2, <1>3, <1>4, <1>14, <3>2, <3>3 DEF row
  <2>4. CASE i \in 1..L /\ j \in 1..L
    BY <1>2, <1>5, <1>14, <2>1, <2>4
  <2>5. CASE i \in 1..L /\ \E b \in 1..M : j = L + b
    <3>1. PICK b \in 1..M : j = L + b
      BY <2>5
    <3>2. G[i] = F[i] /\ G[j] = row[b]
      BY <1>5, <2>5, <3>1
    <3> QED  BY <1>14, <2>3, <2>5, <3>2
  <2>6. CASE j \in 1..L /\ \E a \in 1..M : i = L + a
    <3>1. PICK a \in 1..M : i = L + a
      BY <2>6
    <3>2. G[j] = F[j] /\ G[i] = row[a]
      BY <1>5, <2>6, <3>1
    <3> QED  BY <1>14, <2>3, <2>6, <3>2
  <2>7. CASE (\E a \in 1..M : i = L + a) /\ (\E b \in 1..M : j = L + b)
    <3>1. PICK a \in 1..M, b \in 1..M : i = L + a /\ j = L + b
      BY <2>7
    <3>2. row[a].name = row[b].name
      BY <1>5, <1>14, <3>1
    <3> QED  BY <2>2, <3>1, <3>2
  <2> QED  BY <1>6, <1>7, <2>4, <2>5, <2>6, <2>7
<1>15. AllRows(S, G, rows, n + 1)
  BY <1>5, <1>12, <1>13, <1>14 DEF AllRows
<1> QED
  BY <1>15 DEF G, row

LEMMA FirstRow ==
  ASSUME NEW S, NEW rows \in Seq(Seq(S)), Len(rows) # 0
  PROVE  AllRows(S, rows[1], rows, 1)
<1>1. rows[1] \in Seq(S)
  OBVIOUS
<1>2. 1..1 = {1}
  OBVIOUS
<1> QED
  BY <1>1, <1>2 DEF AllRows

(* Joined rows hold every element of every row, in order.                  *)
LEMMA FlattenFacts ==
  ASSUME NEW S, NEW rows \in Seq(Seq(S))
  PROVE  AllRows(S, FlattenSeq(rows), rows, Len(rows))
<1> DEFINE N == Len(rows)
<1>1. N \in Nat
  OBVIOUS
<1>2. CASE N = 0
  <2> DEFINE e == << >>
  <2>1. FlattenSeq(rows) = rows
    BY <1>2 DEF FlattenSeq
  <2>2. rows = e
    BY <1>2
  <2>3. e \in Seq(S) /\ DOMAIN e = {}
    OBVIOUS
  <2>4. 1..N = {}
    BY <1>2
  <2> HIDE DEF e, N
  <2>5. AllRows(S, e, rows, N)
    BY <2>3, <2>4 DEF AllRows
  <2> QED  BY <2>1, <2>2, <2>5 DEF N
<1>3. CASE N # 0
  <2> DEFINE UpTo(f, m) == f = [i \in 1..m |->
                                  IF i = 1 THEN rows[i] ELSE f[i - 1] \o rows[i]]
             T == {m \in Nat : \E f : UpTo(f, m)}
             upTo == CHOOSE f : UpTo(f, N)
             U == {m \in Nat : m + 1 <= N => AllRows(S, upTo[m + 1], rows, m + 1)}
  <2>1. 0 \in T
    <3> DEFINE f == [i \in 1..0 |-> << >>]
    <3>1. UpTo(f, 0)
      OBVIOUS
    <3> HIDE DEF f, UpTo
    <3> QED  BY <3>1
  <2>2. ASSUME NEW m \in Nat, m \in T
        PROVE  m + 1 \in T
    <3>1. PICK f : UpTo(f, m)
      BY <2>2
    <3> DEFINE x == IF m = 0 THEN rows[1] ELSE f[m] \o rows[m + 1]
               g == [i \in 1..(m + 1) |-> IF i = m + 1 THEN x ELSE f[i]]
    <3> HIDE DEF x
    <3>2. g[m + 1] = x /\ \A i \in 1..m : g[i] = f[i]
      OBVIOUS
    <3>3. \A i \in 1..m : f[i] = IF i = 1 THEN rows[i] ELSE f[i - 1] \o rows[i]
      BY <3>1
    <3>4. g = [i \in 1..(m + 1) |-> g[i]]
      OBVIOUS
    <3> HIDE DEF g
    <3>5. \A i \in 1..(m + 1) :
            g[i] = IF i = 1 THEN rows[i] ELSE g[i - 1] \o rows[i]
      <4> TAKE i \in 1..(m + 1)
      <4>1. CASE i = m + 1 /\ m = 0
        BY <3>2, <4>1 DEF x
      <4>2. CASE i = m + 1 /\ m # 0
        <5>1. i - 1 = m /\ m \in 1..m /\ i # 1
          BY <4>2
        <5> QED  BY <3>2, <4>2, <5>1 DEF x
      <4>3. CASE i \in 1..m
        <5>1. CASE i = 1
          BY <3>2, <3>3, <4>3, <5>1
        <5>2. CASE i # 1
          <6>1. i - 1 \in 1..m
            BY <4>3, <5>2
          <6> QED  BY <3>2, <3>3, <4>3, <5>2, <6>1
        <5> QED  BY <5>1, <5>2
      <4>4. i = m + 1 \/ i \in 1..m
        OBVIOUS
      <4> QED  BY <4>1, <4>2, <4>3, <4>4
    <3>6. UpTo(g, m + 1)
      BY <3>4, <3>5
    <3> HIDE DEF UpTo
    <3> QED  BY <3>6
  <2>3. N \in T
    <3> HIDE DEF T
    <3> QED  BY <1>1, <2>1, <2>2, Counting
  <2>4. UpTo(upTo, N)
    <3> HIDE DEF UpTo, N
    <3> QED  BY <2>3
  <2>5. FlattenSeq(rows) = upTo[N]
    BY <1>3 DEF FlattenSeq
  <2> HIDE DEF upTo
  <2>6. \A i \in 1..N : upTo[i] = IF i = 1 THEN rows[i] ELSE upTo[i - 1] \o rows[i]
    BY <2>4
  <2>7. 0 \in U
    <3>1. upTo[1] = rows[1]
      BY <1>1, <1>3, <2>6
    <3> QED  BY <1>3, <3>1, FirstRow
  <2>8. ASSUME NEW m \in Nat, m \in U
        PROVE  m + 1 \in U
    <3> SUFFICES ASSUME (m + 1) + 1 <= N
                 PROVE  AllRows(S, upTo[(m + 1) + 1], rows, (m + 1) + 1)
      OBVIOUS
    <3> DEFINE k == m + 1
    <3>1. k \in Nat /\ k < N /\ k <= N /\ k + 1 \in 1..N /\ (k + 1) - 1 = k /\ k + 1 # 1
      BY <1>1
    <3>2. AllRows(S, upTo[k], rows, k)
      BY <2>8, <3>1
    <3> HIDE DEF k
    <3>3. upTo[k + 1] = upTo[k] \o rows[k + 1]
      BY <2>6, <3>1
    <3>4. AllRows(S, upTo[k] \o rows[k + 1], rows, k + 1)
      BY <3>1, <3>2, NextRow
    <3> QED  BY <3>3, <3>4 DEF k
  <2>9. \A m \in Nat : m \in U
    <3> HIDE DEF U
    <3> QED  BY <2>7, <2>8, Counting
  <2>10. N - 1 \in Nat /\ (N - 1) + 1 = N
    BY <1>1, <1>3
  <2>11. AllRows(S, upTo[N], rows, N)
    <3>1. N - 1 \in U
      <4> HIDE DEF U, N
      <4> QED  BY <2>9, <2>10
    <3>2. AllRows(S, upTo[(N - 1) + 1], rows, (N - 1) + 1)
      BY <2>10, <3>1
    <3> QED  BY <2>10, <3>2
  <2> QED  BY <2>5, <2>11
<1> QED
  BY <1>2, <1>3

-----------------------------------------------------------------------------
(* The guests of a setup.                                                  *)

(* What the configurations are made of.                                    *)
Guests  == {g \in [group : Groups, variant : Nat] : g.variant \in 1..Variants[g.group]}
Budgets == [guest : Groups, budget : Nat]
Tags    == [kind : {"cc", "mbr"}, guests : Seq(Groups), values : Seq(Nat)]
Names   == [guests : Seq(Guests), tags : Seq(Tags)]
VMs     == [guest : Guests, colours : SUBSET Colours, open : BOOLEAN, budget : Nat]
Configs == [name : Names, vms : Seq(VMs)]

LEMMA SetupParts ==
  ASSUME NEW s \in Setups
  PROVE  /\ s.guests \in SUBSET Groups /\ s.guests # {}
         /\ s.profiling \in BOOLEAN /\ s.colouring \in BOOLEAN
         /\ s.listed \in Seq(Seq(SUBSET Colours))
         /\ s.budgets \in Seq([guest : Groups, choices : Seq(Nat)])
BY DEF Setups

(* The order in which the guests are gathered, the profiler last.          *)
LEMMA GroupOrderFacts ==
  /\ GroupOrder \in Seq(Groups)
  /\ DOMAIN GroupOrder = 1..5
  /\ GroupOrder[5] = "profiler"
  /\ \A i, j \in 1..5 : GroupOrder[i] = GroupOrder[j] => i = j
  /\ Groups = {"linux", "cache", "embench", "cci", "profiler"}
<1>1. /\ GroupOrder[1] = "linux" /\ GroupOrder[2] = "cache" /\ GroupOrder[3] = "embench"
      /\ GroupOrder[4] = "cci" /\ GroupOrder[5] = "profiler"
      /\ DOMAIN GroupOrder = 1..5
  BY DEF GroupOrder
<1>2. 1..5 = {1, 2, 3, 4, 5}
  OBVIOUS
<1>3. Groups = {"linux", "cache", "embench", "cci", "profiler"}
  BY <1>1, <1>2 DEF Groups, Range
<1>4. GroupOrder \in Seq({"linux", "cache", "embench", "cci", "profiler"})
  BY DEF GroupOrder
<1>5. \A i, j \in 1..5 : GroupOrder[i] = GroupOrder[j] => i = j
  BY <1>1, <1>2
<1> QED
  BY <1>1, <1>3, <1>4, <1>5

(* A setup's groups are in the order of the names.                         *)
PlacesOf(s) == {i \in DOMAIN GroupOrder :
                  /\ GroupOrder[i] \in s.guests
                  /\ GroupOrder[i] = "profiler" => s.profiling}

(* The guests of a setup, each once, in that order.                        *)
LEMMA PresentFacts ==
  ASSUME NEW s \in Setups
  PROVE  /\ Present(s) \in Seq(Groups)
         /\ Len(Present(s)) = Cardinality(PlacesOf(s))
         /\ \A i, j \in 1..Len(Present(s)) : Present(s)[i] = Present(s)[j] => i = j
         /\ \A i \in 1..Len(Present(s)) :
              /\ Place(PlacesOf(s), i) \in PlacesOf(s)
              /\ Present(s)[i] = GroupOrder[Place(PlacesOf(s), i)]
<1> DEFINE P == PlacesOf(s)
           n == Cardinality(P)
<1>1. P \in SUBSET DOMAIN GroupOrder /\ Present(s) = Picked(GroupOrder, P)
  BY DEF PlacesOf, Present
<1>2. P \in SUBSET Int
  BY <1>1, GroupOrderFacts
<1> HIDE DEF P
<1>3. /\ Present(s) \in Seq(Groups) /\ IsFiniteSet(P) /\ Len(Present(s)) = n /\ n \in Nat
      /\ \A i \in 1..n : Place(P, i) \in P /\ Present(s)[i] = GroupOrder[Place(P, i)]
  BY <1>1, GroupOrderFacts, PickedFacts
<1>4. \A i, j \in 1..n : i < j => Place(P, i) < Place(P, j)
  BY <1>2, <1>3, PlaceFacts
<1>5. \A i, j \in 1..n : Present(s)[i] = Present(s)[j] => i = j
  <2> TAKE i, j \in 1..n
  <2> HAVE Present(s)[i] = Present(s)[j]
  <2> DEFINE p == Place(P, i)
             q == Place(P, j)
  <2>1. p \in 1..5 /\ q \in 1..5 /\ GroupOrder[p] = GroupOrder[q]
    BY <1>1, <1>3, GroupOrderFacts
  <2>2. p = q
    <3> HIDE DEF p, q
    <3> QED  BY <2>1, GroupOrderFacts
  <2>3. ~ (i < j) /\ ~ (j < i)
    <3>1. (i < j => p < q) /\ (j < i => q < p)
      BY <1>4
    <3> HIDE DEF p, q
    <3> QED  BY <2>1, <2>2, <3>1
  <2> QED  BY <1>3, <2>3
<1> QED
  BY <1>3, <1>5 DEF P

(* The guests of a configuration are those of the setup, in the order of   *)
(* the groups.                                                             *)
Ordered(s, guests) ==
  /\ Len(guests) = Len(Present(s))
  /\ \A k \in 1..Len(Present(s)) : guests[k].group = Present(s)[k]

GuestChoices(s) ==
  [k \in DOMAIN Present(s) |->
     [v \in 1..Variants[Present(s)[k]] |->
        [group |-> Present(s)[k], variant |-> v]]]

(* What a setup chooses from for each of its guests.                       *)
LEMMA GuestChoicesFacts ==
  ASSUME NEW s \in Setups
  PROVE  /\ GuestChoices(s) \in Seq(Seq(Guests))
         /\ Len(GuestChoices(s)) = Len(Present(s))
         /\ \A k \in 1..Len(Present(s)) :
              /\ IsInjective(GuestChoices(s)[k])
              /\ DOMAIN GuestChoices(s)[k] = 1..Variants[Present(s)[k]]
              /\ \A v \in 1..Variants[Present(s)[k]] :
                   GuestChoices(s)[k][v] = [group |-> Present(s)[k], variant |-> v]
<1> DEFINE p == Present(s)
           n == Len(p)
           G == GuestChoices(s)
<1>1. p \in Seq(Groups)
  BY PresentFacts
<1>2. n \in Nat /\ DOMAIN p = 1..n /\ \A k \in 1..n : p[k] \in Groups
  BY <1>1
<1>3. \A g \in Groups : Variants[g] \in Nat
  BY ConstantsAssumption
<1>4. G = [k \in 1..n |-> [v \in 1..Variants[p[k]] |-> [group |-> p[k], variant |-> v]]]
  BY <1>2 DEF GuestChoices
<1> HIDE DEF p, n
<1>5. \A g \in Groups : \A v \in 1..Variants[g] : [group |-> g, variant |-> v] \in Guests
  BY <1>3 DEF Guests
<1>6. \A k \in 1..n : G[k] \in Seq(Guests)
  <2> TAKE k \in 1..n
  <2> DEFINE m == Variants[p[k]]
             f == [v \in 1..m |-> [group |-> p[k], variant |-> v]]
  <2>1. m \in Nat /\ f \in [1..m -> Guests]
    BY <1>2, <1>3, <1>5
  <2> HIDE DEF m, f
  <2>2. f \in Seq(Guests)
    BY <2>1, MapIsSeq
  <2> QED  BY <1>4, <2>2 DEF f, m
<1>7. G \in [1..n -> Seq(Guests)]
  BY <1>4, <1>6
<1> HIDE DEF G
<1>8. G \in Seq(Seq(Guests)) /\ Len(G) = n
  BY <1>2, <1>7, MapIsSeq
<1>9. \A k \in 1..n : /\ DOMAIN G[k] = 1..Variants[p[k]]
                      /\ \A v \in 1..Variants[p[k]] :
                           G[k][v] = [group |-> p[k], variant |-> v]
  BY <1>4
<1>10. \A k \in 1..n : IsInjective(G[k])
  <2> TAKE k \in 1..n
  <2>1. \A v, w \in 1..Variants[p[k]] : G[k][v] = G[k][w] => v = w
    <3> TAKE v, w \in 1..Variants[p[k]]
    <3> HAVE G[k][v] = G[k][w]
    <3>1. /\ G[k][v] = [group |-> p[k], variant |-> v]
          /\ G[k][w] = [group |-> p[k], variant |-> w]
      BY <1>9
    <3>2. [group |-> p[k], variant |-> v] = [group |-> p[k], variant |-> w] => v = w
      OBVIOUS
    <3> QED  BY <3>1, <3>2
  <2> QED  BY <1>9, <2>1 DEF IsInjective
<1> QED
  BY <1>8, <1>9, <1>10 DEF n, p, G

(* The combinations of a setup: every choice of variants, each once.       *)
LEMMA CombinationsFacts ==
  ASSUME NEW s \in Setups
  PROVE  /\ AllChoices(Guests, Combinations(s), GuestChoices(s), Len(Present(s)))
         /\ Combinations(s) \in Seq(Seq(Guests))
         /\ IsInjective(Combinations(s))
         /\ \A i \in DOMAIN Combinations(s) : Ordered(s, Combinations(s)[i])
<1> DEFINE p == Present(s)
           n == Len(p)
           G == GuestChoices(s)
           C == Combinations(s)
<1>1. C = Product(G)
  BY DEF Combinations, GuestChoices
<1>2. /\ G \in Seq(Seq(Guests)) /\ Len(G) = n
      /\ \A k \in 1..n : /\ IsInjective(G[k])
                         /\ DOMAIN G[k] = 1..Variants[p[k]]
                         /\ \A v \in DOMAIN G[k] : G[k][v].group = p[k]
  <2>1. /\ G \in Seq(Seq(Guests)) /\ Len(G) = n
        /\ \A k \in 1..n : /\ IsInjective(G[k])
                           /\ DOMAIN G[k] = 1..Variants[p[k]]
                           /\ \A v \in 1..Variants[p[k]] :
                                G[k][v] = [group |-> p[k], variant |-> v]
    BY GuestChoicesFacts
  <2> HIDE DEF p, n, G, C
  <2>2. \A k \in 1..n : \A v \in DOMAIN G[k] : G[k][v] = [group |-> p[k], variant |-> v]
    BY <2>1
  <2>3. \A k \in 1..n : \A v \in DOMAIN G[k] : G[k][v].group = p[k]
    <3> TAKE k \in 1..n
    <3> TAKE v \in DOMAIN G[k]
    <3>1. [group |-> p[k], variant |-> v].group = p[k]
      OBVIOUS
    <3> QED  BY <2>2, <3>1
  <2> QED  BY <2>1, <2>3
<1> HIDE DEF p, n, G, C
<1>3. AllChoices(Guests, C, G, n)
  BY <1>1, <1>2, ProductFacts
<1>4. C \in Seq(Seq(Guests)) /\ IsInjective(C)
  BY <1>2, <1>3 DEF AllChoices
<1>5. \A i \in DOMAIN C : Len(C[i]) = n /\ \A k \in 1..n : C[i][k].group = p[k]
  BY <1>2, <1>3 DEF AllChoices, IsChoice
<1> QED
  BY <1>3, <1>4, <1>5 DEF Ordered, p, n, G, C

-----------------------------------------------------------------------------
(* Names.                                                                  *)

(* The last of some places.                                                *)
LEMMA Greatest ==
  ASSUME NEW n \in Nat, NEW S \in SUBSET (1..n), S # {}
  PROVE  \E j \in S : \A k \in S : k <= j
<1> DEFINE T == {m \in Nat : \E j \in S : m = n - j}
<1>1. \A j \in S : n - j \in T
  OBVIOUS
<1>2. PICK x \in T : \A y \in T : x <= y
  <2>1. T \in SUBSET Nat /\ T # {}
    BY <1>1
  <2> HIDE DEF T
  <2> QED  BY <2>1, Least
<1>3. PICK j \in S : x = n - j
  BY <1>2
<1>4. \A k \in S : n - j <= n - k
  BY <1>1, <1>2, <1>3
<1>5. \A k \in S : k <= j
  <2> TAKE k \in S
  <2>1. n - j <= n - k /\ j \in Int /\ k \in Int
    BY <1>4
  <2> QED  BY <2>1
<1> QED
  BY <1>5

(* A dictionary has every name once.                                       *)
LEMMA AsDictFacts ==
  ASSUME NEW S, NEW pairs \in Seq(S)
  PROVE  /\ AsDict(pairs) \in Seq(S)
         /\ \A k \in DOMAIN AsDict(pairs) : \E i \in DOMAIN pairs :
              AsDict(pairs)[k] = pairs[i]
         /\ \A i \in DOMAIN pairs : \E k \in DOMAIN AsDict(pairs) :
              AsDict(pairs)[k].name = pairs[i].name
         /\ \A j, k \in DOMAIN AsDict(pairs) :
              AsDict(pairs)[j].name = AsDict(pairs)[k].name => j = k
<1> DEFINE Same(i) == {j \in DOMAIN pairs : pairs[j].name = pairs[i].name}
           Latest(i) == CHOOSE j \in Same(i) : \A k \in Same(i) : k <= j
           firsts == {i \in DOMAIN pairs : \A j \in Same(i) : i <= j}
           n == Cardinality(firsts)
           N == Len(pairs)
<1>1. AsDict(pairs) = [k \in 1..n |-> pairs[Latest(Place(firsts, k))]]
  BY DEF AsDict
<1>2. DOMAIN pairs = 1..N /\ N \in Nat
  OBVIOUS
<1>3. firsts \in SUBSET DOMAIN pairs
  OBVIOUS
<1>4. /\ IsFiniteSet(firsts) /\ n \in Nat
      /\ \A k \in 1..n : Place(firsts, k) \in firsts
  <2> HIDE DEF firsts
  <2> QED  BY <1>3, PickedFacts
<1>5. \A i \in DOMAIN pairs : Latest(i) \in Same(i)
  <2> TAKE i \in DOMAIN pairs
  <2>1. \E j \in Same(i) : \A k \in Same(i) : k <= j
    <3> DEFINE T == Same(i)
    <3>1. T \in SUBSET (1..N) /\ T # {}
      BY <1>2
    <3> HIDE DEF T
    <3>2. \E j \in T : \A k \in T : k <= j
      BY <1>2, <3>1, Greatest
    <3> QED  BY <3>2 DEF T
  <2> QED  BY <2>1
<1>6. \A i \in DOMAIN pairs : \E j \in firsts : pairs[j].name = pairs[i].name
  <2> TAKE i \in DOMAIN pairs
  <2> DEFINE T == Same(i)
  <2>1. T \in SUBSET Nat /\ T # {}
    BY <1>2
  <2>2. PICK j \in T : \A k \in T : j <= k
    <3> HIDE DEF T
    <3> QED  BY <2>1, Least
  <2>3. j \in DOMAIN pairs /\ pairs[j].name = pairs[i].name
    BY <2>2
  <2>4. \A k \in Same(j) : j <= k
    BY <2>2, <2>3
  <2> QED  BY <2>3, <2>4
<1>7. \A i, j \in firsts : pairs[i].name = pairs[j].name => i = j
  <2> TAKE i, j \in firsts
  <2> HAVE pairs[i].name = pairs[j].name
  <2>1. i \in 1..N /\ j \in 1..N /\ i \in Same(j) /\ j \in Same(i)
    BY <1>2
  <2>2. i <= j /\ j <= i
    BY <2>1
  <2> QED  BY <1>2, <2>1, <2>2
<1> DEFINE D == AsDict(pairs)
           l(k) == Latest(Place(firsts, k))
<1>8. \A k \in 1..n : /\ l(k) \in DOMAIN pairs
                      /\ pairs[l(k)].name = pairs[Place(firsts, k)].name
  <2> TAKE k \in 1..n
  <2>1. Place(firsts, k) \in DOMAIN pairs
    BY <1>3, <1>4
  <2> QED  BY <1>5, <2>1
<1>9. \A i \in firsts : \E k \in 1..n : Place(firsts, k) = i
  <2>1. firsts \in SUBSET Int
    BY <1>2
  <2> HIDE DEF firsts
  <2>2. \A i \in firsts : Place(firsts, Cardinality({j \in firsts : j < i}) + 1) = i
          /\ Cardinality({j \in firsts : j < i}) + 1 \in 1..n
    BY <1>4, <2>1, PlaceFacts
  <2> QED  BY <2>2
<1>10. \A j, k \in 1..n : Place(firsts, j) = Place(firsts, k) => j = k
  <2>1. firsts \in SUBSET Int
    BY <1>2
  <2> HIDE DEF firsts
  <2>2. \A j, k \in 1..n : j < k => Place(firsts, j) < Place(firsts, k)
    BY <1>4, <2>1, PlaceFacts
  <2> TAKE j, k \in 1..n
  <2> HAVE Place(firsts, j) = Place(firsts, k)
  <2> DEFINE p == Place(firsts, j)
             q == Place(firsts, k)
  <2>3. p \in Int /\ p = q /\ (j < k => p < q) /\ (k < j => q < p)
    BY <1>4, <2>1, <2>2
  <2> HIDE DEF p, q
  <2>4. ~ (j < k) /\ ~ (k < j)
    BY <2>3
  <2> QED  BY <1>4, <2>4
<1> HIDE DEF Latest, Same
<1>11. D = [k \in 1..n |-> pairs[l(k)]]
  BY <1>1
<1> HIDE DEF D, firsts, l, n
<1>12. D \in [1..n -> S]
  BY <1>2, <1>8, <1>11
<1>13. D \in Seq(S) /\ DOMAIN D = 1..n
  BY <1>4, <1>12, MapIsSeq
<1>14. \A k \in DOMAIN D : \E i \in DOMAIN pairs : D[k] = pairs[i]
  BY <1>8, <1>11, <1>13
<1>15. \A k \in 1..n : D[k].name = pairs[Place(firsts, k)].name
  BY <1>8, <1>11
<1>16. \A i \in DOMAIN pairs : \E k \in DOMAIN D : D[k].name = pairs[i].name
  BY <1>6, <1>9, <1>13, <1>15
<1>17. \A j, k \in DOMAIN D : D[j].name = D[k].name => j = k
  BY <1>4, <1>7, <1>10, <1>13, <1>15
<1> QED
  BY <1>13, <1>14, <1>16, <1>17 DEF D

-----------------------------------------------------------------------------
(* A configuration as generate_configs makes it.                           *)
NewVMs(guests) ==
  [k \in DOMAIN guests |->
     [guest |-> guests[k], colours |-> {}, open |-> FALSE, budget |-> 0]]
GuestsOf(vms) == [k \in DOMAIN vms |-> vms[k].guest]

LEMMA NewVMsFacts ==
  ASSUME NEW guests \in Seq(Guests)
  PROVE  /\ NewVMs(guests) \in Seq(VMs)
         /\ Len(NewVMs(guests)) = Len(guests)
         /\ DOMAIN NewVMs(guests) = 1..Len(guests)
         /\ \A k \in 1..Len(guests) :
              NewVMs(guests)[k] = [guest |-> guests[k], colours |-> {}, open |-> FALSE,
                                   budget |-> 0]
         /\ GuestsOf(NewVMs(guests)) = guests
<1> DEFINE V == NewVMs(guests)
           n == Len(guests)
           vm(k) == [guest |-> guests[k], colours |-> {}, open |-> FALSE, budget |-> 0]
<1>1. n \in Nat /\ DOMAIN guests = 1..n /\ \A k \in 1..n : guests[k] \in Guests
  OBVIOUS
<1>2. \A k \in 1..n : vm(k) \in VMs /\ vm(k).guest = guests[k]
  BY <1>1 DEF VMs
<1>3. V = [k \in 1..n |-> vm(k)]
  BY <1>1 DEF NewVMs
<1>4. guests = [k \in 1..n |-> guests[k]]
  BY <1>1
<1> HIDE DEF V, vm, n
<1>5. V \in [1..n -> VMs]
  BY <1>2, <1>3
<1>6. V \in Seq(VMs) /\ Len(V) = n /\ DOMAIN V = 1..n
  BY <1>1, <1>5, MapIsSeq
<1>7. \A k \in 1..n : V[k] = vm(k)
  BY <1>3
<1>8. GuestsOf(V) = guests
  BY <1>2, <1>4, <1>6, <1>7 DEF GuestsOf
<1> QED
  BY <1>6, <1>7, <1>8 DEF V, vm, n

(* The configurations of a setup before its mitigations, and what their    *)
(* names tell when the list was empty.                                     *)
New(s, c) ==
  /\ c \in Configs
  /\ \E i \in DOMAIN Combinations(s) : c.vms = NewVMs(Combinations(s)[i])
FullyNamed(c) == c.name = [guests |-> GuestsOf(c.vms), tags |-> << >>]

(* The configurations of a setup before mitigations: one for every         *)
(* combination unless its name is taken, each under a name of its own.     *)
LEMMA NamedFacts ==
  ASSUME NEW s \in Setups, listConfigs \in Seq(Names)
  PROVE  /\ Named(s) \in Seq(Configs)
         /\ \A k \in DOMAIN Named(s) : New(s, Named(s)[k])
         /\ \A j, k \in DOMAIN Named(s) : Named(s)[j].name = Named(s)[k].name => j = k
         /\ listConfigs = << >> =>
              /\ \A k \in DOMAIN Named(s) : FullyNamed(Named(s)[k])
              /\ \A i \in DOMAIN Combinations(s) : \E k \in DOMAIN Named(s) :
                   Named(s)[k].vms = NewVMs(Combinations(s)[i])
<1> DEFINE C == Combinations(s)
           n == Len(C)
           names == CombinedNames(s)
           own == [i \in 1..n |-> [guests |-> C[i], tags |-> << >>]]
           vms(i) == [k \in DOMAIN C[i] |->
                        [guest |-> C[i][k], colours |-> {}, open |-> FALSE, budget |-> 0]]
           pair(i) == [name |-> names[i], vms |-> vms(i)]
           pairs == [i \in 1..n |-> pair(i)]
           D == Named(s)
<1>1. C \in Seq(Seq(Guests))
  BY CombinationsFacts
<1> HIDE DEF C
<1>2. n \in Nat /\ DOMAIN C = 1..n /\ \A i \in 1..n : C[i] \in Seq(Guests)
  BY <1>1
<1>3. D = AsDict(pairs)
  BY <1>2 DEF Named, C
<1>4. \A i \in 1..n : vms(i) = NewVMs(C[i])
  BY DEF NewVMs
<1>5. \A i \in 1..n : vms(i) \in Seq(VMs) /\ GuestsOf(vms(i)) = C[i]
  <2> HIDE DEF vms, n
  <2> QED  BY <1>2, <1>4, NewVMsFacts
<1> HIDE DEF vms
<1>6. own \in Seq(Names) /\ Len(own) = n
  <2>1. << >> \in Seq(Tags)
    OBVIOUS
  <2>2. \A i \in 1..n : [guests |-> C[i], tags |-> << >>] \in Names
    BY <1>2, <2>1 DEF Names
  <2>3. own \in [1..n -> Names]
    BY <2>2
  <2> HIDE DEF own, n
  <2> QED  BY <1>2, <2>3, MapIsSeq
<1>7. \A i \in 1..n : own[i] = [guests |-> C[i], tags |-> << >>]
  OBVIOUS
<1>8. names = listConfigs \o own
  BY <1>2 DEF CombinedNames, C
<1> HIDE DEF own, names
<1>9. /\ names \in Seq(Names)
      /\ Len(names) = Len(listConfigs) + n
      /\ listConfigs = << >> => \A i \in 1..n : names[i] = own[i]
  <2>1. /\ names \in Seq(Names) /\ Len(names) = Len(listConfigs) + Len(own)
        /\ \A j \in 1..Len(own) : names[Len(listConfigs) + j] = own[j]
    <3> DEFINE l == listConfigs
    <3>0. l \in Seq(Names)
      OBVIOUS
    <3> HIDE DEF l
    <3>1. /\ l \o own \in Seq(Names)
          /\ Len(l \o own) = Len(l) + Len(own)
          /\ \A j \in 1..Len(own) : (l \o own)[Len(l) + j] = own[j]
      BY <1>6, <3>0, JoinFacts
    <3> QED  BY <1>8, <3>1 DEF l
  <2>2. listConfigs = << >> => Len(listConfigs) = 0
    OBVIOUS
  <2> QED  BY <1>2, <1>6, <2>1, <2>2
<1>10. \A i \in 1..n : names[i] \in Names
  <2>1. \A i \in 1..n : i \in 1..Len(names)
    BY <1>2, <1>9
  <2> QED  BY <1>9, <2>1
<1>11. \A i \in 1..n : pair(i) \in Configs
  BY <1>5, <1>10 DEF Configs
<1>12. pairs \in [1..n -> Configs]
  <2> HIDE DEF pair
  <2> QED  BY <1>11
<1>13. \A i \in 1..n : pairs[i].name = names[i] /\ pairs[i].vms = vms(i)
  OBVIOUS
<1> HIDE DEF pairs, n
<1>14. pairs \in Seq(Configs) /\ DOMAIN pairs = 1..n
  BY <1>2, <1>12, MapIsSeq
<1> HIDE DEF D
<1>15. D \in Seq(Configs)
  BY <1>3, <1>14, AsDictFacts
<1>16. \A k \in DOMAIN D : \E i \in 1..n : D[k] = pairs[i]
  <2>1. \A k \in DOMAIN AsDict(pairs) : \E i \in DOMAIN pairs :
          AsDict(pairs)[k] = pairs[i]
    BY <1>14, AsDictFacts
  <2> QED  BY <1>3, <1>14, <2>1
<1>17. \A i \in 1..n : \E k \in DOMAIN D : D[k].name = pairs[i].name
  <2>1. \A i \in DOMAIN pairs : \E k \in DOMAIN AsDict(pairs) :
          AsDict(pairs)[k].name = pairs[i].name
    BY <1>14, AsDictFacts
  <2> QED  BY <1>3, <1>14, <2>1
<1>18. \A j, k \in DOMAIN D : D[j].name = D[k].name => j = k
  <2>1. \A j, k \in DOMAIN AsDict(pairs) :
          AsDict(pairs)[j].name = AsDict(pairs)[k].name => j = k
    BY <1>14, AsDictFacts
  <2> QED  BY <1>3, <2>1
<1>19. \A k \in DOMAIN D : New(s, D[k])
  <2> TAKE k \in DOMAIN D
  <2>1. PICK i \in 1..n : D[k] = pairs[i]
    BY <1>16
  <2>2. D[k].vms = NewVMs(C[i])
    BY <1>4, <1>13, <2>1
  <2>3. D[k] \in Configs
    BY <1>12, <2>1
  <2> QED  BY <1>2, <2>2, <2>3 DEF New, C
<1>20. ASSUME listConfigs = << >>
       PROVE  /\ \A k \in DOMAIN D : FullyNamed(D[k])
              /\ \A i \in DOMAIN C : \E k \in DOMAIN D : D[k].vms = NewVMs(C[i])
  <2>1. \A i \in 1..n : pairs[i].name = [guests |-> C[i], tags |-> << >>]
    BY <1>7, <1>9, <1>13, <1>20
  <2>2. \A i \in 1..n : pairs[i].vms = NewVMs(C[i]) /\ GuestsOf(pairs[i].vms) = C[i]
    BY <1>4, <1>5, <1>13
  <2>3. \A k \in DOMAIN D : FullyNamed(D[k])
    BY <1>16, <2>1, <2>2 DEF FullyNamed
  <2>4. \A i \in DOMAIN C : \E k \in DOMAIN D : D[k].vms = NewVMs(C[i])
    <3> TAKE i \in DOMAIN C
    <3>1. i \in 1..n
      BY <1>2
    <3>2. PICK k \in DOMAIN D : D[k].name = pairs[i].name
      BY <1>17, <3>1
    <3>3. PICK j \in 1..n : D[k] = pairs[j]
      BY <1>16
    <3> DEFINE a == [guests |-> C[i], tags |-> << >>]
               b == [guests |-> C[j], tags |-> << >>]
    <3>4. a = b
      BY <2>1, <3>1, <3>2, <3>3
    <3>5. a.guests = C[i] /\ b.guests = C[j]
      OBVIOUS
    <3> HIDE DEF a, b
    <3>6. C[i] = C[j]
      BY <3>4, <3>5
    <3> QED  BY <2>2, <3>3, <3>6
  <2> QED  BY <2>3, <2>4
<1> QED
  BY <1>15, <1>18, <1>19, <1>20 DEF C, D

-----------------------------------------------------------------------------
(* Colours.                                                                *)

(* The points between the shares of n guests.                              *)
IsPoints(p, n) ==
  /\ p \in Seq(0..NumColours)
  /\ Len(p) = n + 1
  /\ p[1] = 0
  /\ p[n + 1] = NumColours
  /\ \A i, j \in 1..(n + 1) : i < j => p[i] < p[j]

LEMMA Elements ==
  ASSUME NEW S, NEW s \in Seq(S)
  PROVE  Len(s) \in Nat /\ \A i \in 1..Len(s) : s[i] \in S
OBVIOUS

LEMMA FrontFacts ==
  ASSUME NEW S, NEW x \in S, NEW q \in Seq(S)
  PROVE  /\ << x >> \o q \in Seq(S)
         /\ Len(<< x >> \o q) = Len(q) + 1
         /\ (<< x >> \o q)[1] = x
         /\ \A i \in 1..Len(q) : (<< x >> \o q)[i + 1] = q[i]
OBVIOUS

LEMMA BackFacts ==
  ASSUME NEW S, NEW x \in S, NEW q \in Seq(S)
  PROVE  /\ q \o << x >> \in Seq(S)
         /\ Len(q \o << x >>) = Len(q) + 1
         /\ (q \o << x >>)[Len(q) + 1] = x
         /\ \A i \in 1..Len(q) : (q \o << x >>)[i] = q[i]
OBVIOUS

LEMMA PointsJoined ==
  ASSUME NEW S, NEW x \in S, NEW z \in S, NEW q \in Seq(S)
  PROVE  /\ << x >> \o q \o << z >> \in Seq(S)
         /\ Len(<< x >> \o q \o << z >>) = Len(q) + 2
         /\ (<< x >> \o q \o << z >>)[1] = x
         /\ (<< x >> \o q \o << z >>)[Len(q) + 2] = z
         /\ \A i \in 1..Len(q) : (<< x >> \o q \o << z >>)[i + 1] = q[i]
<1> DEFINE b == << x >> \o q
           p == b \o << z >>
<1>1. /\ b \in Seq(S) /\ Len(b) = Len(q) + 1 /\ b[1] = x
      /\ \A i \in 1..Len(q) : b[i + 1] = q[i]
  BY FrontFacts
<1> HIDE DEF b
<1>2. /\ p \in Seq(S) /\ Len(p) = Len(b) + 1 /\ p[Len(b) + 1] = z
      /\ \A i \in 1..Len(b) : p[i] = b[i]
  BY <1>1, BackFacts
<1>3. Len(q) \in Nat
  OBVIOUS
<1> HIDE DEF p
<1>4. p \in Seq(S) /\ Len(p) = Len(q) + 2 /\ p[1] = x /\ p[Len(q) + 2] = z
  BY <1>1, <1>2, <1>3
<1>5. \A i \in 1..Len(q) : p[i + 1] = q[i]
  BY <1>1, <1>2, <1>3
<1> QED
  BY <1>4, <1>5 DEF p, b

(* The ends of ranges that cover the colours without a gap.                *)
LEMMA PointsFacts ==
  ASSUME NEW n \in Nat, n > 0
  PROVE  \A p : p \in Points(n) <=> IsPoints(p, n)
<1> DEFINE Q == {q \in [1..(n - 1) -> 1..(NumColours - 1)] :
                   \A i, j \in 1..(n - 1) : i < j => q[i] < q[j]}
           join(q) == << 0 >> \o q \o << NumColours >>
<1>1. NumColours \in Nat /\ NumColours > 0 /\ n - 1 \in Nat
  BY ConstantsAssumption
<1>2. Points(n) = {join(q) : q \in Q}
  BY DEF Points
<1>3. ASSUME NEW q \in Q
      PROVE  IsPoints(join(q), n)
  <2>1. q \in [1..(n - 1) -> 1..(NumColours - 1)] /\ \A i, j \in 1..(n - 1) : i < j => q[i] < q[j]
    OBVIOUS
  <2>2. q \in [1..(n - 1) -> 0..NumColours]
    BY <1>1, <2>1
  <2>3. q \in Seq(0..NumColours) /\ Len(q) = n - 1
    BY <1>1, <2>2, MapIsSeq
  <2> DEFINE p == join(q)
  <2>4. /\ p \in Seq(0..NumColours) /\ Len(p) = n + 1 /\ p[1] = 0 /\ p[n + 1] = NumColours
        /\ \A i \in 1..(n - 1) : p[i + 1] = q[i]
    <3> DEFINE S == 0..NumColours
    <3>1. 0 \in S /\ NumColours \in S /\ q \in Seq(S)
      BY <1>1, <2>3
    <3> HIDE DEF S
    <3>2. /\ p \in Seq(S) /\ Len(p) = Len(q) + 2 /\ p[1] = 0 /\ p[Len(q) + 2] = NumColours
          /\ \A i \in 1..Len(q) : p[i + 1] = q[i]
      BY <3>1, PointsJoined
    <3>3. Len(q) + 2 = n + 1
      BY <2>3
    <3> HIDE DEF p
    <3> QED  BY <2>3, <3>2, <3>3 DEF S
  <2> HIDE DEF p
  <2>5. \A i \in 2..n : p[i] = q[i - 1] /\ i - 1 \in 1..(n - 1) /\ q[i - 1] \in 1..(NumColours - 1)
    <3> TAKE i \in 2..n
    <3>1. i - 1 \in 1..(n - 1) /\ (i - 1) + 1 = i
      OBVIOUS
    <3> QED  BY <2>1, <2>4, <3>1
  <2>6. \A i, j \in 1..(n + 1) : i < j => p[i] < p[j]
    <3> TAKE i, j \in 1..(n + 1)
    <3> HAVE i < j
    <3>1. CASE i = 1 /\ j = n + 1
      BY <1>1, <2>4, <3>1
    <3>2. CASE i = 1 /\ j \in 2..n
      BY <1>1, <2>4, <2>5, <3>2
    <3>3. CASE i \in 2..n /\ j = n + 1
      BY <1>1, <2>4, <2>5, <3>3
    <3>4. CASE i \in 2..n /\ j \in 2..n
      <4>1. i - 1 < j - 1
        OBVIOUS
      <4>2. q[i - 1] < q[j - 1]
        BY <2>1, <2>5, <3>4, <4>1
      <4> QED  BY <2>5, <3>4, <4>2
    <3> QED  BY <3>1, <3>2, <3>3, <3>4
  <2> QED  BY <2>4, <2>6 DEF IsPoints, p
<1>4. ASSUME NEW p, IsPoints(p, n)
      PROVE  p \in Points(n)
  <2> DEFINE N == NumColours
             q == [i \in 1..(n - 1) |-> p[i + 1]]
  <2>1. /\ p \in Seq(0..N) /\ Len(p) = n + 1 /\ p[1] = 0 /\ p[n + 1] = N
        /\ \A i, j \in 1..(n + 1) : i < j => p[i] < p[j]
    BY <1>4 DEF IsPoints
  <2>2. \A i \in 1..(n - 1) : q[i] = p[i + 1] /\ i + 1 \in 1..(n + 1) /\ 1 < i + 1 /\ i + 1 < n + 1
    OBVIOUS
  <2> HIDE DEF N
  <2>3. \A i \in 1..(n + 1) : p[i] \in 0..N
    BY <2>1, Elements
  <2>4. \A i \in 1..(n - 1) : q[i] \in 1..(N - 1)
    <3> TAKE i \in 1..(n - 1)
    <3> HIDE DEF q
    <3>1. p[1] < p[i + 1] /\ p[i + 1] < p[n + 1]
      <4>1. 1 \in 1..(n + 1) /\ n + 1 \in 1..(n + 1)
        OBVIOUS
      <4> QED  BY <2>1, <2>2, <4>1
    <3>2. p[i + 1] \in 0..N
      BY <2>2, <2>3
    <3> QED  BY <1>1, <2>1, <2>2, <3>1, <3>2 DEF N
  <2>5. q \in [1..(n - 1) -> 1..(N - 1)]
    BY <2>4
  <2>6. \A i, j \in 1..(n - 1) : i < j => q[i] < q[j]
    <3> TAKE i, j \in 1..(n - 1)
    <3> HAVE i < j
    <3>1. i + 1 < j + 1
      OBVIOUS
    <3> HIDE DEF q
    <3> QED  BY <2>1, <2>2, <3>1
  <2>7. q \in Q
    BY <2>5, <2>6 DEF N
  <2>8. q \in [1..(n - 1) -> 0..N]
    BY <1>1, <2>5 DEF N
  <2> HIDE DEF q, Q
  <2>9. q \in Seq(0..N) /\ Len(q) = n - 1
    BY <1>1, <2>8, MapIsSeq
  <2> DEFINE r == join(q)
  <2>10. /\ r \in Seq(0..N) /\ Len(r) = n + 1 /\ r[1] = 0 /\ r[n + 1] = N
         /\ \A i \in 1..(n - 1) : r[i + 1] = q[i]
    <3> DEFINE S == 0..NumColours
    <3>1. 0 \in S /\ NumColours \in S /\ q \in Seq(S)
      BY <1>1, <2>9 DEF N
    <3> HIDE DEF S
    <3>2. /\ r \in Seq(S) /\ Len(r) = Len(q) + 2 /\ r[1] = 0 /\ r[Len(q) + 2] = NumColours
          /\ \A i \in 1..Len(q) : r[i + 1] = q[i]
      BY <3>1, PointsJoined
    <3>3. Len(q) + 2 = n + 1
      BY <2>9
    <3> HIDE DEF r
    <3> QED  BY <2>9, <3>2, <3>3 DEF S, N
  <2> HIDE DEF r
  <2>11. \A i \in 1..(n + 1) : r[i] = p[i]
    <3> TAKE i \in 1..(n + 1)
    <3>1. CASE i = 1
      BY <2>1, <2>10, <3>1
    <3>2. CASE i = n + 1
      BY <2>1, <2>10, <3>2
    <3>3. CASE i \in 2..n
      <4>1. i - 1 \in 1..(n - 1) /\ (i - 1) + 1 = i
        BY <3>3
      <4> QED  BY <2>2, <2>10, <4>1
    <3> QED  BY <3>1, <3>2, <3>3
  <2>12. r = p
    BY <2>1, <2>10, <2>11, SameSeq
  <2> QED  BY <1>2, <2>7, <2>12 DEF r
<1> HIDE DEF Q, join
<1> QED
  BY <1>2, <1>3, <1>4

LEMMA PointsFinite ==
  ASSUME NEW n \in Nat, n > 0
  PROVE  IsFiniteSet(Points(n))
<1> DEFINE I == 1..(n + 1)
           V == 0..NumColours
           graph(p) == {<< i, p[i] >> : i \in I}
           f == [p \in Points(n) |-> graph(p)]
<1>1. IsFiniteSet(I) /\ IsFiniteSet(V)
  <2>1. NumColours \in Int /\ n + 1 \in Int
    BY ConstantsAssumption
  <2> QED  BY <2>1, FS_Interval
<1>2. IsFiniteSet(SUBSET (I \X V))
  <2> HIDE DEF I, V
  <2>1. IsFiniteSet(I \X V)
    BY <1>1, FS_Product
  <2> QED  BY <2>1, FS_SUBSET
<1>3. \A p \in Points(n) : p \in Seq(V) /\ Len(p) = n + 1 /\ \A i \in I : p[i] \in V
  <2> TAKE p \in Points(n)
  <2>1. p \in Seq(V) /\ Len(p) = n + 1
    BY PointsFacts DEF IsPoints
  <2> HIDE DEF V
  <2> QED  BY <2>1, Elements
<1>4. \A p \in Points(n) : graph(p) \in SUBSET (I \X V)
  <2> HIDE DEF I, V
  <2> QED  BY <1>3
<1>5. f \in [Points(n) -> SUBSET (I \X V)]
  <2> HIDE DEF graph
  <2> QED  BY <1>4
<1>6. \A p, q \in Points(n) : f[p] = f[q] => p = q
  <2> TAKE p, q \in Points(n)
  <2> HAVE f[p] = f[q]
  <2>1. graph(p) = graph(q)
    OBVIOUS
  <2>2. \A i \in I : p[i] = q[i]
    <3> TAKE i \in I
    <3>1. << i, p[i] >> \in graph(q)
      BY <2>1
    <3> QED  BY <3>1
  <2>3. p \in Seq(V) /\ q \in Seq(V) /\ Len(p) = n + 1 /\ Len(q) = n + 1
    BY <1>3
  <2> HIDE DEF V, graph, f
  <2> QED  BY <2>2, <2>3, SameSeq
<1>7. f \in Injection(Points(n), SUBSET (I \X V))
  <2> HIDE DEF f
  <2> QED  BY <1>5, <1>6 DEF Injection, IsInjective
<1> HIDE DEF f, I, V
<1> QED
  BY <1>2, <1>7, FS_Injection

(* The points that leave two colours to each guest, and the shares between *)
(* them.                                                                   *)
Wide(n) == {p \in Points(n) : \A i \in 1..n : p[i + 1] - p[i] >= 2}
SharesOf(p, n) == [i \in 1..n |-> Between(p[i], p[i + 1])]

LEMMA PointAt ==
  ASSUME NEW n \in Nat, n > 0, NEW p \in Points(n)
  PROVE  /\ DOMAIN p = 1..(n + 1)
         /\ p[1] = 0 /\ p[n + 1] = NumColours
         /\ \A i \in 1..(n + 1) : p[i] \in 0..NumColours
         /\ \A i, j \in 1..(n + 1) : i < j => p[i] < p[j]
<1>1. IsPoints(p, n)
  BY PointsFacts
<1>2. p \in Seq(0..NumColours) /\ Len(p) = n + 1
  BY <1>1 DEF IsPoints
<1>3. \A i \in 1..(n + 1) : p[i] \in 0..NumColours
  BY <1>2, Elements
<1>4. DOMAIN p = 1..(n + 1)
  BY <1>2
<1> QED
  BY <1>1, <1>3, <1>4 DEF IsPoints

LEMMA SamePoints ==
  ASSUME NEW n \in Nat, n > 0, NEW p \in Points(n), NEW q \in Points(n),
         \A i \in 1..(n + 1) : p[i] = q[i]
  PROVE  p = q
<1>1. /\ p \in Seq(0..NumColours) /\ Len(p) = n + 1
      /\ q \in Seq(0..NumColours) /\ Len(q) = n + 1
  BY PointsFacts DEF IsPoints
<1> QED
  BY <1>1, SameSeq

(* The order in which the shares are generated is strict and total.        *)
LEMMA PrecedesOrders ==
  ASSUME NEW n \in Nat, n > 0
  PROVE  TotalOrder(Wide(n), {r \in Wide(n) \X Wide(n) : Precedes(r[1], r[2])})
<1> DEFINE W == Wide(n)
           I == 1..(n + 1)
           R == {r \in W \X W : Precedes(r[1], r[2])}
<1>1. \A p, q \in W : << p, q >> \in R <=> Precedes(p, q)
  OBVIOUS
<1>2. \A p \in W : p \in Points(n)
  BY DEF Wide
<1> HIDE DEF R
<1>3. \A p \in W : DOMAIN p = I /\ \A i \in I : p[i] \in Int
  <2> TAKE p \in W
  <2>1. DOMAIN p = 1..(n + 1) /\ \A i \in 1..(n + 1) : p[i] \in 0..NumColours
    BY <1>2, PointAt
  <2>2. NumColours \in Nat
    BY ConstantsAssumption
  <2> QED  BY <2>1, <2>2
<1> HIDE DEF W
<1>4. \A p, q \in W : Precedes(p, q) <=>
        \E i \in I : p[i] < q[i] /\ \A j \in 1..(i - 1) : p[j] = q[j]
  BY <1>3 DEF Precedes
<1>5. \A p \in W : ~ Precedes(p, p)
  <2> TAKE p \in W
  <2>1. \A i \in I : ~ (p[i] < p[i])
    BY <1>3
  <2> QED  BY <1>4, <2>1
<1>6. ASSUME NEW p \in W, NEW q \in W, NEW r \in W, Precedes(p, q), Precedes(q, r)
      PROVE  Precedes(p, r)
  <2>1. PICK i \in I : p[i] < q[i] /\ \A k \in 1..(i - 1) : p[k] = q[k]
    BY <1>4, <1>6
  <2>2. PICK j \in I : q[j] < r[j] /\ \A k \in 1..(j - 1) : q[k] = r[k]
    BY <1>4, <1>6
  <2>3. i \in Int /\ j \in Int
    OBVIOUS
  <2>4. CASE i < j
    <3>1. i \in 1..(j - 1) /\ \A k \in 1..(i - 1) : k \in 1..(j - 1)
      BY <2>3, <2>4
    <3>2. p[i] < r[i] /\ \A k \in 1..(i - 1) : p[k] = r[k]
      BY <2>1, <2>2, <3>1
    <3> QED  BY <1>4, <3>2
  <2>5. CASE i = j
    <3>1. p[i] \in Int /\ q[i] \in Int /\ r[i] \in Int
      BY <1>3
    <3>2. p[i] < r[i] /\ \A k \in 1..(i - 1) : p[k] = r[k]
      BY <2>1, <2>2, <2>5, <3>1
    <3> QED  BY <1>4, <3>2
  <2>6. CASE j < i
    <3>1. j \in 1..(i - 1) /\ \A k \in 1..(j - 1) : k \in 1..(i - 1)
      BY <2>3, <2>6
    <3>2. p[j] < r[j] /\ \A k \in 1..(j - 1) : p[k] = r[k]
      BY <2>1, <2>2, <3>1
    <3> QED  BY <1>4, <3>2
  <2> QED  BY <2>3, <2>4, <2>5, <2>6
<1>7. ASSUME NEW p \in W, NEW q \in W, p # q
      PROVE  Precedes(p, q) \/ Precedes(q, p)
  <2> DEFINE D == {i \in I : p[i] # q[i]}
  <2>1. D # {}
    BY <1>2, <1>7, SamePoints
  <2>2. PICK i \in D : \A j \in D : i <= j
    <3>1. D \in SUBSET Nat
      OBVIOUS
    <3> HIDE DEF D
    <3> QED  BY <2>1, <3>1, Least
  <2>3. \A j \in 1..(i - 1) : p[j] = q[j]
    <3> SUFFICES ASSUME NEW j \in 1..(i - 1), p[j] # q[j] PROVE FALSE
      OBVIOUS
    <3>1. i \in I /\ j \in I /\ ~ (i <= j)
      BY <2>2
    <3> QED  BY <2>2, <3>1
  <2>4. p[i] \in Int /\ q[i] \in Int /\ p[i] # q[i] /\ i \in I
    BY <1>3, <2>2
  <2>5. p[i] < q[i] \/ q[i] < p[i]
    BY <2>4
  <2> QED  BY <1>4, <2>3, <2>4, <2>5
<1> QED
  BY <1>1, <1>5, <1>6, <1>7 DEF TotalOrder, R, W

LEMMA BetweenFacts ==
  ASSUME NEW a \in Int, NEW b \in Int, a <= b
  PROVE  IsFiniteSet(Between(a, b)) /\ Cardinality(Between(a, b)) = b - a
<1>1. b - 1 \in Int
  OBVIOUS
<1>2. IsFiniteSet(a..(b - 1))
      /\ Cardinality(a..(b - 1)) = IF a > b - 1 THEN 0 ELSE (b - 1) - a + 1
  BY <1>1, FS_Interval
<1>3. Cardinality(a..(b - 1)) = b - a
  BY <1>2
<1> QED
  BY <1>2, <1>3 DEF Between

(* The shares are of colours, two at least to each, and none is in two.    *)
LEMMA SharesFacts ==
  ASSUME NEW n \in Nat, n > 0, NEW p \in Wide(n)
  PROVE  /\ SharesOf(p, n) \in Seq(SUBSET Colours)
         /\ Len(SharesOf(p, n)) = n
         /\ DOMAIN SharesOf(p, n) = 1..n
         /\ \A i \in 1..n : /\ SharesOf(p, n)[i] = Between(p[i], p[i + 1])
                            /\ Cardinality(SharesOf(p, n)[i]) = p[i + 1] - p[i]
                            /\ Cardinality(SharesOf(p, n)[i]) >= 2
         /\ \A i, j \in 1..n :
              i # j => SharesOf(p, n)[i] \cap SharesOf(p, n)[j] = {}
<1> DEFINE A == SharesOf(p, n)
<1>1. NumColours \in Nat
  BY ConstantsAssumption
<1>2. p \in Points(n) /\ \A i \in 1..n : p[i + 1] - p[i] >= 2
  BY DEF Wide
<1>3. /\ \A i \in 1..(n + 1) : p[i] \in 0..NumColours
      /\ \A i, j \in 1..(n + 1) : i < j => p[i] < p[j]
  BY <1>2, PointAt
<1>4. \A i \in 1..n : /\ i \in 1..(n + 1) /\ i + 1 \in 1..(n + 1)
                     /\ p[i] \in 0..NumColours /\ p[i + 1] \in 0..NumColours
                     /\ p[i + 1] - p[i] >= 2
  <2> TAKE i \in 1..n
  <2>1. i \in 1..(n + 1) /\ i + 1 \in 1..(n + 1)
    OBVIOUS
  <2> QED  BY <1>2, <1>3, <2>1
<1>5. \A i \in 1..n : A[i] = Between(p[i], p[i + 1])
  BY DEF SharesOf
<1>6. \A i \in 1..n : Between(p[i], p[i + 1]) \in SUBSET Colours
  BY <1>1, <1>4 DEF Between, Colours
<1>7. A \in [1..n -> SUBSET Colours]
  BY <1>6 DEF SharesOf
<1> HIDE DEF A
<1>8. A \in Seq(SUBSET Colours) /\ Len(A) = n /\ DOMAIN A = 1..n
  BY <1>7, MapIsSeq
<1>9. \A i \in 1..n : Cardinality(A[i]) = p[i + 1] - p[i] /\ Cardinality(A[i]) >= 2
  <2> TAKE i \in 1..n
  <2> DEFINE a == p[i]
             b == p[i + 1]
  <2>1. a \in 0..NumColours /\ b \in 0..NumColours /\ b - a >= 2 /\ A[i] = Between(a, b)
    BY <1>4, <1>5
  <2> HIDE DEF a, b
  <2>2. a \in Int /\ b \in Int /\ a <= b
    BY <1>1, <2>1
  <2>3. Cardinality(A[i]) = b - a
    BY <2>1, <2>2, BetweenFacts
  <2>4. Cardinality(A[i]) >= 2
    BY <2>1, <2>3
  <2> QED  BY <2>3, <2>4 DEF a, b
<1>10. ASSUME NEW i \in 1..n, NEW j \in 1..n, i < j
       PROVE  A[i] \cap A[j] = {}
  <2> DEFINE a == p[i + 1]
             b == p[j]
  <2>1. a <= b
    <3>1. i + 1 = j \/ i + 1 < j
      BY <1>10
    <3>2. i + 1 \in 1..(n + 1) /\ j \in 1..(n + 1)
      BY <1>4
    <3>3. a \in 0..NumColours /\ b \in 0..NumColours
      BY <1>3, <3>2
    <3>4. a = b \/ a < b
      BY <1>3, <3>1, <3>2
    <3> HIDE DEF a, b
    <3> QED  BY <1>1, <3>3, <3>4
  <2>2. a \in Int /\ b \in Int /\ p[i] \in Int /\ p[j + 1] \in Int
    BY <1>1, <1>4
  <2>3. A[i] = p[i]..(a - 1) /\ A[j] = b..(p[j + 1] - 1)
    BY <1>5 DEF Between
  <2> HIDE DEF a, b
  <2>4. \A c \in A[i] : c \in Int /\ c <= a - 1
    BY <2>2, <2>3
  <2>5. \A c \in A[j] : c \in Int /\ b <= c
    BY <2>2, <2>3
  <2>6. \A c \in Int : ~ (c <= a - 1 /\ b <= c)
    BY <2>1, <2>2
  <2> QED  BY <2>4, <2>5, <2>6
<1>11. \A i, j \in 1..n : i # j => A[i] \cap A[j] = {}
  <2> TAKE i, j \in 1..n
  <2> HAVE i # j
  <2>1. i < j \/ j < i
    OBVIOUS
  <2> QED  BY <1>10, <2>1
<1> QED
  BY <1>5, <1>8, <1>9, <1>11 DEF A

(* The shares have different counts.                                       *)
LEMMA CountsTell ==
  ASSUME NEW n \in Nat, n > 0, NEW p \in Wide(n), NEW q \in Wide(n),
         \A i \in 1..n : Cardinality(SharesOf(p, n)[i]) = Cardinality(SharesOf(q, n)[i])
  PROVE  p = q
<1> DEFINE D == {i \in 1..(n + 1) : p[i] # q[i]}
<1>1. p \in Points(n) /\ q \in Points(n)
  BY DEF Wide
<1>2. NumColours \in Nat
  BY ConstantsAssumption
<1>3. /\ p[1] = q[1]
      /\ \A i \in 1..(n + 1) : p[i] \in 0..NumColours /\ q[i] \in 0..NumColours
  BY <1>1, PointAt
<1>4. \A i \in 1..n : p[i + 1] - p[i] = q[i + 1] - q[i]
  BY SharesFacts
<1> SUFFICES ASSUME D # {} PROVE FALSE
  BY <1>1, SamePoints
<1>5. PICK i \in D : \A j \in D : i <= j
  <2>1. D \in SUBSET Nat
    OBVIOUS
  <2> HIDE DEF D
  <2> QED  BY <2>1, Least
<1>6. i \in 1..(n + 1) /\ i # 1 /\ p[i] # q[i]
  BY <1>3, <1>5
<1>7. i - 1 \in 1..n /\ i - 1 \in 1..(n + 1) /\ (i - 1) + 1 = i /\ ~ (i <= i - 1)
  BY <1>6
<1>8. p[i - 1] = q[i - 1]
  BY <1>5, <1>7
<1>9. p[i] - p[i - 1] = q[i] - q[i - 1]
  BY <1>4, <1>7
<1>10. p[i] \in Int /\ q[i] \in Int /\ p[i - 1] \in Int
  BY <1>2, <1>3, <1>6, <1>7
<1>11. p[i] = q[i]
  BY <1>8, <1>9, <1>10
<1> QED
  BY <1>6, <1>11

(* Every choice of points has its place among the assignments.             *)
LEMMA AssignmentsFacts ==
  ASSUME NEW n \in Nat, n > 0
  PROVE  /\ DOMAIN Assignments(n) = 1..Cardinality(Wide(n))
         /\ Cardinality(Wide(n)) \in Nat
         /\ \A k \in 1..Cardinality(Wide(n)) : \E p \in Wide(n) :
              Assignments(n)[k] = SharesOf(p, n)
         /\ \A p \in Wide(n) : \E k \in 1..Cardinality(Wide(n)) :
              Assignments(n)[k] = SharesOf(p, n)
         /\ \A j, k \in 1..Cardinality(Wide(n)) :
              Assignments(n)[j] = Assignments(n)[k] => j = k
<1> DEFINE W == Wide(n)
           C == Cardinality(W)
           R == {r \in W \X W : Precedes(r[1], r[2])}
           below(p) == Cardinality({q \in W : Precedes(q, p)})
           Nth(k) == CHOOSE p \in W : below(p) = k - 1
           A == Assignments(n)
<1>1. IsFiniteSet(W) /\ C \in Nat
  <2>1. W \in SUBSET Points(n)
    BY DEF Wide
  <2> HIDE DEF W
  <2>2. IsFiniteSet(W)
    BY <2>1, PointsFinite, FS_Subset
  <2> QED  BY <2>2, FS_CardinalityType
<1>2. A = [k \in 1..C |-> [i \in 1..n |-> Between(Nth(k)[i], Nth(k)[i + 1])]]
  BY DEF Assignments, Wide
<1>3. TotalOrder(W, R)
  BY PrecedesOrders
<1>4. \A p \in W : Before(W, R, p) = {q \in W : Precedes(q, p)}
  BY DEF Before
<1> HIDE DEF W, R
<1>5. /\ \A p \in W : Cardinality(Before(W, R, p)) + 1 \in 1..C
      /\ \A k \in 1..C : \E p \in W : Cardinality(Before(W, R, p)) = k - 1
  BY <1>1, <1>3, Ranking
<1>6. \A p \in W : below(p) = Cardinality(Before(W, R, p))
  BY <1>4
<1>7. \A p, q \in W : p # q => below(p) # below(q)
  <2> TAKE p, q \in W
  <2> HAVE p # q
  <2> DEFINE a == Cardinality(Before(W, R, p))
             b == Cardinality(Before(W, R, q))
  <2>1. a < b \/ b < a
    <3>1. << p, q >> \in R \/ << q, p >> \in R
      BY <1>3 DEF TotalOrder
    <3> QED  BY <1>1, <1>3, <3>1, BeforeGrows
  <2>2. a \in Int /\ b \in Int
    <3>1. a + 1 \in 1..C /\ b + 1 \in 1..C
      BY <1>5
    <3>2. IsFiniteSet(Before(W, R, p)) /\ IsFiniteSet(Before(W, R, q))
      <4>1. Before(W, R, p) \in SUBSET W /\ Before(W, R, q) \in SUBSET W
        BY DEF Before
      <4> QED  BY <1>1, <4>1, FS_Subset
    <3> QED  BY <3>2, FS_CardinalityType
  <2>3. a # b
    <3> HIDE DEF a, b
    <3> QED  BY <2>1, <2>2
  <2> QED  BY <1>6, <2>3
<1>8. \A k \in 1..C : Nth(k) \in W /\ below(Nth(k)) = k - 1
  <2> TAKE k \in 1..C
  <2>1. \E p \in W : below(p) = k - 1
    BY <1>5, <1>6
  <2> QED  BY <2>1
<1>9. \A p \in W : \E k \in 1..C : Nth(k) = p
  <2> TAKE p \in W
  <2> DEFINE m == below(p)
             k == m + 1
  <2>1. k \in 1..C
    BY <1>5, <1>6
  <2>2. m \in Int
    <3>1. {q \in W : Precedes(q, p)} \in SUBSET W
      OBVIOUS
    <3>2. IsFiniteSet({q \in W : Precedes(q, p)})
      BY <1>1, <3>1, FS_Subset
    <3> QED  BY <3>2, FS_CardinalityType
  <2> DEFINE q == Nth(k)
  <2>3. q \in W /\ below(q) = k - 1
    BY <1>8, <2>1
  <2>4. k - 1 = m
    <3> HIDE DEF m
    <3> QED  BY <2>2
  <2>5. below(q) = below(p)
    BY <2>3, <2>4
  <2> HIDE DEF q
  <2>6. q = p
    BY <1>7, <2>3, <2>5
  <2> QED  BY <2>1, <2>6 DEF q
<1>10. \A j, k \in 1..C : Nth(j) = Nth(k) => j = k
  <2> TAKE j, k \in 1..C
  <2> HAVE Nth(j) = Nth(k)
  <2>1. j - 1 = k - 1
    BY <1>8
  <2> QED  BY <1>1, <2>1
<1> HIDE DEF Nth, A, below
<1>11. \A k \in 1..C : A[k] = SharesOf(Nth(k), n)
  BY <1>2 DEF SharesOf
<1>12. DOMAIN A = 1..C
  BY <1>2
<1>13. \A k \in 1..C : \E p \in W : A[k] = SharesOf(p, n)
  BY <1>8, <1>11
<1>14. \A p \in W : \E k \in 1..C : A[k] = SharesOf(p, n)
  BY <1>9, <1>11
<1>15. ASSUME NEW j \in 1..C, NEW k \in 1..C, A[j] = A[k]
       PROVE  j = k
  <2> DEFINE p == Nth(j)
             q == Nth(k)
  <2>1. p \in W /\ q \in W /\ SharesOf(p, n) = SharesOf(q, n)
    BY <1>8, <1>11, <1>15
  <2> HIDE DEF p, q
  <2>2. p = q
    BY <2>1, CountsTell DEF W
  <2> QED  BY <1>10, <2>2 DEF p, q
<1> QED
  BY <1>1, <1>12, <1>13, <1>14, <1>15 DEF W, A

(* Enough colours can be split.                                            *)
LEMMA WideNotEmpty ==
  ASSUME NEW n \in Nat, n > 0, 2 * n <= NumColours
  PROVE  Wide(n) # {}
<1> DEFINE N == NumColours
           p == [i \in 1..(n + 1) |-> IF i = n + 1 THEN N ELSE 2 * (i - 1)]
<1>1. N \in Nat /\ 2 * n <= N
  BY ConstantsAssumption
<1> HIDE DEF N
<1>2. p[n + 1] = N /\ \A i \in 1..n : p[i] = 2 * (i - 1)
  OBVIOUS
<1>3. \A i \in 1..(n + 1) : p[i] \in 0..N
  BY <1>1
<1>4. p \in [1..(n + 1) -> 0..N]
  BY <1>3
<1> HIDE DEF p
<1>5. p \in Seq(0..N) /\ Len(p) = n + 1
  <2> DEFINE m == n + 1
             V == 0..N
  <2>1. m \in Nat /\ p \in [1..m -> V]
    BY <1>4
  <2> HIDE DEF m, V
  <2>2. p \in Seq(V) /\ Len(p) = m
    BY <2>1, MapIsSeq
  <2> QED  BY <2>2 DEF m, V
<1>6. p[1] = 0
  BY <1>2
<1>7. \A i, j \in 1..(n + 1) : i < j => p[i] < p[j]
  <2> TAKE i, j \in 1..(n + 1)
  <2> HAVE i < j
  <2>1. i \in 1..n /\ p[i] = 2 * (i - 1)
    BY <1>2
  <2>2. CASE j = n + 1
    BY <1>1, <1>2, <2>1, <2>2
  <2>3. CASE j \in 1..n
    BY <1>2, <2>1, <2>3
  <2> QED  BY <2>2, <2>3
<1>8. p \in Points(n)
  <2>1. IsPoints(p, n)
    BY <1>2, <1>5, <1>6, <1>7 DEF IsPoints, N
  <2> QED  BY <2>1, PointsFacts
<1>9. \A i \in 1..n : p[i + 1] - p[i] >= 2
  <2> TAKE i \in 1..n
  <2>1. CASE i = n
    BY <1>1, <1>2, <2>1
  <2>2. CASE i # n
    <3>1. i + 1 \in 1..n
      BY <2>2
    <3> QED  BY <1>2, <3>1
  <2> QED  BY <2>1, <2>2
<1> QED
  BY <1>8, <1>9 DEF Wide

LEMMA NumVmsFacts ==
  ASSUME NEW s \in Setups
  PROVE  /\ NumVms(s) \in Nat /\ NumVms(s) > 0
         /\ Cardinality(s.guests) \in Nat /\ Cardinality(s.guests) > 0
         /\ IsFiniteSet(s.guests)
<1> DEFINE n == Cardinality(s.guests)
<1>1. IsFiniteSet(Groups)
  <2>1. IsFiniteSet({"linux"} \cup {"cache"} \cup {"embench"} \cup {"cci"} \cup {"profiler"})
    BY FS_Singleton, FS_Union
  <2>2. Groups = {"linux"} \cup {"cache"} \cup {"embench"} \cup {"cci"} \cup {"profiler"}
    BY GroupOrderFacts
  <2> QED  BY <2>1, <2>2
<1>2. s.guests \in SUBSET Groups /\ s.guests # {}
  BY SetupParts
<1>3. IsFiniteSet(s.guests)
  BY <1>1, <1>2, FS_Subset
<1>4. n \in Nat /\ n # 0
  BY <1>2, <1>3, FS_CardinalityType, FS_EmptySet
<1> HIDE DEF n
<1>5. (IF n = 1 THEN 2 ELSE n) - (IF HasProfiler THEN 1 ELSE 0) \in Nat \ {0}
  <2>1. CASE HasProfiler
    BY <1>4, <2>1
  <2>2. CASE ~ HasProfiler
    BY <1>4, <2>2
  <2> QED  BY <2>1, <2>2
<1> QED
  BY <1>3, <1>4, <1>5 DEF NumVms, n

LEMMA AssignmentsType ==
  ASSUME NEW n \in Nat, n > 0
  PROVE  Assignments(n) \in Seq(Seq(SUBSET Colours))
<1> DEFINE C == Cardinality(Wide(n))
           A == Assignments(n)
<1>1. C \in Nat /\ \A k \in 1..C : \E p \in Wide(n) : A[k] = SharesOf(p, n)
  BY AssignmentsFacts
<1>2. \A k \in 1..C : A[k] \in Seq(SUBSET Colours)
  <2> HIDE DEF A, C
  <2> QED  BY <1>1, SharesFacts
<1>3. A = [k \in 1..C |-> A[k]]
  BY DEF Assignments, Wide
<1> HIDE DEF A, C
<1>4. A \in [1..C -> Seq(SUBSET Colours)]
  BY <1>2, <1>3
<1> QED
  BY <1>1, <1>4, MapIsSeq DEF A

LEMMA ColouringsType ==
  ASSUME NEW s \in Setups
  PROVE  Colourings(s) \in Seq(Seq(SUBSET Colours))
<1>1. CASE ~ s.colouring
  <2>1. << >> \in Seq(Seq(SUBSET Colours))
    OBVIOUS
  <2> QED  BY <1>1, <2>1 DEF Colourings
<1>2. CASE s.colouring /\ s.listed # << >>
  BY <1>2, SetupParts DEF Colourings
<1>3. CASE s.colouring /\ s.listed = << >>
  <2>1. Colourings(s) = Assignments(NumVms(s))
    BY <1>3 DEF Colourings
  <2>2. Assignments(NumVms(s)) \in Seq(Seq(SUBSET Colours))
    BY NumVmsFacts, AssignmentsType
  <2> QED  BY <2>1, <2>2
<1> QED
  BY <1>1, <1>2, <1>3

-----------------------------------------------------------------------------
CcTag(colours) ==
  [kind |-> "cc", guests |-> << >>,
   values |-> [k \in DOMAIN colours |-> Cardinality(colours[k])]]
MbrTag(choice) ==
  [kind |-> "mbr", guests |-> [k \in DOMAIN choice |-> choice[k].guest],
   values |-> [k \in DOMAIN choice |-> choice[k].budget]]

LEMMA ConfigParts ==
  ASSUME NEW c \in Configs
  PROVE  /\ c.name \in Names /\ c.vms \in Seq(VMs)
         /\ c.name.guests \in Seq(Guests) /\ c.name.tags \in Seq(Tags)
         /\ DOMAIN c.vms = 1..Len(c.vms) /\ Len(c.vms) \in Nat
         /\ \A k \in 1..Len(c.vms) : c.vms[k] \in VMs
<1>1. c.name \in Names /\ c.vms \in Seq(VMs)
  BY DEF Configs
<1>2. c.name.guests \in Seq(Guests) /\ c.name.tags \in Seq(Tags)
  BY <1>1 DEF Names
<1>3. DOMAIN c.vms = 1..Len(c.vms)
  BY <1>1
<1> QED
  BY <1>1, <1>2, <1>3, Elements

LEMMA VmParts ==
  ASSUME NEW vm \in VMs
  PROVE  /\ vm.guest \in Guests /\ vm.guest.group \in Groups
         /\ vm.guest.variant \in 1..Variants[vm.guest.group]
         /\ vm.colours \in SUBSET Colours /\ vm.open \in BOOLEAN /\ vm.budget \in Nat
BY DEF VMs, Guests

LEMMA ColoursFinite ==
  ASSUME NEW c \in SUBSET Colours
  PROVE  IsFiniteSet(c) /\ Cardinality(c) \in Nat
<1>1. NumColours \in Nat
  BY ConstantsAssumption
<1>2. IsFiniteSet(Colours)
  BY <1>1, FS_Interval DEF Colours
<1>3. IsFiniteSet(c)
  BY <1>2, FS_Subset
<1> QED
  BY <1>3, FS_CardinalityType

(* The tag of a colouring counts the colours of every guest.               *)
LEMMA CcTagFacts ==
  ASSUME NEW colours \in Seq(SUBSET Colours)
  PROVE  /\ CcTag(colours) \in Tags
         /\ CcTag(colours).kind = "cc"
         /\ CcTag(colours).guests = << >>
         /\ Len(CcTag(colours).values) = Len(colours)
         /\ \A k \in 1..Len(colours) :
              CcTag(colours).values[k] = Cardinality(colours[k])
<1> DEFINE v == [k \in DOMAIN colours |-> Cardinality(colours[k])]
<1>1. DOMAIN colours = 1..Len(colours)
  OBVIOUS
<1>2. Len(colours) \in Nat /\ \A k \in 1..Len(colours) : colours[k] \in SUBSET Colours
  BY Elements
<1>3. v \in [1..Len(colours) -> Nat]
  BY <1>1, <1>2, ColoursFinite
<1>4. \A k \in 1..Len(colours) : v[k] = Cardinality(colours[k])
  BY <1>1
<1>5. CcTag(colours) = [kind |-> "cc", guests |-> << >>, values |-> v]
  BY DEF CcTag
<1> HIDE DEF v
<1>6. v \in Seq(Nat) /\ Len(v) = Len(colours)
  BY <1>2, <1>3, MapIsSeq
<1>7. << >> \in Seq(Groups)
  OBVIOUS
<1>8. CcTag(colours) \in Tags
  BY <1>5, <1>6, <1>7 DEF Tags
<1>9. /\ CcTag(colours).kind = "cc" /\ CcTag(colours).guests = << >>
      /\ CcTag(colours).values = v
  BY <1>5
<1> QED
  BY <1>4, <1>6, <1>8, <1>9

(* The tag of a choice of budgets holds the guests and their budgets.      *)
LEMMA MbrTagFacts ==
  ASSUME NEW choice \in Seq(Budgets)
  PROVE  /\ MbrTag(choice) \in Tags
         /\ MbrTag(choice).kind = "mbr"
         /\ Len(MbrTag(choice).guests) = Len(choice)
         /\ Len(MbrTag(choice).values) = Len(choice)
         /\ \A k \in 1..Len(choice) : /\ MbrTag(choice).guests[k] = choice[k].guest
                                      /\ MbrTag(choice).values[k] = choice[k].budget
<1> DEFINE g == [k \in DOMAIN choice |-> choice[k].guest]
           v == [k \in DOMAIN choice |-> choice[k].budget]
           n == Len(choice)
<1>1. DOMAIN choice = 1..n
  OBVIOUS
<1>2. n \in Nat /\ \A k \in 1..n : choice[k] \in Budgets
  BY Elements
<1>3. \A k \in 1..n : choice[k].guest \in Groups /\ choice[k].budget \in Nat
  BY <1>2 DEF Budgets
<1>4. g \in [1..n -> Groups] /\ v \in [1..n -> Nat]
  BY <1>1, <1>3
<1>5. \A k \in 1..n : g[k] = choice[k].guest /\ v[k] = choice[k].budget
  BY <1>1
<1>6. MbrTag(choice) = [kind |-> "mbr", guests |-> g, values |-> v]
  BY DEF MbrTag
<1> HIDE DEF g, v, n
<1>7. g \in Seq(Groups) /\ Len(g) = n /\ v \in Seq(Nat) /\ Len(v) = n
  BY <1>2, <1>4, MapIsSeq
<1>8. MbrTag(choice) \in Tags
  BY <1>6, <1>7 DEF Tags
<1>9. MbrTag(choice).kind = "mbr" /\ MbrTag(choice).guests = g /\ MbrTag(choice).values = v
  BY <1>6
<1> QED
  BY <1>5, <1>7, <1>8, <1>9 DEF n

(* What colouring a configuration changes.                                 *)
LEMMA ColouredFacts ==
  ASSUME NEW c \in Configs, NEW colours \in Seq(SUBSET Colours)
  PROVE  /\ Coloured(c, colours) \in Configs
         /\ Coloured(c, colours).name.guests = c.name.guests
         /\ Coloured(c, colours).name.tags = Append(c.name.tags, CcTag(colours))
         /\ Len(Coloured(c, colours).vms) = Len(c.vms)
         /\ \A k \in 1..Len(c.vms) :
              /\ Coloured(c, colours).vms[k].guest = c.vms[k].guest
              /\ Coloured(c, colours).vms[k].budget = c.vms[k].budget
              /\ Coloured(c, colours).vms[k].colours =
                   IF HasPlace(c.vms[k]) /\ k <= Len(colours)
                   THEN colours[k] ELSE c.vms[k].colours
              /\ Coloured(c, colours).vms[k].open =
                   IF HasPlace(c.vms[k]) /\ k > Len(colours)
                   THEN TRUE ELSE c.vms[k].open
<1> DEFINE D == Coloured(c, colours)
           n == Len(c.vms)
           v(k) == IF ~ HasPlace(c.vms[k]) THEN c.vms[k]
                   ELSE IF k > Len(colours)
                        THEN [c.vms[k] EXCEPT !.open = TRUE]
                        ELSE [c.vms[k] EXCEPT !.colours = colours[k]]
           w == [k \in 1..n |-> v(k)]
           m == [c.name EXCEPT !.tags = Append(@, CcTag(colours))]
<1>1. /\ c.name \in Names /\ c.vms \in Seq(VMs)
      /\ c.name.guests \in Seq(Guests) /\ c.name.tags \in Seq(Tags)
      /\ DOMAIN c.vms = 1..n /\ n \in Nat
      /\ \A k \in 1..n : c.vms[k] \in VMs
  BY ConfigParts
<1>2. Len(colours) \in Nat /\ \A k \in 1..Len(colours) : colours[k] \in SUBSET Colours
  BY Elements
<1>3. D = [name |-> m, vms |-> w]
  BY <1>1 DEF Coloured, CcTag
<1>4. m \in Names /\ m.guests = c.name.guests /\ m.tags = Append(c.name.tags, CcTag(colours))
  <2> DEFINE t == Append(c.name.tags, CcTag(colours))
  <2>1. t \in Seq(Tags)
    BY <1>1, CcTagFacts, AppendFacts
  <2> HIDE DEF t
  <2>2. [c.name EXCEPT !.tags = t] \in Names
        /\ [c.name EXCEPT !.tags = t].guests = c.name.guests
        /\ [c.name EXCEPT !.tags = t].tags = t
    BY <1>1, <2>1 DEF Names
  <2> QED  BY <2>2 DEF t
<1>5. ASSUME NEW k \in 1..n
      PROVE  /\ v(k) \in VMs
             /\ v(k).guest = c.vms[k].guest
             /\ v(k).budget = c.vms[k].budget
             /\ v(k).colours = IF HasPlace(c.vms[k]) /\ k <= Len(colours)
                               THEN colours[k] ELSE c.vms[k].colours
             /\ v(k).open = IF HasPlace(c.vms[k]) /\ k > Len(colours)
                            THEN TRUE ELSE c.vms[k].open
  <2> DEFINE vm == c.vms[k]
  <2>1. vm \in VMs
    BY <1>1
  <2> HIDE DEF vm
  <2>2. CASE ~ HasPlace(vm)
    <3>1. v(k) = vm
      BY <2>2 DEF vm
    <3> QED  BY <2>1, <2>2, <3>1 DEF vm
  <2>3. CASE HasPlace(vm) /\ k > Len(colours)
    <3> DEFINE x == [vm EXCEPT !.open = TRUE]
    <3>1. v(k) = x
      BY <2>3 DEF vm
    <3>2. /\ x \in VMs /\ x.guest = vm.guest /\ x.budget = vm.budget
          /\ x.colours = vm.colours /\ x.open = TRUE
      BY <2>1 DEF VMs
    <3>3. ~ (k <= Len(colours))
      BY <1>2, <2>3
    <3> HIDE DEF x, v
    <3> QED  BY <2>3, <3>1, <3>2, <3>3 DEF vm
  <2>4. CASE HasPlace(vm) /\ k <= Len(colours)
    <3> DEFINE y == colours[k]
               x == [vm EXCEPT !.colours = y]
    <3>1. ~ (k > Len(colours)) /\ y \in SUBSET Colours
      BY <1>2, <2>4
    <3>2. v(k) = x
      BY <2>4, <3>1 DEF vm
    <3> HIDE DEF y
    <3>3. /\ x \in VMs /\ x.guest = vm.guest /\ x.budget = vm.budget
          /\ x.colours = y /\ x.open = vm.open
      BY <2>1, <3>1 DEF VMs
    <3> HIDE DEF x, v
    <3> QED  BY <2>4, <3>1, <3>2, <3>3 DEF vm, y
  <2>5. k > Len(colours) \/ k <= Len(colours)
    BY <1>1, <1>2
  <2> QED  BY <2>2, <2>3, <2>4, <2>5
<1> HIDE DEF v, n, m, D
<1>6. w \in [1..n -> VMs] /\ \A k \in 1..n : w[k] = v(k)
  BY <1>5
<1> HIDE DEF w
<1>7. w \in Seq(VMs) /\ Len(w) = n
  BY <1>1, <1>6, MapIsSeq
<1>8. D \in Configs /\ D.name = m /\ D.vms = w
  BY <1>3, <1>4, <1>7 DEF Configs
<1>9. \A k \in 1..n :
        /\ D.vms[k].guest = c.vms[k].guest
        /\ D.vms[k].budget = c.vms[k].budget
        /\ D.vms[k].colours = IF HasPlace(c.vms[k]) /\ k <= Len(colours)
                              THEN colours[k] ELSE c.vms[k].colours
        /\ D.vms[k].open = IF HasPlace(c.vms[k]) /\ k > Len(colours)
                           THEN TRUE ELSE c.vms[k].open
  BY <1>5, <1>6, <1>8
<1> QED
  BY <1>4, <1>7, <1>8, <1>9 DEF D, n

-----------------------------------------------------------------------------
(* The budgets there are for guests of a kind.                             *)
OfKind(choice, kind) == {b \in DOMAIN choice : Kind(choice[b].guest) = kind}
Fitting(choice, kind) == Picked(choice, OfKind(choice, kind))
Ahead(vms, k, kind) == {j \in 1..k : Kind(vms[j].guest.group) = kind}

LEMMA FittingFacts ==
  ASSUME NEW choice \in Seq(Budgets), NEW kind
  PROVE  /\ Fitting(choice, kind) \in Seq(Budgets)
         /\ Len(Fitting(choice, kind)) = Cardinality(OfKind(choice, kind))
         /\ \A n \in 1..Cardinality(OfKind(choice, kind)) :
              /\ Place(OfKind(choice, kind), n) \in OfKind(choice, kind)
              /\ Fitting(choice, kind)[n] = choice[Place(OfKind(choice, kind), n)]
<1>1. OfKind(choice, kind) \in SUBSET DOMAIN choice
  BY DEF OfKind
<1> QED
  BY <1>1, PickedFacts DEF Fitting

LEMMA BudgetAtFacts ==
  ASSUME NEW choice \in Seq(Budgets), NEW vms \in Seq(VMs), NEW k \in 1..Len(vms)
  PROVE  BudgetAt(vms, k, choice) \in Nat
<1> DEFINE kind == Kind(vms[k].guest.group)
           f == Fitting(choice, kind)
           a == Ahead(vms, k, kind)
           place == Cardinality(a)
<1>1. BudgetAt(vms, k, choice) =
        IF f = << >> \/ kind = "profiler" THEN 0
        ELSE IF place > Len(f) THEN f[Len(f)].budget
        ELSE f[place].budget
  BY DEF BudgetAt, Fitting, OfKind, Ahead, Last
<1>2. k \in 1..k /\ k \in Nat
  OBVIOUS
<1>3. k \in a /\ a \in SUBSET (1..k)
  BY <1>2 DEF Ahead
<1> HIDE DEF kind
<1>4. f \in Seq(Budgets)
  BY FittingFacts
<1>5. Len(f) \in Nat /\ \A i \in 1..Len(f) : f[i].budget \in Nat
  <2> HIDE DEF f
  <2>1. Len(f) \in Nat /\ \A i \in 1..Len(f) : f[i] \in Budgets
    BY <1>4, Elements
  <2> QED  BY <2>1 DEF Budgets
<1> HIDE DEF f, a
<1>6. place \in Nat /\ place # 0
  <2>1. IsFiniteSet(1..k)
    BY <1>2, UpToFinite
  <2>2. IsFiniteSet(a) /\ a # {}
    BY <1>3, <2>1, FS_Subset
  <2> QED  BY <2>2, FS_CardinalityType, FS_EmptySet
<1>7. f # << >> => Len(f) # 0
  BY <1>4
<1> HIDE DEF place
<1>8. CASE f = << >> \/ kind = "profiler"
  BY <1>1, <1>8
<1>9. CASE ~ (f = << >> \/ kind = "profiler") /\ place > Len(f)
  <2>1. Len(f) \in 1..Len(f)
    BY <1>5, <1>7, <1>9
  <2> QED  BY <1>1, <1>5, <1>9, <2>1
<1>10. CASE ~ (f = << >> \/ kind = "profiler") /\ ~ (place > Len(f))
  <2>1. place \in 1..Len(f)
    BY <1>5, <1>6, <1>10
  <2> QED  BY <1>1, <1>5, <1>10, <2>1
<1> QED
  BY <1>8, <1>9, <1>10

(* What limiting a configuration changes.                                  *)
LEMMA LimitedFacts ==
  ASSUME NEW c \in Configs, NEW choice \in Seq(Budgets)
  PROVE  /\ Limited(c, choice) \in Configs
         /\ Limited(c, choice).name.guests = c.name.guests
         /\ Limited(c, choice).name.tags = Append(c.name.tags, MbrTag(choice))
         /\ Len(Limited(c, choice).vms) = Len(c.vms)
         /\ \A k \in 1..Len(c.vms) :
              /\ Limited(c, choice).vms[k].guest = c.vms[k].guest
              /\ Limited(c, choice).vms[k].colours = c.vms[k].colours
              /\ Limited(c, choice).vms[k].open = c.vms[k].open
              /\ Limited(c, choice).vms[k].budget = BudgetAt(c.vms, k, choice)
<1> DEFINE D == Limited(c, choice)
           n == Len(c.vms)
           v(k) == [c.vms[k] EXCEPT !.budget = BudgetAt(c.vms, k, choice)]
           w == [k \in 1..n |-> v(k)]
           m == [c.name EXCEPT !.tags = Append(@, MbrTag(choice))]
<1>1. /\ c.name \in Names /\ c.vms \in Seq(VMs)
      /\ c.name.guests \in Seq(Guests) /\ c.name.tags \in Seq(Tags)
      /\ DOMAIN c.vms = 1..n /\ n \in Nat
      /\ \A k \in 1..n : c.vms[k] \in VMs
  BY ConfigParts
<1>3. D = [name |-> m, vms |-> w]
  BY <1>1 DEF Limited, MbrTag
<1>4. m \in Names /\ m.guests = c.name.guests /\ m.tags = Append(c.name.tags, MbrTag(choice))
  <2> DEFINE t == Append(c.name.tags, MbrTag(choice))
  <2>1. t \in Seq(Tags)
    BY <1>1, MbrTagFacts, AppendFacts
  <2> HIDE DEF t
  <2>2. [c.name EXCEPT !.tags = t] \in Names
        /\ [c.name EXCEPT !.tags = t].guests = c.name.guests
        /\ [c.name EXCEPT !.tags = t].tags = t
    BY <1>1, <2>1 DEF Names
  <2> QED  BY <2>2 DEF t
<1>5. ASSUME NEW k \in 1..n
      PROVE  /\ v(k) \in VMs
             /\ v(k).guest = c.vms[k].guest
             /\ v(k).colours = c.vms[k].colours
             /\ v(k).open = c.vms[k].open
             /\ v(k).budget = BudgetAt(c.vms, k, choice)
  <2> DEFINE vm == c.vms[k]
             y == BudgetAt(c.vms, k, choice)
             x == [vm EXCEPT !.budget = y]
  <2>1. vm \in VMs /\ y \in Nat
    BY <1>1, BudgetAtFacts
  <2>2. v(k) = x
    OBVIOUS
  <2> HIDE DEF vm, y
  <2>3. /\ x \in VMs /\ x.guest = vm.guest /\ x.colours = vm.colours
        /\ x.open = vm.open /\ x.budget = y
    BY <2>1 DEF VMs
  <2> HIDE DEF x, v
  <2> QED  BY <2>2, <2>3 DEF vm, y
<1> HIDE DEF v, n, m, D
<1>6. w \in [1..n -> VMs] /\ \A k \in 1..n : w[k] = v(k)
  BY <1>5
<1> HIDE DEF w
<1>7. w \in Seq(VMs) /\ Len(w) = n
  BY <1>1, <1>6, MapIsSeq
<1>8. D \in Configs /\ D.name = m /\ D.vms = w
  BY <1>3, <1>4, <1>7 DEF Configs
<1>9. \A k \in 1..n :
        /\ D.vms[k].guest = c.vms[k].guest
        /\ D.vms[k].colours = c.vms[k].colours
        /\ D.vms[k].open = c.vms[k].open
        /\ D.vms[k].budget = BudgetAt(c.vms, k, choice)
  BY <1>5, <1>6, <1>8
<1> QED
  BY <1>4, <1>7, <1>8, <1>9 DEF D, n

-----------------------------------------------------------------------------
(* Budgets.                                                                *)

LEMMA NameParts ==
  ASSUME NEW a \in Names, NEW b \in Names, a.guests = b.guests, a.tags = b.tags
  PROVE  a = b
BY DEF Names

LEMMA AppendSame ==
  ASSUME NEW S, NEW s \in Seq(S), NEW t \in Seq(S), NEW x \in S, NEW y \in S,
         Append(s, x) = Append(t, y)
  PROVE  s = t /\ x = y
<1> DEFINE a == Append(s, x)
           b == Append(t, y)
<1>1. Len(s) \in Nat /\ Len(t) \in Nat
  OBVIOUS
<1>2. Len(a) = Len(s) + 1 /\ a[Len(s) + 1] = x /\ \A k \in 1..Len(s) : a[k] = s[k]
  BY AppendFacts
<1>3. Len(b) = Len(t) + 1 /\ b[Len(t) + 1] = y /\ \A k \in 1..Len(t) : b[k] = t[k]
  BY AppendFacts
<1>4. a = b
  OBVIOUS
<1> HIDE DEF a, b
<1>5. Len(s) = Len(t)
  BY <1>1, <1>2, <1>3, <1>4
<1>6. x = y /\ \A k \in 1..Len(s) : s[k] = t[k]
  BY <1>2, <1>3, <1>4, <1>5
<1> QED
  BY <1>5, <1>6, SameSeq

-----------------------------------------------------------------------------
(* The budgets of a choice are for different guests, each from the list of *)
(* its guest, in the order of the lists.                                   *)
Some(s) ==
  Picked(s.budgets, {i \in DOMAIN s.budgets : s.budgets[i].choices # << >>})
BudgetLists(s) ==
  [k \in DOMAIN Some(s) |->
     [c \in DOMAIN Some(s)[k].choices |->
        [guest |-> Some(s)[k].guest, budget |-> Some(s)[k].choices[c]]]]
BudgetRows == [guest : Groups, choices : Seq(Nat)]

(* The rows of a dictionary of budgets that have something to choose.      *)
LEMMA SomeFacts ==
  ASSUME NEW s \in Setups, Dictionaries(s.budgets)
  PROVE  /\ Some(s) \in Seq(BudgetRows)
         /\ \A k \in 1..Len(Some(s)) : IsInjective(Some(s)[k].choices)
         /\ \A k \in 1..Len(Some(s)) : Some(s)[k].choices # << >>
         /\ \A j, k \in 1..Len(Some(s)) : Some(s)[j].guest = Some(s)[k].guest => j = k
         /\ \A k \in 1..Len(Some(s)) : \E i \in DOMAIN s.budgets :
              s.budgets[i] = Some(s)[k]
         /\ \A i \in DOMAIN s.budgets : s.budgets[i].choices # << >> =>
              \E k \in 1..Len(Some(s)) : Some(s)[k] = s.budgets[i]
<1> DEFINE B == s.budgets
           P == {i \in DOMAIN B : B[i].choices # << >>}
           n == Cardinality(P)
           S == Some(s)
<1>1. B \in Seq(BudgetRows) /\ P \in SUBSET DOMAIN B
  BY SetupParts DEF BudgetRows
<1>2. S = Picked(B, P)
  BY DEF Some
<1>3. \A i \in P : i \in DOMAIN B /\ B[i].choices # << >>
  OBVIOUS
<1>4. P \in SUBSET Int
  BY <1>1
<1>5. \A i \in DOMAIN B : B[i].choices # << >> => i \in P
  OBVIOUS
<1> HIDE DEF P, B, S
<1>6. /\ S \in Seq(BudgetRows) /\ IsFiniteSet(P) /\ n \in Nat /\ Len(S) = n
      /\ \A k \in 1..n : Place(P, k) \in P /\ S[k] = B[Place(P, k)]
  BY <1>1, <1>2, PickedFacts
<1>7. \A j, k \in 1..n : j < k => Place(P, j) < Place(P, k)
  BY <1>4, <1>6, PlaceFacts
<1>8. /\ \A i, j \in DOMAIN B : B[i].guest = B[j].guest => i = j
      /\ \A i \in DOMAIN B : IsInjective(B[i].choices)
  BY DEF Dictionaries, B
<1>9. \A j, k \in 1..n : S[j].guest = S[k].guest => j = k
  <2> TAKE j, k \in 1..n
  <2> HAVE S[j].guest = S[k].guest
  <2> DEFINE p == Place(P, j)
             q == Place(P, k)
  <2>1. p = q
    BY <1>3, <1>6, <1>8
  <2>2. p \in Int /\ (j < k => p < q) /\ (k < j => q < p)
    BY <1>4, <1>6, <1>7
  <2> HIDE DEF p, q
  <2>3. ~ (j < k) /\ ~ (k < j)
    BY <2>1, <2>2
  <2> QED  BY <1>6, <2>3
<1>10. \A i \in P : \E k \in 1..n : S[k] = B[i]
  <2> TAKE i \in P
  <2> DEFINE k == Cardinality({j \in P : j < i}) + 1
  <2>1. k \in 1..n /\ Place(P, k) = i
    BY <1>4, <1>6, PlaceFacts
  <2> HIDE DEF k
  <2> QED  BY <1>6, <2>1
<1>11. \A k \in 1..n : IsInjective(S[k].choices) /\ S[k].choices # << >>
  BY <1>3, <1>6, <1>8
<1>12. \A k \in 1..n : \E i \in DOMAIN B : B[i] = S[k]
  BY <1>3, <1>6
<1>13. \A i \in DOMAIN B : B[i].choices # << >> => \E k \in 1..n : S[k] = B[i]
  BY <1>5, <1>10
<1> QED
  BY <1>6, <1>9, <1>11, <1>12, <1>13 DEF B, S

LEMMA BudgetListsFacts ==
  ASSUME NEW s \in Setups, Dictionaries(s.budgets)
  PROVE  /\ BudgetLists(s) \in Seq(Seq(Budgets))
         /\ Len(BudgetLists(s)) = Len(Some(s))
         /\ \A k \in 1..Len(Some(s)) :
              /\ IsInjective(BudgetLists(s)[k])
              /\ DOMAIN BudgetLists(s)[k] = DOMAIN Some(s)[k].choices
              /\ \A c \in DOMAIN Some(s)[k].choices :
                   BudgetLists(s)[k][c] = [guest |-> Some(s)[k].guest,
                                           budget |-> Some(s)[k].choices[c]]
<1> DEFINE p == Some(s)
           n == Len(p)
           G == BudgetLists(s)
<1>1. p \in Seq(BudgetRows)
  BY SomeFacts
<1>2. /\ n \in Nat /\ DOMAIN p = 1..n
      /\ \A k \in 1..n : p[k].guest \in Groups /\ p[k].choices \in Seq(Nat)
  <2>1. n \in Nat /\ DOMAIN p = 1..n /\ \A k \in 1..n : p[k] \in BudgetRows
    BY <1>1
  <2> HIDE DEF p
  <2> QED  BY <2>1 DEF BudgetRows
<1>3. \A k \in 1..n : IsInjective(p[k].choices)
  BY SomeFacts
<1>4. G = [k \in 1..n |-> [c \in DOMAIN p[k].choices |->
                             [guest |-> p[k].guest, budget |-> p[k].choices[c]]]]
  BY <1>2 DEF BudgetLists
<1> HIDE DEF p, n
<1>5. \A k \in 1..n : G[k] \in Seq(Budgets)
  <2> TAKE k \in 1..n
  <2> DEFINE q == p[k].choices
             m == Len(q)
             f == [c \in DOMAIN q |-> [guest |-> p[k].guest, budget |-> q[c]]]
  <2>1. q \in Seq(Nat) /\ p[k].guest \in Groups
    BY <1>2
  <2>2. G[k] = f
    BY <1>4
  <2> HIDE DEF q
  <2>3. m \in Nat /\ DOMAIN q = 1..m /\ \A c \in 1..m : q[c] \in Nat
    BY <2>1
  <2>4. f \in [1..m -> Budgets]
    BY <2>1, <2>3 DEF Budgets
  <2> HIDE DEF f, m
  <2> QED  BY <2>2, <2>3, <2>4, MapIsSeq
<1>6. G \in [1..n -> Seq(Budgets)]
  BY <1>4, <1>5
<1> HIDE DEF G
<1>7. G \in Seq(Seq(Budgets)) /\ Len(G) = n
  BY <1>2, <1>6, MapIsSeq
<1>8. \A k \in 1..n : /\ DOMAIN G[k] = DOMAIN p[k].choices
                      /\ \A c \in DOMAIN p[k].choices :
                           G[k][c] = [guest |-> p[k].guest, budget |-> p[k].choices[c]]
  BY <1>4
<1>9. \A k \in 1..n : IsInjective(G[k])
  <2> TAKE k \in 1..n
  <2>1. \A v, w \in DOMAIN p[k].choices : G[k][v] = G[k][w] => v = w
    <3> TAKE v, w \in DOMAIN p[k].choices
    <3> HAVE G[k][v] = G[k][w]
    <3> DEFINE x == p[k].choices[v]
               y == p[k].choices[w]
               g == p[k].guest
    <3>1. G[k][v] = [guest |-> g, budget |-> x] /\ G[k][w] = [guest |-> g, budget |-> y]
      BY <1>8
    <3> HIDE DEF x, y, g
    <3>2. x = y
      <4>1. [guest |-> g, budget |-> x] = [guest |-> g, budget |-> y]
        BY <3>1
      <4> QED  BY <4>1
    <3> QED  BY <1>3, <3>2 DEF x, y, IsInjective
  <2> QED  BY <1>8, <2>1 DEF IsInjective
<1> QED
  BY <1>7, <1>8, <1>9 DEF n, p, G

(* The choices of budgets: one of every row, each once.                    *)
LEMMA BudgetChoicesFacts ==
  ASSUME NEW s \in Setups, Dictionaries(s.budgets)
  PROVE  /\ BudgetChoices(s) \in Seq(Seq(Budgets))
         /\ IsInjective(BudgetChoices(s))
         /\ Some(s) = << >> => BudgetChoices(s) = << >>
         /\ Some(s) # << >> =>
              AllChoices(Budgets, BudgetChoices(s), BudgetLists(s), Len(Some(s)))
<1> DEFINE C == BudgetChoices(s)
           G == BudgetLists(s)
           n == Len(Some(s))
<1>1. C = IF Some(s) = << >> THEN << >> ELSE Product(G)
  BY DEF BudgetChoices, BudgetLists, Some
<1>2. G \in Seq(Seq(Budgets)) /\ Len(G) = n /\ \A k \in 1..n : IsInjective(G[k])
  BY BudgetListsFacts
<1> HIDE DEF C, G, n
<1>3. CASE Some(s) = << >>
  <2>1. << >> \in Seq(Seq(Budgets)) /\ DOMAIN << >> = {}
    OBVIOUS
  <2>2. IsInjective(<< >>)
    BY <2>1 DEF IsInjective
  <2> QED  BY <1>1, <1>3, <2>1, <2>2 DEF C
<1>4. CASE Some(s) # << >>
  <2>1. AllChoices(Budgets, C, G, n)
    BY <1>1, <1>2, <1>4, ProductFacts
  <2>2. C \in Seq(Seq(Budgets)) /\ IsInjective(C)
    BY <1>2, <2>1 DEF AllChoices
  <2> QED  BY <1>4, <2>1, <2>2 DEF C, G, n
<1> QED
  BY <1>3, <1>4

(* A choice of budgets tells the guests that have one, and which.          *)
LEMMA ChoiceFacts ==
  ASSUME NEW s \in Setups, Dictionaries(s.budgets), NEW i \in DOMAIN BudgetChoices(s)
  PROVE  /\ BudgetChoices(s)[i] \in Seq(Budgets)
         /\ BudgetChoices(s)[i] # << >>
         /\ \A j, k \in DOMAIN BudgetChoices(s)[i] :
              BudgetChoices(s)[i][j].guest = BudgetChoices(s)[i][k].guest => j = k
         /\ Len(BudgetChoices(s)[i]) = Len(Some(s))
         /\ \A k \in 1..Len(Some(s)) : \E c \in DOMAIN Some(s)[k].choices :
              BudgetChoices(s)[i][k] = [guest |-> Some(s)[k].guest,
                                        budget |-> Some(s)[k].choices[c]]
<1> DEFINE C == BudgetChoices(s)
           x == C[i]
           p == Some(s)
           n == Len(p)
           G == BudgetLists(s)
<1>1. C \in Seq(Seq(Budgets))
  BY BudgetChoicesFacts
<1>2. x \in Seq(Budgets)
  BY <1>1
<1>3. p # << >>
  <2>1. DOMAIN << >> = {}
    OBVIOUS
  <2>2. C # << >>
    BY <2>1
  <2> QED  BY <2>2, BudgetChoicesFacts
<1>4. AllChoices(Budgets, C, G, n)
  BY <1>3, BudgetChoicesFacts
<1>5. IsChoice(x, G, n)
  BY <1>4 DEF AllChoices
<1>6. /\ \A k \in 1..n : /\ DOMAIN G[k] = DOMAIN p[k].choices
                         /\ \A c \in DOMAIN p[k].choices :
                              G[k][c] = [guest |-> p[k].guest, budget |-> p[k].choices[c]]
      /\ \A j, k \in 1..n : p[j].guest = p[k].guest => j = k
      /\ p \in Seq(BudgetRows)
  BY BudgetListsFacts, SomeFacts
<1> HIDE DEF C, x, p, G
<1>7. n \in Nat /\ n # 0
  BY <1>3, <1>6
<1> HIDE DEF n
<1>8. Len(x) = n /\ \A k \in 1..n : \E c \in DOMAIN p[k].choices :
        x[k] = [guest |-> p[k].guest, budget |-> p[k].choices[c]]
  <2>1. Len(x) = n /\ \A k \in 1..n : \E c \in DOMAIN G[k] : x[k] = G[k][c]
    BY <1>5 DEF IsChoice
  <2>2. \A k \in 1..n : \E c \in DOMAIN p[k].choices :
          x[k] = [guest |-> p[k].guest, budget |-> p[k].choices[c]]
    <3> TAKE k \in 1..n
    <3>1. PICK c \in DOMAIN G[k] : x[k] = G[k][c]
      BY <2>1
    <3>2. c \in DOMAIN p[k].choices
          /\ G[k][c] = [guest |-> p[k].guest, budget |-> p[k].choices[c]]
      BY <1>6, <3>1 DEF n
    <3> QED  BY <3>1, <3>2
  <2> QED  BY <2>1, <2>2
<1>9. \A k \in 1..n : x[k].guest = p[k].guest
  <2> TAKE k \in 1..n
  <2>1. PICK c \in DOMAIN p[k].choices :
          x[k] = [guest |-> p[k].guest, budget |-> p[k].choices[c]]
    BY <1>8
  <2>2. [guest |-> p[k].guest, budget |-> p[k].choices[c]].guest = p[k].guest
    OBVIOUS
  <2> QED  BY <2>1, <2>2
<1>10. DOMAIN x = 1..n
  BY <1>2, <1>8
<1>11. \A j, k \in DOMAIN x : x[j].guest = x[k].guest => j = k
  BY <1>6, <1>9, <1>10
<1>12. x # << >>
  BY <1>2, <1>7, <1>8
<1> QED
  BY <1>2, <1>8, <1>11, <1>12 DEF C, x, n, p

-----------------------------------------------------------------------------
(* Tinted and limited configurations.                                      *)

(* One configuration in a colouring, and with a choice of budgets.         *)
Tint(s, c, x) ==
  IF Colourings(s) = << >> THEN x = c
  ELSE \E k \in DOMAIN Colourings(s) : x = Coloured(c, Colourings(s)[k])
Limit(s, x, y) ==
  IF BudgetChoices(s) = << >> THEN y = x
  ELSE \E k \in DOMAIN BudgetChoices(s) : y = Limited(x, BudgetChoices(s)[k])

(* No two colourings have a tag in common.                                 *)
TagsDiffer(s) ==
  \A j, k \in DOMAIN Colourings(s) :
    CcTag(Colourings(s)[j]) = CcTag(Colourings(s)[k]) => j = k

(* A configuration is tinted in every way its setup has.                   *)
LEMMA InColoursFacts ==
  ASSUME NEW s \in Setups, NEW c \in Configs
  PROVE  /\ InColours(c, Colourings(s)) \in Seq(Configs)
         /\ \A i \in DOMAIN InColours(c, Colourings(s)) :
              Tint(s, c, InColours(c, Colourings(s))[i])
         /\ \A x : Tint(s, c, x) => \E i \in DOMAIN InColours(c, Colourings(s)) :
              InColours(c, Colourings(s))[i] = x
<1> DEFINE L == Colourings(s)
           n == Len(L)
           R == InColours(c, L)
<1>1. L \in Seq(Seq(SUBSET Colours))
  BY ColouringsType
<1>2. n \in Nat /\ DOMAIN L = 1..n /\ \A k \in 1..n : L[k] \in Seq(SUBSET Colours)
  BY <1>1
<1>3. CASE L = << >>
  <2>1. R = << c >>
    BY <1>3 DEF InColours
  <2>2. << c >> \in Seq(Configs) /\ DOMAIN << c >> = {1} /\ << c >>[1] = c
    OBVIOUS
  <2> HIDE DEF R
  <2> QED  BY <1>3, <2>1, <2>2 DEF R, Tint
<1>4. CASE L # << >>
  <2>1. R = [k \in 1..n |-> Coloured(c, L[k])]
    BY <1>2, <1>4 DEF InColours
  <2>2. \A k \in 1..n : Coloured(c, L[k]) \in Configs
    BY <1>2, ColouredFacts
  <2> HIDE DEF R, L, n
  <2>3. R \in [1..n -> Configs]
    BY <2>1, <2>2
  <2>4. R \in Seq(Configs) /\ DOMAIN R = 1..n
    BY <1>2, <2>3, MapIsSeq
  <2>5. \A x : Tint(s, c, x) <=> \E k \in 1..n : x = Coloured(c, L[k])
    BY <1>2, <1>4 DEF Tint, L
  <2> QED  BY <2>1, <2>4, <2>5 DEF R, L
<1> QED
  BY <1>3, <1>4

(* A configuration is limited in every way its setup has.                  *)
LEMMA WithBudgetsFacts ==
  ASSUME NEW s \in Setups, Dictionaries(s.budgets), NEW c \in Configs
  PROVE  /\ WithBudgets(c, BudgetChoices(s)) \in Seq(Configs)
         /\ \A i \in DOMAIN WithBudgets(c, BudgetChoices(s)) :
              Limit(s, c, WithBudgets(c, BudgetChoices(s))[i])
         /\ \A x : Limit(s, c, x) => \E i \in DOMAIN WithBudgets(c, BudgetChoices(s)) :
              WithBudgets(c, BudgetChoices(s))[i] = x
<1> DEFINE L == BudgetChoices(s)
           n == Len(L)
           R == WithBudgets(c, L)
<1>1. L \in Seq(Seq(Budgets))
  BY BudgetChoicesFacts
<1>2. n \in Nat /\ DOMAIN L = 1..n /\ \A k \in 1..n : L[k] \in Seq(Budgets)
  <2> HIDE DEF L
  <2> QED  BY <1>1
<1>3. CASE L = << >>
  <2>1. R = << c >>
    BY <1>3 DEF WithBudgets
  <2>2. << c >> \in Seq(Configs) /\ DOMAIN << c >> = {1} /\ << c >>[1] = c
    OBVIOUS
  <2> HIDE DEF R
  <2> QED  BY <1>3, <2>1, <2>2 DEF R, Limit
<1>4. CASE L # << >>
  <2>1. R = [k \in 1..n |-> Limited(c, L[k])]
    BY <1>2, <1>4 DEF WithBudgets
  <2>2. \A k \in 1..n : Limited(c, L[k]) \in Configs
    BY <1>2, LimitedFacts
  <2> HIDE DEF R, L, n
  <2>3. R \in [1..n -> Configs]
    BY <2>1, <2>2
  <2>4. R \in Seq(Configs) /\ DOMAIN R = 1..n
    BY <1>2, <2>3, MapIsSeq
  <2>5. \A x : Limit(s, c, x) <=> \E k \in 1..n : x = Limited(c, L[k])
    BY <1>2, <1>4 DEF Limit, L
  <2> QED  BY <2>1, <2>4, <2>5 DEF R, L
<1> QED
  BY <1>3, <1>4

(* Different configurations with different tags have different names.      *)
LEMMA TintNames ==
  ASSUME NEW s \in Setups, TagsDiffer(s),
         NEW c \in Configs, NEW d \in Configs,
         NEW i \in DOMAIN InColours(c, Colourings(s)),
         NEW j \in DOMAIN InColours(d, Colourings(s)),
         InColours(c, Colourings(s))[i].name = InColours(d, Colourings(s))[j].name
  PROVE  c.name = d.name /\ i = j
<1> DEFINE L == Colourings(s)
           n == Len(L)
<1>1. L \in Seq(Seq(SUBSET Colours))
  BY ColouringsType
<1>2. n \in Nat /\ DOMAIN L = 1..n /\ \A k \in 1..n : L[k] \in Seq(SUBSET Colours)
  BY <1>1
<1>3. CASE L = << >>
  <2>1. InColours(c, L) = << c >> /\ InColours(d, L) = << d >>
    BY <1>3 DEF InColours
  <2>2. DOMAIN << c >> = {1} /\ << c >>[1] = c /\ DOMAIN << d >> = {1} /\ << d >>[1] = d
    OBVIOUS
  <2> QED  BY <2>1, <2>2
<1>4. CASE L # << >>
  <2>1. /\ InColours(c, L) = [k \in 1..n |-> Coloured(c, L[k])]
        /\ InColours(d, L) = [k \in 1..n |-> Coloured(d, L[k])]
    BY <1>2, <1>4 DEF InColours
  <2>2. i \in 1..n /\ j \in 1..n
    BY <2>1
  <2> DEFINE x == Coloured(c, L[i])
             y == Coloured(d, L[j])
             p == L[i]
             q == L[j]
  <2>3. x.name = y.name
    BY <2>1, <2>2
  <2>4. p \in Seq(SUBSET Colours) /\ q \in Seq(SUBSET Colours)
    BY <1>2, <2>2
  <2> HIDE DEF p, q
  <2>5. /\ x.name.guests = c.name.guests /\ x.name.tags = Append(c.name.tags, CcTag(p))
        /\ y.name.guests = d.name.guests /\ y.name.tags = Append(d.name.tags, CcTag(q))
    BY <2>4, ColouredFacts DEF p, q
  <2>6. /\ c.name \in Names /\ d.name \in Names
        /\ c.name.tags \in Seq(Tags) /\ d.name.tags \in Seq(Tags)
    BY ConfigParts
  <2>7. c.name.guests = d.name.guests
        /\ Append(c.name.tags, CcTag(p)) = Append(d.name.tags, CcTag(q))
    <3> HIDE DEF x, y
    <3> QED  BY <2>3, <2>5
  <2>8. CcTag(p) \in Tags /\ CcTag(q) \in Tags
    BY <2>4, CcTagFacts
  <2>9. c.name.tags = d.name.tags /\ CcTag(p) = CcTag(q)
    <3> DEFINE a == c.name.tags
               b == d.name.tags
               e == CcTag(p)
               f == CcTag(q)
    <3>1. a \in Seq(Tags) /\ b \in Seq(Tags) /\ e \in Tags /\ f \in Tags
          /\ Append(a, e) = Append(b, f)
      BY <2>6, <2>7, <2>8
    <3> HIDE DEF a, b, e, f
    <3>2. a = b /\ e = f
      BY <3>1, AppendSame
    <3> QED  BY <3>2 DEF a, b, e, f
  <2>10. c.name = d.name
    BY <2>6, <2>7, <2>9, NameParts
  <2>11. i = j
    BY <1>2, <2>2, <2>9 DEF TagsDiffer, p, q
  <2> QED  BY <2>10, <2>11
<1> QED
  BY <1>3, <1>4

(* Names that agree after the budgets agreed before, and so do the         *)
(* budgets.                                                                *)
LEMMA LimitNames ==
  ASSUME NEW s \in Setups, Dictionaries(s.budgets),
         NEW c \in Configs, NEW d \in Configs,
         NEW i \in DOMAIN WithBudgets(c, BudgetChoices(s)),
         NEW j \in DOMAIN WithBudgets(d, BudgetChoices(s)),
         WithBudgets(c, BudgetChoices(s))[i].name = WithBudgets(d, BudgetChoices(s))[j].name
  PROVE  c.name = d.name /\ i = j
<1> DEFINE L == BudgetChoices(s)
           n == Len(L)
<1>1. L \in Seq(Seq(Budgets)) /\ IsInjective(L)
  BY BudgetChoicesFacts
<1>2. n \in Nat /\ DOMAIN L = 1..n /\ \A k \in 1..n : L[k] \in Seq(Budgets)
  <2> HIDE DEF L
  <2> QED  BY <1>1
<1>3. CASE L = << >>
  <2>1. WithBudgets(c, L) = << c >> /\ WithBudgets(d, L) = << d >>
    BY <1>3 DEF WithBudgets
  <2>2. DOMAIN << c >> = {1} /\ << c >>[1] = c /\ DOMAIN << d >> = {1} /\ << d >>[1] = d
    OBVIOUS
  <2> QED  BY <2>1, <2>2
<1>4. CASE L # << >>
  <2>1. /\ WithBudgets(c, L) = [k \in 1..n |-> Limited(c, L[k])]
        /\ WithBudgets(d, L) = [k \in 1..n |-> Limited(d, L[k])]
    BY <1>2, <1>4 DEF WithBudgets
  <2>2. i \in 1..n /\ j \in 1..n
    BY <2>1
  <2> DEFINE x == Limited(c, L[i])
             y == Limited(d, L[j])
             p == L[i]
             q == L[j]
  <2>3. x.name = y.name
    BY <2>1, <2>2
  <2>4. p \in Seq(Budgets) /\ q \in Seq(Budgets)
    BY <1>2, <2>2
  <2> HIDE DEF p, q
  <2>5. /\ x.name.guests = c.name.guests /\ x.name.tags = Append(c.name.tags, MbrTag(p))
        /\ y.name.guests = d.name.guests /\ y.name.tags = Append(d.name.tags, MbrTag(q))
    BY <2>4, LimitedFacts DEF p, q
  <2>6. /\ c.name \in Names /\ d.name \in Names
        /\ c.name.tags \in Seq(Tags) /\ d.name.tags \in Seq(Tags)
    BY ConfigParts
  <2>7. c.name.guests = d.name.guests
        /\ Append(c.name.tags, MbrTag(p)) = Append(d.name.tags, MbrTag(q))
    <3> HIDE DEF x, y
    <3> QED  BY <2>3, <2>5
  <2>8. MbrTag(p) \in Tags /\ MbrTag(q) \in Tags
    BY <2>4, MbrTagFacts
  <2>9. c.name.tags = d.name.tags /\ MbrTag(p) = MbrTag(q)
    <3> DEFINE a == c.name.tags
               b == d.name.tags
               e == MbrTag(p)
               f == MbrTag(q)
    <3>1. a \in Seq(Tags) /\ b \in Seq(Tags) /\ e \in Tags /\ f \in Tags
          /\ Append(a, e) = Append(b, f)
      BY <2>6, <2>7, <2>8
    <3> HIDE DEF a, b, e, f
    <3>2. a = b /\ e = f
      BY <3>1, AppendSame
    <3> QED  BY <3>2 DEF a, b, e, f
  <2>10. c.name = d.name
    BY <2>6, <2>7, <2>9, NameParts
  <2>11. p = q
    <3>1. /\ Len(MbrTag(p).guests) = Len(p) /\ Len(MbrTag(q).guests) = Len(q)
          /\ \A k \in 1..Len(p) : /\ MbrTag(p).guests[k] = p[k].guest
                                  /\ MbrTag(p).values[k] = p[k].budget
          /\ \A k \in 1..Len(q) : /\ MbrTag(q).guests[k] = q[k].guest
                                  /\ MbrTag(q).values[k] = q[k].budget
      BY <2>4, MbrTagFacts
    <3>2. Len(p) = Len(q)
      BY <2>9, <3>1
    <3>3. \A k \in 1..Len(p) : p[k] \in Budgets /\ q[k] \in Budgets
      BY <2>4, <3>2, Elements
    <3>4. \A k \in 1..Len(p) : p[k].guest = q[k].guest /\ p[k].budget = q[k].budget
      BY <2>9, <3>1, <3>2
    <3>5. \A k \in 1..Len(p) : p[k] = q[k]
      BY <3>3, <3>4 DEF Budgets
    <3> QED  BY <2>4, <3>2, <3>5, SameSeq
  <2>12. i = j
    BY <1>1, <1>2, <2>2, <2>11 DEF IsInjective, p, q
  <2> QED  BY <2>10, <2>12
<1> QED
  BY <1>3, <1>4

-----------------------------------------------------------------------------
(* All configurations of a setup.                                          *)
LEMMA MitigatedFacts ==
  ASSUME NEW s \in Setups, Dictionaries(s.budgets), listConfigs \in Seq(Names)
  PROVE  /\ Mitigated(s) \in Seq(Configs)
         /\ \A i \in DOMAIN Mitigated(s) : \E a \in DOMAIN Named(s) : \E x \in Configs :
              Tint(s, Named(s)[a], x) /\ Limit(s, x, Mitigated(s)[i])
         /\ \A a \in DOMAIN Named(s) : \A x, y :
              Tint(s, Named(s)[a], x) /\ Limit(s, x, y) =>
                \E i \in DOMAIN Mitigated(s) : Mitigated(s)[i] = y
         /\ TagsDiffer(s) => \A i, j \in DOMAIN Mitigated(s) :
              Mitigated(s)[i].name = Mitigated(s)[j].name => i = j
<1> DEFINE P == Named(s)
           n == Len(P)
           cs == Colourings(s)
           bs == BudgetChoices(s)
           rows == [i \in 1..n |-> InColours(P[i], cs)]
           K == FlattenSeq(rows)
           m == Len(K)
           lines == [i \in 1..m |-> WithBudgets(K[i], bs)]
           M == Mitigated(s)
<1>1. P \in Seq(Configs) /\ \A j, k \in DOMAIN P : P[j].name = P[k].name => j = k
  BY NamedFacts
<1> HIDE DEF P
<1>2. n \in Nat /\ DOMAIN P = 1..n /\ \A i \in 1..n : P[i] \in Configs
  BY <1>1
<1> HIDE DEF n
<1>3. rows \in [1..n -> Seq(Configs)]
  BY <1>2, InColoursFacts
<1>4. \A i \in 1..n : rows[i] = InColours(P[i], cs)
  OBVIOUS
<1> HIDE DEF rows, cs
<1>5. rows \in Seq(Seq(Configs)) /\ Len(rows) = n
  BY <1>2, <1>3, MapIsSeq
<1>6. AllRows(Configs, K, rows, n)
  BY <1>5, FlattenFacts
<1>7. K \in Seq(Configs)
  BY <1>6 DEF AllRows
<1>8. M = FlattenSeq([i \in DOMAIN K |-> WithBudgets(K[i], bs)])
  BY <1>2 DEF Mitigated, P, rows, cs
<1> HIDE DEF K
<1>9. m \in Nat /\ DOMAIN K = 1..m /\ \A i \in 1..m : K[i] \in Configs
  BY <1>7
<1>10. M = FlattenSeq(lines)
  BY <1>8, <1>9
<1> HIDE DEF m, M
<1>11. lines \in [1..m -> Seq(Configs)]
  BY <1>9, WithBudgetsFacts
<1>12. \A i \in 1..m : lines[i] = WithBudgets(K[i], bs)
  OBVIOUS
<1> HIDE DEF lines, bs
<1>13. lines \in Seq(Seq(Configs)) /\ Len(lines) = m
  BY <1>9, <1>11, MapIsSeq
<1>14. AllRows(Configs, M, lines, m)
  BY <1>10, <1>13, FlattenFacts
<1>15. M \in Seq(Configs)
  BY <1>14 DEF AllRows
<1>16. \A i \in DOMAIN M : \E a \in DOMAIN P : \E x \in Configs :
         Tint(s, P[a], x) /\ Limit(s, x, M[i])
  <2> TAKE i \in DOMAIN M
  <2>1. PICK r \in 1..m : \E j \in DOMAIN lines[r] : M[i] = lines[r][j]
    BY <1>14 DEF AllRows
  <2>2. Limit(s, K[r], M[i])
    BY <1>9, <1>12, <2>1, WithBudgetsFacts DEF bs
  <2>3. PICK a \in 1..n : \E k \in DOMAIN rows[a] : K[r] = rows[a][k]
    BY <1>6, <1>9 DEF AllRows
  <2>4. Tint(s, P[a], K[r])
    BY <1>2, <1>4, <2>3, InColoursFacts DEF cs
  <2> QED  BY <1>2, <1>9, <2>2, <2>4
<1>17. ASSUME NEW a \in DOMAIN P, NEW x, NEW y, Tint(s, P[a], x), Limit(s, x, y)
       PROVE  \E i \in DOMAIN M : M[i] = y
  <2>1. PICK k \in DOMAIN rows[a] : rows[a][k] = x
    <3>1. \E k \in DOMAIN InColours(P[a], Colourings(s)) : InColours(P[a], Colourings(s))[k] = x
      BY <1>2, <1>17, InColoursFacts
    <3> QED  BY <1>2, <1>4, <3>1 DEF cs
  <2>2. PICK r \in DOMAIN K : K[r] = rows[a][k]
    BY <1>2, <1>6, <1>17 DEF AllRows
  <2>3. PICK j \in DOMAIN lines[r] : lines[r][j] = y
    <3>1. K[r] \in Configs /\ Limit(s, K[r], y)
      BY <1>9, <1>17, <2>1, <2>2
    <3>2. \E j \in DOMAIN WithBudgets(K[r], BudgetChoices(s)) :
            WithBudgets(K[r], BudgetChoices(s))[j] = y
      BY <3>1, WithBudgetsFacts
    <3> QED  BY <1>9, <1>12, <3>2 DEF bs
  <2> QED  BY <1>9, <1>14, <2>3 DEF AllRows
<1>18. ASSUME TagsDiffer(s)
       PROVE  \A i, j \in DOMAIN M : M[i].name = M[j].name => i = j
  <2>1. ASSUME NEW q \in 1..n, NEW r \in 1..n,
               NEW i \in DOMAIN rows[q], NEW j \in DOMAIN rows[r],
               rows[q][i].name = rows[r][j].name
        PROVE  q = r /\ i = j
    <3>1. P[q].name = P[r].name /\ i = j
      <4> DEFINE c == P[q]
                 d == P[r]
      <4>1. c \in Configs /\ d \in Configs /\ rows[q] = InColours(c, Colourings(s))
            /\ rows[r] = InColours(d, Colourings(s))
        BY <1>2, <1>4 DEF cs
      <4> HIDE DEF c, d
      <4>2. c.name = d.name /\ i = j
        BY <1>18, <2>1, <4>1, TintNames
      <4> QED  BY <4>2 DEF c, d
    <3> QED  BY <1>1, <1>2, <3>1
  <2>2. \A i, j \in DOMAIN K : K[i].name = K[j].name => i = j
    BY <1>6, <2>1 DEF AllRows
  <2>3. ASSUME NEW q \in 1..m, NEW r \in 1..m,
               NEW i \in DOMAIN lines[q], NEW j \in DOMAIN lines[r],
               lines[q][i].name = lines[r][j].name
        PROVE  q = r /\ i = j
    <3>1. K[q].name = K[r].name /\ i = j
      <4> DEFINE c == K[q]
                 d == K[r]
      <4>1. c \in Configs /\ d \in Configs /\ lines[q] = WithBudgets(c, BudgetChoices(s))
            /\ lines[r] = WithBudgets(d, BudgetChoices(s))
        BY <1>9, <1>12 DEF bs
      <4> HIDE DEF c, d
      <4>2. c.name = d.name /\ i = j
        BY <2>3, <4>1, LimitNames
      <4> QED  BY <4>2 DEF c, d
    <3> QED  BY <1>9, <2>2, <3>1
  <2> QED  BY <1>14, <2>3 DEF AllRows
<1> QED
  BY <1>15, <1>16, <1>17, <1>18 DEF M, P

-----------------------------------------------------------------------------
(* What a name tells.                                                      *)

(* The guests of a configuration, in order and each once.                  *)
OneOfEachGroup(vms) ==
  \A j, k \in 1..Len(vms) : vms[j].guest.group = vms[k].guest.group => j = k

(* The guests of a configuration are those of its setup.                   *)
LEMMA NewFacts ==
  ASSUME NEW s \in Setups, NEW c, New(s, c)
  PROVE  /\ c \in Configs
         /\ Len(c.vms) = Len(Present(s))
         /\ \A k \in 1..Len(Present(s)) :
              /\ c.vms[k].guest.group = Present(s)[k]
              /\ c.vms[k].colours = {}
              /\ c.vms[k].open = FALSE
         /\ OneOfEachGroup(c.vms)
<1> DEFINE p == Present(s)
           n == Len(p)
<1>1. c \in Configs
  BY DEF New
<1>2. PICK i \in DOMAIN Combinations(s) : c.vms = NewVMs(Combinations(s)[i])
  BY DEF New
<1> DEFINE g == Combinations(s)[i]
<1>3. g \in Seq(Guests) /\ Ordered(s, g)
  BY <1>2, CombinationsFacts
<1>4. Len(g) = n /\ \A k \in 1..n : g[k].group = p[k]
  BY <1>3 DEF Ordered
<1> HIDE DEF g, p
<1>5. /\ Len(c.vms) = n
      /\ \A k \in 1..n : c.vms[k] = [guest |-> g[k], colours |-> {}, open |-> FALSE,
                                     budget |-> 0]
  BY <1>2, <1>3, <1>4, NewVMsFacts DEF g
<1>6. \A k \in 1..n : /\ c.vms[k].guest = g[k] /\ c.vms[k].colours = {}
                      /\ c.vms[k].open = FALSE
  <2> TAKE k \in 1..n
  <2> DEFINE r == [guest |-> g[k], colours |-> {}, open |-> FALSE, budget |-> 0]
  <2>1. r.guest = g[k] /\ r.colours = {} /\ r.open = FALSE
    OBVIOUS
  <2>2. c.vms[k] = r
    BY <1>5
  <2> HIDE DEF r
  <2> QED  BY <2>1, <2>2
<1>7. \A k \in 1..n : c.vms[k].guest.group = p[k]
  BY <1>4, <1>6
<1>8. \A j, k \in 1..n : p[j] = p[k] => j = k
  BY PresentFacts DEF p
<1> HIDE DEF n
<1>9. OneOfEachGroup(c.vms)
  BY <1>5, <1>7, <1>8 DEF OneOfEachGroup
<1> QED
  BY <1>1, <1>5, <1>6, <1>7, <1>9 DEF n, p

(* Configurations with the same guests have their names and places.        *)
SameGuests(c, x) ==
  /\ x.name.guests = c.name.guests
  /\ Len(x.vms) = Len(c.vms)
  /\ \A k \in 1..Len(c.vms) : x.vms[k].guest = c.vms[k].guest

LEMMA SameGuestsFacts ==
  ASSUME NEW c \in Configs, NEW x \in Configs, SameGuests(c, x)
  PROVE  /\ GuestsOf(x.vms) = GuestsOf(c.vms)
         /\ OneOfEachGroup(c.vms) => OneOfEachGroup(x.vms)
         /\ \A k \in 1..Len(c.vms) : HasPlace(x.vms[k]) <=> HasPlace(c.vms[k])
<1>1. DOMAIN x.vms = 1..Len(c.vms) /\ DOMAIN c.vms = 1..Len(c.vms)
  BY ConfigParts DEF SameGuests
<1>2. \A k \in 1..Len(c.vms) : x.vms[k].guest = c.vms[k].guest
  BY DEF SameGuests
<1>3. GuestsOf(x.vms) = GuestsOf(c.vms)
  BY <1>1, <1>2 DEF GuestsOf
<1>4. OneOfEachGroup(c.vms) => OneOfEachGroup(x.vms)
  BY <1>2 DEF OneOfEachGroup, SameGuests
<1> QED
  BY <1>2, <1>3, <1>4 DEF HasPlace

-----------------------------------------------------------------------------
(* What is tested when the budgets are listed in the order of the guests.  *)
BareOf(seq) == {i \in DOMAIN seq : Kind(seq[i]) = "baremetal"}
Bare(seq) == Picked(seq, BareOf(seq))

OncePerGuest(choice) ==
  \A j, k \in DOMAIN choice : choice[j].guest = choice[k].guest => j = k

BudgetsAhead(choice, b, kind) == {j \in OfKind(choice, kind) : j < b}

LEMMA KindFacts ==
  ASSUME NEW g \in Groups
  PROVE  /\ g # "profiler" => Kind(g) = "linux" \/ Kind(g) = "baremetal"
         /\ Kind(g) = "linux" <=> g = "linux"
BY GroupOrderFacts DEF Kind

(* Then the place of a guest among those of its kind is that of its budget *)
(* among those for this kind.                                              *)
LEMMA PlaceOfBudget ==
  ASSUME NEW vms \in Seq(VMs), OneOfEachGroup(vms),
         NEW choice \in Seq(Budgets),
         OncePerGuest(choice),
         InOrder(GuestsOf(vms), MbrTag(choice)),
         NEW k \in 1..Len(vms), NEW b \in 1..Len(choice),
         HasPlace(vms[k]), vms[k].guest.group = choice[b].guest,
         NEW kind, kind = Kind(vms[k].guest.group)
  PROVE  /\ b \in OfKind(choice, kind)
         /\ Cardinality(Ahead(vms, k, kind))
              = Cardinality(BudgetsAhead(choice, b, kind)) + 1
<1> DEFINE n == Len(vms)
           m == Len(choice)
           O == OfKind(choice, kind)
           A == Ahead(vms, k, kind)
           groups == [i \in 1..n |-> vms[i].guest.group]
           G == MbrTag(choice).guests
<1>1. n \in Nat /\ DOMAIN vms = 1..n /\ \A i \in 1..n : vms[i].guest.group \in Groups
  <2>1. n \in Nat /\ DOMAIN vms = 1..n /\ \A i \in 1..n : vms[i] \in VMs
    BY Elements
  <2> QED  BY <2>1, VmParts
<1>2. m \in Nat /\ DOMAIN choice = 1..m /\ \A i \in 1..m : choice[i].guest \in Groups
  <2>1. m \in Nat /\ DOMAIN choice = 1..m /\ \A i \in 1..m : choice[i] \in Budgets
    BY Elements
  <2> QED  BY <2>1 DEF Budgets
<1>3. b \in O /\ O \in SUBSET (1..m)
  BY <1>2 DEF OfKind
<1>4. kind = "linux" \/ kind = "baremetal"
  BY <1>1, KindFacts DEF HasPlace
<1>5. CASE kind = "linux"
  <2>1. \A i \in O : i = b
    <3> TAKE i \in O
    <3>1. i \in 1..m /\ Kind(choice[i].guest) = "linux"
      BY <1>2, <1>5 DEF OfKind
    <3>2. choice[i].guest = "linux" /\ choice[b].guest = "linux"
      BY <1>1, <1>2, <1>5, <3>1, KindFacts
    <3> QED  BY <1>2, <3>1, <3>2 DEF OncePerGuest
  <2>2. {j \in O : j < b} = {}
    <3>1. ~ (b < b)
      BY <1>2
    <3> HIDE DEF O
    <3> QED  BY <2>1, <3>1
  <2>3. \A j \in A : j = k
    <3> TAKE j \in A
    <3>1. j \in 1..n /\ Kind(vms[j].guest.group) = "linux"
      BY <1>1, <1>5 DEF Ahead
    <3>2. vms[j].guest.group = "linux" /\ vms[k].guest.group = "linux"
      BY <1>1, <1>5, <3>1, KindFacts
    <3> QED  BY <3>1, <3>2 DEF OneOfEachGroup
  <2>4. k \in A
    BY <1>1 DEF Ahead
  <2>5. A = {k}
    <3> HIDE DEF A
    <3> QED  BY <2>3, <2>4
  <2>6. Cardinality(A) = 1 /\ Cardinality({j \in O : j < b}) = 0
    <3> HIDE DEF A, O
    <3> QED  BY <2>2, <2>5, FS_Singleton, FS_EmptySet
  <2> QED  BY <1>3, <2>6 DEF BudgetsAhead
<1>6. CASE kind = "baremetal"
  <2> DEFINE B == BareOf(groups)
             r == Cardinality({j \in O : j < b}) + 1
  <2>1. /\ G \in Seq(Groups) /\ Len(G) = m /\ DOMAIN G = 1..m
        /\ \A i \in 1..m : G[i] = choice[i].guest
    <3>1. MbrTag(choice) \in Tags /\ Len(G) = m /\ \A i \in 1..m : G[i] = choice[i].guest
      BY MbrTagFacts
    <3>2. G \in Seq(Groups)
      BY <3>1 DEF Tags
    <3> HIDE DEF G
    <3> QED  BY <3>1, <3>2
  <2>2. groups \in [1..n -> Groups]
    BY <1>1
  <2>3. \A i \in 1..n : groups[i] = vms[i].guest.group
    OBVIOUS
  <2> DEFINE guests == GuestsOf(vms)
  <2>4. [i \in DOMAIN guests |-> guests[i].group] = groups
    BY <1>1 DEF GuestsOf
  <2>5. IsPrefix(Bare(G), Bare(groups))
    BY <2>4 DEF InOrder, Bare, BareOf
  <2> HIDE DEF G, groups
  <2>6. groups \in Seq(Groups) /\ Len(groups) = n /\ DOMAIN groups = 1..n
    BY <1>1, <2>2, MapIsSeq
  <2>7. BareOf(G) = O
    BY <1>2, <1>6, <2>1 DEF BareOf, OfKind
  <2>8. /\ Bare(G) \in Seq(Groups) /\ Len(Bare(G)) = Cardinality(O)
        /\ IsFiniteSet(O)
        /\ \A i \in 1..Cardinality(O) : Bare(G)[i] = G[Place(O, i)]
    <3>1. O \in SUBSET DOMAIN G
      BY <1>3, <2>1
    <3> HIDE DEF O
    <3> QED  BY <2>1, <2>7, <3>1, PickedFacts DEF Bare
  <2>9. /\ B \in SUBSET (1..n) /\ IsFiniteSet(B)
        /\ Bare(groups) \in Seq(Groups) /\ Len(Bare(groups)) = Cardinality(B)
        /\ \A i \in 1..Cardinality(B) : /\ Place(B, i) \in B
                                        /\ Bare(groups)[i] = groups[Place(B, i)]
    <3>1. B \in SUBSET DOMAIN groups
      BY DEF BareOf
    <3> HIDE DEF B
    <3> QED  BY <2>6, <3>1, PickedFacts DEF Bare, B
  <2>10. /\ r \in 1..Cardinality(O) /\ Place(O, r) = b
    <3>1. O \in SUBSET Int
      BY <1>3
    <3> HIDE DEF O
    <3> QED  BY <1>3, <2>8, <3>1, PlaceFacts
  <2> HIDE DEF r
  <2>11. r \in 1..Cardinality(B) /\ Bare(G)[r] = Bare(groups)[r]
    <3> DEFINE u == Bare(G)
               v == Bare(groups)
    <3>1. u \in Seq(Groups) /\ v \in Seq(Groups) /\ r \in 1..Len(u)
      BY <2>8, <2>9, <2>10
    <3>2. Len(u) <= Len(v) /\ SubSeq(u, 1, Len(u)) = SubSeq(v, 1, Len(u))
      BY <2>5 DEF IsPrefix
    <3> HIDE DEF u, v
    <3>3. r \in 1..Len(v)
      BY <3>1, <3>2
    <3>4. SubSeq(u, 1, Len(u))[r] = u[r] /\ SubSeq(v, 1, Len(u))[r] = v[r]
      BY <3>1, <3>2
    <3> QED  BY <2>9, <3>2, <3>3, <3>4 DEF u, v
  <2>12. groups[Place(B, r)] = groups[k]
    <3>1. Bare(G)[r] = choice[b].guest
      BY <1>2, <2>1, <2>8, <2>10
    <3> QED  BY <2>3, <2>9, <2>11, <3>1
  <2>13. Place(B, r) \in B /\ Place(B, r) \in 1..n
    BY <2>9, <2>11
  <2>14. Place(B, r) = k
    BY <2>3, <2>12, <2>13 DEF OneOfEachGroup
  <2>15. Cardinality({j \in B : j < k}) = r - 1
    <3>1. B \in SUBSET Int
      BY <2>9
    <3>2. \A i \in 1..Cardinality(B) : Cardinality({j \in B : j < Place(B, i)}) = i - 1
      <4> HIDE DEF B
      <4> QED  BY <2>9, <3>1, PlaceFacts
    <3> HIDE DEF B
    <3> QED  BY <2>11, <2>14, <3>2
  <2>16. A = {j \in B : j < k} \cup {k}
    <3>1. k \in B
      BY <2>13, <2>14
    <3>2. \A j : j \in B <=> j \in 1..n /\ Kind(vms[j].guest.group) = "baremetal"
      BY <2>3, <2>6 DEF BareOf
    <3>3. \A j : j \in A <=> j \in 1..k /\ Kind(vms[j].guest.group) = "baremetal"
      BY <1>6 DEF Ahead
    <3>4. \A j : j \in 1..k <=> (j \in 1..n /\ j < k) \/ j = k
      BY <1>1
    <3> HIDE DEF A, B
    <3> QED  BY <3>1, <3>2, <3>3, <3>4
  <2>17. Cardinality(A) = r
    <3> DEFINE L == {j \in B : j < k}
    <3>1. ~ (k \in L)
      BY <1>1
    <3>2. L \in SUBSET B
      OBVIOUS
    <3>3. r \in Int
      <4>1. Cardinality(O) \in Nat
        BY <2>8, FS_CardinalityType
      <4> QED  BY <2>10, <4>1
    <3> HIDE DEF L, A, B
    <3>4. IsFiniteSet(L)
      BY <2>9, <3>2, FS_Subset
    <3>5. Cardinality(L \cup {k}) = Cardinality(L) + 1
      BY <3>1, <3>4, FS_AddElement
    <3>6. Cardinality(L) = r - 1 /\ A = L \cup {k}
      BY <2>15, <2>16 DEF L
    <3> QED  BY <3>3, <3>5, <3>6
  <2> QED  BY <1>3, <2>17 DEF r, BudgetsAhead
<1> QED
  BY <1>4, <1>5, <1>6

(* The budget a guest with a place gets is the one its name gives.         *)
LEMMA BudgetTold ==
  ASSUME NEW vms \in Seq(VMs), OneOfEachGroup(vms),
         NEW choice \in Seq(Budgets),
         OncePerGuest(choice),
         InOrder(GuestsOf(vms), MbrTag(choice)),
         NEW k \in 1..Len(vms), NEW b \in 1..Len(choice),
         HasPlace(vms[k]), vms[k].guest.group = choice[b].guest
  PROVE  BudgetAt(vms, k, choice) = choice[b].budget
<1> DEFINE kind == Kind(vms[k].guest.group)
           f == Fitting(choice, kind)
           O == OfKind(choice, kind)
           r == Cardinality({j \in O : j < b}) + 1
           place == Cardinality(Ahead(vms, k, kind))
<1>1. BudgetAt(vms, k, choice) =
        IF f = << >> \/ kind = "profiler" THEN 0
        ELSE IF place > Len(f) THEN f[Len(f)].budget
        ELSE f[place].budget
  BY DEF BudgetAt, Fitting, OfKind, Ahead, Last
<1>2. kind # "profiler"
  <2>1. vms[k].guest.group \in Groups
    BY VmParts, Elements
  <2> QED  BY <2>1, KindFacts DEF HasPlace
<1>3. b \in O /\ place = r
  <2>1. \A kd : kd = kind =>
          /\ b \in OfKind(choice, kd)
          /\ Cardinality(Ahead(vms, k, kd))
               = Cardinality(BudgetsAhead(choice, b, kd)) + 1
    <3> SUFFICES ASSUME NEW kd, kd = kind
                 PROVE  /\ b \in OfKind(choice, kd)
                        /\ Cardinality(Ahead(vms, k, kd))
                             = Cardinality(BudgetsAhead(choice, b, kd)) + 1
      OBVIOUS
    <3> QED  BY PlaceOfBudget
  <2> QED  BY <2>1 DEF BudgetsAhead
<1>4. O \in SUBSET Int /\ IsFiniteSet(O)
  <2>1. O \in SUBSET DOMAIN choice /\ DOMAIN choice = 1..Len(choice) /\ Len(choice) \in Nat
    BY DEF OfKind
  <2>2. IsFiniteSet(1..Len(choice))
    BY <2>1, UpToFinite
  <2> HIDE DEF O
  <2> QED  BY <2>1, <2>2, FS_Subset
<1>5. /\ f \in Seq(Budgets) /\ Len(f) = Cardinality(O)
      /\ \A n \in 1..Cardinality(O) : f[n] = choice[Place(O, n)]
  BY FittingFacts
<1> HIDE DEF f, O, place, kind
<1>6. r \in 1..Cardinality(O) /\ Place(O, r) = b
  BY <1>3, <1>4, PlaceFacts
<1>7. Cardinality(O) \in Nat
  BY <1>4, FS_CardinalityType
<1> HIDE DEF r
<1>8. ~ (place > Len(f)) /\ f[place] = choice[b]
  BY <1>3, <1>5, <1>6, <1>7
<1>9. f # << >>
  BY <1>5, <1>6, <1>7
<1> QED
  BY <1>1, <1>2, <1>8, <1>9

(* What colouring adds to a configuration.                                 *)
ColoursAs(vms, colours) ==
  \A k \in 1..Len(vms) : HasPlace(vms[k]) /\ k <= Len(colours) =>
    vms[k].colours = colours[k]
BudgetsAs(vms, choice) ==
  \A k \in 1..Len(vms) : vms[k].budget = BudgetAt(vms, k, choice)

(* What colouring does to a configuration and to its name.                 *)
LEMMA TintFacts ==
  ASSUME NEW s \in Setups, NEW c \in Configs, NEW x, Tint(s, c, x)
  PROVE  /\ x \in Configs /\ SameGuests(c, x)
         /\ \/ x.name = c.name
            \/ \E colours \in Seq(SUBSET Colours) :
                 /\ x.name.tags = Append(c.name.tags, CcTag(colours))
                 /\ ColoursAs(x.vms, colours)
<1>1. /\ Len(c.vms) \in Nat /\ c.vms \in Seq(VMs)
      /\ c.name \in Names
  BY ConfigParts
<1>2. CASE Colourings(s) = << >>
  <2>1. x = c
    BY <1>2 DEF Tint
  <2> QED  BY <2>1 DEF SameGuests
<1>3. CASE Colourings(s) # << >>
  <2>1. PICK k \in DOMAIN Colourings(s) : x = Coloured(c, Colourings(s)[k])
    BY <1>3 DEF Tint
  <2> DEFINE L == Colourings(s)
             w == L[k]
  <2>2. w \in Seq(SUBSET Colours)
    <3>1. L \in Seq(Seq(SUBSET Colours))
      BY ColouringsType
    <3> HIDE DEF L
    <3> QED  BY <2>1, <3>1, Elements DEF L
  <2>3. x = Coloured(c, w)
    BY <2>1
  <2> HIDE DEF L, w
  <2>4. /\ x \in Configs
        /\ x.name.guests = c.name.guests
        /\ x.name.tags = Append(c.name.tags, CcTag(w))
        /\ Len(x.vms) = Len(c.vms)
        /\ \A i \in 1..Len(c.vms) :
             /\ x.vms[i].guest = c.vms[i].guest
             /\ x.vms[i].colours = IF HasPlace(c.vms[i]) /\ i <= Len(w)
                                   THEN w[i] ELSE c.vms[i].colours
    BY <2>2, <2>3, ColouredFacts
  <2>5. SameGuests(c, x)
    BY <2>4 DEF SameGuests
  <2>6. ColoursAs(x.vms, w)
    <3>1. \A i \in 1..Len(c.vms) : HasPlace(x.vms[i]) <=> HasPlace(c.vms[i])
      BY <2>4, <2>5, SameGuestsFacts
    <3> QED  BY <2>4, <3>1 DEF ColoursAs
  <2> QED  BY <2>2, <2>4, <2>5, <2>6
<1> QED
  BY <1>2, <1>3

LEMMA BudgetAtSame ==
  ASSUME NEW x \in Configs, NEW y \in Configs, SameGuests(x, y),
         NEW choice \in Seq(Budgets), NEW k \in 1..Len(x.vms)
  PROVE  BudgetAt(y.vms, k, choice) = BudgetAt(x.vms, k, choice)
<1>1. Len(x.vms) \in Nat
  BY ConfigParts
<1>2. \A j \in 1..k : y.vms[j].guest = x.vms[j].guest
  BY <1>1 DEF SameGuests
<1>3. y.vms[k].guest = x.vms[k].guest
  BY DEF SameGuests
<1>4. \A kind : Ahead(y.vms, k, kind) = Ahead(x.vms, k, kind)
  BY <1>2 DEF Ahead
<1>5. \A vms : BudgetAt(vms, k, choice) =
        LET kind  == Kind(vms[k].guest.group)
            f     == Fitting(choice, kind)
            place == Cardinality(Ahead(vms, k, kind))
        IN  IF f = << >> \/ kind = "profiler" THEN 0
            ELSE IF place > Len(f) THEN Last(f).budget
            ELSE f[place].budget
  BY DEF BudgetAt, Fitting, OfKind, Ahead
<1> QED
  BY <1>3, <1>4, <1>5

(* What budgets do to a configuration and to its name.                     *)
LEMMA LimitFacts ==
  ASSUME NEW s \in Setups, Dictionaries(s.budgets),
         NEW x \in Configs, NEW y, Limit(s, x, y)
  PROVE  /\ y \in Configs /\ SameGuests(x, y)
         /\ \A k \in 1..Len(x.vms) : /\ y.vms[k].colours = x.vms[k].colours
                                     /\ y.vms[k].open = x.vms[k].open
         /\ \/ y.name = x.name
            \/ \E choice \in Seq(Budgets) :
                 /\ OncePerGuest(choice)
                 /\ y.name.tags = Append(x.name.tags, MbrTag(choice))
                 /\ BudgetsAs(y.vms, choice)
<1>1. CASE BudgetChoices(s) = << >>
  <2>1. y = x
    BY <1>1 DEF Limit
  <2> QED  BY <2>1 DEF SameGuests
<1>2. CASE BudgetChoices(s) # << >>
  <2>1. PICK k \in DOMAIN BudgetChoices(s) : y = Limited(x, BudgetChoices(s)[k])
    BY <1>2 DEF Limit
  <2> DEFINE w == BudgetChoices(s)[k]
  <2>2. w \in Seq(Budgets) /\ OncePerGuest(w)
    <3>1. /\ w \in Seq(Budgets)
          /\ \A i, j \in DOMAIN w : w[i].guest = w[j].guest => i = j
      BY <2>1, ChoiceFacts
    <3> HIDE DEF w
    <3> QED  BY <3>1 DEF OncePerGuest
  <2>3. y = Limited(x, w)
    BY <2>1
  <2> HIDE DEF w
  <2>4. /\ y \in Configs
        /\ y.name.guests = x.name.guests
        /\ y.name.tags = Append(x.name.tags, MbrTag(w))
        /\ Len(y.vms) = Len(x.vms)
        /\ \A i \in 1..Len(x.vms) :
             /\ y.vms[i].guest = x.vms[i].guest
             /\ y.vms[i].colours = x.vms[i].colours
             /\ y.vms[i].open = x.vms[i].open
             /\ y.vms[i].budget = BudgetAt(x.vms, i, w)
    BY <2>2, <2>3, LimitedFacts
  <2>5. SameGuests(x, y)
    BY <2>4 DEF SameGuests
  <2>6. BudgetsAs(y.vms, w)
    BY <2>2, <2>4, <2>5, BudgetAtSame DEF BudgetsAs
  <2> QED  BY <2>2, <2>4, <2>5, <2>6
<1> QED
  BY <1>1, <1>2

-----------------------------------------------------------------------------
(* A tag that tells of the machines.                                       *)
True(tag, vms) ==
  /\ tag.kind = "cc" => TellsColours(tag, vms)
  /\ tag.kind = "mbr" /\ InOrder(GuestsOf(vms), tag) => TellsBudgets(tag, vms)

(* The tag of a colouring is true of the guests it has coloured.           *)
LEMMA ColoursTrue ==
  ASSUME NEW vms \in Seq(VMs), NEW colours \in Seq(SUBSET Colours),
         ColoursAs(vms, colours)
  PROVE  True(CcTag(colours), vms)
<1> DEFINE tag == CcTag(colours)
<1>1. /\ tag.kind = "cc" /\ Len(tag.values) = Len(colours)
      /\ \A k \in 1..Len(colours) : tag.values[k] = Cardinality(colours[k])
  BY CcTagFacts
<1> HIDE DEF tag
<1>2. DOMAIN vms = 1..Len(vms) /\ Len(colours) \in Nat
  OBVIOUS
<1>3. TellsColours(tag, vms)
  BY <1>1, <1>2 DEF TellsColours, ColoursAs
<1>4. tag.kind # "mbr"
  BY <1>1
<1> QED
  BY <1>3, <1>4 DEF True, tag

(* The tag of a choice of budgets is true of the guests it has limited.    *)
LEMMA BudgetsTrue ==
  ASSUME NEW vms \in Seq(VMs), OneOfEachGroup(vms),
         NEW choice \in Seq(Budgets), OncePerGuest(choice), BudgetsAs(vms, choice)
  PROVE  True(MbrTag(choice), vms)
<1> DEFINE tag == MbrTag(choice)
<1>1. /\ tag.kind = "mbr" /\ Len(tag.guests) = Len(choice)
      /\ \A k \in 1..Len(choice) : /\ tag.guests[k] = choice[k].guest
                                   /\ tag.values[k] = choice[k].budget
      /\ DOMAIN tag.guests = 1..Len(choice)
  <2>1. tag \in Tags /\ tag.kind = "mbr" /\ Len(tag.guests) = Len(choice)
        /\ \A k \in 1..Len(choice) : /\ tag.guests[k] = choice[k].guest
                                     /\ tag.values[k] = choice[k].budget
    BY MbrTagFacts
  <2> HIDE DEF tag
  <2>2. tag.guests \in Seq(Groups)
    BY <2>1 DEF Tags
  <2> QED  BY <2>1, <2>2
<1>2. DOMAIN vms = 1..Len(vms)
  OBVIOUS
<1>3. ASSUME InOrder(GuestsOf(vms), tag)
      PROVE  TellsBudgets(tag, vms)
  <2>1. SUFFICES ASSUME NEW k \in 1..Len(vms), NEW b \in 1..Len(choice),
                        HasPlace(vms[k]), vms[k].guest.group = tag.guests[b]
                 PROVE  vms[k].budget = tag.values[b]
    <3> HIDE DEF tag
    <3> QED  BY <1>1, <1>2 DEF TellsBudgets
  <2>2. vms[k].guest.group = choice[b].guest
    BY <1>1, <2>1
  <2>3. BudgetAt(vms, k, choice) = choice[b].budget
    BY <1>3, <2>1, <2>2, BudgetTold
  <2> QED  BY <1>1, <2>3 DEF BudgetsAs
<1>4. tag.kind # "cc"
  BY <1>1
<1> HIDE DEF tag
<1> QED
  BY <1>3, <1>4 DEF True, tag

LEMMA AppendTrue ==
  ASSUME NEW tags \in Seq(Tags), NEW tag \in Tags, NEW vms,
         \A t \in DOMAIN tags : True(tags[t], vms), True(tag, vms)
  PROVE  \A t \in DOMAIN Append(tags, tag) : True(Append(tags, tag)[t], vms)
<1> DEFINE a == Append(tags, tag)
           n == Len(tags)
<1>1. n \in Nat /\ DOMAIN tags = 1..n
  OBVIOUS
<1>2. Len(a) = n + 1 /\ DOMAIN a = 1..(n + 1) /\ a[n + 1] = tag
      /\ \A t \in 1..n : a[t] = tags[t]
  OBVIOUS
<1> HIDE DEF a, n
<1>3. \A t \in 1..(n + 1) : t = n + 1 \/ t \in 1..n
  BY <1>1
<1>4. \A t \in 1..(n + 1) : True(a[t], vms)
  BY <1>1, <1>2, <1>3
<1> QED
  BY <1>2, <1>4 DEF a

(* What tests of the first setup are called is what they are.              *)
LEMMA AllTold ==
  ASSUME NEW s \in Setups, Dictionaries(s.budgets), NEW c, New(s, c), FullyNamed(c),
         NEW x, Tint(s, c, x), NEW y, Limit(s, x, y)
  PROVE  Tells(y.name, y.vms)
<1>1. c \in Configs /\ OneOfEachGroup(c.vms)
  BY NewFacts
<1>2. /\ x \in Configs /\ SameGuests(c, x)
      /\ \/ x.name = c.name
         \/ \E colours \in Seq(SUBSET Colours) :
              /\ x.name.tags = Append(c.name.tags, CcTag(colours))
              /\ ColoursAs(x.vms, colours)
  BY <1>1, TintFacts
<1>3. /\ y \in Configs /\ SameGuests(x, y)
      /\ \A k \in 1..Len(x.vms) : y.vms[k].colours = x.vms[k].colours
      /\ \/ y.name = x.name
         \/ \E choice \in Seq(Budgets) :
              /\ OncePerGuest(choice)
              /\ y.name.tags = Append(x.name.tags, MbrTag(choice))
              /\ BudgetsAs(y.vms, choice)
  BY <1>2, LimitFacts
<1>4. /\ GuestsOf(x.vms) = GuestsOf(c.vms) /\ GuestsOf(y.vms) = GuestsOf(x.vms)
      /\ OneOfEachGroup(y.vms)
      /\ \A k \in 1..Len(x.vms) : HasPlace(y.vms[k]) <=> HasPlace(x.vms[k])
  BY <1>1, <1>2, <1>3, SameGuestsFacts
<1>5. c.name.guests = GuestsOf(c.vms) /\ c.name.tags = << >>
  BY DEF FullyNamed
<1>6. y.name.guests = GuestsOf(y.vms)
  BY <1>2, <1>3, <1>4, <1>5 DEF SameGuests
<1>7. y.vms \in Seq(VMs) /\ x.name.tags \in Seq(Tags)
  BY <1>2, <1>3, ConfigParts
<1>8. \A t \in DOMAIN x.name.tags : True(x.name.tags[t], y.vms)
  <2>1. CASE x.name = c.name
    BY <1>5, <2>1
  <2>2. ASSUME NEW colours \in Seq(SUBSET Colours),
               x.name.tags = Append(c.name.tags, CcTag(colours)),
               ColoursAs(x.vms, colours)
        PROVE  \A t \in DOMAIN x.name.tags : True(x.name.tags[t], y.vms)
    <3>1. ColoursAs(y.vms, colours)
      BY <1>3, <1>4, <2>2 DEF ColoursAs, SameGuests
    <3>2. True(CcTag(colours), y.vms)
      BY <1>7, <3>1, ColoursTrue
    <3>3. CcTag(colours) \in Tags
      BY CcTagFacts
    <3>4. x.name.tags = << CcTag(colours) >>
      BY <1>5, <2>2, <3>3
    <3> DEFINE tag == CcTag(colours)
    <3> HIDE DEF tag
    <3>5. \A t \in DOMAIN << tag >> : << tag >>[t] = tag
      OBVIOUS
    <3> QED  BY <3>2, <3>4, <3>5 DEF tag
  <2> QED  BY <1>2, <2>1, <2>2
<1>9. \A t \in DOMAIN y.name.tags : True(y.name.tags[t], y.vms)
  <2>1. CASE y.name = x.name
    BY <1>8, <2>1
  <2>2. ASSUME NEW choice \in Seq(Budgets), OncePerGuest(choice),
               y.name.tags = Append(x.name.tags, MbrTag(choice)),
               BudgetsAs(y.vms, choice)
        PROVE  \A t \in DOMAIN y.name.tags : True(y.name.tags[t], y.vms)
    <3>1. True(MbrTag(choice), y.vms)
      BY <1>4, <1>7, <2>2, BudgetsTrue
    <3>2. MbrTag(choice) \in Tags
      BY MbrTagFacts
    <3> DEFINE tags == x.name.tags
               tag == MbrTag(choice)
               vms == y.vms
    <3>3. tags \in Seq(Tags) /\ tag \in Tags /\ True(tag, vms)
          /\ \A t \in DOMAIN tags : True(tags[t], vms)
      BY <1>7, <1>8, <3>1, <3>2
    <3> HIDE DEF tags, tag, vms
    <3>4. \A t \in DOMAIN Append(tags, tag) : True(Append(tags, tag)[t], vms)
      BY <3>3, AppendTrue
    <3> QED  BY <2>2, <3>4 DEF tags, tag, vms
  <2> QED  BY <1>3, <2>1, <2>2
<1>10. y.name.guests = [k \in DOMAIN y.vms |-> y.vms[k].guest]
  BY <1>6 DEF GuestsOf
<1> QED
  BY <1>6, <1>9, <1>10 DEF Tells, True

-----------------------------------------------------------------------------
(* Shares of the colours.                                                  *)

(* The cache is split among enough: every guest that has a place for       *)
(* colours is at a place for which there are some.                         *)
LEMMA EnoughShares ==
  ASSUME NEW s \in Setups,
         HasProfiler => "profiler" \in s.guests,
         "profiler" \in s.guests => HasProfiler,
         NEW k \in 1..Len(Present(s)), Present(s)[k] # "profiler"
  PROVE  k <= NumVms(s)
<1> DEFINE P == PlacesOf(s)
           q == Place(P, k)
           B == {j \in P : j < q}
           T == B \cup {q}
           O == s.guests \ {"profiler"}
           f == [j \in T |-> GroupOrder[j]]
<1>1. P \in SUBSET (1..5) /\ \A j \in P : GroupOrder[j] \in s.guests
  BY GroupOrderFacts DEF PlacesOf
<1>2. IsFiniteSet(P) /\ P \in SUBSET Int
  <2>1. IsFiniteSet(1..5)
    BY UpToFinite
  <2> HIDE DEF P
  <2>2. IsFiniteSet(P)
    BY <1>1, <2>1, FS_Subset
  <2> QED  BY <1>1, <2>2
<1>3. k \in 1..Cardinality(P) /\ q \in P /\ Present(s)[k] = GroupOrder[q]
  BY PresentFacts
<1>4. Cardinality(B) = k - 1
  <2> HIDE DEF P
  <2> QED  BY <1>2, <1>3, PlaceFacts
<1> HIDE DEF P, q
<1>5. q \in 1..4
  BY <1>1, <1>3, GroupOrderFacts
<1>6. IsFiniteSet(T) /\ Cardinality(T) = k
  <2>1. ~ (q \in B)
    BY <1>5
  <2>2. B \in SUBSET P
    OBVIOUS
  <2> HIDE DEF B
  <2>3. IsFiniteSet(B)
    BY <1>2, <2>2, FS_Subset
  <2>4. Cardinality(T) = Cardinality(B) + 1 /\ IsFiniteSet(T)
    BY <2>1, <2>3, FS_AddElement
  <2> QED  BY <1>3, <1>4, <2>4
<1>7. \A j \in T : j \in 1..4 /\ GroupOrder[j] \in O
  <2>1. \A j \in T : j \in P /\ j \in 1..4
    BY <1>1, <1>3, <1>5
  <2>2. \A j \in 1..4 : GroupOrder[j] # "profiler"
    BY GroupOrderFacts
  <2> QED  BY <1>1, <2>1, <2>2
<1>8. f \in [T -> O]
  BY <1>7
<1>9. \A i, j \in T : f[i] = f[j] => i = j
  BY <1>7, GroupOrderFacts
<1>10. /\ IsFiniteSet(s.guests)
       /\ Cardinality(s.guests) \in Nat /\ Cardinality(s.guests) > 0
  BY NumVmsFacts
<1>11. /\ IsFiniteSet(O) /\ Cardinality(O) \in Nat
       /\ Cardinality(O) = IF "profiler" \in s.guests THEN Cardinality(s.guests) - 1
                           ELSE Cardinality(s.guests)
  BY <1>10, FS_RemoveElement, FS_CardinalityType
<1>12. Cardinality(T) <= Cardinality(O)
  <2>1. k \in Nat
    BY <1>2, <1>3, FS_CardinalityType
  <2> HIDE DEF T, O, f
  <2>2. ~ (Cardinality(O) < Cardinality(T))
    BY <1>6, <1>8, <1>9, <1>11, FS_PigeonHole
  <2> QED  BY <1>6, <1>11, <2>1, <2>2
<1>13. NumVms(s) >= Cardinality(O)
  <2> HIDE DEF O
  <2>1. CASE HasProfiler
    <3>1. Cardinality(O) = Cardinality(s.guests) - 1
      BY <1>11, <2>1
    <3> DEFINE c == Cardinality(s.guests)
    <3>2. NumVms(s) = (IF c = 1 THEN 2 ELSE c) - 1
      BY <2>1 DEF NumVms
    <3> HIDE DEF c
    <3>3. c \in Nat /\ Cardinality(O) = c - 1
      BY <1>10, <3>1 DEF c
    <3> QED  BY <3>2, <3>3
  <2>2. CASE ~ HasProfiler
    <3>1. Cardinality(O) = Cardinality(s.guests)
      BY <1>11, <2>2
    <3> DEFINE c == Cardinality(s.guests)
    <3>2. NumVms(s) = (IF c = 1 THEN 2 ELSE c) - 0
      BY <2>2 DEF NumVms
    <3> HIDE DEF c
    <3>3. c \in Nat /\ Cardinality(O) = c
      BY <1>10, <3>1 DEF c
    <3> QED  BY <3>2, <3>3
  <2> QED  BY <2>1, <2>2
<1>14. NumVms(s) \in Nat /\ k \in Int
  BY NumVmsFacts, <1>2, <1>3, FS_CardinalityType
<1> HIDE DEF T, O
<1> QED
  BY <1>6, <1>11, <1>12, <1>13, <1>14

(* The share of a guest in a generated colouring.                          *)
SharedOut(w, n, c, x) ==
  /\ Len(w) = n
  /\ \A k \in 1..n : Cardinality(w[k]) >= 2
  /\ \A j, k \in 1..n : j # k => w[j] \cap w[k] = {}
  /\ \A k \in 1..Len(c.vms) :
       /\ x.vms[k].colours = IF HasPlace(c.vms[k]) /\ k <= n
                             THEN w[k] ELSE c.vms[k].colours
       /\ x.vms[k].open = IF HasPlace(c.vms[k]) /\ k > n
                          THEN TRUE ELSE c.vms[k].open

LEMMA GeneratedShare ==
  ASSUME NEW s \in Setups, s.colouring, s.listed = << >>,
         2 * NumVms(s) <= NumColours,
         NEW c \in Configs, NEW x, Tint(s, c, x)
  PROVE  /\ x \in Configs /\ SameGuests(c, x)
         /\ \E w \in Seq(SUBSET Colours) : SharedOut(w, NumVms(s), c, x)
<1> DEFINE n == NumVms(s)
           A == Assignments(n)
<1>1. Colourings(s) = A
  BY DEF Colourings
<1>2. n \in Nat /\ n > 0 /\ 2 * n <= NumColours
  BY NumVmsFacts
<1> HIDE DEF n
<1>3. /\ DOMAIN A = 1..Cardinality(Wide(n))
      /\ \A k \in 1..Cardinality(Wide(n)) : \E p \in Wide(n) : A[k] = SharesOf(p, n)
      /\ \A p \in Wide(n) : \E k \in 1..Cardinality(Wide(n)) : A[k] = SharesOf(p, n)
  BY <1>2, AssignmentsFacts
<1>4. Wide(n) # {}
  BY <1>2, WideNotEmpty
<1>5. A # << >>
  <2>1. DOMAIN A # {}
    BY <1>3, <1>4
  <2> HIDE DEF A
  <2> QED  BY <2>1
<1> HIDE DEF A
<1>6. PICK i \in DOMAIN A : x = Coloured(c, A[i])
  BY <1>1, <1>5 DEF Tint
<1>7. PICK p \in Wide(n) : A[i] = SharesOf(p, n)
  BY <1>3, <1>6
<1> DEFINE w == SharesOf(p, n)
<1>8. /\ w \in Seq(SUBSET Colours) /\ Len(w) = n
      /\ \A k \in 1..n : Cardinality(w[k]) >= 2
      /\ \A j, k \in 1..n : j # k => w[j] \cap w[k] = {}
  BY <1>2, SharesFacts
<1> HIDE DEF w
<1>9. x = Coloured(c, w)
  BY <1>6, <1>7 DEF w
<1>10. /\ x \in Configs
       /\ x.name.guests = c.name.guests
       /\ Len(x.vms) = Len(c.vms)
       /\ \A k \in 1..Len(c.vms) :
            /\ x.vms[k].guest = c.vms[k].guest
            /\ x.vms[k].colours = IF HasPlace(c.vms[k]) /\ k <= Len(w)
                                  THEN w[k] ELSE c.vms[k].colours
            /\ x.vms[k].open = IF HasPlace(c.vms[k]) /\ k > Len(w)
                               THEN TRUE ELSE c.vms[k].open
  BY <1>8, <1>9, ColouredFacts
<1>11. SameGuests(c, x)
  BY <1>10 DEF SameGuests
<1>12. \A k \in 1..Len(c.vms) :
         /\ x.vms[k].colours = IF HasPlace(c.vms[k]) /\ k <= n
                               THEN w[k] ELSE c.vms[k].colours
         /\ x.vms[k].open = IF HasPlace(c.vms[k]) /\ k > n
                            THEN TRUE ELSE c.vms[k].open
  BY <1>8, <1>10
<1>13. SharedOut(w, n, c, x)
  BY <1>8, <1>12 DEF SharedOut
<1> QED
  BY <1>8, <1>10, <1>11, <1>13 DEF n

(* Every guest of a configuration has a share of its own.                  *)
OwnColours(vms) ==
  \A k \in DOMAIN vms : HasPlace(vms[k]) =>
    /\ ~ vms[k].open
    /\ Cardinality(vms[k].colours) >= 2
    /\ \A j \in DOMAIN vms : j # k => vms[j].colours \cap vms[k].colours = {}

(* With at least two colours for every guest, a generated colouring gives  *)
(* every guest with a place a share of its own.                            *)
LEMMA AllShared ==
  ASSUME NEW s \in Setups, Dictionaries(s.budgets),
         s.colouring, s.listed = << >>,
         HasProfiler => "profiler" \in s.guests,
         "profiler" \in s.guests => HasProfiler,
         2 * NumVms(s) <= NumColours,
         NEW c, New(s, c), NEW x, Tint(s, c, x), NEW y, Limit(s, x, y)
  PROVE  OwnColours(y.vms)
<1> DEFINE n == NumVms(s)
           m == Len(c.vms)
<1>15. /\ c \in Configs /\ Len(c.vms) = Len(Present(s))
       /\ \A k \in 1..Len(Present(s)) : /\ c.vms[k].guest.group = Present(s)[k]
                                        /\ c.vms[k].colours = {}
                                        /\ c.vms[k].open = FALSE
  BY NewFacts
<1>1. /\ c \in Configs /\ m = Len(Present(s))
      /\ \A k \in 1..m : /\ c.vms[k].guest.group = Present(s)[k]
                         /\ c.vms[k].colours = {}
                         /\ c.vms[k].open = FALSE
  BY <1>15
<1> HIDE DEF m
<1>2. n \in Nat
  BY NumVmsFacts
<1>3. \A k \in 1..m : HasPlace(c.vms[k]) => k <= n
  BY <1>1, EnoughShares DEF HasPlace
<1>4. PICK w \in Seq(SUBSET Colours) : SharedOut(w, n, c, x)
  BY <1>1, GeneratedShare
<1>14. /\ \A k \in 1..n : Cardinality(w[k]) >= 2
       /\ \A j, k \in 1..n : j # k => w[j] \cap w[k] = {}
       /\ \A k \in 1..m :
            /\ x.vms[k].colours = IF HasPlace(c.vms[k]) /\ k <= n
                                  THEN w[k] ELSE c.vms[k].colours
            /\ x.vms[k].open = IF HasPlace(c.vms[k]) /\ k > n
                               THEN TRUE ELSE c.vms[k].open
  BY <1>4 DEF SharedOut, m
<1>5. x \in Configs /\ SameGuests(c, x)
  BY <1>1, TintFacts
<1>6. /\ y \in Configs /\ SameGuests(x, y)
      /\ \A k \in 1..Len(x.vms) : /\ y.vms[k].colours = x.vms[k].colours
                                  /\ y.vms[k].open = x.vms[k].open
  BY <1>5, LimitFacts
<1>7. DOMAIN y.vms = 1..m
  BY <1>5, <1>6, ConfigParts DEF SameGuests, m
<1>8. Len(x.vms) = m /\ m \in Nat
  BY <1>1, <1>5, ConfigParts DEF SameGuests, m
<1>9. \A k \in 1..m : HasPlace(y.vms[k]) <=> HasPlace(c.vms[k])
  BY <1>1, <1>5, <1>6, <1>8, SameGuestsFacts DEF m
<1> HIDE DEF n, m
<1>10. \A k \in 1..m :
         /\ HasPlace(y.vms[k]) => y.vms[k].colours = w[k] /\ k \in 1..n
         /\ ~ HasPlace(y.vms[k]) => y.vms[k].colours = {}
         /\ HasPlace(y.vms[k]) => y.vms[k].open = FALSE
  <2> TAKE k \in 1..m
  <2>1. k \in Int /\ k >= 1
    BY <1>8
  <2>2. y.vms[k].colours = x.vms[k].colours /\ y.vms[k].open = x.vms[k].open
    BY <1>6, <1>8
  <2>3. c.vms[k].colours = {} /\ c.vms[k].open = FALSE
    BY <1>1 DEF m
  <2>4. /\ x.vms[k].colours = IF HasPlace(c.vms[k]) /\ k <= n
                              THEN w[k] ELSE c.vms[k].colours
        /\ x.vms[k].open = IF HasPlace(c.vms[k]) /\ k > n
                           THEN TRUE ELSE c.vms[k].open
    BY <1>14
  <2>5. HasPlace(c.vms[k]) => k <= n
    BY <1>3
  <2>6. HasPlace(y.vms[k]) <=> HasPlace(c.vms[k])
    BY <1>9
  <2>7. CASE HasPlace(c.vms[k])
    <3>1. k <= n /\ ~ (k > n)
      BY <1>2, <2>1, <2>5, <2>7
    <3>2. x.vms[k].colours = w[k] /\ x.vms[k].open = FALSE
      BY <2>3, <2>4, <2>7, <3>1
    <3>3. k \in 1..n
      BY <1>2, <2>1, <3>1
    <3> QED  BY <2>2, <2>6, <2>7, <3>2, <3>3
  <2>8. CASE ~ HasPlace(c.vms[k])
    <3>1. x.vms[k].colours = {}
      BY <2>3, <2>4, <2>8
    <3> QED  BY <2>2, <2>6, <2>8, <3>1
  <2> QED  BY <2>7, <2>8
<1>11. SUFFICES ASSUME NEW k \in 1..m, HasPlace(y.vms[k])
                PROVE  /\ ~ y.vms[k].open
                       /\ Cardinality(y.vms[k].colours) >= 2
                       /\ \A j \in 1..m : j # k =>
                            y.vms[j].colours \cap y.vms[k].colours = {}
  BY <1>7 DEF OwnColours
<1>12. k \in 1..n /\ y.vms[k].colours = w[k] /\ y.vms[k].open = FALSE
  BY <1>10, <1>11
<1>13. \A j \in 1..m : j # k => y.vms[j].colours \cap y.vms[k].colours = {}
  <2> TAKE j \in 1..m
  <2> HAVE j # k
  <2>1. CASE HasPlace(y.vms[j])
    <3>1. j \in 1..n /\ y.vms[j].colours = w[j]
      BY <1>10, <2>1
    <3> QED  BY <1>14, <1>12, <3>1
  <2>2. CASE ~ HasPlace(y.vms[j])
    <3>1. y.vms[j].colours = {}
      BY <1>10, <2>2
    <3> QED  BY <3>1
  <2> QED  BY <2>1, <2>2
<1> QED
  BY <1>14, <1>12, <1>13

-----------------------------------------------------------------------------
(* The invariant.                                                          *)

(* The types of the variables.                                             *)
Typed ==
  /\ campaign \in Campaigns
  /\ setup \in DOMAIN campaign
  /\ pc \in {"generate", "build", "list", "test"}
  /\ listConfigs \in Seq(Names)
  /\ \A key \in DOMAIN files : key \in (1..setup) \X Names /\ files[key] \in Seq(VMs)
  /\ DOMAIN images \subseteq {key[2] : key \in DOMAIN files}
  /\ plan \in Seq(Names)
  /\ test \in 0..Len(plan)
  /\ copied \in BOOLEAN
  /\ Len(tftp) <= 1
  /\ pc # "test" => test = 0 /\ tftp = << >>

(* Where the names go: what is in the directory of the first setup, and    *)
(* hence what is built, is what its name tells, and so is what is tested.  *)
Truthful ==
  /\ pc = "generate" /\ setup = 1 => listConfigs = << >>
  /\ \A key \in DOMAIN files : key[1] = 1 => Tells(key[2], files[key])
  /\ \A n \in DOMAIN images : Tells(n, images[n])
  /\ test > 0 /\ copied => Tells(plan[test], tftp[1])
  /\ tftp # << >> => \E k \in 1..test : Tells(plan[k], tftp[1])

(* What is known of the setups of a campaign.                              *)
LEMMA CampaignFacts ==
  ASSUME campaign \in Campaigns, NEW i \in DOMAIN campaign
  PROVE  /\ campaign[i] \in Setups /\ Dictionaries(campaign[i].budgets)
         /\ DOMAIN campaign = 1..Len(campaign) /\ Len(campaign) \in Nat
         /\ 1 \in DOMAIN campaign
         /\ "profiler" \in campaign[i].guests => HasProfiler
<1>1. /\ campaign # << >> /\ campaign \in Seq(Setups)
      /\ \A j \in DOMAIN campaign : Dictionaries(campaign[j].budgets)
  BY ConstantsAssumption
<1>2. DOMAIN campaign = 1..Len(campaign) /\ Len(campaign) \in Nat
  BY <1>1
<1>3. campaign[i] \in Setups
  BY <1>1, <1>2
<1>4. Len(campaign) > 0
  BY <1>1
<1> QED
  BY <1>1, <1>2, <1>3, <1>4 DEF HasProfiler

(* Where a configuration of a setup comes from.                            *)
ComesFrom(s, y) ==
  \E c \in Configs, x \in Configs :
    /\ New(s, c) /\ Tint(s, c, x) /\ Limit(s, x, y)
    /\ listConfigs = << >> => FullyNamed(c)

(* Every configuration a setup generates comes from one of its own, tinted *)
(* and limited.                                                            *)
LEMMA GeneratedFacts ==
  ASSUME NEW s \in Setups, Dictionaries(s.budgets), listConfigs \in Seq(Names)
  PROVE  /\ Mitigated(s) \in Seq(Configs)
         /\ \A i \in DOMAIN Mitigated(s) : ComesFrom(s, Mitigated(s)[i])
<1>1. Mitigated(s) \in Seq(Configs)
  BY MitigatedFacts
<1>2. ASSUME NEW i \in DOMAIN Mitigated(s)
      PROVE  ComesFrom(s, Mitigated(s)[i])
  <2>1. PICK a \in DOMAIN Named(s) : \E x \in Configs :
          Tint(s, Named(s)[a], x) /\ Limit(s, x, Mitigated(s)[i])
    BY <1>2, MitigatedFacts
  <2>2. PICK x \in Configs :
          Tint(s, Named(s)[a], x) /\ Limit(s, x, Mitigated(s)[i])
    BY <2>1
  <2> DEFINE c == Named(s)[a]
  <2>3. New(s, c) /\ (listConfigs = << >> => FullyNamed(c))
    <3>1. New(s, c)
      BY <2>1, NamedFacts
    <3>2. listConfigs = << >> => FullyNamed(c)
      BY <2>1, NamedFacts
    <3> QED  BY <3>1, <3>2
  <2>4. c \in Configs
    BY <2>3 DEF New
  <2>5. Tint(s, c, x) /\ Limit(s, x, Mitigated(s)[i])
    BY <2>2
  <2> HIDE DEF c
  <2> QED  BY <2>2, <2>3, <2>4, <2>5 DEF ComesFrom
<1> QED
  BY <1>1, <1>2

(* What dump_configs writes: every generated name, with a configuration of *)
(* that name.                                                              *)
LEMMA WrittenFacts ==
  ASSUME NEW configs \in Seq(Configs)
  PROVE  /\ \A key \in DOMAIN Written(configs) :
              /\ key = << setup, key[2] >> /\ key[2] \in Names
              /\ \E i \in DOMAIN configs : /\ configs[i].name = key[2]
                                           /\ Written(configs)[key] = configs[i].vms
         /\ \A i \in DOMAIN configs : << setup, configs[i].name >> \in DOMAIN Written(configs)
<1> DEFINE W == Written(configs)
           n == Len(configs)
           S(name) == {i \in 1..n : configs[i].name = name}
<1>1. DOMAIN configs = 1..n /\ n \in Nat /\ \A i \in 1..n : configs[i] \in Configs
  BY Elements
<1>2. DOMAIN W = {<< setup, configs[i].name >> : i \in DOMAIN configs}
  BY DEF Written
<1>3. ASSUME NEW key \in DOMAIN W
      PROVE  /\ key = << setup, key[2] >> /\ key[2] \in Names
             /\ \E i \in DOMAIN configs : configs[i].name = key[2] /\ W[key] = configs[i].vms
  <2>1. PICK i \in 1..n : key = << setup, configs[i].name >>
    BY <1>1, <1>2, <1>3
  <2> DEFINE name == key[2]
  <2>2. name = configs[i].name /\ name \in Names
    BY <1>1, <2>1, ConfigParts
  <2> DEFINE j == CHOOSE j \in 1..n : configs[j].name = name
                                      /\ \A k \in 1..n : configs[k].name = name => k <= j
  <2>3. W[key] = configs[j].vms
    BY <1>1, <1>2 DEF Written
  <2>4. \E k \in 1..n : configs[k].name = name
                        /\ \A m \in 1..n : configs[m].name = name => m <= k
    <3>1. S(name) # {} /\ S(name) \in SUBSET (1..n)
      BY <2>2
    <3>2. \E k \in S(name) : \A m \in S(name) : m <= k
      <4> DEFINE T == S(name)
      <4>1. T # {} /\ T \in SUBSET (1..n)
        BY <3>1
      <4> HIDE DEF T
      <4>2. \E k \in T : \A m \in T : m <= k
        BY <1>1, <4>1, Greatest
      <4> QED  BY <4>2 DEF T
    <3> QED  BY <3>2
  <2>5. j \in 1..n /\ configs[j].name = name
    BY <2>4
  <2> HIDE DEF j
  <2> QED  BY <1>1, <2>1, <2>2, <2>3, <2>5
<1> QED
  BY <1>2, <1>3

-----------------------------------------------------------------------------
(* What main() generates for the setup it is at.                           *)
LEMMA GenerateStep ==
  ASSUME Typed, GenerateTests
  PROVE  /\ listConfigs' \in Seq(Names)
         /\ \A key \in DOMAIN files' :
              \/ /\ key \in {setup} \X Names
                 /\ \E y \in Configs :
                      /\ ComesFrom(campaign[setup], y)
                      /\ y.name = key[2] /\ y.vms = files'[key]
              \/ key \in DOMAIN files /\ files'[key] = files[key]
         /\ DOMAIN files \subseteq DOMAIN files'
<1> DEFINE s == campaign[setup]
           M == Mitigated(s)
           W == Written(M)
           l == [i \in DOMAIN M |-> M[i].name]
<1>1. s \in Setups /\ Dictionaries(s.budgets) /\ listConfigs \in Seq(Names)
  BY CampaignFacts DEF Typed
<1>2. listConfigs' = << >> \o l /\ files' = Over(W, files)
  BY DEF GenerateTests, NoNames
<1> HIDE DEF s
<1>3. M \in Seq(Configs) /\ \A i \in DOMAIN M : ComesFrom(s, M[i])
  BY <1>1, GeneratedFacts
<1> HIDE DEF M
<1>4. l \in Seq(Names)
  <2>1. DOMAIN M = 1..Len(M) /\ Len(M) \in Nat /\ \A i \in 1..Len(M) : M[i] \in Configs
    BY <1>3, Elements
  <2>2. \A i \in 1..Len(M) : M[i].name \in Names
    BY <2>1, ConfigParts
  <2>3. l \in [1..Len(M) -> Names]
    BY <2>1, <2>2
  <2> HIDE DEF l
  <2> QED  BY <2>1, <2>3, MapIsSeq
<1>5. /\ \A key \in DOMAIN W :
           /\ key = << setup, key[2] >> /\ key[2] \in Names
           /\ \E i \in DOMAIN M : M[i].name = key[2] /\ W[key] = M[i].vms
  BY <1>3, WrittenFacts
<1> HIDE DEF W
<1>6. /\ DOMAIN files' = DOMAIN W \cup DOMAIN files
      /\ \A key \in DOMAIN W : files'[key] = W[key]
      /\ \A key \in DOMAIN files : ~ (key \in DOMAIN W) => files'[key] = files[key]
  BY <1>2 DEF Over
<1>7. \A key \in DOMAIN W :
        /\ key \in {setup} \X Names
        /\ \E y \in Configs : ComesFrom(s, y) /\ y.name = key[2] /\ y.vms = files'[key]
  <2> TAKE key \in DOMAIN W
  <2>1. PICK i \in DOMAIN M : M[i].name = key[2] /\ W[key] = M[i].vms
    BY <1>5
  <2>2. M[i] \in Configs
    BY <1>3, <2>1, Elements
  <2>3. key \in {setup} \X Names
    BY <1>5
  <2> QED  BY <1>3, <1>6, <2>1, <2>2, <2>3
<1>8. listConfigs' \in Seq(Names)
  <2> HIDE DEF l
  <2> QED  BY <1>2, <1>4
<1> QED
  BY <1>6, <1>7, <1>8 DEF s

(* An image is kept or is built from what the directory of the first setup *)
(* holds.                                                                  *)
LEMMA BuildStep ==
  ASSUME BuildTests
  PROVE  /\ DOMAIN images \subseteq DOMAIN images'
         /\ \A n \in DOMAIN images' :
              \/ << 1, n >> \in DOMAIN files /\ images'[n] = files[<< 1, n >>]
              \/ n \in DOMAIN images /\ images'[n] = images[n]
<1>1. PICK failed \in {{}} \cup {{n} : n \in Range(listConfigs)} :
        LET built == {n \in Range(listConfigs) \ failed :
                        << FirstSetup, n >> \in DOMAIN files}
        IN  images' = Over([n \in built |-> files[<< FirstSetup, n >>]], images)
  BY DEF BuildTests
<1> DEFINE built == {n \in Range(listConfigs) \ failed :
                        << FirstSetup, n >> \in DOMAIN files}
           new == [n \in built |-> files[<< FirstSetup, n >>]]
<1>2. images' = Over(new, images)
  BY <1>1
<1>3. \A n \in DOMAIN new : << 1, n >> \in DOMAIN files /\ new[n] = files[<< 1, n >>]
  BY DEF FirstSetup
<1> HIDE DEF new
<1>4. /\ DOMAIN images' = DOMAIN new \cup DOMAIN images
      /\ \A n \in DOMAIN new : images'[n] = new[n]
      /\ \A n \in DOMAIN images : ~ (n \in DOMAIN new) => images'[n] = images[n]
  BY <1>2 DEF Over
<1> QED
  BY <1>3, <1>4

LEMMA ListStep ==
  ASSUME Typed, ListImages
  PROVE  plan' \in Seq(Names)
<1> DEFINE n == Len(campaign)
           rows == [i \in DOMAIN campaign |-> listConfigs]
<1>1. DOMAIN campaign = 1..n /\ n \in Nat /\ listConfigs \in Seq(Names)
  BY CampaignFacts DEF Typed
<1>2. plan' = FlattenSeq(rows)
  BY DEF ListImages
<1>3. rows \in [1..n -> Seq(Names)]
  BY <1>1
<1> HIDE DEF rows, n
<1>4. rows \in Seq(Seq(Names))
  <2> DEFINE T == Seq(Names)
  <2> HIDE DEF T
  <2>1. rows \in [1..n -> T]
    BY <1>3 DEF T
  <2>2. rows \in Seq(T)
    BY <1>1, <2>1, MapIsSeq
  <2> QED  BY <2>2 DEF T
<1>5. AllRows(Names, FlattenSeq(rows), rows, Len(rows))
  BY <1>4, FlattenFacts
<1> QED
  BY <1>2, <1>5 DEF AllRows

-----------------------------------------------------------------------------
(* Every step keeps the types.                                             *)
LEMMA TypedInit == Init => Typed
<1> SUFFICES ASSUME Init
             PROVE  Typed
  OBVIOUS
<1>1. campaign \in Campaigns /\ setup = 1 /\ pc = "generate"
      /\ listConfigs = << >> /\ files = << >> /\ images = << >> /\ plan = << >>
      /\ test = 0 /\ copied = FALSE /\ tftp = << >>
  BY DEF Init
<1>2. setup \in DOMAIN campaign
  <2>1. campaign # << >> /\ campaign \in Seq(Setups)
    BY <1>1, ConstantsAssumption
  <2>2. DOMAIN campaign = 1..Len(campaign) /\ Len(campaign) \in Nat /\ Len(campaign) > 0
    BY <2>1
  <2> QED  BY <1>1, <2>2
<1>3. DOMAIN files = {} /\ DOMAIN images = {} /\ Len(plan) = 0 /\ Len(tftp) = 0
  <2> DEFINE e == << >>
  <2>1. DOMAIN e = {} /\ Len(e) = 0
    OBVIOUS
  <2> HIDE DEF e
  <2>2. files = e /\ images = e /\ plan = e /\ tftp = e
    BY <1>1 DEF e
  <2> QED  BY <2>1, <2>2
<1>4. listConfigs \in Seq(Names) /\ plan \in Seq(Names)
  BY <1>1
<1>5. /\ \A key \in DOMAIN files : key \in (1..setup) \X Names /\ files[key] \in Seq(VMs)
      /\ DOMAIN images \subseteq {key[2] : key \in DOMAIN files}
  BY <1>3
<1>6. test \in 0..Len(plan) /\ copied \in BOOLEAN /\ Len(tftp) <= 1
  <2>1. copied \in BOOLEAN
    BY <1>1
  <2>2. test = 0
    BY <1>1
  <2>3. test \in 0..Len(plan) /\ Len(tftp) <= 1
    BY <1>3, <2>2
  <2> QED  BY <2>1, <2>3
<1>7. /\ campaign \in Campaigns /\ pc = "generate" /\ test = 0 /\ tftp = << >>
  BY <1>1
<1>8. pc \in {"generate", "build", "list", "test"}
      /\ (pc # "test" => test = 0 /\ tftp = << >>)
  BY <1>7
<1> QED
  BY <1>2, <1>4, <1>5, <1>6, <1>7, <1>8 DEF Typed

(* Every step keeps the types.                                             *)
LEMMA TypedStep == Typed /\ [Next]_vars => Typed'
<1> SUFFICES ASSUME Typed, [Next]_vars
             PROVE  Typed'
  OBVIOUS
<1>1. /\ campaign \in Campaigns /\ setup \in DOMAIN campaign
      /\ listConfigs \in Seq(Names)
      /\ \A key \in DOMAIN files : key \in (1..setup) \X Names /\ files[key] \in Seq(VMs)
      /\ DOMAIN images \subseteq {key[2] : key \in DOMAIN files}
      /\ plan \in Seq(Names) /\ test \in 0..Len(plan) /\ copied \in BOOLEAN
      /\ Len(tftp) <= 1
      /\ pc # "test" => test = 0 /\ tftp = << >>
      /\ pc \in {"generate", "build", "list", "test"}
  BY DEF Typed
<1>2. DOMAIN campaign = 1..Len(campaign) /\ Len(campaign) \in Nat
  BY <1>1, CampaignFacts
<1>3. ASSUME GenerateTests
      PROVE  Typed'
  <2>1. /\ UNCHANGED << campaign, setup, images, plan, test, copied, tftp >>
        /\ pc = "generate" /\ pc' = "build"
    BY <1>3 DEF GenerateTests
  <2>2. /\ listConfigs' \in Seq(Names)
        /\ \A key \in DOMAIN files' :
             \/ /\ key \in {setup} \X Names
                /\ \E y \in Configs : y.vms = files'[key]
             \/ key \in DOMAIN files /\ files'[key] = files[key]
        /\ DOMAIN files \subseteq DOMAIN files'
    BY <1>3, GenerateStep
  <2>3. \A key \in DOMAIN files' : key \in (1..setup) \X Names /\ files'[key] \in Seq(VMs)
    <3> TAKE key \in DOMAIN files'
    <3>1. CASE /\ key \in {setup} \X Names
               /\ \E y \in Configs : y.vms = files'[key]
      <4>1. setup \in 1..setup
        BY <1>1, <1>2
      <4>2. files'[key] \in Seq(VMs)
        BY <3>1, ConfigParts
      <4> QED  BY <3>1, <4>1, <4>2
    <3>2. CASE key \in DOMAIN files /\ files'[key] = files[key]
      BY <1>1, <3>2
    <3> QED  BY <2>2, <3>1, <3>2
  <2>4. DOMAIN images \subseteq {key[2] : key \in DOMAIN files'}
    BY <1>1, <2>2
  <2> QED  BY <1>1, <2>1, <2>2, <2>3, <2>4 DEF Typed
<1>4. ASSUME BuildTests
      PROVE  Typed'
  <2>1. UNCHANGED << campaign, listConfigs, files, plan, test, copied, tftp >> /\ pc = "build"
    BY <1>4 DEF BuildTests
  <2>2. \/ setup < Len(campaign) /\ setup' = setup + 1 /\ pc' = "generate"
        \/ pc' = "list" /\ setup' = setup
    BY <1>4 DEF BuildTests
  <2>3. setup' \in DOMAIN campaign /\ setup' >= setup
    BY <1>1, <1>2, <2>2
  <2>4. \A key \in DOMAIN files : key \in (1..setup') \X Names
    <3>1. 1..setup \subseteq 1..setup'
      BY <1>1, <1>2, <2>3
    <3> QED  BY <1>1, <3>1
  <2>5. DOMAIN images' \subseteq {key[2] : key \in DOMAIN files}
    <3>1. \A n \in DOMAIN images' : << 1, n >> \in DOMAIN files \/ n \in DOMAIN images
      BY <1>4, BuildStep
    <3>2. \A n : << 1, n >> \in DOMAIN files => n \in {key[2] : key \in DOMAIN files}
      OBVIOUS
    <3> QED  BY <1>1, <3>1, <3>2
  <2> QED  BY <1>1, <2>1, <2>2, <2>3, <2>4, <2>5 DEF Typed
<1>5. ASSUME ListImages
      PROVE  Typed'
  <2>1. /\ UNCHANGED << campaign, setup, listConfigs, files, images, test, copied, tftp >>
        /\ pc = "list" /\ pc' = "test"
    BY <1>5 DEF ListImages
  <2>2. plan' \in Seq(Names)
    BY <1>5, ListStep
  <2>3. test' \in 0..Len(plan')
    BY <1>1, <2>1, <2>2
  <2> QED  BY <1>1, <2>1, <2>2, <2>3 DEF Typed
<1>6. ASSUME LaunchTest
      PROVE  Typed'
  <2>1. /\ UNCHANGED << campaign, setup, pc, listConfigs, files, images, plan >>
        /\ pc = "test" /\ test' \in DOMAIN plan
        /\ \/ copied' = TRUE /\ tftp' = << images[plan[test']] >>
           \/ copied' = FALSE /\ tftp' = tftp
    BY <1>6 DEF LaunchTest
  <2>2. test' \in 0..Len(plan)
    BY <1>1, <2>1
  <2>3. Len(tftp') <= 1 /\ copied' \in BOOLEAN
    <3>1. CASE copied' = TRUE /\ tftp' = << images[plan[test']] >>
      <4>1. \A v : Len(<< v >>) = 1
        OBVIOUS
      <4>2. Len(tftp') = 1
        BY <3>1, <4>1
      <4> QED  BY <3>1, <4>2
    <3>2. CASE copied' = FALSE /\ tftp' = tftp
      BY <1>1, <3>2
    <3> QED  BY <2>1, <3>1, <3>2
  <2> QED  BY <1>1, <2>1, <2>2, <2>3 DEF Typed
<1>7. CASE UNCHANGED vars
  BY <1>1, <1>7 DEF Typed, vars
<1> QED
  BY <1>3, <1>4, <1>5, <1>6, <1>7 DEF Next

LEMMA NamesAreNames ==
  ASSUME NEW n \in Names
  PROVE  IsName(n)
<1>1. n.guests \in Seq(Guests) /\ n.tags \in Seq(Tags)
  BY DEF Names
<1>2. \A k \in DOMAIN n.guests : n.guests[k] \in Guests
  BY <1>1
<1>3. \A k \in DOMAIN n.tags : n.tags[k] \in Tags
  BY <1>1
<1> QED
  BY <1>2, <1>3 DEF IsName, Guests, Tags

LEMMA TypedIsTypeOK == Typed => TypeOK
<1> SUFFICES ASSUME Typed
             PROVE  TypeOK
  OBVIOUS
<1>1. \A i \in DOMAIN listConfigs : IsName(listConfigs[i])
  BY Elements, NamesAreNames DEF Typed
<1>2. \A i \in DOMAIN plan : IsName(plan[i])
  BY Elements, NamesAreNames DEF Typed
<1>3. ASSUME NEW key \in DOMAIN files
      PROVE  /\ key[1] \in 1..setup
             /\ IsName(key[2])
             /\ \A k \in DOMAIN files[key] : IsVm(files[key][k])
  <2>1. key \in (1..setup) \X Names /\ files[key] \in Seq(VMs)
    BY <1>3 DEF Typed
  <2>2. key[1] \in 1..setup /\ key[2] \in Names
    BY <2>1
  <2>3. \A k \in DOMAIN files[key] : files[key][k] \in VMs
    BY <2>1
  <2>4. ASSUME NEW vm \in VMs
        PROVE  IsVm(vm)
    <3>1. /\ vm.guest.group \in Groups
          /\ vm.guest.variant \in 1..Variants[vm.guest.group]
          /\ vm.colours \in SUBSET Colours
          /\ vm.open \in BOOLEAN /\ vm.budget \in Nat
      BY VmParts
    <3> QED  BY <3>1 DEF IsVm
  <2> QED  BY <2>2, <2>3, <2>4, NamesAreNames
<1> QED
  BY <1>1, <1>2, <1>3 DEF Typed, TypeOK

-----------------------------------------------------------------------------
(* At the start nothing is written, built or tested.                       *)
LEMMA TruthfulInit == Init => Truthful
<1> SUFFICES ASSUME Init
             PROVE  Truthful
  OBVIOUS
<1>1. /\ listConfigs = << >> /\ files = << >> /\ images = << >> /\ test = 0
      /\ tftp = << >>
  BY DEF Init
<1>2. DOMAIN files = {} /\ DOMAIN images = {}
  <2> DEFINE e == << >>
  <2>1. DOMAIN e = {}
    OBVIOUS
  <2> HIDE DEF e
  <2>2. files = e /\ images = e
    BY <1>1 DEF e
  <2> QED  BY <2>1, <2>2
<1>3. ~ (test > 0)
  BY <1>1
<1> QED
  BY <1>1, <1>2, <1>3 DEF Truthful

(* Every step keeps names and contents together.                           *)
LEMMA TruthfulStep == Typed /\ Truthful /\ [Next]_vars => Truthful'
<1> SUFFICES ASSUME Typed, Truthful, [Next]_vars
             PROVE  Truthful'
  OBVIOUS
<1>1. /\ pc = "generate" /\ setup = 1 => listConfigs = << >>
      /\ \A key \in DOMAIN files : key[1] = 1 => Tells(key[2], files[key])
      /\ \A n \in DOMAIN images : Tells(n, images[n])
      /\ test > 0 /\ copied => Tells(plan[test], tftp[1])
      /\ tftp # << >> => \E k \in 1..test : Tells(plan[k], tftp[1])
  BY DEF Truthful
<1>2. ASSUME GenerateTests
      PROVE  Truthful'
  <2>1. /\ UNCHANGED << campaign, setup, images, plan, test, copied, tftp >>
        /\ pc = "generate" /\ pc' = "build"
    BY <1>2 DEF GenerateTests
  <2> DEFINE s == campaign[setup]
  <2>2. s \in Setups /\ Dictionaries(s.budgets)
    BY CampaignFacts DEF Typed
  <2> HIDE DEF s
  <2>3. \A key \in DOMAIN files' :
          \/ /\ key \in {setup} \X Names
             /\ \E y \in Configs : ComesFrom(s, y) /\ y.name = key[2] /\ y.vms = files'[key]
          \/ key \in DOMAIN files /\ files'[key] = files[key]
    BY <1>2, GenerateStep DEF s
  <2>4. ASSUME setup = 1, NEW y \in Configs, ComesFrom(s, y)
        PROVE  Tells(y.name, y.vms)
    <3>1. PICK c \in Configs, x \in Configs :
            /\ New(s, c) /\ Tint(s, c, x) /\ Limit(s, x, y)
            /\ listConfigs = << >> => FullyNamed(c)
      BY <2>4 DEF ComesFrom
    <3>2. FullyNamed(c)
      BY <1>1, <2>1, <2>4, <3>1
    <3> QED  BY <2>2, <3>1, <3>2, AllTold
  <2>5. \A key \in DOMAIN files' : key[1] = 1 => Tells(key[2], files'[key])
    <3> TAKE key \in DOMAIN files'
    <3> HAVE key[1] = 1
    <3>1. ASSUME key \in {setup} \X Names, NEW y \in Configs, ComesFrom(s, y),
                 y.name = key[2], y.vms = files'[key]
          PROVE  Tells(key[2], files'[key])
      <4>1. setup = 1
        BY <3>1
      <4>2. Tells(y.name, y.vms)
        BY <2>4, <3>1, <4>1
      <4> QED  BY <3>1, <4>2
    <3>2. CASE key \in DOMAIN files /\ files'[key] = files[key]
      BY <1>1, <3>2
    <3> QED  BY <2>3, <3>1, <3>2
  <2> QED  BY <1>1, <2>1, <2>5 DEF Truthful
<1>3. ASSUME BuildTests
      PROVE  Truthful'
  <2>1. UNCHANGED << campaign, listConfigs, files, plan, test, copied, tftp >>
    BY <1>3 DEF BuildTests
  <2>2. pc' # "generate" \/ setup' # 1
    <3>1. \/ setup' = setup + 1
          \/ pc' = "list"
      BY <1>3 DEF BuildTests
    <3>2. setup \in Nat /\ setup >= 1
      BY CampaignFacts DEF Typed
    <3> QED  BY <3>1, <3>2
  <2>3. \A n \in DOMAIN images' : Tells(n, images'[n])
    <3> TAKE n \in DOMAIN images'
    <3>1. CASE << 1, n >> \in DOMAIN files /\ images'[n] = files[<< 1, n >>]
      <4> DEFINE key == << 1, n >>
      <4>1. key[1] = 1 /\ key[2] = n
        OBVIOUS
      <4>2. key \in DOMAIN files /\ images'[n] = files[key]
        BY <3>1
      <4> HIDE DEF key
      <4> QED  BY <1>1, <4>1, <4>2
    <3>2. CASE n \in DOMAIN images /\ images'[n] = images[n]
      BY <1>1, <3>2
    <3> QED  BY <1>3, <3>1, <3>2, BuildStep
  <2> QED  BY <1>1, <2>1, <2>2, <2>3 DEF Truthful
<1>4. ASSUME ListImages
      PROVE  Truthful'
  <2>1. /\ UNCHANGED << campaign, setup, listConfigs, files, images, test, copied, tftp >>
        /\ pc = "list" /\ pc' = "test"
    BY <1>4 DEF ListImages
  <2>2. test = 0 /\ tftp = << >>
    BY <2>1 DEF Typed
  <2>3. ~ (test' > 0) /\ tftp' = << >>
    BY <2>1, <2>2
  <2> QED  BY <1>1, <2>1, <2>3 DEF Truthful
<1>5. ASSUME LaunchTest
      PROVE  Truthful'
  <2>1. /\ UNCHANGED << campaign, setup, pc, listConfigs, files, images, plan >>
        /\ pc = "test"
        /\ test' \in {test, test + 1} /\ test' \in DOMAIN plan
        /\ \/ /\ plan[test'] \in DOMAIN images
              /\ copied' = TRUE
              /\ tftp' = << images[plan[test']] >>
           \/ copied' = FALSE /\ tftp' = tftp
    BY <1>5 DEF LaunchTest
  <2>2. test \in Nat /\ test' \in Nat /\ test <= test' /\ test' \in 1..test'
    <3>1. plan \in Seq(Names) /\ test \in 0..Len(plan)
      BY DEF Typed
    <3> QED  BY <2>1, <3>1
  <2>3. CASE /\ plan[test'] \in DOMAIN images
             /\ copied' = TRUE
             /\ tftp' = << images[plan[test']] >>
    <3> DEFINE v == images[plan[test']]
    <3>1. Tells(plan[test'], v)
      BY <1>1, <2>3
    <3> HIDE DEF v
    <3>2. tftp'[1] = v
      BY <2>3 DEF v
    <3>3. Tells(plan'[test'], tftp'[1])
      BY <2>1, <3>1, <3>2
    <3> QED  BY <1>1, <2>1, <2>2, <3>3 DEF Truthful
  <2>4. CASE copied' = FALSE /\ tftp' = tftp
    <3>1. tftp' # << >> => \E k \in 1..test' : Tells(plan'[k], tftp'[1])
      <4>1. 1..test \subseteq 1..test'
        BY <2>2
      <4> QED  BY <1>1, <2>1, <2>4, <4>1
    <3> QED  BY <1>1, <2>1, <2>4, <3>1 DEF Truthful
  <2> QED  BY <2>1, <2>3, <2>4
<1>6. CASE UNCHANGED vars
  BY <1>1, <1>6 DEF Truthful, vars
<1> QED
  BY <1>2, <1>3, <1>4, <1>5, <1>6 DEF Next

-----------------------------------------------------------------------------
(* What AllColoured says of one configuration.                             *)
ColoursDue(s) ==
  /\ s.colouring /\ s.listed = << >>
  /\ HasProfiler => "profiler" \in s.guests
  /\ 2 * NumVms(s) <= NumColours

LEMMA AllColouredMeans ==
  AllColoured <=> \A key \in DOMAIN files :
                    ColoursDue(campaign[key[1]]) => OwnColours(files[key])
BY DEF AllColoured, ColoursDue, OwnColours

LEMMA ColouredInit == Init => AllColoured
<1> SUFFICES ASSUME Init
             PROVE  AllColoured
  OBVIOUS
<1>1. DOMAIN files = {}
  <2> DEFINE e == << >>
  <2>1. DOMAIN e = {}
    OBVIOUS
  <2> HIDE DEF e
  <2>2. files = e
    BY DEF Init, e
  <2> QED  BY <2>1, <2>2
<1> QED
  BY <1>1, AllColouredMeans

(* Every step keeps what the directories hold coloured.                    *)
LEMMA ColouredStep == Typed /\ AllColoured /\ [Next]_vars => AllColoured'
<1> SUFFICES ASSUME Typed, AllColoured, [Next]_vars
             PROVE  AllColoured'
  OBVIOUS
<1>1. campaign' = campaign
  BY DEF Next, vars, GenerateTests, BuildTests, ListImages, LaunchTest
<1>2. AllColoured' <=> \A key \in DOMAIN files' :
                         ColoursDue(campaign[key[1]]) => OwnColours(files'[key])
  BY <1>1 DEF AllColoured, ColoursDue, OwnColours, HasProfiler, NumVms
<1>3. CASE files' = files
  BY <1>2, <1>3, AllColouredMeans
<1>4. ASSUME GenerateTests
      PROVE  AllColoured'
  <2> DEFINE s == campaign[setup]
  <2>1. /\ s \in Setups /\ Dictionaries(s.budgets)
        /\ "profiler" \in s.guests => HasProfiler
    BY CampaignFacts DEF Typed
  <2>2. \A key \in DOMAIN files' :
          \/ /\ key \in {setup} \X Names
             /\ \E y \in Configs : ComesFrom(s, y) /\ y.name = key[2] /\ y.vms = files'[key]
          \/ key \in DOMAIN files /\ files'[key] = files[key]
    BY <1>4, GenerateStep
  <2> HIDE DEF s
  <2>3. ASSUME NEW y \in Configs, ComesFrom(s, y), ColoursDue(s)
        PROVE  OwnColours(y.vms)
    <3>1. PICK c \in Configs, x \in Configs : New(s, c) /\ Tint(s, c, x) /\ Limit(s, x, y)
      BY <2>3 DEF ComesFrom
    <3> QED  BY <2>1, <2>3, <3>1, AllShared DEF ColoursDue
  <2>4. ASSUME NEW key \in DOMAIN files', ColoursDue(campaign[key[1]])
        PROVE  OwnColours(files'[key])
    <3>1. ASSUME key \in {setup} \X Names, NEW y \in Configs, ComesFrom(s, y),
                 y.name = key[2], y.vms = files'[key]
          PROVE  OwnColours(files'[key])
      <4>1. campaign[key[1]] = s
        BY <3>1 DEF s
      <4>2. OwnColours(y.vms)
        BY <2>3, <2>4, <3>1, <4>1
      <4> QED  BY <3>1, <4>2
    <3>2. CASE key \in DOMAIN files /\ files'[key] = files[key]
      BY <2>4, <3>2, AllColouredMeans
    <3> QED  BY <2>2, <2>4, <3>1, <3>2
  <2> QED  BY <1>2, <2>4
<1>5. files' = files \/ GenerateTests
  BY DEF Next, vars, BuildTests, ListImages, LaunchTest
<1> QED
  BY <1>3, <1>4, <1>5

-----------------------------------------------------------------------------
Safe == Typed /\ Truthful /\ AllColoured

(* The invariant of the three safety theorems.                             *)
LEMMA SafeAlways == Spec => []Safe
<1>1. Init => Safe
  BY TypedInit, TruthfulInit, ColouredInit DEF Safe
<1>2. Safe /\ [Next]_vars => Safe'
  BY TypedStep, TruthfulStep, ColouredStep DEF Safe
<1> QED
  BY <1>1, <1>2, PTL DEF Spec

(* The variables keep their types: configurations are named by guests and  *)
(* tags, directories hold configurations by setup and name, and the loop   *)
(* of main() stays within the list of images.                              *)
THEOREM TypeCorrect == Spec => []TypeOK
<1>1. Safe => TypeOK
  BY TypedIsTypeOK DEF Safe
<1> QED
  BY <1>1, SafeAlways, PTL

(* ResultsAsNamed for every campaign: if its image was copied, a test runs *)
(* what its name tells (guests, colours, and the budgets listed in the     *)
(* order of the guests), and if not, what the name of an earlier test      *)
(* tells; over failed builds, failed copies and names that several setups  *)
(* generate.                                                               *)
THEOREM ResultsNamed == Spec => []ResultsAsNamed
<1>1. Safe => ResultsAsNamed
  BY DEF Safe, Truthful, ResultsAsNamed
<1> QED
  BY <1>1, SafeAlways, PTL

(* AllColoured for every campaign: where the colourings are generated, the *)
(* colours suffice and the profiler is not in another setup only, every    *)
(* guest with a place for colours has two at least, and none of another    *)
(* guest.                                                                  *)
THEOREM EveryGuestColoured == Spec => []AllColoured
<1>1. Safe => AllColoured
  BY DEF Safe
<1> QED
  BY <1>1, SafeAlways, PTL

-----------------------------------------------------------------------------
(* What a campaign wants: colours.                                         *)

(* What the owners of the colours have, and the owners that EachOnce       *)
(* speaks of.                                                              *)
Part(owner, i) == {c \in Colours : owner[c] = i}
PartsOf(owner, n) == [i \in 1..n |-> Part(owner, i)]
InTurn(owner) == \A c, d \in Colours : c < d => owner[c] <= owner[d]
Owners(n) ==
  {o \in [Colours -> 1..n] :
     InTurn(o) /\ \A i \in 1..n : Cardinality(Part(o, i)) >= 2}

LEMMA SharesAre ==
  ASSUME NEW n \in Nat
  PROVE  Shares(n) = {PartsOf(o, n) : o \in Owners(n)}
<1> DEFINE Share(owner) == [i \in 1..n |-> {c \in Colours : owner[c] = i}]
           O == {o \in [Colours -> 1..n] :
                   /\ \A c, d \in Colours : c < d => o[c] <= o[d]
                   /\ \A i \in 1..n : Cardinality(Share(o)[i]) >= 2}
<1>1. Shares(n) = {Share(o) : o \in O}
  BY DEF Shares
<1>2. \A o : Share(o) = PartsOf(o, n)
  BY DEF PartsOf, Part
<1>3. \A o : \A i \in 1..n : Share(o)[i] = Part(o, i)
  BY DEF Part
<1> HIDE DEF Share
<1>4. O = Owners(n)
  BY <1>3 DEF Owners, InTurn
<1> HIDE DEF O
<1> QED
  BY <1>1, <1>2, <1>4

LEMMA ColoursAre ==
  /\ NumColours \in Nat /\ NumColours > 0
  /\ \A c : c \in Colours <=> c \in Nat /\ c < NumColours
<1>1. NumColours \in Nat /\ NumColours > 0
  BY ConstantsAssumption
<1> QED
  BY <1>1 DEF Colours

(* Owners in turn own what lies between points.                            *)
LEMMA OwnersHaveShares ==
  ASSUME NEW n \in Nat, n > 0, NEW o \in Owners(n)
  PROVE  \E p \in Wide(n) : PartsOf(o, n) = SharesOf(p, n)
<1> DEFINE N == NumColours
           first(i) == CHOOSE c \in Part(o, i) : \A d \in Part(o, i) : c <= d
           p == [i \in 1..(n + 1) |-> IF i = n + 1 THEN N ELSE first(i)]
<1>1. /\ \A c \in Colours : o[c] \in 1..n
      /\ \A c, d \in Colours : c < d => o[c] <= o[d]
      /\ \A i \in 1..n : Cardinality(Part(o, i)) >= 2
  BY DEF Owners, InTurn
<1>2. N \in Nat /\ N > 0 /\ \A c : c \in Colours <=> c \in Nat /\ c < N
  BY ColoursAre
<1>3. ASSUME NEW i \in 1..n
      PROVE  first(i) \in Part(o, i) /\ \A d \in Part(o, i) : first(i) <= d
  <2> DEFINE P == Part(o, i)
  <2>1. P \in SUBSET Nat
    BY <1>2 DEF Part
  <2>2. P # {}
    <3>1. Cardinality({}) = 0
      BY FS_EmptySet
    <3> QED  BY <1>1, <3>1
  <2>3. \E c \in P : \A d \in P : c <= d
    <3> HIDE DEF P
    <3> QED  BY <2>1, <2>2, Least
  <2> QED  BY <2>3
<1>4. \A i \in 1..n : p[i] = first(i)
  OBVIOUS
<1>5. p[n + 1] = N
  OBVIOUS
<1>6. \A i \in 1..n : /\ p[i] \in Colours /\ o[p[i]] = i
                      /\ \A d \in Colours : o[d] = i => p[i] <= d
  <2> TAKE i \in 1..n
  <2>1. p[i] \in Part(o, i) /\ \A d \in Part(o, i) : p[i] <= d
    BY <1>3, <1>4
  <2> HIDE DEF p
  <2> QED  BY <2>1 DEF Part
<1>7. DOMAIN p = 1..(n + 1)
  OBVIOUS
<1>8. p = [i \in 1..(n + 1) |-> p[i]]
  OBVIOUS
<1> HIDE DEF p, first, N
<1>9. \A i \in 1..(n + 1) : p[i] \in 0..N
  <2> TAKE i \in 1..(n + 1)
  <2>1. CASE i = n + 1
    BY <1>2, <1>5, <2>1
  <2>2. CASE i \in 1..n
    BY <1>2, <1>6, <2>2
  <2> QED  BY <2>1, <2>2
<1>10. p \in Seq(0..N) /\ Len(p) = n + 1
  <2> DEFINE m == n + 1
             V == 0..N
  <2>1. m \in Nat /\ p \in [1..m -> V]
    BY <1>7, <1>8, <1>9
  <2> HIDE DEF m, V
  <2>2. p \in Seq(V) /\ Len(p) = m
    BY <2>1, MapIsSeq
  <2> QED  BY <2>2 DEF m, V
<1>11. \A i, j \in 1..n : i < j => p[i] < p[j]
  <2> TAKE i, j \in 1..n
  <2> HAVE i < j
  <2> DEFINE a == p[i]
             b == p[j]
  <2>1. a \in Colours /\ b \in Colours /\ o[a] = i /\ o[b] = j
    BY <1>6
  <2> HIDE DEF a, b
  <2>2. a \in Nat /\ b \in Nat
    BY <1>2, <2>1
  <2>3. a # b
    BY <2>1
  <2>4. ~ (b < a)
    <3>1. b < a => j <= i
      BY <1>1, <2>1
    <3> QED  BY <3>1
  <2>5. a < b
    BY <2>2, <2>3, <2>4
  <2> QED  BY <2>5 DEF a, b
<1>12. \A i, j \in 1..(n + 1) : i < j => p[i] < p[j]
  <2> TAKE i, j \in 1..(n + 1)
  <2> HAVE i < j
  <2>1. i \in 1..n
    OBVIOUS
  <2>2. CASE j = n + 1
    BY <1>2, <1>5, <1>6, <2>1, <2>2
  <2>3. CASE j \in 1..n
    BY <1>11, <2>1, <2>3
  <2> QED  BY <2>2, <2>3
<1>13. p[1] = 0
  <2> DEFINE a == p[1]
  <2>1. 1 \in 1..n /\ 0 \in Colours
    BY <1>2
  <2>2. a \in Colours /\ o[a] = 1 /\ \A d \in Colours : o[d] = 1 => a <= d
    BY <1>6, <2>1
  <2> HIDE DEF a
  <2>3. o[0] \in 1..n /\ a \in Nat
    BY <1>1, <1>2, <2>1, <2>2
  <2>4. ASSUME 0 < a
        PROVE  FALSE
    <3>1. o[0] <= 1
      BY <1>1, <2>1, <2>2, <2>4
    <3>2. o[0] = 1
      BY <2>3, <3>1
    <3>3. a <= 0
      BY <2>1, <2>2, <3>2
    <3> QED  BY <2>3, <2>4, <3>3
  <2>5. a = 0
    BY <2>3, <2>4
  <2> QED  BY <2>5 DEF a
<1>14. p \in Points(n)
  <2>1. IsPoints(p, n)
    BY <1>5, <1>10, <1>12, <1>13 DEF IsPoints, N
  <2> QED  BY <2>1, PointsFacts
<1>15. ASSUME NEW i \in 1..n
       PROVE  Part(o, i) = Between(p[i], p[i + 1])
  <2> DEFINE a == p[i]
             b == p[i + 1]
  <2>1. a \in Colours /\ o[a] = i /\ \A d \in Colours : o[d] = i => a <= d
    BY <1>6
  <2>2. b \in 0..N
    <3>1. i + 1 \in 1..(n + 1)
      OBVIOUS
    <3> QED  BY <1>9, <3>1
  <2>3. \/ i = n /\ b = N
        \/ /\ i + 1 \in 1..n
           /\ b \in Colours /\ o[b] = i + 1
           /\ \A d \in Colours : o[d] = i + 1 => b <= d
    <3>1. CASE i = n
      BY <1>5, <3>1
    <3>2. CASE i # n
      <4>1. i + 1 \in 1..n
        BY <3>2
      <4> QED  BY <1>6, <4>1
    <3> QED  BY <3>1, <3>2
  <2> HIDE DEF a, b
  <2>4. a \in Nat /\ b \in Nat
    BY <1>2, <2>1, <2>2
  <2>5. ASSUME NEW c \in Colours, o[c] = i
        PROVE  c \in a..(b - 1)
    <3>1. a <= c /\ c \in Nat /\ c < N
      BY <1>2, <2>1, <2>5
    <3>2. c < b
      <4>1. CASE i = n /\ b = N
        BY <3>1, <4>1
      <4>2. CASE b \in Colours /\ o[b] = i + 1
        <5>1. b # c
          BY <2>5, <4>2
        <5>2. ~ (b < c)
          <6>1. b < c => i + 1 <= i
            BY <1>1, <2>5, <4>2
          <6> QED  BY <6>1
        <5> QED  BY <2>4, <3>1, <5>1, <5>2
      <4> QED  BY <2>3, <4>1, <4>2
    <3> QED  BY <2>4, <3>1, <3>2
  <2>6. ASSUME NEW c \in a..(b - 1)
        PROVE  c \in Colours /\ o[c] = i
    <3>1. c \in Nat /\ a <= c /\ c < b /\ b <= N /\ c < N
      BY <2>2, <2>4, <1>2
    <3>2. c \in Colours
      BY <1>2, <3>1
    <3>3. o[c] \in 1..n
      BY <1>1, <3>2
    <3>4. i <= o[c]
      <4>1. CASE a = c
        BY <2>1, <4>1
      <4>2. CASE a < c
        BY <1>1, <2>1, <3>2, <4>2
      <4> QED  BY <2>4, <3>1, <4>1, <4>2
    <3>5. o[c] <= i
      <4>1. CASE i = n
        BY <3>3, <4>1
      <4>2. CASE /\ b \in Colours /\ o[b] = i + 1
                 /\ \A d \in Colours : o[d] = i + 1 => b <= d
        <5>1. o[c] <= i + 1
          BY <1>1, <3>1, <3>2, <4>2
        <5>2. o[c] # i + 1
          <6>1. o[c] = i + 1 => b <= c
            BY <3>2, <4>2
          <6> QED  BY <2>4, <3>1, <6>1
        <5> QED  BY <3>3, <5>1, <5>2
      <4> QED  BY <2>3, <4>1, <4>2
    <3> QED  BY <3>2, <3>3, <3>4, <3>5
  <2>7. \A c : c \in Part(o, i) <=> c \in a..(b - 1)
    BY <2>5, <2>6 DEF Part
  <2> QED  BY <2>7 DEF Between, a, b
<1>16. \A i \in 1..n : p[i + 1] - p[i] >= 2
  <2> TAKE i \in 1..n
  <2> DEFINE a == p[i]
             b == p[i + 1]
  <2>1. Cardinality(Between(a, b)) >= 2
    BY <1>1, <1>15
  <2>2. a \in 0..N /\ b \in 0..N /\ a < b
    <3>1. i \in 1..(n + 1) /\ i + 1 \in 1..(n + 1)
      OBVIOUS
    <3> QED  BY <1>9, <1>12, <3>1
  <2> HIDE DEF a, b
  <2>3. Cardinality(Between(a, b)) = b - a
    BY <2>2, <1>2, BetweenFacts
  <2>4. b - a >= 2
    BY <2>1, <2>3
  <2> QED  BY <2>4 DEF a, b
<1>17. p \in Wide(n)
  BY <1>14, <1>16 DEF Wide
<1>18. PartsOf(o, n) = SharesOf(p, n)
  BY <1>15 DEF PartsOf, SharesOf
<1> QED
  BY <1>17, <1>18

(* What lies between points is owned in turn.                              *)
LEMMA SharesHaveOwners ==
  ASSUME NEW n \in Nat, n > 0, NEW p \in Wide(n)
  PROVE  \E o \in Owners(n) : PartsOf(o, n) = SharesOf(p, n)
<1> DEFINE N == NumColours
           o == [c \in Colours |-> CHOOSE i \in 1..n : p[i] <= c /\ c < p[i + 1]]
<1>1. N \in Nat /\ N > 0 /\ \A c : c \in Colours <=> c \in Nat /\ c < N
  BY ColoursAre
<1>2. p \in Points(n) /\ \A i \in 1..n : p[i + 1] - p[i] >= 2
  BY DEF Wide
<1>3. /\ p[1] = 0 /\ p[n + 1] = N
      /\ \A i \in 1..(n + 1) : p[i] \in 0..N
      /\ \A i, j \in 1..(n + 1) : i < j => p[i] < p[j]
  BY <1>2, PointAt
<1>4. ASSUME NEW c \in Colours
      PROVE  \E i \in 1..n : p[i] <= c /\ c < p[i + 1]
  <2> DEFINE S == {i \in 1..n : p[i] <= c}
  <2>1. c \in Nat /\ c < N
    BY <1>1
  <2>2. S \in SUBSET (1..n) /\ 1 \in S
    BY <1>3, <2>1
  <2>3. PICK i \in S : \A k \in S : k <= i
    <3> HIDE DEF S
    <3> QED  BY <2>2, Greatest
  <2>4. i \in 1..n /\ p[i] <= c
    OBVIOUS
  <2>5. c < p[i + 1]
    <3>1. CASE i = n
      BY <1>3, <2>1, <3>1
    <3>2. CASE i # n
      <4>1. i + 1 \in 1..n /\ ~ (i + 1 <= i)
        BY <2>4, <3>2
      <4>2. ~ (i + 1 \in S)
        BY <2>3, <4>1
      <4>3. ~ (p[i + 1] <= c)
        BY <4>1, <4>2
      <4>4. p[i + 1] \in Int
        BY <1>1, <1>3, <4>1
      <4> QED  BY <2>1, <4>3, <4>4
    <3> QED  BY <3>1, <3>2
  <2> QED  BY <2>4, <2>5
<1>5. \A c \in Colours : o[c] \in 1..n /\ p[o[c]] <= c /\ c < p[o[c] + 1]
  <2> TAKE c \in Colours
  <2> DEFINE i == CHOOSE i \in 1..n : p[i] <= c /\ c < p[i + 1]
  <2>1. i \in 1..n /\ p[i] <= c /\ c < p[i + 1]
    BY <1>4
  <2>2. o[c] = i
    OBVIOUS
  <2> HIDE DEF i
  <2> QED  BY <2>1, <2>2
<1>6. o \in [Colours -> 1..n]
  <2>1. DOMAIN o = Colours /\ o = [c \in Colours |-> o[c]]
    OBVIOUS
  <2> HIDE DEF o
  <2> QED  BY <1>5, <2>1
<1> HIDE DEF o, N
<1>7. ASSUME NEW c \in Colours, NEW i \in 1..n, p[i] <= c, c < p[i + 1]
      PROVE  o[c] = i
  <2> DEFINE j == o[c]
  <2>1. j \in 1..n /\ p[j] <= c /\ c < p[j + 1] /\ c \in Nat
    BY <1>1, <1>5
  <2> HIDE DEF j
  <2>2. ASSUME NEW k \in 1..n, NEW l \in 1..n, k < l, c < p[k + 1], p[l] <= c
        PROVE  FALSE
    <3>1. k + 1 \in 1..(n + 1) /\ l \in 1..(n + 1) /\ k + 1 <= l
      BY <2>2
    <3> DEFINE a == p[k + 1]
               b == p[l]
    <3>2. a \in Int /\ b \in Int /\ a <= b
      <4>1. CASE k + 1 = l
        BY <1>1, <1>3, <3>1, <4>1
      <4>2. CASE k + 1 < l
        BY <1>1, <1>3, <3>1, <4>2
      <4> QED  BY <3>1, <4>1, <4>2
    <3>3. c < a /\ b <= c
      BY <2>2
    <3> HIDE DEF a, b
    <3> QED  BY <2>1, <3>2, <3>3
  <2>3. ~ (i < j) /\ ~ (j < i)
    BY <1>7, <2>1, <2>2
  <2>4. j = i
    BY <2>1, <2>3
  <2> QED  BY <2>4 DEF j
<1>8. ASSUME NEW i \in 1..n
      PROVE  Part(o, i) = Between(p[i], p[i + 1])
  <2> DEFINE a == p[i]
             b == p[i + 1]
  <2>1. a \in 0..N /\ b \in 0..N
    <3>1. i \in 1..(n + 1) /\ i + 1 \in 1..(n + 1)
      OBVIOUS
    <3> QED  BY <1>3, <3>1
  <2>2. \A c \in Colours : o[c] = i => a <= c /\ c < b
    BY <1>5
  <2>3. \A c \in Colours : a <= c /\ c < b => o[c] = i
    BY <1>7
  <2> HIDE DEF a, b
  <2>4. \A c : c \in a..(b - 1) <=> c \in Colours /\ a <= c /\ c < b
    <3> TAKE c
    <3>1. ASSUME c \in a..(b - 1)
          PROVE  c \in Colours /\ a <= c /\ c < b
      <4>1. c \in Nat /\ a <= c /\ c < b /\ c < N
        BY <1>1, <2>1, <3>1
      <4> QED  BY <1>1, <4>1
    <3>2. ASSUME c \in Colours, a <= c, c < b
          PROVE  c \in a..(b - 1)
      <4>1. c \in Nat
        BY <1>1, <3>2
      <4> QED  BY <1>1, <2>1, <3>2, <4>1
    <3> QED  BY <3>1, <3>2
  <2>5. \A c : c \in Part(o, i) <=> c \in a..(b - 1)
    BY <2>2, <2>3, <2>4 DEF Part
  <2> QED  BY <2>5 DEF Between, a, b
<1>9. PartsOf(o, n) = SharesOf(p, n)
  BY <1>8 DEF PartsOf, SharesOf
<1>10. \A i \in 1..n : Cardinality(Part(o, i)) >= 2
  BY <1>8, SharesFacts
<1>11. InTurn(o)
  <2> SUFFICES ASSUME NEW c \in Colours, NEW d \in Colours, c < d
               PROVE  o[c] <= o[d]
    BY DEF InTurn
  <2> DEFINE i == o[c]
             j == o[d]
  <2>1. /\ i \in 1..n /\ j \in 1..n /\ c \in Nat /\ d \in Nat
        /\ p[i] <= c /\ d < p[j + 1]
    BY <1>1, <1>5
  <2> HIDE DEF i, j
  <2>2. ASSUME j < i
        PROVE  FALSE
    <3>1. j + 1 \in 1..(n + 1) /\ i \in 1..(n + 1) /\ j + 1 <= i
      BY <2>1, <2>2
    <3> DEFINE a == p[j + 1]
               b == p[i]
    <3>2. a \in Int /\ b \in Int /\ a <= b
      <4>1. CASE j + 1 = i
        BY <1>1, <1>3, <3>1, <4>1
      <4>2. CASE j + 1 < i
        BY <1>1, <1>3, <3>1, <4>2
      <4> QED  BY <3>1, <4>1, <4>2
    <3>3. b <= c /\ d < a
      BY <2>1
    <3> HIDE DEF a, b
    <3> QED  BY <2>1, <3>2, <3>3
  <2>3. i <= j
    BY <2>1, <2>2
  <2> QED  BY <2>3 DEF i, j
<1>12. o \in Owners(n)
  BY <1>6, <1>10, <1>11 DEF Owners
<1> QED
  BY <1>9, <1>12

(* The shares the colours can be cut into, as the property states them,    *)
(* are those that the generator walks through.                             *)
LEMMA SharesSame ==
  ASSUME NEW n \in Nat, n > 0
  PROVE  /\ \A p \in Wide(n) : SharesOf(p, n) \in Shares(n)
         /\ \A w \in Shares(n) : \E p \in Wide(n) : w = SharesOf(p, n)
<1>1. Shares(n) = {PartsOf(o, n) : o \in Owners(n)}
  BY SharesAre
<1>2. \A p \in Wide(n) : \E o \in Owners(n) : PartsOf(o, n) = SharesOf(p, n)
  BY SharesHaveOwners
<1>3. \A o \in Owners(n) : \E p \in Wide(n) : PartsOf(o, n) = SharesOf(p, n)
  BY OwnersHaveShares
<1> QED
  BY <1>1, <1>2, <1>3

-----------------------------------------------------------------------------
(* What a campaign wants: guests.                                          *)

(* No guest has more variants than the largest number of them.             *)
MostVariants == Max({Variants[g] : g \in Groups})

LEMMA MostVariantsFacts ==
  /\ MostVariants \in Nat
  /\ \A g \in Groups : Variants[g] <= MostVariants
<1> DEFINE V == {Variants[g] : g \in Groups}
           n == Variants["linux"] + Variants["cache"] + Variants["embench"]
                + Variants["cci"] + Variants["profiler"]
<1>1. \A g \in Groups : Variants[g] \in Nat /\ Variants[g] > 0
  BY ConstantsAssumption
<1>2. Groups = {"linux", "cache", "embench", "cci", "profiler"}
  BY GroupOrderFacts
<1>3. /\ Variants["linux"] \in Nat /\ Variants["cache"] \in Nat
      /\ Variants["embench"] \in Nat /\ Variants["cci"] \in Nat
      /\ Variants["profiler"] \in Nat
  BY <1>1, <1>2
<1>4. n \in Nat /\ \A g \in Groups : Variants[g] <= n
  BY <1>2, <1>3
<1> HIDE DEF n
<1>5. V \in SUBSET (1..n) /\ V # {}
  BY <1>1, <1>2, <1>4
<1>6. \E m \in V : \A k \in V : k <= m
  <2> HIDE DEF V
  <2> QED  BY <1>4, <1>5, Greatest
<1> DEFINE m == CHOOSE x \in V : \A y \in V : x >= y
<1>7. m = MostVariants
  BY DEF MostVariants, Max
<1>8. m \in V /\ \A y \in V : m >= y
  <2> HIDE DEF V
  <2>1. V \in SUBSET Nat
    BY <1>5
  <2>2. \E x \in V : \A y \in V : x >= y
    BY <1>6, <2>1
  <2> QED  BY <2>2
<1> HIDE DEF m
<1>9. m \in Nat
  <2> HIDE DEF V
  <2> QED  BY <1>5, <1>8
<1>10. \A g \in Groups : m >= Variants[g]
  BY <1>8
<1> QED
  BY <1>1, <1>7, <1>9, <1>10

(* The guests that EachOnce wants are those of the combinations.           *)
GuestsBy(s, v) == [k \in DOMAIN Present(s) |-> [group |-> Present(s)[k], variant |-> v[k]]]
VariantChoices(s) ==
  {w \in [DOMAIN Present(s) -> 1..MostVariants] :
     \A k \in DOMAIN Present(s) : w[k] <= Variants[Present(s)[k]]}

(* The guests that EachOnce wants of a setup, by the choice of variants.   *)
LEMMA WantedGuestsAre ==
  ASSUME NEW s
  PROVE  WantedGuests(s) = {GuestsBy(s, v) : v \in VariantChoices(s)}
BY DEF WantedGuests, GuestsBy, VariantChoices, MostVariants

LEMMA GuestsByFacts ==
  ASSUME NEW s \in Setups, NEW v \in VariantChoices(s)
  PROVE  /\ GuestsBy(s, v) \in Seq(Guests)
         /\ Len(GuestsBy(s, v)) = Len(Present(s))
         /\ \A k \in 1..Len(Present(s)) :
              /\ v[k] \in 1..Variants[Present(s)[k]]
              /\ GuestsBy(s, v)[k] = [group |-> Present(s)[k], variant |-> v[k]]
<1> DEFINE p == Present(s)
           n == Len(p)
           g == GuestsBy(s, v)
<1>1. n \in Nat /\ DOMAIN p = 1..n /\ \A k \in 1..n : p[k] \in Groups
  <2>1. p \in Seq(Groups)
    BY PresentFacts
  <2> HIDE DEF p
  <2> QED  BY <2>1
<1>2. \A k \in 1..n : v[k] \in 1..MostVariants /\ v[k] <= Variants[p[k]]
  BY <1>1 DEF VariantChoices
<1>3. g = [k \in 1..n |-> [group |-> p[k], variant |-> v[k]]]
  BY <1>1 DEF GuestsBy
<1> HIDE DEF p, n, g
<1>4. \A k \in 1..n : v[k] \in 1..Variants[p[k]] /\ v[k] \in Nat
  <2> TAKE k \in 1..n
  <2>1. Variants[p[k]] \in Nat
    BY <1>1, ConstantsAssumption
  <2>2. v[k] \in 1..MostVariants /\ v[k] <= Variants[p[k]] /\ MostVariants \in Nat
    BY <1>2, MostVariantsFacts
  <2> DEFINE a == v[k]
             b == Variants[p[k]]
  <2> HIDE DEF a, b
  <2>3. a \in 1..b /\ a \in Nat
    BY <2>1, <2>2 DEF a, b
  <2> QED  BY <2>3 DEF a, b
<1>5. \A k \in 1..n : [group |-> p[k], variant |-> v[k]] \in Guests
  BY <1>1, <1>4 DEF Guests
<1>6. g \in [1..n -> Guests]
  BY <1>3, <1>5
<1>7. g \in Seq(Guests) /\ Len(g) = n
  BY <1>1, <1>6, MapIsSeq
<1>8. \A k \in 1..n : g[k] = [group |-> p[k], variant |-> v[k]]
  BY <1>3
<1> QED
  BY <1>4, <1>7, <1>8 DEF n, p, g

(* A configuration has guests that its setup wants ...                     *)
LEMMA GuestsWanted ==
  ASSUME NEW s \in Setups, NEW c, New(s, c)
  PROVE  GuestsOf(c.vms) \in WantedGuests(s)
<1> DEFINE p == Present(s)
           n == Len(p)
<1>1. PICK i \in DOMAIN Combinations(s) : c.vms = NewVMs(Combinations(s)[i])
  BY DEF New
<1> DEFINE g == Combinations(s)[i]
<1>2. /\ AllChoices(Guests, Combinations(s), GuestChoices(s), n)
      /\ g \in Seq(Guests)
  <2>1. /\ AllChoices(Guests, Combinations(s), GuestChoices(s), n)
        /\ Combinations(s) \in Seq(Seq(Guests))
    BY CombinationsFacts
  <2> QED  BY <1>1, <2>1
<1>3. GuestsOf(c.vms) = g
  BY <1>1, <1>2, NewVMsFacts
<1>4. IsChoice(g, GuestChoices(s), n)
  BY <1>1, <1>2 DEF AllChoices
<1> HIDE DEF g
<1>5. Len(g) = n /\ \A k \in 1..n : \E j \in DOMAIN GuestChoices(s)[k] :
                                      g[k] = GuestChoices(s)[k][j]
  BY <1>4 DEF IsChoice
<1>6. n \in Nat /\ DOMAIN p = 1..n /\ \A k \in 1..n : p[k] \in Groups
  <2>1. p \in Seq(Groups)
    BY PresentFacts
  <2> HIDE DEF p
  <2> QED  BY <2>1
<1>7. \A k \in 1..n : \E j \in 1..Variants[p[k]] : g[k] = [group |-> p[k], variant |-> j]
  <2> TAKE k \in 1..n
  <2>1. PICK j \in DOMAIN GuestChoices(s)[k] : g[k] = GuestChoices(s)[k][j]
    BY <1>5
  <2>2. /\ DOMAIN GuestChoices(s)[k] = 1..Variants[p[k]]
        /\ \A x \in 1..Variants[p[k]] :
             GuestChoices(s)[k][x] = [group |-> p[k], variant |-> x]
    BY GuestChoicesFacts
  <2> QED  BY <2>1, <2>2
<1> HIDE DEF p, n
<1> DEFINE v == [k \in 1..n |-> g[k].variant]
<1>8. \A k \in 1..n : /\ v[k] \in 1..Variants[p[k]]
                      /\ g[k] = [group |-> p[k], variant |-> v[k]]
  <2> TAKE k \in 1..n
  <2>1. PICK j \in 1..Variants[p[k]] : g[k] = [group |-> p[k], variant |-> j]
    BY <1>7
  <2>2. [group |-> p[k], variant |-> j].variant = j
    OBVIOUS
  <2>3. v[k] = j
    BY <2>1, <2>2
  <2> HIDE DEF v
  <2> QED  BY <2>1, <2>3
<1>9. \A k \in 1..n : v[k] \in 1..MostVariants /\ v[k] <= Variants[p[k]]
  <2> TAKE k \in 1..n
  <2> DEFINE a == v[k]
             b == Variants[p[k]]
  <2>1. a \in 1..b
    BY <1>8
  <2>2. b \in Nat /\ b <= MostVariants /\ MostVariants \in Nat
    BY <1>6, MostVariantsFacts, ConstantsAssumption
  <2> HIDE DEF a, b
  <2>3. a \in 1..MostVariants /\ a <= b
    BY <2>1, <2>2
  <2> QED  BY <2>3 DEF a, b
<1>10. v \in VariantChoices(s)
  <2>1. v \in [1..n -> 1..MostVariants]
    BY <1>9
  <2> HIDE DEF v
  <2> QED  BY <1>6, <1>9, <2>1 DEF VariantChoices, p
<1>11. g = GuestsBy(s, v)
  <2> HIDE DEF v
  <2>1. /\ GuestsBy(s, v) \in Seq(Guests) /\ Len(GuestsBy(s, v)) = n
        /\ \A k \in 1..n : GuestsBy(s, v)[k] = [group |-> p[k], variant |-> v[k]]
    BY <1>10, GuestsByFacts DEF n, p
  <2>2. \A k \in 1..Len(g) : g[k] = GuestsBy(s, v)[k]
    BY <1>5, <1>8, <2>1
  <2> QED  BY <1>2, <1>5, <2>1, <2>2, SameSeq DEF g
<1> HIDE DEF v
<1> QED
  BY <1>3, <1>10, <1>11, WantedGuestsAre DEF g

(* ... and all that it wants come.                                         *)
LEMMA WantedGuestsCome ==
  ASSUME NEW s \in Setups, listConfigs = << >>, NEW w \in WantedGuests(s)
  PROVE  \E a \in DOMAIN Named(s) : GuestsOf(Named(s)[a].vms) = w
<1> DEFINE p == Present(s)
           n == Len(p)
<1>1. PICK v \in VariantChoices(s) : w = GuestsBy(s, v)
  BY WantedGuestsAre
<1>2. /\ w \in Seq(Guests) /\ Len(w) = n
      /\ \A k \in 1..n : /\ v[k] \in 1..Variants[p[k]]
                         /\ w[k] = [group |-> p[k], variant |-> v[k]]
  BY <1>1, GuestsByFacts
<1>3. \A k \in 1..n : \E j \in DOMAIN GuestChoices(s)[k] : w[k] = GuestChoices(s)[k][j]
  <2> TAKE k \in 1..n
  <2>1. /\ DOMAIN GuestChoices(s)[k] = 1..Variants[p[k]]
        /\ \A x \in 1..Variants[p[k]] :
             GuestChoices(s)[k][x] = [group |-> p[k], variant |-> x]
    BY GuestChoicesFacts
  <2> DEFINE j == v[k]
  <2>2. j \in 1..Variants[p[k]] /\ w[k] = [group |-> p[k], variant |-> j]
    BY <1>2
  <2> HIDE DEF j
  <2>3. j \in DOMAIN GuestChoices(s)[k] /\ w[k] = GuestChoices(s)[k][j]
    BY <2>1, <2>2
  <2> QED  BY <2>3
<1>4. IsChoice(w, GuestChoices(s), n)
  BY <1>2, <1>3 DEF IsChoice
<1>5. PICK i \in DOMAIN Combinations(s) : Combinations(s)[i] = w
  <2>1. AllChoices(Guests, Combinations(s), GuestChoices(s), n)
    BY CombinationsFacts
  <2> QED  BY <1>2, <1>4, <2>1 DEF AllChoices
<1>6. listConfigs \in Seq(Names)
  <2>1. << >> \in Seq(Names)
    OBVIOUS
  <2> QED  BY <2>1
<1>7. PICK a \in DOMAIN Named(s) : Named(s)[a].vms = NewVMs(w)
  BY <1>5, <1>6, NamedFacts
<1>8. GuestsOf(NewVMs(w)) = w
  BY <1>2, NewVMsFacts
<1> QED
  BY <1>7, <1>8

-----------------------------------------------------------------------------
(* What a campaign wants: colourings.                                      *)

(* The colourings that EachOnce wants are those that are generated.        *)
ColoursOf(vms) == [k \in DOMAIN vms |-> vms[k].colours]
Ways(s) ==
  IF ~ s.colouring THEN {<< >>}
  ELSE IF s.listed # << >> THEN Range(s.listed)
  ELSE IF Shares(NumVms(s)) = {} THEN {<< >>}
  ELSE Shares(NumVms(s))
ColoursBy(s, w) ==
  [k \in DOMAIN Present(s) |->
     IF k \in DOMAIN w /\ Present(s)[k] # "profiler" THEN w[k] ELSE {}]

LEMMA WantedColoursAre ==
  ASSUME NEW s
  PROVE  WantedColours(s) = {ColoursBy(s, w) : w \in Ways(s)}
BY DEF WantedColours, Ways, ColoursBy

LEMMA WaysFacts ==
  ASSUME NEW s \in Setups
  PROVE  IF Colourings(s) = << >> THEN Ways(s) = {<< >>}
         ELSE /\ \A k \in DOMAIN Colourings(s) : Colourings(s)[k] \in Ways(s)
              /\ \A w \in Ways(s) : \E k \in DOMAIN Colourings(s) : Colourings(s)[k] = w
<1> DEFINE C == Colourings(s)
<1>1. CASE ~ s.colouring
  <2>1. C = << >> /\ Ways(s) = {<< >>}
    BY <1>1 DEF Colourings, Ways
  <2> QED  BY <2>1
<1>2. CASE s.colouring /\ s.listed # << >>
  <2>1. C = s.listed /\ C # << >> /\ Ways(s) = Range(C)
    BY <1>2 DEF Colourings, Ways
  <2> HIDE DEF C
  <2>2. \A k \in DOMAIN C : C[k] \in Ways(s)
    BY <2>1 DEF Range
  <2>3. \A w \in Ways(s) : \E k \in DOMAIN C : C[k] = w
    BY <2>1 DEF Range
  <2> QED  BY <2>1, <2>2, <2>3 DEF C
<1>3. CASE s.colouring /\ s.listed = << >>
  <2> DEFINE n == NumVms(s)
  <2>1. C = Assignments(n)
        /\ Ways(s) = IF Shares(n) = {} THEN {<< >>} ELSE Shares(n)
    BY <1>3 DEF Colourings, Ways
  <2>2. n \in Nat /\ n > 0
    BY NumVmsFacts
  <2> HIDE DEF n, C
  <2>3. /\ DOMAIN C = 1..Cardinality(Wide(n))
        /\ \A k \in DOMAIN C : \E p \in Wide(n) : C[k] = SharesOf(p, n)
        /\ \A p \in Wide(n) : \E k \in DOMAIN C : C[k] = SharesOf(p, n)
    BY <2>1, <2>2, AssignmentsFacts
  <2>4. /\ \A p \in Wide(n) : SharesOf(p, n) \in Shares(n)
        /\ \A w \in Shares(n) : \E p \in Wide(n) : w = SharesOf(p, n)
    BY <2>2, SharesSame
  <2>5. /\ \A k \in DOMAIN C : C[k] \in Shares(n)
        /\ \A w \in Shares(n) : \E k \in DOMAIN C : C[k] = w
    BY <2>3, <2>4
  <2>6. CASE C = << >>
    <3>1. DOMAIN << >> = {}
      OBVIOUS
    <3>2. DOMAIN C = {}
      BY <2>6, <3>1
    <3>3. Shares(n) = {}
      BY <2>5, <3>2
    <3>4. Ways(s) = {<< >>}
      BY <2>1, <3>3
    <3> QED  BY <2>6, <3>4 DEF C
  <2>7. CASE C # << >>
    <3>1. C \in Seq(Seq(SUBSET Colours))
      BY ColouringsType DEF C
    <3>2. DOMAIN C # {}
      <4> DEFINE T == Seq(SUBSET Colours)
      <4>1. \A z \in Seq(T) : DOMAIN z = {} => z = << >>
        OBVIOUS
      <4> QED  BY <2>7, <3>1, <4>1
    <3>3. Shares(n) # {}
      BY <2>5, <3>2
    <3>4. Ways(s) = Shares(n)
      BY <2>1, <3>3
    <3> QED  BY <2>5, <2>7, <3>4 DEF C
  <2> QED  BY <2>6, <2>7
<1> QED
  BY <1>1, <1>2, <1>3

LEMMA NewIsUncoloured ==
  ASSUME NEW s \in Setups, NEW c, New(s, c)
  PROVE  /\ DOMAIN c.vms = DOMAIN Present(s)
         /\ DOMAIN c.vms = 1..Len(c.vms)
         /\ \A k \in DOMAIN c.vms : /\ c.vms[k].colours = {}
                                    /\ HasPlace(c.vms[k]) <=> Present(s)[k] # "profiler"
<1>1. /\ c \in Configs /\ Len(c.vms) = Len(Present(s))
      /\ \A k \in 1..Len(Present(s)) : /\ c.vms[k].guest.group = Present(s)[k]
                                       /\ c.vms[k].colours = {}
  BY NewFacts
<1>2. DOMAIN c.vms = 1..Len(c.vms)
  BY <1>1, ConfigParts
<1>3. DOMAIN Present(s) = 1..Len(Present(s))
  <2>1. Present(s) \in Seq(Groups)
    BY PresentFacts
  <2> DEFINE p == Present(s)
  <2> HIDE DEF p
  <2>2. p \in Seq(Groups)
    BY <2>1 DEF p
  <2>3. DOMAIN p = 1..Len(p)
    BY <2>2
  <2> QED  BY <2>3 DEF p
<1> QED
  BY <1>1, <1>2, <1>3 DEF HasPlace

LEMMA ColouredBy ==
  ASSUME NEW s \in Setups, NEW c, New(s, c), NEW w \in Seq(SUBSET Colours)
  PROVE  ColoursOf(Coloured(c, w).vms) = ColoursBy(s, w)
<1> DEFINE D == Coloured(c, w)
           n == Len(c.vms)
<1>1. c \in Configs
  BY DEF New
<1>2. /\ DOMAIN c.vms = DOMAIN Present(s)
      /\ DOMAIN c.vms = 1..n
      /\ \A k \in DOMAIN c.vms : /\ c.vms[k].colours = {}
                                 /\ HasPlace(c.vms[k]) <=> Present(s)[k] # "profiler"
  BY NewIsUncoloured
<1>3. /\ D \in Configs /\ Len(D.vms) = n
      /\ \A k \in 1..n :
           D.vms[k].colours = IF HasPlace(c.vms[k]) /\ k <= Len(w)
                              THEN w[k] ELSE c.vms[k].colours
  BY <1>1, ColouredFacts
<1>4. DOMAIN D.vms = 1..n /\ n \in Nat
  BY <1>1, <1>3, ConfigParts
<1>5. DOMAIN w = 1..Len(w) /\ Len(w) \in Nat
  OBVIOUS
<1> HIDE DEF D, n
<1>6. \A k \in 1..n : D.vms[k].colours =
        IF k \in DOMAIN w /\ Present(s)[k] # "profiler" THEN w[k] ELSE {}
  <2> TAKE k \in 1..n
  <2>1. k \in DOMAIN w <=> k <= Len(w)
    BY <1>4, <1>5
  <2>2. c.vms[k].colours = {} /\ (HasPlace(c.vms[k]) <=> Present(s)[k] # "profiler")
    BY <1>2
  <2> QED  BY <1>3, <2>1, <2>2
<1>7. DOMAIN Present(s) = 1..n
  BY <1>2
<1> QED
  BY <1>4, <1>6, <1>7 DEF ColoursOf, ColoursBy, D

(* A tinted configuration has colours that its setup wants ...             *)
LEMMA ColoursWanted ==
  ASSUME NEW s \in Setups, NEW c, New(s, c), NEW x, Tint(s, c, x)
  PROVE  ColoursOf(x.vms) \in WantedColours(s)
<1>1. CASE Colourings(s) = << >>
  <2>1. x = c /\ Ways(s) = {<< >>}
    BY <1>1, WaysFacts DEF Tint
  <2>2. \A k : ~ (k \in DOMAIN << >>)
    OBVIOUS
  <2>3. /\ DOMAIN c.vms = DOMAIN Present(s)
        /\ \A k \in DOMAIN c.vms : c.vms[k].colours = {}
    BY NewIsUncoloured
  <2>4. ColoursOf(c.vms) = ColoursBy(s, << >>)
    BY <2>2, <2>3 DEF ColoursOf, ColoursBy
  <2> QED  BY <2>1, <2>4, WantedColoursAre
<1>2. CASE Colourings(s) # << >>
  <2>1. PICK k \in DOMAIN Colourings(s) : x = Coloured(c, Colourings(s)[k])
    BY <1>2 DEF Tint
  <2> DEFINE w == Colourings(s)[k]
  <2>2. w \in Ways(s)
    BY <1>2, WaysFacts
  <2>3. w \in Seq(SUBSET Colours)
    <3>1. Colourings(s) \in Seq(Seq(SUBSET Colours))
      BY ColouringsType
    <3> QED  BY <2>1, <3>1, Elements
  <2>4. x = Coloured(c, w)
    BY <2>1
  <2> HIDE DEF w
  <2>5. ColoursOf(x.vms) = ColoursBy(s, w)
    BY <2>3, <2>4, ColouredBy
  <2> QED  BY <2>2, <2>5, WantedColoursAre
<1> QED
  BY <1>1, <1>2

(* ... and all that it wants come.                                         *)
LEMMA WantedColoursCome ==
  ASSUME NEW s \in Setups, NEW c, New(s, c), NEW v \in WantedColours(s)
  PROVE  \E x : Tint(s, c, x) /\ ColoursOf(x.vms) = v
<1>1. PICK w \in Ways(s) : v = ColoursBy(s, w)
  BY WantedColoursAre
<1>2. CASE Colourings(s) = << >>
  <2>1. Ways(s) = {<< >>} /\ Tint(s, c, c)
    BY <1>2, WaysFacts DEF Tint
  <2>2. \A k : ~ (k \in DOMAIN << >>)
    OBVIOUS
  <2>3. /\ DOMAIN c.vms = DOMAIN Present(s)
        /\ \A k \in DOMAIN c.vms : c.vms[k].colours = {}
    BY NewIsUncoloured
  <2>4. ColoursOf(c.vms) = ColoursBy(s, << >>)
    BY <2>2, <2>3 DEF ColoursOf, ColoursBy
  <2> QED  BY <1>1, <2>1, <2>4
<1>3. CASE Colourings(s) # << >>
  <2>1. PICK k \in DOMAIN Colourings(s) : Colourings(s)[k] = w
    BY <1>3, WaysFacts
  <2> DEFINE x == Coloured(c, w)
  <2>2. Tint(s, c, x)
    BY <1>3, <2>1 DEF Tint
  <2>3. w \in Seq(SUBSET Colours)
    <3>1. Colourings(s) \in Seq(Seq(SUBSET Colours))
      BY ColouringsType
    <3> QED  BY <2>1, <3>1, Elements
  <2>4. ColoursOf(x.vms) = v
    BY <1>1, <2>3, ColouredBy
  <2> HIDE DEF x
  <2> QED  BY <2>2, <2>4
<1> QED
  BY <1>2, <1>3

-----------------------------------------------------------------------------
(* What a campaign wants: budgets.                                         *)

(* What limits a name tells.                                               *)
LimitsOf(tag) == {<< tag.guests[b], tag.values[b] >> : b \in DOMAIN tag.guests}
LimitsIn(tags) == UNION {LimitsOf(tag) : tag \in Range(tags)}
LimitsBy(choice) == {<< choice[b].guest, choice[b].budget >> : b \in DOMAIN choice}

LEMMA LimitsAre ==
  ASSUME NEW name
  PROVE  Limits(name) = LimitsIn(name.tags)
BY DEF Limits, LimitsIn, LimitsOf

LEMMA LimitsOfCc ==
  ASSUME NEW colours
  PROVE  LimitsOf(CcTag(colours)) = {}
<1> DEFINE tag == CcTag(colours)
<1>1. tag.guests = << >>
  BY DEF CcTag
<1> HIDE DEF tag
<1>2. \A b : ~ (b \in DOMAIN << >>)
  OBVIOUS
<1>3. \A b : ~ (b \in DOMAIN tag.guests)
  BY <1>1, <1>2
<1>4. LimitsOf(tag) = {}
  BY <1>3 DEF LimitsOf
<1> QED
  BY <1>4 DEF tag

LEMMA LimitsOfMbr ==
  ASSUME NEW choice \in Seq(Budgets)
  PROVE  LimitsOf(MbrTag(choice)) = LimitsBy(choice)
<1> DEFINE tag == MbrTag(choice)
           n == Len(choice)
<1>1. /\ tag \in Tags /\ Len(tag.guests) = n
      /\ \A k \in 1..n : /\ tag.guests[k] = choice[k].guest
                         /\ tag.values[k] = choice[k].budget
  BY MbrTagFacts
<1>2. DOMAIN choice = 1..n
  OBVIOUS
<1> HIDE DEF tag, n
<1>3. DOMAIN tag.guests = 1..n
  <2>1. tag.guests \in Seq(Groups)
    BY <1>1 DEF Tags
  <2> QED  BY <1>1, <2>1
<1>4. LimitsOf(tag) = LimitsBy(choice)
  BY <1>1, <1>2, <1>3 DEF LimitsOf, LimitsBy
<1> QED
  BY <1>4 DEF tag

LEMMA LimitsAppend ==
  ASSUME NEW tags \in Seq(Tags), NEW tag \in Tags
  PROVE  LimitsIn(Append(tags, tag)) = LimitsIn(tags) \cup LimitsOf(tag)
<1> DEFINE a == Append(tags, tag)
           n == Len(tags)
<1>1. n \in Nat /\ DOMAIN tags = 1..n
  OBVIOUS
<1>2. DOMAIN a = 1..(n + 1) /\ a[n + 1] = tag /\ \A t \in 1..n : a[t] = tags[t]
  OBVIOUS
<1> HIDE DEF a, n
<1>3. \A t \in 1..(n + 1) : t = n + 1 \/ t \in 1..n
  BY <1>1
<1>4. (1..n) \cup {n + 1} = 1..(n + 1)
  BY <1>1
<1>5. Range(a) = Range(tags) \cup {tag}
  BY <1>1, <1>2, <1>3, <1>4 DEF Range
<1>6. LimitsIn(a) = LimitsIn(tags) \cup LimitsOf(tag)
  BY <1>5 DEF LimitsIn
<1> QED
  BY <1>6 DEF a

LEMMA LimitsEmpty == LimitsIn(<< >>) = {}
<1>1. \A b : ~ (b \in DOMAIN << >>)
  OBVIOUS
<1>2. Range(<< >>) = {}
  BY <1>1 DEF Range
<1> QED
  BY <1>2 DEF LimitsIn

-----------------------------------------------------------------------------
(* The budgets that EachOnce wants are those that are generated.           *)
SomeOf(s) == {b \in Range(s.budgets) : b.choices # << >>}
Limitings(s) == {{<< b.guest, t[b] >> : b \in DOMAIN t} : t \in WantedBudgets(s)}

LEMMA WantedBudgetsAre ==
  ASSUME NEW s
  PROVE  WantedBudgets(s) =
           {t \in [SomeOf(s) -> UNION {Range(b.choices) : b \in SomeOf(s)}] :
              \A b \in SomeOf(s) : t[b] \in Range(b.choices)}
BY DEF WantedBudgets, SomeOf

LEMMA SomeOfFacts ==
  ASSUME NEW s \in Setups, Dictionaries(s.budgets)
  PROVE  /\ \A k \in 1..Len(Some(s)) : Some(s)[k] \in SomeOf(s)
         /\ \A b \in SomeOf(s) : \E k \in 1..Len(Some(s)) : Some(s)[k] = b
<1>1. /\ \A k \in 1..Len(Some(s)) : Some(s)[k].choices # << >>
      /\ \A k \in 1..Len(Some(s)) : \E i \in DOMAIN s.budgets :
           s.budgets[i] = Some(s)[k]
      /\ \A i \in DOMAIN s.budgets : s.budgets[i].choices # << >> =>
           \E k \in 1..Len(Some(s)) : Some(s)[k] = s.budgets[i]
  BY SomeFacts
<1>2. \A b : b \in SomeOf(s) <=>
        b.choices # << >> /\ \E i \in DOMAIN s.budgets : s.budgets[i] = b
  BY DEF SomeOf, Range
<1> QED
  BY <1>1, <1>2

(* A choice of budgets, and what is chosen in it.                          *)
LEMMA ChoicesAre ==
  ASSUME NEW s \in Setups, Dictionaries(s.budgets), NEW c \in Seq(Budgets)
  PROVE  IsChoice(c, BudgetLists(s), Len(Some(s))) <=>
           /\ Len(c) = Len(Some(s))
           /\ \A k \in 1..Len(Some(s)) :
                /\ c[k].guest = Some(s)[k].guest
                /\ c[k].budget \in Range(Some(s)[k].choices)
<1> DEFINE p == Some(s)
           n == Len(p)
           G == BudgetLists(s)
<1>1. \A k \in 1..n :
        /\ DOMAIN G[k] = DOMAIN p[k].choices
        /\ \A j \in DOMAIN p[k].choices :
             G[k][j] = [guest |-> p[k].guest, budget |-> p[k].choices[j]]
  BY BudgetListsFacts
<1> HIDE DEF p, n, G
<1>2. ASSUME Len(c) = n, NEW k \in 1..n
      PROVE  (\E j \in DOMAIN G[k] : c[k] = G[k][j]) <=>
               c[k].guest = p[k].guest /\ c[k].budget \in Range(p[k].choices)
  <2>1. c[k] \in Budgets
    BY <1>2, Elements
  <2> DEFINE b == c[k]
             g == p[k].guest
             v == p[k].choices
             r(j) == [guest |-> g, budget |-> v[j]]
  <2>2. /\ DOMAIN G[k] = DOMAIN v
        /\ \A j \in DOMAIN v : G[k][j] = r(j)
    BY <1>1
  <2>3. b \in Budgets
    BY <2>1
  <2> HIDE DEF b, g, v
  <2>4. \A j : b = r(j) <=> b.guest = g /\ b.budget = v[j]
    BY <2>3 DEF Budgets
  <2> HIDE DEF r
  <2>5. (\E j \in DOMAIN G[k] : b = G[k][j]) <=> \E j \in DOMAIN v : b = r(j)
    BY <2>2
  <2>6. (\E j \in DOMAIN v : b = r(j)) <=> b.guest = g /\ b.budget \in Range(v)
    BY <2>4 DEF Range
  <2>7. (\E j \in DOMAIN G[k] : b = G[k][j]) <=> b.guest = g /\ b.budget \in Range(v)
    BY <2>5, <2>6
  <2> QED  BY <2>7 DEF b, g, v
<1>3. IsChoice(c, G, n) <=>
        /\ Len(c) = n
        /\ \A k \in 1..n : c[k].guest = p[k].guest /\ c[k].budget \in Range(p[k].choices)
  BY <1>2 DEF IsChoice
<1> QED
  BY <1>3 DEF p, n, G

LEMMA NothingChosen ==
  ASSUME NEW s \in Setups, Dictionaries(s.budgets), Some(s) = << >>
  PROVE  /\ BudgetChoices(s) = << >>
         /\ Limitings(s) = {{}}
<1>1. BudgetChoices(s) = << >>
  BY BudgetChoicesFacts
<1>2. SomeOf(s) = {}
  <2>1. \A k : ~ (k \in 1..Len(<< >>))
    OBVIOUS
  <2> QED  BY <2>1, SomeOfFacts
<1> DEFINE e == [b \in {} |-> b]
<1>3. WantedBudgets(s) = {e}
  <2>1. WantedBudgets(s) = [{} -> {}]
    BY <1>2, WantedBudgetsAre
  <2>2. [{} -> {}] = {e}
    OBVIOUS
  <2> QED  BY <2>1, <2>2
<1>4. {<< b.guest, e[b] >> : b \in DOMAIN e} = {}
  OBVIOUS
<1> HIDE DEF e
<1>5. Limitings(s) = {{<< b.guest, e[b] >> : b \in DOMAIN e}}
  BY <1>3 DEF Limitings
<1> QED
  BY <1>1, <1>4, <1>5

LEMMA ChosenWanted ==
  ASSUME NEW s \in Setups, Dictionaries(s.budgets), NEW c \in Seq(Budgets),
         IsChoice(c, BudgetLists(s), Len(Some(s)))
  PROVE  LimitsBy(c) \in Limitings(s)
<1> DEFINE p == Some(s)
           n == Len(p)
           B == SomeOf(s)
           at(b) == CHOOSE k \in 1..n : p[k] = b
           t == [b \in B |-> c[at(b)].budget]
<1>1. /\ Len(c) = n
      /\ \A k \in 1..n : c[k].guest = p[k].guest /\ c[k].budget \in Range(p[k].choices)
  BY ChoicesAre
<1>2. /\ \A k \in 1..n : p[k] \in B
      /\ \A b \in B : \E k \in 1..n : p[k] = b
  BY SomeOfFacts
<1>3. \A j, k \in 1..n : p[j] = p[k] => j = k
  BY SomeFacts
<1> HIDE DEF p, n, B
<1>4. \A b \in B : at(b) \in 1..n /\ p[at(b)] = b
  BY <1>2
<1>5. \A k \in 1..n : at(p[k]) = k
  BY <1>2, <1>3, <1>4
<1> HIDE DEF at
<1>6. \A b \in B : t[b] \in Range(b.choices)
  <2> TAKE b \in B
  <2> DEFINE k == at(b)
  <2>1. k \in 1..n /\ p[k] = b /\ t[b] = c[k].budget
    BY <1>4
  <2> HIDE DEF k, t
  <2> QED  BY <1>1, <2>1
<1>7. t \in [B -> UNION {Range(b.choices) : b \in B}]
  BY <1>6
<1>8. t \in WantedBudgets(s)
  <2> HIDE DEF t
  <2> QED  BY <1>6, <1>7, WantedBudgetsAre DEF B
<1>9. \A k \in 1..n : t[p[k]] = c[k].budget
  BY <1>2, <1>5
<1>10. DOMAIN t = B /\ DOMAIN c = 1..n
  BY <1>1
<1> HIDE DEF t
<1>11. LimitsBy(c) = {<< b.guest, t[b] >> : b \in DOMAIN t}
  <2>1. ASSUME NEW k \in 1..n
        PROVE  \E b \in B : << c[k].guest, c[k].budget >> = << b.guest, t[b] >>
    <3>1. p[k] \in B /\ c[k].guest = p[k].guest /\ t[p[k]] = c[k].budget
      BY <1>1, <1>2, <1>9
    <3> QED  BY <3>1
  <2>2. ASSUME NEW b \in B
        PROVE  \E k \in 1..n : << c[k].guest, c[k].budget >> = << b.guest, t[b] >>
    <3>1. PICK k \in 1..n : p[k] = b
      BY <1>2
    <3>2. c[k].guest = p[k].guest /\ t[p[k]] = c[k].budget
      BY <1>1, <1>9
    <3> QED  BY <3>1, <3>2
  <2> QED  BY <1>10, <2>1, <2>2 DEF LimitsBy
<1> QED
  BY <1>8, <1>11 DEF Limitings

LEMMA WantedChosen ==
  ASSUME NEW s \in Setups, Dictionaries(s.budgets), Some(s) # << >>,
         NEW l \in Limitings(s)
  PROVE  \E i \in DOMAIN BudgetChoices(s) : LimitsBy(BudgetChoices(s)[i]) = l
<1> DEFINE p == Some(s)
           n == Len(p)
           B == SomeOf(s)
<1>1. PICK t \in WantedBudgets(s) : l = {<< b.guest, t[b] >> : b \in DOMAIN t}
  BY DEF Limitings
<1>2. DOMAIN t = B /\ \A b \in B : t[b] \in Range(b.choices)
  BY WantedBudgetsAre
<1>3. /\ \A k \in 1..n : p[k] \in B
      /\ \A b \in B : \E k \in 1..n : p[k] = b
  BY SomeOfFacts
<1>4. p \in Seq(BudgetRows)
  BY SomeFacts
<1>5. n \in Nat /\ \A k \in 1..n : /\ p[k].guest \in Groups
                                   /\ p[k].choices \in Seq(Nat)
  <2> HIDE DEF p
  <2>1. n \in Nat /\ \A k \in 1..n : p[k] \in BudgetRows
    BY <1>4, Elements
  <2> QED  BY <2>1 DEF BudgetRows
<1> HIDE DEF p, n, B
<1> DEFINE c == [k \in 1..n |-> [guest |-> p[k].guest, budget |-> t[p[k]]]]
<1>6. \A k \in 1..n : /\ c[k].guest = p[k].guest /\ c[k].budget = t[p[k]]
                      /\ c[k] = [guest |-> p[k].guest, budget |-> t[p[k]]]
  OBVIOUS
<1>7. \A k \in 1..n : t[p[k]] \in Nat
  <2> TAKE k \in 1..n
  <2> DEFINE v == p[k].choices
  <2>1. v \in Seq(Nat) /\ t[p[k]] \in Range(v)
    BY <1>2, <1>3, <1>5
  <2> HIDE DEF v
  <2>2. Range(v) \in SUBSET Nat
    BY <2>1 DEF Range
  <2> QED  BY <2>1, <2>2
<1>8. c \in [1..n -> Budgets]
  BY <1>5, <1>7 DEF Budgets
<1> HIDE DEF c
<1>9. c \in Seq(Budgets) /\ Len(c) = n /\ DOMAIN c = 1..n
  BY <1>5, <1>8, MapIsSeq
<1>10. IsChoice(c, BudgetLists(s), n)
  <2>1. \A k \in 1..n : c[k].guest = p[k].guest /\ c[k].budget \in Range(p[k].choices)
    BY <1>2, <1>3, <1>6
  <2> QED  BY <1>9, <2>1, ChoicesAre DEF p, n
<1>11. PICK i \in DOMAIN BudgetChoices(s) : BudgetChoices(s)[i] = c
  <2>1. AllChoices(Budgets, BudgetChoices(s), BudgetLists(s), n)
    BY BudgetChoicesFacts DEF p, n
  <2> QED  BY <1>9, <1>10, <2>1 DEF AllChoices
<1>12. LimitsBy(c) = l
  <2>1. ASSUME NEW k \in 1..n
        PROVE  \E b \in B : << c[k].guest, c[k].budget >> = << b.guest, t[b] >>
    BY <1>3, <1>6
  <2>2. ASSUME NEW b \in B
        PROVE  \E k \in 1..n : << c[k].guest, c[k].budget >> = << b.guest, t[b] >>
    <3>1. PICK k \in 1..n : p[k] = b
      BY <1>3
    <3> QED  BY <1>6, <3>1
  <2> DEFINE given  == {<< c[k].guest, c[k].budget >> : k \in 1..n}
             wanted == {<< b.guest, t[b] >> : b \in B}
  <2>3. given = wanted
    BY <2>1, <2>2
  <2>4. LimitsBy(c) = given
    BY <1>9 DEF LimitsBy
  <2>5. l = wanted
    BY <1>1, <1>2
  <2> QED  BY <2>3, <2>4, <2>5
<1> QED
  BY <1>11, <1>12

-----------------------------------------------------------------------------
LEMMA PlainLimits ==
  ASSUME NEW s \in Setups, NEW c \in Configs, FullyNamed(c), NEW x, Tint(s, c, x)
  PROVE  /\ x \in Configs /\ x.name.tags \in Seq(Tags)
         /\ LimitsIn(x.name.tags) = {}
<1>1. /\ x \in Configs
      /\ \/ x.name = c.name
         \/ \E colours \in Seq(SUBSET Colours) :
              x.name.tags = Append(c.name.tags, CcTag(colours))
  BY TintFacts
<1>2. c.name.tags = << >>
  BY DEF FullyNamed
<1>3. x.name.tags \in Seq(Tags) /\ c.name.tags \in Seq(Tags)
  BY <1>1, ConfigParts
<1>4. CASE x.name = c.name
  BY <1>1, <1>2, <1>3, <1>4, LimitsEmpty
<1>5. ASSUME NEW colours \in Seq(SUBSET Colours),
             x.name.tags = Append(c.name.tags, CcTag(colours))
      PROVE  LimitsIn(x.name.tags) = {}
  <2> DEFINE u == c.name.tags
             tag == CcTag(colours)
  <2>1. u \in Seq(Tags) /\ tag \in Tags /\ LimitsIn(u) = {} /\ LimitsOf(tag) = {}
    BY <1>2, <1>3, CcTagFacts, LimitsEmpty, LimitsOfCc
  <2>2. x.name.tags = Append(u, tag)
    BY <1>5
  <2> HIDE DEF u, tag
  <2> QED  BY <2>1, <2>2, LimitsAppend
<1> QED
  BY <1>1, <1>3, <1>4, <1>5

LEMMA LimitedBy ==
  ASSUME NEW x \in Configs, NEW choice \in Seq(Budgets), LimitsIn(x.name.tags) = {}
  PROVE  Limits(Limited(x, choice).name) = LimitsBy(choice)
<1> DEFINE y == Limited(x, choice)
           u == x.name.tags
           tag == MbrTag(choice)
<1>1. y.name.tags = Append(u, tag)
  BY LimitedFacts
<1>2. u \in Seq(Tags) /\ tag \in Tags /\ LimitsOf(tag) = LimitsBy(choice)
      /\ LimitsIn(u) = {}
  BY ConfigParts, MbrTagFacts, LimitsOfMbr
<1> HIDE DEF y, u, tag
<1>3. LimitsIn(y.name.tags) = LimitsBy(choice)
  BY <1>1, <1>2, LimitsAppend
<1>4. Limits(y.name) = LimitsBy(choice)
  BY <1>3, LimitsAre
<1> QED
  BY <1>4 DEF y

(* A limited configuration has budgets that its setup wants ...            *)
LEMMA BudgetsWanted ==
  ASSUME NEW s \in Setups, Dictionaries(s.budgets),
         NEW x \in Configs, LimitsIn(x.name.tags) = {}, NEW y, Limit(s, x, y)
  PROVE  Limits(y.name) \in Limitings(s)
<1>1. CASE Some(s) = << >>
  <2>1. BudgetChoices(s) = << >> /\ Limitings(s) = {{}}
    BY <1>1, NothingChosen
  <2>2. y = x
    BY <2>1 DEF Limit
  <2> QED  BY <2>1, <2>2, LimitsAre
<1>2. CASE Some(s) # << >>
  <2> DEFINE C == BudgetChoices(s)
  <2>1. AllChoices(Budgets, C, BudgetLists(s), Len(Some(s)))
    BY <1>2, BudgetChoicesFacts
  <2>2. \A l \in Limitings(s) : \E i \in DOMAIN C : LimitsBy(C[i]) = l
    BY <1>2, WantedChosen
  <2>3. CASE C # << >>
    <3>1. PICK i \in DOMAIN C : y = Limited(x, C[i])
      BY <2>3 DEF Limit
    <3> DEFINE c == C[i]
    <3>2. c \in Seq(Budgets) /\ IsChoice(c, BudgetLists(s), Len(Some(s)))
      BY <2>1, <3>1, Elements DEF AllChoices
    <3>3. y = Limited(x, c)
      BY <3>1
    <3> HIDE DEF c
    <3>4. Limits(y.name) = LimitsBy(c)
      BY <3>2, <3>3, LimitedBy
    <3> QED  BY <3>2, <3>4, ChosenWanted
  <2>4. C # << >>
    <3>1. \E l : l \in Limitings(s)
      <4> DEFINE B == SomeOf(s)
                 t == [b \in B |-> b.choices[1]]
      <4>1. \A b \in B : b.choices[1] \in Range(b.choices)
        <5> TAKE b \in B
        <5>1. PICK k \in 1..Len(Some(s)) : Some(s)[k] = b
          BY SomeOfFacts
        <5>2. b \in BudgetRows /\ b.choices # << >>
          BY <5>1, SomeFacts, Elements
        <5>3. b.choices \in Seq(Nat)
          BY <5>2 DEF BudgetRows
        <5>4. 1 \in DOMAIN b.choices
          BY <5>2, <5>3
        <5> QED  BY <5>4 DEF Range
      <4> HIDE DEF B
      <4>2. t \in [B -> UNION {Range(b.choices) : b \in B}]
        BY <4>1
      <4>3. \A b \in B : t[b] \in Range(b.choices)
        BY <4>1
      <4> HIDE DEF t
      <4>4. t \in WantedBudgets(s)
        BY <4>2, <4>3, WantedBudgetsAre DEF B
      <4>5. {<< b.guest, t[b] >> : b \in DOMAIN t} \in Limitings(s)
        BY <4>4 DEF Limitings
      <4> QED  BY <4>5
    <3>2. \E i : i \in DOMAIN C
      BY <2>2, <3>1
    <3> HIDE DEF C
    <3>3. \A i : ~ (i \in DOMAIN << >>)
      OBVIOUS
    <3> QED  BY <3>2, <3>3
  <2> QED  BY <2>3, <2>4
<1> QED
  BY <1>1, <1>2

(* ... and all that it wants come.                                         *)
LEMMA WantedBudgetsCome ==
  ASSUME NEW s \in Setups, Dictionaries(s.budgets),
         NEW x \in Configs, LimitsIn(x.name.tags) = {}, NEW l \in Limitings(s)
  PROVE  \E y : Limit(s, x, y) /\ Limits(y.name) = l
<1>1. CASE Some(s) = << >>
  <2>1. BudgetChoices(s) = << >> /\ Limitings(s) = {{}}
    BY <1>1, NothingChosen
  <2>2. Limit(s, x, x)
    BY <2>1 DEF Limit
  <2>3. Limits(x.name) = l
    BY <2>1, LimitsAre
  <2> QED  BY <2>2, <2>3
<1>2. CASE Some(s) # << >>
  <2> DEFINE C == BudgetChoices(s)
  <2>1. PICK i \in DOMAIN C : LimitsBy(C[i]) = l
    BY <1>2, WantedChosen
  <2>2. C # << >>
    <3>1. \A j : ~ (j \in DOMAIN << >>)
      OBVIOUS
    <3> HIDE DEF C
    <3> QED  BY <2>1, <3>1
  <2> DEFINE c == C[i]
             y == Limited(x, c)
  <2>3. Limit(s, x, y)
    BY <2>2 DEF Limit
  <2>4. c \in Seq(Budgets)
    <3>1. C \in Seq(Seq(Budgets))
      BY BudgetChoicesFacts
    <3> HIDE DEF C
    <3> QED  BY <2>1, <3>1
  <2>5. LimitsBy(c) = l
    BY <2>1
  <2> HIDE DEF c
  <2>6. Limits(y.name) = l
    BY <2>4, <2>5, LimitedBy
  <2> HIDE DEF y
  <2> QED  BY <2>3, <2>6
<1> QED
  BY <1>1, <1>2

-----------------------------------------------------------------------------
(* Every setup is covered.                                                 *)

(* Two colourings have different tags, unless two that are listed have the *)
(* same counts.                                                            *)
LEMMA SameTagsSameCounts ==
  ASSUME NEW a \in Seq(SUBSET Colours), NEW b \in Seq(SUBSET Colours),
         CcTag(a) = CcTag(b)
  PROVE  /\ Len(a) = Len(b)
         /\ \A k \in 1..Len(a) : Cardinality(a[k]) = Cardinality(b[k])
<1> DEFINE s == CcTag(a)
           t == CcTag(b)
<1>1. /\ Len(s.values) = Len(a)
      /\ \A k \in 1..Len(a) : s.values[k] = Cardinality(a[k])
  BY CcTagFacts
<1>2. /\ Len(t.values) = Len(b)
      /\ \A k \in 1..Len(b) : t.values[k] = Cardinality(b[k])
  BY CcTagFacts
<1>3. s = t
  OBVIOUS
<1> HIDE DEF s, t
<1> QED
  BY <1>1, <1>2, <1>3

(* Unless two listed colourings have the same counts, tags tell colourings *)
(* apart.                                                                  *)
LEMMA TagsTell ==
  ASSUME NEW s \in Setups, ~ SameCounts(s)
  PROVE  TagsDiffer(s)
<1> DEFINE C == Colourings(s)
<1>1. C \in Seq(Seq(SUBSET Colours))
  BY ColouringsType
<1>2. SUFFICES ASSUME NEW j \in DOMAIN C, NEW k \in DOMAIN C, CcTag(C[j]) = CcTag(C[k])
               PROVE  j = k
  BY DEF TagsDiffer
<1>3. C[j] \in Seq(SUBSET Colours) /\ C[k] \in Seq(SUBSET Colours)
  <2> HIDE DEF C
  <2> QED  BY <1>1, <1>2
<1>4. /\ Len(C[j]) = Len(C[k])
      /\ \A i \in 1..Len(C[j]) : Cardinality(C[j][i]) = Cardinality(C[k][i])
  <2> DEFINE a == C[j]
             b == C[k]
  <2>1. a \in Seq(SUBSET Colours) /\ b \in Seq(SUBSET Colours) /\ CcTag(a) = CcTag(b)
    BY <1>2, <1>3
  <2> HIDE DEF a, b
  <2>2. Len(a) = Len(b) /\ \A i \in 1..Len(a) : Cardinality(a[i]) = Cardinality(b[i])
    BY <2>1, SameTagsSameCounts
  <2> QED  BY <2>2 DEF a, b
<1>5. CASE ~ s.colouring
  <2>1. C = << >>
    BY <1>5 DEF Colourings
  <2>2. \A i : ~ (i \in DOMAIN << >>)
    OBVIOUS
  <2> HIDE DEF C
  <2> QED  BY <1>2, <2>1, <2>2
<1>6. CASE s.colouring /\ s.listed # << >>
  <2>1. C = s.listed
    BY <1>6 DEF Colourings
  <2>2. DOMAIN C[j] = 1..Len(C[j])
    BY <1>3
  <2> HIDE DEF C
  <2>3. j \in DOMAIN s.listed /\ k \in DOMAIN s.listed
    BY <1>2, <2>1
  <2>4. /\ Len(s.listed[j]) = Len(s.listed[k])
        /\ \A i \in DOMAIN s.listed[j] :
             Cardinality(s.listed[j][i]) = Cardinality(s.listed[k][i])
    BY <1>4, <2>1, <2>2
  <2> QED  BY <2>3, <2>4 DEF SameCounts
<1>7. CASE s.colouring /\ s.listed = << >>
  <2> DEFINE n == NumVms(s)
  <2>1. C = Assignments(n)
    BY <1>7 DEF Colourings
  <2>2. n \in Nat /\ n > 0
    BY NumVmsFacts
  <2> HIDE DEF n, C
  <2>3. /\ DOMAIN C = 1..Cardinality(Wide(n))
        /\ \A i \in DOMAIN C : \E p \in Wide(n) : C[i] = SharesOf(p, n)
        /\ \A h, i \in DOMAIN C : C[h] = C[i] => h = i
    <3> DEFINE m == Cardinality(Wide(n))
    <3>1. /\ DOMAIN C = 1..m
          /\ \A i \in 1..m : \E p \in Wide(n) : C[i] = SharesOf(p, n)
          /\ \A h, i \in 1..m : C[h] = C[i] => h = i
      BY <2>1, <2>2, AssignmentsFacts
    <3> HIDE DEF m
    <3> QED  BY <3>1 DEF m
  <2>4. PICK p \in Wide(n) : C[j] = SharesOf(p, n)
    BY <1>2, <2>3
  <2>5. PICK q \in Wide(n) : C[k] = SharesOf(q, n)
    BY <1>2, <2>3
  <2>6. Len(C[j]) = n
    BY <2>2, <2>4, SharesFacts
  <2>7. \A i \in 1..n : Cardinality(SharesOf(p, n)[i]) = Cardinality(SharesOf(q, n)[i])
    BY <1>4, <2>4, <2>5, <2>6
  <2>8. p = q
    BY <2>2, <2>7, CountsTell
  <2>9. C[j] = C[k]
    BY <2>4, <2>5, <2>8
  <2> QED  BY <1>2, <2>3, <2>9
<1> QED
  BY <1>5, <1>6, <1>7

-----------------------------------------------------------------------------
(* What a configuration is about, with its name.                           *)
Subject(y) == << GuestsOf(y.vms), ColoursOf(y.vms), Limits(y.name) >>

LEMMA WantedAre ==
  ASSUME NEW s
  PROVE  Wanted(s) = WantedGuests(s) \X WantedColours(s) \X Limitings(s)
BY DEF Wanted, Limitings

(* What is generated is about something the setup wants ...                *)
LEMMA SubjectsWanted ==
  ASSUME NEW s \in Setups, Dictionaries(s.budgets), listConfigs = << >>,
         NEW y, ComesFrom(s, y)
  PROVE  Subject(y) \in Wanted(s)
<1>1. PICK c \in Configs, x \in Configs :
        /\ New(s, c) /\ Tint(s, c, x) /\ Limit(s, x, y)
        /\ FullyNamed(c)
  BY DEF ComesFrom
<1>2. SameGuests(c, x) /\ y \in Configs /\ SameGuests(x, y)
      /\ \A k \in 1..Len(x.vms) : y.vms[k].colours = x.vms[k].colours
  BY <1>1, TintFacts, LimitFacts
<1>3. GuestsOf(y.vms) = GuestsOf(c.vms)
  BY <1>1, <1>2, SameGuestsFacts
<1>4. ColoursOf(y.vms) = ColoursOf(x.vms)
  <2>1. DOMAIN y.vms = 1..Len(x.vms) /\ DOMAIN x.vms = 1..Len(x.vms)
    BY <1>1, <1>2, ConfigParts DEF SameGuests
  <2> QED  BY <1>2, <2>1 DEF ColoursOf
<1>5. GuestsOf(c.vms) \in WantedGuests(s)
  BY <1>1, GuestsWanted
<1>6. ColoursOf(x.vms) \in WantedColours(s)
  BY <1>1, ColoursWanted
<1>7. Limits(y.name) \in Limitings(s)
  <2>1. LimitsIn(x.name.tags) = {}
    BY <1>1, PlainLimits
  <2> QED  BY <1>1, <2>1, BudgetsWanted
<1> QED
  BY <1>3, <1>4, <1>5, <1>6, <1>7, WantedAre DEF Subject

(* ... and about all that it wants.                                        *)
LEMMA WantedCome ==
  ASSUME NEW s \in Setups, Dictionaries(s.budgets), listConfigs = << >>,
         NEW w \in Wanted(s)
  PROVE  \E i \in DOMAIN Mitigated(s) : Subject(Mitigated(s)[i]) = w
<1>1. PICK g \in WantedGuests(s), v \in WantedColours(s), l \in Limitings(s) :
        w = << g, v, l >>
  BY WantedAre
<1>2. listConfigs \in Seq(Names)
  <2>1. << >> \in Seq(Names)
    OBVIOUS
  <2> QED  BY <2>1
<1>3. PICK a \in DOMAIN Named(s) : GuestsOf(Named(s)[a].vms) = g
  BY WantedGuestsCome
<1> DEFINE c == Named(s)[a]
<1>4. New(s, c) /\ FullyNamed(c)
  <2>1. New(s, c)
    BY <1>2, <1>3, NamedFacts
  <2>2. FullyNamed(c)
    BY <1>2, <1>3, NamedFacts
  <2> QED  BY <2>1, <2>2
<1>5. c \in Configs /\ GuestsOf(c.vms) = g
  BY <1>3, <1>4 DEF New
<1>6. \A x, y : Tint(s, c, x) /\ Limit(s, x, y) =>
        \E i \in DOMAIN Mitigated(s) : Mitigated(s)[i] = y
  BY <1>2, <1>3, MitigatedFacts
<1> HIDE DEF c
<1>7. PICK x : Tint(s, c, x) /\ ColoursOf(x.vms) = v
  BY <1>4, WantedColoursCome
<1>8. x \in Configs /\ LimitsIn(x.name.tags) = {}
  BY <1>4, <1>5, <1>7, PlainLimits
<1>9. PICK y : Limit(s, x, y) /\ Limits(y.name) = l
  BY <1>8, WantedBudgetsCome
<1>10. SameGuests(c, x) /\ y \in Configs /\ SameGuests(x, y)
       /\ \A k \in 1..Len(x.vms) : y.vms[k].colours = x.vms[k].colours
  BY <1>5, <1>7, <1>8, <1>9, TintFacts, LimitFacts
<1>11. GuestsOf(y.vms) = g
  BY <1>5, <1>8, <1>10, SameGuestsFacts
<1>12. ColoursOf(y.vms) = v
  <2>1. DOMAIN y.vms = 1..Len(x.vms) /\ DOMAIN x.vms = 1..Len(x.vms)
    BY <1>8, <1>10, ConfigParts DEF SameGuests
  <2> QED  BY <1>7, <1>10, <2>1 DEF ColoursOf
<1>13. PICK i \in DOMAIN Mitigated(s) : Mitigated(s)[i] = y
  BY <1>6, <1>7, <1>9
<1>14. Subject(y) = w
  BY <1>1, <1>9, <1>11, <1>12 DEF Subject
<1> QED
  BY <1>13, <1>14

-----------------------------------------------------------------------------
(* Of a campaign of one setup: what is in the list, once it is made, and   *)
(* at last in the plan.                                                    *)
TestedOnce(names) ==
  /\ \A i, j \in DOMAIN names : i # j => names[i] # names[j]
  /\ \A i \in DOMAIN names : << 1, names[i] >> \in DOMAIN files
  /\ {About(names[i]) : i \in DOMAIN names} = Wanted(campaign[1])
Complete ==
  /\ Len(campaign) = 1 /\ pc # "generate" /\ ~ SameCounts(campaign[1]) =>
       TestedOnce(listConfigs)
  /\ Len(campaign) = 1 /\ pc = "test" => plan = listConfigs

LEMMA CompleteMeans ==
  ASSUME Complete
  PROVE  EachOnce
BY DEF Complete, TestedOnce, EachOnce

LEMMA FlattenOne ==
  ASSUME NEW S, NEW rows \in Seq(S), Len(rows) = 1
  PROVE  FlattenSeq(rows) = rows[1]
<1> DEFINE UpTo(f) == f = [i \in 1..1 |->
                             IF i = 1 THEN rows[i] ELSE f[i - 1] \o rows[i]]
           upTo == CHOOSE f : UpTo(f)
           g == [i \in 1..1 |-> rows[1]]
<1>1. FlattenSeq(rows) = upTo[1]
  BY DEF FlattenSeq
<1>2. UpTo(g)
  <2>1. \A i \in 1..1 : i = 1
    OBVIOUS
  <2>2. g = [i \in 1..1 |-> IF i = 1 THEN rows[i] ELSE g[i - 1] \o rows[i]]
    BY <2>1
  <2> QED  BY <2>2
<1>3. UpTo(upTo)
  <2> HIDE DEF UpTo, g
  <2> QED  BY <1>2
<1>4. \A f : UpTo(f) => f[1] = rows[1]
  OBVIOUS
<1>5. upTo[1] = rows[1]
  <2> HIDE DEF UpTo
  <2> QED  BY <1>3, <1>4
<1> QED
  BY <1>1, <1>5

LEMMA CompleteInit == Init => Complete
<1> SUFFICES ASSUME Init
             PROVE  Complete
  OBVIOUS
<1>1. pc = "generate"
  BY DEF Init
<1> QED
  BY <1>1 DEF Complete

(* What is written of the only setup is what its list names.               *)
LEMMA GenerateOnce ==
  ASSUME Typed, Truthful, GenerateTests, Len(campaign) = 1,
         ~ SameCounts(campaign[1])
  PROVE  TestedOnce(listConfigs)'
<1> DEFINE s == campaign[1]
           M == Mitigated(s)
           W == Written(M)
           l == [i \in DOMAIN M |-> M[i].name]
<1>1. setup = 1 /\ pc = "generate" /\ listConfigs = << >> /\ campaign' = campaign
  <2>1. setup \in 1..1 /\ campaign \in Campaigns
    BY CampaignFacts DEF Typed
  <2>2. setup = 1
    BY <2>1
  <2>3. pc = "generate" /\ campaign' = campaign
    BY DEF GenerateTests
  <2> QED  BY <2>2, <2>3 DEF Truthful
<1>2. s \in Setups /\ Dictionaries(s.budgets) /\ listConfigs \in Seq(Names)
  BY CampaignFacts DEF Typed
<1>3. listConfigs' = << >> \o l /\ files' = Over(W, files)
  BY <1>1 DEF GenerateTests, NoNames
<1>4. TagsDiffer(s)
  BY <1>2, TagsTell
<1> HIDE DEF s
<1>5. M \in Seq(Configs) /\ \A i \in DOMAIN M : ComesFrom(s, M[i])
  BY <1>2, GeneratedFacts
<1>6. \A i, j \in DOMAIN M : M[i].name = M[j].name => i = j
  BY <1>2, <1>4, MitigatedFacts
<1>7. \A i \in DOMAIN M : Subject(M[i]) \in Wanted(s)
  BY <1>1, <1>2, <1>5, SubjectsWanted
<1>8. \A w \in Wanted(s) : \E i \in DOMAIN M : Subject(M[i]) = w
  BY <1>1, <1>2, WantedCome
<1> HIDE DEF M
<1>9. /\ \A key \in DOMAIN W : \E i \in DOMAIN M : /\ M[i].name = key[2]
                                                 /\ W[key] = M[i].vms
      /\ \A i \in DOMAIN M : << 1, M[i].name >> \in DOMAIN W
  BY <1>1, <1>5, WrittenFacts
<1> HIDE DEF W
<1>10. l \in Seq(Names) /\ DOMAIN l = DOMAIN M /\ \A i \in DOMAIN M : l[i] = M[i].name
  <2>1. DOMAIN M = 1..Len(M) /\ Len(M) \in Nat /\ \A i \in 1..Len(M) : M[i] \in Configs
    BY <1>5, Elements
  <2>2. \A i \in 1..Len(M) : M[i].name \in Names
    BY <2>1, ConfigParts
  <2>3. l \in [1..Len(M) -> Names]
    BY <2>1, <2>2
  <2>4. \A i \in DOMAIN M : l[i] = M[i].name
    OBVIOUS
  <2>5. DOMAIN l = DOMAIN M
    OBVIOUS
  <2> HIDE DEF l
  <2> QED  BY <2>1, <2>3, <2>4, <2>5, MapIsSeq
<1> HIDE DEF l
<1>11. listConfigs' = l
  <2>1. << >> \o l = l
    BY <1>10
  <2> QED  BY <1>3, <2>1
<1>12. /\ DOMAIN W \subseteq DOMAIN files'
       /\ \A key \in DOMAIN W : files'[key] = W[key]
  BY <1>3 DEF Over
<1>13. \A i \in DOMAIN M : /\ << 1, l[i] >> \in DOMAIN files'
                           /\ files'[<< 1, l[i] >>] = M[i].vms
  <2> TAKE i \in DOMAIN M
  <2> DEFINE key == << 1, M[i].name >>
  <2>1. key \in DOMAIN W /\ key[2] = M[i].name
    BY <1>9
  <2>2. << 1, l[i] >> = key
    BY <1>10
  <2> HIDE DEF key
  <2>3. PICK j \in DOMAIN M : M[j].name = key[2] /\ W[key] = M[j].vms
    BY <1>9, <2>1
  <2>4. j = i
    BY <1>6, <2>1, <2>3
  <2> QED  BY <1>12, <2>1, <2>2, <2>3, <2>4
<1>14. ASSUME NEW i \in DOMAIN M
       PROVE  About(listConfigs[i])' = Subject(M[i])
  <2> DEFINE name == M[i].name
             vms  == M[i].vms
  <2>1. files'[<< 1, listConfigs'[i] >>] = vms /\ listConfigs'[i] = name
    BY <1>10, <1>11, <1>13
  <2> HIDE DEF name, vms
  <2>2. About(listConfigs[i])' =
          << [k \in DOMAIN vms |-> vms[k].guest],
             [k \in DOMAIN vms |-> vms[k].colours], Limits(name) >>
    BY <2>1 DEF About, Limits
  <2> QED
    BY <2>2 DEF Subject, GuestsOf, ColoursOf, name, vms
<1>15. DOMAIN listConfigs' = DOMAIN M
  BY <1>10, <1>11
<1>16. \A i, j \in DOMAIN M : i # j => listConfigs'[i] # listConfigs'[j]
  BY <1>6, <1>10, <1>11
<1>17. \A i \in DOMAIN M : << 1, listConfigs'[i] >> \in DOMAIN files'
  BY <1>11, <1>13
<1>18. Wanted(campaign[1])' = Wanted(s)
  BY <1>1 DEF Wanted, WantedGuests, WantedColours, WantedBudgets, NumVms,
              HasProfiler, Present, Shares, s
<1> DEFINE about(i) == About(listConfigs[i])'
<1>19. {about(i) : i \in DOMAIN listConfigs'} = Wanted(s)
  <2>1. \A i \in DOMAIN M : about(i) = Subject(M[i])
    BY <1>14
  <2> HIDE DEF about
  <2> QED  BY <1>7, <1>8, <1>15, <2>1
<1>20. {About(listConfigs[i]) : i \in DOMAIN listConfigs}' = Wanted(s)
  BY <1>19
<1> QED
  BY <1>15, <1>16, <1>17, <1>18, <1>20 DEF TestedOnce

(* TestedOnce depends on the campaign, the directories and the list only.  *)
LEMMA OnceKept ==
  ASSUME campaign' = campaign, files' = files, listConfigs' = listConfigs
  PROVE  /\ TestedOnce(listConfigs) => TestedOnce(listConfigs)'
         /\ SameCounts(campaign[1])' <=> SameCounts(campaign[1])
<1>1. Wanted(campaign[1])' = Wanted(campaign[1])
  BY DEF Wanted, WantedGuests, WantedColours, WantedBudgets, NumVms,
         HasProfiler, Present, Shares
<1>2. \A i : About(listConfigs[i])' = About(listConfigs[i])
  BY DEF About, Limits
<1>3. {About(listConfigs[i]) : i \in DOMAIN listConfigs}'
        = {About(listConfigs[i]) : i \in DOMAIN listConfigs}
  BY <1>2
<1> QED
  BY <1>1, <1>3 DEF TestedOnce, SameCounts

(* Every step keeps the list, and then the plan, complete.                 *)
LEMMA CompleteStep ==
  Typed /\ Truthful /\ Complete /\ [Next]_vars => Complete'
<1> SUFFICES ASSUME Typed, Truthful, Complete, [Next]_vars
             PROVE  Complete'
  OBVIOUS
<1>1. /\ Len(campaign) = 1 /\ pc # "generate" /\ ~ SameCounts(campaign[1]) =>
           TestedOnce(listConfigs)
      /\ Len(campaign) = 1 /\ pc = "test" => plan = listConfigs
  BY DEF Complete
<1>2. ASSUME GenerateTests
      PROVE  Complete'
  <2>1. campaign' = campaign /\ pc' = "build"
    BY <1>2 DEF GenerateTests
  <2>2. SameCounts(campaign[1])' <=> SameCounts(campaign[1])
    BY <2>1 DEF SameCounts
  <2>3. Len(campaign) = 1 /\ ~ SameCounts(campaign[1]) => TestedOnce(listConfigs)'
    BY <1>2, GenerateOnce
  <2> QED  BY <2>1, <2>2, <2>3 DEF Complete
<1>3. ASSUME BuildTests
      PROVE  Complete'
  <2>1. /\ campaign' = campaign /\ files' = files /\ listConfigs' = listConfigs
        /\ pc = "build" /\ pc' # "test"
        /\ setup < Len(campaign) \/ pc' = "list"
    BY <1>3 DEF BuildTests
  <2>2. Len(campaign) = 1 => pc' = "list"
    <3>1. setup \in DOMAIN campaign
      BY DEF Typed
    <3> QED  BY <2>1, <3>1, CampaignFacts DEF Typed
  <2>3. /\ TestedOnce(listConfigs) => TestedOnce(listConfigs)'
        /\ SameCounts(campaign[1])' <=> SameCounts(campaign[1])
    BY <2>1, OnceKept
  <2> QED  BY <1>1, <2>1, <2>2, <2>3 DEF Complete
<1>4. ASSUME ListImages
      PROVE  Complete'
  <2>1. /\ campaign' = campaign /\ files' = files /\ listConfigs' = listConfigs
        /\ pc = "list" /\ pc' = "test"
        /\ plan' = FlattenSeq([i \in DOMAIN campaign |-> listConfigs])
    BY <1>4 DEF ListImages
  <2>2. /\ TestedOnce(listConfigs) => TestedOnce(listConfigs)'
        /\ SameCounts(campaign[1])' <=> SameCounts(campaign[1])
    BY <2>1, OnceKept
  <2>3. Len(campaign) = 1 => plan' = listConfigs
    <3> DEFINE rows == [i \in DOMAIN campaign |-> listConfigs]
    <3>1. SUFFICES ASSUME Len(campaign) = 1
                   PROVE  plan' = listConfigs
      OBVIOUS
    <3>2. DOMAIN campaign = 1..1
      BY <3>1, CampaignFacts DEF Typed
    <3>3. rows = [i \in 1..1 |-> listConfigs]
      BY <3>2
    <3>4. rows[1] = listConfigs
      BY <3>3
    <3>5. plan' = FlattenSeq(rows)
      BY <2>1
    <3>6. rows \in Seq({listConfigs}) /\ Len(rows) = 1
      <4> DEFINE m == 1
                 T == {listConfigs}
      <4>1. m \in Nat /\ rows \in [1..m -> T]
        BY <3>3
      <4> HIDE DEF m, T, rows
      <4>2. rows \in Seq(T) /\ Len(rows) = m
        BY <4>1, MapIsSeq
      <4> QED  BY <4>2 DEF m, T
    <3> HIDE DEF rows
    <3> QED  BY <3>4, <3>5, <3>6, FlattenOne
  <2> QED  BY <1>1, <2>1, <2>2, <2>3 DEF Complete
<1>5. ASSUME LaunchTest \/ UNCHANGED vars
      PROVE  Complete'
  <2>1. /\ campaign' = campaign /\ files' = files /\ listConfigs' = listConfigs
        /\ pc' = pc /\ plan' = plan
    BY <1>5 DEF LaunchTest, vars
  <2>2. /\ TestedOnce(listConfigs) => TestedOnce(listConfigs)'
        /\ SameCounts(campaign[1])' <=> SameCounts(campaign[1])
    BY <2>1, OnceKept
  <2> QED  BY <1>1, <2>1, <2>2 DEF Complete
<1> QED
  BY <1>2, <1>3, <1>4, <1>5 DEF Next

(* EachOnce for every campaign: a setup alone, without two colourings of   *)
(* the same counts, has every combination of variants, colours and budgets *)
(* in the plan, each exactly once and under a name of its own.             *)
THEOREM EverySetupCovered == Spec => []EachOnce
<1>1. Init => Safe /\ Complete
  BY TypedInit, TruthfulInit, ColouredInit, CompleteInit DEF Safe
<1>2. Safe /\ Complete /\ [Next]_vars => (Safe /\ Complete)'
  BY TypedStep, TruthfulStep, ColouredStep, CompleteStep DEF Safe
<1>3. Safe /\ Complete => EachOnce
  BY CompleteMeans
<1> QED
  BY <1>1, <1>2, <1>3, PTL DEF Spec
=============================================================================
