---------------------------- MODULE Miner_proofs ----------------------------
(***************************************************************************)
(* What holds of the miner for any corpus: the doubling rounds sort the    *)
(* suffixes of the text, Kasai's scan finds the common prefixes of the     *)
(* neighbours, and the stack of intervals is what the comment beside it    *)
(* says, so that a pop never finds it empty and a closed interval shares   *)
(* the tokens it is emitted with.  Hence the candidates are exact, and no  *)
(* sequence that repeats is lost on the way to the output.                 *)
(*                                                                         *)
(* In this order: orders and sorts; the sorted suffixes; sequences; the    *)
(* stack (IInv); sorting and scanning (SInv); a text with its sentinels;   *)
(* intervals of neighbours; the stack and the blocks it has still to emit  *)
(* (FInv); the buckets and the output (GInv).                              *)
(***************************************************************************)
EXTENDS Miner, FiniteSetTheorems, SequenceTheorems, WellFoundedInduction, TLAPS

-----------------------------------------------------------------------------
(***************************************************************************)
(* Two suffixes i and j of a text c of N tokens: they share their first m  *)
(* tokens; they share x and i has the smaller token there; i is the        *)
(* smaller within the first k tokens.                                      *)
(***************************************************************************)
Share(c, N, i, j, m) ==
  \A x \in 0..(m - 1) : i + x <= N /\ j + x <= N /\ c[i + x] = c[j + x]
LessAt(c, N, i, j, x) ==
  Share(c, N, i, j, x) /\ i + x <= N /\ j + x <= N /\ c[i + x] < c[j + x]
Smaller(c, N, i, j, k) == \E x \in 0..(k - 1) : LessAt(c, N, i, j, x)

(***************************************************************************)
(* The last token, a sentinel, occurs nowhere else.                        *)
(***************************************************************************)
Text(c, N) == N \in Nat \ {0} /\ c \in [1..N -> Int] /\ \A p \in 1..(N - 1) : c[p] # c[N]

LessThan == {p \in Nat \X Nat : p[1] < p[2]}

LEMMA Least ==
  ASSUME NEW T \in SUBSET Nat, T # {}
  PROVE  \E x \in T : \A y \in T : x <= y
<1>1. IsWellFoundedOn(LessThan, Nat)
  BY NatLessThanWellFounded, Zenon DEF LessThan, OpToRel
<1>2. PICK x \in T : \A y \in T : ~(<<y, x>> \in LessThan)
  BY <1>1, WFMin
<1>3. ASSUME NEW y \in T PROVE x <= y
  <2>1. ~(<<y, x>> \in LessThan)
    BY <1>2
  <2> QED BY <2>1 DEF LessThan
<1> QED BY <1>3

LEMMA ShareLess ==
  ASSUME NEW c, NEW N, NEW i, NEW j, NEW m \in Nat, NEW k \in Nat, k <= m,
         Share(c, N, i, j, m)
  PROVE  Share(c, N, i, j, k)
<1>1. \A x \in 0..(k - 1) : x \in 0..(m - 1)
  OBVIOUS
<1> QED BY <1>1 DEF Share

LEMMA ShareOneMore ==
  ASSUME NEW c, NEW N, NEW i, NEW j, NEW m \in Nat,
         Share(c, N, i, j, m), i + m <= N, j + m <= N, c[i + m] = c[j + m]
  PROVE  Share(c, N, i, j, m + 1)
<1>1. \A x \in 0..((m + 1) - 1) : x = m \/ x \in 0..(m - 1)
  OBVIOUS
<1> QED BY <1>1 DEF Share

LEMMA SomewhereLess ==
  ASSUME NEW c, NEW N, Text(c, N), NEW i \in 1..N, NEW j \in 1..N, i # j
  PROVE  \E x \in 0..(N - 1) : LessAt(c, N, i, j, x) \/ LessAt(c, N, j, i, x)
<1> DEFINE T == {x \in Nat : i + x <= N /\ j + x <= N /\ c[i + x] # c[j + x]}
<1>0. N \in Nat \ {0} /\ i \in Nat \ {0} /\ j \in Nat \ {0}
  BY DEF Text
<1>1. T # {}
  <2>1. CASE i < j
    <3>1. PICK x : x = N - j
      OBVIOUS
    <3>2. x \in Nat /\ j + x = N /\ i + x \in 1..(N - 1)
      BY <1>0, <2>1, <3>1
    <3>3. x \in T
      BY <1>0, <3>2 DEF Text
    <3> QED BY <3>3
  <2>2. CASE j < i
    <3>1. PICK x : x = N - i
      OBVIOUS
    <3>2. x \in Nat /\ i + x = N /\ j + x \in 1..(N - 1)
      BY <1>0, <2>2, <3>1
    <3>3. x \in T
      BY <1>0, <3>2 DEF Text
    <3> QED BY <3>3
  <2> QED BY <1>0, <2>1, <2>2
<1>2. PICK x \in T : \A y \in T : x <= y
  <2>1. T \in SUBSET Nat
    OBVIOUS
  <2> HIDE DEF T
  <2> QED BY <1>1, <2>1, Least
<1>3. x \in 0..(N - 1) /\ i + x <= N /\ j + x <= N /\ c[i + x] # c[j + x]
  BY <1>0, <1>2
<1>4. \A y \in 0..(x - 1) : i + y <= N /\ j + y <= N /\ c[i + y] = c[j + y]
  BY <1>0, <1>2, <1>3
<1>5. Share(c, N, i, j, x) /\ Share(c, N, j, i, x)
  BY <1>4 DEF Share
<1>6. c[i + x] \in Int /\ c[j + x] \in Int
  BY <1>0, <1>3 DEF Text
<1>7. c[i + x] < c[j + x] \/ c[j + x] < c[i + x]
  BY <1>3, <1>6
<1> QED BY <1>3, <1>5, <1>7 DEF LessAt

LEMMA Trichotomy ==
  ASSUME NEW c, NEW N, Text(c, N), NEW i \in 1..N, NEW j \in 1..N, i # j, NEW k \in Nat
  PROVE  Smaller(c, N, i, j, k) \/ Smaller(c, N, j, i, k) \/ Share(c, N, i, j, k)
<1>1. PICK x \in 0..(N - 1) : LessAt(c, N, i, j, x) \/ LessAt(c, N, j, i, x)
  BY SomewhereLess
<1>2. CASE x < k
  <2>1. x \in 0..(k - 1)
    BY <1>2
  <2> QED BY <1>1, <2>1 DEF Smaller
<1>3. CASE ~(x < k)
  <2>1. x \in Nat /\ k <= x
    BY <1>3
  <2>2. Share(c, N, i, j, x)
    BY <1>1 DEF LessAt, Share
  <2> QED BY <2>1, <2>2, ShareLess
<1> QED BY <1>2, <1>3

LEMMA AllSmaller ==
  ASSUME NEW c, NEW N, Text(c, N), NEW i \in 1..N, NEW j \in 1..N, i # j,
         NEW k \in Nat, N <= k
  PROVE  Smaller(c, N, i, j, k) \/ Smaller(c, N, j, i, k)
<1>1. PICK x \in 0..(N - 1) : LessAt(c, N, i, j, x) \/ LessAt(c, N, j, i, x)
  BY SomewhereLess
<1>2. x \in 0..(k - 1)
  BY DEF Text
<1> QED BY <1>1, <1>2 DEF Smaller

LEMMA Whole ==
  ASSUME NEW c, NEW N, Text(c, N), NEW i \in 1..N, NEW j \in 1..N, NEW k \in Nat,
         Smaller(c, N, i, j, k)
  PROVE  Smaller(c, N, i, j, N)
<1>1. PICK x \in 0..(k - 1) : LessAt(c, N, i, j, x)
  BY DEF Smaller
<1>2. x \in 0..(N - 1)
  BY <1>1 DEF LessAt, Text
<1> QED BY <1>1, <1>2 DEF Smaller

LEMMA NotBoth ==
  ASSUME NEW c, NEW N, Text(c, N), NEW i \in 1..N, NEW j \in 1..N,
         NEW k \in Nat, Smaller(c, N, i, j, k)
  PROVE  ~Smaller(c, N, j, i, k) /\ ~Share(c, N, i, j, k) /\ i # j
<1>1. PICK x \in 0..(k - 1) : LessAt(c, N, i, j, x)
  BY DEF Smaller
<1>2. /\ x \in Nat /\ i + x \in 1..N /\ j + x \in 1..N
      /\ c[i + x] \in Int /\ c[j + x] \in Int /\ c[i + x] < c[j + x]
  BY <1>1 DEF LessAt, Text
<1>3. ~Share(c, N, i, j, k)
  BY <1>1, <1>2 DEF Share
<1>4. i # j
  BY <1>2
<1>5. ASSUME NEW y \in 0..(k - 1), LessAt(c, N, j, i, y) PROVE FALSE
  <2>1. /\ y \in Nat /\ i + y \in 1..N /\ j + y \in 1..N
        /\ c[i + y] \in Int /\ c[j + y] \in Int /\ c[j + y] < c[i + y]
    BY <1>5 DEF LessAt, Text
  <2>2. CASE x < y
    <3>1. x \in 0..(y - 1) /\ Share(c, N, j, i, y)
      BY <1>2, <1>5, <2>1, <2>2 DEF LessAt
    <3>2. c[j + x] = c[i + x]
      BY <3>1 DEF Share
    <3> QED BY <1>2, <3>2
  <2>3. CASE y < x
    <3>1. y \in 0..(x - 1) /\ Share(c, N, i, j, x)
      BY <1>1, <1>2, <2>1, <2>3 DEF LessAt
    <3>2. c[i + y] = c[j + y]
      BY <3>1 DEF Share
    <3> QED BY <2>1, <3>2
  <2>4. CASE x = y
    BY <1>2, <2>1, <2>4
  <2> QED BY <1>2, <2>1, <2>2, <2>3, <2>4
<1> QED BY <1>3, <1>4, <1>5 DEF Smaller

(***************************************************************************)
(* Suffixes that share k tokens go on behind them, because the last token  *)
(* is shared by none.                                                      *)
(***************************************************************************)
LEMMA GoesOn ==
  ASSUME NEW c, NEW N, Text(c, N), NEW i \in 1..N, NEW j \in 1..N, i # j,
         NEW k \in Nat, Share(c, N, i, j, k)
  PROVE  i + k <= N /\ j + k <= N
<1>0. N \in Nat \ {0} /\ i \in Nat /\ j \in Nat
  BY DEF Text
<1>1. CASE k = 0
  BY <1>0, <1>1
<1>2. CASE k # 0
  <2>1. PICK x : x = k - 1
    OBVIOUS
  <2>2. x \in 0..(k - 1) /\ x \in Nat /\ k = x + 1
    BY <1>2, <2>1
  <2>3. i + x <= N /\ j + x <= N /\ c[i + x] = c[j + x]
    BY <2>2 DEF Share
  <2>4. i + x # N
    <3> SUFFICES ASSUME i + x = N PROVE FALSE OBVIOUS
    <3>1. j + x \in 1..(N - 1)
      BY <1>0, <2>2, <2>3
    <3> QED BY <2>3, <3>1 DEF Text
  <2>5. j + x # N
    <3> SUFFICES ASSUME j + x = N PROVE FALSE OBVIOUS
    <3>1. i + x \in 1..(N - 1)
      BY <1>0, <2>2, <2>3
    <3> QED BY <2>3, <3>1 DEF Text
  <2> QED BY <1>0, <2>2, <2>3, <2>4, <2>5
<1> QED BY <1>1, <1>2

(***************************************************************************)
(* The comparison within k + l tokens, when the first k are shared.        *)
(***************************************************************************)
LEMMA Shifted ==
  ASSUME NEW c, NEW N, Text(c, N), NEW i \in 1..N, NEW j \in 1..N,
         NEW k \in Nat, NEW l \in Nat, Share(c, N, i, j, k),
         NEW a, NEW b, a = i + k, b = j + k, Smaller(c, N, a, b, l)
  PROVE  Smaller(c, N, i, j, k + l)
<1>1. PICK x \in 0..(l - 1) : LessAt(c, N, a, b, x)
  BY DEF Smaller
<1>2. PICK z : z = k + x
  OBVIOUS
<1>3. z \in 0..((k + l) - 1) /\ x \in Nat /\ z \in Nat
  BY <1>2
<1>4. i + z <= N /\ j + z <= N /\ c[i + z] < c[j + z]
  <2>1. a + x = i + z /\ b + x = j + z
    BY <1>2, <1>3
  <2> QED BY <1>1, <2>1 DEF LessAt
<1>5. ASSUME NEW y \in 0..(z - 1)
      PROVE  i + y <= N /\ j + y <= N /\ c[i + y] = c[j + y]
  <2>1. CASE y < k
    <3>1. y \in 0..(k - 1)
      BY <2>1
    <3> QED BY <3>1 DEF Share
  <2>2. CASE ~(y < k)
    <3>1. PICK u : u = y - k
      OBVIOUS
    <3>2. u \in 0..(x - 1) /\ a + u = i + y /\ b + u = j + y
      BY <1>2, <1>3, <2>2, <3>1
    <3> QED BY <1>1, <3>2 DEF LessAt, Share
  <2> QED BY <2>1, <2>2
<1>6. LessAt(c, N, i, j, z)
  BY <1>4, <1>5 DEF LessAt, Share
<1> QED BY <1>3, <1>6 DEF Smaller

LEMMA Unshifted ==
  ASSUME NEW c, NEW N, Text(c, N), NEW i \in 1..N, NEW j \in 1..N,
         NEW k \in Nat, NEW x \in Nat, k <= x, LessAt(c, N, i, j, x),
         NEW a, NEW b, a = i + k, b = j + k
  PROVE  a \in 1..N /\ b \in 1..N /\ LessAt(c, N, a, b, x - k)
<1>1. PICK z : z = x - k
  OBVIOUS
<1>2. z \in Nat /\ x = k + z /\ a + z = i + x /\ b + z = j + x
  BY <1>1
<1>3. a + z <= N /\ b + z <= N /\ c[a + z] < c[b + z]
  BY <1>2 DEF LessAt
<1>4. ASSUME NEW y \in 0..(z - 1)
      PROVE  a + y <= N /\ b + y <= N /\ c[a + y] = c[b + y]
  <2>1. PICK u : u = k + y
    OBVIOUS
  <2>2. u \in 0..(x - 1) /\ a + y = i + u /\ b + y = j + u
    BY <1>2, <2>1
  <2> QED BY <2>2 DEF LessAt, Share
<1>5. LessAt(c, N, a, b, z)
  BY <1>3, <1>4 DEF LessAt, Share
<1>6. a \in 1..N /\ b \in 1..N
  BY <1>2, <1>3 DEF Text
<1> QED BY <1>1, <1>5, <1>6

-----------------------------------------------------------------------------
(***************************************************************************)
(* The places a strict order R gives the numbers 1 to m.                   *)
(***************************************************************************)
StrictOrder(R, D) ==
  /\ \A i \in D : <<i, i>> \notin R
  /\ \A i, j, k \in D : <<i, j>> \in R /\ <<j, k>> \in R => <<i, k>> \in R
  /\ \A i, j \in D : i = j \/ <<i, j>> \in R \/ <<j, i>> \in R

Below(R, D, i) == {j \in D : <<j, i>> \in R}
PlaceIn(R, D) == [i \in D |-> 1 + Cardinality(Below(R, D, i))]

(***************************************************************************)
(* A permutation of the numbers 1 to N.                                    *)
(***************************************************************************)
Perm(o, N) ==
  /\ o \in [1..N -> 1..N]
  /\ \A p, q \in 1..N : o[p] = o[q] => p = q
  /\ \A i \in 1..N : \E p \in 1..N : o[p] = i

LEMMA PlaceGrows ==
  ASSUME NEW R, NEW D, IsFiniteSet(D), StrictOrder(R, D), NEW i \in D, NEW j \in D,
         <<i, j>> \in R
  PROVE  /\ PlaceIn(R, D)[i] \in Nat /\ PlaceIn(R, D)[j] \in Nat
         /\ PlaceIn(R, D)[i] < PlaceIn(R, D)[j]
<1>1. Below(R, D, i) \subseteq Below(R, D, j)
  BY DEF Below, StrictOrder
<1>2. i \in Below(R, D, j) /\ i \notin Below(R, D, i)
  BY DEF Below, StrictOrder
<1>3. IsFiniteSet(Below(R, D, j)) /\ IsFiniteSet(Below(R, D, i))
  <2>1. Below(R, D, j) \in SUBSET D /\ Below(R, D, i) \in SUBSET D
    BY DEF Below
  <2> QED BY <2>1, FS_Subset
<1>4. PICK a, b : a = Cardinality(Below(R, D, i)) /\ b = Cardinality(Below(R, D, j))
  OBVIOUS
<1>5. a \in Nat /\ b \in Nat
  BY <1>3, <1>4, FS_CardinalityType
<1>6. a <= b /\ a # b
  BY <1>1, <1>2, <1>3, <1>4, FS_Subset
<1>7. PlaceIn(R, D)[i] = 1 + a /\ PlaceIn(R, D)[j] = 1 + b
  BY <1>4 DEF PlaceIn
<1> QED BY <1>5, <1>6, <1>7

LEMMA PlaceRange ==
  ASSUME NEW R, NEW m \in Nat, StrictOrder(R, 1..m), NEW i \in 1..m
  PROVE  PlaceIn(R, 1..m)[i] \in 1..m
<1> DEFINE D == 1..m
<1>1. Below(R, D, i) \in SUBSET D /\ Below(R, D, i) # D
  BY DEF Below, StrictOrder
<1>2. IsFiniteSet(D) /\ Cardinality(D) = m
  BY FS_Interval
<1>3. PICK a : a = Cardinality(Below(R, D, i))
  OBVIOUS
<1>4. IsFiniteSet(Below(R, D, i)) /\ a <= m /\ a # m
  BY <1>1, <1>2, <1>3, FS_Subset
<1>5. a \in Nat
  BY <1>3, <1>4, FS_CardinalityType
<1>6. PlaceIn(R, D)[i] = 1 + a
  BY <1>3 DEF PlaceIn
<1> QED BY <1>4, <1>5, <1>6

LEMMA Places ==
  ASSUME NEW R, NEW m \in Nat, StrictOrder(R, 1..m)
  PROVE  Perm(PlaceIn(R, 1..m), m)
<1> DEFINE f == PlaceIn(R, 1..m)
<1>1. f \in [1..m -> 1..m]
  <2>1. \A i \in 1..m : f[i] \in 1..m
    BY PlaceRange
  <2>2. f = [i \in 1..m |-> f[i]]
    BY DEF PlaceIn
  <2> HIDE DEF f
  <2> QED BY <2>1, <2>2
<1>2. IsFiniteSet(1..m)
  BY FS_Interval
<1>3. ASSUME NEW p \in 1..m, NEW q \in 1..m, f[p] = f[q] PROVE p = q
  <2>1. \A i, j \in 1..m : <<i, j>> \in R => f[i] \in Nat /\ f[j] \in Nat /\ f[i] < f[j]
    BY <1>2, PlaceGrows
  <2> HIDE DEF f
  <2>2. ~(f[p] < f[q]) /\ ~(f[q] < f[p])
    BY <1>1, <1>3
  <2> QED BY <2>1, <2>2 DEF StrictOrder
<1> HIDE DEF f
<1>4. f \in Injection(1..m, 1..m)
  BY <1>1, <1>3 DEF Injection, IsInjective
<1>5. f \in Surjection(1..m, 1..m)
  BY <1>2, <1>4, FS_Injection
<1>6. \A i \in 1..m : \E p \in 1..m : f[p] = i
  BY <1>5 DEF Surjection
<1>7. Perm(f, m)
  BY <1>1, <1>3, <1>6 DEF Perm
<1> QED BY <1>7 DEF f
(***************************************************************************)
(* Keys are pairs of integers, compared as Python compares tuples.         *)
(***************************************************************************)
LEMMA LessOrder ==
  ASSUME NEW a \in Int \X Int, NEW b \in Int \X Int, NEW d \in Int \X Int
  PROVE  /\ ~Less(a, a)
         /\ Less(a, b) => ~Less(b, a)
         /\ Less(a, b) /\ Less(b, d) => Less(a, d)
         /\ ~Less(a, b) /\ ~Less(b, d) => ~Less(a, d)
         /\ ~Less(a, b) /\ ~Less(b, a) => a = b
<1>1. a = <<a[1], a[2]>> /\ b = <<b[1], b[2]>>
  OBVIOUS
<1>2. a[1] \in Int /\ a[2] \in Int /\ b[1] \in Int /\ b[2] \in Int /\ d[1] \in Int /\ d[2] \in Int
  OBVIOUS
<1>3. /\ ~Less(a, a)
      /\ Less(a, b) => ~Less(b, a)
      /\ Less(a, b) /\ Less(b, d) => Less(a, d)
      /\ ~Less(a, b) /\ ~Less(b, d) => ~Less(a, d)
  BY <1>2 DEF Less
<1>4. ASSUME ~Less(a, b), ~Less(b, a) PROVE a = b
  <2>1. a[1] = b[1] /\ a[2] = b[2]
    BY <1>2, <1>4 DEF Less
  <2> QED BY <1>1, <2>1
<1> QED BY <1>3, <1>4

(***************************************************************************)
(* The order in which a stable sort of o by keys puts its positions.       *)
(***************************************************************************)
Earlier(o, key, i, j) ==
  Less(key[o[i]], key[o[j]]) \/ (~Less(key[o[j]], key[o[i]]) /\ i < j)
EarlierPairs(o, key, N) == {p \in (1..N) \X (1..N) : Earlier(o, key, p[1], p[2])}

LEMMA EarlierOrder ==
  ASSUME NEW N \in Nat, NEW o, Perm(o, N), NEW key \in [1..N -> Int \X Int]
  PROVE  StrictOrder(EarlierPairs(o, key, N), 1..N)
<1> DEFINE R == EarlierPairs(o, key, N)
           k(i) == key[o[i]]
<1>1. \A i \in 1..N : k(i) \in Int \X Int
  BY DEF Perm
<1>2. \A i, j \in 1..N : <<i, j>> \in R <=> Less(k(i), k(j)) \/ (~Less(k(j), k(i)) /\ i < j)
  BY DEF EarlierPairs, Earlier
<1> HIDE DEF R, k
<1>3. \A i \in 1..N : <<i, i>> \notin R
  BY <1>1, <1>2, LessOrder
<1>4. ASSUME NEW i \in 1..N, NEW j \in 1..N, NEW l \in 1..N,
             <<i, j>> \in R, <<j, l>> \in R
      PROVE  <<i, l>> \in R
  <2>1. PICK a, b, d \in Int \X Int : a = k(i) /\ b = k(j) /\ d = k(l)
    BY <1>1
  <2>2. /\ Less(a, b) => ~Less(b, a)
        /\ Less(b, d) => ~Less(d, b)
        /\ Less(a, d) => ~Less(d, a)
        /\ Less(a, b) /\ Less(b, d) => Less(a, d)
        /\ ~Less(d, b) /\ ~Less(b, a) => ~Less(d, a)
    BY <2>1, LessOrder
  <2>3. /\ ~Less(b, a) /\ Less(b, d) => Less(a, d)
        /\ Less(a, b) /\ ~Less(d, b) => Less(a, d)
    <3>1. /\ ~Less(a, d) /\ ~Less(b, a) => ~Less(b, d)
          /\ ~Less(d, b) /\ ~Less(a, d) => ~Less(a, b)
      BY <2>1, LessOrder
    <3> QED BY <3>1
  <2>4. Less(a, b) \/ (~Less(b, a) /\ i < j)
    BY <1>2, <1>4, <2>1
  <2>5. Less(b, d) \/ (~Less(d, b) /\ j < l)
    BY <1>2, <1>4, <2>1
  <2>6. i < j /\ j < l => i < l
    OBVIOUS
  <2>7. Less(a, d) \/ (~Less(d, a) /\ i < l)
    BY <2>2, <2>3, <2>4, <2>5, <2>6
  <2> QED BY <1>2, <2>1, <2>7
<1>5. ASSUME NEW i \in 1..N, NEW j \in 1..N, i # j
      PROVE  <<i, j>> \in R \/ <<j, i>> \in R
  <2>1. i < j \/ j < i
    BY <1>5
  <2> QED BY <1>2, <2>1
<1>6. StrictOrder(R, 1..N)
  BY <1>3, <1>4, <1>5 DEF StrictOrder
<1> QED BY <1>6 DEF R

Invert(f, N, p) == CHOOSE i \in 1..N : f[i] = p

LEMMA SortedIs ==
  ASSUME NEW N \in Nat, NEW o, DOMAIN o = 1..N, NEW key
  PROVE  Sorted(o, key) =
           [p \in 1..N |-> o[Invert(PlaceIn(EarlierPairs(o, key, N), 1..N), N, p)]]
<1> DEFINE R == EarlierPairs(o, key, N)
           D == DOMAIN o
           place(S) == [x \in S |-> 1 + Cardinality({j \in S : Earlier(o, key, j, x)})]
           sort(f, S) == [p \in S |-> o[CHOOSE i \in S : f[i] = p]]
<1>1. Sorted(o, key) = sort(place(D), D)
  BY DEF Sorted, StableSort, Earlier
<1>2. Sorted(o, key) = sort(place(1..N), 1..N)
  <2> HIDE DEF place, sort
  <2> QED BY <1>1
<1>3. place(1..N) = PlaceIn(R, 1..N)
  <2>1. \A i \in 1..N : {j \in 1..N : Earlier(o, key, j, i)} = Below(R, 1..N, i)
    BY DEF Below, EarlierPairs
  <2> QED BY <2>1, Zenon DEF PlaceIn
<1>4. Sorted(o, key) = sort(PlaceIn(R, 1..N), 1..N)
  <2> HIDE DEF place, sort
  <2> QED BY <1>2, <1>3
<1> QED BY <1>4 DEF Invert

(***************************************************************************)
(* A sort is a permutation that puts no key before a smaller one.          *)
(***************************************************************************)
LEMMA SortedIsSorted ==
  ASSUME NEW N \in Nat, NEW o, Perm(o, N), NEW key \in [1..N -> Int \X Int]
  PROVE  /\ Perm(Sorted(o, key), N)
         /\ \A p, q \in 1..N : p < q => ~Less(key[Sorted(o, key)[q]], key[Sorted(o, key)[p]])
<1> DEFINE R == EarlierPairs(o, key, N)
<1>1. PICK f : f = PlaceIn(R, 1..N)
  OBVIOUS
<1>2. StrictOrder(R, 1..N)
  BY EarlierOrder
<1>3. Perm(f, N)
  BY <1>1, <1>2, Places
<1>4. \A i, j \in 1..N : <<i, j>> \in R => f[i] < f[j]
  <2> SUFFICES ASSUME NEW i \in 1..N, NEW j \in 1..N, <<i, j>> \in R PROVE f[i] < f[j]
    OBVIOUS
  <2>1. IsFiniteSet(1..N)
    BY FS_Interval
  <2>2. PlaceIn(R, 1..N)[i] < PlaceIn(R, 1..N)[j]
    BY <1>2, <2>1, PlaceGrows
  <2> QED BY <1>1, <2>2
<1>5. PICK g : g = [p \in 1..N |-> Invert(f, N, p)]
  OBVIOUS
<1>6. \A p \in 1..N : g[p] \in 1..N /\ f[g[p]] = p
  <2> SUFFICES ASSUME NEW p \in 1..N PROVE g[p] \in 1..N /\ f[g[p]] = p
    OBVIOUS
  <2>1. \E i \in 1..N : f[i] = p
    BY <1>3 DEF Perm
  <2>2. g[p] = CHOOSE i \in 1..N : f[i] = p
    BY <1>5 DEF Invert
  <2> QED BY <2>1, <2>2
<1>7. PICK s : s = Sorted(o, key)
  OBVIOUS
<1>8. s = [p \in 1..N |-> o[g[p]]]
  <2>1. DOMAIN o = 1..N
    BY DEF Perm
  <2>2. s = [p \in 1..N |-> o[Invert(f, N, p)]]
    BY <1>1, <1>7, <2>1, SortedIs
  <2> QED BY <1>5, <2>2
<1>9. Perm(s, N)
  <2>1. s \in [1..N -> 1..N]
    BY <1>6, <1>8 DEF Perm
  <2>2. ASSUME NEW p \in 1..N, NEW q \in 1..N, s[p] = s[q] PROVE p = q
    <3>1. g[p] = g[q]
      BY <1>6, <1>8, <2>2 DEF Perm
    <3> QED BY <1>6, <3>1
  <2>3. ASSUME NEW i \in 1..N PROVE \E p \in 1..N : s[p] = i
    <3>1. PICK x \in 1..N : o[x] = i
      BY DEF Perm
    <3>2. f[x] \in 1..N /\ f[g[f[x]]] = f[x] /\ g[f[x]] \in 1..N
      BY <1>3, <1>6 DEF Perm
    <3>3. g[f[x]] = x
      BY <1>3, <3>2 DEF Perm
    <3> QED BY <1>8, <3>1, <3>2, <3>3
  <2> QED BY <2>1, <2>2, <2>3 DEF Perm
<1>10. ASSUME NEW p \in 1..N, NEW q \in 1..N, p < q
       PROVE  ~Less(key[s[q]], key[s[p]])
  <2>1. PICK i, j \in 1..N : i = g[p] /\ j = g[q]
    BY <1>6
  <2>2. f[i] = p /\ f[j] = q
    BY <1>6, <2>1
  <2>3. i # j /\ ~(<<j, i>> \in R)
    BY <1>4, <1>10, <2>2
  <2>4. <<i, j>> \in R
    BY <1>2, <2>3 DEF StrictOrder
  <2>5. Earlier(o, key, i, j)
    BY <2>4 DEF EarlierPairs
  <2>6. s[p] = o[i] /\ s[q] = o[j]
    BY <1>8, <2>1
  <2>7. PICK a, b \in Int \X Int : a = key[o[i]] /\ b = key[o[j]]
    BY DEF Perm
  <2>8. Less(a, b) => ~Less(b, a)
    BY LessOrder
  <2>9. ~Less(b, a)
    BY <2>5, <2>7, <2>8 DEF Earlier
  <2> QED BY <2>6, <2>7, <2>9
<1> QED BY <1>7, <1>9, <1>10

(***************************************************************************)
(* The ranks number the keys in their order.                               *)
(***************************************************************************)
KeysBelow(key, N, i) == {key[j] : j \in {x \in 1..N : Less(key[x], key[i])}}

RankOf(key, N) == [i \in 1..N |-> 1 + Cardinality(KeysBelow(key, N, i))]

LEMMA RanksAre ==
  ASSUME NEW N \in Nat, NEW key \in [1..N -> Int \X Int]
  PROVE  Ranks(key) = RankOf(key, N)
  BY Zenon DEF Ranks, RankOf, KeysBelow

LEMMA FiniteKeys ==
  ASSUME NEW N \in Nat, NEW key \in [1..N -> Int \X Int], NEW i \in 1..N
  PROVE  IsFiniteSet(KeysBelow(key, N, i)) /\ Cardinality(KeysBelow(key, N, i)) \in Nat
<1> DEFINE S == {x \in 1..N : Less(key[x], key[i])}
<1>1. IsFiniteSet(S)
  <2>1. IsFiniteSet(1..N)
    BY FS_Interval
  <2>2. S \in SUBSET (1..N)
    OBVIOUS
  <2> QED BY <2>1, <2>2, FS_Subset
<1>2. PICK g : g = [x \in S |-> key[x]]
  OBVIOUS
<1>3. g \in Surjection(S, KeysBelow(key, N, i))
  BY <1>2 DEF Surjection, KeysBelow
<1> HIDE DEF S
<1>4. IsFiniteSet(KeysBelow(key, N, i))
  BY <1>1, <1>3, FS_Surjection
<1> QED BY <1>4, FS_CardinalityType

LEMMA RanksPositive ==
  ASSUME NEW N \in Nat, NEW key \in [1..N -> Int \X Int]
  PROVE  Ranks(key) \in [1..N -> Nat \ {0}]
<1>1. \A i \in 1..N : Cardinality(KeysBelow(key, N, i)) \in Nat
  BY FiniteKeys
<1>2. RankOf(key, N) \in [1..N -> Nat \ {0}]
  BY <1>1 DEF RankOf
<1> QED BY <1>2, RanksAre

LEMMA RanksCompare ==
  ASSUME NEW N \in Nat, NEW key \in [1..N -> Int \X Int], NEW i \in 1..N, NEW j \in 1..N
  PROVE  Ranks(key)[i] < Ranks(key)[j] <=> Less(key[i], key[j])
<1> DEFINE B(x) == KeysBelow(key, N, x)
<1>1. \A x \in 1..N : key[x] \in Int \X Int
  OBVIOUS
<1>2. PICK a, b : a = Cardinality(B(i)) /\ b = Cardinality(B(j))
  OBVIOUS
<1>3. IsFiniteSet(B(i)) /\ IsFiniteSet(B(j)) /\ a \in Nat /\ b \in Nat
  BY <1>2, FiniteKeys
<1>4. Ranks(key)[i] = 1 + a /\ Ranks(key)[j] = 1 + b
  BY <1>2, RanksAre DEF RankOf
<1>5. ASSUME Less(key[i], key[j]) PROVE a < b
  <2>1. B(i) \subseteq B(j)
    BY <1>1, <1>5, LessOrder DEF KeysBelow
  <2>2. key[i] \in B(j)
    BY <1>5 DEF KeysBelow
  <2>3. key[i] \notin B(i)
    <3> SUFFICES ASSUME key[i] \in B(i) PROVE FALSE
      OBVIOUS
    <3>1. PICK x \in 1..N : Less(key[x], key[i]) /\ key[x] = key[i]
      BY DEF KeysBelow
    <3> QED BY <1>1, <3>1, LessOrder
  <2>4. a <= b /\ a # b
    BY <1>2, <1>3, <2>1, <2>2, <2>3, FS_Subset
  <2> QED BY <1>3, <2>4
<1>6. ASSUME ~Less(key[i], key[j]) PROVE b <= a
  <2>1. \A x \in 1..N : Less(key[x], key[j]) => Less(key[x], key[i])
    BY <1>1, <1>6, LessOrder
  <2>2. B(j) \subseteq B(i)
    BY <2>1 DEF KeysBelow
  <2> QED BY <1>2, <1>3, <2>2, FS_Subset
<1> QED BY <1>3, <1>4, <1>5, <1>6

(***************************************************************************)
(* When the key of a sort's last position has rank N, all keys differ.     *)
(***************************************************************************)
LEMMA AllDiffer ==
  ASSUME NEW N \in Nat, NEW key \in [1..N -> Int \X Int], NEW l \in 1..N,
         Ranks(key)[l] = N, NEW i \in 1..N, NEW j \in 1..N, key[i] = key[j]
  PROVE  i = j
<1> DEFINE B == KeysBelow(key, N, l)
           T == {key[x] : x \in 1..N}
<1>1. PICK b : b = Cardinality(B)
  OBVIOUS
<1>2. IsFiniteSet(B) /\ b \in Nat /\ b + 1 = N
  <2>1. Ranks(key)[l] = 1 + b
    BY SMTT(40), <1>1, RanksAre DEF RankOf
  <2>2. IsFiniteSet(B) /\ b \in Nat
    BY <1>1, FiniteKeys
  <2> HIDE DEF B
  <2> QED BY <2>1, <2>2
<1>3. key[l] \notin B
  <2> SUFFICES ASSUME key[l] \in B PROVE FALSE
    OBVIOUS
  <2>1. PICK x \in 1..N : Less(key[x], key[l]) /\ key[x] = key[l]
    BY DEF KeysBelow
  <2> QED BY <2>1, LessOrder
<1>4. IsFiniteSet(B \cup {key[l]}) /\ Cardinality(B \cup {key[l]}) = N
  <2>1. PICK z : z = key[l]
    OBVIOUS
  <2> HIDE DEF B
  <2>2. z \notin B
    BY <1>3, <2>1
  <2>3. IsFiniteSet(B \cup {z}) /\ Cardinality(B \cup {z}) = b + 1
    BY <1>1, <1>2, <2>2, FS_AddElement
  <2> QED BY <1>2, <2>1, <2>3
<1>5. B \cup {key[l]} \in SUBSET T
  BY DEF KeysBelow
<1>6. PICK g : g = [x \in 1..N |-> key[x]]
  OBVIOUS
<1>7. g \in Surjection(1..N, T)
  BY <1>6 DEF Surjection
<1>8. IsFiniteSet(1..N) /\ Cardinality(1..N) = N
  BY FS_Interval
<1> HIDE DEF T, B
<1>9. IsFiniteSet(T) /\ Cardinality(T) <= N
  BY <1>7, <1>8, FS_Surjection
<1>10. PICK t : t = Cardinality(T)
  OBVIOUS
<1>11. t \in Nat /\ N <= t
  <2>1. PICK S : S = B \cup {key[l]}
    OBVIOUS
  <2>2. S \in SUBSET T /\ Cardinality(S) = N
    BY <1>4, <1>5, <2>1
  <2> QED BY <1>9, <1>10, <2>2, FS_Subset, FS_CardinalityType
<1>12. Cardinality(T) = Cardinality(1..N)
  BY <1>8, <1>9, <1>10, <1>11
<1>13. g \in Injection(1..N, T)
  BY <1>7, <1>8, <1>12, FS_Surjection
<1> QED BY <1>6, <1>13 DEF Injection, IsInjective

-----------------------------------------------------------------------------
(***************************************************************************)
(* Ranks r that compare suffixes by their first k tokens.                  *)
(***************************************************************************)
RanksBy(r, c, N, k) ==
  /\ r \in [1..N -> Nat \ {0}]
  /\ \A i, j \in 1..N : r[i] < r[j] <=> Smaller(c, N, i, j, k)

(***************************************************************************)
(* The keys of a text's first round, and of a round with ranks r.          *)
(***************************************************************************)
KeysOfTokens(c, N) == [i \in 1..N |-> <<c[i], 0>>]
SecondRank(r, N, k, i) == IF i + k <= N THEN r[i + k] ELSE 0
KeysOfRanks(r, N, k) == [i \in 1..N |-> <<r[i], SecondRank(r, N, k, i)>>]

KeysBy(key, c, N, k) ==
  /\ key \in [1..N -> Int \X Int]
  /\ \A i, j \in 1..N : Less(key[i], key[j]) <=> Smaller(c, N, i, j, k)

LEMMA FirstKeys ==
  ASSUME NEW c, NEW N, Text(c, N)
  PROVE  KeysBy(KeysOfTokens(c, N), c, N, 1)
<1> DEFINE key == KeysOfTokens(c, N)
<1>1. \A i \in 1..N : c[i] \in Int /\ key[i] = <<c[i], 0>>
  BY DEF Text, KeysOfTokens
<1>2. key \in [1..N -> Int \X Int]
  BY <1>1 DEF KeysOfTokens
<1>3. ASSUME NEW i \in 1..N, NEW j \in 1..N
      PROVE  Less(key[i], key[j]) <=> Smaller(c, N, i, j, 1)
  <2>1. Less(key[i], key[j]) <=> c[i] < c[j]
    BY <1>1 DEF Less
  <2>2. Smaller(c, N, i, j, 1) <=> LessAt(c, N, i, j, 0)
    BY DEF Smaller
  <2>3. Share(c, N, i, j, 0)
    BY DEF Share
  <2>4. i + 0 = i /\ j + 0 = j /\ i <= N /\ j <= N
    BY DEF Text
  <2>5. LessAt(c, N, i, j, 0) <=> c[i] < c[j]
    BY <2>3, <2>4 DEF LessAt
  <2> QED BY <2>1, <2>2, <2>5
<1> HIDE DEF key
<1>4. KeysBy(key, c, N, 1)
  BY <1>2, <1>3 DEF KeysBy
<1> QED BY <1>4 DEF key

(***************************************************************************)
(* Doubling: ranks by k tokens make keys by 2k.                            *)
(***************************************************************************)
LEMMA Doubled ==
  ASSUME NEW c, NEW N, Text(c, N), NEW k \in Nat \ {0}, NEW r, RanksBy(r, c, N, k)
  PROVE  KeysBy(KeysOfRanks(r, N, k), c, N, k + k)
<1> DEFINE key == KeysOfRanks(r, N, k)
           second(i) == SecondRank(r, N, k, i)
<1>0. N \in Nat \ {0} /\ r \in [1..N -> Nat \ {0}]
  BY DEF Text, RanksBy
<1>1. ASSUME NEW i \in 1..N
      PROVE  second(i) \in Nat /\ (second(i) > 0 => i + k <= N /\ second(i) = r[i + k])
  <2>1. CASE i + k <= N
    <3>1. i + k \in 1..N
      BY <1>0, <2>1
    <3> QED BY <1>0, <2>1, <3>1 DEF SecondRank
  <2>2. CASE ~(i + k <= N)
    BY <2>2 DEF SecondRank
  <2> QED BY <2>1, <2>2
<1>2. \A i \in 1..N : key[i] = <<r[i], second(i)>> /\ r[i] \in Nat
  BY <1>0 DEF KeysOfRanks
<1>3. key \in [1..N -> Int \X Int]
  <2>1. key = [i \in 1..N |-> <<r[i], second(i)>>]
    BY DEF KeysOfRanks
  <2> HIDE DEF key, second
  <2> QED BY <1>1, <1>2, <2>1
<1>4. \A i, j \in 1..N :
        Less(key[i], key[j]) <=> r[i] < r[j] \/ (r[i] = r[j] /\ second(i) < second(j))
  <2> HIDE DEF key, second
  <2> QED BY <1>2 DEF Less
<1>5. ASSUME NEW i \in 1..N, NEW j \in 1..N, r[i] < r[j]
      PROVE  Smaller(c, N, i, j, k + k)
  <2>1. Smaller(c, N, i, j, k)
    BY <1>5 DEF RanksBy
  <2>2. \A x \in 0..(k - 1) : x \in 0..((k + k) - 1)
    OBVIOUS
  <2> QED BY <2>1, <2>2 DEF Smaller
<1>6. ASSUME NEW i \in 1..N, NEW j \in 1..N, r[i] = r[j], second(i) < second(j)
      PROVE  Smaller(c, N, i, j, k + k)
  <2>1. i # j
    <3> HIDE DEF second
    <3> QED BY <1>1, <1>6
  <2>2. ~Smaller(c, N, i, j, k) /\ ~Smaller(c, N, j, i, k)
    <3>1. ~(r[i] < r[j]) /\ ~(r[j] < r[i])
      BY <1>0, <1>6
    <3> QED BY <3>1 DEF RanksBy
  <2>3. Share(c, N, i, j, k)
    BY <2>1, <2>2, Trichotomy
  <2>4. PICK a, b : a = i + k /\ b = j + k
    OBVIOUS
  <2>5. a <= N /\ b <= N
    BY <2>1, <2>3, <2>4, GoesOn
  <2>6. a \in 1..N /\ b \in 1..N
    BY <1>0, <2>4, <2>5
  <2>7. second(i) = r[a] /\ second(j) = r[b]
    BY <2>4, <2>5 DEF SecondRank
  <2>8. Smaller(c, N, a, b, k)
    BY <1>6, <2>6, <2>7 DEF RanksBy
  <2> QED BY <2>3, <2>4, <2>8, Shifted
<1>7. ASSUME NEW i \in 1..N, NEW j \in 1..N, Smaller(c, N, i, j, k + k), ~(r[i] < r[j])
      PROVE  r[i] = r[j] /\ second(i) < second(j)
  <2>1. PICK x \in 0..((k + k) - 1) : LessAt(c, N, i, j, x)
    BY <1>7 DEF Smaller
  <2>2. k <= x
    <3> SUFFICES ASSUME x < k PROVE FALSE
      OBVIOUS
    <3>1. x \in 0..(k - 1)
      OBVIOUS
    <3>2. Smaller(c, N, i, j, k)
      BY <2>1, <3>1 DEF Smaller
    <3> QED BY <1>7, <3>2 DEF RanksBy
  <2>3. Share(c, N, i, j, k)
    BY <2>1, <2>2, ShareLess DEF LessAt
  <2>4. r[i] = r[j]
    <3>1. Share(c, N, j, i, k)
      BY <2>3 DEF Share
    <3>2. ~Smaller(c, N, j, i, k)
      BY <3>1, NotBoth
    <3>3. ~(r[j] < r[i])
      BY <3>2 DEF RanksBy
    <3> QED BY <1>0, <1>7, <3>3
  <2>5. PICK a, b, y : a = i + k /\ b = j + k /\ y = x - k
    OBVIOUS
  <2>6. a \in 1..N /\ b \in 1..N /\ LessAt(c, N, a, b, y)
    BY <2>1, <2>2, <2>5, Unshifted
  <2>7. y \in 0..(k - 1)
    BY <2>2, <2>5
  <2>8. r[a] < r[b]
    <3>1. Smaller(c, N, a, b, k)
      BY <2>6, <2>7 DEF Smaller
    <3> QED BY <2>6, <3>1 DEF RanksBy
  <2>9. second(i) = r[a] /\ second(j) = r[b]
    BY <2>5, <2>6 DEF SecondRank
  <2> QED BY <2>4, <2>8, <2>9
<1> HIDE DEF key, second
<1>8. ASSUME NEW i \in 1..N, NEW j \in 1..N
      PROVE  Less(key[i], key[j]) <=> Smaller(c, N, i, j, k + k)
  BY <1>4, <1>5, <1>6, <1>7
<1>9. KeysBy(key, c, N, k + k)
  BY <1>3, <1>8 DEF KeysBy
<1> QED BY <1>9 DEF key

LEMMA RanksOfKeys ==
  ASSUME NEW c, NEW N \in Nat, NEW k, NEW key, KeysBy(key, c, N, k)
  PROVE  RanksBy(Ranks(key), c, N, k)
<1>1. key \in [1..N -> Int \X Int]
  BY DEF KeysBy
<1>2. Ranks(key) \in [1..N -> Nat \ {0}]
  BY <1>1, RanksPositive
<1>3. \A i, j \in 1..N : Ranks(key)[i] < Ranks(key)[j] <=> Less(key[i], key[j])
  BY <1>1, RanksCompare
<1> QED BY <1>2, <1>3 DEF RanksBy, KeysBy

(***************************************************************************)
(* The suffix array: a permutation in the order of the suffixes.           *)
(***************************************************************************)
InOrder(o, c, N) == Perm(o, N) /\ \A p, q \in 1..N : p < q => Smaller(c, N, o[p], o[q], N)

LEMMA SortEnds ==
  ASSUME NEW c, NEW N, Text(c, N), NEW k \in Nat, NEW key, KeysBy(key, c, N, k),
         NEW o, Perm(o, N),
         N <= k \/ Ranks(key)[Sorted(o, key)[N]] = N
  PROVE  InOrder(Sorted(o, key), c, N)
<1>0. N \in Nat \ {0} /\ key \in [1..N -> Int \X Int]
  BY DEF Text, KeysBy
<1>1. PICK s : s = Sorted(o, key)
  OBVIOUS
<1>2. Perm(s, N) /\ \A p, q \in 1..N : p < q => ~Less(key[s[q]], key[s[p]])
  BY <1>0, <1>1, SortedIsSorted
<1>3. ASSUME NEW p \in 1..N, NEW q \in 1..N, p < q PROVE Smaller(c, N, s[p], s[q], N)
  <2>1. PICK i, j \in 1..N : i = s[p] /\ j = s[q]
    BY <1>2 DEF Perm
  <2>2. i # j
    BY <1>2, <1>3, <2>1 DEF Perm
  <2>3. ~Less(key[j], key[i])
    BY <1>2, <1>3, <2>1
  <2>4. ~Smaller(c, N, j, i, k)
    BY <2>3 DEF KeysBy
  <2>5. CASE N <= k
    <3>1. Smaller(c, N, i, j, k)
      BY <2>2, <2>4, <2>5, AllSmaller
    <3> QED BY <2>1, <3>1, Whole
  <2>6. CASE Ranks(key)[s[N]] = N
    <3>1. PICK l \in 1..N : l = s[N]
      <4>1. N \in 1..N
        BY <1>0
      <4> QED BY <1>2, <4>1 DEF Perm
    <3>2. key[i] # key[j]
      BY <1>0, <2>2, <2>6, <3>1, AllDiffer
    <3>3. PICK a, b \in Int \X Int : a = key[i] /\ b = key[j]
      BY <1>0
    <3>4. Less(a, b)
      BY <2>3, <3>2, <3>3, LessOrder
    <3>5. Smaller(c, N, i, j, k)
      BY <3>3, <3>4 DEF KeysBy
    <3> QED BY <2>1, <3>5, Whole
  <2> QED BY <1>1, <2>5, <2>6
<1> QED BY <1>1, <1>2, <1>3 DEF InOrder

(***************************************************************************)
(* Kasai.  Between a suffix and one that shares m tokens with it, all      *)
(* suffixes share them; and suffixes that share a token go on to share one *)
(* less, in the same order.                                                *)
(***************************************************************************)
LEMMA Between ==
  ASSUME NEW c, NEW N, Text(c, N), NEW i \in 1..N, NEW j \in 1..N, NEW p \in 1..N,
         NEW m \in Nat, Share(c, N, j, i, m),
         Smaller(c, N, j, p, N), Smaller(c, N, p, i, N)
  PROVE  Share(c, N, p, i, m)
<1>0. N \in Nat \ {0}
  BY DEF Text
<1>1. PICK x \in 0..(N - 1) : LessAt(c, N, p, i, x)
  BY DEF Smaller
<1>2. CASE m <= x
  BY <1>1, <1>2, ShareLess DEF LessAt
<1>3. CASE x < m
  <2>1. PICK y \in 0..(N - 1) : LessAt(c, N, j, p, y)
    BY DEF Smaller
  <2>2. x \in 0..(m - 1)
    BY <1>3
  <2>3. j + x <= N /\ i + x <= N /\ p + x <= N /\ c[j + x] = c[i + x] /\ c[p + x] < c[i + x]
    BY <1>1, <2>2 DEF Share, LessAt
  <2>4. c[j + x] \in Int /\ c[p + x] \in Int /\ c[i + x] \in Int
    BY <1>0, <2>3 DEF Text
  <2>5. CASE x < y
    <3>1. x \in 0..(y - 1)
      BY <2>5
    <3>2. c[j + x] = c[p + x]
      BY <2>1, <3>1 DEF LessAt, Share
    <3> QED BY <2>3, <2>4, <3>2
  <2>6. CASE x = y
    <3>1. c[j + x] < c[p + x]
      BY <2>1, <2>6 DEF LessAt
    <3> QED BY <2>3, <2>4, <3>1
  <2>7. CASE y < x
    <3>1. y \in 0..(x - 1) /\ y \in 0..(m - 1)
      BY <1>3, <2>7
    <3>2. c[p + y] = c[i + y] /\ c[j + y] = c[i + y]
      BY <1>1, <3>1 DEF LessAt, Share
    <3>3. j + y <= N /\ p + y <= N /\ c[j + y] < c[p + y]
      BY <2>1 DEF LessAt
    <3>4. c[j + y] \in Int /\ c[p + y] \in Int
      BY <1>0, <3>3 DEF Text
    <3> QED BY <3>2, <3>3, <3>4
  <2> QED BY <2>5, <2>6, <2>7
<1> QED BY <1>2, <1>3

LEMMA StepOn ==
  ASSUME NEW c, NEW N, Text(c, N), NEW i \in 1..N, NEW j \in 1..N,
         NEW m \in Nat \ {0}, Share(c, N, j, i, m), Smaller(c, N, j, i, N),
         NEW a, NEW b, NEW l, a = i + 1, b = j + 1, l = m - 1
  PROVE  /\ a \in 1..N /\ b \in 1..N
         /\ Share(c, N, b, a, l) /\ Smaller(c, N, b, a, N)
<1>0. N \in Nat \ {0}
  BY DEF Text
<1>1. PICK x \in 0..(N - 1) : LessAt(c, N, j, i, x)
  BY DEF Smaller
<1>2. x # 0
  <2> SUFFICES ASSUME x = 0 PROVE FALSE
    OBVIOUS
  <2>1. 0 \in 0..(m - 1) /\ j + 0 = j /\ i + 0 = i
    OBVIOUS
  <2>2. c[j] = c[i] /\ c[j] < c[i]
    BY <1>1, <2>1 DEF LessAt, Share
  <2>3. c[i] \in Int
    BY DEF Text
  <2> QED BY <2>2, <2>3
<1>3. 1 <= x /\ x \in Nat
  BY <1>2
<1>4. PICK y : y = x - 1
  OBVIOUS
<1>5. a \in 1..N /\ b \in 1..N /\ LessAt(c, N, b, a, y)
  BY <1>1, <1>3, <1>4, Unshifted
<1>6. y \in 0..(N - 1)
  BY <1>0, <1>3, <1>4
<1>7. Smaller(c, N, b, a, N)
  BY <1>5, <1>6 DEF Smaller
<1>9. ASSUME NEW z \in 0..(l - 1) PROVE b + z <= N /\ a + z <= N /\ c[b + z] = c[a + z]
  <2>1. PICK u : u = z + 1
    OBVIOUS
  <2>2. u \in 0..(m - 1) /\ b + z = j + u /\ a + z = i + u
    BY <2>1
  <2> QED BY <2>2 DEF Share
<1>10. Share(c, N, b, a, l)
  BY <1>9 DEF Share
<1> QED BY <1>5, <1>7, <1>10

-----------------------------------------------------------------------------
(***************************************************************************)
(* The data the walk is built on.                                          *)
(***************************************************************************)
Data ==
  /\ files \in Seq(Seq(Nat)) /\ streams \in Seq(Seq(Nat)) /\ concat \in Seq(Int)
  /\ h \in Nat /\ at \in Nat \ {0}
  /\ phase \in {"lcp", "walk"} => lcp \in [1..n -> Nat]

(***************************************************************************)
(* StackIntervals compares neighbours on the stack; the walk needs all     *)
(* pairs.  For a stack s, prefixes l and a position a of the walk:         *)
(***************************************************************************)
Entries(s, l, a) ==
  /\ s \in Seq(Nat \X (Nat \ {0})) /\ s # <<>> /\ s[1] = <<0, 1>>
  /\ \A d, e \in 1..Len(s) : d < e => s[d][1] < s[e][1]
  /\ \A e \in 2..Len(s) :
       s[e][2] \in 2..(a - 1) /\ \A p \in s[e][2]..(a - 1) : l[p] >= s[e][1]

(***************************************************************************)
(* What a pop leaves behind: the prefixes between the interval just closed *)
(* and the current position are longer than the current one.               *)
(***************************************************************************)
Popped == left \in 2..at /\ \A p \in left..(at - 1) : lcp[p] > Cur

Walking == phase = "walk" => at >= 2 /\ Entries(stack, lcp, at) /\ Popped

IInv == Data /\ Walking

(***************************************************************************)
(* The beginning of a sequence, and one with an element more.              *)
(***************************************************************************)
LEMMA Beginning ==
  ASSUME NEW S, NEW s \in Seq(S), NEW k \in Nat, k <= Len(s)
  PROVE  /\ SubSeq(s, 1, k) \in Seq(S) /\ Len(SubSeq(s, 1, k)) = k
         /\ \A e \in 1..k : SubSeq(s, 1, k)[e] = s[e]
  OBVIOUS

LEMMA OneMore ==
  ASSUME NEW S, NEW s \in Seq(S), NEW x \in S
  PROVE  /\ Append(s, x) \in Seq(S) /\ Len(Append(s, x)) = Len(s) + 1
         /\ Append(s, x)[Len(s) + 1] = x
         /\ \A e \in 1..Len(s) : Append(s, x)[e] = s[e]
  OBVIOUS

(***************************************************************************)
(* A stack without its top, and one that goes on unchanged or with a new   *)
(* top that is higher.                                                     *)
(***************************************************************************)
LEMMA TopEntry ==
  ASSUME NEW s, NEW l, NEW a, Entries(s, l, a)
  PROVE  /\ Len(s) \in Nat \ {0}
         /\ \A e \in 1..Len(s) : s[e] \in Nat \X (Nat \ {0}) /\ s[e][1] \in Nat
         /\ \A e \in 1..Len(s) : s[e][1] <= s[Len(s)][1]
<1>1. Len(s) \in Nat \ {0} /\ \A e \in 1..Len(s) : s[e] \in Nat \X (Nat \ {0})
  BY DEF Entries
<1>2. \A e \in 1..Len(s) : s[e][1] \in Nat
  BY <1>1
<1>3. ASSUME NEW e \in 1..Len(s) PROVE s[e][1] <= s[Len(s)][1]
  <2>1. e = Len(s) \/ (e < Len(s) /\ Len(s) \in 1..Len(s))
    BY <1>1
  <2>2. CASE e = Len(s)
    BY <1>2, <2>2
  <2>3. CASE e < Len(s) /\ Len(s) \in 1..Len(s)
    BY <1>2, <2>3 DEF Entries
  <2> QED BY <2>1, <2>2, <2>3
<1> QED BY <1>1, <1>2, <1>3

LEMMA WithoutTop ==
  ASSUME NEW s, NEW l, NEW a, Entries(s, l, a), Len(s) >= 2
  PROVE  Entries(SubSeq(s, 1, Len(s) - 1), l, a)
<1>1. PICK t, k, S : t = SubSeq(s, 1, k) /\ k = Len(s) - 1 /\ S = Nat \X (Nat \ {0})
  OBVIOUS
<1>2. s \in Seq(S) /\ k \in Nat \ {0} /\ Len(s) = k + 1
  <2>1. s \in Seq(S) /\ Len(s) \in Nat
    BY <1>1 DEF Entries
  <2>2. PICK length : length = Len(s)
    OBVIOUS
  <2> QED BY <1>1, <2>1, <2>2
<1>3. t \in Seq(S) /\ Len(t) = k /\ \A e \in 1..k : t[e] = s[e]
  <2>1. k \in Nat /\ k <= Len(s)
    BY <1>2
  <2> QED BY ZenonT(60), <1>1, <1>2, <2>1, Beginning
<1>4. 1 \in 1..k /\ \A e \in 1..k : e \in 1..(k + 1)
  BY <1>2
<1>5. \A e \in 2..k : e \in 2..(k + 1) /\ e \in 1..k
  BY <1>2
<1>6. t # <<>> /\ t[1] = <<0, 1>>
  BY <1>2, <1>3, <1>4 DEF Entries
<1>7. \A d, e \in 1..k : d < e => t[d][1] < t[e][1]
  BY <1>2, <1>3, <1>4 DEF Entries
<1>8. \A e \in 2..k :
        t[e][2] \in 2..(a - 1) /\ \A p \in t[e][2]..(a - 1) : l[p] >= t[e][1]
  BY <1>2, <1>3, <1>5 DEF Entries
<1>9. Entries(t, l, a)
  BY <1>1, <1>3, <1>6, <1>7, <1>8 DEF Entries
<1> QED BY <1>1, <1>9

LEMMA OneOn ==
  ASSUME NEW s, NEW l, NEW a \in Nat, Entries(s, l, a),
         Len(s) >= 2 => l[a] \in Nat /\ s[Len(s)][1] <= l[a]
  PROVE  Entries(s, l, a + 1)
<1>1. ASSUME NEW e \in 2..Len(s)
      PROVE  s[e][2] \in 2..a /\ \A p \in s[e][2]..a : l[p] >= s[e][1]
  <2>1. Len(s) >= 2 /\ e \in 1..Len(s)
    BY TopEntry
  <2>2. s[e][1] <= l[a]
    BY SMTT(40), <2>1, TopEntry
  <2>3. s[e][2] \in 2..(a - 1) /\ \A p \in s[e][2]..(a - 1) : l[p] >= s[e][1]
    BY DEF Entries
  <2>4. \A p \in s[e][2]..a : p = a \/ p \in s[e][2]..(a - 1)
    BY <2>3
  <2>5. s[e][1] \in Nat
    BY <2>1, TopEntry
  <2> QED BY <2>1, <2>2, <2>3, <2>4, <2>5
<1>2. (a + 1) - 1 = a
  OBVIOUS
<1> QED BY <1>1, <1>2 DEF Entries

LEMMA NewTop ==
  ASSUME NEW s, NEW l, NEW a \in Nat, Entries(s, l, a),
         NEW height \in Nat, NEW from \in 2..(a - 1),
         s[Len(s)][1] < height, \A p \in from..(a - 1) : l[p] >= height
  PROVE  Entries(Append(s, <<height, from>>), l, a)
<1>1. PICK m, t, S, x :
        m = Len(s) /\ t = Append(s, x) /\ S = Nat \X (Nat \ {0}) /\ x = <<height, from>>
  OBVIOUS
<1>2. s \in Seq(S) /\ m \in Nat \ {0}
  BY <1>1, TopEntry DEF Entries
<1>3. x \in S /\ x[1] = height /\ x[2] = from
  BY <1>1
<1>4. t \in Seq(S) /\ Len(t) = m + 1 /\ t[m + 1] = x /\ \A e \in 1..m : t[e] = s[e]
  BY <1>1, <1>2, <1>3, OneMore
<1>5. /\ \A e \in 1..(m + 1) : e \in 1..m \/ e = m + 1
      /\ \A e \in 2..(m + 1) : (e \in 2..m /\ e \in 1..m) \/ e = m + 1
      /\ \A d, e \in 1..(m + 1) : d < e => d \in 1..m
  BY <1>2
<1>6. t # <<>> /\ t[1] = <<0, 1>>
  BY <1>2, <1>4 DEF Entries
<1>7. ASSUME NEW d \in 1..(m + 1), NEW e \in 1..(m + 1), d < e PROVE t[d][1] < t[e][1]
  <2>1. d \in 1..m /\ t[d] = s[d]
    BY <1>4, <1>5, <1>7
  <2>2. CASE e = m + 1
    <3>1. s[d][1] <= s[m][1] /\ s[d][1] \in Nat /\ s[m][1] \in Nat
      BY SMTT(40), <1>1, <1>2, <2>1, TopEntry
    <3>2. t[e][1] = height
      BY <1>3, <1>4, <2>2
    <3> QED BY <1>1, <2>1, <3>1, <3>2
  <2>3. CASE e \in 1..m
    BY <1>1, <1>4, <1>7, <2>1, <2>3 DEF Entries
  <2> QED BY <1>5, <2>2, <2>3
<1>8. ASSUME NEW e \in 2..(m + 1)
      PROVE  t[e][2] \in 2..(a - 1) /\ \A p \in t[e][2]..(a - 1) : l[p] >= t[e][1]
  <2>1. CASE e = m + 1
    BY <1>3, <1>4, <2>1
  <2>2. CASE e \in 2..m /\ e \in 1..m
    BY <1>1, <1>4, <2>2 DEF Entries
  <2> QED BY <1>5, <2>1, <2>2
<1>9. Entries(t, l, a)
  BY <1>1, <1>4, <1>6, <1>7, <1>8 DEF Entries
<1> QED BY <1>1, <1>9

LEMMA InitInv == Init => IInv
  BY MinerAssumption DEF Init, IInv, Data, Walking

(***************************************************************************)
(* Before the walk: the text is built and the prefixes are counted.        *)
(***************************************************************************)
LEMMA LoadFileInv == ASSUME IInv, LoadFile PROVE IInv'
<1>1. files[at] \in Seq(Nat)
  BY DEF LoadFile, IInv, Data
<1>2. streams' = streams \/ streams' = Append(streams, files[at])
  BY DEF LoadFile
<1>3. streams' \in Seq(Seq(Nat))
  <2>1. PICK f : f = files[at]
    OBVIOUS
  <2>2. f \in Seq(Nat) /\ streams \in Seq(Seq(Nat))
    BY <1>1, <2>1 DEF IInv, Data
  <2>3. Append(streams, f) \in Seq(Seq(Nat))
    BY <2>2
  <2> QED BY <1>2, <2>1, <2>2, <2>3
<1>4. Data'
  BY <1>3 DEF LoadFile, IInv, Data, text, walk
<1>5. Walking'
  BY DEF LoadFile, Walking
<1> QED BY <1>4, <1>5 DEF IInv

LEMMA JoinInv == ASSUME IInv, Join PROVE IInv'
<1>1. streams[at] \in Seq(Nat) /\ -at \in Int
  BY DEF Join, IInv, Data
<1>2. streams[at] \in Seq(Int)
  BY <1>1
<1>3. WithSentinel(at) \in Seq(Int)
  BY <1>1, <1>2 DEF WithSentinel
<1>4. concat' \in Seq(Int)
  BY <1>3 DEF Join, IInv, Data
<1>5. Data'
  BY <1>4 DEF Join, IInv, Data, loaded
<1>6. Walking'
  BY DEF Join, Walking
<1> QED BY <1>5, <1>6 DEF IInv

LEMMA RoundInv == ASSUME IInv, Round PROVE IInv'
<1>1. phase = "sort" /\ phase' \in {"sort", "lcp"}
  BY DEF Round, ToLcp
<1>2. concat' = concat /\ files' = files /\ streams' = streams
  BY DEF Round, text, loaded
<1>3. n \in Nat /\ n' = n
  BY <1>2 DEF n, IInv, Data
<1>4. h' \in Nat /\ at' \in Nat \ {0}
  BY DEF Round, ToLcp, IInv, Data
<1>5. phase' = "lcp" => lcp' \in [1..n -> Nat]
  BY <1>3 DEF Round, ToLcp
<1>6. Data'
  BY <1>1, <1>2, <1>3, <1>4, <1>5 DEF IInv, Data
<1>7. Walking'
  BY <1>1 DEF Walking
<1> QED BY <1>6, <1>7 DEF IInv

LEMMA KasaiInv ==
  ASSUME IInv, KasaiExtend \/ KasaiStore \/ KasaiFirst PROVE IInv'
<1>1. phase = "lcp" /\ phase' = "lcp" /\ UNCHANGED <<loaded, text>>
  BY DEF KasaiExtend, KasaiStore, KasaiFirst
<1>2. n \in Nat /\ n' = n
  BY <1>1 DEF n, IInv, Data, text
<1>3. h' \in Nat /\ at' \in Nat \ {0}
  BY DEF KasaiExtend, KasaiStore, KasaiFirst, Carried, IInv, Data
<1>4. lcp' \in [1..n -> Nat]
  BY <1>1 DEF KasaiExtend, KasaiStore, KasaiFirst, IInv, Data
<1>5. Data'
  BY <1>1, <1>2, <1>3, <1>4 DEF IInv, Data, loaded, text
<1>6. Walking'
  BY <1>1 DEF Walking
<1> QED BY <1>5, <1>6 DEF IInv

LEMMA KasaiEndInv == ASSUME IInv, KasaiEnd PROVE IInv'
<1>1. Data'
  BY DEF KasaiEnd, IInv, Data, n, loaded, text
<1>2. stack' = <<<<0, 1>>>> /\ left' = 2 /\ at' = 2
  BY DEF KasaiEnd
<1>3. Entries(stack', lcp', at')
  BY <1>2 DEF Entries
<1>4. Popped'
  BY <1>2 DEF Popped
<1> QED BY <1>1, <1>2, <1>3, <1>4 DEF IInv, Walking

(***************************************************************************)
(* A pop.  The bottom entry has height 0, so that it is not the one.       *)
(***************************************************************************)
LEMMA CurNat == ASSUME IInv, phase = "walk" PROVE Cur \in Nat
<1>1. n \in Nat /\ at \in Nat \ {0} /\ lcp \in [1..n -> Nat]
  BY DEF IInv, Data, n
<1>2. CASE at <= n
  BY <1>1, <1>2 DEF Cur
<1>3. CASE ~(at <= n)
  BY <1>3 DEF Cur
<1> QED BY <1>2, <1>3

LEMMA PopInv == ASSUME IInv, Pop PROVE IInv'
<1> DEFINE m == Len(stack)
<1>1. phase = "walk" /\ phase' = "walk" /\ at' = at /\ lcp' = lcp /\ concat' = concat
  BY DEF Pop, text
<1>2. Data /\ Entries(stack, lcp, at) /\ Popped /\ at >= 2 /\ at \in Nat
  BY <1>1 DEF IInv, Walking, Data
<1>3. Cur \in Nat /\ Cur' = Cur
  BY <1>1, CurNat DEF Cur, n
<1>4. Data'
  <2>1. files' = files /\ streams' = streams /\ h' = h /\ n' = n
    BY <1>1 DEF Pop, loaded, n
  <2> QED BY <1>1, <1>2, <2>1 DEF Data
<1>5. m \in Nat \ {0} /\ stack[m][1] \in Nat /\ stack[m][1] > Cur
  BY <1>2, TopEntry DEF Pop, Top
<1>6. m >= 2
  <2>1. stack[1][1] = 0
    BY <1>2 DEF Entries
  <2> QED BY <1>3, <1>5, <2>1
<1>7. stack' = SubSeq(stack, 1, m - 1) /\ left' = stack[m][2]
  BY DEF Pop, Front, Top
<1>8. Entries(stack', lcp', at')
  BY <1>1, <1>2, <1>6, <1>7, WithoutTop
<1>9. left' \in 2..at /\ left' \in 2..(at - 1) /\ \A p \in (left')..(at - 1) : lcp[p] >= stack[m][1]
  BY SMTT(40), <1>2, <1>5, <1>6, <1>7 DEF Entries
<1>10. ASSUME NEW p \in (left')..(at - 1) PROVE lcp[p] > Cur
  <2>1. p \in 1..n
    BY <1>2, <1>9 DEF Pop, Data, n
  <2>2. lcp[p] \in Nat /\ lcp[p] >= stack[m][1]
    BY <1>1, <1>2, <1>9, <2>1 DEF Data
  <2> QED BY <1>3, <1>5, <2>2
<1>11. Popped'
  BY <1>1, <1>3, <1>9, <1>10 DEF Popped
<1> QED BY <1>1, <1>2, <1>4, <1>8, <1>11 DEF IInv, Walking

(***************************************************************************)
(* An advance, which opens an interval where the prefix has grown.         *)
(***************************************************************************)
LEMMA AdvanceInv == ASSUME IInv, Advance PROVE IInv'
<1> DEFINE m == Len(stack)
<1>1. phase = "walk" /\ phase' = "walk" /\ at' = at + 1 /\ left' = at + 1
      /\ lcp' = lcp /\ concat' = concat
  BY DEF Advance, text
<1>2. Data /\ Entries(stack, lcp, at) /\ Popped /\ at >= 2 /\ at \in Nat
  BY <1>1 DEF IInv, Walking, Data
<1>3. Cur \in Nat /\ n \in Nat /\ at <= n + 1
  BY <1>1, <1>2, CurNat DEF Advance, Data, n
<1>4. Data'
  <2>1. files' = files /\ streams' = streams /\ h' = h /\ n' = n
    BY <1>1 DEF Advance, loaded, n
  <2> QED BY <1>1, <1>2, <2>1 DEF Data
<1>5. m \in Nat \ {0} /\ stack[m][1] \in Nat /\ stack[m][1] <= Cur
  BY <1>2, TopEntry DEF Advance, Top
<1>6. Cur > 0 => at <= n /\ lcp[at] = Cur
  BY DEF Cur
<1>7. m >= 2 => Cur > 0
  <2> SUFFICES ASSUME m >= 2 PROVE Cur > 0 OBVIOUS
  <2>1. stack[1][1] = 0 /\ stack[1][1] < stack[m][1]
    BY <1>2, <1>5 DEF Entries
  <2> QED BY <1>3, <1>5, <2>1
<1>8. Entries(stack, lcp, at + 1)
  BY <1>2, <1>3, <1>5, <1>6, <1>7, OneOn
<1>9. Entries(stack', lcp', at')
  <2>1. CASE stack' = stack
    BY <1>1, <1>8, <2>1
  <2>2. CASE stack[m][1] < Cur /\ stack' = Append(stack, <<Cur, left>>)
    <3>1. at <= n /\ lcp[at] = Cur
      BY <1>3, <1>5, <1>6, <2>2
    <3>2. left \in 2..((at + 1) - 1)
      BY <1>2 DEF Popped
    <3>3. ASSUME NEW p \in left..((at + 1) - 1) PROVE lcp[p] >= Cur
      <4>1. CASE p = at
        BY <1>3, <3>1, <4>1
      <4>2. CASE p # at
        <5>1. p \in left..(at - 1) /\ p \in 1..n
          BY <1>2, <1>3, <3>1, <3>2, <4>2
        <5>2. lcp[p] \in Nat /\ lcp[p] > Cur
          BY <1>1, <1>2, <5>1 DEF Data, Popped
        <5> QED BY <1>3, <5>2
      <4> QED BY <4>1, <4>2
    <3>4. at + 1 \in Nat
      BY <1>2
    <3>5. PICK c : c = Cur
      OBVIOUS
    <3>6. Entries(Append(stack, <<c, left>>), lcp, at + 1)
      BY <1>3, <1>8, <2>2, <3>2, <3>3, <3>4, <3>5, NewTop
    <3> QED BY <1>1, <2>2, <3>5, <3>6
  <2> QED BY <2>1, <2>2 DEF Advance, Opened, Top
<1>10. Popped'
  BY <1>1, <1>2 DEF Popped
<1> QED BY <1>1, <1>2, <1>4, <1>9, <1>10 DEF IInv, Walking

(***************************************************************************)
(* The other steps leave the walk alone or are outside of it.              *)
(***************************************************************************)
LEMMA OthersInv ==
  ASSUME IInv, LoadEnd \/ JoinEnd \/ WalkEnd \/ PrefixDedup \/ PrefixEnd \/ Bucketed \/ Finish
  PROVE  IInv'
<1>1. phase' \notin {"lcp", "walk"}
  BY DEF LoadEnd, JoinEnd, WalkEnd, PrefixDedup, PrefixEnd, Bucketed, Finish
<1>2. UNCHANGED <<files, streams, concat, h>>
  BY DEF LoadEnd, JoinEnd, WalkEnd, PrefixDedup, PrefixEnd, Bucketed, Finish, loaded, text
<1>3. at' \in Nat \ {0}
  BY DEF LoadEnd, JoinEnd, WalkEnd, PrefixDedup, PrefixEnd, Bucketed, Finish, IInv, Data
<1> QED BY <1>1, <1>2, <1>3 DEF IInv, Data, Walking

LEMMA StutterInv == ASSUME IInv, UNCHANGED vars PROVE IInv'
<1>1. UNCHANGED <<files, streams, concat, h, at, phase, lcp, stack, left>>
  BY DEF vars, loaded, text, walk
<1>2. Data'
  BY <1>1 DEF IInv, Data, n
<1>3. Cur' = Cur
  BY <1>1 DEF Cur, n
<1>4. Walking'
  BY <1>1, <1>3 DEF IInv, Walking, Popped
<1> QED BY <1>2, <1>4 DEF IInv

LEMMA NextInv == IInv /\ [Next]_vars => IInv'
  BY LoadFileInv, JoinInv, RoundInv, KasaiInv, KasaiEndInv, PopInv, AdvanceInv,
     OthersInv, StutterInv DEF Next

(***************************************************************************)
(* The comment on the stack holds at every step of the walk.               *)
(***************************************************************************)
THEOREM Intervals == Spec => []StackIntervals
<1>1. IInv => StackIntervals
  <2> SUFFICES ASSUME IInv, phase = "walk" PROVE StackIntervals
    BY DEF StackIntervals
  <2>1. Entries(stack, lcp, at)
    BY DEF IInv, Walking
  <2>2. \A e \in 2..Len(stack) : e - 1 \in 1..Len(stack) /\ e \in 1..Len(stack) /\ e - 1 < e
    BY <2>1, TopEntry
  <2> QED BY <2>1, <2>2 DEF Entries, StackIntervals
<1> QED BY InitInv, NextInv, <1>1, PTL DEF Spec

-----------------------------------------------------------------------------
(***************************************************************************)
(* The joined text after the stream before a.                              *)
(***************************************************************************)
Ended(c, N, a) ==
  \/ a = 1 /\ N = 0
  \/ N >= 1 /\ c[N] = 1 - a /\ \A p \in 1..(N - 1) : c[p] > 1 - a

Positions(r, o, N) == \A i \in 1..N : r[i] \in 1..N /\ o[r[i]] = i

(***************************************************************************)
(* i and j share m tokens and no more.                                     *)
(***************************************************************************)
Common(c, N, i, j, m) ==
  m \in 0..N /\ Share(c, N, i, j, m) /\ ~(i + m <= N /\ j + m <= N /\ c[i + m] = c[j + m])

Kinds ==
  /\ phase \in {"load", "join", "sort", "lcp", "walk", "prefix", "near", "done"}
  /\ streamOf \in Seq(Nat) /\ Len(streamOf) = n
  /\ width \in Nat \ {0} /\ left \in Nat \ {0}
  /\ phase = "load" => concat = <<>>
  /\ phase \in {"load", "join"} => width = 1
  /\ phase = "join" => streams # <<>>

Joining == phase = "join" => Ended(concat, n, at)

Ordering ==
  phase \in {"sort", "lcp", "walk"} => Text(concat, n) /\ Perm(sa, n) /\ DOMAIN rank = 1..n

Ranking == phase = "sort" => RanksBy(rank, concat, n, width)

Carries == at <= n /\ h > 0 => \E j \in 1..n : rank[j] < rank[at] /\ Share(concat, n, j, at, h)

Stored == \A i \in 1..n : i < at /\ rank[i] > 1 => Common(concat, n, i, sa[rank[i] - 1], lcp[rank[i]])

Scanning ==
  phase = "lcp" => InOrder(sa, concat, n) /\ Positions(rank, sa, n) /\ Carries /\ Stored

Measured ==
  phase = "walk" =>
    InOrder(sa, concat, n) /\ \A p \in 2..n : Common(concat, n, sa[p], sa[p - 1], lcp[p])

SInv == Kinds /\ Joining /\ Ordering /\ Ranking /\ Scanning /\ Measured

LEMMA InitSInv == Init => SInv
  BY DEF Init, SInv, Kinds, Joining, Ordering, Ranking, Scanning, Measured, n

LEMMA TextIs ==
  ASSUME IInv PROVE n \in Nat /\ concat \in [1..n -> Int]
  BY DEF IInv, Data, n

LEMMA LoadSInv == ASSUME IInv, SInv, LoadFile \/ LoadEnd PROVE SInv'
<1>1. phase = "load" /\ phase' \in {"load", "join", "done"}
  BY DEF LoadFile, LoadEnd
<1>2. UNCHANGED <<concat, streamOf, width, left>>
  BY DEF LoadFile, LoadEnd, text, walk
<1>3. n' = n
  BY <1>2 DEF n
<1>4. phase' = "join" => streams' # <<>> /\ at' = 1
  BY <1>1 DEF LoadFile, LoadEnd, loaded
<1>5. phase' = "load" => concat' = <<>>
  BY <1>1, <1>2 DEF SInv, Kinds
<1>6. Kinds'
  BY <1>1, <1>2, <1>3, <1>4, <1>5 DEF SInv, Kinds
<1>7. Joining'
  <2>1. concat = <<>>
    BY <1>1 DEF SInv, Kinds
  <2>2. n = 0
    BY <2>1 DEF n
  <2> QED BY <1>3, <1>4, <2>2 DEF Joining, Ended
<1> QED BY <1>1, <1>6, <1>7 DEF SInv, Ordering, Ranking, Scanning, Measured

(***************************************************************************)
(* e is c with s behind it; s is d with x behind it.                       *)
(***************************************************************************)
Follows(e, c, s) ==
  /\ Len(e) = Len(c) + Len(s)
  /\ \A p \in 1..Len(c) : e[p] = c[p]
  /\ \A p \in 1..Len(e) : p > Len(c) => e[p] = s[p - Len(c)]

LEMMA FollowsThere ==
  ASSUME NEW S, NEW c \in Seq(S), NEW s \in Seq(S)
  PROVE  c \o s \in Seq(S) /\ Follows(c \o s, c, s)
<1>1. c \o s \in Seq(S) /\ Len(c \o s) = Len(c) + Len(s)
  OBVIOUS
<1>2. \A p \in 1..Len(c) : (c \o s)[p] = c[p]
  OBVIOUS
<1>3. \A p \in 1..(Len(c) + Len(s)) : p > Len(c) => (c \o s)[p] = s[p - Len(c)]
  OBVIOUS
<1> QED BY <1>1, <1>2, <1>3 DEF Follows

LEMMA JoinText ==
  ASSUME NEW c \in Seq(Int), NEW d \in Seq(Nat), NEW a \in Nat \ {0}, Ended(c, Len(c), a),
         NEW e, e = c \o Append(d, -a)
  PROVE  e \in Seq(Int) /\ Ended(e, Len(e), a + 1)
<1>1. PICK l, k, s, z : l = Len(c) /\ k = Len(d) /\ s = Append(d, z) /\ z = -a
  OBVIOUS
<1>2. s \in Seq(Int) /\ Len(s) = k + 1 /\ l \in Nat /\ k \in Nat /\ z \in Int
      /\ s[k + 1] = z /\ \A x \in 1..k : s[x] = d[x]
  <2>1. d \in Seq(Int) /\ z \in Int
    BY <1>1
  <2> QED BY <1>1, <2>1, OneMore
<1>3. \A x \in 1..k : s[x] \in Nat
  BY <1>1, <1>2
<1>4. e \in Seq(Int) /\ Follows(e, c, s)
  BY <1>1, <1>2, FollowsThere
<1>5. PICK N : N = Len(e)
  OBVIOUS
<1>6. N = l + (k + 1) /\ N \in Nat
  BY <1>1, <1>2, <1>4, <1>5 DEF Follows
<1>0. PICK u \in Int : u = 1 - (a + 1) /\ u < 1 - a /\ u < 0 /\ u = -a
  OBVIOUS
<1>7. N >= 1 /\ e[N] = u
  <2>1. N \in 1..N /\ N > l /\ N - l = k + 1
    BY <1>2, <1>6
  <2>2. e[N] = s[k + 1]
    BY <1>1, <1>4, <1>5, <2>1 DEF Follows
  <2> QED BY <1>0, <1>1, <1>2, <2>1, <2>2
<1>8. ASSUME NEW p \in 1..(N - 1) PROVE e[p] > u
  <2>1. CASE p <= l
    <3>1. p \in 1..l
      BY <1>2, <2>1
    <3>2. e[p] = c[p] /\ c[p] \in Int
      BY <1>1, <1>4, <3>1 DEF Follows
    <3>3. l >= 1
      BY <1>2, <3>1
    <3>4. c[l] = 1 - a /\ \A x \in 1..(l - 1) : c[x] > 1 - a
      BY <1>1, <3>3 DEF Ended
    <3>5. p = l \/ p \in 1..(l - 1)
      BY <1>2, <3>1
    <3>6. PICK v \in Int : v = e[p]
      BY <3>2
    <3>7. v >= 1 - a
      BY <3>2, <3>4, <3>5, <3>6
    <3>8. v > u
      BY <1>0, <3>7
    <3> QED BY <3>6, <3>8
  <2>2. CASE ~(p <= l)
    <3>1. PICK x : x = p - l
      OBVIOUS
    <3>2. x \in 1..k /\ p \in 1..N /\ p > l
      BY <1>2, <1>6, <2>2, <3>1
    <3>3. e[p] = s[x]
      BY <1>1, <1>4, <1>5, <3>1, <3>2 DEF Follows
    <3>4. e[p] \in Nat
      BY <1>3, <3>2, <3>3
    <3>5. PICK v \in Nat : v = e[p]
      BY <3>4
    <3>6. v > u
      BY <1>0
    <3> QED BY <3>5, <3>6
  <2> QED BY <2>1, <2>2
<1> QED BY <1>0, <1>4, <1>5, <1>7, <1>8 DEF Ended

LEMMA JoinSInv == ASSUME IInv, SInv, Join PROVE SInv'
<1>1. phase = "join" /\ phase' = "join" /\ UNCHANGED <<streams, width, left>>
  BY DEF Join, loaded, walk
<1>2. at \in Nat \ {0} /\ at <= Len(streams) /\ at' = at + 1
  BY DEF IInv, Data, Join
<1>3. PICK d : d = streams[at]
  OBVIOUS
<1>4. d \in Seq(Nat)
  BY <1>2, <1>3 DEF IInv, Data
<1>5. concat' = concat \o Append(d, -at)
  BY <1>3 DEF Join, WithSentinel
<1>6. concat' \in Seq(Int) /\ Ended(concat', Len(concat'), at + 1)
  <2>1. concat \in Seq(Int) /\ Ended(concat, Len(concat), at)
    BY <1>1 DEF IInv, Data, SInv, Joining, n
  <2> QED BY <1>2, <1>4, <1>5, <2>1, JoinText
<1>7. Joining'
  BY <1>2, <1>6 DEF Joining, n
<1>8. streamOf' \in Seq(Nat) /\ Len(streamOf') = n'
  <2>1. PICK w, k : w = Append(d, -at) /\ k = Len(d) + 1
    OBVIOUS
  <2>2. w \in Seq(Int) /\ Len(w) = k /\ DOMAIN w = 1..k /\ k \in Nat
    <3>1. d \in Seq(Int) /\ -at \in Int
      BY <1>2, <1>4
    <3> QED BY <1>4, <2>1, <3>1
  <2>3. PICK t : t = [x \in 1..k |-> at]
    OBVIOUS
  <2>4. t \in Seq(Nat) /\ Len(t) = k
    BY <1>2, <2>2, <2>3
  <2>5. streamOf' = streamOf \o t
    BY <1>3, <2>1, <2>2, <2>3 DEF Join, WithSentinel
  <2>6. streamOf \in Seq(Nat) /\ concat \in Seq(Int) /\ Len(streamOf) = Len(concat)
    BY DEF IInv, Data, SInv, Kinds, n
  <2>7. Len(streamOf') = Len(streamOf) + k /\ streamOf' \in Seq(Nat)
    BY <2>4, <2>5, <2>6
  <2>8. Len(concat') = Len(concat) + k
    BY <1>5, <2>1, <2>2, <2>6
  <2> QED BY <2>6, <2>7, <2>8 DEF n
<1>9. Kinds'
  BY <1>1, <1>8 DEF SInv, Kinds
<1> QED BY <1>1, <1>7, <1>9 DEF SInv, Ordering, Ranking, Scanning, Measured

LEMMA LastOnly ==
  ASSUME NEW c, NEW N \in Nat, c \in [1..N -> Int], NEW a \in Nat, a > 1, Ended(c, N, a)
  PROVE  Text(c, N)
<1>1. N >= 1 /\ c[N] = 1 - a /\ \A p \in 1..(N - 1) : c[p] > 1 - a
  BY DEF Ended
<1> QED BY <1>1 DEF Text

LEMMA JoinEndSInv == ASSUME IInv, SInv, JoinEnd PROVE SInv'
<1>1. phase = "join" /\ phase' \in {"sort", "done"}
      /\ UNCHANGED <<concat, streamOf, width, left, streams>>
  BY DEF JoinEnd, text, loaded, walk
<1>2. n' = n /\ width = 1
  BY <1>1 DEF n, SInv, Kinds
<1>3. Kinds'
  BY <1>1, <1>2 DEF SInv, Kinds
<1>4. ASSUME phase' = "sort"
      PROVE  Text(concat, n) /\ Perm(sa', n) /\ RanksBy(rank', concat, n, 1)
  <2>1. at \in Nat /\ at > 1
    <3>1. streams # <<>> /\ streams \in Seq(Seq(Nat)) /\ at > Len(streams)
      BY <1>1 DEF JoinEnd, SInv, Kinds, IInv, Data
    <3>2. Len(streams) >= 1
      BY <3>1
    <3> QED BY <3>1, <3>2 DEF IInv, Data
  <2>2. Text(concat, n)
    BY <1>1, <2>1, TextIs, LastOnly DEF SInv, Joining
  <2>3. PICK key, o : key = FirstKey /\ o = [i \in 1..n |-> i]
    OBVIOUS
  <2>4. key = KeysOfTokens(concat, n)
    BY <2>3 DEF FirstKey, KeysOfTokens
  <2>5. KeysBy(key, concat, n, 1)
    BY <2>2, <2>4, FirstKeys
  <2>6. sa' = Sorted(o, key) /\ rank' = Ranks(key)
    BY <1>4, <2>3 DEF JoinEnd
  <2>7. Perm(o, n)
    BY <2>3 DEF Perm
  <2>8. Perm(sa', n)
    BY <2>5, <2>6, <2>7, TextIs, SortedIsSorted DEF KeysBy
  <2>9. RanksBy(rank', concat, n, 1)
    BY <2>5, <2>6, TextIs, RanksOfKeys
  <2> QED BY <2>2, <2>8, <2>9
<1>5. Ordering' /\ Ranking'
  BY <1>1, <1>2, <1>4 DEF Ordering, Ranking, RanksBy
<1> QED BY <1>1, <1>3, <1>5 DEF SInv, Joining, Scanning, Measured

LEMMA RoundSInv == ASSUME IInv, SInv, Round PROVE SInv'
<1> DEFINE key == RoundKey
           order == Sorted(sa, key)
           ranks == Ranks(key)
<1>1. phase = "sort" /\ phase' \in {"sort", "lcp"} /\ UNCHANGED <<concat, streamOf, left>>
  BY DEF Round, ToLcp, text, walk
<1>2. n' = n /\ n \in Nat /\ width \in Nat \ {0}
  BY <1>1, TextIs DEF n, SInv, Kinds
<1>3. Text(concat, n) /\ Perm(sa, n) /\ RanksBy(rank, concat, n, width)
  BY <1>1 DEF SInv, Ordering, Ranking
<1>4. KeysBy(key, concat, n, width + width)
  <2>1. key = KeysOfRanks(rank, n, width)
    BY DEF RoundKey, Second, KeysOfRanks, SecondRank
  <2> HIDE DEF key
  <2> QED BY <1>2, <1>3, <2>1, Doubled
<1>5. CASE RoundsDone(ranks, order)
  <2>1. phase' = "lcp" /\ sa' = order /\ rank' = PositionIn(order) /\ h' = 0 /\ at' = 1
        /\ width' = width
    BY <1>5 DEF Round, ToLcp
  <2>2. n <= width + width \/ ranks[order[n]] = n
    <3>1. 2 * width = width + width
      BY <1>2
    <3> QED BY <1>2, <1>5, <3>1 DEF RoundsDone
  <2>3. InOrder(order, concat, n)
    <3> HIDE DEF key
    <3>1. width + width \in Nat
      BY <1>2
    <3> QED BY <1>3, <1>4, <2>2, <3>1, SortEnds
  <2>4. DOMAIN rank' = 1..n /\ Positions(rank', sa', n)
    <3> HIDE DEF order
    <3>1. rank' = [i \in 1..n |-> CHOOSE p \in 1..n : order[p] = i]
      BY <2>1 DEF PositionIn
    <3>2. \A i \in 1..n : \E p \in 1..n : order[p] = i
      BY <2>3 DEF InOrder, Perm
    <3> QED BY <2>1, <3>1, <3>2 DEF Positions
  <2>5. Kinds'
    BY <1>1, <1>2, <2>1 DEF SInv, Kinds
  <2>6. Carries' /\ Stored'
    BY <1>2, <2>1 DEF Carries, Stored
  <2>7. Ordering' /\ Scanning'
    BY <1>1, <1>2, <1>3, <2>1, <2>3, <2>4, <2>6 DEF Ordering, Scanning, InOrder
  <2> QED BY <2>1, <2>5, <2>7 DEF SInv, Joining, Ranking, Measured
<1>6. CASE ~RoundsDone(ranks, order)
  <2>1. phase' = "sort" /\ sa' = order /\ rank' = ranks /\ width' = width + width
    <3>1. 2 * width = width + width
      BY <1>2
    <3> QED BY <1>1, <1>6, <3>1 DEF Round
  <2>2. Perm(order, n)
    <3> HIDE DEF key
    <3> QED BY <1>2, <1>3, <1>4, SortedIsSorted DEF KeysBy
  <2>3. RanksBy(ranks, concat, n, width + width)
    <3> HIDE DEF key
    <3> QED BY <1>2, <1>4, RanksOfKeys
  <2>4. DOMAIN rank' = 1..n
    BY <2>1, <2>3 DEF RanksBy
  <2>5. Kinds'
    BY <1>1, <1>2, <2>1 DEF SInv, Kinds
  <2>6. Ordering' /\ Ranking'
    BY <1>1, <1>2, <1>3, <2>1, <2>2, <2>3, <2>4 DEF Ordering, Ranking
  <2> QED BY <2>1, <2>5, <2>6 DEF SInv, Joining, Scanning, Measured
<1> QED BY <1>5, <1>6

(***************************************************************************)
(* In the scan, positions and order agree.                                 *)
(***************************************************************************)
LEMMA RankOrder ==
  ASSUME NEW c, NEW N, Text(c, N), NEW o, InOrder(o, c, N), NEW r, Positions(r, o, N),
         NEW i \in 1..N, NEW j \in 1..N
  PROVE  r[i] < r[j] <=> Smaller(c, N, i, j, N)
<1>1. r[i] \in 1..N /\ r[j] \in 1..N /\ o[r[i]] = i /\ o[r[j]] = j
  BY DEF Positions
<1>2. r[i] < r[j] => Smaller(c, N, i, j, N)
  BY <1>1 DEF InOrder
<1>3. r[j] < r[i] => Smaller(c, N, j, i, N)
  BY <1>1 DEF InOrder
<1>4. r[i] < r[j] \/ r[j] < r[i] \/ i = j
  BY <1>1 DEF InOrder
<1>5. Smaller(c, N, i, j, N) => ~Smaller(c, N, j, i, N) /\ i # j
  <2>1. N \in Nat
    BY DEF Text
  <2> QED BY <2>1, NotBoth
<1> QED BY <1>2, <1>3, <1>4, <1>5

(***************************************************************************)
(* What the scan knows at a suffix: it carries no more than the suffix     *)
(* shares with its neighbour, and nothing where it has none.               *)
(***************************************************************************)
LEMMA Carrying ==
  ASSUME IInv, SInv, phase = "lcp", at <= n
  PROVE  /\ at \in 1..n /\ rank[at] \in 1..n /\ sa[rank[at]] = at
         /\ rank[at] <= 1 => h = 0
         /\ rank[at] > 1 =>
              /\ Before(at) \in 1..n /\ Share(concat, n, Before(at), at, h)
              /\ Smaller(concat, n, Before(at), at, n)
<1>1. n \in Nat /\ at \in 1..n /\ h \in Nat
  BY DEF IInv, Data, n
<1>2. Text(concat, n) /\ InOrder(sa, concat, n) /\ Positions(rank, sa, n) /\ Carries
  BY DEF SInv, Ordering, Scanning
<1>3. \A i \in 1..n : rank[i] \in 1..n /\ sa[rank[i]] = i
  BY <1>2 DEF Positions
<1>4. ASSUME rank[at] <= 1 PROVE h = 0
  <2> SUFFICES ASSUME h > 0 PROVE FALSE
    BY <1>1
  <2>1. PICK j \in 1..n : rank[j] < rank[at]
    BY <1>2 DEF Carries
  <2> QED BY <1>1, <1>3, <1>4, <2>1
<1>5. ASSUME rank[at] > 1
      PROVE  /\ Before(at) \in 1..n /\ Share(concat, n, Before(at), at, h)
             /\ Smaller(concat, n, Before(at), at, n)
  <2>1. PICK q, b : q = rank[at] - 1 /\ b = sa[q]
    OBVIOUS
  <2>2. q \in 1..n /\ q < rank[at] /\ Before(at) = b
    BY <1>1, <1>3, <1>5, <2>1 DEF Before
  <2>3. b \in 1..n /\ Smaller(concat, n, b, at, n)
    BY <1>1, <1>2, <1>3, <2>1, <2>2 DEF InOrder, Perm
  <2>4. Share(concat, n, b, at, h)
    <3>1. CASE h = 0
      BY <3>1 DEF Share
    <3>2. CASE h > 0
      <4>1. PICK j \in 1..n : rank[j] < rank[at] /\ Share(concat, n, j, at, h)
        BY <1>2, <3>2 DEF Carries
      <4>2. CASE j = b
        BY <4>1, <4>2
      <4>3. CASE j # b
        <5>1. rank[j] # q /\ rank[j] \in 1..n
          BY <1>3, <2>1, <4>3
        <5>2. rank[j] < q
          BY <1>1, <1>3, <2>1, <4>1, <5>1
        <5>3. sa[rank[j]] = j /\ Smaller(concat, n, j, b, n)
          BY <1>2, <1>3, <2>1, <2>2, <5>1, <5>2 DEF InOrder
        <5> QED BY <1>1, <1>2, <2>3, <4>1, <5>3, Between
      <4> QED BY <4>2, <4>3
    <3> QED BY <1>1, <3>1, <3>2
  <2> QED BY <2>2, <2>3, <2>4
<1> QED BY <1>1, <1>3, <1>4, <1>5

(***************************************************************************)
(* What does not change in the scan.                                       *)
(***************************************************************************)
LEMMA ScanFrame ==
  ASSUME IInv, SInv, phase = "lcp", phase' \in {"lcp", "walk"}, left' \in Nat \ {0},
         UNCHANGED <<concat, streamOf, sa, rank, width>>
  PROVE  n' = n /\ Kinds' /\ Joining' /\ Ordering' /\ Ranking'
<1>1. n' = n
  BY DEF n
<1>2. Kinds'
  BY <1>1 DEF SInv, Kinds
<1>3. Ordering'
  BY <1>1 DEF SInv, Ordering
<1> QED BY <1>1, <1>2, <1>3 DEF Joining, Ranking

LEMMA ExtendSInv == ASSUME IInv, SInv, KasaiExtend PROVE SInv'
<1>1. /\ phase = "lcp" /\ phase' = "lcp" /\ at <= n /\ at' = at /\ h' = h + 1 /\ lcp' = lcp
      /\ rank[at] > 1 /\ Agree(at, Before(at))
      /\ UNCHANGED <<concat, streamOf, sa, rank, width, left>>
  BY DEF KasaiExtend, text, walk
<1>2. n' = n /\ Kinds' /\ Joining' /\ Ordering' /\ Ranking'
  BY <1>1, ScanFrame DEF SInv, Kinds
<1>3. h \in Nat /\ n \in Nat
  BY TextIs DEF IInv, Data
<1>4. PICK b : b = Before(at)
  OBVIOUS
<1>5. b \in 1..n /\ Share(concat, n, b, at, h) /\ Smaller(concat, n, b, at, n) /\ at \in 1..n
  BY <1>1, <1>4, Carrying
<1>6. Share(concat, n, b, at, h + 1)
  BY <1>1, <1>3, <1>4, <1>5, ShareOneMore DEF Agree
<1>7. rank[b] < rank[at]
  BY <1>1, <1>5, RankOrder DEF SInv, Ordering, Scanning
<1>8. Carries'
  BY <1>1, <1>2, <1>5, <1>6, <1>7 DEF Carries
<1>9. Stored'
  BY <1>1, <1>2 DEF SInv, Scanning, Stored
<1> QED BY <1>1, <1>2, <1>8, <1>9 DEF SInv, Scanning, Measured

LEMMA StoreSInv == ASSUME IInv, SInv, KasaiStore PROVE SInv'
<1>1. /\ phase = "lcp" /\ phase' = "lcp" /\ at <= n /\ at' = at + 1 /\ h' = Carried(h)
      /\ lcp' = [lcp EXCEPT ![rank[at]] = h]
      /\ rank[at] > 1 /\ ~Agree(at, Before(at))
      /\ UNCHANGED <<concat, streamOf, sa, rank, width, left>>
  BY DEF KasaiStore, text, walk
<1>2. n' = n /\ Kinds' /\ Joining' /\ Ordering' /\ Ranking'
  BY <1>1, ScanFrame DEF SInv, Kinds
<1>3. h \in Nat /\ n \in Nat /\ lcp \in [1..n -> Nat]
  BY <1>1, TextIs DEF IInv, Data
<1>4. Text(concat, n) /\ InOrder(sa, concat, n) /\ Positions(rank, sa, n) /\ Stored
  BY <1>1 DEF SInv, Ordering, Scanning
<1>5. PICK b : b = Before(at)
  OBVIOUS
<1>6. /\ b \in 1..n /\ Share(concat, n, b, at, h) /\ Smaller(concat, n, b, at, n)
      /\ at \in 1..n /\ rank[at] \in 1..n
  BY <1>1, <1>5, Carrying
<1>7. Carries'
  <2> SUFFICES ASSUME at' <= n, h' > 0
               PROVE  \E j \in 1..n : rank[j] < rank[at'] /\ Share(concat, n, j, at', h')
    BY <1>1, <1>2 DEF Carries
  <2>1. h \in Nat \ {0} /\ h' = h - 1
    BY <1>1, <1>3 DEF Carried
  <2>2. PICK a, d, l : a = at + 1 /\ d = b + 1 /\ l = h - 1
    OBVIOUS
  <2>3. /\ a \in 1..n /\ d \in 1..n
        /\ Share(concat, n, d, a, l) /\ Smaller(concat, n, d, a, n)
    <3>1. PICK i, m, N : i = at /\ m = h /\ N = n
      OBVIOUS
    <3>2. /\ Text(concat, N) /\ i \in 1..N /\ b \in 1..N /\ m \in Nat \ {0}
          /\ Share(concat, N, b, i, m) /\ Smaller(concat, N, b, i, N)
          /\ a = i + 1 /\ d = b + 1 /\ l = m - 1
      BY <1>4, <1>6, <2>1, <2>2, <3>1
    <3>3. /\ a \in 1..N /\ d \in 1..N
          /\ Share(concat, N, d, a, l) /\ Smaller(concat, N, d, a, N)
      BY <3>2, StepOn
    <3> QED BY <3>1, <3>3
  <2>4. rank[d] < rank[a]
    BY <1>4, <2>3, RankOrder
  <2> QED BY <1>1, <2>1, <2>2, <2>3, <2>4
<1>8. Common(concat, n, at, b, h)
  <2>1. h <= n
    <3>1. b + h <= n
      BY <1>3, <1>4, <1>6, NotBoth, GoesOn
    <3> QED BY <1>3, <1>6, <3>1
  <2>2. Share(concat, n, at, b, h)
    BY <1>6 DEF Share
  <2>3. ~(at + h <= n /\ b + h <= n /\ concat[at + h] = concat[b + h])
    BY <1>1, <1>5 DEF Agree
  <2> QED BY <1>3, <2>1, <2>2, <2>3 DEF Common
<1>9. Stored'
  <2> SUFFICES ASSUME NEW i \in 1..n, i < at + 1, rank[i] > 1
               PROVE  Common(concat, n, i, sa[rank[i] - 1], lcp'[rank[i]])
    BY <1>1, <1>2 DEF Stored
  <2>1. CASE i = at
    <3>1. lcp'[rank[i]] = h
      BY <1>1, <1>3, <1>6, <2>1
    <3> QED BY <1>5, <1>8, <2>1, <3>1 DEF Before
  <2>2. CASE i # at
    <3>1. i < at
      BY <1>6, <2>2
    <3>2. rank[i] # rank[at]
      BY <1>4, <1>6, <2>2 DEF Positions
    <3>3. lcp'[rank[i]] = lcp[rank[i]]
      BY <1>1, <1>3, <1>4, <3>2 DEF Positions
    <3> QED BY <1>4, <3>1, <3>3 DEF Stored
  <2> QED BY <2>1, <2>2
<1>10. Scanning'
  BY <1>1, <1>2, <1>4, <1>7, <1>9 DEF Scanning
<1> QED BY <1>1, <1>2, <1>10 DEF SInv, Measured

LEMMA FirstSInv == ASSUME IInv, SInv, KasaiFirst PROVE SInv'
<1>1. /\ phase = "lcp" /\ phase' = "lcp" /\ at <= n /\ at' = at + 1 /\ rank[at] <= 1
      /\ UNCHANGED <<concat, streamOf, sa, rank, width, left, h, lcp>>
  BY DEF KasaiFirst, text, walk
<1>2. n' = n /\ Kinds' /\ Joining' /\ Ordering' /\ Ranking'
  BY <1>1, ScanFrame DEF SInv, Kinds
<1>3. h = 0 /\ at \in 1..n /\ ~(rank[at] > 1)
  BY <1>1, Carrying
<1>4. Carries'
  BY <1>1, <1>3 DEF Carries
<1>5. Stored'
  <2> SUFFICES ASSUME NEW i \in 1..n, i < at + 1, rank[i] > 1
               PROVE  Common(concat, n, i, sa[rank[i] - 1], lcp[rank[i]])
    BY <1>1, <1>2 DEF Stored
  <2>1. i < at
    <3>1. i # at /\ at \in Nat
      BY <1>3, TextIs
    <3> QED BY <3>1
  <2> QED BY <1>1, <2>1 DEF SInv, Scanning, Stored
<1>6. Scanning'
  BY <1>1, <1>2, <1>4, <1>5 DEF SInv, Scanning
<1> QED BY <1>1, <1>2, <1>6 DEF SInv, Measured

LEMMA ScannedSInv == ASSUME IInv, SInv, KasaiEnd PROVE SInv'
<1>1. /\ phase = "lcp" /\ phase' = "walk" /\ at > n /\ left' = 2
      /\ UNCHANGED <<concat, streamOf, sa, rank, width, lcp>>
  BY DEF KasaiEnd, text
<1>2. n' = n /\ Kinds' /\ Joining' /\ Ordering' /\ Ranking'
  BY <1>1, ScanFrame
<1>3. n \in Nat /\ at \in Nat /\ InOrder(sa, concat, n) /\ Positions(rank, sa, n) /\ Stored
  BY <1>1, TextIs DEF SInv, Scanning, IInv, Data
<1>4. ASSUME NEW p \in 2..n PROVE Common(concat, n, sa[p], sa[p - 1], lcp[p])
  <2>1. PICK i : i = sa[p]
    OBVIOUS
  <2>2. p \in 1..n /\ i \in 1..n
    BY <1>3, <2>1 DEF InOrder, Perm
  <2>3. rank[i] \in 1..n /\ sa[rank[i]] = i
    BY <1>3, <2>2 DEF Positions
  <2>4. rank[i] = p
    BY <1>3, <2>1, <2>2, <2>3 DEF InOrder, Perm
  <2>5. i < at /\ rank[i] > 1
    BY <1>1, <1>3, <2>2, <2>4
  <2> QED BY <1>3, <2>1, <2>2, <2>4, <2>5 DEF Stored
<1>5. Measured'
  BY <1>1, <1>2, <1>3, <1>4 DEF Measured
<1> QED BY <1>1, <1>2, <1>5 DEF SInv, Scanning

LEMMA WalkSInv == ASSUME IInv, SInv, Pop \/ Advance PROVE SInv'
<1>1. /\ phase = "walk" /\ phase' = "walk"
      /\ UNCHANGED <<concat, streamOf, sa, rank, width, lcp>>
  BY DEF Pop, Advance, text
<1>2. left' \in Nat \ {0}
  <2>1. Entries(stack, lcp, at) /\ at \in Nat \ {0}
    BY <1>1 DEF IInv, Data, Walking
  <2>2. CASE Pop
    <3>1. Len(stack) \in 1..Len(stack)
      BY <2>1, TopEntry
    <3>2. Top \in Nat \X (Nat \ {0})
      BY <2>1, <3>1, TopEntry DEF Top
    <3> QED BY <2>2, <3>2 DEF Pop
  <2>3. CASE Advance
    BY <2>1, <2>3 DEF Advance
  <2> QED BY <2>2, <2>3
<1>3. n' = n
  BY <1>1 DEF n
<1>4. Kinds'
  BY <1>1, <1>2, <1>3 DEF SInv, Kinds
<1>5. Ordering' /\ Measured'
  BY <1>1, <1>3 DEF SInv, Ordering, Measured
<1> QED BY <1>1, <1>4, <1>5 DEF SInv, Joining, Ranking, Scanning

LEMMA RestSInv ==
  ASSUME IInv, SInv, WalkEnd \/ PrefixDedup \/ PrefixEnd \/ Bucketed \/ Finish
  PROVE  SInv'
<1>1. /\ phase' \in {"prefix", "near", "done"}
      /\ UNCHANGED <<concat, streamOf, width, left>>
  BY DEF WalkEnd, PrefixDedup, PrefixEnd, Bucketed, Finish, text, walk
<1>2. n' = n
  BY <1>1 DEF n
<1>3. Kinds'
  BY <1>1, <1>2 DEF SInv, Kinds
<1> QED BY <1>1, <1>3 DEF SInv, Joining, Ordering, Ranking, Scanning, Measured

LEMMA StutterSInv == ASSUME SInv, UNCHANGED vars PROVE SInv'
<1>1. /\ n' = n
      /\ UNCHANGED <<phase, streams, concat, streamOf, width, left, at, sa, rank, h, lcp>>
  BY DEF vars, loaded, text, walk, n
<1>2. Kinds' /\ Joining' /\ Ordering' /\ Ranking'
  BY <1>1 DEF SInv, Kinds, Joining, Ordering, Ranking
<1>3. Scanning' /\ Measured'
  BY <1>1 DEF SInv, Scanning, Carries, Stored, Measured
<1> QED BY <1>2, <1>3 DEF SInv

LEMMA NextSInv == IInv /\ SInv /\ [Next]_vars => SInv'
  BY LoadSInv, JoinSInv, JoinEndSInv, RoundSInv, ExtendSInv, StoreSInv, FirstSInv,
     ScannedSInv, WalkSInv, RestSInv, StutterSInv DEF Next

LEMMA Invariants == Spec => [](IInv /\ SInv)
  BY InitInv, InitSInv, NextInv, NextSInv, PTL DEF Spec

(***************************************************************************)
(* The state of the miner is well formed: what is sorted is a permutation  *)
(* of the positions of the text, from the first sort to the end of the     *)
(* walk.                                                                   *)
(***************************************************************************)
THEOREM Typed == Spec => []TypeOK
<1>1. IInv /\ SInv => TypeOK
  <2> SUFFICES ASSUME IInv, SInv PROVE TypeOK
    OBVIOUS
  <2>1. concat \in Seq(Int) /\ DOMAIN streamOf = 1..n
    BY DEF IInv, Data, SInv, Kinds
  <2>2. ASSUME phase \in {"sort", "lcp", "walk"}
        PROVE  /\ DOMAIN sa = 1..n /\ DOMAIN rank = 1..n
               /\ {sa[p] : p \in DOMAIN sa} = 1..n
    <3>1. Perm(sa, n) /\ DOMAIN rank = 1..n
      BY <2>2 DEF SInv, Ordering
    <3> QED BY <3>1 DEF Perm
  <2>3. phase = "walk" => lcp \in [1..n -> Nat] /\ stack \in Seq(Nat \X (Nat \ {0}))
    BY DEF IInv, Data, Walking, Entries
  <2> QED BY <2>1, <2>2, <2>3 DEF TypeOK, IInv, Data, SInv, Kinds
<1> QED BY <1>1, Invariants, PTL

(***************************************************************************)
(* The common prefix of two suffixes is the length at which they differ.   *)
(***************************************************************************)
LEMMA CommonIs ==
  ASSUME n \in Nat, NEW i \in 1..n, NEW j \in 1..n, NEW m, Common(concat, n, i, j, m)
  PROVE  CommonPrefix(i, j) = m
<1>1. CommonPrefix(i, j) = CHOOSE k \in 0..n : Common(concat, n, i, j, k)
  BY DEF CommonPrefix, Common, Share
<1>2. ASSUME NEW k \in 0..n, Common(concat, n, i, j, k) PROVE k = m
  <2>1. m \in 0..n
    BY DEF Common
  <2>2. CASE k < m
    <3>1. k \in 0..(m - 1)
      BY <2>1, <2>2
    <3> QED BY <1>2, <3>1 DEF Common, Share
  <2>3. CASE m < k
    <3>1. m \in 0..(k - 1)
      BY <2>1, <2>3
    <3> QED BY <1>2, <3>1 DEF Common, Share
  <2> QED BY <2>1, <2>2, <2>3
<1>3. m \in 0..n
  BY DEF Common
<1> QED BY <1>1, <1>2, <1>3

LEMMA SharedIsCommon ==
  ASSUME Text(concat, n), NEW i \in 1..n, NEW j \in 1..n, i # j, NEW m \in Nat,
         Share(concat, n, i, j, m)
  PROVE  m <= CommonPrefix(i, j)
<1>0. n \in Nat
  BY DEF Text
<1>1. PICK x \in 0..(n - 1) : LessAt(concat, n, i, j, x) \/ LessAt(concat, n, j, i, x)
  BY SomewhereLess
<1>2. /\ Share(concat, n, i, j, x) /\ i + x \in 1..n /\ j + x \in 1..n
      /\ (concat[i + x] < concat[j + x] \/ concat[j + x] < concat[i + x])
  BY <1>0, <1>1 DEF LessAt, Share
<1>3. concat[i + x] # concat[j + x]
  <2>1. concat[i + x] \in Int /\ concat[j + x] \in Int
    BY <1>2 DEF Text
  <2> QED BY <1>2, <2>1
<1>4. x \in 0..n
  BY <1>0
<1>5. CommonPrefix(i, j) = x
  BY <1>0, <1>2, <1>3, <1>4, CommonIs DEF Common
<1>6. m <= x
  <2> SUFFICES ASSUME x < m PROVE FALSE
    BY <1>0
  <2>1. x \in 0..(m - 1)
    BY <1>0
  <2> QED BY <1>3, <2>1 DEF Share
<1> QED BY <1>5, <1>6

(***************************************************************************)
(* The length Kasai's scan carries over never exceeds what a suffix really *)
(* shares with its neighbour, and is 0 where it has none: the doubling     *)
(* rounds have sorted the suffixes, however the loop ended.                *)
(***************************************************************************)
THEOREM NoOvershoot == Spec => []KasaiNeverOvershoots
<1>1. IInv /\ SInv => KasaiNeverOvershoots
  <2> SUFFICES ASSUME IInv, SInv, phase = "lcp", at <= n
               PROVE  IF rank[at] > 1 THEN h <= CommonPrefix(at, Before(at)) ELSE h = 0
    BY DEF KasaiNeverOvershoots
  <2>1. n \in Nat /\ h \in Nat /\ Text(concat, n)
    BY TextIs DEF IInv, Data, SInv, Ordering
  <2>2. at \in 1..n /\ rank[at] \in 1..n
    BY Carrying
  <2>3. CASE rank[at] > 1
    <3>1. PICK b : b = Before(at)
      OBVIOUS
    <3>2. b \in 1..n /\ Share(concat, n, b, at, h) /\ Smaller(concat, n, b, at, n)
      BY <2>3, <3>1, Carrying
    <3>3. b # at
      BY <2>1, <2>2, <3>2, NotBoth
    <3>4. Share(concat, n, at, b, h)
      BY <3>2 DEF Share
    <3> QED BY <2>1, <2>2, <2>3, <3>1, <3>2, <3>3, <3>4, SharedIsCommon
  <2>4. CASE ~(rank[at] > 1)
    <3>1. rank[at] <= 1
      BY <2>2, <2>4
    <3> QED BY <2>4, <3>1, Carrying
  <2> QED BY <2>3, <2>4
<1> QED BY <1>1, Invariants, PTL

(***************************************************************************)
(* What the scan was for: in the walk, every neighbour's prefix is exact.  *)
(***************************************************************************)
LcpExact == phase = "walk" => \A p \in 2..n : lcp[p] = CommonPrefix(sa[p], sa[p - 1])

(***************************************************************************)
(* _kasai_lcp returns the longest common prefixes of the neighbours in the *)
(* suffix array that _build_suffix_array returned.                         *)
(***************************************************************************)
THEOREM Exact == Spec => []LcpExact
<1>1. IInv /\ SInv => LcpExact
  <2> SUFFICES ASSUME IInv, SInv, phase = "walk", NEW p \in 2..n
               PROVE  lcp[p] = CommonPrefix(sa[p], sa[p - 1])
    BY DEF LcpExact
  <2>1. n \in Nat /\ Perm(sa, n) /\ Common(concat, n, sa[p], sa[p - 1], lcp[p])
    BY TextIs DEF SInv, Measured, Ordering
  <2>2. p \in 1..n /\ p - 1 \in 1..n
    BY <2>1
  <2>3. PICK i, j, m : i = sa[p] /\ j = sa[p - 1] /\ m = lcp[p]
    OBVIOUS
  <2>4. i \in 1..n /\ j \in 1..n
    BY <2>1, <2>2, <2>3 DEF Perm
  <2> QED BY <2>1, <2>3, <2>4, CommonIs
<1> QED BY <1>1, Invariants, PTL

-----------------------------------------------------------------------------
(***************************************************************************)
(* Position p of a text c, which so says belongs to stream sid, holds      *)
(* token q of that stream s or of the sentinel behind it, and what follows *)
(* in the text is what follows in the stream.                              *)
(***************************************************************************)
Holds(c, N, so, p, s, sid, q) ==
  /\ q \in 1..(Len(s) + 1)
  /\ \A x \in 0..(Len(s) + 1 - q) :
       /\ p + x <= N /\ so[p + x] = sid
       /\ c[p + x] = IF q + x <= Len(s) THEN s[q + x] ELSE -sid

(***************************************************************************)
(* The first m streams are in the text, all of them and nothing else, and  *)
(* no sentinel is there twice.                                             *)
(***************************************************************************)
Consists(c, N, so, strs, m) ==
  /\ \A p \in 1..N : so[p] \in 1..m /\ \E q \in Nat : Holds(c, N, so, p, strs[so[p]], so[p], q)
  /\ \A sid \in 1..m : \A q \in 1..(Len(strs[sid]) + 1) :
       \E p \in 1..N : Holds(c, N, so, p, strs[sid], sid, q)
  /\ \A p, q \in 1..N : c[p] = c[q] /\ c[p] < 0 => p = q

(***************************************************************************)
(* w occurs at position p.                                                 *)
(***************************************************************************)
OccursAt(c, N, w, p) == \A x \in 0..(Len(w) - 1) : p + x <= N /\ c[p + x] = w[x + 1]

LEMMA SlicePoints ==
  ASSUME NEW S, NEW s \in Seq(S), NEW p \in Nat \ {0}, NEW k \in Nat, p + k - 1 <= Len(s)
  PROVE  /\ SubSeq(s, p, p + k - 1) \in Seq(S) /\ Len(SubSeq(s, p, p + k - 1)) = k
         /\ \A x \in 1..k : SubSeq(s, p, p + k - 1)[x] = s[p + x - 1]
  OBVIOUS

Slice(s, p, k, t) == t \in Seq(Int) /\ Len(t) = k /\ \A x \in 0..(k - 1) : t[x + 1] = s[p + x]

LEMMA SliceIs ==
  ASSUME NEW s \in Seq(Int), NEW p \in Nat \ {0}, NEW k \in Nat, p + k - 1 <= Len(s),
         NEW t, t = SubSeq(s, p, p + k - 1)
  PROVE  Slice(s, p, k, t)
<1>1. t \in Seq(Int) /\ Len(t) = k /\ \A x \in 1..k : t[x] = s[p + x - 1]
  BY SlicePoints
<1>2. ASSUME NEW x \in 0..(k - 1) PROVE t[x + 1] = s[p + x]
  <2>1. PICK y : y = x + 1
    OBVIOUS
  <2>2. y \in 1..k /\ p + y - 1 = p + x
    BY <2>1
  <2>3. t[y] = s[p + y - 1]
    BY <1>1, <2>2
  <2> QED BY <2>1, <2>2, <2>3
<1> QED BY <1>1, <1>2 DEF Slice

LEMMA SlicesEqual ==
  ASSUME NEW s, NEW p, NEW k \in Nat, NEW t, NEW u, Slice(s, p, k, t), Slice(s, p, k, u)
  PROVE  t = u
<1>1. t \in Seq(Int) /\ u \in Seq(Int) /\ Len(t) = k /\ Len(u) = k
  BY DEF Slice
<1>2. ASSUME NEW y \in 1..k PROVE t[y] = u[y]
  <2>1. PICK x : x = y - 1
    OBVIOUS
  <2>2. x \in 0..(k - 1) /\ y = x + 1
    BY <2>1
  <2> QED BY <2>2 DEF Slice
<1> QED BY <1>1, <1>2, SeqEqual

(***************************************************************************)
(* Where tokens occur in the text, they occur in the stream there, and the *)
(* other way round: a sentinel is no token.                                *)
(***************************************************************************)
LEMMA HeldThere ==
  ASSUME NEW c, NEW N \in Nat, NEW so, NEW strs \in Seq(Seq(Nat)), Consists(c, N, so, strs, Len(strs)),
         NEW w \in Seq(Nat), NEW p \in 1..N, OccursAt(c, N, w, p),
         NEW sid, sid = so[p], NEW s, s = strs[sid]
  PROVE  /\ sid \in 1..Len(strs) /\ s \in Seq(Nat)
         /\ \E q \in Nat : Holds(c, N, so, p, s, sid, q) /\ Len(w) <= (Len(s) + 1) - q
<1>1. PICK k, l : k = Len(w) /\ l = Len(s)
  OBVIOUS
<1>2. sid \in 1..Len(strs) /\ sid \in Nat \ {0} /\ k \in Nat
  BY <1>1 DEF Consists
<1>3. s \in Seq(Nat) /\ s \in Seq(Int) /\ l \in Nat
  <2>1. s \in Seq(Nat)
    BY <1>1, <1>2
  <2> QED BY <1>1, <2>1
<1>4. PICK q \in Nat : Holds(c, N, so, p, s, sid, q)
  BY <1>1 DEF Consists
<1>5. q \in 1..(l + 1)
  BY <1>1, <1>4 DEF Holds
<1>6. \A x \in 0..(k - 1) : w[x + 1] \in Nat
  BY <1>1, <1>2
<1>7. k <= (l + 1) - q
  <2> SUFFICES ASSUME k > (l + 1) - q PROVE FALSE
    BY <1>2, <1>3, <1>5
  <2>1. PICK x : x = (l + 1) - q
    OBVIOUS
  <2>2. x \in 0..(k - 1) /\ x \in 0..(l + 1 - q) /\ ~(q + x <= l)
    BY <1>2, <1>3, <1>5, <2>1
  <2>3. c[p + x] = -sid
    BY <1>1, <1>4, <2>2 DEF Holds
  <2>4. c[p + x] = w[x + 1] /\ w[x + 1] \in Nat
    BY <1>1, <1>6, <2>2 DEF OccursAt
  <2> QED BY SMTT(40), <1>2, <2>3, <2>4
<1> QED BY <1>1, <1>2, <1>3, <1>4, <1>7

LEMMA InItsStream ==
  ASSUME NEW c, NEW N \in Nat, NEW so, NEW strs \in Seq(Seq(Nat)), Consists(c, N, so, strs, Len(strs)),
         NEW w \in Seq(Nat), NEW p \in 1..N, OccursAt(c, N, w, p)
  PROVE  so[p] \in 1..Len(strs) /\ OccursIn(w, strs[so[p]])
<1>1. PICK sid, k, l, s : sid = so[p] /\ k = Len(w) /\ s = strs[sid] /\ l = Len(s)
  OBVIOUS
<1>2. sid \in 1..Len(strs) /\ sid \in Nat \ {0} /\ k \in Nat
  BY <1>1 DEF Consists
<1>3. s \in Seq(Nat) /\ s \in Seq(Int) /\ l \in Nat
  <2>1. s \in Seq(Nat)
    BY <1>1, <1>2
  <2> QED BY <1>1, <2>1
<1>4. PICK q \in Nat : Holds(c, N, so, p, s, sid, q) /\ k <= (l + 1) - q
  BY <1>1, HeldThere
<1>5. q \in 1..(l + 1)
  BY <1>1, <1>4 DEF Holds
<1>7. k <= (l + 1) - q
  BY <1>4
<1>8. ASSUME NEW x \in 0..(k - 1) PROVE w[x + 1] = s[q + x]
  <2>1. x \in 0..(l + 1 - q) /\ q + x <= l
    BY <1>2, <1>3, <1>5, <1>7
  <2>2. c[p + x] = s[q + x]
    BY <1>1, <1>4, <2>1 DEF Holds
  <2> QED BY <1>1, <2>2 DEF OccursAt
<1>9. Slice(s, q, k, w)
  <2>1. w \in Seq(Int)
    OBVIOUS
  <2> QED BY <1>1, <1>8, <2>1 DEF Slice
<1>10. PICK t : t = SubSeq(s, q, q + k - 1)
  OBVIOUS
<1>11. Slice(s, q, k, t)
  <2>1. q \in Nat \ {0} /\ q + k - 1 <= Len(s)
    BY <1>1, <1>2, <1>3, <1>5, <1>7
  <2> QED BY <1>2, <1>3, <1>10, <2>1, SliceIs
<1>12. t = w
  BY <1>2, <1>9, <1>11, SlicesEqual
<1>13. q \in 1..(l - k + 1)
  BY <1>2, <1>3, <1>5, <1>7
<1> QED BY <1>1, <1>2, <1>10, <1>12, <1>13 DEF OccursIn

LEMMA InTheText ==
  ASSUME NEW c, NEW N \in Nat, NEW so, NEW strs \in Seq(Seq(Nat)), Consists(c, N, so, strs, Len(strs)),
         NEW w \in Seq(Nat), NEW sid \in 1..Len(strs), OccursIn(w, strs[sid])
  PROVE  \E p \in 1..N : so[p] = sid /\ OccursAt(c, N, w, p)
<1>1. PICK k, l, s : k = Len(w) /\ s = strs[sid] /\ l = Len(s)
  OBVIOUS
<1>2. s \in Seq(Nat) /\ s \in Seq(Int) /\ l \in Nat /\ k \in Nat
  <2>1. s \in Seq(Nat)
    BY <1>1
  <2> QED BY <1>1, <2>1
<1>3. PICK q \in 1..(l - k + 1) : SubSeq(s, q, q + k - 1) = w
  BY <1>1 DEF OccursIn
<1>4. q \in 1..(l + 1) /\ q \in Nat \ {0} /\ q + k - 1 <= l
  BY <1>2
<1>5. PICK p \in 1..N : Holds(c, N, so, p, s, sid, q)
  BY <1>1, <1>4 DEF Consists
<1>6. Slice(s, q, k, w)
  BY <1>1, <1>2, <1>3, <1>4, SliceIs
<1>7. so[p] = sid
  <2>1. 0 \in 0..(l + 1 - q) /\ p + 0 = p
    BY <1>2, <1>4
  <2> QED BY <1>1, <1>5, <2>1 DEF Holds
<1>8. ASSUME NEW x \in 0..(k - 1) PROVE p + x <= N /\ c[p + x] = w[x + 1]
  <2>1. x \in 0..(l + 1 - q) /\ q + x <= l
    BY <1>2, <1>4
  <2>2. p + x <= N /\ c[p + x] = s[q + x]
    BY <1>1, <1>5, <2>1 DEF Holds
  <2> QED BY <1>6, <2>2 DEF Slice
<1> QED BY <1>1, <1>7, <1>8 DEF OccursAt

(***************************************************************************)
(* The text with one more stream d, the a-th, behind it.                   *)
(***************************************************************************)
Grown(c2, N2, so2, c, N, so, d, a) ==
  /\ N2 = N + (Len(d) + 1)
  /\ \A p \in 1..N : c2[p] = c[p] /\ so2[p] = so[p]
  /\ \A p \in 1..N2 : p > N =>
       so2[p] = a /\ c2[p] = IF p - N <= Len(d) THEN d[p - N] ELSE -a

Continues(c2, N2, so2, c, N, so) ==
  N <= N2 /\ \A p \in 1..N : c2[p] = c[p] /\ so2[p] = so[p]

LEMMA HoldsOn ==
  ASSUME NEW c, NEW N \in Nat, NEW so, NEW c2, NEW N2 \in Nat, NEW so2,
         Continues(c2, N2, so2, c, N, so),
         NEW p \in 1..N, NEW s, NEW sid, NEW q, Holds(c, N, so, p, s, sid, q)
  PROVE  Holds(c2, N2, so2, p, s, sid, q)
<1>1. ASSUME NEW x \in 0..(Len(s) + 1 - q)
      PROVE  /\ p + x <= N2 /\ so2[p + x] = sid
             /\ c2[p + x] = IF q + x <= Len(s) THEN s[q + x] ELSE -sid
  <2>1. p + x <= N /\ so[p + x] = sid /\ c[p + x] = IF q + x <= Len(s) THEN s[q + x] ELSE -sid
    BY DEF Holds
  <2>2. p + x \in 1..N
    BY <2>1
  <2> QED BY <2>1, <2>2 DEF Continues
<1> QED BY <1>1 DEF Holds

LEMMA HoldsNew ==
  ASSUME NEW c, NEW N \in Nat, NEW so, NEW c2, NEW N2, NEW so2, NEW d \in Seq(Nat), NEW a,
         Grown(c2, N2, so2, c, N, so, d, a), NEW q \in 1..(Len(d) + 1), NEW p, p = N + q
  PROVE  p \in 1..N2 /\ Holds(c2, N2, so2, p, d, a, q)
<1>1. PICK l : l = Len(d)
  OBVIOUS
<1>2. l \in Nat /\ N2 = N + (l + 1) /\ q \in Nat \ {0} /\ p \in Nat /\ q <= l + 1
  BY <1>1 DEF Grown
<1>3. ASSUME NEW x \in 0..(l + 1 - q)
      PROVE  /\ p + x <= N2 /\ so2[p + x] = a
             /\ c2[p + x] = IF q + x <= l THEN d[q + x] ELSE -a
  <2>1. PICK y : y = p + x
    OBVIOUS
  <2>2. y \in 1..N2 /\ y > N /\ y - N = q + x
    BY <1>2, <2>1
  <2>3. so2[y] = a /\ c2[y] = IF y - N <= l THEN d[y - N] ELSE -a
    BY <1>1, <2>2 DEF Grown
  <2> QED BY <2>1, <2>2, <2>3
<1>4. p \in 1..N2 /\ q \in 1..(l + 1)
  BY <1>2
<1> QED BY <1>1, <1>3, <1>4 DEF Holds

LEMMA ContainsMore ==
  ASSUME NEW c, NEW N \in Nat, c \in [1..N -> Int], NEW so, NEW c2, NEW N2, NEW so2,
         NEW strs \in Seq(Seq(Nat)), NEW a \in 1..Len(strs), NEW m, m = a - 1,
         Consists(c, N, so, strs, m), Ended(c, N, a), Grown(c2, N2, so2, c, N, so, strs[a], a)
  PROVE  Consists(c2, N2, so2, strs, a)
<1>1. PICK d, l : d = strs[a] /\ l = Len(d)
  OBVIOUS
<1>2. d \in Seq(Nat) /\ l \in Nat /\ N2 \in Nat /\ N2 = N + (l + 1) /\ a \in Nat \ {0} /\ m \in Nat
  <2>1. d \in Seq(Nat) /\ a \in Nat \ {0}
    BY <1>1
  <2> QED BY <1>1, <2>1 DEF Grown
<1>3. N <= N2 /\ \A p \in 1..N : c2[p] = c[p] /\ so2[p] = so[p]
  BY <1>1, <1>2 DEF Grown
<1>4. \A sid \in 1..m : sid \in 1..a
  BY <1>2
<1>10. Continues(c2, N2, so2, c, N, so)
  BY <1>3 DEF Continues
<1>5. ASSUME NEW p \in 1..N2
      PROVE  so2[p] \in 1..a /\ \E q \in Nat : Holds(c2, N2, so2, p, strs[so2[p]], so2[p], q)
  <2>1. CASE p <= N
    <3>1. p \in 1..N
      BY <1>2, <2>1
    <3>2. so2[p] = so[p] /\ so[p] \in 1..m
      BY <1>3, <3>1 DEF Consists
    <3>3. PICK q \in Nat : Holds(c, N, so, p, strs[so[p]], so[p], q)
      BY <3>1 DEF Consists
    <3>4. PICK sid, s : sid = so[p] /\ s = strs[sid]
      OBVIOUS
    <3>5. Holds(c2, N2, so2, p, s, sid, q)
      BY <1>2, <1>10, <3>1, <3>3, <3>4, HoldsOn
    <3> QED BY <1>4, <3>2, <3>4, <3>5
  <2>2. CASE ~(p <= N)
    <3>1. PICK q : q = p - N
      OBVIOUS
    <3>2. q \in 1..(l + 1) /\ p = N + q /\ p > N /\ q \in Nat
      BY <1>2, <2>2, <3>1
    <3>3. Holds(c2, N2, so2, p, d, a, q)
      BY <1>1, <1>2, <3>2, HoldsNew
    <3>4. so2[p] = a
      BY <3>2 DEF Grown
    <3> QED BY <1>1, <3>2, <3>3, <3>4
  <2> QED BY <2>1, <2>2
<1>6. ASSUME NEW sid \in 1..a, NEW q \in 1..(Len(strs[sid]) + 1)
      PROVE  \E p \in 1..N2 : Holds(c2, N2, so2, p, strs[sid], sid, q)
  <2>1. CASE sid = a
    <3>1. PICK p : p = N + q
      OBVIOUS
    <3>2. p \in 1..N2 /\ Holds(c2, N2, so2, p, d, a, q)
      BY <1>1, <1>2, <2>1, <3>1, HoldsNew
    <3> QED BY <1>1, <2>1, <3>2
  <2>2. CASE sid # a
    <3>1. sid \in 1..m
      BY <1>2, <2>2
    <3>2. PICK p \in 1..N : Holds(c, N, so, p, strs[sid], sid, q)
      BY <3>1 DEF Consists
    <3>3. Holds(c2, N2, so2, p, strs[sid], sid, q)
      BY <1>2, <1>10, <3>2, HoldsOn
    <3>4. p \in 1..N2
      BY <1>2
    <3> QED BY <3>3, <3>4
  <2> QED BY <2>1, <2>2
<1>7. \A p \in 1..N2 : p > N => c2[p] \in Nat \/ (p = N2 /\ c2[p] = -a)
  <2> SUFFICES ASSUME NEW p \in 1..N2, p > N PROVE c2[p] \in Nat \/ (p = N2 /\ c2[p] = -a)
    OBVIOUS
  <2>1. PICK y : y = p - N
    OBVIOUS
  <2>2. y \in 1..(l + 1)
    BY <1>2, <2>1
  <2>3. c2[p] = IF y <= l THEN d[y] ELSE -a
    BY <1>1, <2>1 DEF Grown
  <2>4. CASE y <= l
    <3>1. y \in 1..l
      BY <1>2, <2>2, <2>4
    <3>2. d[y] \in Nat
      BY <1>1, <1>2, <3>1, ElementOfSeq
    <3> QED BY <2>3, <2>4, <3>2
  <2>5. CASE ~(y <= l)
    <3>1. p = N2
      BY <1>2, <2>1, <2>2, <2>5
    <3> QED BY <2>3, <2>5, <3>1
  <2> QED BY <2>4, <2>5
<1>8. \A p \in 1..N : c2[p] = c[p] /\ c[p] \in Int /\ c[p] # -a
  <2> SUFFICES ASSUME NEW p \in 1..N PROVE c[p] # -a
    BY <1>3
  <2>1. N >= 1 /\ c[N] = 1 - a /\ \A x \in 1..(N - 1) : c[x] > 1 - a
    BY DEF Ended
  <2>2. CASE p = N
    BY <1>2, <2>1, <2>2
  <2>3. CASE p # N
    <3>1. p \in 1..(N - 1)
      BY <2>3
    <3>2. PICK v \in Int : v = c[p]
      OBVIOUS
    <3>3. v > 1 - a
      BY <2>1, <3>1, <3>2
    <3>4. v # -a
      BY <1>2, <3>3
    <3> QED BY <3>2, <3>4
  <2> QED BY <2>2, <2>3
<1>9. ASSUME NEW p \in 1..N2, NEW q \in 1..N2, c2[p] = c2[q], c2[p] < 0 PROVE p = q
  <2>1. CASE p <= N /\ q <= N
    <3>1. p \in 1..N /\ q \in 1..N
      BY <1>2, <2>1
    <3> QED BY <1>8, <1>9, <3>1 DEF Consists
  <2>2. CASE p > N /\ q <= N
    <3>1. q \in 1..N /\ c2[p] \notin Nat
      BY <1>2, <1>9, <2>2
    <3> QED BY <1>7, <1>8, <1>9, <2>2, <3>1
  <2>3. CASE p <= N /\ q > N
    <3>1. p \in 1..N /\ c2[q] \notin Nat
      BY <1>2, <1>9, <2>3
    <3> QED BY <1>7, <1>8, <1>9, <2>3, <3>1
  <2>4. CASE p > N /\ q > N
    <3>1. c2[p] \notin Nat /\ c2[q] \notin Nat
      BY <1>9
    <3> QED BY <1>7, <2>4, <3>1
  <2> QED BY <1>2, <2>1, <2>2, <2>3, <2>4
<1> QED BY <1>5, <1>6, <1>9 DEF Consists

-----------------------------------------------------------------------------
(***************************************************************************)
(* Neighbours in the suffix array o share L tokens; L is at least m from l *)
(* to b; all suffixes from a to b share m tokens with the one at a.        *)
(***************************************************************************)
Neighbours(c, N, o, L) ==
  L \in [1..N -> Nat] /\ \A p \in 2..N : \A q \in 1..N : p = q + 1 => Common(c, N, o[p], o[q], L[p])
AtLeast(L, l, b, m) == \A p \in l..b : L[p] >= m
SharedFrom(c, N, o, a, b, m) == \A j \in a..b : Share(c, N, o[a], o[j], m)

LEMMA ShareBack ==
  ASSUME NEW c, NEW N, NEW i, NEW j, NEW m, Share(c, N, i, j, m)
  PROVE  Share(c, N, j, i, m)
  BY DEF Share

LEMMA ShareThrough ==
  ASSUME NEW c, NEW N, NEW i, NEW j, NEW k, NEW m, Share(c, N, i, j, m), Share(c, N, j, k, m)
  PROVE  Share(c, N, i, k, m)
  BY DEF Share

LEMMA AtMostCommon ==
  ASSUME NEW c, NEW N \in Nat, NEW i, NEW j, NEW m \in Nat, NEW k,
         Share(c, N, j, i, m), Common(c, N, i, j, k)
  PROVE  m <= k
<1>1. k \in 0..N
  BY DEF Common
<1>2. SUFFICES ASSUME k < m PROVE FALSE
  BY <1>1
<1>3. k \in 0..(m - 1)
  BY <1>1, <1>2
<1> QED BY <1>3 DEF Common, Share

LEMMA Chain ==
  ASSUME NEW c, NEW N \in Nat, NEW o, NEW L, Neighbours(c, N, o, L), NEW m \in Nat,
         NEW a \in 1..N, NEW b \in 1..N, a < b, NEW l, l = a + 1, AtLeast(L, l, b, m)
  PROVE  SharedFrom(c, N, o, a, b, m)
<1>1. ASSUME NEW q \in a..b, NEW p \in a..b, p = q + 1 PROVE Share(c, N, o[q], o[p], m)
  <2>1. p \in 2..N /\ q \in 1..N /\ p \in 1..N /\ p \in l..b
    BY <1>1
  <2>2. Common(c, N, o[p], o[q], L[p]) /\ L[p] \in Nat /\ m <= L[p]
    BY <1>1, <2>1 DEF Neighbours, AtLeast
  <2>3. PICK i, j, k : i = o[p] /\ j = o[q] /\ k = L[p]
    OBVIOUS
  <2>4. Share(c, N, i, j, k) /\ k \in Nat /\ m <= k
    BY <2>2, <2>3 DEF Common
  <2> QED BY <2>3, <2>4, ShareLess, ShareBack
<1> DEFINE T == {j \in Nat : j \in a..b /\ ~Share(c, N, o[a], o[j], m)}
<1>2. SUFFICES ASSUME T # {} PROVE FALSE
  BY DEF SharedFrom
<1>3. PICK x \in T : \A y \in T : x <= y
  <2>1. T \in SUBSET Nat
    OBVIOUS
  <2> HIDE DEF T
  <2> QED BY <1>2, <2>1, Least
<1>4. x \in a..b /\ ~Share(c, N, o[a], o[x], m)
  BY <1>3
<1>5. CASE x = a
  <2>1. l \in a..b /\ a \in a..b
    OBVIOUS
  <2>2. Share(c, N, o[a], o[l], m)
    BY <1>1, <2>1
  <2>3. Share(c, N, o[l], o[a], m)
    BY <2>2, ShareBack
  <2>4. Share(c, N, o[a], o[a], m)
    BY <2>2, <2>3, ShareThrough
  <2> QED BY <1>4, <1>5, <2>4
<1>6. CASE x # a
  <2>1. PICK y : y = x - 1
    OBVIOUS
  <2>2. y \in a..b /\ x = y + 1 /\ y \in Nat /\ ~(x <= y)
    BY <1>4, <1>6, <2>1
  <2>3. Share(c, N, o[a], o[y], m)
    BY <1>3, <2>2
  <2>4. Share(c, N, o[y], o[x], m)
    BY <1>1, <1>4, <2>2
  <2>5. Share(c, N, o[a], o[x], m)
    BY <2>3, <2>4, ShareThrough
  <2> QED BY <1>4, <2>5
<1> QED BY <1>5, <1>6

LEMMA InBetween ==
  ASSUME NEW c, NEW N, Text(c, N), NEW o, InOrder(o, c, N), NEW m \in Nat,
         NEW p \in 1..N, NEW q \in 1..N, NEW r \in 1..N, p <= q, q <= r, p < r,
         Share(c, N, o[p], o[r], m)
  PROVE  Share(c, N, o[q], o[r], m)
<1>1. o[p] \in 1..N /\ o[q] \in 1..N /\ o[r] \in 1..N
  BY DEF InOrder, Perm
<1>2. CASE q = p
  BY <1>2
<1>3. CASE q = r
  <2>1. Share(c, N, o[r], o[p], m)
    BY ShareBack
  <2> QED BY <1>3, <2>1, ShareThrough
<1>4. CASE p < q /\ q < r
  <2>1. Smaller(c, N, o[p], o[q], N) /\ Smaller(c, N, o[q], o[r], N)
    BY <1>4 DEF InOrder
  <2> QED BY <1>1, <2>1, Between
<1>5. p = q \/ q = r \/ (p < q /\ q < r)
  BY DEF Text
<1> QED BY <1>2, <1>3, <1>4, <1>5

LEMMA Reach ==
  ASSUME NEW c, NEW N, Text(c, N), NEW o, InOrder(o, c, N), NEW L, Neighbours(c, N, o, L),
         NEW m \in Nat, NEW p \in 1..N, NEW r \in 1..N, p < r, Share(c, N, o[p], o[r], m),
         NEW l, l = p + 1
  PROVE  AtLeast(L, l, r, m)
<1>0. N \in Nat
  BY DEF Text
<1>1. ASSUME NEW q \in l..r PROVE L[q] >= m
  <2>1. PICK x : x = q - 1
    OBVIOUS
  <2>2. q \in 1..N /\ x \in 1..N /\ q = x + 1 /\ q \in 2..N /\ p <= x /\ x <= r /\ p <= q /\ q <= r
    BY <1>0, <2>1
  <2>3. Share(c, N, o[q], o[r], m) /\ Share(c, N, o[x], o[r], m)
    BY <2>2, InBetween
  <2>4. Share(c, N, o[x], o[q], m)
    <3>1. Share(c, N, o[r], o[q], m)
      BY <2>3, ShareBack
    <3> QED BY <2>3, <3>1, ShareThrough
  <2>5. Common(c, N, o[q], o[x], L[q]) /\ L[q] \in Nat
    BY <2>2 DEF Neighbours
  <2>6. m <= L[q]
    BY <1>0, <2>4, <2>5, AtMostCommon
  <2> QED BY <2>5, <2>6
<1> QED BY <1>1 DEF AtLeast

(***************************************************************************)
(* A block: neighbours in the suffix array that share m tokens, and all of *)
(* them.                                                                   *)
(***************************************************************************)
Block(L, N, a, b, m) ==
  /\ m \in Nat \ {0} /\ a \in 1..N /\ b \in 1..N /\ a < b /\ AtLeast(L, a + 1, b, m)
  /\ a = 1 \/ L[a] < m
  /\ b = N \/ L[b + 1] < m

LEMMA BlockIs ==
  ASSUME NEW c, NEW N, Text(c, N), NEW o, InOrder(o, c, N), NEW L, Neighbours(c, N, o, L),
         NEW a, NEW b, NEW m, Block(L, N, a, b, m), NEW j \in 1..N
  PROVE  Share(c, N, o[a], o[j], m) <=> j \in a..b
<1>0. N \in Nat /\ m \in Nat \ {0} /\ a \in 1..N /\ b \in 1..N /\ a < b
  BY DEF Text, Block
<1>1. SharedFrom(c, N, o, a, b, m)
  <2>1. PICK l : l = a + 1
    OBVIOUS
  <2>2. AtLeast(L, l, b, m)
    BY <2>1 DEF Block
  <2> QED BY <1>0, <2>1, <2>2, Chain
<1>2. j \in a..b => Share(c, N, o[a], o[j], m)
  BY <1>1 DEF SharedFrom
<1>3. L \in [1..N -> Nat]
  BY DEF Neighbours
<1>4. ASSUME Share(c, N, o[a], o[j], m), j < a PROVE FALSE
  <2>1. PICK l : l = j + 1
    OBVIOUS
  <2>2. Share(c, N, o[j], o[a], m)
    BY <1>4, ShareBack
  <2>3. AtLeast(L, l, a, m)
    BY <1>0, <1>4, <2>1, <2>2, Reach
  <2>4. a \in l..a /\ a # 1
    BY <1>0, <1>4, <2>1
  <2>5. L[a] >= m /\ L[a] < m /\ L[a] \in Nat
    BY <1>0, <1>3, <2>3, <2>4 DEF AtLeast, Block
  <2> QED BY <1>0, <2>5
<1>5. ASSUME Share(c, N, o[a], o[j], m), b < j PROVE FALSE
  <2>1. PICK l : l = b + 1
    OBVIOUS
  <2>2. Share(c, N, o[a], o[b], m)
    BY <1>0, <1>1 DEF SharedFrom
  <2>3. Share(c, N, o[b], o[j], m)
    <3>1. Share(c, N, o[b], o[a], m)
      BY <2>2, ShareBack
    <3> QED BY <1>5, <3>1, ShareThrough
  <2>4. AtLeast(L, l, j, m)
    BY <1>0, <1>5, <2>1, <2>3, Reach
  <2>5. l \in l..j /\ b # N /\ l \in 1..N
    BY <1>0, <1>5, <2>1
  <2>6. L[l] >= m /\ L[l] < m /\ L[l] \in Nat
    BY <1>3, <2>1, <2>4, <2>5 DEF AtLeast, Block
  <2> QED BY <1>0, <2>6
<1>6. j < a \/ b < j \/ j \in a..b
  BY <1>0
<1> QED BY <1>2, <1>4, <1>5, <1>6

-----------------------------------------------------------------------------
(***************************************************************************)
(* More about the stack s of the walk, with l the left end a new interval  *)
(* would get and b the place before the current one: to the left of every  *)
(* interval the prefix is no longer than the height below it, and a prefix *)
(* that is the smallest up to b and no higher than the top has its entry.  *)
(***************************************************************************)
Height(s) == s[Len(s)][1]
Ends(s, L, N, l) ==
  /\ \A d, e \in 1..Len(s), q \in 1..N : e = d + 1 /\ s[e][2] = q + 1 => L[q] <= s[d][1]
  /\ \A q \in 1..N : l = q + 1 => L[q] <= Height(s)
Lowest(L, p, b) == \A q \in p..b : L[q] >= L[p]
HasEntry(s, v) == \E e \in 1..Len(s) : s[e][1] = v
Heights(s, L, b) == \A p \in 2..b : Lowest(L, p, b) /\ L[p] <= Height(s) => HasEntry(s, L[p])

(***************************************************************************)
(* The stack s is t with an entry more.                                    *)
(***************************************************************************)
OnTop(s, t) ==
  /\ Len(t) \in Nat \ {0} /\ Len(s) = Len(t) + 1
  /\ \A e \in 1..Len(t) : t[e] = s[e]

LEMMA PopEnds ==
  ASSUME NEW s, NEW L, NEW N \in Nat, NEW a, NEW b, NEW t, NEW l, NEW k, NEW j,
         Entries(s, L, a), OnTop(s, t), Ends(s, L, N, l), Heights(s, L, b),
         L \in [1..N -> Nat], b <= N, b \in Nat,
         k = s[Len(s)][2]
  PROVE  Ends(t, L, N, k) /\ Heights(t, L, b)
<1>1. PICK m, u : m = Len(t) /\ u = Len(s)
  OBVIOUS
<1>2. /\ m \in Nat \ {0} /\ u = m + 1 /\ m \in 1..u /\ u \in 1..u /\ m < u
      /\ \A e \in 1..m : t[e] = s[e] /\ e \in 1..u
  BY <1>1 DEF OnTop
<1>3. Height(t) = s[m][1] /\ Height(s) = s[u][1]
  BY <1>1, <1>2 DEF Height
<1>4. s[m][1] \in Nat /\ s[u][1] \in Nat /\ s[m][1] < s[u][1]
  <2>1. s[m][1] \in Nat /\ s[u][1] \in Nat
    BY <1>1, <1>2, TopEntry
  <2>2. s[m][1] < s[u][1]
    BY <1>1, <1>2 DEF Entries
  <2> QED BY <2>1, <2>2
<1>5. Ends(t, L, N, k)
  <2>1. ASSUME NEW d \in 1..m, NEW e \in 1..m, NEW q \in 1..N, e = d + 1, t[e][2] = q + 1
        PROVE  L[q] <= t[d][1]
    <3>1. t[e] = s[e] /\ t[d] = s[d] /\ d \in 1..u /\ e \in 1..u
      BY <1>2
    <3> QED BY <1>1, <2>1, <3>1 DEF Ends
  <2>2. ASSUME NEW q \in 1..N, k = q + 1 PROVE L[q] <= Height(t)
    <3>1. s[u][2] = q + 1
      BY <1>1, <2>2
    <3> QED BY <1>1, <1>2, <1>3, <3>1 DEF Ends
  <2> QED BY <1>1, <2>1, <2>2 DEF Ends
<1>6. ASSUME NEW p \in 2..b, Lowest(L, p, b), L[p] <= Height(t) PROVE HasEntry(t, L[p])
  <2>1. PICK v : v = L[p]
    OBVIOUS
  <2>2. v \in Nat
    <3>1. p \in 1..N
      OBVIOUS
    <3> QED BY <2>1, <3>1
  <2>3. v <= s[m][1] /\ v <= Height(s)
    BY <1>3, <1>4, <1>6, <2>1, <2>2
  <2>4. PICK e \in 1..u : s[e][1] = v
    BY <1>1, <1>6, <2>1, <2>3 DEF Heights, HasEntry
  <2>5. e # u
    BY <1>4, <2>2, <2>3, <2>4
  <2>6. e \in 1..m
    BY <1>2, <2>5
  <2> QED BY <1>1, <1>2, <2>1, <2>4, <2>6 DEF HasEntry
<1> QED BY <1>5, <1>6 DEF Heights

(***************************************************************************)
(* An advance past place a, the prefix there being v: the top is now v,    *)
(* with an entry for it if it is higher than the top was.                  *)
(***************************************************************************)
Above(L, l, b, v) == \A p \in l..b : L[p] > v

NextStack(t, s, v, l) == t = IF Height(s) < v THEN Append(s, <<v, l>>) ELSE s

LEMMA NextEnds ==
  ASSUME NEW s, NEW L, NEW N \in Nat, NEW a \in 2..N, NEW b \in Nat, a = b + 1, NEW l \in 2..a, NEW v,
         Entries(s, L, a), Ends(s, L, N, l), Heights(s, L, b), L \in [1..N -> Nat],
         v = L[a], Height(s) <= v,
         NEW t, NextStack(t, s, v, l),
         NEW k, k = a + 1, Above(L, l, b, v)
  PROVE  Ends(t, L, N, k) /\ Heights(t, L, a) /\ Height(t) = v
<1>1. PICK S, x, u : S = Nat \X (Nat \ {0}) /\ x = <<v, l>> /\ u = Len(s)
  OBVIOUS
<1>2. /\ s \in Seq(S) /\ u \in Nat \ {0} /\ u \in 1..u /\ v \in Nat /\ Height(s) \in Nat
      /\ Height(s) = s[u][1] /\ b \in Nat \ {0} /\ a \in Nat /\ x \in S /\ a \in 1..N
      /\ x[1] = v /\ x[2] = l
  <2>1. s \in Seq(S)
    BY <1>1 DEF Entries
  <2>2. u \in Nat \ {0} /\ s[u][1] \in Nat
    BY <1>1, TopEntry
  <2>3. v \in Nat /\ x \in S
    <3>1. a \in 1..N
      OBVIOUS
    <3>2. v \in Nat
      BY <3>1
    <3> QED BY <1>1, <3>2
  <2>4. b \in Nat \ {0} /\ a \in Nat /\ a \in 1..N
    OBVIOUS
  <2>5. x[1] = v /\ x[2] = l
    BY <1>1
  <2>6. u \in 1..u
    BY <2>2
  <2> QED BY <1>1, <2>1, <2>2, <2>3, <2>4, <2>5, <2>6 DEF Height
<1>3. Height(t) = v /\ (\A w : HasEntry(s, w) => HasEntry(t, w)) /\ HasEntry(t, v)
  <2>1. CASE Height(s) < v
    <3>1. t = Append(s, x) /\ Len(t) = u + 1 /\ t[u + 1] = x /\ \A e \in 1..u : t[e] = s[e]
      BY <1>1, <1>2, <2>1, OneMore DEF NextStack
    <3>2. u + 1 \in 1..(u + 1) /\ \A e \in 1..u : e \in 1..(u + 1)
      BY <1>2
    <3>3. Height(t) = v
      BY <1>2, <3>1 DEF Height
    <3> QED BY SMTT(40), <1>1, <1>2, <3>1, <3>2, <3>3 DEF HasEntry
  <2>2. CASE ~(Height(s) < v)
    <3>1. t = s /\ Height(s) = v
      BY <1>2, <2>2 DEF NextStack
    <3> QED BY <1>1, <1>2, <3>1 DEF HasEntry
  <2> QED BY <2>1, <2>2
<1>4. \A q \in 1..N : k = q + 1 => L[q] <= Height(t)
  <2> SUFFICES ASSUME NEW q \in 1..N, k = q + 1 PROVE L[q] <= v
    BY <1>3
  <2>1. q = a
    OBVIOUS
  <2> QED BY <1>2, <2>1
<1>5. ASSUME NEW d \in 1..Len(t), NEW e \in 1..Len(t), NEW q \in 1..N, e = d + 1, t[e][2] = q + 1
      PROVE  L[q] <= t[d][1]
  <2>1. CASE Height(s) < v
    <3>1. t = Append(s, x) /\ Len(t) = u + 1 /\ t[u + 1] = x /\ \A f \in 1..u : t[f] = s[f]
      <4>1. t = Append(s, x) /\ s \in Seq(S) /\ x \in S
        BY <1>1, <1>2, <2>1 DEF NextStack
      <4>2. /\ Len(Append(s, x)) = Len(s) + 1 /\ Append(s, x)[Len(s) + 1] = x
            /\ \A f \in 1..Len(s) : Append(s, x)[f] = s[f]
        BY <4>1, OneMore
      <4> QED BY <1>1, <4>1, <4>2
    <3>2. d \in 1..u /\ (e = u + 1 => d = u) /\ (e # u + 1 => e \in 1..u)
      <4>1. Len(t) = u + 1 /\ e = d + 1 /\ u \in Nat \ {0}
        BY <1>2, <1>5, <3>1
      <4>2. d \in 1..(u + 1) /\ e \in 1..(u + 1)
        BY <4>1
      <4> QED BY <4>1, <4>2
    <3>3. CASE e = u + 1
      <4>1. t[d][1] = Height(s) /\ l = q + 1
        BY <1>2, <1>5, <3>1, <3>2, <3>3
      <4> QED BY <4>1 DEF Ends
    <3>4. CASE e # u + 1
      <4>1. t[e] = s[e] /\ t[d] = s[d] /\ d \in 1..u /\ e \in 1..u
        BY <3>1, <3>2, <3>4
      <4> QED BY <1>1, <1>5, <4>1 DEF Ends
    <3> QED BY <3>3, <3>4
  <2>2. CASE ~(Height(s) < v)
    <3>1. t = s
      BY <2>2 DEF NextStack
    <3> QED BY <1>5, <3>1 DEF Ends
  <2> QED BY <2>1, <2>2
<1>6. ASSUME NEW p \in 2..a, Lowest(L, p, a), L[p] <= Height(t) PROVE HasEntry(t, L[p])
  <2>1. CASE p = a
    BY <1>3, <2>1
  <2>2. CASE p # a
    <3>1. p \in 2..b /\ p \in 1..N
      BY <1>2, <2>2
    <3>2. \A q \in p..b : q \in p..a
      BY <1>2, <3>1
    <3>3. Lowest(L, p, b)
      BY <1>6, <3>2 DEF Lowest
    <3>4. a \in p..a
      BY <1>2
    <3>5. L[p] <= v
      BY <1>2, <1>6, <3>1, <3>4 DEF Lowest
    <3>6. p < l
      <4> SUFFICES ASSUME ~(p < l) PROVE FALSE
        OBVIOUS
      <4>1. p \in l..b
        BY <3>1
      <4>2. L[p] > v /\ L[p] \in Nat
        BY <3>1, <4>1 DEF Above
      <4> QED BY SMTT(40), <1>2, <3>5, <4>2
    <3>7. PICK q : q = l - 1
      OBVIOUS
    <3>8. q \in p..b /\ q \in 1..N /\ l = q + 1
      BY <1>2, <3>1, <3>6, <3>7
    <3>9. L[p] <= L[q] /\ L[q] <= Height(s) /\ L[p] \in Nat /\ L[q] \in Nat
      BY <3>1, <3>3, <3>8 DEF Lowest, Ends
    <3>10. L[p] <= Height(s)
      <4>1. PICK i, j, g : i = L[p] /\ j = L[q] /\ g = Height(s)
        OBVIOUS
      <4>2. i <= j /\ j <= g /\ i \in Nat /\ j \in Nat /\ g \in Nat
        BY <1>2, <3>9, <4>1
      <4> QED BY <4>1, <4>2
    <3>11. HasEntry(s, L[p])
      BY <3>1, <3>3, <3>10 DEF Heights
    <3> QED BY <1>3, <3>11
  <2> QED BY <2>1, <2>2
<1> QED BY <1>3, <1>4, <1>5, <1>6 DEF Ends, Heights

(***************************************************************************)
(* The interval that a pop before place a = b + 1 closes is a block, and   *)
(* the only one that ends at b with one of the heights the pop removes.    *)
(***************************************************************************)
LEMMA ClosedBlock ==
  ASSUME NEW s, NEW L, NEW N \in Nat, NEW a, NEW b \in 1..N, a = b + 1, NEW l, NEW t,
         Entries(s, L, a), OnTop(s, t), Ends(s, L, N, l), L \in [1..N -> Nat],
         b = N \/ L[a] < Height(s),
         NEW x, s[Len(s)][2] = x + 1, x \in Nat
  PROVE  Block(L, N, x, b, Height(s))
<1>1. PICK m, u : m = Len(t) /\ u = Len(s)
  OBVIOUS
<1>2. /\ m \in Nat \ {0} /\ u = m + 1 /\ m \in 1..u /\ u \in 1..u /\ m < u /\ u \in 2..u
  BY <1>1 DEF OnTop
<1>3. PICK h1 : h1 = Height(s)
  OBVIOUS
<1>4. s[m][1] \in Nat /\ h1 \in Nat /\ s[m][1] < h1
  <2>1. s[m][1] \in Nat /\ s[u][1] \in Nat
    BY <1>1, <1>2, TopEntry
  <2>2. s[m][1] < s[u][1]
    BY <1>1, <1>2 DEF Entries
  <2> QED BY <1>1, <1>3, <2>1, <2>2 DEF Height
<1>5. x + 1 \in 2..b /\ \A p \in (x + 1)..b : L[p] >= h1
  <2>1. a - 1 = b
    OBVIOUS
  <2> QED BY <1>1, <1>2, <1>3, <2>1 DEF Entries, Height
<1>6. x \in 1..N /\ x < b
  BY <1>5
<1>7. L[x] < h1
  <2>1. L[x] <= s[m][1]
    BY <1>1, <1>2, <1>6 DEF Ends
  <2> QED BY SMTT(40), <1>4, <1>6, <2>1
<1> QED BY <1>3, <1>4, <1>5, <1>6, <1>7 DEF Block, AtLeast

Tight(L, N, a, b, m) == Block(L, N, a, b, m) /\ \E p \in (a + 1)..b : L[p] = m

LEMMA ClosedIs ==
  ASSUME NEW s, NEW L, NEW N \in Nat, NEW a, NEW b \in 1..N, a = b + 1, NEW l, NEW t,
         Entries(s, L, a), OnTop(s, t), Ends(s, L, N, l), Heights(s, L, b), L \in [1..N -> Nat],
         NEW y, NEW m, Tight(L, N, y, b, m), m <= Height(s), m > Height(t)
  PROVE  m = Height(s) /\ s[Len(s)][2] = y + 1
<1>1. PICK u, v : u = Len(s) /\ v = Len(t)
  OBVIOUS
<1>2. /\ v \in Nat \ {0} /\ u = v + 1 /\ v \in 1..u /\ u \in 1..u /\ v < u /\ u \in 2..u
      /\ t[v] = s[v]
  BY <1>1 DEF OnTop
<1>3. /\ m \in Nat \ {0} /\ y \in 1..N /\ y < b /\ (\A p \in (y + 1)..b : L[p] >= m)
      /\ (y = 1 \/ L[y] < m)
  BY DEF Tight, Block, AtLeast
<1>4. PICK p \in (y + 1)..b : L[p] = m
  BY DEF Tight
<1>5. p \in 2..b /\ \A q \in p..b : q \in (y + 1)..b
  BY <1>3
<1>6. HasEntry(s, m)
  <2>1. Lowest(L, p, b)
    BY <1>3, <1>4, <1>5 DEF Lowest
  <2> QED BY <1>4, <1>5, <2>1 DEF Heights
<1>7. PICK e \in 1..u : s[e][1] = m
  BY <1>1, <1>6 DEF HasEntry
<1>8. e = u
  <2> SUFFICES ASSUME e # u PROVE FALSE
    OBVIOUS
  <2>1. e = v \/ e < v
    BY <1>2
  <2>2. s[e][1] <= s[v][1]
    <3>1. CASE e = v
      <4>1. s[v][1] \in Nat
        BY <1>1, <1>2, TopEntry
      <4> QED BY <3>1, <4>1
    <3>2. CASE e < v
      <4>1. s[v][1] \in Nat /\ s[e][1] \in Nat
        BY <1>1, <1>2, TopEntry
      <4>2. s[e][1] < s[v][1]
        BY <1>1, <1>2, <3>2 DEF Entries
      <4> QED BY <4>1, <4>2
    <3> QED BY <2>1, <3>1, <3>2
  <2>3. s[v][1] \in Nat /\ m > s[v][1]
    BY <1>1, <1>2, TopEntry DEF Height
  <2> QED BY <1>3, <1>7, <2>2, <2>3
<1>9. m = Height(s)
  BY <1>1, <1>7, <1>8 DEF Height
<1>10. PICK f : f = s[u][2]
  OBVIOUS
<1>11. f \in 2..b /\ \A q \in f..b : L[q] >= m
  <2>1. a - 1 = b
    OBVIOUS
  <2> QED BY <1>1, <1>2, <1>7, <1>8, <1>10, <2>1 DEF Entries
<1>12. PICK q : q = f - 1
  OBVIOUS
<1>13. q \in 1..N /\ f = q + 1 /\ L[q] \in Nat
  BY <1>11, <1>12
<1>14. L[q] < m
  <2>1. L[q] <= s[v][1]
    BY <1>1, <1>2, <1>10, <1>13 DEF Ends
  <2>2. s[v][1] \in Nat /\ m > s[v][1]
    BY <1>1, <1>2, TopEntry DEF Height
  <2> QED BY SMTT(40), <1>3, <1>13, <2>1, <2>2
<1>15. ~(y + 1 < f)
  <2> SUFFICES ASSUME y + 1 < f PROVE FALSE
    OBVIOUS
  <2>1. q \in (y + 1)..b
    BY <1>3, <1>11, <1>12
  <2> QED BY <1>3, <1>13, <1>14, <2>1
<1>16. ~(f < y + 1)
  <2> SUFFICES ASSUME f < y + 1 PROVE FALSE
    OBVIOUS
  <2>1. y \in f..b /\ y # 1
    BY <1>3, <1>11
  <2>2. L[y] >= m /\ L[y] < m /\ L[y] \in Nat
    BY <1>3, <1>11, <2>1
  <2> QED BY <1>3, <2>2
<1>17. f = y + 1
  BY <1>3, <1>11, <1>15, <1>16
<1> QED BY <1>1, <1>9, <1>10, <1>17

-----------------------------------------------------------------------------
LEMMA OccursShare ==
  ASSUME NEW c, NEW N, NEW w, NEW i, NEW m, m = Len(w), OccursAt(c, N, w, i), NEW j
  PROVE  OccursAt(c, N, w, j) <=> Share(c, N, i, j, m)
  BY DEF OccursAt, Share

(***************************************************************************)
(* Tokens that are in the text twice have no sentinel among them.          *)
(***************************************************************************)
LEMMA NoSentinel ==
  ASSUME NEW c, NEW N \in Nat, c \in [1..N -> Int], NEW so, NEW strs, NEW k, Consists(c, N, so, strs, k),
         NEW i \in 1..N, NEW j \in 1..N, i # j, NEW m \in Nat, Share(c, N, i, j, m),
         NEW t, Slice(c, i, m, t)
  PROVE  t \in Seq(Nat) /\ Len(t) = m /\ OccursAt(c, N, t, i)
<1>1. t \in Seq(Int) /\ Len(t) = m /\ \A x \in 0..(m - 1) : t[x + 1] = c[i + x]
  BY DEF Slice
<1>2. ASSUME NEW y \in 1..m PROVE t[y] \in Nat
  <2>1. PICK x : x = y - 1
    OBVIOUS
  <2>2. x \in 0..(m - 1) /\ y = x + 1
    BY <2>1
  <2>3. PICK p, q : p = i + x /\ q = j + x
    OBVIOUS
  <2>4. p \in 1..N /\ q \in 1..N /\ c[p] = c[q] /\ t[y] = c[p] /\ p # q
    <3>1. p <= N /\ q <= N /\ c[p] = c[q]
      BY <2>2, <2>3 DEF Share
    <3>2. t[y] = c[p]
      BY <1>1, <2>2, <2>3
    <3> QED BY <2>2, <2>3, <3>1, <3>2
  <2>5. c[p] \in Int /\ ~(c[p] < 0)
    BY <2>4 DEF Consists
  <2> QED BY <2>4, <2>5
<1>3. t \in Seq(Nat)
  <2>1. t = [y \in 1..m |-> t[y]]
    BY <1>1
  <2>2. t \in [1..m -> Nat]
    BY <1>2, <2>1
  <2> QED BY <2>2
<1>4. OccursAt(c, N, t, i)
  BY <1>1 DEF OccursAt, Share
<1> QED BY <1>1, <1>3, <1>4

(***************************************************************************)
(* The streams of a part of the suffix array that holds all occurrences of *)
(* w are those that contain w.                                             *)
(***************************************************************************)
JustThere(c, N, o, w, a, b) == \A j \in 1..N : OccursAt(c, N, w, o[j]) <=> j \in a..b

SidsFrom(so, o, a, b) == {so[o[j]] : j \in a..b}
SidsWith(w, strs) == {sid \in 1..Len(strs) : OccursIn(w, strs[sid])}

LEMMA StreamsThere ==
  ASSUME NEW c, NEW N \in Nat, NEW so, NEW strs \in Seq(Seq(Nat)), Consists(c, N, so, strs, Len(strs)),
         NEW o, Perm(o, N), NEW w \in Seq(Nat), NEW a \in 1..N, NEW b \in 1..N,
         JustThere(c, N, o, w, a, b)
  PROVE  SidsFrom(so, o, a, b) = SidsWith(w, strs)
<1>1. ASSUME NEW j \in a..b PROVE so[o[j]] \in 1..Len(strs) /\ OccursIn(w, strs[so[o[j]]])
  <2>1. PICK p : p = o[j]
    OBVIOUS
  <2>2. j \in 1..N
    OBVIOUS
  <2>3. p \in 1..N /\ OccursAt(c, N, w, p)
    BY <2>1, <2>2 DEF Perm, JustThere
  <2> QED BY <2>1, <2>3, InItsStream
<1>2. ASSUME NEW sid \in 1..Len(strs), OccursIn(w, strs[sid]) PROVE \E j \in a..b : so[o[j]] = sid
  <2>1. PICK p \in 1..N : so[p] = sid /\ OccursAt(c, N, w, p)
    BY <1>2, InTheText
  <2>2. PICK j \in 1..N : o[j] = p
    BY DEF Perm
  <2> QED BY <2>1, <2>2 DEF JustThere
<1> QED BY <1>1, <1>2 DEF SidsFrom, SidsWith

-----------------------------------------------------------------------------
(***************************************************************************)
(* What the state of the walk says of the text and the candidates.         *)
(***************************************************************************)
Searching == phase \in {"sort", "lcp", "walk", "prefix", "near"}
Joined ==
  /\ phase = "join" => \E m \in Nat : at = m + 1 /\ m <= Len(streams) /\ Consists(concat, n, streamOf, streams, m)
  /\ Searching => Consists(concat, n, streamOf, streams, Len(streams))
  /\ Searching \/ phase = "join" => FrequencyFloor >= 2
  /\ phase \in {"lcp", "walk"} => lcp[1] = 0

Covered(a, b, m) ==
  LET t == TokensAt(sa[a], m) IN
  m >= LengthFloor /\ Cardinality(StreamsIn(a + 1, b + 1)) >= FrequencyFloor =>
    \E x \in DOMAIN candidates : candidates[x].tokens = t

Completed ==
  \A a, b, m \in Nat \ {0} :
    Tight(lcp, n, a, b, m) /\ (b + 1 < at \/ (b + 1 = at /\ m > Top[1])) => Covered(a, b, m)

Exactly(x) ==
  /\ x \in [tokens : Seq(Nat), sids : SUBSET Nat, frequency : Nat]
  /\ Frequent(x.tokens) /\ x.sids = StreamsOf(x.tokens)
  /\ IsFiniteSet(x.sids) /\ x.frequency = Cardinality(x.sids)

LEMMA BlockTokens ==
  ASSUME IInv, SInv, Joined, phase = "walk", NEW a, NEW b, NEW m, Block(lcp, n, a, b, m),
         NEW t, t = TokensAt(sa[a], m)
  PROVE  /\ t \in Seq(Nat) /\ Len(t) = m /\ OccursAt(concat, n, t, sa[a])
         /\ JustThere(concat, n, sa, t, a, b)
         /\ StreamsIn(a + 1, b + 1) = StreamsOf(t)
         /\ Slice(concat, sa[a], m, t)
<1>1. /\ n \in Nat /\ concat \in [1..n -> Int] /\ concat \in Seq(Int) /\ Text(concat, n)
      /\ InOrder(sa, concat, n) /\ Perm(sa, n) /\ streams \in Seq(Seq(Nat))
      /\ Consists(concat, n, streamOf, streams, Len(streams)) /\ n = Len(concat)
  BY TextIs DEF IInv, SInv, Data, Ordering, Measured, Joined, Searching, n
<1>2. Neighbours(concat, n, sa, lcp)
  <2>1. \A p \in 2..n : Common(concat, n, sa[p], sa[p - 1], lcp[p])
    BY DEF SInv, Measured
  <2>2. lcp \in [1..n -> Nat]
    BY DEF IInv, Data
  <2>3. ASSUME NEW p \in 2..n, NEW q \in 1..n, p = q + 1
        PROVE  Common(concat, n, sa[p], sa[q], lcp[p])
    <3>1. q = p - 1
      BY <2>3
    <3> QED BY <2>1, <3>1
  <2> QED BY <2>2, <2>3 DEF Neighbours
<1>3. m \in Nat \ {0} /\ a \in 1..n /\ b \in 1..n /\ a < b
  BY DEF Block
<1>4. PICK i, k : i = sa[a] /\ k = sa[b]
  OBVIOUS
<1>5. i \in 1..n /\ k \in 1..n /\ i # k
  <2>1. Perm(sa, n) /\ a # b
    BY <1>1, <1>3
  <2> QED BY <1>3, <1>4, <2>1 DEF Perm
<1>6. \A j \in 1..n : Share(concat, n, i, sa[j], m) <=> j \in a..b
  BY <1>1, <1>2, <1>4, BlockIs
<1>7. Share(concat, n, i, k, m)
  BY <1>3, <1>4, <1>6
<1>8. i + m - 1 <= n
  <2>1. m - 1 \in 0..(m - 1)
    BY <1>3
  <2>2. i + (m - 1) <= n
    BY <1>7, <2>1 DEF Share
  <2> QED BY <1>3, <1>5, <2>2
<1>9. Slice(concat, i, m, t)
  <2>1. t = SubSeq(concat, i, i + m - 1)
    BY <1>4 DEF TokensAt
  <2>2. i \in Nat \ {0} /\ m \in Nat /\ i + m - 1 <= Len(concat)
    BY <1>1, <1>3, <1>5, <1>8
  <2> QED BY <1>1, <2>1, <2>2, SliceIs
<1>10. t \in Seq(Nat) /\ Len(t) = m /\ OccursAt(concat, n, t, i)
  <2>1. n \in Nat /\ concat \in [1..n -> Int]
        /\ Consists(concat, n, streamOf, streams, Len(streams))
    BY <1>1
  <2>2. m \in Nat
    BY <1>3
  <2> QED BY <1>5, <1>7, <1>9, <2>1, <2>2, NoSentinel
<1>11. JustThere(concat, n, sa, t, a, b)
  BY <1>6, <1>10, OccursShare DEF JustThere
<1>12. StreamsIn(a + 1, b + 1) = StreamsOf(t)
  <2>1. Interval(a + 1, b + 1) = a..b
    BY <1>3 DEF Interval
  <2>2. DOMAIN streams = 1..Len(streams)
    BY <1>1
  <2>3. SidsFrom(streamOf, sa, a, b) = SidsWith(t, streams)
    <3>1. /\ n \in Nat /\ streams \in Seq(Seq(Nat)) /\ Perm(sa, n) /\ t \in Seq(Nat)
          /\ Consists(concat, n, streamOf, streams, Len(streams)) /\ a \in 1..n /\ b \in 1..n
      BY <1>1, <1>3, <1>10
    <3> QED BY <1>11, <3>1, StreamsThere
  <2> QED BY <2>1, <2>2, <2>3 DEF StreamsIn, StreamsOf, SidsFrom, SidsWith
<1> QED BY <1>4, <1>9, <1>10, <1>11, <1>12

-----------------------------------------------------------------------------
Exacts == {x \in [tokens : Seq(Nat), sids : SUBSET Nat, frequency : Nat] : Exactly(x)}

Found ==
  phase = "walk" =>
    /\ at <= n + 2 /\ Completed /\ candidates \in Seq(Exacts)
    /\ \A b \in Nat : at = b + 1 /\ b <= n => Ends(stack, lcp, n, left) /\ Heights(stack, lcp, b)

LEMMA PopTop ==
  ASSUME IInv, Pop
  PROVE  /\ OnTop(stack, stack') /\ left' = stack[Len(stack)][2]
         /\ Height(stack) = Top[1] /\ Height(stack') = Top[1]' /\ Top[1] > Cur
         /\ Top[1] \in Nat /\ Top[2] = left'
<1> DEFINE m == Len(stack)
<1>1. phase = "walk"
  BY DEF Pop
<1>2. Entries(stack, lcp, at)
  BY <1>1 DEF IInv, Walking
<1>3. Cur \in Nat
  BY <1>1, CurNat
<1>5. m \in Nat \ {0} /\ stack[m][1] \in Nat /\ stack[m][1] > Cur
  BY <1>2, TopEntry DEF Pop, Top
<1>6. m >= 2
  <2>1. stack[1][1] = 0
    BY <1>2 DEF Entries
  <2> QED BY <1>3, <1>5, <2>1
<1>7. stack' = SubSeq(stack, 1, m - 1) /\ left' = stack[m][2]
  BY DEF Pop, Front, Top
<1>8. PICK k, S : k = m - 1 /\ S = Nat \X (Nat \ {0})
  OBVIOUS
<1>9. k \in Nat \ {0} /\ k <= m /\ m = k + 1 /\ stack \in Seq(S)
  <2>1. stack \in Seq(S)
    BY <1>2, <1>8 DEF Entries
  <2>2. PICK length : length = m
    OBVIOUS
  <2>3. length \in Nat /\ length >= 2 /\ k = length - 1
    BY <1>5, <1>6, <1>8, <2>2
  <2> HIDE DEF m
  <2> QED BY <2>1, <2>2, <2>3
<1>10. Len(stack') = k /\ \A e \in 1..k : (stack')[e] = stack[e]
  BY <1>7, <1>8, <1>9, Beginning
<1>11. OnTop(stack, stack')
  BY <1>9, <1>10 DEF OnTop
<1> QED BY <1>5, <1>7, <1>11 DEF Height, Top

LEMMA FiniteStreams ==
  ASSUME IInv, NEW t
  PROVE  /\ StreamsOf(t) \in SUBSET Nat /\ IsFiniteSet(StreamsOf(t))
         /\ Cardinality(StreamsOf(t)) \in Nat
<1>1. DOMAIN streams = 1..Len(streams) /\ Len(streams) \in Nat
  BY DEF IInv, Data
<1>2. IsFiniteSet(1..Len(streams))
  BY <1>1, FS_Interval
<1>3. StreamsOf(t) \subseteq 1..Len(streams)
  BY <1>1 DEF StreamsOf
<1>4. IsFiniteSet(StreamsOf(t))
  BY <1>2, <1>3, FS_Subset
<1> QED BY <1>1, <1>3, <1>4, FS_CardinalityType

LEMMA NewExact ==
  ASSUME IInv, NEW t \in Seq(Nat), Frequent(t)
  PROVE  Span(t, StreamsOf(t)) \in Exacts
<1>1. PICK s, f : s = StreamsOf(t) /\ f = Cardinality(s)
  OBVIOUS
<1>2. s \in SUBSET Nat /\ IsFiniteSet(s) /\ f \in Nat
  BY <1>1, FiniteStreams
<1>3. PICK x : x = [tokens |-> t, sids |-> s, frequency |-> f]
  OBVIOUS
<1>4. x \in [tokens : Seq(Nat), sids : SUBSET Nat, frequency : Nat]
  BY <1>2, <1>3
<1>5. x.tokens = t /\ x.sids = s /\ x.frequency = f
  BY <1>3
<1>6. Exactly(x)
  BY <1>1, <1>2, <1>4, <1>5 DEF Exactly
<1>7. x = Span(t, StreamsOf(t))
  BY <1>1, <1>3 DEF Span
<1> QED BY <1>4, <1>6, <1>7 DEF Exacts

LEMMA SameExacts ==
  ASSUME streams' = streams PROVE Exacts' = Exacts
  BY DEF Exacts, Exactly, Frequent, StreamsOf

(***************************************************************************)
(* The interval a pop closes, and what it is emitted with.                 *)
(***************************************************************************)
LEMMA PopBlock ==
  ASSUME IInv, SInv, Joined, Found, Pop, NEW b, b = at - 1, NEW x, x = Top[2] - 1
  PROVE  /\ b \in 1..n /\ at = b + 1 /\ x \in Nat /\ Top[2] = x + 1
         /\ Block(lcp, n, x, b, Top[1])
<1>1. phase = "walk" /\ n \in Nat /\ lcp \in [1..n -> Nat] /\ at \in Nat /\ at >= 2
  BY TextIs DEF Pop, IInv, Data, Walking
<1>2. b \in 1..n /\ at = b + 1
  BY <1>1 DEF Pop
<1>3. Ends(stack, lcp, n, left) /\ Heights(stack, lcp, b) /\ Entries(stack, lcp, at)
  BY <1>1, <1>2 DEF Found, IInv, Walking
<1>4. /\ OnTop(stack, stack') /\ Top[2] = stack[Len(stack)][2] /\ Height(stack) = Top[1]
      /\ Top[1] > Cur /\ Top[1] \in Nat
  BY PopTop
<1>5. x \in Nat /\ Top[2] = x + 1
  <2>1. Len(stack) \in Nat \ {0} /\ Len(stack) \in 1..Len(stack)
    BY <1>3, TopEntry
  <2>2. Top[2] \in Nat \ {0}
    BY <1>3, <2>1, TopEntry DEF Top
  <2> QED BY <2>2
<1>6. b = n \/ lcp[at] < Height(stack)
  <2>1. CASE at <= n
    <3>1. Cur = lcp[at]
      BY <2>1 DEF Cur
    <3>2. lcp[at] \in Nat
      BY <1>1, <2>1
    <3> QED BY <1>4, <3>1, <3>2
  <2>2. CASE ~(at <= n)
    BY <1>1, <1>2, <2>2
  <2> QED BY <2>1, <2>2
<1>7. Block(lcp, n, x, b, Height(stack))
  BY <1>1, <1>2, <1>3, <1>4, <1>5, <1>6, ClosedBlock
<1> QED BY <1>2, <1>4, <1>5, <1>7

LEMMA PopEmits ==
  ASSUME IInv, SInv, Joined, Found, Pop, NEW b, b = at - 1, NEW x, x = Top[2] - 1,
         NEW t, t = TokensAt(sa[x], Top[1])
  PROVE  /\ candidates' \in Seq(Exacts)
         /\ \A d \in DOMAIN candidates : d \in DOMAIN candidates' /\ candidates'[d] = candidates[d]
         /\ Top[1] >= LengthFloor /\ Cardinality(StreamsIn(x + 1, b + 1)) >= FrequencyFloor
              => \E d \in DOMAIN candidates' : candidates'[d].tokens = t
<1>1. phase = "walk" /\ candidates \in Seq(Exacts)
  BY DEF Pop, Found
<1>2. /\ b \in 1..n /\ at = b + 1 /\ x \in Nat /\ Top[2] = x + 1
      /\ Block(lcp, n, x, b, Top[1])
  BY PopBlock
<1>3. /\ t \in Seq(Nat) /\ Len(t) = Top[1] /\ StreamsIn(x + 1, b + 1) = StreamsOf(t)
  BY <1>1, <1>2, BlockTokens
<1>4. StreamsIn(Top[2], at) = StreamsOf(t) /\ TokensAt(sa[Top[2] - 1], Top[1]) = t
  BY <1>2, <1>3
<1>5. PICK s, k : s = Span(t, StreamsOf(t)) /\ k = Len(candidates)
  OBVIOUS
<1>6. k \in Nat /\ DOMAIN candidates = 1..k
  BY <1>1, <1>5
<1>7. CASE Emits(Top[1], Top[2], at)
  <2>1. Frequent(t)
    BY <1>3, <1>4, <1>7 DEF Emits, Frequent
  <2>2. s \in Exacts /\ s.tokens = t
    BY <1>3, <1>5, <2>1, NewExact DEF Span
  <2>3. candidates' = Append(candidates, s)
    BY <1>4, <1>5, <1>7 DEF Pop
  <2>4. /\ candidates' \in Seq(Exacts) /\ Len(candidates') = k + 1 /\ candidates'[k + 1] = s
        /\ \A e \in 1..k : candidates'[e] = candidates[e]
    BY <1>1, <1>5, <2>2, <2>3, OneMore
  <2>5. DOMAIN candidates' = 1..(k + 1) /\ k + 1 \in 1..(k + 1)
    BY <1>6, <2>4
  <2> QED BY <1>6, <2>2, <2>4, <2>5
<1>8. CASE ~Emits(Top[1], Top[2], at)
  <2>1. candidates' = candidates
    BY <1>8 DEF Pop
  <2>2. ASSUME Top[1] >= LengthFloor, Cardinality(StreamsIn(x + 1, b + 1)) >= FrequencyFloor
        PROVE  \E d \in DOMAIN candidates : candidates[d].tokens = t
    <3>1. \A i \in DOMAIN t : t[i] >= 0
      BY <1>3
    <3>2. ~(\A d \in DOMAIN candidates : candidates[d].tokens # t)
      BY <1>3, <1>4, <1>8, <2>2, <3>1 DEF Emits
    <3> QED BY <3>2
  <2> QED BY <1>1, <2>1, <2>2
<1> QED BY <1>7, <1>8

LEMMA PopFound == ASSUME IInv, SInv, Joined, Found, Pop PROVE Found'
<1>1. /\ phase = "walk" /\ at' = at /\ lcp' = lcp /\ sa' = sa /\ n' = n /\ at <= n + 1
      /\ UNCHANGED <<concat, streamOf, streams>>
  BY DEF Pop, text, loaded, n
<1>2. PICK b, x, t : b = at - 1 /\ x = Top[2] - 1 /\ t = TokensAt(sa[x], Top[1])
  OBVIOUS
<1>3. /\ b \in 1..n /\ at = b + 1 /\ x \in Nat /\ Top[2] = x + 1
      /\ Block(lcp, n, x, b, Top[1])
  BY <1>2, PopBlock
<1>4. /\ n \in Nat /\ lcp \in [1..n -> Nat] /\ Entries(stack, lcp, at) /\ at \in Nat
      /\ Ends(stack, lcp, n, left) /\ Heights(stack, lcp, b) /\ Completed
  BY <1>1, <1>3, TextIs DEF IInv, Data, Walking, Found
<1>5. /\ OnTop(stack, stack') /\ left' = stack[Len(stack)][2]
      /\ Height(stack) = Top[1] /\ Height(stack') = Top[1]' /\ Top[1] \in Nat /\ Top[2] = left'
  BY PopTop
<1>6. Ends(stack', lcp, n, left') /\ Heights(stack', lcp, b)
  <2>1. b <= n /\ b \in Nat
    BY <1>3
  <2> QED BY <1>4, <1>5, <2>1, PopEnds
<1>7. /\ candidates' \in Seq(Exacts)
      /\ \A d \in DOMAIN candidates : d \in DOMAIN candidates' /\ candidates'[d] = candidates[d]
      /\ Top[1] >= LengthFloor /\ Cardinality(StreamsIn(x + 1, b + 1)) >= FrequencyFloor
           => \E d \in DOMAIN candidates' : candidates'[d].tokens = t
  BY <1>2, PopEmits
<1>8. ASSUME NEW a1 \in Nat \ {0}, NEW b1 \in Nat \ {0}, NEW m1 \in Nat \ {0}, Tight(lcp, n, a1, b1, m1),
             b1 + 1 < at \/ (b1 + 1 = at /\ m1 > Top[1]'),
             m1 >= LengthFloor, Cardinality(StreamsIn(a1 + 1, b1 + 1)) >= FrequencyFloor
      PROVE  \E d \in DOMAIN candidates' : candidates'[d].tokens = TokensAt(sa[a1], m1)
  <2>1. CASE b1 + 1 < at \/ (b1 + 1 = at /\ m1 > Top[1])
    <3>1. Covered(a1, b1, m1)
      BY <1>4, <1>8, <2>1 DEF Completed
    <3> QED BY <1>7, <1>8, <3>1 DEF Covered
  <2>2. CASE b1 + 1 = at /\ m1 > Top[1]' /\ m1 <= Top[1]
    <3>1. b1 = b
      BY <1>3, <2>2
    <3>2. Tight(lcp, n, a1, b, m1) /\ m1 <= Height(stack) /\ m1 > Height(stack')
      BY <1>5, <1>8, <2>2, <3>1
    <3>3. m1 = Height(stack) /\ stack[Len(stack)][2] = a1 + 1
      <4>1. PICK s, u, a, l : s = stack /\ u = stack' /\ a = at /\ l = left
        OBVIOUS
      <4>2. /\ n \in Nat /\ b \in 1..n /\ a = b + 1 /\ Entries(s, lcp, a) /\ OnTop(s, u)
            /\ Ends(s, lcp, n, l) /\ Heights(s, lcp, b) /\ lcp \in [1..n -> Nat]
            /\ Tight(lcp, n, a1, b, m1) /\ m1 <= Height(s) /\ m1 > Height(u)
        BY <1>3, <1>4, <1>5, <3>2, <4>1
      <4>3. m1 = Height(s) /\ s[Len(s)][2] = a1 + 1
        BY <4>2, ClosedIs
      <4> QED BY <4>1, <4>3
    <3>4. a1 = x /\ m1 = Top[1]
      BY <1>3, <1>5, <3>3
    <3> QED BY <1>2, <1>7, <1>8, <3>1, <3>4
  <2> QED BY <1>5, <1>8, <2>1, <2>2
<1>9. Completed'
  <2> SUFFICES ASSUME NEW a1 \in Nat \ {0}, NEW b1 \in Nat \ {0}, NEW m1 \in Nat \ {0},
                      Tight(lcp, n, a1, b1, m1), b1 + 1 < at \/ (b1 + 1 = at /\ m1 > Top[1]')
               PROVE  Covered(a1, b1, m1)'
    BY <1>1 DEF Completed
  <2>1. StreamsIn(a1 + 1, b1 + 1)' = StreamsIn(a1 + 1, b1 + 1)
        /\ TokensAt(sa[a1], m1)' = TokensAt(sa[a1], m1)
    BY <1>1 DEF StreamsIn, TokensAt
  <2> QED BY <1>8, <2>1 DEF Covered
<1>10. ASSUME NEW b1 \in Nat, at' = b1 + 1, b1 <= n'
       PROVE  Ends(stack', lcp', n', left') /\ Heights(stack', lcp', b1)
  <2>1. b1 = b
    BY <1>1, <1>3, <1>10
  <2> QED BY <1>1, <1>6, <2>1
<1>11. Exacts' = Exacts
  BY <1>1, SameExacts
<1>12. at' <= n' + 2
  BY <1>1, <1>4
<1> QED BY <1>7, <1>9, <1>10, <1>11, <1>12 DEF Found

LEMMA AdvanceFound == ASSUME IInv, SInv, Joined, Found, Advance PROVE Found'
<1>1. /\ phase = "walk" /\ at' = at + 1 /\ left' = at + 1 /\ lcp' = lcp /\ sa' = sa /\ n' = n /\ at <= n + 1
      /\ stack' = (IF Top[1] < Cur THEN Opened(Cur) ELSE stack) /\ Top[1] <= Cur
      /\ UNCHANGED <<concat, streamOf, streams, candidates>>
  BY DEF Advance, text, loaded, n, found
<1>2. PICK b, v : b = at - 1 /\ v = Cur
  OBVIOUS
<1>3. n \in Nat /\ at \in Nat /\ at >= 2 /\ lcp \in [1..n -> Nat]
  BY <1>1, TextIs DEF IInv, Data, Walking
<1>4. b \in 1..n /\ b \in Nat /\ b <= n /\ at = b + 1
  BY <1>1, <1>2, <1>3
<1>5. /\ Entries(stack, lcp, at) /\ left \in 2..at /\ (\A p \in left..(at - 1) : lcp[p] > Cur)
      /\ Ends(stack, lcp, n, left) /\ Heights(stack, lcp, b) /\ Completed /\ candidates \in Seq(Exacts)
  BY <1>1, <1>4 DEF IInv, Walking, Popped, Found
<1>6. Top[1] \in Nat /\ Top[1] = Height(stack) /\ Cur \in Nat
  <2>1. Len(stack) \in 1..Len(stack)
    BY <1>5, TopEntry
  <2> QED BY <1>1, <1>5, <2>1, TopEntry, CurNat DEF Top, Height
<1>7. at <= n => lcp[at] = v
  BY <1>2 DEF Cur
<1>8. ASSUME at <= n
      PROVE  Ends(stack', lcp, n, left') /\ Heights(stack', lcp, at) /\ Height(stack') = v
  <2>1. stack' = IF Height(stack) < v THEN Append(stack, <<v, left>>) ELSE stack
    BY <1>1, <1>2, <1>6 DEF Opened
  <2>2. at \in 2..n /\ v = lcp[at] /\ Height(stack) <= v
    BY <1>1, <1>2, <1>3, <1>6, <1>7, <1>8
  <2>3. \A p \in left..b : lcp[p] > v
    BY <1>2, <1>5
  <2>4. PICK a, l, k, t : a = at /\ l = left /\ k = left' /\ t = stack'
    OBVIOUS
  <2>5. /\ a \in 2..n /\ a = b + 1 /\ l \in 2..a /\ v = lcp[a] /\ k = a + 1
        /\ NextStack(t, stack, v, l)
        /\ Above(lcp, l, b, v) /\ Entries(stack, lcp, a) /\ Ends(stack, lcp, n, l)
    BY <1>1, <1>4, <1>5, <2>1, <2>2, <2>3, <2>4 DEF Above, NextStack
  <2>6. Ends(t, lcp, n, k) /\ Heights(t, lcp, a) /\ Height(t) = v
    <3>1. PICK s : s = stack
      OBVIOUS
    <3>2. /\ n \in Nat /\ a \in 2..n /\ b \in Nat /\ a = b + 1 /\ l \in 2..a
          /\ Entries(s, lcp, a) /\ Ends(s, lcp, n, l) /\ Heights(s, lcp, b) /\ lcp \in [1..n -> Nat]
          /\ v = lcp[a] /\ Height(s) <= v /\ NextStack(t, s, v, l) /\ k = a + 1
          /\ Above(lcp, l, b, v)
      BY <1>3, <1>4, <1>5, <2>2, <2>5, <3>1
    <3> QED BY ONLY SMTT(40), <3>2, NextEnds
  <2> QED BY <2>4, <2>6
<1>9. ASSUME NEW a1 \in Nat \ {0}, NEW b1 \in Nat \ {0}, NEW m1 \in Nat \ {0}, Tight(lcp, n, a1, b1, m1),
             b1 + 1 < at + 1 \/ (b1 + 1 = at + 1 /\ m1 > Top[1]')
      PROVE  Covered(a1, b1, m1)
  <2>1. /\ b1 \in 1..n /\ a1 \in 1..n /\ a1 < b1 /\ (b1 = n \/ lcp[b1 + 1] < m1)
        /\ \A p \in (a1 + 1)..b1 : lcp[p] >= m1
    BY <1>9 DEF Tight, Block, AtLeast
  <2>2. CASE b1 + 1 < at
    BY <1>5, <1>9, <2>2 DEF Completed
  <2>3. CASE b1 + 1 = at
    <3>1. v < m1
      <4>1. CASE b1 = n
        <5>1. Cur = 0
          BY <1>3, <2>3, <4>1 DEF Cur
        <5> QED BY <1>2, <5>1
      <4>2. CASE b1 # n
        <5>1. at <= n
          BY <1>3, <2>1, <2>3, <4>2
        <5> QED BY <1>7, <2>1, <2>3, <4>2, <5>1
      <4> QED BY <4>1, <4>2
    <3>2. m1 > Top[1]
      BY <1>1, <1>2, <1>6, <3>1
    <3> QED BY <1>5, <1>9, <2>3, <3>2 DEF Completed
  <2>4. CASE b1 + 1 = at + 1 /\ m1 > Top[1]'
    <3>1. b1 = at /\ at <= n
      BY <1>3, <2>1, <2>4
    <3>2. Height(stack') = v
      BY <1>8, <3>1
    <3>3. Top[1]' = v
      BY <3>2 DEF Top, Height
    <3>4. at \in (a1 + 1)..b1
      BY <1>3, <2>1, <3>1
    <3>5. lcp[at] >= m1
      BY <2>1, <3>4
    <3> QED BY <1>2, <1>6, <1>7, <2>4, <3>1, <3>3, <3>5
  <2> QED BY <1>3, <1>9, <2>2, <2>3, <2>4
<1>10. Completed'
  <2> SUFFICES ASSUME NEW a1 \in Nat \ {0}, NEW b1 \in Nat \ {0}, NEW m1 \in Nat \ {0},
                      Tight(lcp, n, a1, b1, m1),
                      b1 + 1 < at + 1 \/ (b1 + 1 = at + 1 /\ m1 > Top[1]')
               PROVE  Covered(a1, b1, m1)'
    BY <1>1 DEF Completed
  <2>1. StreamsIn(a1 + 1, b1 + 1)' = StreamsIn(a1 + 1, b1 + 1)
        /\ TokensAt(sa[a1], m1)' = TokensAt(sa[a1], m1)
    BY <1>1 DEF StreamsIn, TokensAt
  <2>2. Covered(a1, b1, m1)
    BY <1>9
  <2> QED BY <1>1, <2>1, <2>2 DEF Covered
<1>11. ASSUME NEW b1 \in Nat, at' = b1 + 1, b1 <= n'
       PROVE  Ends(stack', lcp', n', left') /\ Heights(stack', lcp', b1)
  <2>1. b1 = at /\ at <= n
    BY <1>1, <1>3, <1>11
  <2> QED BY <1>1, <1>8, <2>1
<1>12. Exacts' = Exacts
  BY <1>1, SameExacts
<1>13. at' <= n' + 2
  BY <1>1, <1>3
<1> QED BY <1>1, <1>5, <1>10, <1>11, <1>12, <1>13 DEF Found

-----------------------------------------------------------------------------
(***************************************************************************)
(* A list t is another one, s, in some order.                              *)
(***************************************************************************)
Reorders(t, s, N) ==
  /\ DOMAIN t = 1..N
  /\ \A p \in 1..N : \E i \in 1..N : t[p] = s[i]
  /\ \A i \in 1..N : \E p \in 1..N : t[p] = s[i]

Id(N) == [i \in 1..N |-> i]
ByKeys(s, key, N) == [p \in 1..N |-> s[Invert(PlaceIn(EarlierPairs(Id(N), key, N), 1..N), N, p)]]

LEMMA KeysReorder ==
  ASSUME NEW N \in Nat, NEW s, NEW key \in [1..N -> Int \X Int]
  PROVE  Reorders(ByKeys(s, key, N), s, N)
<1>1. Perm(Id(N), N)
  BY DEF Id, Perm
<1>2. PICK f : f = PlaceIn(EarlierPairs(Id(N), key, N), 1..N)
  OBVIOUS
<1>3. Perm(f, N)
  BY <1>1, <1>2, EarlierOrder, Places
<1>4. PICK t : t = ByKeys(s, key, N)
  OBVIOUS
<1>5. t = [p \in 1..N |-> s[Invert(f, N, p)]]
  BY <1>2, <1>4 DEF ByKeys
<1>6. \A p \in 1..N : Invert(f, N, p) \in 1..N /\ f[Invert(f, N, p)] = p
  BY <1>3 DEF Invert, Perm
<1>7. \A p \in 1..N : \E i \in 1..N : t[p] = s[i]
  BY <1>5, <1>6
<1>8. ASSUME NEW i \in 1..N PROVE \E p \in 1..N : t[p] = s[i]
  <2>1. PICK p \in 1..N : p = f[i]
    BY <1>3 DEF Perm
  <2>2. Invert(f, N, p) = i
    BY <1>3, <1>6, <2>1 DEF Perm
  <2> QED BY <1>5, <2>2
<1> QED BY <1>4, <1>5, <1>7, <1>8 DEF Reorders

(***************************************************************************)
(* The two sorts of span lists by keys.                                    *)
(***************************************************************************)
LongKeys(s, N) == [i \in 1..N |-> <<-Len(s[i].tokens), 0>>]
ImpactKeys(s, N) == [i \in 1..N |-> <<-s[i].frequency, -Len(s[i].tokens)>>]
Measurable(s, N) ==
  DOMAIN s = 1..N /\ \A i \in 1..N : Len(s[i].tokens) \in Nat /\ s[i].frequency \in Nat

LEMMA LongerSorts ==
  ASSUME NEW N \in Nat, NEW s, Measurable(s, N)
  PROVE  Reorders(StableSort(s, Longer), s, N)
<1> DEFINE key == LongKeys(s, N)
           Goes(i, j) == Longer(s[i], s[j]) \/ (~Longer(s[j], s[i]) /\ i < j)
           place(S) == [x \in S |-> 1 + Cardinality({j \in S : Goes(j, x)})]
           sort(f, S) == [p \in S |-> s[CHOOSE i \in S : f[i] = p]]
<1>1. StableSort(s, Longer) = sort(place(DOMAIN s), DOMAIN s)
  BY DEF StableSort
<1>2. StableSort(s, Longer) = sort(place(1..N), 1..N)
  <2> HIDE DEF place, sort
  <2> QED BY <1>1 DEF Measurable
<1>3. \A i, j \in 1..N : Goes(i, j) <=> Earlier(Id(N), key, i, j)
  <2> SUFFICES ASSUME NEW i \in 1..N, NEW j \in 1..N PROVE Goes(i, j) <=> Earlier(Id(N), key, i, j)
    OBVIOUS
  <2>1. PICK a, b \in Nat : a = Len(s[i].tokens) /\ b = Len(s[j].tokens)
    BY DEF Measurable
  <2>2. key[i] = <<-a, 0>> /\ key[j] = <<-b, 0>> /\ Id(N)[i] = i /\ Id(N)[j] = j
    BY <2>1 DEF LongKeys, Id
  <2>3. (Less(key[i], key[j]) <=> a > b) /\ (Less(key[j], key[i]) <=> b > a)
    BY <2>2 DEF Less
  <2>4. (Longer(s[i], s[j]) <=> a > b) /\ (Longer(s[j], s[i]) <=> b > a)
    BY <2>1 DEF Longer
  <2> HIDE DEF key
  <2> QED BY <2>2, <2>3, <2>4 DEF Earlier
<1>4. place(1..N) = PlaceIn(EarlierPairs(Id(N), key, N), 1..N)
  <2> HIDE DEF Goes, key
  <2>1. \A i \in 1..N : {j \in 1..N : Goes(j, i)} = Below(EarlierPairs(Id(N), key, N), 1..N, i)
    BY <1>3 DEF Below, EarlierPairs
  <2> QED BY <2>1, Zenon DEF PlaceIn
<1>5. StableSort(s, Longer) = sort(PlaceIn(EarlierPairs(Id(N), key, N), 1..N), 1..N)
  <2> HIDE DEF place, sort, key
  <2> QED BY <1>2, <1>4
<1>6. StableSort(s, Longer) = ByKeys(s, key, N)
  <2> HIDE DEF place, key
  <2> QED BY <1>5 DEF ByKeys, Invert
<1>7. key \in [1..N -> Int \X Int]
  <2> SUFFICES ASSUME NEW i \in 1..N PROVE <<-Len(s[i].tokens), 0>> \in Int \X Int
    BY DEF LongKeys
  <2>1. PICK a \in Nat : a = Len(s[i].tokens)
    BY DEF Measurable
  <2>2. -a \in Int
    OBVIOUS
  <2> QED BY <2>1, <2>2
<1> HIDE DEF key
<1> QED BY <1>6, <1>7, KeysReorder

LEMMA ImpactSorts ==
  ASSUME NEW N \in Nat, NEW s, Measurable(s, N)
  PROVE  Reorders(StableSort(s, Impact), s, N)
<1> DEFINE key == ImpactKeys(s, N)
           Goes(i, j) == Impact(s[i], s[j]) \/ (~Impact(s[j], s[i]) /\ i < j)
           place(S) == [x \in S |-> 1 + Cardinality({j \in S : Goes(j, x)})]
           sort(f, S) == [p \in S |-> s[CHOOSE i \in S : f[i] = p]]
<1>1. StableSort(s, Impact) = sort(place(DOMAIN s), DOMAIN s)
  BY DEF StableSort
<1>2. StableSort(s, Impact) = sort(place(1..N), 1..N)
  <2> HIDE DEF place, sort
  <2> QED BY <1>1 DEF Measurable
<1>3. \A i, j \in 1..N : Goes(i, j) <=> Earlier(Id(N), key, i, j)
  <2> SUFFICES ASSUME NEW i \in 1..N, NEW j \in 1..N PROVE Goes(i, j) <=> Earlier(Id(N), key, i, j)
    OBVIOUS
  <2>1. PICK a, b, x, y \in Nat : /\ a = Len(s[i].tokens) /\ b = Len(s[j].tokens)
                                  /\ x = s[i].frequency /\ y = s[j].frequency
    BY DEF Measurable
  <2>2. key[i] = <<-x, -a>> /\ key[j] = <<-y, -b>> /\ Id(N)[i] = i /\ Id(N)[j] = j
    BY <2>1 DEF ImpactKeys, Id
  <2>3. /\ Less(key[i], key[j]) <=> (x > y \/ (x = y /\ a > b))
        /\ Less(key[j], key[i]) <=> (y > x \/ (x = y /\ b > a))
    BY <2>2 DEF Less
  <2>4. /\ Impact(s[i], s[j]) <=> (x > y \/ (x = y /\ a > b))
        /\ Impact(s[j], s[i]) <=> (y > x \/ (x = y /\ b > a))
    BY <2>1 DEF Impact, Longer
  <2> HIDE DEF key
  <2> QED BY <2>2, <2>3, <2>4 DEF Earlier
<1>4. place(1..N) = PlaceIn(EarlierPairs(Id(N), key, N), 1..N)
  <2> HIDE DEF Goes, key
  <2>1. \A i \in 1..N : {j \in 1..N : Goes(j, i)} = Below(EarlierPairs(Id(N), key, N), 1..N, i)
    BY <1>3 DEF Below, EarlierPairs
  <2> QED BY <2>1, Zenon DEF PlaceIn
<1>5. StableSort(s, Impact) = sort(PlaceIn(EarlierPairs(Id(N), key, N), 1..N), 1..N)
  <2> HIDE DEF place, sort, key
  <2> QED BY <1>2, <1>4
<1>6. StableSort(s, Impact) = ByKeys(s, key, N)
  <2> HIDE DEF place, key
  <2> QED BY <1>5 DEF ByKeys, Invert
<1>7. key \in [1..N -> Int \X Int]
  <2> SUFFICES ASSUME NEW i \in 1..N PROVE <<-s[i].frequency, -Len(s[i].tokens)>> \in Int \X Int
    BY DEF ImpactKeys
  <2>1. PICK a, b \in Nat : a = Len(s[i].tokens) /\ b = s[i].frequency
    BY DEF Measurable
  <2>2. -a \in Int /\ -b \in Int
    OBVIOUS
  <2> QED BY <2>1, <2>2
<1> HIDE DEF key
<1> QED BY <1>6, <1>7, KeysReorder

-----------------------------------------------------------------------------
LEMMA PartTyped ==
  ASSUME NEW s \in Seq(Nat), NEW p \in 1..Len(s), NEW q \in 1..Len(s)
  PROVE  SubSeq(s, p, q) \in Seq(Nat)
  OBVIOUS

LEMMA RepeatTokens ==
  ASSUME IInv, NEW w \in Repeats
  PROVE  w \in Seq(Nat) /\ Frequent(w)
<1>1. PICK sid \in DOMAIN streams : \E p, q \in DOMAIN streams[sid] : w = SubSeq(streams[sid], p, q) /\ Frequent(w)
  BY DEF Repeats
<1>2. PICK s : s = streams[sid]
  OBVIOUS
<1>3. s \in Seq(Nat) /\ DOMAIN s = 1..Len(s)
  <2>1. streams \in Seq(Seq(Nat))
    BY DEF IInv, Data
  <2>2. s \in Seq(Nat)
    BY <1>2, <2>1
  <2> QED BY <2>2
<1>4. PICK p, q \in DOMAIN s : w = SubSeq(s, p, q) /\ Frequent(w)
  BY <1>1, <1>2
<1> QED BY <1>3, <1>4, PartTyped

(***************************************************************************)
(* Every frequent sequence begins the tokens of a block with its streams.  *)
(***************************************************************************)
LEMMA RepeatIs ==
  ASSUME IInv, SInv, Joined, phase = "walk", NEW w \in Repeats
  PROVE  /\ w \in Seq(Nat) /\ Len(w) \in Nat \ {0} /\ Len(w) >= LengthFloor /\ Frequent(w)
         /\ \E p, q \in 1..n : p # q /\ OccursAt(concat, n, w, sa[p]) /\ OccursAt(concat, n, w, sa[q])
<1>1. streams \in Seq(Seq(Nat))
  BY DEF IInv, Data
<1>2. w \in Seq(Nat) /\ Frequent(w)
  BY RepeatTokens
<1>6. Len(w) \in Nat \ {0} /\ Len(w) >= LengthFloor
  <2>1. LengthFloor \in Nat \ {0} /\ Len(w) >= LengthFloor /\ Len(w) \in Nat
    BY <1>2, MinerAssumption DEF Frequent
  <2>2. PICK k : k = Len(w)
    OBVIOUS
  <2> QED BY <2>1, <2>2
<1>7. PICK T : T = StreamsOf(w)
  OBVIOUS
<1>8. IsFiniteSet(T) /\ Cardinality(T) >= 2 /\ T \subseteq 1..Len(streams)
  <2>1. FrequencyFloor >= 2 /\ FrequencyFloor \in Nat /\ Cardinality(T) \in Nat /\ IsFiniteSet(T)
    BY <1>7, FiniteStreams, MinerAssumption DEF Joined, Searching
  <2>2. Cardinality(T) >= FrequencyFloor
    BY <1>2, <1>7 DEF Frequent
  <2>3. T \subseteq 1..Len(streams)
    BY <1>1, <1>7 DEF StreamsOf
  <2> QED BY <2>1, <2>2, <2>3
<1>9. PICK c, d \in T : c # d
  <2>1. T # {}
    BY <1>8, FS_EmptySet
  <2>2. PICK c \in T : TRUE
    BY <2>1
  <2>3. T # {c}
    <3> SUFFICES ASSUME T = {c} PROVE FALSE
      OBVIOUS
    <3>1. Cardinality({c}) = 1
      BY FS_Singleton
    <3>2. Cardinality(T) = 1
      BY <3>1, Zenon
    <3> QED BY <1>8, <3>2
  <2> QED BY <2>2, <2>3
<1>10. Consists(concat, n, streamOf, streams, Len(streams)) /\ Perm(sa, n) /\ n \in Nat
  BY TextIs DEF Joined, Searching, SInv, Ordering
<1>11. ASSUME NEW e \in T PROVE \E x \in 1..n : OccursAt(concat, n, w, sa[x]) /\ streamOf[sa[x]] = e
  <2>1. e \in 1..Len(streams) /\ OccursIn(w, streams[e])
    BY <1>7, <1>8 DEF StreamsOf
  <2>2. PICK y \in 1..n : streamOf[y] = e /\ OccursAt(concat, n, w, y)
    BY <1>1, <1>2, <1>10, <2>1, InTheText
  <2>3. PICK x \in 1..n : sa[x] = y
    BY <1>10 DEF Perm
  <2> QED BY <2>2, <2>3
<1>12. PICK x \in 1..n : OccursAt(concat, n, w, sa[x]) /\ streamOf[sa[x]] = c
  BY <1>9, <1>11
<1>13. PICK y \in 1..n : OccursAt(concat, n, w, sa[y]) /\ streamOf[sa[y]] = d
  BY <1>9, <1>11
<1>14. x # y
  BY <1>9, <1>12, <1>13
<1> QED BY <1>2, <1>6, <1>12, <1>13, <1>14

LEMMA PrefixIs ==
  ASSUME NEW S, NEW w \in Seq(S), NEW t \in Seq(S), Len(w) <= Len(t),
         \A y \in 1..Len(w) : w[y] = t[y]
  PROVE  IsPrefix(w, t)
<1>1. PICK u, k : k = Len(w) /\ u = SubSeq(t, 1, k)
  OBVIOUS
<1>2. u \in Seq(S) /\ Len(u) = k /\ \A y \in 1..k : u[y] = t[y]
  BY <1>1, Beginning
<1>3. u = w
  BY <1>1, <1>2, SeqEqual
<1> QED BY <1>1, <1>3 DEF IsPrefix

LEMMA WalkCovers ==
  ASSUME IInv, SInv, Joined, Found, phase = "walk", at > n + 1, NEW w \in Repeats
  PROVE  \E x \in DOMAIN candidates :
           IsPrefix(w, candidates[x].tokens) /\ candidates[x].sids = StreamsOf(w)
<1>1. /\ n \in Nat /\ concat \in [1..n -> Int] /\ Text(concat, n) /\ InOrder(sa, concat, n)
      /\ Perm(sa, n) /\ lcp \in [1..n -> Nat] /\ at \in Nat /\ streams \in Seq(Seq(Nat))
      /\ Consists(concat, n, streamOf, streams, Len(streams))
  BY TextIs DEF IInv, SInv, Data, Ordering, Measured, Joined, Searching
<1>2. Neighbours(concat, n, sa, lcp)
  <2>1. \A p \in 2..n : Common(concat, n, sa[p], sa[p - 1], lcp[p])
    BY DEF SInv, Measured
  <2>3. ASSUME NEW p \in 2..n, NEW q \in 1..n, p = q + 1
        PROVE  Common(concat, n, sa[p], sa[q], lcp[p])
    <3>1. q = p - 1
      BY <2>3
    <3> QED BY <2>1, <3>1
  <2> QED BY <1>1, <2>3 DEF Neighbours
<1>3. PICK k : k = Len(w)
  OBVIOUS
<1>4. w \in Seq(Nat) /\ k \in Nat \ {0} /\ k >= LengthFloor /\ LengthFloor \in Nat /\ Frequent(w)
  BY <1>3, RepeatIs, MinerAssumption
<1>5. PICK p0, q0 \in 1..n : p0 # q0 /\ OccursAt(concat, n, w, sa[p0]) /\ OccursAt(concat, n, w, sa[q0])
  BY RepeatIs
<1> DEFINE S == {p \in Nat : p \in 1..n /\ OccursAt(concat, n, w, sa[p])}
           U == {p \in Nat : p \in 1..n /\ OccursAt(concat, n, w, sa[(n + 1) - p])}
<1>6. PICK a \in S : \A y \in S : a <= y
  <2>1. S \in SUBSET Nat /\ S # {}
    BY <1>5
  <2> HIDE DEF S
  <2> QED BY <2>1, Least
<1>7. PICK b \in S : \A y \in S : y <= b
  <2>1. \A y \in S : (n + 1) - y \in U
    <3> SUFFICES ASSUME NEW y \in S PROVE (n + 1) - y \in U
      OBVIOUS
    <3>1. PICK z : z = (n + 1) - y
      OBVIOUS
    <3>2. z \in 1..n /\ (n + 1) - z = y
      BY <1>1, <3>1
    <3> QED BY <3>1, <3>2
  <2>2. U \in SUBSET Nat /\ U # {}
    <3>1. p0 \in S
      BY <1>5
    <3> QED BY <2>1, <3>1
  <2>3. PICK u \in U : \A y \in U : u <= y
    <3> HIDE DEF U
    <3> QED BY <2>2, Least
  <2>4. PICK b : b = (n + 1) - u
    OBVIOUS
  <2>5. b \in S
    BY <1>1, <2>4
  <2>6. ASSUME NEW y \in S PROVE y <= b
    <3>1. u <= (n + 1) - y
      BY <2>1, <2>3
    <3> QED BY <1>1, <2>4, <3>1
  <2> QED BY <2>5, <2>6
<1>8. /\ a \in 1..n /\ b \in 1..n /\ OccursAt(concat, n, w, sa[a]) /\ OccursAt(concat, n, w, sa[b])
      /\ \A j \in 1..n : OccursAt(concat, n, w, sa[j]) => a <= j /\ j <= b
  BY <1>6, <1>7
<1> HIDE DEF S, U
<1>9. a < b
  BY <1>5, <1>8
<1>10. \A j \in 1..n : OccursAt(concat, n, w, sa[j]) <=> Share(concat, n, sa[a], sa[j], k)
  BY <1>3, <1>8, OccursShare
<1>11. PICK l : l = a + 1
  OBVIOUS
<1>12. AtLeast(lcp, l, b, k)
  <2>1. Share(concat, n, sa[a], sa[b], k)
    BY <1>8, <1>10
  <2> QED BY <1>1, <1>2, <1>4, <1>8, <1>9, <1>11, <2>1, Reach
<1> DEFINE H == {v \in Nat : \E p \in l..b : lcp[p] = v}
<1>13. \A p \in l..b : p \in 1..n /\ lcp[p] \in H
  BY <1>1, <1>8, <1>11
<1>14. PICK m \in H : \A y \in H : m <= y
  <2>1. l \in l..b
    BY <1>8, <1>9, <1>11
  <2>2. H \in SUBSET Nat /\ H # {}
    BY <1>13, <2>1
  <2> HIDE DEF H
  <2> QED BY <2>2, Least
<1>15. m \in Nat \ {0} /\ k <= m /\ AtLeast(lcp, l, b, m) /\ \E p \in l..b : lcp[p] = m
  <2>1. PICK p \in l..b : lcp[p] = m
    OBVIOUS
  <2>2. lcp[p] >= k
    BY <1>12 DEF AtLeast
  <2>3. \A q \in l..b : lcp[q] >= m
    BY <1>13, <1>14
  <2> QED BY <1>4, <2>1, <2>2, <2>3 DEF AtLeast
<1> HIDE DEF H
<1>16. a = 1 \/ lcp[a] < m
  <2> SUFFICES ASSUME a # 1, ~(lcp[a] < m) PROVE FALSE
    OBVIOUS
  <2>1. PICK c : c = a - 1
    OBVIOUS
  <2>2. c \in 1..n /\ a = c + 1 /\ a \in 2..n /\ ~(a <= c)
    <3>1. n \in Nat
      BY <1>1
    <3> QED BY <1>8, <2>1, <3>1
  <2>3. lcp[a] \in Nat /\ k <= lcp[a]
    BY <1>1, <1>4, <1>8, <1>15
  <2>4. Common(concat, n, sa[a], sa[c], lcp[a])
    BY <1>2, <2>2 DEF Neighbours
  <2>5. Share(concat, n, sa[a], sa[c], lcp[a])
    BY <2>4 DEF Common
  <2>6. Share(concat, n, sa[a], sa[c], k)
    BY <1>4, <2>3, <2>5, ShareLess
  <2> QED BY <1>8, <1>10, <2>2, <2>6
<1>17. b = n \/ lcp[b + 1] < m
  <2> SUFFICES ASSUME b # n, ~(lcp[b + 1] < m) PROVE FALSE
    OBVIOUS
  <2>1. PICK d : d = b + 1
    OBVIOUS
  <2>2. d \in 1..n /\ d \in 2..n /\ ~(d <= b) /\ ~(lcp[d] < m)
    <3>1. n \in Nat
      BY <1>1
    <3> QED BY <1>8, <2>1, <3>1
  <2>3. lcp[d] \in Nat /\ k <= lcp[d]
    BY <1>1, <1>4, <1>15, <2>2
  <2>4. Common(concat, n, sa[d], sa[b], lcp[d])
    BY <1>2, <1>8, <2>1, <2>2 DEF Neighbours
  <2>5. Share(concat, n, sa[d], sa[b], lcp[d])
    BY <2>4 DEF Common
  <2>6. Share(concat, n, sa[b], sa[d], k)
    <3>1. Share(concat, n, sa[d], sa[b], k)
      BY <1>4, <2>3, <2>5, ShareLess
    <3> QED BY <3>1, ShareBack
  <2>7. Share(concat, n, sa[a], sa[b], k)
    BY <1>8, <1>10
  <2>8. Share(concat, n, sa[a], sa[d], k)
    BY <2>6, <2>7, ShareThrough
  <2> QED BY <1>8, <1>10, <2>2, <2>8
<1>18. Block(lcp, n, a, b, m) /\ Tight(lcp, n, a, b, m)
  <2>1. Block(lcp, n, a, b, m)
    BY <1>8, <1>9, <1>11, <1>15, <1>16, <1>17 DEF Block
  <2> QED BY <1>11, <1>15, <2>1 DEF Tight
<1>19. PICK t : t = TokensAt(sa[a], m)
  OBVIOUS
<1>20. /\ t \in Seq(Nat) /\ Len(t) = m /\ OccursAt(concat, n, t, sa[a])
       /\ JustThere(concat, n, sa, t, a, b) /\ StreamsIn(a + 1, b + 1) = StreamsOf(t)
  BY <1>18, <1>19, BlockTokens
<1>21. JustThere(concat, n, sa, w, a, b)
  <2>1. ASSUME NEW j \in 1..n, j \in a..b PROVE OccursAt(concat, n, w, sa[j])
    <3>1. OccursAt(concat, n, t, sa[j])
      BY <1>20, <2>1 DEF JustThere
    <3>2. Share(concat, n, sa[a], sa[j], m)
      BY <1>20, <3>1, OccursShare
    <3>3. Share(concat, n, sa[a], sa[j], k)
      BY <1>4, <1>15, <3>2, ShareLess
    <3> QED BY <1>10, <3>3
  <2>2. ASSUME NEW j \in 1..n, OccursAt(concat, n, w, sa[j]) PROVE j \in a..b
    BY <1>8, <2>2
  <2> QED BY <2>1, <2>2 DEF JustThere
<1>22. StreamsOf(w) = StreamsOf(t)
  <2>1. SidsFrom(streamOf, sa, a, b) = SidsWith(w, streams)
    BY <1>1, <1>4, <1>8, <1>21, StreamsThere
  <2>2. SidsFrom(streamOf, sa, a, b) = SidsWith(t, streams)
    BY <1>1, <1>8, <1>20, StreamsThere
  <2>3. DOMAIN streams = 1..Len(streams)
    BY <1>1
  <2> QED BY <2>1, <2>2, <2>3 DEF StreamsOf, SidsWith
<1>23. PICK x \in DOMAIN candidates : candidates[x].tokens = t
  <2>1. b + 1 < at
    BY <1>1, <1>8
  <2>2. Covered(a, b, m)
    BY <1>8, <1>15, <1>18, <2>1 DEF Found, Completed
  <2>3. m >= LengthFloor
    BY <1>4, <1>15
  <2>4. Cardinality(StreamsIn(a + 1, b + 1)) >= FrequencyFloor
    BY <1>4, <1>20, <1>22 DEF Frequent
  <2> QED BY <1>19, <2>2, <2>3, <2>4 DEF Covered
<1>24. candidates[x].sids = StreamsOf(w)
  <2>1. candidates \in Seq(Exacts)
    BY DEF Found
  <2>2. candidates[x] \in Exacts
    BY <2>1
  <2> QED BY <1>22, <1>23, <2>2 DEF Exacts, Exactly
<1>25. IsPrefix(w, t)
  <2>1. \A x1 \in 0..(k - 1) : w[x1 + 1] = t[x1 + 1]
    <3> SUFFICES ASSUME NEW x1 \in 0..(k - 1) PROVE w[x1 + 1] = t[x1 + 1]
      OBVIOUS
    <3>1. x1 \in 0..(m - 1)
      BY <1>4, <1>15
    <3>2. concat[sa[a] + x1] = w[x1 + 1]
      BY <1>3, <1>8 DEF OccursAt
    <3>3. concat[sa[a] + x1] = t[x1 + 1]
      BY <1>20, <3>1 DEF OccursAt
    <3> QED BY <3>2, <3>3
  <2>2. \A y \in 1..k : w[y] = t[y]
    <3> SUFFICES ASSUME NEW y \in 1..k PROVE w[y] = t[y]
      OBVIOUS
    <3>1. PICK x1 : x1 = y - 1
      OBVIOUS
    <3>2. x1 \in 0..(k - 1) /\ y = x1 + 1
      BY <1>4, <3>1
    <3> QED BY <2>1, <3>2
  <2> QED BY <1>3, <1>4, <1>15, <1>20, <2>2, PrefixIs
<1> QED BY <1>23, <1>24, <1>25

-----------------------------------------------------------------------------
Begun ==
  /\ phase \in {"load", "join", "sort", "lcp"} => candidates = <<>>
  /\ phase \in {"load", "join", "sort", "lcp", "walk"} => kept = <<>>
  /\ phase \in {"load", "join", "sort", "lcp", "walk", "prefix"} => buckets = <<>>

Begins(w, list) == \E x \in DOMAIN list : IsPrefix(w, list[x].tokens) /\ list[x].sids = StreamsOf(w)
AllBegin == \A w \in Repeats : Begins(w, candidates)
Chosen == phase \in {"prefix", "near"} => candidates \in Seq(Exacts) /\ AllBegin

FInv == Joined /\ Begun /\ Found /\ Chosen

LEMMA InitFInv == Init => FInv
  BY DEF Init, FInv, Joined, Searching, Begun, Found, Chosen

(***************************************************************************)
(* Joining the streams.                                                    *)
(***************************************************************************)
LEMMA JoinedFrame ==
  ASSUME Joined, Searching \/ phase = "join", phase' # "join", phase' \in {"lcp", "walk"} => lcp'[1] = 0,
         UNCHANGED <<concat, streamOf, streams>>,
         Searching \/ (phase = "join" /\ at > Len(streams)), Len(streams) \in Nat
  PROVE  Joined'
<1>1. n' = n
  BY DEF n
<1>2. Consists(concat, n, streamOf, streams, Len(streams))
  <2>1. CASE Searching
    BY <2>1 DEF Joined
  <2>2. CASE phase = "join" /\ at > Len(streams)
    <3>1. PICK m \in Nat : at = m + 1 /\ m <= Len(streams) /\ Consists(concat, n, streamOf, streams, m)
      BY <2>2 DEF Joined
    <3>2. m = Len(streams)
      BY <2>2, <3>1
    <3> QED BY <3>1, <3>2
  <2> QED BY <2>1, <2>2
<1>3. FrequencyFloor >= 2
  BY DEF Joined
<1> QED BY <1>1, <1>2, <1>3 DEF Joined

LEMMA LoadFInv == ASSUME IInv, SInv, FInv, LoadFile \/ LoadEnd PROVE FInv'
<1>1. phase = "load" /\ phase' \in {"load", "join", "done"}
  BY DEF LoadFile, LoadEnd
<1>2. UNCHANGED <<concat, streamOf, candidates, kept, buckets>>
  BY DEF LoadFile, LoadEnd, text, found
<1>3. Begun'
  BY <1>1, <1>2 DEF FInv, Begun
<1>4. Joined'
  <2> SUFFICES ASSUME phase' = "join"
               PROVE  /\ \E m \in Nat : at' = m + 1 /\ m <= Len(streams')
                            /\ Consists(concat', n', streamOf', streams', m)
                      /\ FrequencyFloor >= 2
    BY <1>1 DEF Joined, Searching
  <2>1. at' = 1 /\ ~(FrequencyFloor < 2) /\ streams' = streams
    BY <1>1 DEF LoadFile, LoadEnd, loaded
  <2>2. concat' = <<>>
    BY <1>1, <1>2 DEF SInv, Kinds
  <2>3. n' = 0
    BY <2>2 DEF n
  <2>4. Consists(concat', n', streamOf', streams', 0)
    BY <2>3 DEF Consists
  <2>5. Len(streams) \in Nat /\ FrequencyFloor \in Nat
    BY MinerAssumption DEF IInv, Data
  <2> QED BY <2>1, <2>4, <2>5
<1> QED BY <1>1, <1>3, <1>4 DEF FInv, Found, Chosen

LEMMA JoinGrows ==
  ASSUME IInv, SInv, Join, NEW d, d = streams[at]
  PROVE  Grown(concat', n', streamOf', concat, n, streamOf, d, at)
<1>1. at \in Nat \ {0} /\ at <= Len(streams) /\ streams \in Seq(Seq(Nat))
  BY DEF IInv, Data, Join
<1>2. d \in Seq(Nat) /\ d \in Seq(Int)
  <2>1. d \in Seq(Nat)
    BY <1>1
  <2> QED BY <2>1
<1>3. PICK l, z, s, g : l = Len(d) /\ z = -at /\ s = Append(d, z) /\ g = [k \in 1..(l + 1) |-> at]
  OBVIOUS
<1>4. z \in Int /\ l \in Nat /\ s \in Seq(Int) /\ Len(s) = l + 1 /\ s[l + 1] = z
      /\ \A x \in 1..l : s[x] = d[x]
  <2>1. z \in Int /\ l \in Nat
    BY <1>1, <1>2, <1>3
  <2> QED BY <1>2, <1>3, <2>1, OneMore
<1>5. concat' = concat \o s /\ streamOf' = streamOf \o g
  <2>1. WithSentinel(at) = s
    BY <1>3 DEF WithSentinel
  <2>2. DOMAIN s = 1..(l + 1)
    BY <1>4
  <2> QED BY <1>3, <2>1, <2>2 DEF Join
<1>6. concat \in Seq(Int) /\ streamOf \in Seq(Nat) /\ Len(streamOf) = n /\ n = Len(concat) /\ n \in Nat
  BY TextIs DEF IInv, Data, SInv, Kinds, n
<1>7. g \in Seq(Nat) /\ Len(g) = l + 1 /\ \A x \in 1..(l + 1) : g[x] = at
  BY <1>1, <1>3, <1>4
<1>8. concat' \in Seq(Int) /\ Follows(concat', concat, s)
  BY <1>4, <1>5, <1>6, FollowsThere
<1>9. streamOf' \in Seq(Nat) /\ Follows(streamOf', streamOf, g)
  BY <1>5, <1>6, <1>7, FollowsThere
<1>10. n' = n + (l + 1) /\ Len(concat') = n + (l + 1) /\ Len(streamOf') = n + (l + 1)
  BY <1>4, <1>6, <1>7, <1>8, <1>9 DEF Follows, n
<1>11. \A p \in 1..n : concat'[p] = concat[p] /\ streamOf'[p] = streamOf[p]
  BY <1>6, <1>8, <1>9 DEF Follows
<1>12. ASSUME NEW p \in 1..n', p > n
       PROVE  streamOf'[p] = at /\ concat'[p] = IF p - n <= l THEN d[p - n] ELSE -at
  <2>1. PICK x : x = p - n
    OBVIOUS
  <2>2. x \in 1..(l + 1)
    BY <1>4, <1>6, <1>10, <1>12, <2>1
  <2>3. concat'[p] = s[x] /\ streamOf'[p] = g[x]
    BY <1>6, <1>8, <1>9, <1>10, <1>12, <2>1 DEF Follows
  <2>4. CASE x <= l
    <3>1. x \in 1..l
      BY <2>2, <2>4
    <3> QED BY <1>4, <1>7, <2>1, <2>2, <2>3, <2>4, <3>1
  <2>5. CASE ~(x <= l)
    <3>1. x = l + 1
      BY <1>4, <2>2, <2>5
    <3> QED BY <1>3, <1>4, <1>7, <2>1, <2>2, <2>3, <2>5, <3>1
  <2> QED BY <2>4, <2>5
<1> QED BY <1>3, <1>10, <1>11, <1>12 DEF Grown

LEMMA JoinFInv == ASSUME IInv, SInv, FInv, Join PROVE FInv'
<1>1. phase = "join" /\ phase' = "join" /\ UNCHANGED <<streams, candidates, kept, buckets>>
      /\ at' = at + 1 /\ at <= Len(streams)
  BY DEF Join, loaded, found
<1>2. PICK m \in Nat : at = m + 1 /\ m <= Len(streams) /\ Consists(concat, n, streamOf, streams, m)
  BY <1>1 DEF FInv, Joined
<1>3. /\ n \in Nat /\ concat \in [1..n -> Int] /\ streams \in Seq(Seq(Nat)) /\ at \in Nat
      /\ Ended(concat, n, at)
  BY <1>1, TextIs DEF IInv, Data, SInv, Joining
<1>4. PICK d, N2, c2, so2, a : /\ d = streams[at] /\ N2 = n' /\ c2 = concat' /\ so2 = streamOf' /\ a = at
  OBVIOUS
<1>5. Grown(c2, N2, so2, concat, n, streamOf, streams[a], a)
  BY <1>4, JoinGrows
<1>6. a \in 1..Len(streams) /\ m = a - 1
  BY <1>1, <1>2, <1>3, <1>4
<1>7. Consists(c2, N2, so2, streams, a)
  BY <1>2, <1>3, <1>4, <1>5, <1>6, ContainsMore
<1>8. at' = a + 1 /\ a <= Len(streams') /\ Consists(concat', n', streamOf', streams', a) /\ a \in Nat
  BY <1>1, <1>3, <1>4, <1>7
<1>9. Joined'
  BY <1>1, <1>8 DEF FInv, Joined, Searching
<1>10. Begun'
  BY <1>1 DEF FInv, Begun
<1> QED BY <1>1, <1>9, <1>10 DEF FInv, Found, Chosen

LEMMA JoinEndFInv == ASSUME IInv, SInv, FInv, JoinEnd PROVE FInv'
<1>1. /\ phase = "join" /\ phase' \in {"sort", "done"} /\ at > Len(streams)
      /\ UNCHANGED <<concat, streamOf, streams, candidates, kept, buckets>>
  BY DEF JoinEnd, loaded, found, text
<1>2. Len(streams) \in Nat
  BY DEF IInv, Data
<1>3. Joined'
  BY <1>1, <1>2, JoinedFrame DEF FInv
<1>4. Begun'
  BY <1>1 DEF FInv, Begun
<1> QED BY <1>1, <1>3, <1>4 DEF FInv, Found, Chosen

(***************************************************************************)
(* Sorting, scanning and walking.                                          *)
(***************************************************************************)
LEMMA RoundFInv == ASSUME IInv, SInv, FInv, Round PROVE FInv'
<1>1. /\ phase = "sort" /\ phase' \in {"sort", "lcp"}
      /\ UNCHANGED <<concat, streamOf, streams, candidates, kept, buckets>>
  BY DEF Round, ToLcp, loaded, found, text
<1>2. Len(streams) \in Nat /\ Searching
  BY <1>1 DEF IInv, Data, Searching
<1>3. phase' = "lcp" => lcp'[1] = 0
  <2>1. n \in Nat \ {0}
    BY <1>1 DEF SInv, Ordering, Text
  <2>2. phase' = "lcp" => lcp' = [p \in 1..n |-> 0]
    BY <1>1 DEF Round, ToLcp
  <2> QED BY <2>1, <2>2
<1>4. Joined'
  BY <1>1, <1>2, <1>3, JoinedFrame DEF FInv
<1>5. Begun'
  BY <1>1 DEF FInv, Begun
<1> QED BY <1>1, <1>4, <1>5 DEF FInv, Found, Chosen

LEMMA KasaiFInv ==
  ASSUME IInv, SInv, FInv, KasaiExtend \/ KasaiStore \/ KasaiFirst PROVE FInv'
<1>1. /\ phase = "lcp" /\ phase' = "lcp"
      /\ UNCHANGED <<concat, streamOf, streams, candidates, kept, buckets>>
  BY DEF KasaiExtend, KasaiStore, KasaiFirst, loaded, found, text
<1>2. Len(streams) \in Nat /\ Searching /\ lcp[1] = 0 /\ lcp \in [1..n -> Nat]
  BY <1>1 DEF IInv, Data, Searching, FInv, Joined
<1>3. lcp'[1] = 0
  <2>1. CASE KasaiStore
    <3>1. lcp' = [lcp EXCEPT ![rank[at]] = h] /\ rank[at] # 1
      BY <2>1 DEF KasaiStore
    <3> QED BY <1>2, <3>1
  <2>2. CASE KasaiExtend \/ KasaiFirst
    BY <1>2, <2>2 DEF KasaiExtend, KasaiFirst
  <2> QED BY <2>1, <2>2
<1>4. Joined'
  BY <1>1, <1>2, <1>3, JoinedFrame DEF FInv
<1>5. Begun'
  BY <1>1 DEF FInv, Begun
<1> QED BY <1>1, <1>4, <1>5 DEF FInv, Found, Chosen

LEMMA KasaiEndFInv == ASSUME IInv, SInv, FInv, KasaiEnd PROVE FInv'
<1>1. /\ phase = "lcp" /\ phase' = "walk" /\ at' = 2 /\ stack' = <<<<0, 1>>>> /\ left' = 2
      /\ UNCHANGED <<concat, streamOf, streams, candidates, kept, buckets, lcp, sa>>
  BY DEF KasaiEnd, loaded, found, text
<1>2. Len(streams) \in Nat /\ Searching /\ lcp[1] = 0 /\ n \in Nat \ {0} /\ n' = n
  BY <1>1 DEF IInv, Data, Searching, FInv, Joined, SInv, Ordering, Text, n
<1>3. Joined'
  BY <1>1, <1>2, JoinedFrame DEF FInv
<1>4. Begun'
  BY <1>1 DEF FInv, Begun
<1>5. candidates' \in Seq(Exacts')
  <2>1. candidates' = <<>>
    BY <1>1 DEF FInv, Begun
  <2> QED BY <2>1
<1>6. Completed'
  <2> SUFFICES ASSUME NEW a \in Nat \ {0}, NEW b \in Nat \ {0}, NEW m \in Nat \ {0},
                      Tight(lcp', n', a, b, m), b + 1 <= 2
               PROVE  FALSE
    BY <1>1 DEF Completed
  <2>1. a < b
    BY DEF Tight, Block
  <2> QED BY <2>1
<1>7. Len(stack') = 1 /\ Height(stack') = 0
  BY <1>1 DEF Height
<1>8. ASSUME NEW b \in Nat, at' = b + 1
      PROVE  Ends(stack', lcp', n', left') /\ Heights(stack', lcp', b)
  <2>1. b = 1
    BY <1>1, <1>8
  <2>2. Heights(stack', lcp', b)
    BY <2>1 DEF Heights
  <2>3. \A q \in 1..n' : left' = q + 1 => lcp'[q] <= Height(stack')
    <3> SUFFICES ASSUME NEW q \in 1..n', left' = q + 1 PROVE lcp[q] <= 0
      BY <1>1, <1>7
    <3>1. q = 1
      BY <1>1, <1>2
    <3> QED BY <1>2, <3>1
  <2>4. \A d, e \in 1..Len(stack') : e # d + 1
    BY <1>7
  <2> QED BY <2>2, <2>3, <2>4 DEF Ends
<1>9. at' <= n' + 2
  BY <1>1, <1>2
<1>10. Found'
  BY <1>5, <1>6, <1>8, <1>9 DEF Found
<1> QED BY <1>1, <1>3, <1>4, <1>10 DEF FInv, Chosen

LEMMA WalkFInv == ASSUME IInv, SInv, FInv, Pop \/ Advance PROVE FInv'
<1>1. /\ phase = "walk" /\ phase' = "walk"
      /\ UNCHANGED <<concat, streamOf, streams, kept, buckets, lcp>>
  BY DEF Pop, Advance, loaded, found, text
<1>2. Len(streams) \in Nat /\ Searching /\ lcp[1] = 0
  BY <1>1 DEF IInv, Data, Searching, FInv, Joined
<1>3. Joined'
  BY <1>1, <1>2, JoinedFrame DEF FInv
<1>4. Begun'
  BY <1>1 DEF FInv, Begun
<1>5. Found'
  BY PopFound, AdvanceFound DEF FInv
<1> QED BY <1>1, <1>3, <1>4, <1>5 DEF FInv, Chosen

LEMMA WalkEndFInv == ASSUME IInv, SInv, FInv, WalkEnd PROVE FInv'
<1>1. /\ phase = "walk" /\ phase' = "prefix" /\ at > n + 1
      /\ candidates' = StableSort(candidates, Longer)
      /\ UNCHANGED <<concat, streamOf, streams, kept, buckets>>
  BY DEF WalkEnd, loaded, text
<1>2. Len(streams) \in Nat /\ Searching
  BY <1>1 DEF IInv, Data, Searching
<1>3. Joined'
  BY <1>1, <1>2, JoinedFrame DEF FInv
<1>4. Begun'
  BY <1>1 DEF FInv, Begun
<1>5. PICK N : N = Len(candidates)
  OBVIOUS
<1>6. candidates \in Seq(Exacts) /\ N \in Nat /\ DOMAIN candidates = 1..N
  <2>1. candidates \in Seq(Exacts)
    BY <1>1 DEF FInv, Found
  <2> QED BY <1>5, <2>1
<1>7. \A i \in 1..N : candidates[i] \in Exacts
  BY <1>6
<1>8. Measurable(candidates, N)
  <2>1. \A x \in Exacts : Len(x.tokens) \in Nat /\ x.frequency \in Nat
    BY DEF Exacts
  <2> QED BY <1>6, <1>7, <2>1 DEF Measurable
<1>9. Reorders(candidates', candidates, N)
  BY <1>1, <1>6, <1>8, LongerSorts
<1>10. candidates' \in Seq(Exacts)
  <2>1. candidates' = [p \in 1..N |-> candidates'[p]]
    BY <1>1, <1>6, <1>9 DEF StableSort, Reorders
  <2>2. \A p \in 1..N : candidates'[p] \in Exacts
    BY <1>7, <1>9 DEF Reorders
  <2>3. candidates' \in [1..N -> Exacts]
    BY <2>1, <2>2
  <2> QED BY <1>6, <2>3
<1>11. Exacts' = Exacts
  BY <1>1, SameExacts
<1>12. AllBegin'
  <2>1. Repeats' = Repeats
    BY <1>1 DEF Repeats, Frequent, StreamsOf
  <2> SUFFICES ASSUME NEW w \in Repeats
               PROVE  \E x \in DOMAIN candidates' :
                        IsPrefix(w, candidates'[x].tokens) /\ candidates'[x].sids = StreamsOf(w)
    BY <1>1, <2>1 DEF AllBegin, Begins, StreamsOf
  <2>2. PICK x \in DOMAIN candidates :
          IsPrefix(w, candidates[x].tokens) /\ candidates[x].sids = StreamsOf(w)
    BY <1>1, WalkCovers DEF FInv
  <2>3. PICK y \in 1..N : candidates'[y] = candidates[x]
    BY <1>6, <1>9 DEF Reorders
  <2>4. DOMAIN candidates' = 1..N
    BY <1>9 DEF Reorders
  <2> QED BY <2>2, <2>3, <2>4
<1> QED BY <1>1, <1>3, <1>4, <1>10, <1>11, <1>12 DEF FInv, Found, Chosen

LEMMA RestFInv ==
  ASSUME IInv, SInv, FInv, PrefixDedup \/ PrefixEnd \/ Bucketed \/ Finish PROVE FInv'
<1>1. /\ phase \in {"prefix", "near"} /\ phase' \in {"prefix", "near", "done"}
      /\ (phase' = "prefix" => phase = "prefix" /\ buckets' = buckets)
      /\ UNCHANGED <<concat, streamOf, streams, candidates>>
  BY DEF PrefixDedup, PrefixEnd, Bucketed, Finish, loaded, text, found
<1>2. Len(streams) \in Nat /\ Searching
  BY <1>1 DEF IInv, Data, Searching
<1>3. Joined'
  BY <1>1, <1>2, JoinedFrame DEF FInv
<1>4. Begun'
  BY <1>1 DEF FInv, Begun
<1>5. Exacts' = Exacts /\ (AllBegin' <=> AllBegin)
  BY <1>1, SameExacts DEF AllBegin, Begins, Repeats, Frequent, StreamsOf
<1>6. Chosen'
  BY <1>1, <1>5 DEF FInv, Chosen
<1> QED BY <1>1, <1>3, <1>4, <1>6 DEF FInv, Found

LEMMA StutterFInv == ASSUME IInv, SInv, FInv, UNCHANGED vars PROVE FInv'
<1>1. /\ n' = n /\ UNCHANGED <<files, phase, streams, concat, streamOf, sa, lcp, at, stack, left>>
      /\ UNCHANGED <<candidates, kept, buckets>>
  BY DEF vars, loaded, text, walk, found, n
<1>2. Joined' /\ Begun'
  BY <1>1 DEF FInv, Joined, Begun, Searching
<1>3. Exacts' = Exacts /\ (AllBegin' <=> AllBegin)
  BY <1>1, SameExacts DEF AllBegin, Begins, Repeats, Frequent, StreamsOf
<1>4. Completed' <=> Completed
  BY <1>1 DEF Completed, Covered, TokensAt, StreamsIn, Top
<1>5. Found'
  BY <1>1, <1>3, <1>4 DEF FInv, Found
<1>6. Chosen'
  BY <1>1, <1>3 DEF FInv, Chosen
<1> QED BY <1>2, <1>5, <1>6 DEF FInv

LEMMA NextFInv == IInv /\ SInv /\ FInv /\ [Next]_vars => FInv'
  BY LoadFInv, JoinFInv, JoinEndFInv, RoundFInv, KasaiFInv, KasaiEndFInv, WalkFInv,
     WalkEndFInv, RestFInv, StutterFInv DEF Next

(***************************************************************************)
(* The candidates are exact: each lists just the streams it occurs in, and *)
(* whatever occurs often enough begins a candidate with just its streams.  *)
(***************************************************************************)
THEOREM ExactCandidates == Spec => []CandidatesExact
<1>1. IInv /\ SInv /\ FInv => CandidatesExact
  <2> SUFFICES ASSUME FInv, phase = "prefix"
               PROVE  /\ \A c \in DOMAIN candidates :
                           /\ Frequent(candidates[c].tokens)
                           /\ candidates[c].sids = StreamsOf(candidates[c].tokens)
                      /\ \A w \in Repeats : \E c \in DOMAIN candidates :
                           IsPrefix(w, candidates[c].tokens) /\ candidates[c].sids = StreamsOf(w)
    BY DEF CandidatesExact
  <2>1. candidates \in Seq(Exacts) /\ AllBegin
    BY DEF FInv, Chosen
  <2>2. \A c \in DOMAIN candidates : candidates[c] \in Exacts
    BY <2>1
  <2> QED BY <2>1, <2>2 DEF AllBegin, Begins, Exacts, Exactly
<1> QED BY <1>1, InitInv, InitSInv, InitFInv, NextInv, NextSInv, NextFInv, PTL DEF Spec

-----------------------------------------------------------------------------
(***************************************************************************)
(* A text with w in every stream of T has room for l tokens of each.       *)
(***************************************************************************)
LEMMA RoomFor ==
  ASSUME NEW c, NEW N \in Nat, NEW so, NEW strs \in Seq(Seq(Nat)), Consists(c, N, so, strs, Len(strs)),
         NEW w \in Seq(Nat), NEW T, T = SidsWith(w, strs), NEW l \in Nat, l <= Len(w)
  PROVE  IsFiniteSet(T) /\ Cardinality(T) \in Nat /\ Cardinality(T) * l <= N
<1>1. IsFiniteSet(T) /\ Cardinality(T) \in Nat /\ T \subseteq 1..Len(strs)
  <2>1. T \subseteq 1..Len(strs) /\ Len(strs) \in Nat
    BY DEF SidsWith
  <2>2. IsFiniteSet(1..Len(strs))
    BY <2>1, FS_Interval
  <2> QED BY <2>1, <2>2, FS_Subset, FS_CardinalityType
<1> DEFINE at0 == [sid \in T |-> CHOOSE p \in 1..N : so[p] = sid /\ OccursAt(c, N, w, p)]
           X == 0..(l - 1)
           f == [y \in T \X X |-> at0[y[1]] + y[2]]
<1>2. ASSUME NEW sid \in T PROVE at0[sid] \in 1..N /\ so[at0[sid]] = sid /\ OccursAt(c, N, w, at0[sid])
  <2>1. sid \in 1..Len(strs) /\ OccursIn(w, strs[sid])
    BY DEF SidsWith
  <2>2. \E p \in 1..N : so[p] = sid /\ OccursAt(c, N, w, p)
    BY <2>1, InTheText
  <2> QED BY <2>2
<1> HIDE DEF at0
<1>3. ASSUME NEW sid \in T, NEW x \in X, NEW p, p = at0[sid] + x PROVE p \in 1..N /\ so[p] = sid
  <2>1. PICK b, s : b = at0[sid] /\ s = strs[sid]
    OBVIOUS
  <2>2. b \in 1..N /\ so[b] = sid /\ OccursAt(c, N, w, b)
    BY <1>2, <2>1
  <2>3. PICK q \in Nat : Holds(c, N, so, b, s, sid, q) /\ Len(w) <= (Len(s) + 1) - q
    BY <2>1, <2>2, HeldThere
  <2>4. s \in Seq(Nat)
    BY <1>1, <2>1
  <2>5. x \in 0..(Len(s) + 1 - q) /\ x \in Nat
    <3>1. PICK i, j : i = Len(s) /\ j = Len(w)
      OBVIOUS
    <3>2. i \in Nat /\ j \in Nat /\ l <= j /\ j <= (i + 1) - q
      BY <2>3, <2>4, <3>1
    <3> QED BY <3>1, <3>2
  <2>6. b + x <= N /\ so[b + x] = sid
    BY <2>3, <2>5 DEF Holds
  <2> QED BY SMTT(40), <1>3, <2>1, <2>2, <2>5, <2>6
<1>4. f \in [T \X X -> 1..N]
  <2> SUFFICES ASSUME NEW y \in T \X X PROVE at0[y[1]] + y[2] \in 1..N
    OBVIOUS
  <2>1. PICK p : p = at0[y[1]] + y[2]
    OBVIOUS
  <2>2. PICK a, i : a = y[1] /\ i = y[2]
    OBVIOUS
  <2>3. a \in T /\ i \in X /\ p = at0[a] + i
    BY <2>1, <2>2
  <2>4. p \in 1..N
    BY <1>3, <2>3
  <2> QED BY <2>1, <2>4
<1>5. ASSUME NEW y \in T \X X, NEW z \in T \X X, f[y] = f[z] PROVE y = z
  <2>1. PICK p, q : p = at0[y[1]] + y[2] /\ q = at0[z[1]] + z[2]
    OBVIOUS
  <2>2. y[1] \in T /\ z[1] \in T /\ y[2] \in X /\ z[2] \in X /\ p = q
    BY <1>5, <2>1
  <2>6. y = <<y[1], y[2]>> /\ z = <<z[1], z[2]>>
    OBVIOUS
  <2>3. so[p] = y[1] /\ so[q] = z[1]
    <3>1. PICK a, b, i, j : a = y[1] /\ b = z[1] /\ i = y[2] /\ j = z[2]
      OBVIOUS
    <3>2. a \in T /\ b \in T /\ i \in X /\ j \in X /\ p = at0[a] + i /\ q = at0[b] + j
      BY <2>1, <2>2, <3>1
    <3>3. so[p] = a /\ so[q] = b
      BY <1>3, <3>2
    <3> QED BY <3>1, <3>3
  <2>4. y[1] = z[1] /\ at0[y[1]] \in Nat
    BY <1>2, <2>2, <2>3
  <2>5. y[2] = z[2]
    <3>1. PICK a : a = at0[y[1]]
      OBVIOUS
    <3>2. a + y[2] = a + z[2] /\ a \in Nat /\ y[2] \in Nat /\ z[2] \in Nat
      BY <2>1, <2>2, <2>4, <3>1
    <3> QED BY <3>2
  <2> QED BY <2>4, <2>5, <2>6, Zenon
<1>6. f \in Injection(T \X X, 1..N)
  <2> HIDE DEF f
  <2> QED BY <1>4, <1>5 DEF Injection, IsInjective
<1>7. IsFiniteSet(1..N) /\ Cardinality(1..N) = N /\ IsFiniteSet(X) /\ Cardinality(X) = l
  <2>1. IsFiniteSet(1..N) /\ Cardinality(1..N) = N
    BY FS_Interval
  <2>2. IsFiniteSet(X) /\ Cardinality(X) = l
    <3>1. PICK a, b \in Int : a = 0 /\ b = l - 1
      OBVIOUS
    <3>2. IsFiniteSet(a..b) /\ Cardinality(a..b) = IF a > b THEN 0 ELSE b - a + 1
      BY FS_Interval
    <3> QED BY <3>1, <3>2
  <2> QED BY <2>1, <2>2
<1>8. Cardinality(T \X X) <= N
  <2> HIDE DEF f, X
  <2> QED BY <1>6, <1>7, FS_Injection
<1>9. Cardinality(T \X X) = Cardinality(T) * l
  <2> HIDE DEF X
  <2> QED BY <1>1, <1>7, FS_Product
<1> QED BY <1>1, <1>8, <1>9

LEMMA MoreOf == ASSUME NEW a \in Nat, NEW b \in Nat, a <= b, NEW l \in Nat PROVE l * a <= b * l
  OBVIOUS

(***************************************************************************)
(* The test for small texts loses nothing.                                 *)
(***************************************************************************)
LEMMA NothingLost ==
  ASSUME IInv, Consists(concat, n, streamOf, streams, Len(streams)), TooSmall
  PROVE  Repeats = {}
<1> SUFFICES ASSUME NEW w \in Repeats PROVE FALSE
  OBVIOUS
<1>1. streams \in Seq(Seq(Nat)) /\ n \in Nat
  BY TextIs DEF IInv, Data
<1>2. w \in Seq(Nat) /\ Frequent(w)
  BY RepeatTokens
<1>6. PICK T : T = SidsWith(w, streams)
  OBVIOUS
<1>7. T = StreamsOf(w)
  <2>1. DOMAIN streams = 1..Len(streams)
    BY <1>1
  <2> QED BY <1>6, <2>1 DEF SidsWith, StreamsOf
<1>8. LengthFloor \in Nat /\ FrequencyFloor \in Nat /\ LengthFloor <= Len(w) /\ FrequencyFloor <= Cardinality(T)
  <2>1. Len(w) >= LengthFloor /\ Cardinality(T) >= FrequencyFloor
    BY <1>2, <1>7 DEF Frequent
  <2>2. Len(w) \in Nat /\ Cardinality(T) \in Nat
    BY <1>2, <1>7, FiniteStreams
  <2> QED BY <2>1, <2>2, MinerAssumption
<1>9. Cardinality(T) \in Nat /\ Cardinality(T) * LengthFloor <= n
  BY <1>1, <1>2, <1>6, <1>8, RoomFor
<1>10. PICK b : b = Cardinality(T)
  OBVIOUS
<1>11. LengthFloor * FrequencyFloor <= b * LengthFloor
  BY <1>8, <1>9, <1>10, MoreOf
<1>12. n < LengthFloor * FrequencyFloor
  BY DEF TooSmall
<1>13. b * LengthFloor \in Nat /\ LengthFloor * FrequencyFloor \in Nat
  BY <1>8, <1>9, <1>10
<1> QED BY <1>1, <1>9, <1>10, <1>11, <1>12, <1>13

-----------------------------------------------------------------------------
(***************************************************************************)
(* Every stream is a file and has its label, and every file that was read  *)
(* and has a prompt is a stream; every candidate begins a span that is     *)
(* kept; every kept span is in a bucket.                                   *)
(***************************************************************************)
Labels == {Label[f] : f \in Nat}
IsFile(sid, f) == streams[sid] = files[f] /\ origin[sid] = Label[f]
FromFiles ==
  /\ origin \in Seq(Labels) /\ Len(origin) = Len(streams)
  /\ \A sid \in 1..Len(streams) : \E f \in DOMAIN files : IsFile(sid, f)

HasStream(f) == files[f] # <<>> => \E sid \in 1..Len(streams) : IsFile(sid, f)
Origins ==
  /\ FromFiles
  /\ phase = "load" => \A f \in DOMAIN files : f < at => HasStream(f)
  /\ phase # "load" => \A f \in DOMAIN files : HasStream(f)

Survives(x, list) == \E k \in DOMAIN list : IsPrefix(x.tokens, list[k].tokens)
Keeping ==
  /\ phase \in {"prefix", "near"} => kept \in Seq(Exacts)
  /\ phase = "prefix" => \A c \in DOMAIN candidates : c < at => Survives(candidates[c], kept)
  /\ phase = "near" => \A c \in DOMAIN candidates : Survives(candidates[c], kept)

Filed(k, list) == \E b \in DOMAIN list : k \in ToSet(list[b])
Buckets(K) == {s \in Seq(Nat) : s # <<>> /\ ToSet(s) \subseteq K}
Filing ==
  phase = "near" =>
    buckets \in Seq(Buckets(DOMAIN kept)) /\ \A k \in DOMAIN kept : k < at => Filed(k, buckets)

GInv == Origins /\ Keeping /\ Filing /\ EveryRepeatCovered

LEMMA InitGInv == Init => GInv
<1> SUFFICES ASSUME Init PROVE GInv OBVIOUS
<1>1. phase = "load" /\ at = 1 /\ streams = <<>> /\ origin = <<>> /\ files \in Seq(Seq(Nat))
  BY MinerAssumption DEF Init
<1>2. Origins
  <2>1. \A f \in DOMAIN files : ~(f < 1)
    BY <1>1
  <2>2. FromFiles
    BY <1>1 DEF FromFiles
  <2> QED BY <1>1, <2>1, <2>2 DEF Origins
<1> QED BY <1>1, <1>2 DEF GInv, Keeping, Filing, EveryRepeatCovered

LEMMA OriginsFrame ==
  ASSUME Origins, UNCHANGED loaded,
         (phase # "load" /\ phase' # "load") \/ UNCHANGED <<phase, at>>
  PROVE  Origins'
<1>1. UNCHANGED <<files, streams, origin>>
  BY DEF loaded
<1>2. /\ FromFiles' <=> FromFiles
      /\ \A f : HasStream(f)' <=> HasStream(f)
  BY <1>1 DEF FromFiles, HasStream, IsFile
<1> QED BY <1>1, <1>2 DEF Origins

LEMMA LoadGInv == ASSUME IInv, GInv, LoadFile PROVE GInv'
<1>1. /\ phase = "load" /\ phase' = "load" /\ at <= Len(files) /\ files' = files
      /\ at' = at + 1
  BY DEF LoadFile
<1>2. /\ streams \in Seq(Seq(Nat)) /\ files \in Seq(Seq(Nat)) /\ at \in Nat
      /\ at \in 1..Len(files) /\ DOMAIN files = 1..Len(files)
      /\ FromFiles /\ \A f \in DOMAIN files : f < at => HasStream(f)
  BY <1>1 DEF IInv, Data, GInv, Origins
<1>3. Origins'
  <2>1. CASE files[at] = <<>> /\ UNCHANGED <<streams, origin>>
    <3>1. FromFiles' /\ \A f : HasStream(f) => HasStream(f)'
      BY <1>1, <1>2, <2>1 DEF FromFiles, HasStream, IsFile
    <3>2. ASSUME NEW f \in DOMAIN files, f < at + 1 PROVE HasStream(f)'
      <4>1. CASE f = at
        BY <1>1, <2>1, <4>1 DEF HasStream
      <4>2. CASE f # at
        BY <1>2, <3>1, <3>2, <4>2
      <4> QED BY <4>1, <4>2
    <3> QED BY <1>1, <3>1, <3>2 DEF Origins
  <2>2. CASE streams' = Append(streams, files[at]) /\ origin' = Append(origin, Label[at])
    <3>1. PICK f, m, l : f = files[at] /\ m = Len(streams) /\ l = Label[at]
      OBVIOUS
    <3>2. f \in Seq(Nat) /\ m \in Nat /\ l \in Labels /\ origin \in Seq(Labels) /\ Len(origin) = m
      BY <1>2, <3>1 DEF Labels, FromFiles
    <3>3. Len(streams') = m + 1 /\ streams'[m + 1] = f /\ \A sid \in 1..m : streams'[sid] = streams[sid]
      BY <1>2, <2>2, <3>1, <3>2, OneMore
    <3>4. origin' \in Seq(Labels) /\ Len(origin') = m + 1 /\ origin'[m + 1] = l
          /\ \A sid \in 1..m : origin'[sid] = origin[sid]
      BY <2>2, <3>1, <3>2, OneMore
    <3>5. \A g : \A sid \in 1..m : IsFile(sid, g) => IsFile(sid, g)'
      BY <1>1, <3>3, <3>4 DEF IsFile
    <3>6. PICK place, last : place \in DOMAIN files /\ place = at /\ last = m + 1
      BY <1>2
    <3>7. IsFile(last, place)'
      <4>1. streams'[last] = files[place] /\ origin'[last] = Label[place]
        BY <3>1, <3>3, <3>4, <3>6
      <4> QED BY <1>1, <4>1 DEF IsFile
    <3>8. FromFiles'
      <4>1. ASSUME NEW sid \in 1..(m + 1) PROVE \E g \in DOMAIN files : IsFile(sid, g)'
        <5>1. CASE sid = m + 1
          BY <3>7, <3>6, <5>1
        <5>2. CASE sid # m + 1
          <6>1. sid \in 1..m
            BY <3>2, <5>2
          <6> QED BY <1>2, <3>1, <3>5, <6>1 DEF FromFiles
        <5> QED BY <5>1, <5>2
      <4> QED BY <1>1, <3>3, <3>4, <4>1 DEF FromFiles
    <3>9. ASSUME NEW g \in DOMAIN files, g < at + 1 PROVE HasStream(g)'
      <4>1. m + 1 \in 1..(m + 1) /\ 1..m \subseteq 1..(m + 1)
        BY <3>2
      <4>2. CASE g = at
        BY <3>3, <3>7, <3>6, <4>1, <4>2 DEF HasStream
      <4>3. CASE g # at
        <5>1. HasStream(g)
          BY <1>2, <3>9, <4>3
        <5> QED BY <1>1, <3>1, <3>3, <3>5, <4>1, <5>1 DEF HasStream
      <4> QED BY <4>2, <4>3
    <3> QED BY <1>1, <3>8, <3>9 DEF Origins
  <2> QED BY <2>1, <2>2 DEF LoadFile
<1> QED BY <1>1, <1>3 DEF GInv, Keeping, Filing, EveryRepeatCovered

LEMMA LoadEndGInv == ASSUME IInv, GInv, LoadEnd PROVE GInv'
<1>1. phase' \in {"done", "join"} /\ (phase' = "done" => streams' = <<>> \/ FrequencyFloor < 2)
      /\ UNCHANGED loaded
  BY DEF LoadEnd, loaded
<1>2. Origins'
  <2>1. phase = "load" /\ at > Len(files) /\ at \in Nat /\ files \in Seq(Seq(Nat))
    BY DEF LoadEnd, IInv, Data
  <2>2. \A f \in DOMAIN files : f < at
    BY <2>1
  <2>3. FromFiles /\ \A f \in DOMAIN files : HasStream(f)
    BY <2>1, <2>2 DEF GInv, Origins
  <2>4. UNCHANGED <<files, streams, origin>>
    BY <1>1 DEF loaded
  <2>5. FromFiles' /\ \A f \in DOMAIN files' : HasStream(f)'
    BY <2>3, <2>4 DEF FromFiles, HasStream, IsFile
  <2> QED BY <1>1, <2>5 DEF Origins
<1>3. EveryRepeatCovered'
  <2> SUFFICES ASSUME phase' = "done", FrequencyFloor >= 2 PROVE Repeats' = {}
    BY DEF EveryRepeatCovered
  <2>1. streams' = <<>>
    BY <1>1, MinerAssumption
  <2>2. DOMAIN streams' = {}
    BY <2>1
  <2> QED BY <2>2 DEF Repeats
<1> QED BY <1>1, <1>2, <1>3 DEF GInv, Keeping, Filing

LEMMA JoinEndGInv == ASSUME IInv, FInv, GInv, JoinEnd PROVE GInv'
<1>1. /\ phase = "join" /\ at > Len(streams) /\ phase' \in {"done", "sort"} /\ (phase' = "done" => TooSmall)
      /\ UNCHANGED <<files, streams, origin>>
  BY DEF JoinEnd, loaded
<1>2. Origins'
  BY <1>1, OriginsFrame DEF GInv, loaded
<1>3. EveryRepeatCovered'
  <2> SUFFICES ASSUME phase' = "done", FrequencyFloor >= 2 PROVE Repeats' = {}
    BY DEF EveryRepeatCovered
  <2>1. Repeats' = Repeats
    BY <1>1 DEF Repeats, Frequent, StreamsOf
  <2>2. PICK m \in Nat : at = m + 1 /\ m <= Len(streams) /\ Consists(concat, n, streamOf, streams, m)
    BY <1>1 DEF FInv, Joined
  <2>3. Len(streams) \in Nat
    BY DEF IInv, Data
  <2>4. m = Len(streams)
    BY <1>1, <2>2, <2>3
  <2> QED BY <1>1, <2>1, <2>2, <2>4, NothingLost
<1> QED BY <1>1, <1>2, <1>3 DEF GInv, Keeping, Filing

LEMMA MiddleGInv ==
  ASSUME IInv, FInv, GInv,
         Join \/ Round \/ KasaiExtend \/ KasaiStore \/ KasaiFirst \/ KasaiEnd \/ Pop \/ Advance
  PROVE  GInv'
<1>1. phase # "load" /\ phase' \in {"join", "sort", "lcp", "walk"} /\ UNCHANGED loaded
  BY DEF Join, Round, ToLcp, KasaiExtend, KasaiStore, KasaiFirst, KasaiEnd, Pop, Advance
<1>2. Origins'
  BY <1>1, OriginsFrame DEF GInv
<1> QED BY <1>1, <1>2 DEF GInv, Keeping, Filing, EveryRepeatCovered

LEMMA WalkEndGInv == ASSUME IInv, FInv, GInv, FInv', WalkEnd PROVE GInv'
<1>1. phase = "walk" /\ phase' = "prefix" /\ at' = 1 /\ kept' = kept /\ UNCHANGED <<loaded, streams>>
  BY DEF WalkEnd, loaded
<1>2. Origins'
  BY <1>1, OriginsFrame DEF GInv
<1>3. kept' = <<>> /\ kept' \in Seq(Exacts')
  BY <1>1 DEF FInv, Begun
<1>4. Keeping'
  <2>1. candidates' \in Seq(Exacts')
    BY <1>1 DEF FInv, Chosen
  <2>2. \A c \in DOMAIN candidates' : ~(c < 1)
    BY <2>1
  <2> QED BY <1>1, <1>3, <2>2 DEF Keeping
<1> QED BY <1>1, <1>2, <1>4 DEF GInv, Filing, EveryRepeatCovered

(***************************************************************************)
(* Prefix dedup.                                                           *)
(***************************************************************************)
LEMMA PrefixSelf == ASSUME NEW S, NEW w \in Seq(S) PROVE IsPrefix(w, w)
<1>1. Len(w) \in Nat /\ Len(w) <= Len(w)
  OBVIOUS
<1> QED BY <1>1, PrefixIs

LEMMA SurvivesMore ==
  ASSUME NEW S, NEW list \in Seq(S), NEW e \in S, NEW more, more = Append(list, e)
  PROVE  /\ more \in Seq(S)
         /\ \A x : Survives(x, list) => Survives(x, more)
         /\ \E k \in DOMAIN more : more[k] = e
<1>1. PICK m : m = Len(list)
  OBVIOUS
<1>2. m \in Nat /\ Len(more) = m + 1 /\ more[m + 1] = e /\ \A k \in 1..m : more[k] = list[k]
  BY <1>1, OneMore
<1>3. more \in Seq(S)
  OBVIOUS
<1>4. DOMAIN list = 1..m /\ DOMAIN more = 1..(m + 1) /\ 1..m \subseteq 1..(m + 1) /\ m + 1 \in 1..(m + 1)
  BY <1>1, <1>2, <1>3
<1>5. ASSUME NEW x, Survives(x, list) PROVE Survives(x, more)
  <2>1. PICK k \in DOMAIN list : IsPrefix(x.tokens, list[k].tokens)
    BY <1>5 DEF Survives
  <2>2. k \in DOMAIN more /\ more[k] = list[k]
    BY <1>2, <1>4, <2>1
  <2> QED BY <2>1, <2>2 DEF Survives
<1> QED BY <1>2, <1>3, <1>4, <1>5

LEMMA PrefixDedupGInv == ASSUME IInv, FInv, GInv, FInv', PrefixDedup PROVE GInv'
<1>1. /\ phase = "prefix" /\ phase' = "prefix" /\ at <= Len(candidates) /\ at' = at + 1
      /\ candidates' = candidates /\ UNCHANGED <<loaded, streams>>
  BY DEF PrefixDedup, loaded
<1>2. Origins'
  BY <1>1, OriginsFrame DEF GInv
<1>3. at \in Nat \ {0}
  BY DEF IInv, Data
<1>4. candidates \in Seq(Exacts) /\ kept \in Seq(Exacts) /\ Exacts' = Exacts
      /\ \A c \in DOMAIN candidates : c < at => Survives(candidates[c], kept)
  BY <1>1, SameExacts DEF FInv, Chosen, GInv, Keeping
<1>5. PICK x : x = candidates[at]
  OBVIOUS
<1>6. x \in Exacts /\ x.tokens \in Seq(Nat)
  <2>1. at \in 1..Len(candidates)
    BY <1>1, <1>3, <1>4
  <2>2. x \in Exacts
    BY <1>4, <1>5, <2>1
  <2> QED BY <2>2 DEF Exacts
<1>7. kept' \in Seq(Exacts) /\ Survives(x, kept') /\ \A y : Survives(y, kept) => Survives(y, kept')
  <2>1. CASE PrefixOfKept(x)
    <3>1. kept' = kept
      BY <1>5, <2>1 DEF PrefixDedup
    <3>2. PICK k \in DOMAIN kept : IsStrictPrefix(x.tokens, kept[k].tokens)
      BY <2>1 DEF PrefixOfKept
    <3>3. IsPrefix(x.tokens, kept[k].tokens)
      BY <3>2 DEF IsStrictPrefix
    <3> QED BY <1>4, <3>1, <3>2, <3>3 DEF Survives
  <2>2. CASE ~PrefixOfKept(x)
    <3>1. PICK more : more = Append(kept, x)
      OBVIOUS
    <3>2. kept' = more
      BY <1>5, <2>2, <3>1 DEF PrefixDedup
    <3>3. /\ more \in Seq(Exacts) /\ \A y : Survives(y, kept) => Survives(y, more)
          /\ \E k \in DOMAIN more : more[k] = x
      BY ZenonT(60), <1>4, <1>6, <3>1, SurvivesMore
    <3>4. IsPrefix(x.tokens, x.tokens)
      BY <1>6, PrefixSelf
    <3> QED BY <3>2, <3>3, <3>4 DEF Survives
  <2> QED BY <2>1, <2>2
<1>8. Keeping'
  <2> SUFFICES ASSUME NEW c \in DOMAIN candidates, c < at + 1 PROVE Survives(candidates[c], kept')
    BY <1>1, <1>4, <1>7 DEF Keeping
  <2>1. c \in Nat
    BY <1>4
  <2>2. c = at \/ c < at
    BY <1>3, <2>1
  <2> QED BY <1>4, <1>5, <1>7, <2>2
<1> QED BY <1>1, <1>2, <1>8 DEF GInv, Filing, EveryRepeatCovered

LEMMA PrefixEndGInv == ASSUME IInv, FInv, GInv, PrefixEnd PROVE GInv'
<1>1. /\ phase = "prefix" /\ phase' = "near" /\ at > Len(candidates) /\ at' = 1
      /\ UNCHANGED <<candidates, kept, buckets, streams>> /\ UNCHANGED loaded
  BY DEF PrefixEnd, loaded, found
<1>2. Origins'
  BY <1>1, OriginsFrame DEF GInv
<1>3. at \in Nat \ {0} /\ buckets = <<>>
  BY <1>1 DEF IInv, Data, FInv, Begun
<1>4. candidates \in Seq(Exacts) /\ kept \in Seq(Exacts) /\ Exacts' = Exacts
      /\ \A c \in DOMAIN candidates : c < at => Survives(candidates[c], kept)
  BY <1>1, SameExacts DEF FInv, Chosen, GInv, Keeping
<1>5. \A c \in DOMAIN candidates : c < at
  BY <1>1, <1>3, <1>4
<1>6. Keeping'
  BY <1>1, <1>4, <1>5 DEF Keeping
<1>7. Filing'
  <2>1. \A k \in DOMAIN kept : ~(k < 1)
    BY <1>4
  <2>2. buckets \in Seq(Buckets(DOMAIN kept))
    BY <1>3
  <2> QED BY <1>1, <2>1, <2>2 DEF Filing
<1> QED BY <1>1, <1>2, <1>6, <1>7 DEF GInv, EveryRepeatCovered

(***************************************************************************)
(* Buckets.                                                                *)
(***************************************************************************)
LEMMA FirstIn == ASSUME NEW T \in SUBSET Nat, T # {} PROVE FirstOf(T) \in T
<1>1. \E b \in T : \A c \in T : b <= c
  BY Least
<1> QED BY <1>1 DEF FirstOf

LEMMA NewBucket ==
  ASSUME NEW K, NEW list \in Seq(Buckets(K)), NEW p \in K, p \in Nat,
         NEW more, more = Append(list, <<p>>)
  PROVE  /\ more \in Seq(Buckets(K)) /\ Filed(p, more)
         /\ \A k : Filed(k, list) => Filed(k, more)
<1>1. PICK m, e : m = Len(list) /\ e = <<p>>
  OBVIOUS
<1>2. e \in Buckets(K) /\ p \in ToSet(e)
  BY <1>1 DEF Buckets, ToSet
<1>3. m \in Nat /\ Len(more) = m + 1 /\ more[m + 1] = e /\ \A k \in 1..m : more[k] = list[k]
  BY <1>1, <1>2, OneMore
<1>4. more \in Seq(Buckets(K))
  BY <1>1, <1>2
<1>5. DOMAIN list = 1..m /\ DOMAIN more = 1..(m + 1) /\ 1..m \subseteq 1..(m + 1) /\ m + 1 \in 1..(m + 1)
  BY <1>1, <1>3, <1>4
<1>6. ASSUME NEW k, Filed(k, list) PROVE Filed(k, more)
  <2>1. PICK b \in DOMAIN list : k \in ToSet(list[b])
    BY <1>6 DEF Filed
  <2>2. b \in DOMAIN more /\ more[b] = list[b]
    BY <1>3, <1>5, <2>1
  <2> QED BY <2>1, <2>2 DEF Filed
<1>7. Filed(p, more)
  BY <1>2, <1>3, <1>5 DEF Filed
<1> QED BY <1>4, <1>6, <1>7

LEMMA FullerBucket ==
  ASSUME NEW K, NEW list \in Seq(Buckets(K)), NEW p \in K, p \in Nat, NEW f \in DOMAIN list,
         NEW e, e = Append(list[f], p), NEW more, more = [list EXCEPT ![f] = e]
  PROVE  /\ more \in Seq(Buckets(K)) /\ Filed(p, more)
         /\ \A k : Filed(k, list) => Filed(k, more)
<1>1. PICK s : s = list[f] /\ e = Append(s, p)
  OBVIOUS
<1>2. s \in Buckets(K)
  BY <1>1
<1>3. PICK m : m = Len(s)
  OBVIOUS
<1>4. s \in Seq(Nat) /\ ToSet(s) \subseteq K
  BY <1>2 DEF Buckets
<1>5. m \in Nat /\ Len(e) = m + 1 /\ e[m + 1] = p /\ \A k \in 1..m : e[k] = s[k]
  BY <1>1, <1>3, <1>4, OneMore
<1>6. e \in Seq(Nat) /\ DOMAIN e = 1..(m + 1) /\ DOMAIN s = 1..m
  BY <1>1, <1>3, <1>4, <1>5
<1>7. p \in ToSet(e) /\ ToSet(s) \subseteq ToSet(e) /\ ToSet(e) \subseteq ToSet(s) \cup {p}
  <2>1. \A i \in 1..(m + 1) : i = m + 1 \/ i \in 1..m
    BY <1>5
  <2>2. 1..m \subseteq 1..(m + 1) /\ m + 1 \in 1..(m + 1)
    BY <1>5
  <2> QED BY <1>5, <1>6, <2>1, <2>2 DEF ToSet
<1>8. e # <<>>
  BY <1>5, <1>6
<1>9. e \in Buckets(K)
  BY <1>4, <1>6, <1>7, <1>8 DEF Buckets
<1>10. more = [list EXCEPT ![f] = e]
  BY <1>1
<1>11. more \in Seq(Buckets(K)) /\ DOMAIN more = DOMAIN list
  <2>1. PICK N \in Nat : list \in [1..N -> Buckets(K)]
    <3>1. Len(list) \in Nat /\ list \in [1..Len(list) -> Buckets(K)]
      OBVIOUS
    <3> QED BY <3>1
  <2>2. more \in [1..N -> Buckets(K)]
    BY <1>9, <1>10, <2>1
  <2> QED BY <2>1, <2>2
<1>12. more[f] = e /\ \A b \in DOMAIN list : b # f => more[b] = list[b]
  BY <1>10
<1>13. ASSUME NEW k, Filed(k, list) PROVE Filed(k, more)
  <2>1. PICK b \in DOMAIN list : k \in ToSet(list[b])
    BY <1>13 DEF Filed
  <2> QED BY <1>1, <1>7, <1>11, <1>12, <2>1 DEF Filed
<1>14. Filed(p, more)
  BY <1>7, <1>11, <1>12 DEF Filed
<1> QED BY <1>11, <1>13, <1>14

LEMMA BucketedGInv == ASSUME IInv, FInv, GInv, Bucketed PROVE GInv'
<1>1. /\ phase = "near" /\ phase' = "near" /\ at <= Len(kept) /\ at' = at + 1
      /\ UNCHANGED <<candidates, kept, streams>> /\ UNCHANGED loaded
  BY DEF Bucketed, loaded
<1>2. Origins'
  BY <1>1, OriginsFrame DEF GInv
<1>3. at \in Nat \ {0} /\ kept \in Seq(Exacts) /\ Exacts' = Exacts
      /\ buckets \in Seq(Buckets(DOMAIN kept)) /\ \A k \in DOMAIN kept : k < at => Filed(k, buckets)
  BY <1>1, SameExacts DEF IInv, Data, GInv, Keeping, Filing
<1>4. Keeping'
  BY <1>1, <1>3 DEF GInv, Keeping
<1>5. at \in DOMAIN kept /\ at \in Nat
  BY <1>1, <1>3
<1>6. /\ buckets' \in Seq(Buckets(DOMAIN kept)) /\ Filed(at, buckets')
      /\ \A k : Filed(k, buckets) => Filed(k, buckets')
  <2>1. CASE buckets' = Append(buckets, <<at>>)
    BY <1>3, <1>5, <2>1, NewBucket
  <2>2. CASE \E T \in SUBSET DOMAIN buckets :
               T # {} /\ buckets' = [buckets EXCEPT ![FirstOf(T)] = Append(@, at)]
    <3>1. PICK T \in SUBSET DOMAIN buckets :
                 T # {} /\ buckets' = [buckets EXCEPT ![FirstOf(T)] = Append(@, at)]
      BY <2>2
    <3>2. T \in SUBSET Nat
      BY <1>3, <3>1
    <3>3. PICK f : f = FirstOf(T)
      OBVIOUS
    <3>4. f \in DOMAIN buckets
      BY <3>1, <3>2, <3>3, FirstIn
    <3>5. PICK e, more : e = Append(buckets[f], at) /\ more = [buckets EXCEPT ![f] = e]
      OBVIOUS
    <3>6. more \in Seq(Buckets(DOMAIN kept)) /\ Filed(at, more) /\ \A k : Filed(k, buckets) => Filed(k, more)
      BY <1>3, <1>5, <3>4, <3>5, FullerBucket
    <3>7. buckets' = more
      BY <3>1, <3>3, <3>5
    <3> QED BY <3>6, <3>7
  <2>3. \/ buckets' = Append(buckets, <<at>>)
        \/ \E T \in SUBSET DOMAIN buckets :
             T # {} /\ buckets' = [buckets EXCEPT ![FirstOf(T)] = Append(@, at)]
    BY DEF Bucketed
  <2> QED BY <2>1, <2>2, <2>3
<1>7. Filing'
  <2> SUFFICES ASSUME NEW k \in DOMAIN kept, k < at + 1 PROVE Filed(k, buckets')
    BY <1>1, <1>6 DEF Filing
  <2>1. k \in Nat
    BY <1>3
  <2>2. k = at \/ k < at
    BY <1>3, <2>1
  <2> QED BY <1>3, <1>6, <2>2
<1> QED BY <1>1, <1>2, <1>4, <1>7 DEF GInv, EveryRepeatCovered

(***************************************************************************)
(* The lines of the output.                                                *)
(***************************************************************************)
LEMMA PrefixAt ==
  ASSUME NEW S, NEW w \in Seq(S), NEW t \in Seq(S), IsPrefix(w, t)
  PROVE  Len(w) <= Len(t) /\ \A y \in 1..Len(w) : w[y] = t[y]
<1>1. PICK k, u, v : k = Len(w) /\ u = SubSeq(w, 1, k) /\ v = SubSeq(t, 1, k)
  OBVIOUS
<1>2. k \in Nat /\ k <= Len(w) /\ k <= Len(t) /\ u = v
  BY <1>1 DEF IsPrefix
<1>3. \A y \in 1..k : u[y] = w[y] /\ v[y] = t[y]
  BY <1>1, <1>2, Beginning
<1> QED BY <1>1, <1>2, <1>3

LEMMA PrefixOfPrefix ==
  ASSUME NEW S, NEW v \in Seq(S), NEW w \in Seq(S), NEW t \in Seq(S), IsPrefix(v, w), IsPrefix(w, t)
  PROVE  IsPrefix(v, t)
<1>1. PICK i, j, k : i = Len(v) /\ j = Len(w) /\ k = Len(t)
  OBVIOUS
<1>2. i \in Nat /\ j \in Nat /\ k \in Nat /\ i <= j /\ j <= k
  BY <1>1, PrefixAt
<1>3. \A y \in 1..i : y \in 1..j
  BY <1>2
<1>4. \A y \in 1..i : v[y] = t[y]
  BY <1>1, <1>3, PrefixAt
<1> QED BY <1>1, <1>2, <1>4, PrefixIs

LEMMA MergedIs ==
  ASSUME IInv, kept \in Seq(Exacts), NEW b \in DOMAIN buckets, buckets[b] \in Buckets(DOMAIN kept)
  PROVE  /\ Len(Merged(b).tokens) \in Nat /\ Merged(b).frequency \in Nat
         /\ Merged(b).tokens = Repr(b)
         /\ Merged(b).sids \subseteq DOMAIN streams
         /\ \A k \in ToSet(buckets[b]) : kept[k].sids \subseteq Merged(b).sids
<1>1. PICK s, T : s = buckets[b] /\ T = UNION {kept[m].sids : m \in ToSet(s)}
  OBVIOUS
<1>2. s \in Seq(Nat) /\ s # <<>> /\ ToSet(s) \subseteq DOMAIN kept
  BY <1>1 DEF Buckets
<1>3. 1 \in DOMAIN s /\ s[1] \in ToSet(s)
  <2>1. Len(s) \in Nat /\ Len(s) # 0 /\ DOMAIN s = 1..Len(s)
    BY <1>2
  <2>2. 1 \in DOMAIN s
    BY <2>1
  <2> QED BY <2>2 DEF ToSet
<1>4. \A k \in DOMAIN kept : kept[k] \in Exacts
  OBVIOUS
<1>5. \A k \in DOMAIN kept : kept[k].tokens \in Seq(Nat) /\ kept[k].sids \subseteq DOMAIN streams
  BY <1>4 DEF Exacts, Exactly, StreamsOf
<1>6. T \subseteq DOMAIN streams /\ \A k \in ToSet(s) : kept[k].sids \subseteq T
  BY <1>1, <1>2, <1>5
<1>7. Cardinality(T) \in Nat
  <2>1. DOMAIN streams = 1..Len(streams) /\ Len(streams) \in Nat
    BY DEF IInv, Data
  <2>2. IsFiniteSet(1..Len(streams))
    BY <2>1, FS_Interval
  <2> QED BY <1>6, <2>1, <2>2, FS_Subset, FS_CardinalityType
<1>8. PICK x : x = Merged(b)
  OBVIOUS
<1>9. x.tokens = Repr(b) /\ x.sids = T /\ x.frequency = Cardinality(T)
  BY <1>1, <1>8 DEF Merged, Span
<1>10. Repr(b) \in Seq(Nat)
  BY <1>1, <1>2, <1>3, <1>5 DEF Repr
<1>11. Len(x.tokens) \in Nat
  BY <1>9, <1>10
<1> QED BY <1>1, <1>6, <1>7, <1>8, <1>9, <1>11

LEMMA LinesIs ==
  ASSUME IInv, FInv, GInv, Finish, NEW b \in DOMAIN buckets
  PROVE  \E i \in DOMAIN result' : result'[i] = Line(Merged(b))
<1>1. phase = "near"
  BY DEF Finish
<1>2. kept \in Seq(Exacts) /\ buckets \in Seq(Buckets(DOMAIN kept))
  BY <1>1 DEF GInv, Keeping, Filing
<1>3. PICK N : N = Len(buckets)
  OBVIOUS
<1>4. N \in Nat /\ DOMAIN buckets = 1..N /\ \A d \in 1..N : buckets[d] \in Buckets(DOMAIN kept)
  BY <1>2, <1>3
<1>5. PICK s, spans : s = [d \in DOMAIN buckets |-> Merged(d)] /\ spans = StableSort(s, Impact)
  OBVIOUS
<1>6. Measurable(s, N)
  <2>1. \A d \in 1..N : s[d] = Merged(d)
    BY <1>4, <1>5
  <2>2. \A d \in 1..N : Len(Merged(d).tokens) \in Nat /\ Merged(d).frequency \in Nat
    BY <1>2, <1>4, MergedIs
  <2>3. DOMAIN s = 1..N
    BY <1>4, <1>5
  <2> QED BY <2>1, <2>2, <2>3 DEF Measurable
<1>7. Reorders(spans, s, N)
  BY <1>4, <1>5, <1>6, ImpactSorts
<1>8. PICK i \in 1..N : spans[i] = Merged(b)
  <2>1. \E i \in 1..N : spans[i] = s[b]
    BY <1>4, <1>7 DEF Reorders
  <2>2. s[b] = Merged(b)
    BY <1>5
  <2> QED BY <2>1, <2>2
<1>9. result' = [j \in DOMAIN spans |-> Line(spans[j])]
  BY <1>5 DEF Finish
<1>10. DOMAIN spans = 1..N
  BY <1>7 DEF Reorders
<1> QED BY <1>8, <1>9, <1>10

LEMMA Sources ==
  ASSUME IInv, Origins, phase # "load", kept \in Seq(Exacts), NEW b \in DOMAIN buckets,
         buckets[b] \in Buckets(DOMAIN kept)
  PROVE  Line(Merged(b)).sources = {Label[f] : f \in Holders(b)}
<1>1. PICK s : s = buckets[b] /\ ToSet(s) \subseteq DOMAIN kept
  BY DEF Buckets
<1>2. Line(Merged(b)).sources = {origin[sid] : sid \in UNION {kept[m].sids : m \in ToSet(s)}}
  BY <1>1 DEF Line, Merged, Span
<1>3. ASSUME NEW m \in ToSet(s)
      PROVE  kept[m].sids = StreamsOf(kept[m].tokens) /\ ~OccursIn(kept[m].tokens, <<>>)
  <2>1. kept[m] \in Exacts
    BY <1>1
  <2>2. PICK t : t = kept[m].tokens
    OBVIOUS
  <2>3. t \in Seq(Nat) /\ Len(t) >= LengthFloor
    BY <2>1, <2>2 DEF Exacts, Exactly, Frequent
  <2>4. Len(t) \in Nat /\ Len(t) >= 1 /\ Len(<<>>) = 0
    BY <2>3, MinerAssumption
  <2>5. 1..(Len(<<>>) - Len(t) + 1) = {}
    BY <2>4
  <2>6. ~OccursIn(t, <<>>)
    BY <2>5 DEF OccursIn
  <2> QED BY <2>1, <2>2, <2>6 DEF Exacts, Exactly
<1>4. DOMAIN streams = 1..Len(streams)
  BY DEF IInv, Data
<1>5. ASSUME NEW m \in ToSet(s), NEW sid \in kept[m].sids
      PROVE  origin[sid] \in {Label[f] : f \in Holders(b)}
  <2>1. sid \in 1..Len(streams) /\ OccursIn(kept[m].tokens, streams[sid])
    BY <1>3, <1>4 DEF StreamsOf
  <2>2. PICK f \in DOMAIN files : streams[sid] = files[f] /\ origin[sid] = Label[f]
    BY <2>1 DEF Origins, FromFiles, IsFile
  <2>3. f \in Holders(b)
    BY <1>1, <2>1, <2>2 DEF Holders
  <2> QED BY <2>2, <2>3
<1>6. ASSUME NEW f \in Holders(b)
      PROVE  \E m \in ToSet(s) : \E sid \in kept[m].sids : origin[sid] = Label[f]
  <2>1. PICK m \in ToSet(s) : f \in DOMAIN files /\ OccursIn(kept[m].tokens, files[f])
    BY <1>1 DEF Holders
  <2>2. files[f] # <<>>
    BY <1>3, <2>1
  <2>3. PICK sid \in 1..Len(streams) : streams[sid] = files[f] /\ origin[sid] = Label[f]
    BY <2>1, <2>2 DEF Origins, HasStream, IsFile
  <2>4. sid \in kept[m].sids
    BY <1>3, <1>4, <2>1, <2>3 DEF StreamsOf
  <2> QED BY <2>3, <2>4
<1> QED BY <1>2, <1>5, <1>6

LEMMA FinishGInv == ASSUME IInv, FInv, GInv, Finish PROVE GInv'
<1>1. /\ phase = "near" /\ phase' = "done" /\ at > Len(kept)
      /\ UNCHANGED <<candidates, kept, buckets, streams, files, origin>> /\ UNCHANGED loaded
  BY DEF Finish, loaded
<1>2. Origins /\ Origins'
  BY <1>1, OriginsFrame DEF GInv
<1>3. /\ at \in Nat \ {0} /\ kept \in Seq(Exacts) /\ candidates \in Seq(Exacts) /\ AllBegin
      /\ \A c \in DOMAIN candidates : Survives(candidates[c], kept)
      /\ buckets \in Seq(Buckets(DOMAIN kept)) /\ \A k \in DOMAIN kept : k < at => Filed(k, buckets)
      /\ streams \in Seq(Seq(Nat))
  BY <1>1 DEF IInv, Data, FInv, Chosen, GInv, Keeping, Filing
<1>4. \A k \in DOMAIN kept : Filed(k, buckets)
  <2>1. \A k \in DOMAIN kept : k < at
    BY <1>1, <1>3
  <2> QED BY <1>3, <2>1
<1>5. /\ \A k \in DOMAIN kept : kept[k] \in Exacts
      /\ \A c \in DOMAIN candidates : candidates[c] \in Exacts
      /\ \A b \in DOMAIN buckets : buckets[b] \in Buckets(DOMAIN kept)
      /\ DOMAIN streams = 1..Len(streams)
  BY <1>3
<1>6. ASSUME NEW w \in Repeats
      PROVE  \E k \in DOMAIN kept, b \in DOMAIN buckets, i \in DOMAIN result' :
               /\ IsPrefix(w, kept[k].tokens) /\ k \in ToSet(buckets[b])
               /\ result'[i].tokens = Repr(b)
               /\ kept[k].sids \subseteq result'[i].sids
               /\ result'[i].sources = {Label[f] : f \in Holders(b)}
  <2>1. PICK c \in DOMAIN candidates : IsPrefix(w, candidates[c].tokens)
    BY <1>3 DEF AllBegin, Begins
  <2>2. PICK k \in DOMAIN kept : IsPrefix(candidates[c].tokens, kept[k].tokens)
    BY <1>3 DEF Survives
  <2>3. PICK b \in DOMAIN buckets : k \in ToSet(buckets[b])
    BY <1>4 DEF Filed
  <2>4. PICK i \in DOMAIN result' : result'[i] = Line(Merged(b))
    BY LinesIs
  <2>5. IsPrefix(w, kept[k].tokens)
    <3>1. PICK u, v : u = candidates[c].tokens /\ v = kept[k].tokens
      OBVIOUS
    <3>2. u \in Seq(Nat) /\ v \in Seq(Nat)
      BY <1>5, <3>1 DEF Exacts
    <3>3. w \in Seq(Nat)
      BY RepeatTokens
    <3> QED BY <2>1, <2>2, <3>1, <3>2, <3>3, PrefixOfPrefix
  <2>6. /\ Merged(b).tokens = Repr(b) /\ Merged(b).sids \subseteq DOMAIN streams
        /\ kept[k].sids \subseteq Merged(b).sids
    BY <1>3, <1>5, <2>3, MergedIs
  <2>7. PICK x, y : x = Merged(b) /\ y = Line(x)
    OBVIOUS
  <2>8. y.tokens = Repr(b) /\ kept[k].sids \subseteq y.sids
    BY <2>6, <2>7 DEF Line
  <2>9. y.sources = {Label[f] : f \in Holders(b)}
    BY <1>1, <1>2, <1>3, <1>5, <2>7, Sources
  <2>10. y = result'[i]
    BY <2>4, <2>7
  <2> QED BY <2>3, <2>5, <2>8, <2>9, <2>10
<1>7. EveryRepeatCovered'
  <2>1. Repeats' = Repeats
    BY <1>1 DEF Repeats, Frequent, StreamsOf
  <2>2. \A t : StreamsOf(t)' = StreamsOf(t)
    BY <1>1 DEF StreamsOf
  <2>3. \A b : Repr(b)' = Repr(b) /\ Holders(b)' = Holders(b)
    BY <1>1 DEF Repr, Holders
  <2> QED BY <1>1, <1>6, <2>1, <2>2, <2>3 DEF EveryRepeatCovered
<1> QED BY <1>1, <1>2, <1>7 DEF GInv, Keeping, Filing

LEMMA StutterGInv == ASSUME GInv, UNCHANGED vars PROVE GInv'
<1>1. /\ UNCHANGED <<files, phase, streams, origin, at>>
      /\ UNCHANGED <<candidates, kept, buckets, result>> /\ UNCHANGED loaded
  BY DEF vars, loaded, found
<1>2. Exacts' = Exacts
  BY <1>1, SameExacts
<1>3. Origins' /\ Keeping' /\ Filing'
  <2>1. Origins'
    BY <1>1, OriginsFrame DEF GInv
  <2>2. Keeping'
    BY <1>1, <1>2 DEF GInv, Keeping
  <2>3. Filing'
    BY <1>1 DEF GInv, Filing
  <2> QED BY <2>1, <2>2, <2>3
<1>4. Repeats' = Repeats
  BY <1>1 DEF Repeats, Frequent, StreamsOf
<1>5. \A b : Repr(b)' = Repr(b) /\ Holders(b)' = Holders(b)
  BY <1>1 DEF Repr, Holders
<1>6. EveryRepeatCovered'
  BY <1>1, <1>4, <1>5 DEF GInv, EveryRepeatCovered
<1> QED BY <1>3, <1>6 DEF GInv

LEMMA NextGInv == IInv /\ SInv /\ FInv /\ GInv /\ FInv' /\ [Next]_vars => GInv'
  BY LoadGInv, LoadEndGInv, JoinEndGInv, MiddleGInv, WalkEndGInv, PrefixDedupGInv, PrefixEndGInv,
     BucketedGInv, FinishGInv, StutterGInv DEF Next

(***************************************************************************)
(* Nothing that repeats is lost on the way to the output file: not to the  *)
(* test for small corpora, not to a sort, not to prefix dedup and not to a *)
(* merge, whichever comparisons of signatures exceed the threshold.        *)
(***************************************************************************)
THEOREM NothingIsLost == Spec => []EveryRepeatCovered
<1>1. GInv => EveryRepeatCovered
  BY DEF GInv
<1> QED BY <1>1, InitInv, InitSInv, InitFInv, InitGInv, NextInv, NextSInv, NextFInv, NextGInv, PTL DEF Spec
=============================================================================
