----------------------------- MODULE TieredTreeProofs ---------------------------
(***************************************************************************)
(* Proofs about TieredTree: its type invariant; that the order in which    *)
(* searches and compactions visit the copies of a key is the order of      *)
(* their age; what a get answers; what a step may never do to the copies   *)
(* of a key; and that the levels count the compactions.  For every set of  *)
(* keys, buffer size, level ratio and page size.                           *)
(***************************************************************************)
EXTENDS TieredTree, FiniteSetTheorems, WellFoundedInduction, TLAPS
-----------------------------------------------------------------------------
(* Numbers, orders and lists of levels; the proofs about LazyTree,           *)
(* LeveledLevels, Persistence and TreeSearch cite these as well               *)

\* Every non-empty set of natural numbers has a least element.
LEMMA LeastNat ==
  ASSUME NEW S, S \subseteq Nat, S # {}
  PROVE  \E m \in S : \A n \in S : m <= n
<1> DEFINE R == OpToRel(<, Nat)
<1>1. IsWellFoundedOn(R, Nat)
  BY NatLessThanWellFounded
<1> HIDE DEF R
<1>2. PICK m \in S : \A n \in S : <<n, m>> \notin R
  BY <1>1, WFMin
<1>3. \A n \in S : n < m => <<n, m>> \in R
  BY DEF R, OpToRel
<1>4. \A n \in S : ~ (n < m)
  BY <1>2, <1>3
<1>5. \A n \in S : m \in Nat /\ n \in Nat
  OBVIOUS
<1>6. QED
  BY <1>4, <1>5

\* A bounded one has a greatest.
LEMMA GreatestNat ==
  ASSUME NEW S, S \subseteq Nat, S # {}, NEW b \in Nat, \A n \in S : n <= b
  PROVE  \E m \in S : \A n \in S : n <= m
<1> DEFINE D == {b - n : n \in S}
<1>1. D \subseteq Nat /\ D # {}
  <2>1. \A n \in S : n \in Nat /\ b - n \in Nat
    OBVIOUS
  <2>2. QED
    BY <2>1
<1>2. PICK d \in D : \A e \in D : d <= e
  BY <1>1, LeastNat
<1>3. PICK m \in S : d = b - m
  OBVIOUS
<1>4. \A n \in S : b - m <= b - n
  BY <1>2, <1>3
<1>5. QED
  BY <1>4

\* Induction, over a set of numbers.
LEMMA Induct ==
  ASSUME NEW S, 0 \in S, \A n \in Nat : n \in S => n + 1 \in S
  PROVE  Nat \subseteq S
<1> DEFINE rest == {n \in Nat : n \notin S}
<1>1. SUFFICES ASSUME rest # {} PROVE FALSE
  OBVIOUS
<1>2. PICK m \in rest : \A n \in rest : m <= n
  BY <1>1, LeastNat
<1>3. m # 0 /\ m - 1 \in Nat
  OBVIOUS
<1>4. m - 1 \in S
  BY <1>2, <1>3
<1>5. m - 1 + 1 = m
  BY <1>3
<1>6. QED
  BY <1>3, <1>4, <1>5

\* f is a for 0, and what h makes of f for n, for n + 1.
Recurs(f, V, a, h) == /\ f \in [Nat -> V] /\ f[0] = a
                      /\ \A n \in Nat : f[n + 1] = h[n][f[n]]

\* Such a function exists.
LEMMA Recursion ==
  ASSUME NEW V, NEW a \in V, NEW h \in [Nat -> [V -> V]]
  PROVE  \E f : Recurs(f, V, a, h)
<1> DEFINE upTo(f, n) == /\ f \in [0..n -> V] /\ f[0] = a
                         /\ \A i \in 0..n : i < n => f[i + 1] = h[i][f[i]]
           some == {n \in Nat : \E f : upTo(f, n)}
           same == {n \in Nat : \A m \in Nat : \A f, g : n <= m /\ upTo(f, n) /\ upTo(g, m) => f[n] = g[n]}
<1>1. 0 \in some
  <2>1. upTo([i \in 0..0 |-> a], 0)
    OBVIOUS
  <2>2. QED
    BY <2>1
<1>2. ASSUME NEW n \in Nat, n \in some PROVE n + 1 \in some
  <2>1. PICK f : upTo(f, n)
    BY <1>2
  <2> DEFINE g == [i \in 0..n + 1 |-> IF i = n + 1 THEN h[n][f[n]] ELSE f[i]]
  <2>2. g \in [0..n + 1 -> V] /\ g[0] = a
    BY <2>1
  <2>3. \A i \in 0..n + 1 : i < n + 1 => g[i + 1] = h[i][g[i]]
    <3>1. ASSUME NEW i \in 0..n + 1, i < n + 1 PROVE g[i + 1] = h[i][g[i]]
      <4>1. g[i] = f[i] /\ i \in 0..n /\ i + 1 \in 0..n + 1
        BY <3>1
      <4>2. CASE i = n
        BY <4>1, <4>2
      <4>3. CASE i < n
        <5>1. g[i + 1] = f[i + 1]
          BY <4>1, <4>3
        <5>2. QED
          BY <2>1, <4>1, <4>3, <5>1
      <4>4. QED
        BY <4>1, <4>2, <4>3
    <3>2. QED
      BY <3>1
  <2> HIDE DEF g
  <2>4. QED
    BY <2>2, <2>3
<1>3. Nat \subseteq some
  <2> HIDE DEF some
  <2>1. QED
    BY <1>1, <1>2, Induct
<1>4. 0 \in same
  OBVIOUS
<1>5. ASSUME NEW n \in Nat, n \in same PROVE n + 1 \in same
  <2>1. SUFFICES ASSUME NEW m \in Nat, NEW f, NEW g, n + 1 <= m, upTo(f, n + 1), upTo(g, m)
                 PROVE  f[n + 1] = g[n + 1]
    BY SMTT(40)
  <2> DEFINE e == [i \in 0..n |-> f[i]]
  <2>2. upTo(e, n)
    <3>1. e \in [0..n -> V] /\ e[0] = a
      BY <2>1
    <3>2. ASSUME NEW i \in 0..n, i < n PROVE e[i + 1] = h[i][e[i]]
      <4>1. e[i] = f[i] /\ e[i + 1] = f[i + 1]
        BY <3>2
      <4>2. f[i + 1] = h[i][f[i]]
        BY <2>1, <3>2
      <4>3. QED
        BY <4>1, <4>2
    <3> HIDE DEF e
    <3>3. QED
      BY <3>1, <3>2
  <2>3. e[n] = g[n]
    <3> HIDE DEF e, upTo
    <3>1. n <= m
      BY <2>1
    <3>2. QED
      BY <1>5, <2>1, <2>2, <3>1
  <2>4. f[n] = g[n]
    BY <2>3
  <2>5. f[n + 1] = h[n][f[n]] /\ g[n + 1] = h[n][g[n]]
    BY <2>1
  <2>6. QED
    BY <2>4, <2>5
<1>6. Nat \subseteq same
  <2> HIDE DEF same
  <2>1. QED
    BY <1>4, <1>5, Induct
<1> DEFINE part(n) == CHOOSE f : upTo(f, n)
           whole == [n \in Nat |-> part(n)[n]]
<1>7. \A n \in Nat : upTo(part(n), n)
  BY <1>3
<1> HIDE DEF part
<1>8. whole \in [Nat -> V] /\ whole[0] = a
  BY <1>7
<1>9. ASSUME NEW n \in Nat PROVE whole[n + 1] = h[n][whole[n]]
  <2>1. part(n + 1)[n + 1] = h[n][part(n + 1)[n]]
    BY <1>7
  <2>2. part(n)[n] = part(n + 1)[n]
    <3>1. upTo(part(n), n) /\ upTo(part(n + 1), n + 1)
      BY <1>7
    <3>2. n \in same
      BY <1>6
    <3> HIDE DEF upTo
    <3>3. QED
      BY <3>1, <3>2
  <2>3. QED
    BY <2>1, <2>2
<1> HIDE DEF whole
<1>10. QED
  BY <1>8, <1>9 DEF Recurs
-----------------------------------------------------------------------------
(* The first level that is not full *)

\* Level i takes what is pushed into n levels of which those in full are full.
Takes(i, n, full) == /\ \A j \in 1..i - 1 : j \in full
                     /\ i = n + 1 \/ i \notin full

\* There is exactly one.
LEMMA OneTakes ==
  ASSUME NEW n \in Nat, NEW full
  PROVE  /\ \E i \in 1..n + 1 : Takes(i, n, full)
         /\ \A i, j \in 1..n + 1 : Takes(i, n, full) /\ Takes(j, n, full) => i = j
<1> DEFINE S == {i \in 1..n + 1 : i = n + 1 \/ i \notin full}
<1>1. S \subseteq Nat /\ S # {}
  <2>1. n + 1 \in S
    OBVIOUS
  <2>2. S \subseteq 1..n + 1
    OBVIOUS
  <2>3. QED
    BY <2>1, <2>2
<1>2. PICK m \in S : \A i \in S : m <= i
  BY <1>1, LeastNat
<1>3. \A j \in 1..m - 1 : j \in full
  BY <1>2
<1>4. m \in 1..n + 1 /\ Takes(m, n, full)
  BY <1>2, <1>3 DEF Takes
<1>5. \A i, j \in 1..n + 1 : Takes(i, n, full) /\ Takes(j, n, full) => ~(i < j)
  BY DEF Takes
<1>6. QED
  BY <1>4, <1>5
\* What Append does to a list.
LEMMA AppendShape ==
  ASSUME NEW S, NEW s, s \in Seq(S), NEW e, e \in S
  PROVE  /\ Append(s, e) \in Seq(S)
         /\ Len(s) \in Nat /\ Len(Append(s, e)) = Len(s) + 1
         /\ \A j \in 1..Len(s) : Append(s, e)[j] = s[j]
         /\ Append(s, e)[Len(s) + 1] = e
  OBVIOUS
-----------------------------------------------------------------------------
(* Pushing x into level t of ls, and clearing the levels above it *)

PushedInto(ls, t, x) ==
  [i \in 1..(IF t > Len(ls) THEN t ELSE Len(ls)) |->
     IF i < t THEN <<>>
     ELSE IF i > t THEN ls[i]
     ELSE IF t > Len(ls) THEN <<x>>
     ELSE Append(ls[i], x)]

\* The levels above t are empty, those below are as they were, and level t has
\* x behind what it had.
IsPushed(pushed, ls, t, x) ==
  /\ Len(pushed) = IF t > Len(ls) THEN t ELSE Len(ls)
  /\ \A i \in 1..Len(pushed) :
       /\ i < t => pushed[i] = <<>>
       /\ i > t => i \in 1..Len(ls) /\ pushed[i] = ls[i]
       /\ i = t /\ t > Len(ls) => pushed[i] = <<x>>
       /\ i = t /\ ~(t > Len(ls)) => i \in 1..Len(ls) /\ pushed[i] = Append(ls[i], x)

\* The result is a list of levels again.
LEMMA PushedIntoShape ==
  ASSUME NEW S, NEW ls \in Seq(Seq(S)), NEW t \in 1..Len(ls) + 1, NEW x \in S,
         NEW pushed, pushed = PushedInto(ls, t, x)
  PROVE  pushed \in Seq(Seq(S)) /\ IsPushed(pushed, ls, t, x)
<1> DEFINE n == IF t > Len(ls) THEN t ELSE Len(ls)
<1>1. n \in Nat /\ Len(ls) \in Nat /\ t \in Nat
  OBVIOUS
<1>2. DOMAIN pushed = 1..n
  BY DEF PushedInto
<1>3. ASSUME NEW i \in 1..n
      PROVE  /\ i < t => pushed[i] = <<>>
             /\ i > t => i \in 1..Len(ls) /\ pushed[i] = ls[i]
             /\ i = t /\ t > Len(ls) => pushed[i] = <<x>>
             /\ i = t /\ ~(t > Len(ls)) => i \in 1..Len(ls) /\ pushed[i] = Append(ls[i], x)
  BY <1>1 DEF PushedInto
<1>4. \A i \in 1..Len(ls) : ls[i] \in Seq(S)
  OBVIOUS
<1>5. ASSUME NEW i \in 1..n
      PROVE  pushed[i] \in Seq(S)
  <2>1. CASE i < t
    <3>1. pushed[i] = <<>>
      BY <1>3, <2>1
    <3>2. QED
      BY <3>1
  <2>2. CASE i > t
    BY <1>3, <1>4, <2>2
  <2>3. CASE i = t /\ t > Len(ls)
    <3>1. pushed[i] = <<x>>
      BY <1>3, <2>3
    <3>2. QED
      BY <3>1
  <2>4. CASE i = t /\ ~(t > Len(ls))
    <3>1. i \in 1..Len(ls) /\ pushed[i] = Append(ls[i], x)
      BY <1>3, <2>4
    <3>2. ls[i] \in Seq(S)
      BY <1>4, <3>1
    <3>3. QED
      BY <3>1, <3>2
  <2>5. QED
    BY <1>1, <2>1, <2>2, <2>3, <2>4
<1> HIDE DEF n
<1>6. ASSUME NEW V, \A i \in 1..n : pushed[i] \in V, pushed = [i \in 1..n |-> pushed[i]]
      PROVE  pushed \in Seq(V) /\ Len(pushed) = n
  BY <1>1, <1>6
<1>7. pushed \in Seq(Seq(S)) /\ Len(pushed) = n
  <2>1. pushed = [i \in 1..n |-> pushed[i]]
    BY DEF PushedInto, n
  <2>2. QED
    BY <1>5, <1>6, <2>1
<1>8. QED
  BY <1>3, <1>7 DEF n, IsPushed

\* What is a list of levels of some runs is one of more runs.
LEMMA LevelsOfMore ==
  ASSUME NEW S, NEW R, S \subseteq R, NEW ls \in Seq(Seq(S))
  PROVE  ls \in Seq(Seq(R))
<1>1. ASSUME NEW s \in Seq(S)
      PROVE  s \in Seq(R)
  BY <1>1
<1>2. Seq(S) \subseteq Seq(R)
  BY <1>1
<1>3. QED
  BY <1>2

\* The elements of a finite set that a relation orders have as many ranks as
\* there are elements: one less than each number up to theirs is the number of
\* elements below one of them.
LEMMA Ranks ==
  ASSUME NEW S, IsFiniteSet(S), NEW R,
         \A x, y \in S : <<x, y>> \in R => <<y, x>> \notin R,
         \A x, y, z \in S : <<x, y>> \in R /\ <<y, z>> \in R => <<x, z>> \in R,
         \A x, y \in S : x # y => <<x, y>> \in R \/ <<y, x>> \in R,
         NEW rank, rank = [x \in S |-> Cardinality({y \in S : <<y, x>> \in R})]
  PROVE  /\ Cardinality(S) \in Nat
         /\ \A x \in S : rank[x] \in 0..Cardinality(S) - 1
         /\ \A x, y \in S : rank[x] < rank[y] <=> <<x, y>> \in R
         /\ \A n \in 0..Cardinality(S) - 1 : \E x \in S : rank[x] = n
<1> DEFINE below(x) == {y \in S : <<y, x>> \in R}
           c == Cardinality(S)
<1>1. c \in Nat
  BY FS_CardinalityType
<1>2. \A x \in S : IsFiniteSet(below(x)) /\ Cardinality(below(x)) \in Nat
  <2>1. ASSUME NEW x \in S PROVE IsFiniteSet(below(x))
    <3>1. below(x) \in SUBSET S
      OBVIOUS
    <3>2. QED
      BY <3>1, FS_Subset
  <2>2. QED
    BY <2>1, FS_CardinalityType
<1>3. ASSUME NEW x \in S PROVE Cardinality(below(x)) < c
  <2>1. below(x) \in SUBSET S /\ below(x) # S
    <3>1. <<x, x>> \notin R
      OBVIOUS
    <3>2. QED
      BY <3>1
  <2>2. /\ Cardinality(below(x)) <= Cardinality(S)
        /\ Cardinality(S) = Cardinality(below(x)) => S = below(x)
    BY <2>1, FS_Subset
  <2> HIDE DEF below
  <2>3. QED
    BY <1>1, <1>2, <2>1, <2>2
<1>4. ASSUME NEW x \in S, NEW y \in S, <<x, y>> \in R
      PROVE  Cardinality(below(x)) < Cardinality(below(y))
  <2>1. below(x) \in SUBSET below(y)
    BY <1>4
  <2>2. x \in below(y) /\ x \notin below(x)
    BY <1>4
  <2>3. below(x) # below(y)
    BY <2>2
  <2> HIDE DEF below
  <2>4. IsFiniteSet(below(y))
    BY <1>2
  <2>5. /\ Cardinality(below(x)) <= Cardinality(below(y))
        /\ Cardinality(below(y)) = Cardinality(below(x)) => below(y) = below(x)
    BY <2>1, <2>4, FS_Subset
  <2>6. QED
    BY <1>2, <2>3, <2>5
<1>5. \A x \in S : rank[x] = Cardinality(below(x))
  OBVIOUS
<1>6. \A x \in S : rank[x] \in 0..c - 1
  <2> HIDE DEF below
  <2>1. QED
    BY <1>1, <1>2, <1>3, <1>5
<1>7. \A x, y \in S : rank[x] < rank[y] <=> <<x, y>> \in R
  <2>1. ASSUME NEW x \in S, NEW y \in S PROVE rank[x] < rank[y] <=> <<x, y>> \in R
    <3> HIDE DEF below
    <3>1. rank[x] \in Nat /\ rank[y] \in Nat
      BY <1>2, <1>5
    <3>2. <<x, y>> \in R => rank[x] < rank[y]
      BY <1>4, <1>5
    <3>3. <<y, x>> \in R => rank[y] < rank[x]
      BY <1>4, <1>5
    <3>4. QED
      BY <3>1, <3>2, <3>3
  <2>2. QED
    BY <2>1
<1>8. rank \in Injection(S, 0..c - 1)
  <2>1. rank \in [S -> 0..c - 1]
    BY <1>6
  <2>2. \A x, y \in S : rank[x] = rank[y] => x = y
    <3>1. ASSUME NEW x \in S, NEW y \in S, rank[x] = rank[y] PROVE x = y
      <4>1. rank[x] \in 0..c - 1
        BY <1>6
      <4>2. ~(rank[x] < rank[y]) /\ ~(rank[y] < rank[x])
        BY <1>1, <3>1, <4>1
      <4>3. QED
        BY <1>7, <4>2
    <3>2. QED
      BY <3>1
  <2>3. QED
    BY <2>1, <2>2 DEF Injection, IsInjective
<1>9. IsFiniteSet(0..c - 1) /\ Cardinality(0..c - 1) = c
  <2>1. c - 1 \in Int
    BY <1>1
  <2>2. IsFiniteSet(0..c - 1) /\ Cardinality(0..c - 1) = IF 0 > c - 1 THEN 0 ELSE (c - 1) - 0 + 1
    BY <2>1, FS_Interval
  <2>3. QED
    BY <1>1, <2>2
<1>10. rank \in Surjection(S, 0..c - 1)
  BY <1>8, <1>9, FS_Injection
<1>11. \A n \in 0..c - 1 : \E x \in S : rank[x] = n
  BY <1>10 DEF Surjection
<1>12. QED
  BY <1>1, <1>6, <1>7, <1>11

\* The rank of k among the numbers of S.
Rank(S, k) == Cardinality({j \in S : j <= k})

\* Ranks number a set of keys from 1, in order.
LEMMA KeyRanks ==
  ASSUME NEW S, S \subseteq Int, IsFiniteSet(S)
  PROVE  /\ Cardinality(S) \in Nat
         /\ \A k \in S : Rank(S, k) \in 1..Cardinality(S)
         /\ \A k, m \in S : Rank(S, k) < Rank(S, m) <=> k < m
         /\ \A n \in 1..Cardinality(S) : \E k \in S : Rank(S, k) = n
<1> DEFINE R == {p \in S \X S : p[1] < p[2]}
           rank == [k \in S |-> Cardinality({j \in S : <<j, k>> \in R})]
           c == Cardinality(S)
<1>1. c \in Nat
  BY FS_CardinalityType
<1>2. \A k, m \in S : <<k, m>> \in R <=> k < m
  OBVIOUS
<1>3. /\ \A k \in S : rank[k] \in 0..c - 1
      /\ \A k, m \in S : rank[k] < rank[m] <=> <<k, m>> \in R
      /\ \A n \in 0..c - 1 : \E k \in S : rank[k] = n
  <2>1. /\ \A x, y \in S : <<x, y>> \in R => <<y, x>> \notin R
        /\ \A x, y, z \in S : <<x, y>> \in R /\ <<y, z>> \in R => <<x, z>> \in R
        /\ \A x, y \in S : x # y => <<x, y>> \in R \/ <<y, x>> \in R
    BY <1>1, <1>2
  <2>2. rank = [k \in S |-> Cardinality({j \in S : <<j, k>> \in R})]
    OBVIOUS
  <2> HIDE DEF R, rank
  <2>3. \A s : s = [k \in S |-> Cardinality({j \in S : <<j, k>> \in R})] =>
          /\ \A k \in S : s[k] \in 0..Cardinality(S) - 1
          /\ \A k, m \in S : s[k] < s[m] <=> <<k, m>> \in R
          /\ \A n \in 0..Cardinality(S) - 1 : \E k \in S : s[k] = n
    BY <2>1, Ranks
  <2>4. QED
    BY Zenon, <2>2, <2>3
<1>4. \A k \in S : Rank(S, k) = rank[k] + 1
  <2>1. ASSUME NEW k \in S PROVE Rank(S, k) = rank[k] + 1
    <3> DEFINE below == {j \in S : <<j, k>> \in R}
    <3>1. below \subseteq S /\ k \notin below
      BY <1>1, <1>2
    <3>2. {j \in S : j <= k} = below \cup {k}
      <4>1. \A j \in S : j <= k <=> j < k \/ j = k
        BY <1>1
      <4>2. \A j : j \in below <=> j \in S /\ j < k
        BY <1>2
      <4> HIDE DEF below
      <4>3. QED
        BY <4>1, <4>2
    <3>3. IsFiniteSet(below)
      BY <3>1, FS_Subset
    <3>4. rank[k] = Cardinality(below)
      OBVIOUS
    <3> HIDE DEF below
    <3>5. Cardinality(below \cup {k}) = Cardinality(below) + 1
      BY <3>1, <3>3, FS_AddElement
    <3>6. QED
      BY <3>2, <3>4, <3>5 DEF Rank
  <2>2. QED
    BY <2>1
<1> HIDE DEF rank
<1>5. \A k \in S : rank[k] \in Nat /\ rank[k] <= c - 1
  BY <1>1, <1>3
<1>6. \A k \in S : Rank(S, k) \in 1..c
  BY <1>1, <1>4, <1>5
<1>7. \A k, m \in S : Rank(S, k) < Rank(S, m) <=> k < m
  <2>1. \A k, m \in S : rank[k] < rank[m] <=> k < m
    BY <1>2, <1>3
  <2>2. QED
    BY <1>4, <1>5, <2>1
<1>8. ASSUME NEW n \in 1..c PROVE \E k \in S : Rank(S, k) = n
  <2>1. n - 1 \in 0..c - 1 /\ n - 1 + 1 = n
    BY <1>1
  <2>2. PICK k \in S : rank[k] = n - 1
    BY <1>3, <2>1
  <2>3. Rank(S, k) = n
    BY <1>4, <2>1, <2>2
  <2>4. QED
    BY <2>3
<1>9. QED
  BY <1>1, <1>6, <1>7, <1>8
-----------------------------------------------------------------------------
(* The helpers of the model *)

\* The last write of a buffered key is one of its writes.
LEMMA LastWriteIsWrite ==
  ASSUME store \in Seq(Entry), NEW k \in BufferKeys
  PROVE  /\ LastWrite(k) \in DOMAIN store
         /\ store[LastWrite(k)].key = k
         /\ \A j \in DOMAIN store : store[j].key = k => j <= LastWrite(k)
<1> DEFINE W == {i \in DOMAIN store : store[i].key = k}
<1>1. DOMAIN store = 1..Len(store) /\ Len(store) \in Nat
  OBVIOUS
<1>2. W \subseteq Nat /\ W # {} /\ \A n \in W : n <= Len(store)
  BY <1>1 DEF BufferKeys
<1>3. PICK m \in W : \A n \in W : n <= m
  BY <1>1, <1>2, GreatestNat
<1>4. \E i \in DOMAIN store : /\ store[i].key = k
                             /\ \A j \in DOMAIN store : store[j].key = k => j <= i
  BY <1>3
<1>5. QED
  BY <1>4 DEF LastWrite

\* A position is a level and an index of a run in it.
LEMMA PositionsType ==
  ASSUME levels \in Seq(Seq(Run))
  PROVE  /\ \A p \in Positions : /\ p = <<p[1], p[2]>>
                                 /\ p[1] \in 1..Len(levels)
                                 /\ p[2] \in 1..Len(levels[p[1]])
                                 /\ levels[p[1]] \in Seq(Run)
                                 /\ RunAt(p) \in Run
         /\ \A i \in 1..Len(levels) : \A j \in 1..Len(levels[i]) : <<i, j>> \in Positions
<1>1. DOMAIN levels = 1..Len(levels)
  OBVIOUS
<1>2. \A i \in 1..Len(levels) : /\ levels[i] \in Seq(Run)
                                /\ DOMAIN levels[i] = 1..Len(levels[i])
  OBVIOUS
<1>3. ASSUME NEW p \in Positions
      PROVE  /\ p = <<p[1], p[2]>>
             /\ p[1] \in 1..Len(levels)
             /\ p[2] \in 1..Len(levels[p[1]])
             /\ levels[p[1]] \in Seq(Run)
             /\ RunAt(p) \in Run
  <2>1. PICK i \in 1..Len(levels) : p \in {i} \X (1..Len(levels[i]))
    BY <1>1, <1>2 DEF Positions
  <2>2. p = <<p[1], p[2]>> /\ p[1] = i /\ p[2] \in 1..Len(levels[i])
    BY <2>1
  <2>3. levels[i][p[2]] \in Run
    BY <1>2, <2>2
  <2>4. QED
    BY <1>2, <2>2, <2>3 DEF RunAt
<1>4. ASSUME NEW i \in 1..Len(levels), NEW j \in 1..Len(levels[i])
      PROVE  <<i, j>> \in Positions
  BY <1>1, <1>2 DEF Positions
<1>5. QED
  BY <1>3, <1>4

\* Any two different positions are ordered, and First is the first of some.
LEMMA FirstIsFirst ==
  ASSUME levels \in Seq(Seq(Run)), NEW P, P \subseteq Positions, P # {}
  PROVE  /\ First(P) \in P
         /\ \A q \in P : q # First(P) => Before(First(P), q)
<1> DEFINE I == {p[1] : p \in P}
<1>1. \A p \in P : /\ p = <<p[1], p[2]>>
                   /\ p[1] \in Nat /\ p[2] \in Nat
                   /\ p[1] \in 1..Len(levels)
                   /\ p[2] <= Len(levels[p[1]])
  BY PositionsType
<1>2. PICK i \in I : \A j \in I : i <= j
  <2>1. I \subseteq Nat /\ I # {}
    BY <1>1
  <2>2. QED
    BY <2>1, LeastNat
<1> DEFINE J == {p[2] : p \in {q \in P : q[1] = i}}
<1>3. J \subseteq Nat /\ J # {}
  BY <1>1
<1>4. Len(levels[i]) \in Nat /\ \A j \in J : j <= Len(levels[i])
  <2>1. i \in 1..Len(levels)
    BY <1>1
  <2>2. QED
    BY <1>1, <2>1
<1>5. PICK j \in J : \A n \in J : n <= j
  BY <1>3, <1>4, GreatestNat
<1>6. PICK p \in P : p[1] = i /\ p[2] = j
  OBVIOUS
<1>7. ASSUME NEW q \in P, q # p
      PROVE  Before(p, q)
  <2>1. p[1] <= q[1]
    BY <1>2, <1>6
  <2>2. CASE p[1] < q[1]
    BY <2>2 DEF Before
  <2>3. CASE p[1] = q[1]
    <3>1. q[2] <= p[2]
      BY <1>5, <1>6, <2>3
    <3>2. q[2] # p[2]
      BY <1>1, <1>7, <2>3
    <3>3. QED
      BY <1>1, <2>3, <3>1, <3>2 DEF Before
  <2>4. QED
    BY <1>1, <2>1, <2>2, <2>3
<1>8. QED
  BY <1>7 DEF First

\* The level a compaction fills exists or is the next one, and the levels
\* above it are full.
LEMMA TargetType ==
  ASSUME levels \in Seq(Seq(Run))
  PROVE  /\ Target \in 1..Len(levels) + 1
         /\ \A j \in 1..Target - 1 : Full(j)
         /\ Target = Len(levels) + 1 \/ ~Full(Target)
<1> DEFINE S == {i \in 1..Len(levels) + 1 : i = Len(levels) + 1 \/ ~Full(i)}
<1>1. Len(levels) \in Nat
  OBVIOUS
<1>2. S \subseteq Nat /\ S # {}
  <2>1. Len(levels) + 1 \in S
    BY <1>1
  <2>2. S \subseteq 1..Len(levels) + 1
    OBVIOUS
  <2>3. QED
    BY <1>1, <2>1, <2>2
<1>3. PICK m \in S : \A n \in S : m <= n
  BY <1>2, LeastNat
<1>4. \A j \in 1..m - 1 : Full(j)
  BY <1>1, <1>3
<1>5. QED
  BY <1>3, <1>4 DEF Target

\* A compaction reads no entry of a key other than 0 that the run lacks.
LEMMA LoadType ==
  ASSUME NEW run \in Run, NEW bit \in BOOLEAN
  PROVE  /\ LoadFullFile(run, bit) \in Run
         /\ \A k \in Keys \ {0} : LoadFullFile(run, bit)[k] \in {run[k], None}
<1>1. [ver |-> 0, del |-> bit] \in Cell
  BY DEF Cell
<1>2. InFullPage(run) \subseteq KeysOf(run)
  BY DEF InFullPage
<1>3. QED
  BY <1>1, <1>2 DEF LoadFullFile, Run, KeysOf

\* What the new run holds of a key other than 0 was in the buffer or in a
\* merged run.
LEMMA MergeMapOrigin ==
  ASSUME TypeOK, NEW bit \in BOOLEAN
  PROVE  /\ MergeMap(bit) \in Run
         /\ \A k \in Keys \ {0} : MergeMap(bit)[k] # None =>
              \/ \E i \in DOMAIN store : /\ store[i].key = k
                                        /\ MergeMap(bit)[k] = CellOf(store[i])
              \/ \E p \in Merged : p \in Holders(k) /\ MergeMap(bit)[k] = RunAt(p)[k]
<1> DEFINE loaded == [p \in Merged |-> LoadFullFile(RunAt(p), bit)]
           having(k) == {p \in Merged : loaded[p][k] # None}
<1>1. /\ store \in Seq(Entry) /\ levels \in Seq(Seq(Run))
      /\ Merged \subseteq Positions
  BY DEF TypeOK, Merged
<1>2. MergeMap(bit) = [k \in Keys |-> IF k \in BufferKeys THEN CellOf(store[LastWrite(k)])
                                     ELSE IF having(k) = {} THEN None
                                     ELSE loaded[First(having(k))][k]]
  BY DEF MergeMap
<1>3. ASSUME NEW p \in Merged
      PROVE  /\ loaded[p] \in Run
             /\ \A k \in Keys \ {0} : loaded[p][k] \in {RunAt(p)[k], None}
  <2>1. RunAt(p) \in Run
    BY <1>1, PositionsType
  <2>2. QED
    BY <2>1, LoadType
<1>4. ASSUME NEW k \in Keys, having(k) # {}
      PROVE  First(having(k)) \in having(k)
  BY <1>1, <1>4, FirstIsFirst
<1> HIDE DEF loaded
<1>5. ASSUME NEW k \in BufferKeys
      PROVE  /\ CellOf(store[LastWrite(k)]) \in Cell
             /\ LastWrite(k) \in DOMAIN store /\ store[LastWrite(k)].key = k
  <2>1. LastWrite(k) \in DOMAIN store /\ store[LastWrite(k)].key = k
    BY <1>1, LastWriteIsWrite
  <2>2. store[LastWrite(k)] \in Entry
    BY <1>1, <2>1
  <2>3. QED
    BY <2>1, <2>2 DEF CellOf, Cell, Entry
<1>6. MergeMap(bit) \in Run
  <2>1. ASSUME NEW k \in Keys
        PROVE  MergeMap(bit)[k] \in Cell \cup {None}
    <3>1. CASE k \in BufferKeys
      BY <1>2, <1>5, <3>1
    <3>2. CASE k \notin BufferKeys /\ having(k) = {}
      BY <1>2, <3>2
    <3>3. CASE k \notin BufferKeys /\ having(k) # {}
      <4>1. MergeMap(bit)[k] = loaded[First(having(k))][k]
        BY <1>2, <3>3
      <4>2. loaded[First(having(k))] \in Run
        BY <1>3, <1>4, <3>3
      <4>3. QED
        BY <4>1, <4>2 DEF Run
    <3>4. QED
      BY <3>1, <3>2, <3>3
  <2>2. QED
    BY <1>2, <2>1 DEF Run
<1>7. ASSUME NEW k \in Keys \ {0}, MergeMap(bit)[k] # None
      PROVE  \/ \E i \in DOMAIN store : /\ store[i].key = k
                                       /\ MergeMap(bit)[k] = CellOf(store[i])
             \/ \E p \in Merged : p \in Holders(k) /\ MergeMap(bit)[k] = RunAt(p)[k]
  <2>1. CASE k \in BufferKeys
    BY <1>2, <1>5, <2>1
  <2>2. CASE k \notin BufferKeys
    <3> DEFINE f == First(having(k))
    <3>1. having(k) # {} /\ MergeMap(bit)[k] = loaded[f][k]
      BY <1>2, <1>7, <2>2
    <3>2. f \in Merged /\ loaded[f][k] # None
      BY <1>4, <3>1
    <3>3. loaded[f][k] = RunAt(f)[k]
      BY <1>3, <3>2
    <3>4. f \in Holders(k)
      BY <1>1, <3>2, <3>3 DEF Holders
    <3>5. QED
      BY <3>1, <3>2, <3>3, <3>4
  <2>3. QED
    BY <2>1, <2>2
<1>8. QED
  BY <1>6, <1>7
\* After a compaction a position has the run it had, on the target level or
\* below, or it is the one the new run was pushed to.
NewPosition == <<Target, IF Target > Len(levels) THEN 1 ELSE Len(levels[Target]) + 1>>

LEMMA LevelsAfterShape ==
  ASSUME TypeOK, NEW run \in Run, levels' = LevelsAfter(run)
  PROVE  /\ levels' \in Seq(Seq(Run)) /\ Len(levels') >= 1
         /\ \A p \in Positions' :
              \/ p \in Positions /\ p[1] >= Target /\ RunAt(p)' = RunAt(p)
              \/ p = NewPosition /\ RunAt(p)' = run
         /\ \A p \in Positions : p[1] >= Target => p \in Positions' /\ RunAt(p)' = RunAt(p)
         /\ \A p : p = NewPosition => p \in Positions' /\ RunAt(p)' = run
<1> DEFINE n == IF Target > Len(levels) THEN Target ELSE Len(levels)
           level(i) == IF i < Target THEN <<>>
                       ELSE IF i > Target THEN levels[i]
                       ELSE IF Target > Len(levels) THEN <<run>>
                       ELSE Append(levels[i], run)
<1>1. /\ levels \in Seq(Seq(Run)) /\ Len(levels) \in Nat
      /\ Target \in 1..Len(levels) + 1
      /\ n \in Nat /\ n >= 1
  BY TargetType DEF TypeOK
<1>2. levels' = [i \in 1..n |-> level(i)]
  BY DEF LevelsAfter
<1>3. \A i \in 1..Len(levels) : levels[i] \in Seq(Run)
  BY <1>1
<1>4. ASSUME NEW i \in 1..n
      PROVE  level(i) \in Seq(Run)
  <2>1. CASE i < Target
    BY <2>1
  <2>2. CASE i > Target
    BY <1>1, <1>3, <2>2
  <2>3. CASE i = Target /\ Target > Len(levels)
    BY <2>3
  <2>4. CASE i = Target /\ Target <= Len(levels)
    <3>1. levels[i] \in Seq(Run)
      BY <1>1, <1>3, <2>4
    <3>2. QED
      BY <2>4, <3>1
  <2>5. QED
    BY <1>1, <2>1, <2>2, <2>3, <2>4
<1> HIDE DEF level, n
<1>5. levels' \in Seq(Seq(Run)) /\ Len(levels') = n
  BY <1>1, <1>2, <1>4
<1>6. ASSUME NEW p \in Positions'
      PROVE  \/ p \in Positions /\ p[1] >= Target /\ RunAt(p)' = RunAt(p)
             \/ p = NewPosition /\ RunAt(p)' = run
  <2>1. PICK i \in 1..n : p \in {i} \X DOMAIN level(i)
    BY <1>2, <1>6 DEF Positions
  <2>2. PICK j \in 1..Len(level(i)) : p = <<i, j>>
    BY <1>4, <2>1
  <2>3. RunAt(p)' = level(i)[j]
    BY <1>2, <2>2 DEF RunAt
  <2>4. i \in Nat /\ j \in Nat /\ Target \in Nat
    BY <1>1, <2>2
  <2>5. CASE i < Target
    BY <2>2, <2>5 DEF level
  <2>6. CASE i > Target
    <3>1. i \in 1..Len(levels) /\ level(i) = levels[i]
      BY <1>1, <2>4, <2>6 DEF level, n
    <3>2. p \in Positions
      BY <1>1, <2>2, <3>1, PositionsType
    <3>3. QED
      BY <2>2, <2>3, <2>4, <2>6, <3>1, <3>2 DEF RunAt
  <2>7. CASE i = Target /\ Target > Len(levels)
    <3>1. level(i) = <<run>>
      BY <2>4, <2>7 DEF level
    <3>2. QED
      BY <2>2, <2>3, <2>7, <3>1 DEF NewPosition
  <2>8. CASE i = Target /\ Target <= Len(levels)
    <3>1. level(i) = Append(levels[i], run) /\ levels[i] \in Seq(Run)
      BY <1>1, <1>3, <2>4, <2>8 DEF level
    <3>2. CASE j <= Len(levels[i])
      <4>1. p \in Positions
        BY <1>1, <2>2, <2>8, <3>2, PositionsType
      <4>2. level(i)[j] = levels[i][j]
        BY <2>2, <3>1, <3>2
      <4>3. QED
        BY <2>2, <2>3, <2>4, <2>8, <4>1, <4>2 DEF RunAt
    <3>3. CASE j = Len(levels[i]) + 1
      <4>1. level(i)[j] = run
        BY <3>1, <3>3
      <4>2. QED
        BY <1>1, <2>2, <2>3, <2>8, <3>3, <4>1 DEF NewPosition
    <3>4. QED
      BY <2>2, <3>1, <3>2, <3>3
  <2>9. QED
    BY <1>1, <2>4, <2>5, <2>6, <2>7, <2>8
<1>7. ASSUME NEW p \in Positions, p[1] >= Target
      PROVE  p \in Positions' /\ RunAt(p)' = RunAt(p)
  <2>1. /\ p = <<p[1], p[2]>> /\ p[1] \in 1..Len(levels) /\ p[2] \in 1..Len(levels[p[1]])
        /\ levels[p[1]] \in Seq(Run)
    BY <1>1, PositionsType
  <2>2. p[1] \in 1..n /\ levels'[p[1]] = level(p[1])
    BY <1>1, <1>2, <2>1 DEF n
  <2>3. p[2] \in DOMAIN level(p[1]) /\ level(p[1])[p[2]] = levels[p[1]][p[2]]
    <3>1. CASE p[1] > Target
      BY <1>1, <2>1, <3>1 DEF level
    <3>2. CASE p[1] = Target
      <4>1. level(p[1]) = Append(levels[p[1]], run)
        BY <1>1, <2>1, <3>2 DEF level
      <4>2. QED
        BY <2>1, <4>1
    <3>3. QED
      BY <1>1, <1>7, <2>1, <3>1, <3>2
  <2>4. QED
    BY <1>2, <2>1, <2>2, <2>3 DEF Positions, RunAt
<1>8. ASSUME NEW p, p = NewPosition
      PROVE  p \in Positions' /\ RunAt(p)' = run
  <2> DEFINE j == IF Target > Len(levels) THEN 1 ELSE Len(levels[Target]) + 1
  <2>1. Target \in 1..n /\ levels'[Target] = level(Target)
    BY <1>1, <1>2 DEF n
  <2>2. j \in DOMAIN level(Target) /\ level(Target)[j] = run
    <3>1. CASE Target > Len(levels)
      BY <1>1, <3>1 DEF level
    <3>2. CASE Target <= Len(levels)
      <4>1. level(Target) = Append(levels[Target], run) /\ levels[Target] \in Seq(Run)
        BY <1>1, <1>3, <3>2 DEF level
      <4>2. QED
        BY <1>1, <3>2, <4>1
    <3>3. QED
      BY <1>1, <3>1, <3>2
  <2>3. NewPosition = <<Target, j>>
    BY DEF NewPosition
  <2> HIDE DEF j
  <2>4. Target \in DOMAIN levels' /\ j \in DOMAIN levels'[Target] /\ levels'[Target][j] = run
    BY <1>2, <2>1, <2>2
  <2>5. <<Target, j>> \in Positions'
    BY <2>4 DEF Positions
  <2>6. p = <<Target, j>> /\ p[1] = Target /\ p[2] = j
    BY <1>8, <2>3
  <2>7. QED
    BY <2>4, <2>5, <2>6 DEF RunAt
<1>9. QED
  BY <1>1, <1>5, <1>6, <1>7, <1>8
-----------------------------------------------------------------------------
(* The type invariant *)

LEMMA InitType == Init => TypeOK
<1> SUFFICES ASSUME Init PROVE TypeOK
  OBVIOUS
<1>1. store \in Seq(Entry) /\ Len(store) <= BufferSize
  BY SizeAssumption DEF Init
<1>2. levels \in Seq(Seq(Run)) /\ Len(levels) >= 1
  BY DEF Init
<1>3. QED
  BY <1>1, <1>2 DEF Init, TypeOK

LEMMA StampType ==
  ASSUME TypeOK, NEW k \in Keys, NEW del \in BOOLEAN, Stamp(k, del)
  PROVE  /\ clock' \in Nat /\ last' \in [Keys -> Cell \cup {None}]
         /\ NewEntry(k, del) \in Entry
<1>1. clock + 1 \in Nat /\ clock' = clock + 1
  BY DEF TypeOK, Stamp
<1>2. [ver |-> clock + 1, del |-> del] \in Cell
  BY <1>1 DEF Cell
<1>3. QED
  BY <1>1, <1>2 DEF TypeOK, Stamp, NewEntry, Entry

\* WriteAfterFlush without its test and its count: what module LazyTree's merges
\* into the tiered levels do as well.
Compacted(k, del) == /\ Stamp(k, del)
                     /\ \E bit \in BOOLEAN : levels' = LevelsAfter(MergeMap(bit))
                     /\ store' = <<NewEntry(k, del)>>

LEMMA CompactedType ==
  ASSUME TypeOK, NEW k \in Keys, NEW del \in BOOLEAN, Compacted(k, del), flushes' \in Nat
  PROVE  TypeOK'
<1>1. Stamp(k, del)
  BY DEF Compacted
<1>2. NewEntry(k, del) \in Entry
  BY <1>1, StampType
<1>3. store' \in Seq(Entry) /\ Len(store') <= BufferSize
  BY <1>2, SizeAssumption DEF Compacted
<1>4. PICK bit \in BOOLEAN : levels' = LevelsAfter(MergeMap(bit))
  BY DEF Compacted
<1>5. levels' \in Seq(Seq(Run)) /\ Len(levels') >= 1
  BY <1>4, MergeMapOrigin, LevelsAfterShape
<1>6. QED
  BY <1>1, <1>3, <1>5, StampType DEF TypeOK

LEMMA NextType == TypeOK /\ [Next]_vars => TypeOK'
<1> SUFFICES ASSUME TypeOK, [Next]_vars PROVE TypeOK'
  OBVIOUS
<1>1. ASSUME NEW k \in Keys, NEW del \in BOOLEAN, WriteInBuffer(k, del)
      PROVE  TypeOK'
  <2>1. Stamp(k, del)
    BY <1>1 DEF WriteInBuffer
  <2>2. NewEntry(k, del) \in Entry
    BY <2>1, StampType
  <2>3. store' \in Seq(Entry) /\ Len(store') <= BufferSize
    BY <1>1, <2>2, SizeAssumption DEF WriteInBuffer, TypeOK
  <2>4. QED
    BY <1>1, <2>1, <2>3, StampType DEF WriteInBuffer, TypeOK
<1>2. ASSUME NEW k \in Keys, NEW del \in BOOLEAN, WriteAfterFlush(k, del)
      PROVE  TypeOK'
  BY <1>2, CompactedType DEF WriteAfterFlush, Compacted, TypeOK
<1>3. CASE UNCHANGED vars
  BY <1>3 DEF vars, TypeOK
<1>4. QED
  BY <1>1, <1>2, <1>3 DEF Next, Put, Del

\* TypeOK holds in every state: the buffer stays within its limit, and every
\* run a compaction writes is a map of the keys in use.
THEOREM TypeCorrect == Spec => []TypeOK
<1>1. QED
  BY InitType, NextType, PTL DEF Spec
-----------------------------------------------------------------------------
(* The order of age *)

\* No copy is newer than the last write.
VersionsBounded ==
  /\ \A i \in DOMAIN store : store[i].ver <= clock
  /\ \A k \in Keys \ {0} : \A p \in Holders(k) : RunAt(p)[k].ver <= clock

\* The inductive invariant: a write is newer than all there is only because
\* nothing there is newer than the clock.
RecencyInv == TypeOK /\ RecencyOrder /\ VersionsBounded

\* The version of a copy on disk is a natural number.
LEMMA HeldVersion ==
  ASSUME levels \in Seq(Seq(Run)), NEW k \in Keys, NEW p \in Holders(k)
  PROVE  RunAt(p)[k] \in Cell /\ RunAt(p)[k].ver \in Nat
<1>1. p \in Positions /\ RunAt(p)[k] # None
  BY DEF Holders
<1>2. RunAt(p)[k] \in Cell
  BY <1>1, PositionsType DEF Run
<1>3. QED
  BY <1>2 DEF Cell

LEMMA InitRecency == Init => RecencyInv
<1> SUFFICES ASSUME Init PROVE RecencyInv
  OBVIOUS
<1>1. DOMAIN store = {}
  BY DEF Init
<1>2. Positions = {}
  BY DEF Init, Positions
<1>3. QED
  BY <1>1, <1>2, InitType
     DEF RecencyInv, RecencyOrder, BufferInOrder, BufferNewerThanRuns, RunsInOrder,
         VersionsBounded, Holders

\* A write that finds room is the newest copy of all.
LEMMA BufferWriteRecency ==
  ASSUME RecencyInv, NEW w \in Keys, NEW del \in BOOLEAN, WriteInBuffer(w, del), TypeOK'
  PROVE  RecencyInv'
<1> DEFINE n == Len(store)
<1>1. /\ store \in Seq(Entry) /\ levels \in Seq(Seq(Run)) /\ clock \in Nat /\ n \in Nat
      /\ DOMAIN store = 1..n /\ DOMAIN store' = 1..n + 1
      /\ store' = Append(store, NewEntry(w, del))
      /\ levels' = levels /\ clock' = clock + 1
  BY DEF RecencyInv, TypeOK, WriteInBuffer, Stamp
<1>2. /\ \A i \in 1..n : store'[i] = store[i] /\ store[i].ver \in Nat
      /\ store'[n + 1].ver = clock + 1
  <2>1. \A i \in 1..n : store'[i] = store[i] /\ store[i] \in Entry
    BY <1>1
  <2>2. store'[n + 1] = NewEntry(w, del)
    BY <1>1
  <2>3. QED
    BY <2>1, <2>2 DEF NewEntry, Entry
<1>3. /\ Positions' = Positions
      /\ \A p \in Positions : RunAt(p)' = RunAt(p)
      /\ \A k \in Keys : Holders(k)' = Holders(k)
  BY <1>1 DEF Positions, RunAt, Holders
<1>4. \A k \in Keys : \A p \in Holders(k) : RunAt(p)' = RunAt(p) /\ RunAt(p)[k].ver \in Nat
  BY <1>1, <1>3, HeldVersion DEF Holders
<1>5. BufferInOrder'
  BY <1>1, <1>2 DEF BufferInOrder, RecencyInv, RecencyOrder, VersionsBounded
<1>6. BufferNewerThanRuns'
  BY <1>1, <1>2, <1>3, <1>4 DEF BufferNewerThanRuns, RecencyInv, RecencyOrder, VersionsBounded
<1>7. RunsInOrder'
  BY <1>3, <1>4 DEF RunsInOrder, RecencyInv, RecencyOrder, Before
<1>8. VersionsBounded'
  BY <1>1, <1>2, <1>3, <1>4 DEF RecencyInv, VersionsBounded
<1>9. QED
  BY <1>5, <1>6, <1>7, <1>8 DEF RecencyInv, RecencyOrder
\* The new run is newer than what the target level and those below hold, since
\* its copies come from the buffer and from the levels above.
LEMMA FlushRecency ==
  ASSUME RecencyInv, NEW w \in Keys, NEW del \in BOOLEAN, Compacted(w, del), TypeOK'
  PROVE  RecencyInv'
<1>1. PICK bit \in BOOLEAN : levels' = LevelsAfter(MergeMap(bit))
  BY DEF Compacted
<1> DEFINE m == MergeMap(bit)
           new == NewPosition
<1>2. /\ TypeOK /\ store \in Seq(Entry) /\ levels \in Seq(Seq(Run)) /\ clock \in Nat
      /\ levels' \in Seq(Seq(Run))
      /\ store' = <<NewEntry(w, del)>> /\ clock' = clock + 1
  BY DEF RecencyInv, TypeOK, Compacted, Stamp
<1>3. DOMAIN store' = {1} /\ store'[1].key = w /\ store'[1].ver = clock + 1
  BY <1>2 DEF NewEntry
<1>4. m \in Run
  BY <1>2, MergeMapOrigin
<1>5. \A p \in Positions' : \/ p \in Positions /\ p[1] >= Target /\ RunAt(p)' = RunAt(p)
                            \/ p = new /\ RunAt(p)' = m
  BY <1>1, <1>2, <1>4, LevelsAfterShape
<1>6. \A i \in DOMAIN store : store[i].ver \in Nat /\ store[i].ver <= clock
  <2>1. \A i \in DOMAIN store : store[i] \in Entry
    BY <1>2
  <2>2. QED
    BY <2>1 DEF Entry, RecencyInv, VersionsBounded
<1>7. \A k \in Keys \ {0} : \A p \in Holders(k) :
        RunAt(p)[k].ver \in Nat /\ RunAt(p)[k].ver <= clock
  BY <1>2, HeldVersion DEF RecencyInv, VersionsBounded
<1>8. Target \in Nat /\ \A p \in Positions : p[1] \in Nat /\ p[2] \in Nat
  BY <1>2, TargetType, PositionsType
<1> HIDE DEF m, new
\* Each held copy is one that stays where it was, or the new run's.
<1>9. ASSUME NEW k \in Keys \ {0}, NEW p \in Holders(k)'
      PROVE  \/ p \in Holders(k) /\ p[1] >= Target /\ RunAt(p)' = RunAt(p)
             \/ p = new /\ RunAt(p)' = m /\ m[k] # None
  <2>1. p \in Positions' /\ RunAt(p)'[k] # None
    BY <1>9 DEF Holders
  <2>2. QED
    BY <1>5, <2>1 DEF Holders
\* The new run's copy is between what stays on disk and the clock.
<1>10. ASSUME NEW k \in Keys \ {0}, m[k] # None
       PROVE  /\ m[k].ver \in Nat /\ m[k].ver <= clock
              /\ \A q \in Holders(k) : q[1] >= Target => RunAt(q)[k].ver < m[k].ver
  <2>1. \/ \E i \in DOMAIN store : store[i].key = k /\ m[k].ver = store[i].ver
        \/ \E p \in Merged : p \in Holders(k) /\ m[k] = RunAt(p)[k]
    <3>1. \A i \in DOMAIN store : CellOf(store[i]).ver = store[i].ver
      BY DEF CellOf
    <3>2. \/ \E i \in DOMAIN store : store[i].key = k /\ m[k] = CellOf(store[i])
          \/ \E p \in Merged : p \in Holders(k) /\ m[k] = RunAt(p)[k]
      BY <1>2, <1>10, MergeMapOrigin DEF m
    <3>3. QED
      BY <3>1, <3>2
  <2>2. CASE \E i \in DOMAIN store : store[i].key = k /\ m[k].ver = store[i].ver
    <3>1. PICK i \in DOMAIN store : store[i].key = k /\ m[k].ver = store[i].ver
      BY <2>2
    <3>2. \A q \in Holders(k) : RunAt(q)[k].ver < store[i].ver
      BY <3>1 DEF RecencyInv, RecencyOrder, BufferNewerThanRuns
    <3>3. QED
      BY <1>6, <3>1, <3>2
  <2>3. CASE \E p \in Merged : p \in Holders(k) /\ m[k] = RunAt(p)[k]
    <3>1. PICK p \in Holders(k) : p[1] < Target /\ m[k] = RunAt(p)[k]
      BY <2>3 DEF Merged
    <3>2. \A q \in Holders(k) : q[1] >= Target => Before(p, q)
      BY <1>8, <3>1 DEF Before, Holders
    <3>3. \A q \in Holders(k) : Before(p, q) => RunAt(q)[k].ver < RunAt(p)[k].ver
      BY <3>1 DEF RecencyInv, RecencyOrder, RunsInOrder
    <3>4. QED
      BY <1>7, <3>1, <3>2, <3>3
  <2>4. QED
    BY <2>1, <2>2, <2>3
<1>11. BufferInOrder'
  BY <1>3 DEF BufferInOrder
<1>12. BufferNewerThanRuns'
  <2>1. ASSUME NEW k \in Keys \ {0}, NEW p \in Holders(k)'
        PROVE  RunAt(p)'[k].ver \in Nat /\ RunAt(p)'[k].ver <= clock
    BY <1>7, <1>9, <1>10
  <2>2. QED
    BY <1>2, <1>3, <2>1 DEF BufferNewerThanRuns
<1>13. RunsInOrder'
  <2>1. SUFFICES ASSUME NEW k \in Keys \ {0}, NEW p \in Holders(k)', NEW q \in Holders(k)',
                        Before(p, q)
                 PROVE  RunAt(q)'[k].ver < RunAt(p)'[k].ver
    BY DEF RunsInOrder, Before
  <2>2. CASE p \in Holders(k) /\ RunAt(p)' = RunAt(p) /\ q \in Holders(k) /\ RunAt(q)' = RunAt(q)
    BY <2>1, <2>2 DEF RecencyInv, RecencyOrder, RunsInOrder
  <2>3. CASE p = new /\ RunAt(p)' = m /\ m[k] # None
             /\ q \in Holders(k) /\ q[1] >= Target /\ RunAt(q)' = RunAt(q)
    BY <1>10, <2>3
  \* No position of the target level or below comes before the new one.
  <2>4. CASE p \in Holders(k) /\ p[1] >= Target /\ q = new
    <3>1. p \in Positions /\ p[1] \in 1..Len(levels) /\ p[2] \in 1..Len(levels[p[1]])
      BY <1>2, <2>4, PositionsType DEF Holders
    <3>2. q[1] = Target /\ (Target <= Len(levels) => q[2] = Len(levels[Target]) + 1)
      BY <1>2, <2>4, TargetType DEF new, NewPosition
    <3>3. p[1] = Target /\ p[2] > q[2] /\ Target <= Len(levels)
      BY <1>8, <2>1, <2>4, <3>1, <3>2 DEF Before
    <3>4. levels[Target] \in Seq(Run)
      BY <1>2, <1>8, <3>1, <3>3, PositionsType
    <3>5. QED
      BY <3>1, <3>2, <3>3, <3>4
  <2>5. CASE p = new /\ q = new
    <3>1. new[1] \in Nat /\ new[2] \in Nat
      <4>1. Target <= Len(levels) => Len(levels[Target]) \in Nat
        BY <1>2, TargetType
      <4>2. QED
        BY <1>2, <1>8, <4>1 DEF new, NewPosition
    <3>2. QED
      BY <2>1, <2>5, <3>1 DEF Before
  <2>6. QED
    BY <1>9, <2>2, <2>3, <2>4, <2>5
<1>14. VersionsBounded'
  BY SMTT(40), <1>2, <1>3, <1>7, <1>9, <1>10 DEF VersionsBounded
<1>15. QED
  BY <1>11, <1>12, <1>13, <1>14 DEF RecencyInv, RecencyOrder

LEMMA NextRecency == RecencyInv /\ [Next]_vars => RecencyInv'
<1> SUFFICES ASSUME RecencyInv, [Next]_vars PROVE RecencyInv'
  OBVIOUS
<1>1. TypeOK'
  BY NextType DEF RecencyInv
<1>2. ASSUME NEW k \in Keys, NEW del \in BOOLEAN, WriteInBuffer(k, del)
      PROVE  RecencyInv'
  BY <1>1, <1>2, BufferWriteRecency
<1>3. ASSUME NEW k \in Keys, NEW del \in BOOLEAN, WriteAfterFlush(k, del)
      PROVE  RecencyInv'
  BY <1>1, <1>3, FlushRecency DEF WriteAfterFlush, Compacted
<1>4. CASE UNCHANGED vars
  BY <1>1, <1>4 DEF vars, RecencyInv, RecencyOrder, BufferInOrder, BufferNewerThanRuns,
                    RunsInOrder, VersionsBounded, Holders, Positions, RunAt, Before
<1>5. QED
  BY <1>2, <1>3, <1>4 DEF Next, Put, Del

\* RecencyOrder holds in every state, through compactions that cascade over any
\* number of levels and lose whatever pages they cannot read: what a search
\* meets first of a key is the newest of its copies.
THEOREM RecencyCorrect == Spec => []RecencyOrder
<1>1. RecencyInv => RecencyOrder
  BY DEF RecencyInv
<1>2. QED
  BY <1>1, InitRecency, NextRecency, PTL DEF Spec
-----------------------------------------------------------------------------
(* What get answers *)

\* The last of a key's writes in the buffer is its last write of all.
BufferHoldsLast ==
  \A i \in DOMAIN store :
    (\A j \in DOMAIN store : store[j].key = store[i].key => j <= i)
      => CellOf(store[i]) = last[store[i].key]

LEMMA CompactedHoldsLast ==
  ASSUME TypeOK, NEW k \in Keys, NEW del \in BOOLEAN, Compacted(k, del)
  PROVE  BufferHoldsLast'
<1>1. DOMAIN store' = {1} /\ store'[1] = NewEntry(k, del)
  BY DEF Compacted
<1>2. last'[k] = [ver |-> clock + 1, del |-> del]
  BY DEF Compacted, Stamp, TypeOK
<1>3. QED
  BY <1>1, <1>2 DEF BufferHoldsLast, NewEntry, CellOf

LEMMA NextBufferHoldsLast ==
  TypeOK /\ BufferHoldsLast /\ [Next]_vars => BufferHoldsLast'
<1> SUFFICES ASSUME TypeOK, BufferHoldsLast, [Next]_vars PROVE BufferHoldsLast'
  OBVIOUS
<1>1. ASSUME NEW k \in Keys, NEW del \in BOOLEAN, WriteInBuffer(k, del)
      PROVE  BufferHoldsLast'
  <2> DEFINE n == Len(store)
  <2>1. /\ n \in Nat /\ DOMAIN store = 1..n /\ DOMAIN store' = 1..n + 1
        /\ \A i \in 1..n : store'[i] = store[i] /\ store[i].key \in Keys
        /\ store'[n + 1] = NewEntry(k, del)
    <3>1. store \in Seq(Entry) /\ store' = Append(store, NewEntry(k, del))
      BY <1>1 DEF TypeOK, WriteInBuffer
    <3>2. \A i \in 1..n : store'[i] = store[i] /\ store[i] \in Entry
      BY <3>1
    <3>3. QED
      BY <3>1, <3>2 DEF Entry
  <2>2. /\ last' \in [Keys -> Cell \cup {None}]
        /\ last'[k] = [ver |-> clock + 1, del |-> del]
        /\ \A h \in Keys : h # k => last'[h] = last[h]
    BY <1>1, StampType DEF WriteInBuffer, Stamp, TypeOK
  <2>3. SUFFICES ASSUME NEW i \in 1..n + 1,
                        \A j \in 1..n + 1 : store'[j].key = store'[i].key => j <= i
                 PROVE  CellOf(store'[i]) = last'[store'[i].key]
    BY <2>1 DEF BufferHoldsLast, CellOf
  <2>4. CASE i = n + 1
    BY <2>1, <2>2, <2>4 DEF NewEntry, CellOf
  <2>5. CASE i \in 1..n
    <3>1. store'[i].key # k
      BY <2>1, <2>3, <2>5 DEF NewEntry
    <3>2. \A j \in 1..n : store[j].key = store[i].key => j <= i
      BY <2>1, <2>3, <2>5
    <3>3. CellOf(store[i]) = last[store[i].key]
      BY <2>1, <2>5, <3>2 DEF BufferHoldsLast
    <3>4. QED
      BY <2>1, <2>2, <2>5, <3>1, <3>3
  <2>6. QED
    BY <2>1, <2>4, <2>5
<1>2. ASSUME NEW k \in Keys, NEW del \in BOOLEAN, WriteAfterFlush(k, del)
      PROVE  BufferHoldsLast'
  BY <1>2, CompactedHoldsLast DEF WriteAfterFlush, Compacted
<1>3. CASE UNCHANGED vars
  BY <1>3 DEF vars, BufferHoldsLast, CellOf
<1>4. QED
  BY <1>1, <1>2, <1>3 DEF Next, Put, Del

\* In such states a get is right: the buffer by its last write, the disk by the
\* order of age.
LEMMA RecencyImpliesGet ==
  ASSUME RecencyInv, BufferHoldsLast
  PROVE  GetIsNewestLive
<1>1. store \in Seq(Entry) /\ levels \in Seq(Seq(Run))
  BY DEF RecencyInv, TypeOK
<1>2. SUFFICES ASSUME NEW k \in Keys \ {0}
               PROVE  /\ k \in BufferKeys => Get(k) = last[k]
                      /\ k \notin BufferKeys =>
                           LET live == {RunAt(p)[k] : p \in LiveHolders(k)}
                           IN  IF live = {} THEN Get(k) = None
                               ELSE Get(k) \in live /\ \A c \in live : c.ver <= Get(k).ver
  BY DEF GetIsNewestLive
<1>3. ASSUME k \in BufferKeys
      PROVE  Get(k) = last[k]
  BY <1>1, <1>3, LastWriteIsWrite DEF Get, BufferHoldsLast
<1>4. ASSUME k \notin BufferKeys, LiveHolders(k) = {}
      PROVE  Get(k) = None
  BY <1>4 DEF Get
<1>5. ASSUME k \notin BufferKeys, LiveHolders(k) # {}
      PROVE  \E f \in LiveHolders(k) :
               /\ Get(k) = RunAt(f)[k]
               /\ \A p \in LiveHolders(k) : RunAt(p)[k].ver <= RunAt(f)[k].ver
  <2> DEFINE f == First(LiveHolders(k))
  <2>1. LiveHolders(k) \subseteq Holders(k) /\ LiveHolders(k) \subseteq Positions
    BY DEF LiveHolders, Holders
  <2>2. f \in LiveHolders(k) /\ \A p \in LiveHolders(k) : p # f => Before(f, p)
    BY <1>1, <1>5, <2>1, FirstIsFirst
  <2>3. Get(k) = RunAt(f)[k]
    BY <1>5 DEF Get
  <2> HIDE DEF f
  <2>4. ASSUME NEW p \in LiveHolders(k)
        PROVE  RunAt(p)[k].ver <= RunAt(f)[k].ver
    <3>1. RunAt(p)[k].ver \in Nat /\ RunAt(f)[k].ver \in Nat
      BY <1>1, <2>1, <2>2, HeldVersion
    <3>2. CASE p = f
      BY <3>1, <3>2
    <3>3. CASE p # f
      BY <2>1, <2>2, <3>1, <3>3 DEF RecencyInv, RecencyOrder, RunsInOrder
    <3>4. QED
      BY <3>2, <3>3
  <2>5. QED
    BY <2>2, <2>3, <2>4
<1>6. QED
  BY <1>3, <1>4, <1>5

\* GetIsNewestLive holds in every state: a get never prefers an older live copy
\* to a newer one, nor anything to what the buffer holds.
THEOREM GetCorrect == Spec => []GetIsNewestLive
<1>1. Init => BufferHoldsLast
  BY DEF Init, BufferHoldsLast
<1>2. RecencyInv => TypeOK
  BY DEF RecencyInv
<1>3. QED
  BY <1>1, <1>2, InitRecency, NextRecency, NextBufferHoldsLast, RecencyImpliesGet, PTL DEF Spec
-----------------------------------------------------------------------------
(* What a step may do to the copies of a key *)

LEMMA StampCopy ==
  ASSUME TypeOK, NEW w \in Keys, NEW del \in BOOLEAN, Stamp(w, del)
  PROVE  CellOf(NewEntry(w, del)) = last'[w]
BY DEF TypeOK, Stamp, CellOf, NewEntry

LEMMA BufferWriteCopies ==
  ASSUME TypeOK, NEW w \in Keys, NEW del \in BOOLEAN, WriteInBuffer(w, del),
         NEW k \in Keys, NEW c \in Copies(k)'
  PROVE  c \in Copies(k) \/ (k = w /\ c = last'[k])
<1> DEFINE n == Len(store)
<1>1. store \in Seq(Entry) /\ Stamp(w, del)
  BY DEF TypeOK, WriteInBuffer
<1>2. n \in Nat /\ DOMAIN store = 1..n /\ DOMAIN store' = 1..n + 1
  BY <1>1 DEF WriteInBuffer
<1>3. /\ \A i \in 1..n : store'[i] = store[i]
      /\ store'[n + 1] = NewEntry(w, del)
  BY <1>1 DEF WriteInBuffer
<1>4. Holders(k)' = Holders(k) /\ \A p : RunAt(p)' = RunAt(p)
  BY DEF WriteInBuffer, Holders, Positions, RunAt
<1>5. ASSUME NEW i \in DOMAIN store', store'[i].key = k
      PROVE  CellOf(store'[i]) \in Copies(k) \/ (k = w /\ CellOf(store'[i]) = last'[k])
  <2>1. CASE i \in 1..n
    BY <1>2, <1>3, <1>5, <2>1 DEF Copies
  <2>2. CASE i = n + 1
    <3>1. w = k
      BY <1>3, <1>5, <2>2 DEF NewEntry
    <3>2. QED
      BY <1>1, <1>3, <2>2, <3>1, StampCopy
  <2>3. QED
    BY <1>2, <2>1, <2>2
<1>6. QED
  BY <1>4, <1>5 DEF Copies, CellOf

LEMMA CompactedCopies ==
  ASSUME TypeOK, NEW w \in Keys, NEW del \in BOOLEAN, Compacted(w, del),
         NEW k \in Keys \ {0}, NEW c \in Copies(k)'
  PROVE  c \in Copies(k) \/ (k = w /\ c = last'[k])
<1>1. PICK bit \in BOOLEAN : levels' = LevelsAfter(MergeMap(bit))
  BY DEF Compacted
<1>2. \A p \in Positions' : \/ p \in Positions /\ RunAt(p)' = RunAt(p)
                            \/ RunAt(p)' = MergeMap(bit)
  BY <1>1, MergeMapOrigin, LevelsAfterShape
<1>3. MergeMap(bit)[k] # None => MergeMap(bit)[k] \in Copies(k)
  BY MergeMapOrigin DEF Copies
<1>4. ASSUME NEW p \in Holders(k)'
      PROVE  RunAt(p)'[k] \in Copies(k)
  <2>1. p \in Positions' /\ RunAt(p)'[k] # None
    BY <1>4 DEF Holders
  <2>2. CASE p \in Positions /\ RunAt(p)' = RunAt(p)
    BY <2>1, <2>2 DEF Holders, Copies
  <2>3. CASE RunAt(p)' = MergeMap(bit)
    BY <1>3, <2>1, <2>3
  <2>4. QED
    BY <1>2, <2>1, <2>2, <2>3
<1>5. store' = <<NewEntry(w, del)>> /\ Stamp(w, del)
  BY DEF Compacted
<1>6. ASSUME NEW i \in DOMAIN store', store'[i].key = k
      PROVE  k = w /\ CellOf(store'[i]) = last'[k]
  <2>1. store'[i] = NewEntry(w, del)
    BY <1>5
  <2>2. w = k
    BY <1>6, <2>1 DEF NewEntry
  <2>3. QED
    BY <1>5, <2>1, <2>2, StampCopy
<1>7. QED
  BY <1>4, <1>6 DEF Copies, CellOf

\* Every copy a step leaves was there, or is the write of the step.
LEMMA NextCopies ==
  ASSUME TypeOK, [Next]_vars, NEW k \in Keys \ {0}
  PROVE  Copies(k)' \subseteq Copies(k) \cup {last'[k]}
<1>1. ASSUME NEW w \in Keys, NEW del \in BOOLEAN, WriteInBuffer(w, del)
      PROVE  Copies(k)' \subseteq Copies(k) \cup {last'[k]}
  BY <1>1, BufferWriteCopies
<1>2. ASSUME NEW w \in Keys, NEW del \in BOOLEAN, WriteAfterFlush(w, del)
      PROVE  Copies(k)' \subseteq Copies(k) \cup {last'[k]}
  <2>1. Compacted(w, del)
    BY <1>2 DEF WriteAfterFlush, Compacted
  <2>2. QED
    BY <2>1, CompactedCopies
<1>3. CASE UNCHANGED vars
  BY <1>3 DEF vars, Copies, CellOf, Holders, Positions, RunAt
<1>4. QED
  BY <1>1, <1>2, <1>3 DEF Next, Put, Del

\* NoCopyFromNowhere holds of every step: whatever pages a compaction loses and
\* however many levels it merges, it makes up no copy and brings none back.
THEOREM CopiesCorrect == Spec => NoCopyFromNowhere
<1>1. TypeOK /\ [Next]_vars =>
        [\A k \in Keys \ {0} : Copies(k)' \subseteq Copies(k) \cup {last'[k]}]_vars
  BY NextCopies
<1>2. QED
  BY <1>1, InitType, NextType, PTL DEF Spec, NoCopyFromNowhere
-----------------------------------------------------------------------------
(* The newest copy of a key *)

\* No recorded last write is newer than the clock.
LastBounded == \A k \in Keys : last[k].ver <= clock

LEMMA NextLastBounded == TypeOK /\ LastBounded /\ [Next]_vars => LastBounded'
<1> SUFFICES ASSUME TypeOK, LastBounded, [Next]_vars PROVE LastBounded'
  OBVIOUS
<1>1. ASSUME NEW k \in Keys, NEW del \in BOOLEAN, Stamp(k, del)
      PROVE  LastBounded'
  <2>1. /\ last \in [Keys -> Cell \cup {None}] /\ clock \in Nat /\ clock' = clock + 1
        /\ last' = [last EXCEPT ![k] = [ver |-> clock + 1, del |-> del]]
    BY <1>1 DEF TypeOK, Stamp
  <2>2. \A j \in Keys : last[j].ver \in Int /\ last[j].ver <= clock
    BY <2>1 DEF LastBounded, Cell, None
  <2>3. \A j \in Keys : last'[j] = IF j = k THEN [ver |-> clock + 1, del |-> del] ELSE last[j]
    BY <2>1
  <2>4. QED
    BY <2>1, <2>2, <2>3 DEF LastBounded
<1>2. CASE UNCHANGED vars
  BY <1>2 DEF vars, LastBounded
<1>3. QED
  BY <1>1, <1>2 DEF Next, Put, Del, WriteInBuffer, WriteAfterFlush

\* A write of key w leaves the last writes of other keys, and gives w one that
\* is not the one it had.
LEMMA StampLast ==
  ASSUME TypeOK, LastBounded, NEW w \in Keys, NEW del \in BOOLEAN, Stamp(w, del), NEW k \in Keys
  PROVE  /\ k # w => last'[k] = last[k]
         /\ k = w => last'[k] # last[k] /\ CellOf(NewEntry(w, del)) = last'[k]
<1>1. /\ last \in [Keys -> Cell \cup {None}] /\ clock \in Nat
      /\ last' = [last EXCEPT ![w] = [ver |-> clock + 1, del |-> del]]
  BY DEF TypeOK, Stamp
<1>2. last[w].ver \in Int /\ last[w].ver <= clock
  BY <1>1 DEF LastBounded, Cell, None
<1>3. last'[w] = [ver |-> clock + 1, del |-> del]
  BY <1>1
<1>4. last'[w].ver # last[w].ver
  BY <1>1, <1>2, <1>3
<1>5. QED
  BY <1>1, <1>3, <1>4 DEF CellOf, NewEntry

\* First is the one position before all others.
LEMMA FirstUnique ==
  ASSUME NEW P, P \subseteq Nat \X Nat, NEW f \in P, \A q \in P : q # f => Before(f, q)
  PROVE  First(P) = f
<1>1. First(P) \in P /\ \A q \in P : q # First(P) => Before(First(P), q)
  BY DEF First
<1>2. ASSUME First(P) # f
      PROVE  FALSE
  <2>1. Before(f, First(P)) /\ Before(First(P), f)
    BY <1>1, <1>2
  <2>2. f[1] \in Nat /\ f[2] \in Nat /\ First(P)[1] \in Nat /\ First(P)[2] \in Nat
    BY <1>1
  <2>3. QED
    BY <2>1, <2>2 DEF Before
<1>3. QED
  BY <1>2

\* A write that finds room becomes the newest copy of its key, and changes that
\* of no other.
LEMMA BufferWriteNewest ==
  ASSUME TypeOK, LastBounded, NEW w \in Keys, NEW del \in BOOLEAN, WriteInBuffer(w, del),
         NEW k \in Keys \ {0}
  PROVE  Newest(k)' = IF last'[k] = last[k] THEN Newest(k) ELSE last'[k]
<1> DEFINE n == Len(store)
<1>1. /\ store \in Seq(Entry) /\ levels' = levels /\ Stamp(w, del)
      /\ store' = Append(store, NewEntry(w, del))
  BY DEF TypeOK, WriteInBuffer
<1>2. n \in Nat /\ DOMAIN store = 1..n /\ DOMAIN store' = 1..n + 1
  BY <1>1
<1>3. /\ \A i \in 1..n : store'[i] = store[i]
      /\ store'[n + 1] = NewEntry(w, del)
  BY <1>1
<1> HIDE DEF n
\* The last write of a key is the greatest position that has the key.
<1>4. ASSUME NEW m \in DOMAIN store', store'[m].key = k,
             \A j \in DOMAIN store' : store'[j].key = k => j <= m
      PROVE  LastWrite(k)' = m
  <2>1. /\ LastWrite(k)' \in DOMAIN store' /\ store'[LastWrite(k)'].key = k
        /\ \A j \in DOMAIN store' : store'[j].key = k => j <= LastWrite(k)'
    BY <1>4 DEF LastWrite
  <2>2. LastWrite(k)' <= m /\ m <= LastWrite(k)'
    BY <1>4, <2>1
  <2>3. QED
    BY <1>2, <2>1, <2>2
<1>5. CASE k = w
  <2>1. store'[n + 1].key = k
    BY <1>3, <1>5 DEF NewEntry
  <2>2. n + 1 \in DOMAIN store' /\ \A j \in DOMAIN store' : j <= n + 1
    BY <1>2
  <2>3. LastWrite(k)' = n + 1 /\ k \in BufferKeys'
    BY <1>4, <2>1, <2>2 DEF BufferKeys
  <2>4. Newest(k)' = CellOf(NewEntry(w, del))
    BY <1>3, <2>3 DEF Newest, CellOf
  <2>5. QED
    BY <1>1, <1>5, <2>4, StampLast
<1>6. CASE k # w
  <2>1. store'[n + 1].key # k
    BY <1>3, <1>6 DEF NewEntry
  <2>2. k \in BufferKeys' <=> k \in BufferKeys
    BY <1>2, <1>3, <2>1 DEF BufferKeys
  <2>3. CASE k \in BufferKeys
    <3>1. /\ LastWrite(k) \in 1..n /\ store[LastWrite(k)].key = k
          /\ \A j \in 1..n : store[j].key = k => j <= LastWrite(k)
      BY <1>1, <1>2, <2>3, LastWriteIsWrite
    <3>2. /\ LastWrite(k) \in DOMAIN store' /\ store'[LastWrite(k)].key = k
          /\ \A j \in DOMAIN store' : store'[j].key = k => j <= LastWrite(k)
      BY <1>2, <1>3, <2>1, <3>1
    <3>3. LastWrite(k)' = LastWrite(k)
      BY <1>4, <3>2
    <3>4. QED
      BY <1>1, <1>3, <1>6, <2>2, <2>3, <3>1, <3>3, StampLast DEF Newest, CellOf
  <2>4. CASE k \notin BufferKeys
    <3>1. Holders(k)' = Holders(k) /\ \A p : RunAt(p)' = RunAt(p)
      BY <1>1 DEF Holders, Positions, RunAt
    <3>2. Newest(k)' = Newest(k)
      BY <2>2, <2>4, <3>1 DEF Newest
    <3>3. QED
      BY <1>1, <1>6, <3>2, StampLast
  <2>5. QED
    BY <2>3, <2>4
<1>7. QED
  BY <1>5, <1>6

\* What a compaction puts in the new run for a readable key that is in the
\* buffer or whose newest copy is merged; when it is not, nothing.
LEMMA MergeMapNewest ==
  ASSUME TypeOK, NEW bit \in BOOLEAN, NEW k \in Keys \ {0}, Readable(k)
  PROVE  /\ k \in BufferKeys => MergeMap(bit)[k] = Newest(k)
         /\ k \notin BufferKeys /\ First(Holders(k)) \in Merged
              => MergeMap(bit)[k] = Newest(k)
         /\ k \notin BufferKeys /\ First(Holders(k)) \notin Merged
              => /\ MergeMap(bit)[k] = None
                 /\ \A q \in Holders(k) : q[1] >= Target
<1> DEFINE loaded == [p \in Merged |-> LoadFullFile(RunAt(p), bit)]
           having == {p \in Merged : loaded[p][k] # None}
           f == First(Holders(k))
<1>1. /\ levels \in Seq(Seq(Run)) /\ Target \in Nat
      /\ \A p \in Positions : p = <<p[1], p[2]>> /\ p[1] \in Nat /\ p[2] \in Nat /\ RunAt(p) \in Run
  BY PositionsType, TargetType DEF TypeOK
<1>2. Merged \subseteq Positions /\ Holders(k) \subseteq Positions
  BY DEF Merged, Holders
<1>3. MergeMap(bit)[k] = IF k \in BufferKeys THEN CellOf(store[LastWrite(k)])
                         ELSE IF having = {} THEN None ELSE loaded[First(having)][k]
  BY DEF MergeMap
<1>4. having \subseteq Holders(k)
  <2>1. ASSUME NEW p \in having
        PROVE  p \in Holders(k)
    <3>1. p \in Positions /\ RunAt(p) \in Run /\ LoadFullFile(RunAt(p), bit)[k] # None
      BY <1>1, <1>2, <2>1
    <3>2. RunAt(p)[k] # None
      BY <3>1, LoadType
    <3>3. QED
      BY <3>1, <3>2 DEF Holders
  <2>2. QED
    BY <2>1
<1>5. ASSUME k \in BufferKeys
      PROVE  MergeMap(bit)[k] = Newest(k)
  BY <1>3, <1>5 DEF Newest
<1>6. ASSUME k \notin BufferKeys
      PROVE  /\ Holders(k) # {} /\ f \in Holders(k) /\ k \in InFullPage(RunAt(f))
             /\ Newest(k) = RunAt(f)[k]
             /\ \A q \in Holders(k) : q # f => Before(f, q)
  <2>1. Holders(k) # {} /\ k \in InFullPage(RunAt(f))
    BY <1>6 DEF Readable
  <2>2. QED
    BY <1>1, <1>2, <1>6, <2>1, FirstIsFirst DEF Newest
<1> HIDE DEF f
<1>7. ASSUME k \notin BufferKeys, f \in Merged
      PROVE  MergeMap(bit)[k] = Newest(k)
  <2>1. LoadFullFile(RunAt(f), bit)[k] = RunAt(f)[k]
    BY <1>6, <1>7 DEF LoadFullFile
  <2>2. loaded[f][k] = RunAt(f)[k] /\ RunAt(f)[k] # None
    BY <1>6, <1>7, <2>1 DEF Holders
  <2>3. f \in having
    BY <1>7, <2>2
  <2>4. having \subseteq Nat \X Nat
    BY <1>1, <1>2, <1>4
  <2>5. \A q \in having : q # f => Before(f, q)
    BY <1>4, <1>6, <1>7
  <2> HIDE DEF having
  <2>6. First(having) = f
    BY <2>3, <2>4, <2>5, FirstUnique
  <2>7. QED
    BY <1>3, <1>6, <1>7, <2>2, <2>3, <2>6
<1>8. ASSUME k \notin BufferKeys, f \notin Merged
      PROVE  /\ MergeMap(bit)[k] = None
             /\ \A q \in Holders(k) : q[1] >= Target
  <2>1. f \in Positions /\ f[1] >= Target
    BY <1>1, <1>2, <1>6, <1>8 DEF Merged
  <2>2. ASSUME NEW q \in Holders(k)
        PROVE  q[1] >= Target
    <3>1. q \in Positions /\ (q # f => Before(f, q))
      BY <1>2, <1>6, <1>8
    <3>2. QED
      BY <1>1, <2>1, <3>1 DEF Before
  <2>3. ASSUME NEW p \in having
        PROVE  FALSE
    <3>1. p \in Merged /\ p \in Holders(k)
      BY <1>4
    <3>2. p[1] \in Nat /\ p[1] < Target
      BY <1>1, <1>2, <3>1 DEF Merged
    <3>3. QED
      BY <1>1, <2>2, <3>1, <3>2
  <2>4. having = {}
    BY <2>3
  <2>5. QED
    BY <1>3, <1>8, <2>2, <2>4
<1>9. QED
  BY <1>5, <1>7, <1>8 DEF f

\* A compaction keeps the newest copy of a key it can read.
LEMMA FlushNewest ==
  ASSUME TypeOK, LastBounded, NEW w \in Keys, NEW del \in BOOLEAN, WriteAfterFlush(w, del),
         NEW k \in Keys \ {0}, Readable(k)
  PROVE  Newest(k)' = IF last'[k] = last[k] THEN Newest(k) ELSE last'[k]
<1>1. PICK bit \in BOOLEAN : levels' = LevelsAfter(MergeMap(bit))
  BY DEF WriteAfterFlush
<1> DEFINE m == MergeMap(bit)
           new == NewPosition
<1>2. /\ levels \in Seq(Seq(Run)) /\ m \in Run /\ Stamp(w, del)
      /\ store' = <<NewEntry(w, del)>>
  BY MergeMapOrigin DEF TypeOK, WriteAfterFlush
<1>3. /\ Target \in Nat
      /\ \A p \in Positions : /\ p = <<p[1], p[2]>> /\ p[1] \in 1..Len(levels)
                              /\ p[2] \in 1..Len(levels[p[1]]) /\ levels[p[1]] \in Seq(Run)
  BY <1>2, PositionsType, TargetType
<1>4. /\ \A p \in Positions' : \/ p \in Positions /\ p[1] >= Target /\ RunAt(p)' = RunAt(p)
                               \/ p = new /\ RunAt(p)' = m
      /\ \A p \in Positions : p[1] >= Target => p \in Positions' /\ RunAt(p)' = RunAt(p)
      /\ \A p : p = new => p \in Positions' /\ RunAt(p)' = m
  BY <1>1, <1>2, LevelsAfterShape
<1>5. new \in Nat \X Nat /\ new[1] = Target
      /\ (Target <= Len(levels) => new[2] = Len(levels[Target]) + 1)
  <2>1. Target <= Len(levels) => Len(levels[Target]) \in Nat
    BY <1>2, TargetType
  <2>2. QED
    BY <1>2, <1>3, <2>1, TargetType DEF NewPosition
<1> HIDE DEF m, new
<1>6. ASSUME NEW p \in Positions, p[1] >= Target
      PROVE  Before(new, p)
  <2>1. CASE p[1] > Target
    BY <1>3, <1>5, <2>1 DEF Before
  <2>2. CASE p[1] = Target
    BY <1>3, <1>5, <2>2 DEF Before
  <2>3. QED
    BY <1>3, <1>6, <2>1, <2>2
<1>7. CASE k = w
  <2>1. DOMAIN store' = {1} /\ store'[1] = NewEntry(w, del) /\ store'[1].key = k
    BY <1>2, <1>7 DEF NewEntry
  <2>2. k \in BufferKeys' /\ LastWrite(k)' = 1
    BY <2>1 DEF BufferKeys, LastWrite
  <2>3. Newest(k)' = CellOf(NewEntry(w, del))
    BY <2>1, <2>2 DEF Newest, CellOf
  <2>4. QED
    BY <1>2, <1>7, <2>3, StampLast
<1>8. CASE k # w
  <2>1. k \notin BufferKeys'
    BY <1>2, <1>8 DEF BufferKeys, NewEntry
  <2>2. last'[k] = last[k]
    BY <1>2, <1>8, StampLast
  <2>3. Holders(k)' \subseteq Nat \X Nat
    <3>1. ASSUME NEW p \in Positions'
          PROVE  p \in Nat \X Nat
      BY <1>3, <1>4, <1>5
    <3>2. QED
      BY <3>1 DEF Holders
  <2>4. ASSUME NEW f \in Holders(k)', \A q \in Holders(k)' : q # f => Before(f, q)
        PROVE  Newest(k)' = RunAt(f)'[k]
    <3>1. First(Holders(k)') = f
      BY <2>3, <2>4, FirstUnique
    <3>2. QED
      BY <2>1, <2>4, <3>1 DEF Newest, RunAt, First, Before
  <2>5. CASE m[k] = Newest(k) /\ m[k] # None
    <3>1. \A p : p = new => p \in Holders(k)' /\ RunAt(p)' = m
      BY <1>4, <2>5 DEF Holders
    <3>2. \A q \in Holders(k)' : q # new => Before(new, q)
      BY <1>4, <1>6 DEF Holders
    <3>3. \A p : p = new => Newest(k)' = RunAt(p)'[k]
      BY <2>4, <3>1, <3>2
    <3>4. QED
      BY <2>2, <2>5, <3>1, <3>3
  <2>6. CASE k \notin BufferKeys /\ m[k] = None /\ \A q \in Holders(k) : q[1] >= Target
    <3> DEFINE f == First(Holders(k))
    <3>1. /\ Holders(k) # {} /\ Holders(k) \subseteq Positions
          /\ Newest(k) = RunAt(f)[k]
      BY <2>6 DEF Readable, Holders, Newest
    <3>2. f \in Holders(k) /\ \A q \in Holders(k) : q # f => Before(f, q)
      BY <1>2, <3>1, FirstIsFirst
    <3> HIDE DEF f
    <3>3. \A p \in Holders(k) : p \in Holders(k)' /\ RunAt(p)' = RunAt(p)
      BY <1>4, <2>6 DEF Holders
    <3>4. \A q \in Holders(k)' : q \in Holders(k)
      BY <1>4, <2>6 DEF Holders
    <3>5. \A p : p = f => Newest(k)' = RunAt(p)'[k]
      BY <2>4, <3>2, <3>3, <3>4
    <3>6. \A p : p = f => RunAt(p)' = RunAt(p)
      BY <3>2, <3>3
    <3>7. QED
      BY <2>2, <3>1, <3>5, <3>6
  \* The newest copy of a readable key is one.
  <2>7. Newest(k) # None
    <3>1. CASE k \in BufferKeys
      <4>1. LastWrite(k) \in DOMAIN store /\ store \in Seq(Entry)
        BY <3>1, LastWriteIsWrite DEF TypeOK
      <4>2. CellOf(store[LastWrite(k)]).ver \in Nat
        <5>1. store[LastWrite(k)] \in Entry
          BY <4>1
        <5>2. QED
          BY <5>1 DEF CellOf, Entry
      <4>3. QED
        BY <3>1, <4>2 DEF Newest, None
    <3>2. CASE k \notin BufferKeys
      <4>1. Holders(k) # {} /\ Holders(k) \subseteq Positions
        BY <3>2 DEF Readable, Holders
      <4>2. First(Holders(k)) \in Holders(k)
        BY <1>2, <4>1, FirstIsFirst
      <4>3. QED
        BY <3>2, <4>1, <4>2 DEF Newest, Holders
    <3>3. QED
      BY <3>1, <3>2
  <2>8. QED
    BY <2>5, <2>6, <2>7, MergeMapNewest DEF m
<1>9. QED
  BY <1>7, <1>8

\* NewestCopySurvives holds of every step: a compaction may lose older copies
\* and pages it cannot read, never the newest copy of a key when it can read it.
THEOREM NewestCorrect == Spec => NewestCopySurvives
<1> DEFINE A == \A k \in Keys \ {0} :
                  Readable(k) => Newest(k)' = IF last'[k] = last[k] THEN Newest(k) ELSE last'[k]
<1>1. Init => LastBounded
  BY DEF Init, LastBounded, None
<1>2. TypeOK /\ LastBounded /\ [Next]_vars => [A]_vars
  <2> SUFFICES ASSUME TypeOK, LastBounded, Next PROVE A
    OBVIOUS
  <2>1. ASSUME NEW k \in Keys \ {0}, Readable(k),
               NEW w \in Keys, NEW del \in BOOLEAN,
               WriteInBuffer(w, del) \/ WriteAfterFlush(w, del)
        PROVE  Newest(k)' = IF last'[k] = last[k] THEN Newest(k) ELSE last'[k]
    BY <2>1, BufferWriteNewest, FlushNewest
  <2>2. QED
    BY <2>1 DEF Next, Put, Del
<1>3. QED
  BY <1>1, <1>2, InitType, NextType, NextLastBounded, PTL DEF Spec, NewestCopySurvives
-----------------------------------------------------------------------------
(* The levels count the compactions *)

LEMMA PowerFacts ==
  /\ \A n \in Nat : Power[n] \in Nat /\ Power[n] > 0
  /\ Power[0] = 1
  /\ \A n \in Nat : Power[n + 1] = LevelRatio * Power[n]
<1> DEFINE times == [n \in Nat |-> [v \in Nat |-> LevelRatio * v]]
           grows == {n \in Nat : Power[n] \in Nat /\ Power[n] > 0}
<1>1. LevelRatio \in Nat /\ LevelRatio > 0
  BY SizeAssumption
<1>2. PICK f \in [Nat -> Nat] : f[0] = 1 /\ \A n \in Nat : f[n + 1] = times[n][f[n]]
  <2>1. times \in [Nat -> [Nat -> Nat]]
    BY <1>1
  <2> HIDE DEF times
  <2>2. \A a \in Nat : \E f : Recurs(f, Nat, a, times)
    BY <2>1, Recursion
  <2>3. QED
    BY <2>2 DEF Recurs
<1>3. f = [n \in Nat |-> IF n = 0 THEN 1 ELSE LevelRatio * f[n - 1]]
  <2>1. ASSUME NEW n \in Nat, n # 0 PROVE f[n] = LevelRatio * f[n - 1]
    <3>1. n - 1 \in Nat /\ n - 1 + 1 = n
      BY <2>1
    <3>2. f[n - 1 + 1] = LevelRatio * f[n - 1]
      BY <1>2, <3>1
    <3>3. QED
      BY <3>1, <3>2
  <2>2. QED
    BY <1>2, <2>1
<1>4. Power = [n \in Nat |-> IF n = 0 THEN 1 ELSE LevelRatio * Power[n - 1]]
  BY <1>3 DEF Power
<1>5. Power[0] = 1
  BY <1>4
<1>6. \A n \in Nat : Power[n + 1] = LevelRatio * Power[n]
  <2>1. ASSUME NEW n \in Nat PROVE Power[n + 1] = LevelRatio * Power[n]
    <3>1. n + 1 \in Nat /\ n + 1 # 0 /\ n + 1 - 1 = n
      OBVIOUS
    <3>2. QED
      BY <1>4, <3>1
  <2>2. QED
    BY <2>1
<1>7. Nat \subseteq grows
  <2>1. 0 \in grows
    BY <1>5
  <2>2. ASSUME NEW n \in Nat, n \in grows PROVE n + 1 \in grows
    <3>1. PICK p \in Nat : p = Power[n] /\ p > 0
      BY <2>2
    <3>2. LevelRatio * p \in Nat /\ LevelRatio * p > 0
      BY <1>1, <3>1
    <3>3. QED
      BY <1>6, <3>1, <3>2
  <2> HIDE DEF grows
  <2>3. QED
    BY <2>1, <2>2, Induct
<1>8. QED
  BY <1>5, <1>6, <1>7

\* The weight of some levels, one level at a time.
LEMMA WeightFacts ==
  ASSUME NEW S, NEW ls \in Seq(Seq(S))
  PROVE  /\ \A i \in 0..Len(ls) : Weight(ls)[i] \in Nat
         /\ Weight(ls)[0] = 0
         /\ \A i \in 1..Len(ls) : Weight(ls)[i] = Weight(ls)[i - 1] + Len(ls[i]) * Power[i - 1]
<1> DEFINE weigh(i) == Len(ls[i]) * Power[i - 1]
           size == [i \in Nat |-> IF i \in 1..Len(ls) THEN weigh(i) ELSE 0]
           add == [n \in Nat |-> [v \in Nat |-> v + size[n + 1]]]
           W == Weight(ls)
           counted == {n \in Nat : n <= Len(ls) => W[n] \in Nat}
<1>1. Len(ls) \in Nat
  OBVIOUS
<1>2. \A i \in Nat : size[i] \in Nat
  <2>1. ASSUME NEW i \in 1..Len(ls) PROVE weigh(i) \in Nat
    <3>1. Len(ls[i]) \in Nat /\ i - 1 \in Nat
      OBVIOUS
    <3>2. PICK p \in Nat : p = Power[i - 1]
      BY <3>1, PowerFacts
    <3>3. Len(ls[i]) * p \in Nat
      BY <3>1
    <3>4. QED
      BY <3>2, <3>3
  <2> HIDE DEF weigh
  <2>2. QED
    BY <2>1
<1> HIDE DEF weigh
<1>3. \A i \in 1..Len(ls) : size[i] = weigh(i)
  BY <1>1
<1> HIDE DEF size
<1>4. PICK f \in [Nat -> Nat] : f[0] = 0 /\ \A n \in Nat : f[n + 1] = add[n][f[n]]
  <2>1. add \in [Nat -> [Nat -> Nat]]
    BY <1>2
  <2> HIDE DEF add
  <2>2. \A a \in Nat : \E f : Recurs(f, Nat, a, add)
    BY <2>1, Recursion
  <2>3. QED
    BY <2>2 DEF Recurs
<1> DEFINE g == [i \in 0..Len(ls) |-> f[i]]
<1>5. g = [i \in 0..Len(ls) |-> IF i = 0 THEN 0 ELSE g[i - 1] + weigh(i)]
  <2>1. ASSUME NEW i \in 1..Len(ls) PROVE g[i] = g[i - 1] + weigh(i)
    <3>1. i - 1 \in Nat /\ i - 1 + 1 = i /\ i \in 0..Len(ls) /\ i - 1 \in 0..Len(ls)
      BY <1>1
    <3>2. f[i] = f[i - 1] + size[i]
      BY <1>4, <3>1
    <3>3. QED
      BY <1>3, <3>1, <3>2
  <2>2. g[0] = 0
    BY <1>1, <1>4
  <2>3. g = [i \in 0..Len(ls) |-> g[i]]
    OBVIOUS
  <2> HIDE DEF g
  <2>4. \A i \in 0..Len(ls) : g[i] = IF i = 0 THEN 0 ELSE g[i - 1] + weigh(i)
    <3>1. \A i \in 0..Len(ls) : i = 0 \/ i \in 1..Len(ls)
      BY <1>1
    <3>2. QED
      BY <2>1, <2>2, <3>1
  <2>5. QED
    BY <2>3, <2>4
<1> HIDE DEF g
<1>6. W = [i \in 0..Len(ls) |-> IF i = 0 THEN 0 ELSE W[i - 1] + weigh(i)]
  BY Zenon, <1>5 DEF Weight, weigh
<1> HIDE DEF W
<1>7. W[0] = 0
  BY <1>1, <1>6
<1>8. \A i \in 1..Len(ls) : W[i] = W[i - 1] + weigh(i)
  <2>1. \A i \in 1..Len(ls) : i \in 0..Len(ls) /\ i # 0
    BY <1>1
  <2>2. QED
    BY <1>6, <2>1
<1>9. Nat \subseteq counted
  <2>1. 0 \in counted
    BY <1>7
  <2>2. ASSUME NEW n \in Nat, n \in counted PROVE n + 1 \in counted
    <3>1. ASSUME NEW i \in 1..Len(ls), W[i - 1] \in Nat PROVE W[i] \in Nat
      <4>1. W[i] = W[i - 1] + size[i]
        BY <1>3, <1>8
      <4>2. size[i] \in Nat
        BY <1>2
      <4>3. \A a, b \in Nat : a + b \in Nat
        OBVIOUS
      <4>4. QED
        BY Zenon, <3>1, <4>1, <4>2, <4>3
    <3>2. SUFFICES ASSUME n + 1 <= Len(ls) PROVE W[n + 1] \in Nat
      OBVIOUS
    <3>3. \A i : i = n + 1 => i \in 1..Len(ls) /\ W[i - 1] \in Nat
      BY <1>1, <2>2, <3>2
    <3>4. QED
      BY <3>1, <3>3
  <2> HIDE DEF counted
  <2>3. QED
    BY <2>1, <2>2, Induct
<1>10. QED
  BY <1>1, <1>7, <1>8, <1>9 DEF W, weigh

\* Levels that are full count as far as the weight of the level below them.
LEMMA FullWeight ==
  ASSUME NEW S, NEW ls \in Seq(Seq(S)), NEW t \in 1..Len(ls) + 1,
         \A j \in 1..t - 1 : Len(ls[j]) = LevelRatio - 1
  PROVE  Weight(ls)[t - 1] + 1 = Power[t - 1]
<1> DEFINE W == Weight(ls)
           good == {n \in Nat : n <= t - 1 => W[n] + 1 = Power[n]}
<1>1. t \in Nat /\ Len(ls) \in Nat /\ t <= Len(ls) + 1
  OBVIOUS
<1>2. 0 \in good
  <2>1. W[0] = 0
    BY WeightFacts
  <2>2. Power[0] = 1
    BY PowerFacts
  <2> HIDE DEF W
  <2>3. W[0] + 1 = Power[0]
    BY <2>1, <2>2
  <2>4. QED
    BY <2>3
<1>3. ASSUME NEW n \in Nat, n \in good PROVE n + 1 \in good
  <2>1. SUFFICES ASSUME n + 1 <= t - 1 PROVE W[n + 1] + 1 = Power[n + 1]
    OBVIOUS
  <2>2. n + 1 \in 1..t - 1 /\ n + 1 \in 1..Len(ls) /\ n \in 0..Len(ls) /\ n + 1 - 1 = n
    BY <1>1, <2>1
  <2>3. PICK w \in Nat : w = W[n]
    BY <2>2, WeightFacts
  <2>4. PICK p \in Nat : p = Power[n]
    BY PowerFacts
  <2>5. w + 1 = p
    BY <1>1, <1>3, <2>1, <2>3, <2>4
  <2>6. Power[n + 1] = LevelRatio * p
    BY <2>4, PowerFacts
  <2>7. W[n + 1] = w + (LevelRatio - 1) * p
    <3>1. \A i \in 1..Len(ls) : W[i] = W[i - 1] + Len(ls[i]) * Power[i - 1]
      BY WeightFacts
    <3> HIDE DEF W
    <3>2. W[n + 1] = W[n] + Len(ls[n + 1]) * Power[n]
      <4>1. \A i : i = n + 1 => W[i] = W[i - 1] + Len(ls[i]) * Power[i - 1] /\ i - 1 = n
        BY <2>2, <3>1
      <4>2. QED
        BY <4>1
    <3>3. Len(ls[n + 1]) = LevelRatio - 1
      BY <2>2
    <3>4. QED
      BY <2>3, <2>4, <3>2, <3>3
  <2>8. LevelRatio \in Nat
    BY SizeAssumption
  <2>9. w + (LevelRatio - 1) * p + 1 = LevelRatio * p
    BY <2>5, <2>8
  <2>10. QED
    BY <2>6, <2>7, <2>9
<1>4. Nat \subseteq good
  <2> HIDE DEF good
  <2>1. QED
    BY <1>2, <1>3, Induct
<1>5. t - 1 \in Nat
  BY <1>1
<1>6. QED
  BY <1>1, <1>4, <1>5

\* A run that is pushed into the level below the full ones, which are cleared,
\* counts for one more: as a digit that is carried.
LEMMA PushedWeight ==
  ASSUME NEW S, NEW ls \in Seq(Seq(S)), NEW t \in 1..Len(ls) + 1,
         \A j \in 1..t - 1 : Len(ls[j]) = LevelRatio - 1,
         NEW x \in S, NEW ls2 \in Seq(Seq(S)), IsPushed(ls2, ls, t, x)
  PROVE  Weight(ls2)[Len(ls2)] = Weight(ls)[Len(ls)] + 1
<1> DEFINE V == Weight(ls)
           W == Weight(ls2)
           empty == {n \in Nat : n < t => W[n] = 0}
           more == {n \in Nat : t <= n /\ n <= Len(ls) => W[n] = V[n] + 1}
<1>1. t \in Nat /\ t > 0 /\ Len(ls) \in Nat /\ Len(ls2) \in Nat /\ t <= Len(ls) + 1
  OBVIOUS
<1>2. Len(ls2) = IF t > Len(ls) THEN t ELSE Len(ls)
  BY DEF IsPushed
<1>3. /\ \A i \in 1..Len(ls) : V[i] = V[i - 1] + Len(ls[i]) * Power[i - 1]
      /\ \A i \in 0..Len(ls) : V[i] \in Nat
  BY WeightFacts
<1>4. /\ \A i \in 1..Len(ls2) : W[i] = W[i - 1] + Len(ls2[i]) * Power[i - 1]
      /\ \A i \in 0..Len(ls2) : W[i] \in Nat
      /\ W[0] = 0
  BY WeightFacts
<1>5. PICK p \in Nat : p = Power[t - 1]
  <2>1. t - 1 \in Nat
    BY <1>1
  <2>2. Power[t - 1] \in Nat
    BY <2>1, PowerFacts
  <2>3. QED
    BY <2>2
<1>6. V[t - 1] + 1 = p /\ V[t - 1] \in Nat
  <2>1. t - 1 \in 0..Len(ls)
    BY <1>1
  <2>2. QED
    BY <1>3, <1>5, <2>1, FullWeight
<1> HIDE DEF V, W
<1>7. Nat \subseteq empty
  <2>1. 0 \in empty
    BY <1>4
  <2>2. ASSUME NEW n \in Nat, n \in empty PROVE n + 1 \in empty
    <3>1. ASSUME NEW i \in 1..Len(ls2), i < t, W[i - 1] = 0 PROVE W[i] = 0
      <4>1. ls2[i] = <<>>
        BY <3>1 DEF IsPushed
      <4>2. Len(ls2[i]) = 0
        BY <4>1
      <4>3. PICK p0 \in Nat : p0 = Power[i - 1]
        <5>1. i - 1 \in Nat
          OBVIOUS
        <5>2. Power[i - 1] \in Nat
          BY <5>1, PowerFacts
        <5>3. QED
          BY <5>2
      <4>4. W[i] = W[i - 1] + Len(ls2[i]) * p0
        BY <1>4, <4>3
      <4>5. 0 + 0 * p0 = 0
        OBVIOUS
      <4>6. QED
        BY <3>1, <4>2, <4>4, <4>5
    <3>2. SUFFICES ASSUME n + 1 < t PROVE W[n + 1] = 0
      OBVIOUS
    <3>3. \A i : i = n + 1 => i \in 1..Len(ls2) /\ i < t /\ W[i - 1] = 0
      BY <1>1, <1>2, <2>2, <3>2
    <3>4. QED
      BY <3>1, <3>3
  <2> HIDE DEF empty
  <2>3. QED
    BY <2>1, <2>2, Induct
<1>8. W[t] = Len(ls2[t]) * p
  <2>1. t \in 1..Len(ls2) /\ t - 1 \in Nat
    BY <1>1, <1>2
  <2>2. W[t - 1] = 0
    BY <1>1, <1>7, <2>1
  <2>3. W[t] = 0 + Len(ls2[t]) * p
    BY <1>4, <1>5, <2>1, <2>2
  <2>4. Len(ls2[t]) \in Nat
    BY <2>1
  <2>5. PICK l \in Nat : l = Len(ls2[t])
    BY <2>4
  <2>6. 0 + l * p = l * p
    OBVIOUS
  <2>7. QED
    BY <2>3, <2>5, <2>6
<1>9. CASE t > Len(ls)
  <2>1. t \in 1..Len(ls2) /\ Len(ls2) = t /\ t - 1 = Len(ls)
    BY <1>1, <1>2, <1>9
  <2>2. ls2[t] = <<x>>
    BY <1>9, <2>1 DEF IsPushed
  <2>3. Len(ls2[t]) = 1
    BY <2>2
  <2>4. W[t] = 1 * p
    BY <1>8, <2>3
  <2>5. QED
    BY <1>6, <2>1, <2>4 DEF V, W
<1>10. CASE t <= Len(ls)
  <2>1. t \in 1..Len(ls) /\ t \in 1..Len(ls2) /\ Len(ls2) = Len(ls)
    BY <1>1, <1>2, <1>10
  <2>2. ls2[t] = Append(ls[t], x) /\ ls[t] \in Seq(S)
    BY <1>1, <1>10, <2>1 DEF IsPushed
  <2>3. Len(ls[t]) \in Nat /\ Len(ls2[t]) = Len(ls[t]) + 1
    BY <2>2
  <2>4. W[t] = V[t] + 1
    <3>1. PICK l \in Nat : l = Len(ls[t])
      BY <2>3
    <3>2. W[t] = (l + 1) * p
      BY <1>8, <2>3, <3>1
    <3>3. V[t] = V[t - 1] + l * p
      BY <1>3, <1>5, <2>1, <3>1
    <3>4. PICK v \in Nat : v = V[t - 1] /\ v + 1 = p
      BY <1>6
    <3>5. (l + 1) * p = v + l * p + 1
      BY <3>4
    <3>6. QED
      BY <3>2, <3>3, <3>4, <3>5
  <2>5. Nat \subseteq more
    <3>1. 0 \in more
      BY <1>1
    <3>2. ASSUME NEW n \in Nat, n \in more PROVE n + 1 \in more
      <4>1. ASSUME NEW i \in 1..Len(ls), t < i, W[i - 1] = V[i - 1] + 1 PROVE W[i] = V[i] + 1
        <5>1. ls2[i] = ls[i] /\ i \in 1..Len(ls2)
          BY <2>1, <4>1 DEF IsPushed
        <5>2. ls[i] \in Seq(S) /\ i - 1 \in Nat /\ i - 1 \in 0..Len(ls)
          BY <1>1
        <5>3. PICK q \in Nat : q = Power[i - 1]
          BY <5>2, PowerFacts
        <5>4. PICK l \in Nat : l = Len(ls[i])
          BY <5>2
        <5>5. PICK v \in Nat : v = V[i - 1]
          BY <1>3, <5>2
        <5>6. W[i] = W[i - 1] + l * q
          BY <1>4, <5>1, <5>3, <5>4
        <5>7. V[i] = v + l * q
          BY <1>3, <5>3, <5>4, <5>5
        <5>8. W[i - 1] = v + 1
          BY <4>1, <5>5
        <5>9. v + 1 + l * q = v + l * q + 1
          OBVIOUS
        <5>10. QED
          BY <5>6, <5>7, <5>8, <5>9
      <4>2. SUFFICES ASSUME t <= n + 1, n + 1 <= Len(ls) PROVE W[n + 1] = V[n + 1] + 1
        OBVIOUS
      <4>3. CASE n + 1 = t
        BY <2>4, <4>3
      <4>4. CASE n + 1 # t
        <5>1. \A i : i = n + 1 => i \in 1..Len(ls) /\ t < i /\ W[i - 1] = V[i - 1] + 1
          BY <1>1, <3>2, <4>2, <4>4
        <5>2. QED
          BY <4>1, <5>1
      <4>5. QED
        BY <4>3, <4>4
    <3> HIDE DEF more
    <3>3. QED
      BY <3>1, <3>2, Induct
  <2>6. QED
    BY <1>1, <1>10, <2>1, <2>5 DEF V, W
<1>11. QED
  BY <1>1, <1>9, <1>10

\* No level is full with the run that is pushed when its level was not before.
LEMMA PushedKeepsRoom ==
  ASSUME NEW S, NEW ls \in Seq(Seq(S)), NEW t \in 1..Len(ls) + 1,
         t = Len(ls) + 1 \/ Len(ls[t]) # LevelRatio - 1,
         \A i \in DOMAIN ls : Len(ls[i]) < LevelRatio,
         NEW x \in S, NEW ls2 \in Seq(Seq(S)), IsPushed(ls2, ls, t, x)
  PROVE  \A i \in DOMAIN ls2 : Len(ls2[i]) < LevelRatio
<1>1. t \in Nat /\ Len(ls) \in Nat /\ DOMAIN ls2 = 1..Len(ls2) /\ DOMAIN ls = 1..Len(ls)
  OBVIOUS
<1>2. LevelRatio \in Nat /\ LevelRatio > 1
  BY SizeAssumption
<1>3. ASSUME NEW i \in 1..Len(ls2)
      PROVE  Len(ls2[i]) < LevelRatio
  <2>1. CASE i < t
    <3>1. ls2[i] = <<>>
      BY <2>1 DEF IsPushed
    <3>2. Len(ls2[i]) = 0
      BY <3>1
    <3>3. QED
      BY <1>2, <3>2
  <2>2. CASE i > t
    BY <1>1, <2>2 DEF IsPushed
  <2>3. CASE i = t /\ t > Len(ls)
    <3>1. ls2[i] = <<x>>
      BY <2>3 DEF IsPushed
    <3>2. Len(ls2[i]) = 1
      BY <3>1
    <3>3. QED
      BY <1>2, <3>2
  <2>4. CASE i = t /\ ~(t > Len(ls))
    <3>1. i \in 1..Len(ls) /\ ls2[i] = Append(ls[i], x) /\ ls[i] \in Seq(S)
      BY <2>4 DEF IsPushed
    <3>2. Len(ls[i]) \in Nat /\ Len(ls2[i]) = Len(ls[i]) + 1
      BY <3>1
    <3>3. Len(ls[i]) < LevelRatio /\ Len(ls[i]) # LevelRatio - 1
      BY <1>1, <2>4, <3>1
    <3>4. QED
      BY <1>2, <3>2, <3>3
  <2>5. QED
    BY <1>1, <2>1, <2>2, <2>3, <2>4
<1>4. QED
  BY <1>1, <1>3

LEMMA NextCount == TypeOK /\ RunsCountFlushes /\ [Next]_vars => RunsCountFlushes'
<1> SUFFICES ASSUME TypeOK, RunsCountFlushes, [Next]_vars PROVE RunsCountFlushes'
  OBVIOUS
<1>1. ASSUME levels' = levels, flushes' = flushes
      PROVE  RunsCountFlushes'
  BY <1>1 DEF RunsCountFlushes
<1>2. ASSUME NEW k \in Keys, NEW del \in BOOLEAN, WriteInBuffer(k, del)
      PROVE  RunsCountFlushes'
  BY <1>1, <1>2 DEF WriteInBuffer
<1>3. ASSUME NEW k \in Keys, NEW del \in BOOLEAN, WriteAfterFlush(k, del)
      PROVE  RunsCountFlushes'
  <2>1. PICK bit \in BOOLEAN : levels' = LevelsAfter(MergeMap(bit))
    BY <1>3 DEF WriteAfterFlush
  <2>2. MergeMap(bit) \in Run /\ levels \in Seq(Seq(Run)) /\ flushes' = flushes + 1
    BY <1>3, MergeMapOrigin DEF TypeOK, WriteAfterFlush
  <2>3. /\ Target \in 1..Len(levels) + 1
        /\ \A j \in 1..Target - 1 : Len(levels[j]) = LevelRatio - 1
        /\ Target = Len(levels) + 1 \/ Len(levels[Target]) # LevelRatio - 1
    BY <2>2, TargetType DEF Full
  <2>4. levels' = PushedInto(levels, Target, MergeMap(bit))
    BY <2>1 DEF LevelsAfter, PushedInto
  <2>5. levels' \in Seq(Seq(Run)) /\ IsPushed(levels', levels, Target, MergeMap(bit))
    BY <2>2, <2>3, <2>4, PushedIntoShape
  <2>6. \A i \in DOMAIN levels' : Len(levels'[i]) < LevelRatio
    BY <2>2, <2>3, <2>5, PushedKeepsRoom DEF RunsCountFlushes
  <2>7. Weight(levels')[Len(levels')] = Weight(levels)[Len(levels)] + 1
    BY <2>2, <2>3, <2>5, PushedWeight
  <2>8. Weight(levels)' = Weight(levels')
    BY DEF Weight
  <2>9. QED
    BY <2>2, <2>6, <2>7, <2>8 DEF RunsCountFlushes
<1>4. CASE UNCHANGED vars
  BY <1>1, <1>4 DEF vars
<1>5. QED
  BY <1>2, <1>3, <1>4 DEF Next, Put, Del

\* RunsCountFlushes holds in every state: each call of merge_policy adds one to
\* what the runs of the levels stand for, whatever levels it clears, so the
\* number of levels is logarithmic in the number of calls.
THEOREM CountCorrect == Spec => []RunsCountFlushes
<1>1. Init => RunsCountFlushes
  <2> SUFFICES ASSUME Init PROVE RunsCountFlushes
    OBVIOUS
  <2>1. levels \in Seq(Seq(Run)) /\ Len(levels) = 1 /\ levels[1] = <<>> /\ flushes = 0
    BY DEF Init
  <2>2. Len(levels[1]) = 0 /\ DOMAIN levels = {1}
    BY <2>1
  <2>3. Power[0] = 1
    BY PowerFacts
  <2>4. Weight(levels)[0] = 0 /\ Weight(levels)[1] = Weight(levels)[1 - 1] + Len(levels[1]) * Power[1 - 1]
    BY <2>1, WeightFacts
  <2>5. Weight(levels)[1] = 0
    BY <2>2, <2>3, <2>4
  <2>6. LevelRatio > 0
    BY SizeAssumption
  <2>7. QED
    BY <2>1, <2>2, <2>5, <2>6 DEF RunsCountFlushes
<1>2. QED
  BY <1>1, NextCount, InitType, NextType, PTL DEF Spec
=============================================================================
