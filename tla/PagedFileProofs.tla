----------------------------- MODULE PagedFileProofs -----------------------------
(***************************************************************************)
(* Proofs about PagedFile and BufferSort.  What is read back of a file is  *)
(* what was written to it, for every set of keys, size of a page and       *)
(* vector of entries.  What a compaction makes of the buffer, with any     *)
(* number of threads, is the last write of each key of it.                 *)
(***************************************************************************)
EXTENDS PagedFile, BufferSort, FiniteSetTheorems, FunctionTheorems, SequenceTheorems, TLAPS

\* The lemmas on numbers, and the runs of module TieredTree.
P == INSTANCE TieredTreeProofs WITH
       BufferSize <- 1, LevelRatio <- 2, MaxWrites <- 0,
       store <- <<>>, levels <- <<>>, clock <- 0, last <- <<>>, flushes <- 0

LEMMA SameConstants == /\ Keys \subseteq Int /\ 0 \in Keys /\ P!IsFiniteSet(Keys)
                       /\ 1 \in Nat \ {0} /\ 2 \in Nat \ {0, 1}
                       /\ PageSize \in Nat \ {0} /\ 0 \in Nat
BY KeysAssumption, PageAssumption DEF P!IsFiniteSet, IsFiniteSet
-----------------------------------------------------------------------------
(* Multiples and quotients *)

LEMMA Multiples ==
  ASSUME NEW a \in Int, NEW b \in Int, NEW d \in Nat
  PROVE  /\ a * d \in Int /\ (a + b) * d = a * d + b * d /\ (a - b) * d = a * d - b * d
         /\ a <= b => a * d <= b * d
         /\ a \in Nat => a * d \in Nat
         /\ a * (d + 1) = a * d + a
         /\ (a + 1) * d = a * d + d
         /\ (a + 1) * (d + 1) = a * d + a + d + 1
         /\ (a - 1) * d = a * d - d
OBVIOUS

LEMMA Quotient ==
  ASSUME NEW q \in Nat, NEW d \in Nat \ {0}, NEW r \in 0..d - 1
  PROVE  (q * d + r) \div d = q /\ (q * d + r) % d = r
OBVIOUS

LEMMA Division ==
  ASSUME NEW a \in Nat, NEW d \in Nat \ {0}
  PROVE  /\ a \div d \in Nat
         /\ (a \div d) * d <= a /\ a < (a \div d) * d + d
<1>1. a \div d \in Nat
  OBVIOUS
<1>2. d * (a \div d) <= a /\ a < d * (a \div d) + d
  OBVIOUS
<1>3. \A q \in Nat : d * q = q * d
  OBVIOUS
<1>4. QED
  BY <1>1, <1>2, <1>3
-----------------------------------------------------------------------------
(* The vectors that are written *)

\* Entry i of v, as a vector holds it.
LEMMA VectorFacts ==
  ASSUME NEW v \in Vectors
  PROVE  /\ Len(v) \in Nat /\ DOMAIN v = 1..Len(v) /\ v = [i \in 1..Len(v) |-> v[i]]
         /\ Len(v) = 0 <=> v = <<>>
         /\ \A i \in 1..Len(v) : /\ v[i] = [key |-> v[i].key, ver |-> i, del |-> v[i].del]
                                 /\ v[i].key \in Keys /\ v[i].key \in Int /\ v[i].ver = i
                                 /\ v[i].del \in BOOLEAN
         /\ \A i, j \in 1..Len(v) : i < j => v[i].key < v[j].key
<1> DEFINE ordered(n) == {f \in [1..n -> Keys] : \A i, j \in 1..n : i < j => f[i] < f[j]}
<1>1. PICK n \in 0..Cardinality(Keys) : \E keys \in ordered(n), dels \in [1..n -> BOOLEAN] : v = Vector(keys, dels)
  BY DEF Vectors
<1>2. PICK keys \in ordered(n), dels \in [1..n -> BOOLEAN] : v = Vector(keys, dels)
  BY <1>1
<1>3. keys \in [1..n -> Keys] /\ \A i, j \in 1..n : i < j => keys[i] < keys[j]
  BY <1>2
<1>4. n \in Nat
  <2>1. Cardinality(Keys) \in Nat
    BY KeysAssumption, FS_CardinalityType
  <2>2. QED
    BY <2>1
<1> DEFINE entry(i) == [key |-> keys[i], ver |-> i, del |-> dels[i]]
<1>5. v = [i \in 1..n |-> entry(i)]
  BY <1>2, <1>3 DEF Vector
<1>6. \A i : entry(i).key = keys[i] /\ entry(i).ver = i /\ entry(i).del = dels[i]
  OBVIOUS
<1>7. \A i \in 1..n : keys[i] \in Keys /\ keys[i] \in Int /\ dels[i] \in BOOLEAN
  BY <1>2, <1>3, KeysAssumption
<1> HIDE DEF entry
<1>8. /\ Len(v) = n /\ DOMAIN v = 1..n /\ v = [i \in 1..n |-> v[i]]
      /\ \A i \in 1..n : v[i] = entry(i)
  BY <1>4, <1>5
<1>9. n = 0 <=> v = <<>>
  BY <1>4, <1>8
<1>10. ASSUME NEW i \in 1..n
       PROVE  /\ v[i] = [key |-> v[i].key, ver |-> i, del |-> v[i].del]
              /\ v[i].key = keys[i] /\ v[i].ver = i
              /\ v[i].del \in BOOLEAN
  <2>1. v[i] = entry(i)
    BY <1>8
  <2>2. v[i].key = keys[i] /\ v[i].ver = i /\ v[i].del = dels[i]
    BY Zenon, <1>6, <2>1
  <2>3. v[i] = [key |-> keys[i], ver |-> i, del |-> dels[i]]
    BY Zenon, <2>1 DEF entry
  <2>4. QED
    BY Zenon, <1>7, <2>2, <2>3
<1>11. \A i, j \in 1..n : i < j => v[i].key < v[j].key
  BY <1>3, <1>10
<1>12. \A i \in 1..n : v[i].key \in Keys /\ v[i].key \in Int
  BY <1>7, <1>10
<1>13. QED
  BY Zenon, <1>4, <1>8, <1>9, <1>10, <1>11, <1>12

\* The entries on page q of v, which has no other pages after it that are full.
Held(v, q) == IF (q + 1) * PageSize <= Len(v) THEN PageSize ELSE Len(v) - q * PageSize

LEMMA PageFacts ==
  ASSUME NEW v \in Vectors
  PROVE  /\ Pages(v) \in Nat /\ Len(v) \in Nat
         /\ Len(v) <= Pages(v) * PageSize
         /\ Pages(v) * PageSize < Len(v) + PageSize
         /\ Pages(v) = 0 <=> Len(v) = 0
         /\ \A q \in 0..Pages(v) - 1 :
              /\ Held(v, q) \in 1..PageSize
              /\ q * PageSize + Held(v, q) <= Len(v)
              /\ q < Pages(v) - 1 => Held(v, q) = PageSize
              /\ Held(v, q) # PageSize => q = Pages(v) - 1
              /\ q = Pages(v) - 1 => Held(v, q) = Len(v) - q * PageSize
<1>1. Len(v) \in Nat /\ PageSize \in Nat \ {0}
  BY VectorFacts, PageAssumption
<1> DEFINE n == Pages(v)
<1>2. n \in Nat /\ n * PageSize <= Len(v) + PageSize - 1 /\ Len(v) + PageSize - 1 < n * PageSize + PageSize
  <2>1. Len(v) + PageSize - 1 \in Nat
    BY <1>1
  <2>2. QED
    BY <1>1, <2>1, Division DEF Pages
<1> HIDE DEF n
<1>3. n * PageSize \in Int
  BY <1>1, <1>2, Multiples
<1>4. Len(v) <= n * PageSize /\ n * PageSize < Len(v) + PageSize
  BY <1>1, <1>2, <1>3
<1>5. n = 0 <=> Len(v) = 0
  <2>1. ASSUME n = 0 PROVE Len(v) = 0
    BY <1>1, <1>4, <2>1
  <2>2. ASSUME n # 0 PROVE n * PageSize >= PageSize
    <3>1. 1 <= n /\ 1 * PageSize = PageSize
      BY <1>1, <1>2, <2>2
    <3>2. 1 * PageSize <= n * PageSize
      BY <1>1, <1>2, <3>1, Multiples
    <3>3. QED
      BY <3>1, <3>2
  <2>3. QED
    BY <1>1, <1>3, <1>4, <2>1, <2>2
<1>6. ASSUME NEW q \in 0..n - 1
      PROVE  /\ Held(v, q) \in 1..PageSize
             /\ q * PageSize + Held(v, q) <= Len(v)
             /\ q < n - 1 => Held(v, q) = PageSize
             /\ Held(v, q) # PageSize => q = n - 1
             /\ q = n - 1 => Held(v, q) = Len(v) - q * PageSize
  <2>1. q \in Int /\ (q + 1) * PageSize = q * PageSize + PageSize /\ q * PageSize \in Int
    BY <1>1, <1>2, Multiples
  <2>2. (n - 1) * PageSize = n * PageSize - PageSize /\ q * PageSize <= (n - 1) * PageSize
    BY <1>1, <1>2, Multiples
  <2>3. q < n - 1 => (q + 1) * PageSize <= (n - 1) * PageSize
    BY <1>1, <1>2, Multiples
  <2>4. q = n - 1 => q * PageSize = n * PageSize - PageSize
    BY <2>2
  <2>5. CASE (q + 1) * PageSize <= Len(v)
    <3>1. Held(v, q) = PageSize
      BY <2>5 DEF Held
    <3>2. PICK x \in Int, y \in Int : x = q * PageSize /\ y = n * PageSize
      BY <1>3, <2>1
    <3>3. QED
      BY <1>1, <1>4, <2>1, <2>4, <2>5, <3>1, <3>2
  <2>6. CASE ~((q + 1) * PageSize <= Len(v))
    <3>1. Held(v, q) = Len(v) - q * PageSize
      BY <2>6 DEF Held
    <3>2. q = n - 1
      BY <1>1, <1>2, <1>3, <1>4, <2>1, <2>2, <2>3, <2>6
    <3>3. PICK x \in Int, y \in Int : x = q * PageSize /\ y = n * PageSize
      BY <1>3, <2>1
    <3>4. x \in Int /\ x = y - PageSize /\ Held(v, q) = Len(v) - x /\ x + PageSize > Len(v) /\ y < Len(v) + PageSize
      BY <1>1, <1>4, <2>1, <2>4, <2>6, <3>1, <3>2, <3>3
    <3>5. Held(v, q) \in 1..PageSize /\ x + Held(v, q) <= Len(v) /\ Held(v, q) = Len(v) - x
      BY <1>1, <3>4
    <3>6. QED
      BY <3>2, <3>3, <3>5
  <2> QED
    BY <2>5, <2>6
<1>7. QED
  BY <1>1, <1>2, <1>4, <1>5, <1>6 DEF n

-----------------------------------------------------------------------------
(* The words of a file *)

\* The word with the entry in slot s of page q, and, for s past the entries of
\* the page, that with its deletion bits.
LEMMA WordPlace ==
  ASSUME NEW v \in Vectors, NEW q \in 0..Pages(v) - 1, NEW s \in 0..Held(v, q),
         NEW w, w = q * LoadPage + s + 1
  PROVE  /\ w \in 1..Len(v) + Pages(v)
         /\ (w - 1) \div LoadPage = q /\ (w - 1) % LoadPage = s
         /\ s = Held(v, q) <=> (s + 1 = LoadPage \/ w = Len(v) + Pages(v))
<1>1. /\ Pages(v) \in Nat /\ Len(v) \in Nat /\ PageSize \in Nat \ {0}
      /\ Held(v, q) \in 1..PageSize /\ q * PageSize + Held(v, q) <= Len(v)
      /\ Held(v, q) # PageSize => q = Pages(v) - 1
      /\ q = Pages(v) - 1 => Held(v, q) = Len(v) - q * PageSize
  BY PageFacts, PageAssumption
<1>2. q \in Nat /\ s \in 0..LoadPage - 1 /\ LoadPage \in Nat \ {0} /\ s \in Nat
  BY <1>1 DEF LoadPage
<1>3. q * LoadPage = q * PageSize + q /\ q * PageSize \in Nat
  BY <1>1, <1>2, Multiples DEF LoadPage
<1>4. w - 1 = q * LoadPage + s
  BY <1>1, <1>2, <1>3
<1>5. (w - 1) \div LoadPage = q /\ (w - 1) % LoadPage = s
  BY <1>2, <1>4, Quotient
<1>6. w = q * PageSize + q + s + 1
  BY <1>3
<1>7. PICK x \in Nat, h \in 1..PageSize, n \in Nat : x = q * PageSize /\ h = Held(v, q) /\ n = Pages(v)
  BY <1>1, <1>3
<1>8. /\ x + h <= Len(v) /\ q <= n - 1 /\ s <= h
      /\ h # PageSize => q = n - 1
      /\ q = n - 1 => h = Len(v) - x
      /\ w = x + q + s + 1
  BY <1>1, <1>2, <1>6, <1>7
<1>9. w \in 1..Len(v) + n
  BY <1>1, <1>2, <1>8
<1>10. s = h <=> (s = PageSize \/ w = Len(v) + n)
  BY <1>1, <1>2, <1>8
<1>11. s + 1 = LoadPage <=> s = PageSize
  BY <1>1, <1>2 DEF LoadPage
<1>12. QED
  BY <1>5, <1>7, <1>9, <1>10, <1>11

LEMMA WordsFacts ==
  ASSUME NEW v \in Vectors
  PROVE  /\ Len(Words(v)) = Len(v) + Pages(v) /\ Len(Words(v)) \in Nat
         /\ \A q \in 0..Pages(v) - 1 :
              /\ \A s \in 0..Held(v, q) - 1 :
                   Words(v)[q * LoadPage + s + 1] =
                     [key |-> v[q * PageSize + s + 1].key, ver |-> v[q * PageSize + s + 1].ver]
              /\ Words(v)[q * LoadPage + Held(v, q) + 1] = [bits |-> BitsOf(v, q)]
<1> DEFINE N == Len(v) + Pages(v)
           entry(i) == [key |-> v[i].key, ver |-> v[i].ver]
           word(w) == IF ((w - 1) % LoadPage) + 1 = LoadPage \/ w = N
                      THEN [bits |-> BitsOf(v, (w - 1) \div LoadPage)]
                      ELSE entry(((w - 1) \div LoadPage) * PageSize + (((w - 1) % LoadPage) + 1))
<1>1. Words(v) = [w \in 1..N |-> word(w)]
  BY DEF Words
<1>2. N \in Nat
  BY PageFacts
<1> HIDE DEF N, word, entry
<1>3. /\ Len(Words(v)) = N /\ \A w \in 1..N : Words(v)[w] = word(w)
  BY <1>1, <1>2
<1>4. ASSUME NEW q \in 0..Pages(v) - 1
      PROVE  /\ \A s \in 0..Held(v, q) - 1 : Words(v)[q * LoadPage + s + 1] = entry(q * PageSize + s + 1)
             /\ Words(v)[q * LoadPage + Held(v, q) + 1] = [bits |-> BitsOf(v, q)]
  <2>1. Held(v, q) \in Nat
    BY PageFacts, PageAssumption
  <2>2. ASSUME NEW s \in 0..Held(v, q)
        PROVE  Words(v)[q * LoadPage + s + 1] = IF s = Held(v, q) THEN [bits |-> BitsOf(v, q)]
                                                ELSE entry(q * PageSize + (s + 1))
    <3>1. PICK w : w = q * LoadPage + s + 1
      OBVIOUS
    <3>2. /\ w \in 1..N
          /\ (w - 1) \div LoadPage = q /\ (w - 1) % LoadPage = s
          /\ s = Held(v, q) <=> (s + 1 = LoadPage \/ w = N)
      BY <3>1, WordPlace DEF N
    <3>3. Words(v)[w] = word(w)
      BY <1>3, <3>2
    <3>4. word(w) = IF s + 1 = LoadPage \/ w = N THEN [bits |-> BitsOf(v, q)]
                    ELSE entry(q * PageSize + (s + 1))
      BY Zenon, <3>2 DEF word
    <3>5. QED
      BY Zenon, <3>1, <3>2, <3>3, <3>4
  <2>3. q * PageSize \in Int
    BY PageAssumption
  <2>4. ASSUME NEW s \in 0..Held(v, q) - 1
        PROVE  Words(v)[q * LoadPage + s + 1] = entry(q * PageSize + s + 1)
    <3>1. s \in 0..Held(v, q) /\ s # Held(v, q) /\ q * PageSize + (s + 1) = q * PageSize + s + 1
      BY <2>1, <2>3
    <3>2. QED
      BY <2>2, <3>1
  <2>5. Words(v)[q * LoadPage + Held(v, q) + 1] = [bits |-> BitsOf(v, q)]
    <3>1. Held(v, q) \in 0..Held(v, q)
      BY <2>1
    <3>2. QED
      BY <2>2, <3>1
  <2>6. QED
    BY <2>4, <2>5
<1>5. QED
  BY <1>2, <1>3, <1>4 DEF N, entry

\* Each entry has a page and a slot, and each slot an entry.
LEMMA EntryPlace ==
  ASSUME NEW v \in Vectors
  PROVE  /\ \A i \in 1..Len(v) : \E q \in 0..Pages(v) - 1 : \E s \in 0..Held(v, q) - 1 :
                                   i = q * PageSize + s + 1
         /\ \A q \in 0..Pages(v) - 1 : \A s \in 0..Held(v, q) - 1 :
              q * PageSize + s + 1 \in 1..Len(v)
<1>1. Pages(v) \in Nat /\ Len(v) \in Nat /\ PageSize \in Nat \ {0} /\ Len(v) <= Pages(v) * PageSize
  BY PageFacts, PageAssumption
<1>2. ASSUME NEW i \in 1..Len(v)
      PROVE  \E q \in 0..Pages(v) - 1 : \E s \in 0..Held(v, q) - 1 : i = q * PageSize + s + 1
  <2>1. i - 1 \in Nat
    BY <1>1
  <2>2. PICK q \in Nat : q * PageSize <= i - 1 /\ i - 1 < q * PageSize + PageSize
    <3>1. (i - 1) \div PageSize \in Nat
      BY <1>1, <2>1, Division
    <3>2. QED
      BY <1>1, <2>1, <3>1, Division
  <2>3. q * PageSize \in Nat /\ (q + 1) * PageSize = q * PageSize + PageSize
    BY <1>1, Multiples
  <2>4. q \in 0..Pages(v) - 1
    <3>1. ASSUME Pages(v) <= q PROVE Pages(v) * PageSize <= q * PageSize
      BY <1>1, <3>1, Multiples
    <3>2. Pages(v) * PageSize \in Int
      BY <1>1
    <3>3. QED
      BY <1>1, <2>2, <2>3, <3>1, <3>2
  <2>5. Held(v, q) = PageSize \/ Held(v, q) = Len(v) - q * PageSize
    BY DEF Held
  <2>6. i - 1 - q * PageSize \in 0..Held(v, q) - 1
    BY <1>1, <2>2, <2>3, <2>5
  <2>7. i = q * PageSize + (i - 1 - q * PageSize) + 1
    BY <1>1, <2>3
  <2>8. QED
    BY <2>4, <2>6, <2>7
<1>3. ASSUME NEW q \in 0..Pages(v) - 1, NEW s \in 0..Held(v, q) - 1
      PROVE  q * PageSize + s + 1 \in 1..Len(v)
  <2>1. Held(v, q) \in 1..PageSize /\ q * PageSize + Held(v, q) <= Len(v)
    BY PageFacts
  <2>2. q \in Nat /\ q * PageSize \in Nat
    BY <1>1, Multiples
  <2>3. QED
    BY <1>1, <2>1, <2>2
<1>4. QED
  BY <1>2, <1>3

\* What is read of page q when the file has the words of v.
LEMMA ReadFacts ==
  ASSUME NEW v \in Vectors, file = Words(v)
  PROVE  /\ Size = Len(v) + Pages(v) /\ Size \in Nat
         /\ \A q \in 0..Pages(v) - 1 :
              /\ ReadSize(q) = Held(v, q) + 1
              /\ Held(v, q) \in Nat \ {0}
              /\ q * LoadPage < Size
              /\ \A s \in 0..Held(v, q) - 1 :
                   /\ WordAt(q * LoadPage + s) = [key |-> v[q * PageSize + s + 1].key,
                                                  ver |-> v[q * PageSize + s + 1].ver]
                   /\ WordAt(q * LoadPage + s).key = v[q * PageSize + s + 1].key
                   /\ WordAt(q * LoadPage + s).ver = v[q * PageSize + s + 1].ver
                   /\ WordAt(q * LoadPage + Held(v, q)).bits[s + 1] = v[q * PageSize + s + 1].del
<1>1. Pages(v) \in Nat /\ Len(v) \in Nat /\ PageSize \in Nat \ {0}
  BY PageFacts, PageAssumption
<1>2. Size = Len(v) + Pages(v) /\ Size \in Nat
  BY WordsFacts DEF Size
<1>3. ASSUME NEW q \in 0..Pages(v) - 1
      PROVE  ReadSize(q) = Held(v, q) + 1 /\ q * LoadPage < Size
  <2>1. PICK x \in Nat, h \in 1..PageSize, n \in Nat : x = q * PageSize /\ h = Held(v, q) /\ n = Pages(v)
    <3>1. q * PageSize \in Nat
      BY <1>1
    <3>2. Held(v, q) \in 1..PageSize
      BY PageFacts
    <3>3. QED
      BY <1>1, <3>1, <3>2
  <2>2. /\ x + h <= Len(v) /\ q <= n - 1 /\ q \in Nat
        /\ h # PageSize => q = n - 1
        /\ q = n - 1 => h = Len(v) - x
    BY <1>1, <2>1, PageFacts
  <2>3. /\ q * LoadPage = x + q
        /\ (q + 1) * LoadPage = x + q + PageSize + 1
        /\ LoadPage = PageSize + 1
    BY <1>1, <2>1, Multiples DEF LoadPage
  <2>4. ReadSize(q) = IF x + q + PageSize + 1 > Size THEN Size - (x + q) ELSE PageSize + 1
    BY Zenon, <2>3 DEF ReadSize
  <2>5. Size = Len(v) + n
    BY <1>2, <2>1
  <2>6. CASE h = PageSize
    BY <1>1, <2>1, <2>2, <2>3, <2>4, <2>5, <2>6
  <2>7. CASE h # PageSize
    <3>1. q = n - 1 /\ x = Len(v) - h /\ h < PageSize
      BY <1>1, <2>2, <2>7
    <3>2. x + q + PageSize + 1 > Size /\ Size - (x + q) = h + 1 /\ x + q < Size
      BY <1>1, <2>5, <3>1
    <3>3. QED
      BY <2>1, <2>3, <2>4, <3>2
  <2>8. QED
    BY <2>6, <2>7
<1>4. ASSUME NEW q \in 0..Pages(v) - 1, NEW s \in 0..Held(v, q) - 1
      PROVE  /\ WordAt(q * LoadPage + s) = [key |-> v[q * PageSize + s + 1].key,
                                            ver |-> v[q * PageSize + s + 1].ver]
             /\ WordAt(q * LoadPage + Held(v, q)).bits[s + 1] = v[q * PageSize + s + 1].del
  <2>1. WordAt(q * LoadPage + s) = Words(v)[q * LoadPage + s + 1]
    BY Zenon DEF WordAt
  <2>2. WordAt(q * LoadPage + Held(v, q)) = [bits |-> BitsOf(v, q)]
    BY Zenon, WordsFacts DEF WordAt
  <2>3. BitsOf(v, q)[s + 1] = v[q * PageSize + s + 1].del
    <3>1. /\ s + 1 \in 1..PageSize /\ q * PageSize \in Nat /\ s \in Nat
      BY <1>1, PageFacts, Multiples
    <3>2. q * PageSize + s + 1 \in 1..Len(v)
      BY EntryPlace
    <3>3. PICK i \in 1..Len(v) : i = q * PageSize + s + 1 /\ i = q * PageSize + (s + 1)
      BY <3>1, <3>2
    <3>4. BitsOf(v, q)[s + 1] = (i <= Len(v) /\ v[i].del)
      BY Zenon, <3>1, <3>3 DEF BitsOf
    <3>5. v[i].del \in BOOLEAN
      BY Zenon, VectorFacts
    <3>6. i <= Len(v)
      BY <1>1
    <3>7. QED
      BY Zenon, <3>3, <3>4, <3>5, <3>6
  <2>4. QED
    BY <2>1, <2>2, <2>3, WordsFacts
<1>5. \A q \in 0..Pages(v) - 1 : Held(v, q) \in Nat \ {0}
  BY <1>1, PageFacts
<1>6. QED
  BY <1>2, <1>3, <1>4, <1>5
-----------------------------------------------------------------------------
(* The search in the fence pointers *)

LEMMA LeastFacts ==
  /\ \A S : S # {} /\ S \subseteq Nat => Least(S) \in S /\ \A i \in S : Least(S) <= i
  /\ \A x \in Int : Least({x}) = x
<1>1. ASSUME NEW S, S # {}, S \subseteq Nat PROVE Least(S) \in S /\ \A i \in S : Least(S) <= i
  <2>1. \E m \in S : \A n \in S : m <= n
    BY <1>1, P!LeastNat, SameConstants
  <2>2. QED
    BY <2>1 DEF Least
<1>2. ASSUME NEW x \in Int PROVE Least({x}) = x
  BY DEF Least
<1>3. QED
  BY <1>1, <1>2

\* The pages of m fence pointers in order, the last of which no page follows.
Ordered(f, m) == /\ m \in Nat \ {0} /\ Len(f) = m
                 /\ \A i \in 1..m : f[i] \in Int
                 /\ \A i, j \in 1..m : i <= j => f[i] <= f[j]

LEMMA FenceSearch ==
  ASSUME NEW m, Ordered(fence, m), NEW k \in Int
  PROVE  /\ \A i \in 1..m - 1 : fence[i] <= k /\ k < fence[i + 1] => SearchFence(k) = i - 1
         /\ k = fence[m] => SearchFence(k) = m - 2
         /\ SearchFence(k) \in -1..m - 2
         /\ fence[1] <= k /\ k < fence[m] => SearchFence(k) # -1
<1> DEFINE within == {i \in 1..m - 1 : fence[i] <= k /\ k < fence[i + 1]}
<1>1. /\ m \in Nat \ {0} /\ Len(fence) = m
      /\ \A i \in 1..m : fence[i] \in Int
      /\ \A i, j \in 1..m : i <= j => fence[i] <= fence[j]
  BY Zenon DEF Ordered
<1>2. SearchFence(k) = IF within # {} THEN Least(within) - 1
                       ELSE IF m > 0 /\ k = fence[m] THEN m - 2 ELSE -1
  BY Zenon, <1>1 DEF SearchFence
<1>3. \A i, j \in within : i = j
  <2>1. ASSUME NEW i \in within, NEW j \in within, i < j PROVE FALSE
    <3>1. i + 1 \in 1..m /\ j \in 1..m /\ i + 1 <= j
      BY <1>1, <2>1
    <3>2. fence[i + 1] <= fence[j] /\ fence[i + 1] \in Int /\ fence[j] \in Int
      BY <1>1, <3>1
    <3>3. fence[j] <= k /\ k < fence[i + 1]
      OBVIOUS
    <3>4. QED
      BY <3>2, <3>3
  <2>2. \A i, j \in within : i \in Int /\ j \in Int
    BY <1>1
  <2>3. QED
    BY <2>1, <2>2
<1>4. k = fence[m] => within = {}
  <2>1. ASSUME NEW i \in within, k = fence[m] PROVE FALSE
    <3>1. i + 1 \in 1..m /\ m \in 1..m /\ i + 1 <= m
      BY <1>1
    <3>2. fence[i + 1] <= fence[m] /\ fence[i + 1] \in Int
      BY <1>1, <3>1
    <3>3. QED
      BY <2>1, <3>2
  <2>2. QED
    BY <2>1
<1>5. within \subseteq Nat /\ \A i \in within : i \in 1..m - 1
  BY <1>1
<1>6. fence[1] <= k /\ k < fence[m] => within # {}
  <2>1. SUFFICES ASSUME fence[1] <= k, k < fence[m] PROVE within # {}
    OBVIOUS
  <2> DEFINE below == {i \in 1..m : fence[i] <= k}
  <2>2. below \subseteq Nat /\ 1 \in below /\ \A i \in below : i <= m
    BY <1>1, <2>1
  <2>3. \E g \in below : \A i \in below : i <= g
    <3> HIDE DEF below
    <3>1. below # {} /\ m \in Nat
      BY <1>1, <2>2
    <3>2. QED
      BY <2>2, <3>1, P!GreatestNat, SameConstants
  <2>4. PICK g \in below : \A i \in below : i <= g
    BY <2>3
  <2>5. fence[m] \in Int /\ ~ (fence[m] <= k)
    BY <1>1, <2>1
  <2>6. g # m
    BY <2>5
  <2>7. g \in 1..m - 1 /\ g + 1 \in 1..m /\ ~ (g + 1 <= g)
    BY <1>1, <2>6
  <2>8. g + 1 \notin below
    BY <2>4, <2>7
  <2>9. k < fence[g + 1]
    BY <1>1, <2>7, <2>8
  <2>10. g \in within
    BY <2>7, <2>9
  <2>11. QED
    BY <2>10
<1> HIDE DEF within
<1>7. ASSUME NEW i \in within PROVE SearchFence(k) = i - 1
  <2>1. i \in Int /\ \A j \in within : j = i
    BY <1>3, <1>5
  <2>2. within = {i}
    BY <2>1
  <2>3. Least(within) = i
    BY <2>1, <2>2, LeastFacts
  <2>4. QED
    BY <1>2, <2>1, <2>2, <2>3
<1>8. k = fence[m] => SearchFence(k) = m - 2
  BY <1>1, <1>2, <1>4
<1>9. within = {} => SearchFence(k) = m - 2 \/ SearchFence(k) = -1
  BY <1>2
<1>10. SearchFence(k) \in -1..m - 2
  <2>1. CASE within = {}
    BY <1>1, <1>9, <2>1
  <2>2. CASE within # {}
    <3>1. PICK i \in within : TRUE
      BY <2>2
    <3>2. i \in 1..m - 1 /\ SearchFence(k) = i - 1
      BY <1>5, <1>7
    <3>3. QED
      BY <1>1, <3>2
  <2>3. QED
    BY <2>1, <2>2
<1>11. fence[1] <= k /\ k < fence[m] => SearchFence(k) # -1
  <2>1. SUFFICES ASSUME fence[1] <= k, k < fence[m] PROVE SearchFence(k) # -1
    OBVIOUS
  <2>2. PICK i \in within : TRUE
    BY <1>6, <2>1
  <2>3. SearchFence(k) = i - 1 /\ i \in 1..m - 1
    BY <1>5, <1>7
  <2>4. QED
    BY <1>1, <2>3
<1>12. \A i \in 1..m - 1 : fence[i] <= k /\ k < fence[i + 1] => i \in within
  BY DEF within
<1>13. QED
  BY <1>7, <1>8, <1>10, <1>11, <1>12

\* The fence pointers of a run and of a block.
LEMMA FenceFacts ==
  ASSUME NEW v \in Vectors, v # <<>>
  PROVE  LET n == Pages(v)
         IN  /\ n \in Nat \ {0} /\ Len(v) \in Nat \ {0}
             /\ fence = Fence(v) => /\ Ordered(fence, n + 1) /\ fence[n + 1] = v[Len(v)].key
                                    /\ \A q \in 0..n - 1 : fence[q + 1] = v[q * PageSize + 1].key
             /\ fence = BlockFence(v) => /\ Ordered(fence, n)
                                         /\ \A q \in 0..n - 1 : fence[q + 1] = v[q * PageSize + 1].key
<1> DEFINE n == Pages(v)
           c == Len(v)
           first(i) == v[(i - 1) * PageSize + 1].key
<1>1. n \in Nat \ {0} /\ c \in Nat \ {0}
  BY VectorFacts, PageFacts
<1>2. ASSUME NEW i \in 1..n PROVE (i - 1) * PageSize + 1 \in 1..c
  <2>1. i - 1 \in 0..Pages(v) - 1 /\ i - 1 \in Nat
    BY <1>1
  <2>2. 0 \in 0..Held(v, i - 1) - 1
    BY <2>1, PageFacts
  <2>3. (i - 1) * PageSize + 0 + 1 \in 1..Len(v)
    BY <2>1, <2>2, EntryPlace
  <2>4. (i - 1) * PageSize \in Nat
    BY <2>1, PageAssumption
  <2>5. QED
    BY <2>3, <2>4
<1>3. \A i, j \in 1..n : i <= j => (i - 1) * PageSize + 1 <= (j - 1) * PageSize + 1
  <2>1. ASSUME NEW i \in 1..n, NEW j \in 1..n, i <= j PROVE (i - 1) * PageSize + 1 <= (j - 1) * PageSize + 1
    <3>1. i - 1 \in Int /\ j - 1 \in Int /\ i - 1 <= j - 1 /\ PageSize \in Nat
      BY <1>1, <2>1, PageAssumption
    <3>2. (i - 1) * PageSize <= (j - 1) * PageSize /\ (i - 1) * PageSize \in Int /\ (j - 1) * PageSize \in Int
      BY <3>1, Multiples
    <3>3. QED
      BY <3>2
  <2>2. QED
    BY <2>1
<1>4. \A i, j \in 1..c : i <= j => v[i].key <= v[j].key /\ v[i].key \in Int /\ v[j].key \in Int
  <2>1. ASSUME NEW i \in 1..c, NEW j \in 1..c, i <= j PROVE v[i].key <= v[j].key /\ v[i].key \in Int /\ v[j].key \in Int
    <3>1. v[i].key \in Int /\ v[j].key \in Int
      BY VectorFacts
    <3>2. i < j => v[i].key < v[j].key
      BY VectorFacts
    <3>3. i = j \/ i < j
      BY <1>1, <2>1
    <3>4. QED
      BY <3>1, <3>2, <3>3
  <2>2. QED
    BY <2>1
<1>5. \A i, j \in 1..n : i <= j => first(i) <= first(j) /\ first(i) \in Int
  BY <1>2, <1>3, <1>4
<1>6. \A i \in 1..n : first(i) <= v[c].key /\ first(i) \in Int /\ v[c].key \in Int
  <2>1. ASSUME NEW i \in 1..n PROVE first(i) <= v[c].key /\ first(i) \in Int /\ v[c].key \in Int
    <3>1. (i - 1) * PageSize + 1 \in 1..c /\ c \in 1..c /\ (i - 1) * PageSize + 1 <= c
      BY <1>1, <1>2
    <3>2. QED
      BY <1>4, <3>1
  <2>2. QED
    BY <2>1
<1> HIDE DEF first
<1>7. ASSUME fence = Fence(v) PROVE Ordered(fence, n + 1) /\ fence[n + 1] = v[c].key /\ \A i \in 1..n : fence[i] = first(i)
  <2>1. fence = [i \in 1..n + 1 |-> IF i <= n THEN first(i) ELSE v[c].key]
    BY <1>7 DEF Fence, first
  <2>2. Len(fence) = n + 1 /\ n + 1 \in Nat \ {0}
    BY <1>1, <2>1
  <2>3. \A i \in 1..n + 1 : fence[i] = IF i <= n THEN first(i) ELSE v[c].key
    BY <2>1
  <2>4. \A i \in 1..n + 1 : i \in 1..n \/ i = n + 1
    BY <1>1
  <2>5. fence[n + 1] = v[c].key /\ \A i \in 1..n : fence[i] = first(i)
    BY <1>1, <2>3
  <2>6. n + 1 \in 1..n + 1 /\ \A i \in 1..n : ~ (n + 1 <= i)
    BY <1>1
  <2>7. v[c].key <= v[c].key /\ v[c].key \in Int
    BY <1>1, <1>4
  <2>8. QED
    BY <1>5, <1>6, <2>2, <2>4, <2>5, <2>6, <2>7 DEF Ordered
<1>8. ASSUME fence = BlockFence(v) PROVE Ordered(fence, n) /\ \A i \in 1..n : fence[i] = first(i)
  <2>1. fence = [i \in 1..n |-> first(i)]
    BY <1>8 DEF BlockFence, first
  <2>2. Len(fence) = n /\ \A i \in 1..n : fence[i] = first(i)
    BY <1>1, <2>1
  <2>3. QED
    BY <1>1, <1>5, <2>2 DEF Ordered
<1>9. \A q \in 0..n - 1 : q + 1 \in 1..n /\ first(q + 1) = v[q * PageSize + 1].key
  <2>1. \A q \in 0..n - 1 : q + 1 \in 1..n /\ (q + 1) - 1 = q
    BY <1>1
  <2>2. QED
    BY <2>1 DEF first
<1>10. QED
  BY <1>1, <1>7, <1>8, <1>9
-----------------------------------------------------------------------------
(* The search in a page *)

LEMMA KeysDiffer ==
  ASSUME NEW v \in Vectors, NEW i \in 1..Len(v), NEW j \in 1..Len(v), v[i].key = v[j].key
  PROVE  i = j
<1>1. i \in Int /\ j \in Int
  BY VectorFacts
<1>2. PICK a \in Int : a = v[i].key /\ a = v[j].key
  BY VectorFacts
<1>3. (i < j => v[i].key < v[j].key) /\ (j < i => v[j].key < v[i].key)
  BY VectorFacts
<1>4. (i < j => a < a) /\ (j < i => a < a)
  BY <1>2, <1>3
<1>5. QED
  BY <1>1, <1>4

\* The entries of v with key k: at most one.
Saved(v, k) == {v[i] : i \in {j \in DOMAIN v : v[j].key = k}}

LEMMA SavedFacts ==
  ASSUME NEW v \in Vectors, NEW k
  PROVE  /\ \A i \in 1..Len(v) : v[i].key = k => Saved(v, k) = {v[i]}
         /\ (\A i \in 1..Len(v) : v[i].key # k) => Saved(v, k) = {}
<1>1. DOMAIN v = 1..Len(v)
  BY VectorFacts
<1>2. \A i, j \in 1..Len(v) : v[i].key = v[j].key => i = j
  BY KeysDiffer
<1>3. ASSUME NEW i \in 1..Len(v), v[i].key = k PROVE Saved(v, k) = {v[i]}
  <2>1. {j \in DOMAIN v : v[j].key = k} = {i}
    BY <1>1, <1>2, <1>3
  <2>2. QED
    BY <2>1 DEF Saved
<1>4. ASSUME \A i \in 1..Len(v) : v[i].key # k PROVE Saved(v, k) = {}
  BY <1>1, <1>4 DEF Saved
<1>5. QED
  BY <1>3, <1>4

\* A page gives the entry with the key, if it has one.
LEMMA PageSearch ==
  ASSUME NEW v \in Vectors, file = Words(v), NEW q \in 0..Pages(v) - 1, NEW k
  PROVE  /\ \A s \in 0..Held(v, q) - 1 :
              v[q * PageSize + s + 1].key = k => DiskSearch(q, k) = {v[q * PageSize + s + 1]}
         /\ (\A s \in 0..Held(v, q) - 1 : v[q * PageSize + s + 1].key # k) => DiskSearch(q, k) = {}
<1> DEFINE h == Held(v, q)
           at(s) == q * PageSize + s + 1
           bits == WordAt(q * LoadPage + h).bits
           found(s) == [key |-> k, ver |-> WordAt(q * LoadPage + s).ver, del |-> bits[s + 1]]
           hits == {s \in 0..h - 1 : WordAt(q * LoadPage + s).key = k}
<1>1. /\ ReadSize(q) = h + 1 /\ h \in Nat \ {0}
      /\ \A s \in 0..h - 1 : /\ WordAt(q * LoadPage + s).key = v[at(s)].key
                             /\ WordAt(q * LoadPage + s).ver = v[at(s)].ver
                             /\ bits[s + 1] = v[at(s)].del
  BY ReadFacts
<1>2. q * LoadPage + ReadSize(q) - 1 = q * LoadPage + h /\ ReadSize(q) - 2 = h - 1
  <2>1. q * LoadPage \in Int
    BY PageAssumption DEF LoadPage
  <2>2. QED
    BY <1>1, <2>1
<1>3. DiskSearch(q, k) = {found(s) : s \in {t \in hits : t = Least(hits)}}
  BY Zenon, <1>2 DEF DiskSearch
<1>4. \A s \in 0..h - 1 : at(s) \in 1..Len(v)
  BY EntryPlace
<1>5. ASSUME NEW s \in 0..h - 1, v[at(s)].key = k PROVE found(s) = v[at(s)]
  <2>1. found(s) = [key |-> v[at(s)].key, ver |-> v[at(s)].ver, del |-> v[at(s)].del]
    BY Zenon, <1>1, <1>5
  <2>2. PICK i \in 1..Len(v) : i = at(s)
    BY <1>4
  <2>3. v[i] = [key |-> v[i].key, ver |-> i, del |-> v[i].del] /\ v[i].ver = i
    BY Zenon, VectorFacts
  <2> HIDE DEF at, found
  <2>4. QED
    BY Zenon, <2>1, <2>2, <2>3
<1>6. ASSUME NEW s \in 0..h - 1, NEW t \in 0..h - 1, v[at(s)].key = v[at(t)].key PROVE s = t
  <2>1. PICK i \in 1..Len(v), j \in 1..Len(v) : i = at(s) /\ j = at(t)
    BY <1>4
  <2>2. i = j
    BY <1>6, <2>1, KeysDiffer
  <2>3. q * PageSize \in Int /\ s \in Int /\ t \in Int
    BY <1>1, PageAssumption
  <2>4. QED
    BY <2>1, <2>2, <2>3
<1>7. ASSUME NEW s \in 0..h - 1, v[at(s)].key = k PROVE DiskSearch(q, k) = {v[at(s)]}
  <2>1. \A t \in hits : t = s
    <3>1. ASSUME NEW t \in hits PROVE t = s
      <4>1. t \in 0..h - 1 /\ WordAt(q * LoadPage + t).key = k
        OBVIOUS
      <4>2. v[at(t)].key = v[at(s)].key
        BY <1>1, <1>7, <4>1
      <4> HIDE DEF at
      <4>3. QED
        BY <1>6, <4>1, <4>2
    <3>2. QED
      BY <3>1
  <2>2. s \in hits
    BY <1>1, <1>7
  <2> HIDE DEF hits, found, at
  <2>3. hits = {s}
    BY <2>1, <2>2
  <2>4. Least(hits) = s
    <3>1. s \in Int
      BY <1>1
    <3>2. QED
      BY <2>3, <3>1, LeastFacts
  <2>5. DiskSearch(q, k) = {found(s)}
    BY <1>3, <2>3, <2>4
  <2>6. QED
    BY <1>5, <1>7, <2>5
<1>8. ASSUME \A s \in 0..h - 1 : v[at(s)].key # k PROVE DiskSearch(q, k) = {}
  <2>1. hits = {}
    BY <1>1, <1>8
  <2> HIDE DEF hits, found
  <2>2. QED
    BY <1>3, <2>1
<1>9. QED
  BY <1>7, <1>8
-----------------------------------------------------------------------------
(* The files are what the vectors say *)

FileInv == /\ entries \in Vectors /\ file = Words(entries)
           /\ kind \in {"run", "block", "buffer"}
           /\ kind = "run" => entries # <<>> /\ fence = Fence(entries)
           /\ kind = "block" => entries # <<>> /\ fence = BlockFence(entries)

LEMMA EmptyVector == <<>> \in Vectors
<1>1. Cardinality(Keys) \in Nat
  BY KeysAssumption, FS_CardinalityType
<1> DEFINE ordered(n) == {f \in [1..n -> Keys] : \A i, j \in 1..n : i < j => f[i] < f[j]}
<1>2. <<>> \in ordered(0) /\ <<>> \in [1..0 -> BOOLEAN]
  OBVIOUS
<1>3. Vector(<<>>, <<>>) = <<>>
  BY DEF Vector
<1>4. Vectors = UNION {{Vector(keys, dels) : keys \in ordered(n), dels \in [1..n -> BOOLEAN]} :
                         n \in 0..Cardinality(Keys)}
  BY DEF Vectors
<1> HIDE DEF ordered
<1>5. <<>> \in {Vector(keys, dels) : keys \in ordered(0), dels \in [1..0 -> BOOLEAN]}
  <2>1. PICK D, E, e : D = ordered(0) /\ E = [1..0 -> BOOLEAN] /\ e = <<>>
    OBVIOUS
  <2>2. e \in D /\ e \in E /\ Vector(e, e) = e
    BY <1>2, <1>3, <2>1
  <2>3. e \in {Vector(keys, dels) : keys \in D, dels \in E}
    BY <2>2
  <2>4. QED
    BY <2>1, <2>3
<1>6. 0 \in 0..Cardinality(Keys)
  BY <1>1
<1>7. QED
  BY <1>4, <1>5, <1>6

LEMMA InitFile == Init => FileInv
<1> SUFFICES ASSUME Init PROVE FileInv
  OBVIOUS
<1>1. Len(Words(<<>>)) = 0
  <2>1. Pages(<<>>) = 0 /\ Len(<<>>) = 0
    BY EmptyVector, PageFacts, VectorFacts
  <2>2. QED
    BY <2>1, EmptyVector, WordsFacts
<1>2. Words(<<>>) = <<>>
  <2>1. Len(<<>>) + Pages(<<>>) = 0
    BY <1>1, EmptyVector, WordsFacts
  <2>2. Words(<<>>) = [w \in 1..0 |-> Words(<<>>)[w]]
    BY <2>1 DEF Words
  <2>3. QED
    BY <2>2
<1>3. entries \in Vectors /\ file = Words(entries)
  BY Zenon, <1>2, EmptyVector DEF Init
<1>4. QED
  BY <1>3 DEF Init, FileInv

LEMMA NextFile == FileInv /\ [Next]_vars => FileInv'
<1> SUFFICES ASSUME FileInv, [Next]_vars PROVE FileInv'
  OBVIOUS
<1>1. ASSUME NEW v \in Vectors, SaveToMemory(v) PROVE FileInv'
  BY <1>1 DEF SaveToMemory, FileInv
<1>2. ASSUME NEW v \in Vectors, ProcessBlock(v) PROVE FileInv'
  BY <1>2 DEF ProcessBlock, FileInv
<1>3. ASSUME NEW v \in Vectors, ExitSaveMemory(v) PROVE FileInv'
  BY <1>3 DEF ExitSaveMemory, FileInv
<1>4. CASE UNCHANGED vars
  BY <1>4 DEF vars, FileInv
<1>5. QED
  BY <1>1, <1>2, <1>3, <1>4 DEF Next

LEMMA FileCorrect == Spec => []FileInv
BY InitFile, NextFile, PTL DEF Spec

\* The page of entry i is where the fence pointers of a run lead its key; those
\* of a block do so on all pages but the last.
LEMMA FenceFinds ==
  ASSUME NEW v \in Vectors, v # <<>>, NEW q \in 0..Pages(v) - 1, NEW s \in 0..Held(v, q) - 1,
         NEW k, k = v[q * PageSize + s + 1].key
  PROVE  /\ fence = Fence(v) => SearchFence(k) = q
         /\ fence = BlockFence(v) /\ q < Pages(v) - 1 => SearchFence(k) = q
<1> DEFINE n == Pages(v)
           c == Len(v)
           first(p) == p * PageSize + 1
<1>1. PageSize \in Nat \ {0} /\ n \in Nat \ {0} /\ c \in Nat \ {0} /\ q \in 0..n - 1
  BY FenceFacts, PageAssumption
<1>2. PICK i \in 1..c : i = q * PageSize + s + 1
  BY EntryPlace
<1>3. \A m, j \in 1..c : m <= j => v[m].key <= v[j].key
  <2>1. ASSUME NEW m \in 1..c, NEW j \in 1..c, m <= j PROVE v[m].key <= v[j].key
    <3>1. v[m].key \in Int /\ v[j].key \in Int
      BY VectorFacts
    <3>2. m < j => v[m].key < v[j].key
      BY VectorFacts
    <3>3. m = j \/ m < j
      BY <1>1, <2>1
    <3>4. QED
      BY <3>1, <3>2, <3>3
  <2>2. QED
    BY <2>1
<1>4. k = v[i].key /\ k \in Int
  BY <1>2, VectorFacts
<1>5. ASSUME NEW p \in 0..n - 1 PROVE first(p) \in 1..c
  <2>1. 0 \in 0..Held(v, p) - 1
    BY PageFacts
  <2>2. p * PageSize + 0 + 1 \in 1..c
    BY <2>1, EntryPlace
  <2>3. p \in Nat /\ p * PageSize \in Nat
    BY <1>1
  <2>4. QED
    BY <2>2, <2>3
<1>6. first(q) \in 1..c /\ first(q) <= i
  <2>1. q \in Nat /\ q * PageSize \in Nat /\ s \in Nat
    BY <1>1
  <2>2. QED
    BY <1>2, <1>5, <2>1
<1>7. v[first(q)].key <= k
  BY <1>3, <1>4, <1>6
<1>8. ASSUME q < n - 1 PROVE first(q + 1) \in 1..c /\ i < first(q + 1) /\ k < v[first(q + 1)].key
  <2>1. q + 1 \in 0..n - 1
    BY <1>1, <1>8
  <2>2. Held(v, q) = PageSize
    BY <1>8, PageFacts
  <2>3. (q + 1) * PageSize = q * PageSize + PageSize /\ q * PageSize \in Nat /\ s \in 0..PageSize - 1
    BY <1>1, <2>2, Multiples
  <2>4. i < first(q + 1)
    BY <1>1, <1>2, <2>3
  <2>5. first(q + 1) \in 1..c
    BY <1>5, <2>1
  <2>6. v[i].key < v[first(q + 1)].key
    BY <2>4, <2>5, VectorFacts
  <2>7. QED
    BY <1>4, <2>4, <2>5, <2>6
<1>9. \A p \in 0..n - 1 : v[p * PageSize + 1].key = v[first(p)].key
  OBVIOUS
<1> HIDE DEF first
<1>10. ASSUME fence = Fence(v) PROVE SearchFence(k) = q
  <2>1. /\ Ordered(fence, n + 1) /\ fence[n + 1] = v[c].key
        /\ \A p \in 0..n - 1 : fence[p + 1] = v[first(p)].key
    BY <1>9, <1>10, FenceFacts
  <2>2. q + 1 \in 1..(n + 1) - 1 /\ (q + 1) - 1 = q /\ (n + 1) - 2 = n - 1
    BY <1>1
  <2>3. fence[q + 1] <= k
    BY <1>7, <2>1
  <2>4. CASE q < n - 1
    <3>1. q + 1 \in 0..n - 1
      BY <1>1, <2>4
    <3>2. k < fence[(q + 1) + 1]
      BY <1>8, <2>1, <2>4, <3>1
    <3>3. QED
      BY <1>4, <2>1, <2>2, <2>3, <3>2, FenceSearch
  <2>5. CASE q = n - 1 /\ k = v[c].key
    BY <1>4, <2>1, <2>2, <2>5, FenceSearch
  <2>6. CASE q = n - 1 /\ k # v[c].key
    <3>1. c \in 1..c /\ i <= c
      BY <1>1
    <3>2. k <= v[c].key /\ v[c].key \in Int
      BY <1>3, <1>4, <3>1, VectorFacts
    <3>3. (q + 1) + 1 = n + 1
      BY <1>1, <2>6
    <3>4. k < fence[(q + 1) + 1]
      BY <1>4, <2>1, <2>6, <3>2, <3>3
    <3>5. QED
      BY <1>4, <2>1, <2>2, <2>3, <3>4, FenceSearch
  <2>7. q < n - 1 \/ q = n - 1
    BY <1>1
  <2>8. QED
    BY <2>4, <2>5, <2>6, <2>7
<1>11. ASSUME fence = BlockFence(v), q < n - 1 PROVE SearchFence(k) = q
  <2>1. /\ Ordered(fence, n)
        /\ \A p \in 0..n - 1 : fence[p + 1] = v[first(p)].key
    BY <1>9, <1>11, FenceFacts
  <2>2. q + 1 \in 1..n - 1 /\ (q + 1) - 1 = q /\ q + 1 \in 0..n - 1
    BY <1>1, <1>11
  <2>3. fence[q + 1] <= k
    BY <1>7, <2>1
  <2>4. k < fence[(q + 1) + 1]
    BY <1>8, <1>11, <2>1, <2>2
  <2>5. QED
    BY <1>4, <2>1, <2>2, <2>3, <2>4, FenceSearch
<1>12. QED
  BY <1>10, <1>11

LEMMA RunSearch == FileInv => SearchFindsSaved
<1> SUFFICES ASSUME FileInv, IsRun, NEW k \in Keys PROVE SearchRun(k) = Saved(entries, k)
  BY DEF SearchFindsSaved, Saved
<1> DEFINE v == entries
           n == Pages(v)
<1>1. v \in Vectors /\ v # <<>> /\ file = Words(v) /\ fence = Fence(v)
  BY DEF FileInv, IsRun
<1>2. n \in Nat \ {0} /\ k \in Int
  BY <1>1, FenceFacts, KeysAssumption
<1>3. CASE \E i \in 1..Len(v) : v[i].key = k
  <2>1. PICK i \in 1..Len(v) : v[i].key = k
    BY <1>3
  <2>2. PICK q \in 0..n - 1 : \E s \in 0..Held(v, q) - 1 : i = q * PageSize + s + 1
    BY <1>1, EntryPlace
  <2>3. PICK s \in 0..Held(v, q) - 1 : i = q * PageSize + s + 1
    BY <2>2
  <2>4. SearchFence(k) = q
    BY <1>1, <2>1, <2>3, FenceFinds
  <2>5. DiskSearch(q, k) = {v[i]}
    BY <1>1, <2>1, <2>3, PageSearch
  <2>6. q # -1
    BY <1>2
  <2>7. Saved(v, k) = {v[i]}
    BY <1>1, <2>1, SavedFacts
  <2>8. QED
    BY <2>4, <2>5, <2>6, <2>7 DEF SearchRun
<1>4. CASE \A i \in 1..Len(v) : v[i].key # k
  <2>1. Saved(v, k) = {}
    BY <1>1, <1>4, SavedFacts
  <2>2. SearchFence(k) \in -1..(n + 1) - 2
    BY <1>1, <1>2, FenceFacts, FenceSearch
  <2>3. SearchFence(k) # -1 => SearchFence(k) \in 0..n - 1
    BY <1>2, <2>2
  <2>4. ASSUME NEW q \in 0..n - 1 PROVE DiskSearch(q, k) = {}
    <3>1. \A s \in 0..Held(v, q) - 1 : v[q * PageSize + s + 1].key # k
      BY <1>1, <1>4, EntryPlace
    <3>2. QED
      BY <1>1, <3>1, PageSearch
  <2>5. QED
    BY <2>1, <2>3, <2>4 DEF SearchRun
<1>5. QED
  BY <1>3, <1>4

\* A point search of a run finds each key the run was created with, on whatever
\* page and with its value and flag, and no other key (disk_search).
THEOREM SearchCorrect == Spec => []SearchFindsSaved
BY FileCorrect, RunSearch, PTL
-----------------------------------------------------------------------------
(* The loops that read a whole file *)

\* Two functions that agree at 0, and at n + 1 if they agree at n.
LEMMA SameSteps ==
  ASSUME NEW N \in Nat, NEW f, NEW g, f[0] = g[0],
         \A n \in 1..N : f[n - 1] = g[n - 1] => f[n] = g[n]
  PROVE  \A n \in 0..N : f[n] = g[n]
<1> DEFINE same == {n \in Nat : n <= N => f[n] = g[n]}
<1>1. 0 \in same
  OBVIOUS
<1>2. ASSUME NEW n \in Nat, n \in same PROVE n + 1 \in same
  <2>1. n + 1 \in Nat /\ (n + 1) - 1 = n
    OBVIOUS
  <2>2. ASSUME n + 1 <= N PROVE f[n + 1] = g[n + 1]
    <3>1. n + 1 \in 1..N /\ f[n] = g[n]
      BY <1>2, <2>2
    <3>2. QED
      BY <2>1, <3>1
  <2>3. QED
    BY <2>1, <2>2
<1> HIDE DEF same
<1>3. Nat \subseteq same
  BY <1>1, <1>2, P!Induct, SameConstants
<1>4. \A n \in 0..N : n \in Nat /\ n <= N
  OBVIOUS
<1>5. QED
  BY <1>3, <1>4 DEF same

\* The first m entries of v.
Front(v, m) == [i \in 1..m |-> v[i]]

LEMMA FrontFacts ==
  ASSUME NEW v \in Vectors
  PROVE  /\ Front(v, 0) = <<>> /\ Front(v, Len(v)) = v
         /\ \A m \in 0..Len(v) : /\ Len(Front(v, m)) = m /\ DOMAIN Front(v, m) = 1..m
                                 /\ \A i \in 1..m : Front(v, m)[i] = v[i]
         /\ \A m \in 0..Len(v), n \in Nat :
              m + n <= Len(v) => Front(v, m) \o [s \in 1..n |-> v[m + s]] = Front(v, m + n)
<1>1. Len(v) \in Nat /\ v = [i \in 1..Len(v) |-> v[i]]
  BY VectorFacts
<1>2. Front(v, 0) = <<>>
  BY DEF Front
<1>3. Front(v, Len(v)) = v
  BY Zenon, <1>1 DEF Front
<1>4. \A m \in 0..Len(v) : /\ Len(Front(v, m)) = m /\ DOMAIN Front(v, m) = 1..m
                           /\ \A i \in 1..m : Front(v, m)[i] = v[i]
  BY <1>1 DEF Front
<1>5. ASSUME NEW m \in 0..Len(v), NEW n \in Nat, m + n <= Len(v)
      PROVE  Front(v, m) \o [s \in 1..n |-> v[m + s]] = Front(v, m + n)
  <2> DEFINE a == Front(v, m)
             b == [s \in 1..n |-> v[m + s]]
             all == Front(v, m + n)
             S == {v[i] : i \in 1..Len(v)}
  <2>1. m \in Nat /\ m + n \in 0..Len(v) /\ \A s \in 1..n : m + s \in 1..Len(v)
    BY <1>1, <1>5
  <2>2. a \in Seq(S) /\ Len(a) = m /\ \A i \in 1..m : a[i] = v[i]
    BY <1>1, <2>1 DEF Front
  <2>3. b \in Seq(S) /\ Len(b) = n /\ \A s \in 1..n : b[s] = v[m + s]
    BY <1>1, <2>1
  <2> HIDE DEF a, b, S
  <2>4. /\ a \o b \in Seq(S) /\ Len(a \o b) = m + n
        /\ \A i \in 1..m + n : (a \o b)[i] = IF i <= m THEN a[i] ELSE b[i - m]
    BY <2>2, <2>3, ConcatProperties
  <2>5. \A i \in 1..m + n : (IF i <= m THEN a[i] ELSE b[i - m]) = v[i]
    <3>1. ASSUME NEW i \in 1..m + n, i <= m PROVE a[i] = v[i]
      BY <2>1, <2>2, <3>1
    <3>2. ASSUME NEW i \in 1..m + n, ~(i <= m) PROVE b[i - m] = v[i]
      <4>1. i - m \in 1..n /\ m + (i - m) = i
        BY <2>1, <3>2
      <4>2. QED
        BY <2>3, <4>1
    <3>3. QED
      BY <3>1, <3>2
  <2>6. a \o b = [i \in 1..m + n |-> v[i]]
    <3>1. PICK z \in Seq(S) : z = a \o b
      BY <2>4
    <3>2. Len(z) = m + n /\ \A i \in 1..m + n : z[i] = v[i]
      BY <2>4, <2>5, <3>1
    <3>3. z = [i \in 1..m + n |-> v[i]]
      BY <3>2
    <3>4. QED
      BY <3>1, <3>3
  <2>7. QED
    BY <2>6 DEF Front, a, b
<1>6. QED
  BY <1>2, <1>3, <1>4, <1>5

\* What load_memory reads in turn i.
LEMMA MemoryPages ==
  ASSUME NEW v \in Vectors, file = Words(v)
  PROVE  /\ \A q \in 0..Pages(v) - 1 : MemoryPage(q) = [s \in 1..Held(v, q) |-> v[q * PageSize + s]]
         /\ Len(v) = Pages(v) * PageSize => MemoryPage(Pages(v)) = <<>>
<1>1. ASSUME NEW q \in 0..Pages(v) - 1
      PROVE  MemoryPage(q) = [s \in 1..Held(v, q) |-> v[q * PageSize + s]]
  <2> DEFINE h == Held(v, q)
             read(s) == [key |-> WordAt(q * LoadPage + s - 1).key,
                         ver |-> WordAt(q * LoadPage + s - 1).ver,
                         del |-> WordAt(q * LoadPage + ReadSize(q) - 1).bits[s]]
  <2>1. ReadSize(q) = h + 1 /\ h \in Nat \ {0} /\ h + 1 > 0 /\ (h + 1) - 1 = h
    BY ReadFacts
  <2>2. (IF ReadSize(q) > 0 THEN ReadSize(q) - 1 ELSE 0) = h
    BY <2>1
  <2>3. MemoryPage(q) = [s \in 1..h |-> read(s)]
    BY Zenon, <2>2 DEF MemoryPage
  <2>4. ASSUME NEW s \in 1..h PROVE read(s) = v[q * PageSize + s]
    <3>1. q * LoadPage \in Int /\ q * PageSize \in Int
      BY PageAssumption DEF LoadPage
    <3>2. PICK t \in 0..h - 1 : t = s - 1
      BY <2>1
    <3>3. /\ q * LoadPage + s - 1 = q * LoadPage + t /\ s = t + 1
          /\ q * LoadPage + ReadSize(q) - 1 = q * LoadPage + h
          /\ q * PageSize + s = q * PageSize + t + 1
      BY <2>1, <3>1, <3>2
    <3>4. PICK i \in 1..Len(v) : i = q * PageSize + t + 1
      BY <3>2, EntryPlace
    <3>5. /\ WordAt(q * LoadPage + t).key = v[i].key /\ WordAt(q * LoadPage + t).ver = v[i].ver
          /\ WordAt(q * LoadPage + h).bits[t + 1] = v[i].del
      BY <3>2, <3>4, ReadFacts
    <3>6. read(s) = [key |-> v[i].key, ver |-> v[i].ver, del |-> v[i].del]
      BY Zenon, <3>3, <3>5
    <3>7. v[i] = [key |-> v[i].key, ver |-> i, del |-> v[i].del] /\ v[i].ver = i
      BY Zenon, VectorFacts
    <3> HIDE DEF read
    <3>8. QED
      BY Zenon, <3>3, <3>4, <3>6, <3>7
  <2> HIDE DEF h, read
  <2>5. QED
    BY <2>3, <2>4 DEF h
<1>2. ASSUME Len(v) = Pages(v) * PageSize PROVE MemoryPage(Pages(v)) = <<>>
  <2>1. Pages(v) \in Nat /\ Len(v) \in Nat /\ PageSize \in Nat \ {0} /\ Size = Len(v) + Pages(v)
    BY PageFacts, PageAssumption, ReadFacts
  <2>2. Pages(v) * LoadPage = Size /\ (Pages(v) + 1) * LoadPage = Size + LoadPage /\ LoadPage > 0 /\ Size \in Nat
    BY <1>2, <2>1, Multiples DEF LoadPage
  <2>3. Size + LoadPage > Size /\ Size - Size = 0
    BY <2>1, <2>2 DEF LoadPage
  <2>4. ReadSize(Pages(v)) = 0
    BY Zenon, <2>2, <2>3 DEF ReadSize
  <2>5. ~(0 > 0)
    OBVIOUS
  <2> DEFINE read(s) == [key |-> WordAt(Pages(v) * LoadPage + s - 1).key,
                         ver |-> WordAt(Pages(v) * LoadPage + s - 1).ver,
                         del |-> WordAt(Pages(v) * LoadPage + ReadSize(Pages(v)) - 1).bits[s]]
  <2>6. MemoryPage(Pages(v)) = [s \in 1..0 |-> read(s)]
    BY Zenon, <2>4, <2>5 DEF MemoryPage
  <2> HIDE DEF read
  <2>7. QED
    BY <2>6
<1>3. QED
  BY <1>1, <1>2

\* The entries of v up to page q: the first q * PageSize or all.
UpTo(v, q) == IF q * PageSize <= Len(v) THEN q * PageSize ELSE Len(v)

LEMMA UpToFacts ==
  ASSUME NEW v \in Vectors
  PROVE  /\ \A q \in Nat : UpTo(v, q) \in 0..Len(v)
         /\ UpTo(v, 0) = 0 /\ UpTo(v, Pages(v)) = Len(v) /\ UpTo(v, Pages(v) + 1) = Len(v)
         /\ \A q \in 0..Pages(v) - 1 : /\ UpTo(v, q) = q * PageSize
                                       /\ UpTo(v, q + 1) = q * PageSize + Held(v, q)
<1>1. /\ Pages(v) \in Nat /\ Len(v) \in Nat /\ PageSize \in Nat \ {0}
      /\ Len(v) <= Pages(v) * PageSize
  BY PageFacts, PageAssumption
<1>2. UpTo(v, 0) = 0
  BY <1>1 DEF UpTo
<1>3. \A q \in Nat : UpTo(v, q) \in 0..Len(v)
  BY <1>1, Multiples DEF UpTo
<1>4. UpTo(v, Pages(v)) = Len(v)
  <2>1. Pages(v) * PageSize \in Int
    BY <1>1
  <2>2. QED
    BY <1>1, <2>1 DEF UpTo
<1>5. UpTo(v, Pages(v) + 1) = Len(v)
  <2>1. (Pages(v) + 1) * PageSize = Pages(v) * PageSize + PageSize /\ Pages(v) * PageSize \in Int
    BY <1>1, Multiples
  <2>2. QED
    BY <1>1, <2>1 DEF UpTo
<1>6. ASSUME NEW q \in 0..Pages(v) - 1
      PROVE  UpTo(v, q) = q * PageSize /\ UpTo(v, q + 1) = q * PageSize + Held(v, q)
  <2>1. Held(v, q) \in 1..PageSize /\ q * PageSize + Held(v, q) <= Len(v)
    BY PageFacts
  <2>2. q * PageSize \in Nat /\ (q + 1) * PageSize = q * PageSize + PageSize
    BY <1>1, Multiples
  <2>3. q * PageSize <= Len(v)
    BY <1>1, <2>1, <2>2
  <2>4. UpTo(v, q + 1) = q * PageSize + Held(v, q)
    <3>1. CASE (q + 1) * PageSize <= Len(v)
      <4>1. UpTo(v, q + 1) = (q + 1) * PageSize /\ Held(v, q) = PageSize
        BY Zenon, <3>1 DEF UpTo, Held
      <4>2. QED
        BY <2>2, <4>1
    <3>2. CASE ~((q + 1) * PageSize <= Len(v))
      <4>1. UpTo(v, q + 1) = Len(v) /\ Held(v, q) = Len(v) - q * PageSize
        BY Zenon, <3>2 DEF UpTo, Held
      <4>2. QED
        BY <1>1, <2>2, <4>1
    <3>3. QED
      BY <3>1, <3>2
  <2>5. QED
    BY <2>3, <2>4 DEF UpTo
<1>7. QED
  BY <1>2, <1>3, <1>4, <1>5, <1>6

LEMMA MemoryRead == FileInv => MemoryRoundTrip
<1> SUFFICES ASSUME FileInv PROVE LoadMemory = entries
  BY DEF MemoryRoundTrip
<1> DEFINE v == entries
           n == Pages(v)
           c == Len(v)
           total == Size \div LoadPage + 1
           front(q) == Front(v, UpTo(v, q))
           W == CHOOSE load : load = [q \in 0..total |-> IF q = 0 THEN <<>> ELSE load[q - 1] \o MemoryPage(q - 1)]
           f == [q \in 0..total |-> front(q)]
<1>1. v \in Vectors /\ file = Words(v)
  BY DEF FileInv
<1>2. n \in Nat /\ c \in Nat /\ PageSize \in Nat \ {0} /\ LoadPage \in Nat \ {0}
  BY <1>1, PageFacts, PageAssumption DEF LoadPage
<1>0. Size = c + n
  BY <1>1, ReadFacts
<1> DEFINE d == Size \div LoadPage
<1>4. d \in Nat /\ d * LoadPage <= Size /\ Size < d * LoadPage + LoadPage
  <2>1. Size \in Nat
    BY <1>0, <1>2
  <2>2. QED
    BY <1>2, <2>1, Division
<1>5. n - 1 <= d /\ d <= n /\ (d = n => c = n * PageSize)
  <2> HIDE DEF n, c, d
  <2>1. PICK np \in Int : np = n * PageSize
    BY <1>2
  <2>2. PICK dp \in Int : dp = d * PageSize
    BY <1>2, <1>4
  <2>3. n * LoadPage = np + n /\ d * LoadPage = dp + d
    BY <1>2, <1>4, <2>1, <2>2, Multiples DEF LoadPage
  <2>4. c <= np /\ np < c + PageSize
    <3>1. Len(v) <= Pages(v) * PageSize /\ Pages(v) * PageSize < Len(v) + PageSize
      BY <1>1, PageFacts
    <3>2. c <= n * PageSize /\ n * PageSize < c + PageSize
      BY Zenon, <3>1 DEF n, c
    <3>3. QED
      BY <2>1, <3>2
  <2>5. dp + d <= c + n /\ c + n < dp + d + PageSize + 1
    <3>1. LoadPage = PageSize + 1
      BY DEF LoadPage
    <3>2. dp + d <= c + n /\ c + n < dp + d + LoadPage
      BY Zenon, <1>0, <1>4, <2>3
    <3>3. QED
      BY <1>2, <1>4, <2>2, <3>1, <3>2
  <2>6. d >= n => dp >= np
    BY <1>2, <1>4, <2>1, <2>2, Multiples
  <2>7. d >= n + 1 => dp >= np + PageSize
    <3>1. d >= n + 1 => d * PageSize >= (n + 1) * PageSize
      BY <1>2, <1>4, Multiples
    <3>2. (n + 1) * PageSize = n * PageSize + PageSize
      BY <1>2, Multiples
    <3>3. QED
      BY <2>1, <2>2, <3>1, <3>2
  <2>8. d + 2 <= n => dp + PageSize + PageSize <= np
    <3>1. d + 2 <= n => (d + 2) * PageSize <= n * PageSize
      BY <1>2, <1>4, Multiples
    <3>2. (d + 2) * PageSize = d * PageSize + PageSize + PageSize
      BY <1>2, <1>4
    <3>3. QED
      BY <2>1, <2>2, <3>1, <3>2
  <2>9. QED
    BY <1>2, <1>4, <2>1, <2>4, <2>5, <2>6, <2>7, <2>8
<1> HIDE DEF d
<1>6. total = d + 1
  BY DEF d
<1> HIDE DEF total
<1>7. ASSUME NEW q \in 1..total PROVE front(q - 1) \o MemoryPage(q - 1) = front(q)
  <2>1. q - 1 \in 0..n /\ (q - 1) + 1 = q
    BY <1>2, <1>4, <1>5, <1>6
  <2>2. CASE q - 1 \in 0..n - 1
    <3>1. PICK p \in 0..n - 1 : p = q - 1 /\ p + 1 = q
      BY <2>1, <2>2
    <3>2. UpTo(v, p) = p * PageSize /\ UpTo(v, q) = p * PageSize + Held(v, p)
      BY <1>1, <3>1, UpToFacts
    <3>3. /\ p * PageSize \in 0..c /\ Held(v, p) \in Nat /\ p * PageSize + Held(v, p) <= c
      BY SMTT(40), <1>1, <1>2, <3>2, PageFacts, UpToFacts
    <3>4. MemoryPage(p) = [s \in 1..Held(v, p) |-> v[p * PageSize + s]]
      BY <1>1, MemoryPages
    <3>5. Front(v, p * PageSize) \o [s \in 1..Held(v, p) |-> v[p * PageSize + s]]
            = Front(v, p * PageSize + Held(v, p))
      BY <1>1, <3>3, FrontFacts
    <3>6. QED
      BY Zenon, <3>1, <3>2, <3>4, <3>5
  <2>3. CASE q - 1 = n
    <3>1. c = n * PageSize
      BY <1>2, <1>4, <1>5, <1>6, <2>3
    <3>2. MemoryPage(q - 1) = <<>>
      BY <1>1, <2>3, <3>1, MemoryPages
    <3>3. front(q - 1) = v /\ front(q) = v
      BY <1>1, <2>1, <2>3, UpToFacts, FrontFacts
    <3>4. v \in Seq({v[i] : i \in 1..c})
      <4>1. v = [i \in 1..c |-> v[i]]
        BY <1>1, VectorFacts
      <4>2. \A w : w = [i \in 1..c |-> v[i]] => w \in Seq({v[i] : i \in 1..c})
        BY <1>2
      <4>3. QED
        BY Zenon, <4>1, <4>2
    <3>5. v \o <<>> = v
      BY <3>4, ConcatEmptySeq
    <3>6. QED
      BY Zenon, <3>2, <3>3, <3>5
  <2>4. QED
    BY <1>2, <2>1, <2>2, <2>3
<1>8. front(0) = <<>> /\ front(total) = v
  <2>1. total = n \/ total = n + 1
    BY <1>2, <1>4, <1>5, <1>6
  <2>2. UpTo(v, 0) = 0 /\ UpTo(v, total) = c
    BY <1>1, <2>1, UpToFacts
  <2>3. Front(v, 0) = <<>> /\ Front(v, c) = v
    BY <1>1, FrontFacts
  <2>4. QED
    BY Zenon, <2>2, <2>3
<1> HIDE DEF front
<1>9. f = [q \in 0..total |-> IF q = 0 THEN <<>> ELSE f[q - 1] \o MemoryPage(q - 1)]
  <2>1. \A q \in 0..total : q = 0 \/ (q \in 1..total /\ q - 1 \in 0..total)
    <3>1. total \in Nat
      BY <1>4, <1>6
    <3>2. QED
      BY <3>1
  <2>2. \A q \in 0..total : f[q] = front(q)
    OBVIOUS
  <2>3. \A q \in 0..total : front(q) = IF q = 0 THEN <<>> ELSE f[q - 1] \o MemoryPage(q - 1)
    BY <1>7, <1>8, <2>1, <2>2
  <2>4. QED
    BY <2>3
<1> HIDE DEF f
<1>10. W = [q \in 0..total |-> IF q = 0 THEN <<>> ELSE W[q - 1] \o MemoryPage(q - 1)]
  BY Zenon, <1>9
<1>11. LoadMemory = W[total]
  BY Zenon DEF LoadMemory, total
<1> HIDE DEF W
<1>12. W[0] = f[0] /\ \A q \in 1..total : W[q - 1] = f[q - 1] => W[q] = f[q]
  <2>1. 0 \in 0..total /\ \A q \in 1..total : q # 0 /\ q \in 0..total
    BY <1>4, <1>6
  <2>2. \A q \in 0..total : W[q] = IF q = 0 THEN <<>> ELSE W[q - 1] \o MemoryPage(q - 1)
    BY <1>10
  <2>3. \A q \in 0..total : f[q] = IF q = 0 THEN <<>> ELSE f[q - 1] \o MemoryPage(q - 1)
    BY <1>9
  <2>4. QED
    BY Zenon, <2>1, <2>2, <2>3
<1>13. total \in Nat /\ total \in 0..total
  BY <1>4, <1>6
<1>14. W[total] = f[total]
  BY <1>12, <1>13, SameSteps
<1>15. f[total] = v
  BY <1>8, <1>13 DEF f
<1>16. QED
  BY <1>11, <1>14, <1>15

\* load_memory reads back what exit_save_memory wrote, in order and with the
\* deletion flags, for an empty buffer and a full last page too.
THEOREM MemoryCorrect == Spec => []MemoryRoundTrip
BY FileCorrect, MemoryRead, PTL
-----------------------------------------------------------------------------
(* The range search *)

\* A page the loop visits begins before the end of the file.
LEMMA VisitedPages ==
  ASSUME NEW m, Ordered(fence, m), NEW lower \in Int, NEW upper \in Int
  PROVE  \A i \in RangePages(lower, upper) : i \in Nat /\ i * LoadPage < Size
<1> DEFINE left == SearchFence(lower)
           right == SearchFence(upper)
           back == fence[Len(fence)]
           visit(from, to) == {i \in from..to - 1 : i * LoadPage < Size}
<1>1. /\ left \in -1..m - 2 /\ right \in -1..m - 2 /\ m \in Nat \ {0} /\ Len(fence) = m
      /\ back \in Int
  <2>1. m \in Nat \ {0} /\ Len(fence) = m /\ \A i \in 1..m : fence[i] \in Int
    BY DEF Ordered
  <2>2. left \in -1..m - 2 /\ right \in -1..m - 2
    BY FenceSearch
  <2>3. QED
    BY <2>1, <2>2
<1>2. ASSUME NEW from \in Nat, NEW to \in Int
      PROVE  \A i \in visit(from, to) : i \in Nat /\ i * LoadPage < Size
  BY <1>2
<1>3. \/ RangePages(lower, upper) = {}
      \/ RangePages(lower, upper) = visit(0, Len(fence) - 1)
      \/ left # -1 /\ RangePages(lower, upper) = visit(left, back)
      \/ RangePages(lower, upper) = visit(0, right)
      \/ left # -1 /\ RangePages(lower, upper) = visit(left, right)
  BY Zenon DEF RangePages
<1>4. left # -1 => left \in Nat
  BY <1>1
<1>5. Len(fence) - 1 \in Int /\ right \in Int /\ 0 \in Nat
  BY <1>1
<1> HIDE DEF left, right, back, visit
<1>6. QED
  BY <1>1, <1>2, <1>3, <1>4, <1>5

LEMMA RangeSearch == FileInv => RangeReturnsSaved
<1> SUFFICES ASSUME FileInv, kind # "buffer", NEW lower \in Keys, NEW upper \in Keys
             PROVE  \A e \in RangeDiskSearch(lower, upper) :
                      /\ lower <= e.key /\ e.key <= upper
                      /\ \E i \in DOMAIN entries : entries[i].key = e.key /\ entries[i].ver = e.ver
  BY Zenon DEF RangeReturnsSaved, BlockRange
<1> DEFINE v == entries
           n == Pages(v)
           slots(i) == IF i = 0 THEN {} ELSE (i - 1) * LoadPage .. ReadSize(i) - 2
           bits(i) == WordAt(i * LoadPage + ReadSize(i) - 1).bits
           decode(i, w) == [key |-> WordAt(w).key, ver |-> WordAt(w).ver,
                            del |-> bits(i)[w - (i - 1) * LoadPage + 1]]
           found == UNION {{decode(i, w) : w \in slots(i)} : i \in RangePages(lower, upper)}
<1>1. v \in Vectors /\ v # <<>> /\ file = Words(v) /\ (fence = Fence(v) \/ fence = BlockFence(v))
  BY DEF FileInv
<1>2. /\ n \in Nat \ {0} /\ Len(v) \in Nat /\ PageSize \in Nat \ {0} /\ lower \in Int /\ upper \in Int
      /\ DOMAIN v = 1..Len(v)
  BY <1>1, FenceFacts, VectorFacts, PageAssumption, KeysAssumption
<1>3. Size = Len(v) + n /\ Size \in Nat /\ Len(v) <= n * PageSize
  BY <1>1, ReadFacts, PageFacts
<1>4. \A i \in RangePages(lower, upper) : i \in Nat /\ i * LoadPage < Size
  <2>1. Ordered(fence, n + 1) \/ Ordered(fence, n)
    BY <1>1, FenceFacts
  <2>2. QED
    BY <1>2, <2>1, VisitedPages
<1>5. ASSUME NEW i \in RangePages(lower, upper), NEW w \in slots(i)
      PROVE  /\ w \in 0..PageSize - 1 /\ w + 1 \in 1..Len(v)
             /\ WordAt(w).key = v[w + 1].key /\ WordAt(w).ver = v[w + 1].ver
  <2>1. i \in Nat /\ i # 0 /\ i * LoadPage < Size /\ w \in (i - 1) * LoadPage .. ReadSize(i) - 2
    BY <1>4
  <2>2. PICK x \in Int : x = i * LoadPage
    BY <1>2, <2>1 DEF LoadPage
  <2>3. LoadPage = PageSize + 1 /\ (i + 1) * LoadPage = x + LoadPage /\ (i - 1) * LoadPage = x - LoadPage
    BY <1>2, <2>1, <2>2, Multiples DEF LoadPage
  <2>4. ReadSize(i) = IF x + LoadPage > Size THEN Size - x ELSE LoadPage
    BY Zenon, <2>2, <2>3 DEF ReadSize
  <2>5. ReadSize(i) \in Int /\ ReadSize(i) <= LoadPage
    BY SMTT(40), <1>2, <1>3, <2>3, <2>4
  <2>6. w \in Int /\ x - LoadPage <= w /\ w <= LoadPage - 2
    <3>1. w \in x - LoadPage .. ReadSize(i) - 2
      BY Zenon, <2>1, <2>3
    <3>2. QED
      BY <1>2, <2>3, <2>5, <3>1
  <2>7. i = 1
    <3>1. ASSUME i >= 2 PROVE x >= LoadPage + LoadPage
      <4>1. 2 * LoadPage <= i * LoadPage
        BY <1>2, <2>1, <3>1, Multiples DEF LoadPage
      <4>2. QED
        BY <1>2, <2>2, <2>3, <4>1
    <3>2. QED
      BY <1>2, <2>1, <2>3, <2>6, <3>1
  <2>8. x = LoadPage
    BY <1>2, <2>2, <2>3, <2>7
  <2>9. n >= 2
    <3>1. n = 1 => n * PageSize = PageSize
      BY <1>2
    <3>2. QED
      BY <1>2, <1>3, <2>1, <2>2, <2>3, <2>8, <3>1
  <2>10. 0 \in 0..n - 1 /\ Held(v, 0) = PageSize
    <3>1. 0 \in 0..n - 1 /\ 0 < n - 1
      BY <1>2, <2>9
    <3>2. QED
      BY <1>1, <3>1, PageFacts
  <2>11. w \in 0..Held(v, 0) - 1 /\ w \in 0..PageSize - 1
    BY <1>2, <2>3, <2>6, <2>8, <2>10
  <2>12. 0 * LoadPage + w = w /\ 0 * PageSize + w + 1 = w + 1
    BY <1>2, <2>3, <2>11
  <2>13. /\ WordAt(0 * LoadPage + w).key = v[0 * PageSize + w + 1].key
         /\ WordAt(0 * LoadPage + w).ver = v[0 * PageSize + w + 1].ver
    BY <1>1, <2>10, <2>11, ReadFacts
  <2>14. 0 * PageSize + w + 1 \in 1..Len(v)
    BY <1>1, <2>10, <2>11, EntryPlace
  <2>15. QED
    BY <2>11, <2>12, <2>13, <2>14
<1>6. RangeDiskSearch(lower, upper) = {e \in found : ~e.del /\ lower <= e.key /\ e.key <= upper}
  BY Zenon DEF RangeDiskSearch
<1>7. \A i, w : decode(i, w).key = WordAt(w).key /\ decode(i, w).ver = WordAt(w).ver
  OBVIOUS
<1> HIDE DEF decode, slots
<1>8. ASSUME NEW e \in RangeDiskSearch(lower, upper)
      PROVE  /\ lower <= e.key /\ e.key <= upper
             /\ \E i \in DOMAIN v : v[i].key = e.key /\ v[i].ver = e.ver
  <2>1. e \in found /\ lower <= e.key /\ e.key <= upper
    BY <1>6
  <2>2. PICK i \in RangePages(lower, upper) : \E w \in slots(i) : e = decode(i, w)
    BY <2>1
  <2>3. PICK w \in slots(i) : e = decode(i, w)
    BY <2>2
  <2>4. PICK j \in 1..Len(v) : j = w + 1
    BY <1>5
  <2>5. WordAt(w).key = v[j].key /\ WordAt(w).ver = v[j].ver
    BY <1>5, <2>4
  <2>6. v[j].key = e.key /\ v[j].ver = e.ver
    BY Zenon, <1>7, <2>3, <2>5
  <2>7. QED
    BY <1>2, <2>1, <2>6
<1>9. QED
  BY <1>8

\* A range search in a run or a block returns entries of it, within the bounds:
\* the visit of a page decodes no word that is not an entry of page 0.
THEOREM RangeCorrect == Spec => []RangeReturnsSaved
BY FileCorrect, RangeSearch, PTL
-----------------------------------------------------------------------------
(* A vector as a run of module TieredTree and a block of LeveledLevels *)

SavedKeys(v, m) == {v[i].key : i \in 1..m}

\* Keys are as many as entries: the rank of a key is the position of its entry.
LEMMA SavedRanks ==
  ASSUME NEW v \in Vectors
  PROVE  /\ SavedKeys(v, Len(v)) \subseteq Keys
         /\ \A m \in 0..Len(v) : Cardinality(SavedKeys(v, m)) = m
         /\ \A i \in 1..Len(v) : {k \in SavedKeys(v, Len(v)) : k <= v[i].key} = SavedKeys(v, i)
<1>1. Len(v) \in Nat /\ \A i \in 1..Len(v) : v[i].key \in Keys /\ v[i].key \in Int
  BY VectorFacts
<1>2. SavedKeys(v, Len(v)) \subseteq Keys
  BY <1>1 DEF SavedKeys
<1>3. ASSUME NEW m \in 0..Len(v) PROVE Cardinality(SavedKeys(v, m)) = m
  <2> DEFINE f == [i \in 1..m |-> v[i].key]
  <2>1. m \in Nat /\ \A i \in 1..m : i \in 1..Len(v)
    BY <1>1
  <2>2. \A i, j \in 1..m : f[i] = f[j] => i = j
    BY <2>1, KeysDiffer
  <2>3. f \in [1..m -> SavedKeys(v, m)]
    BY DEF SavedKeys
  <2>4. \A k \in SavedKeys(v, m) : \E i \in 1..m : f[i] = k
    BY DEF SavedKeys
  <2> HIDE DEF f
  <2>5. f \in Bijection(1..m, SavedKeys(v, m))
    BY <2>2, <2>3, <2>4, Fun_IsBij
  <2>6. QED
    BY <2>1, <2>5, FS_CountingElements DEF ExistsBijection
<1>4. ASSUME NEW i \in 1..Len(v)
      PROVE  {k \in SavedKeys(v, Len(v)) : k <= v[i].key} = SavedKeys(v, i)
  <2>1. ASSUME NEW j \in 1..Len(v) PROVE v[j].key <= v[i].key <=> j <= i
    <3>1. (j < i => v[j].key < v[i].key) /\ (i < j => v[i].key < v[j].key)
      BY VectorFacts
    <3>2. v[j].key \in Int /\ v[i].key \in Int /\ i \in Int /\ j \in Int
      BY <1>1
    <3>3. i = j \/ i < j \/ j < i
      BY <3>2
    <3>4. QED
      BY <3>1, <3>2, <3>3
  <2>2. \A j : j \in 1..i <=> j \in 1..Len(v) /\ j <= i
    BY <1>1
  <2>3. QED
    BY <2>1, <2>2 DEF SavedKeys
<1>5. QED
  BY <1>2, <1>3, <1>4

LEMMA SizesSame == \A S : /\ T!Cardinality(S) = Cardinality(S) /\ L!Cardinality(S) = Cardinality(S)
                          /\ L!T!Cardinality(S) = Cardinality(S)
BY Zenon DEF T!Cardinality, L!Cardinality, L!T!Cardinality, Cardinality

\* The cells of the run.
LEMMA AsRunFacts ==
  ASSUME NEW v \in Vectors
  PROVE  /\ \A i \in 1..Len(v) : /\ AsRun(v)[v[i].key] = T!CellOf(v[i])
                                 /\ T!CellOf(v[i]) = [ver |-> i, del |-> v[i].del]
                                 /\ T!CellOf(v[i]) # T!None
         /\ \A k \in Keys : k \notin SavedKeys(v, Len(v)) => AsRun(v)[k] = T!None
         /\ T!KeysOf(AsRun(v)) = SavedKeys(v, Len(v))
         /\ L!KeysOf(AsRun(v)) = SavedKeys(v, Len(v))
         /\ L!T!KeysOf(AsRun(v)) = SavedKeys(v, Len(v))
         /\ L!None = T!None /\ L!T!None = T!None
<1> DEFINE run == AsRun(v)
           c == Len(v)
<1>1. c \in Nat /\ DOMAIN v = 1..c /\ \A i \in 1..c : v[i].key \in Keys /\ v[i].ver = i
  BY VectorFacts
<1>2. ASSUME NEW i \in 1..c PROVE run[v[i].key] = T!CellOf(v[i])
  <2>1. \A j \in 1..c : v[j].key = v[i].key => j = i
    BY KeysDiffer
  <2>2. (CHOOSE j \in DOMAIN v : v[j].key = v[i].key) = i
    BY <1>1, <2>1
  <2>3. v[i].key \in Keys /\ \E j \in DOMAIN v : v[j].key = v[i].key
    BY <1>1
  <2>4. QED
    BY Zenon, <2>2, <2>3 DEF AsRun
<1>3. ASSUME NEW i \in 1..c
      PROVE  T!CellOf(v[i]) = [ver |-> i, del |-> v[i].del] /\ T!CellOf(v[i]) # T!None
  <2>1. T!CellOf(v[i]) = [ver |-> i, del |-> v[i].del]
    BY Zenon, <1>1 DEF T!CellOf
  <2>2. \A d, m : m = -1 => [ver |-> i, del |-> d] # [ver |-> m, del |-> TRUE]
    BY <1>1
  <2>3. QED
    BY <2>1, <2>2 DEF T!None
<1>4. ASSUME NEW k \in Keys, k \notin SavedKeys(v, c) PROVE run[k] = T!None
  <2>1. ~ \E i \in DOMAIN v : v[i].key = k
    BY <1>1, <1>4 DEF SavedKeys
  <2>2. QED
    BY Zenon, <2>1 DEF AsRun
<1>5. {k \in Keys : run[k] # T!None} = SavedKeys(v, c)
  <2>1. \A k \in SavedKeys(v, c) : k \in Keys /\ run[k] # T!None
    BY <1>1, <1>2, <1>3 DEF SavedKeys
  <2>2. QED
    BY <1>4, <2>1
<1>6. L!None = T!None /\ L!T!None = T!None
  BY Zenon DEF L!None, L!T!None, T!None
<1>7. /\ T!KeysOf(run) = SavedKeys(v, c)
      /\ L!T!KeysOf(run) = SavedKeys(v, c)
      /\ L!KeysOf(run) = SavedKeys(v, c)
  BY Zenon, <1>5, <1>6 DEF T!KeysOf, L!T!KeysOf, L!KeysOf
<1>8. QED
  BY Zenon, <1>2, <1>3, <1>4, <1>6, <1>7

\* The pages of the block, and the keys of the full pages of the run.
LEMMA PlacesFacts ==
  ASSUME NEW v \in Vectors
  PROVE  /\ \A i \in 1..Len(v) : L!PageOf(AsRun(v), v[i].key) = (i - 1) \div PageSize
         /\ L!LastPage(AsRun(v)) = (Len(v) - 1) \div PageSize
         /\ T!InFullPage(AsRun(v)) = SavedKeys(v, (Len(v) \div PageSize) * PageSize)
         /\ L!T!InFullPage(AsRun(v)) = SavedKeys(v, (Len(v) \div PageSize) * PageSize)
<1> DEFINE run == AsRun(v)
           c == Len(v)
           S == SavedKeys(v, c)
           rank(k) == Cardinality({j \in S : j <= k})
           m == (c \div PageSize) * PageSize
<1>1. /\ T!KeysOf(run) = S /\ L!KeysOf(run) = S /\ L!T!KeysOf(run) = S
  BY AsRunFacts
<1>2. c \in Nat /\ PageSize \in Nat \ {0}
  BY VectorFacts, PageAssumption
<1>3. Cardinality(S) = c
  BY <1>2, SavedRanks
<1>4. \A i \in 1..c : rank(v[i].key) = i
  <2>1. \A i \in 1..c : i \in 0..c
    BY <1>2
  <2>2. QED
    BY <2>1, SavedRanks
<1>5. m \in 0..c /\ PageSize * (c \div PageSize) = m
  <2>1. c \div PageSize \in Nat /\ m <= c
    BY <1>2, Division
  <2>2. m \in Nat /\ PageSize * (c \div PageSize) = m
    BY <1>2, <2>1, Multiples
  <2>3. QED
    BY <1>2, <2>1, <2>2
<1> HIDE DEF m
<1>6. {k \in S : rank(k) <= m} = SavedKeys(v, m)
  <2>1. \A i \in 1..m : i \in 1..c /\ i <= m
    BY <1>2, <1>5
  <2>2. \A i \in 1..c : i <= m => i \in 1..m
    BY <1>2, <1>5
  <2>3. QED
    BY <1>4, <2>1, <2>2 DEF SavedKeys
<1>7. T!InFullPage(run) = {k \in S : rank(k) <= m} /\ L!T!InFullPage(run) = {k \in S : rank(k) <= m}
  BY Zenon, <1>1, <1>3, <1>5, SizesSame DEF T!InFullPage, L!T!InFullPage
<1>8. \A k : L!PageOf(run, k) = (rank(k) - 1) \div PageSize
  BY Zenon, <1>1, SizesSame DEF L!PageOf
<1>9. L!LastPage(run) = (c - 1) \div PageSize
  BY Zenon, <1>1, <1>3, SizesSame DEF L!LastPage
<1>10. QED
  BY <1>4, <1>6, <1>7, <1>8, <1>9 DEF m

\* The entries a search of the block reaches: those before the last page.
LEMMA SearchedFacts ==
  ASSUME NEW v \in Vectors, v # <<>>
  PROVE  /\ \A k : L!Searched(AsRun(v), k) => \E i \in 1..Len(v) : v[i].key = k
         /\ \A q \in 0..Pages(v) - 1 : \A s \in 0..Held(v, q) - 1 :
              L!Searched(AsRun(v), v[q * PageSize + s + 1].key) <=> q < Pages(v) - 1
<1> DEFINE n == Pages(v)
           c == Len(v)
<1>1. n \in Nat \ {0} /\ c \in Nat \ {0} /\ PageSize \in Nat \ {0}
  BY FenceFacts, PageAssumption
<1>2. L!KeysOf(AsRun(v)) = SavedKeys(v, c)
  BY AsRunFacts
<1>3. L!LastPage(AsRun(v)) = n - 1
  <2>1. n - 1 \in 0..n - 1 /\ n - 1 \in Nat
    BY <1>1
  <2>2. Held(v, n - 1) \in 1..PageSize /\ Held(v, n - 1) = c - (n - 1) * PageSize
    BY <2>1, PageFacts
  <2>3. PICK r \in 0..PageSize - 1 : r = Held(v, n - 1) - 1
    BY <1>1, <2>2
  <2>4. (n - 1) * PageSize \in Nat
    BY <1>1, <2>1, Multiples
  <2>5. c - 1 = (n - 1) * PageSize + r
    BY <1>1, <2>2, <2>3, <2>4
  <2>6. ((n - 1) * PageSize + r) \div PageSize = n - 1
    BY <1>1, <2>1, Quotient
  <2>7. (c - 1) \div PageSize = n - 1
    BY Zenon, <2>5, <2>6
  <2>8. QED
    BY <2>7, PlacesFacts
<1>4. ASSUME NEW q \in 0..n - 1, NEW s \in 0..Held(v, q) - 1
      PROVE  L!Searched(AsRun(v), v[q * PageSize + s + 1].key) <=> q < n - 1
  <2>1. PICK i \in 1..c : i = q * PageSize + s + 1
    BY EntryPlace
  <2>2. q \in Nat /\ s \in 0..PageSize - 1 /\ q * PageSize \in Nat
    BY <1>1, PageFacts, Multiples
  <2>3. (q * PageSize + s) \div PageSize = q
    BY <1>1, <2>2, Quotient
  <2>4. i - 1 = q * PageSize + s
    BY <1>1, <2>1, <2>2
  <2>5. (i - 1) \div PageSize = q
    BY Zenon, <2>3, <2>4
  <2>6. L!PageOf(AsRun(v), v[i].key) = q
    BY <2>5, PlacesFacts
  <2>7. v[i].key \in SavedKeys(v, c)
    BY DEF SavedKeys
  <2>8. QED
    BY Zenon, <1>2, <1>3, <2>1, <2>6, <2>7 DEF L!Searched
<1>5. ASSUME NEW k, L!Searched(AsRun(v), k) PROVE \E i \in 1..c : v[i].key = k
  <2>1. k \in SavedKeys(v, c)
    BY Zenon, <1>2, <1>5 DEF L!Searched
  <2>2. QED
    BY <2>1 DEF SavedKeys
<1>6. QED
  BY <1>4, <1>5

LEMMA BlockSearch == FileInv => BlockGetMatchesLevels
<1> SUFFICES ASSUME FileInv, IsBlock, NEW k \in Keys, NEW bit \in BOOLEAN
             PROVE  IF L!Searched(AsRun(entries), k)
                    THEN BlockGet(k, bit) = Saved(entries, k)
                    ELSE BlockGet(k, bit) = {} \/ (k = 0 /\ fence = <<0>>)
  BY Zenon DEF BlockGetMatchesLevels, Saved
<1> DEFINE v == entries
           n == Pages(v)
           c == Len(v)
<1>1. v \in Vectors /\ v # <<>> /\ file = Words(v) /\ fence = BlockFence(v)
  BY DEF FileInv, IsBlock
<1>2. n \in Nat \ {0} /\ c \in Nat \ {0} /\ k \in Int /\ PageSize \in Nat \ {0}
  BY <1>1, FenceFacts, KeysAssumption, PageAssumption
<1>3. Ordered(fence, n) /\ \A q \in 0..n - 1 : fence[q + 1] = v[q * PageSize + 1].key
  BY <1>1, FenceFacts
<1>4. Len(fence) = n /\ \A j \in 1..n : fence[j] \in Int
  BY <1>3 DEF Ordered
<1>5. ASSUME NEW q \in 0..n - 1, NEW s \in 0..Held(v, q) - 1, q < n - 1, k = v[q * PageSize + s + 1].key
      PROVE  /\ BlockGet(k, bit) = Saved(v, k)
  <2>1. SearchFence(k) = q
    BY <1>1, <1>5, FenceFinds
  <2>2. PICK i \in 1..c : i = q * PageSize + s + 1
    BY <1>1, EntryPlace
  <2>3. DiskSearch(q, k) = {v[i]} /\ Saved(v, k) = {v[i]}
    BY <1>1, <1>5, <2>2, PageSearch, SavedFacts
  <2>4. fence[1] <= k
    <3>1. 0 \in 0..n - 1 /\ 0 * PageSize + 1 = 1 /\ 0 + 1 = 1 /\ 1 \in 1..c
      BY <1>2
    <3>2. fence[1] = v[1].key
      <4>1. fence[0 + 1] = v[0 * PageSize + 1].key
        BY Zenon, <1>3, <3>1
      <4>2. QED
        BY Zenon, <3>1, <4>1
    <3>3. 1 < i => v[1].key < v[i].key
      BY <1>1, <3>1, VectorFacts
    <3>4. k = v[i].key
      BY Zenon, <1>5, <2>2
    <3>5. v[1].key \in Int
      BY <1>1, <3>1, VectorFacts
    <3>6. 1 = i \/ 1 < i
      <4> HIDE DEF c
      <4>1. QED
        BY <1>2
    <3>7. QED
      BY <1>2, <3>2, <3>3, <3>4, <3>5, <3>6
  <2>5. k <= fence[n]
    <3>1. n - 1 \in 0..n - 1 /\ (n - 1) + 1 = n /\ q + 1 <= n - 1 /\ q \in Nat
      BY <1>2, <1>5
    <3>2. fence[n] = v[(n - 1) * PageSize + 1].key
      BY <1>3, <3>1
    <3>3. 0 \in 0..Held(v, n - 1) - 1
      BY <1>1, <3>1, PageFacts
    <3>4. (n - 1) * PageSize + 0 + 1 \in 1..c
      BY <1>1, <3>1, <3>3, EntryPlace
    <3>5. (q + 1) * PageSize <= (n - 1) * PageSize /\ (n - 1) * PageSize \in Nat
      BY <1>2, <3>1, Multiples
    <3>6. (q + 1) * PageSize = q * PageSize + PageSize /\ q * PageSize \in Nat
      BY <1>2, <3>1, Multiples
    <3>7. s \in 0..PageSize - 1
      BY <1>1, <1>2, PageFacts
    <3>8. PICK j \in 1..c : j = (n - 1) * PageSize + 1
      BY <3>4, <3>5
    <3>9. i < j
      BY <1>2, <2>2, <3>5, <3>6, <3>7, <3>8
    <3>10. v[i].key < v[j].key /\ v[i].key \in Int /\ v[j].key \in Int
      BY <1>1, <3>9, VectorFacts
    <3>11. QED
      BY <1>5, <2>2, <3>2, <3>8, <3>10
  <2>6. ~(k < fence[1] \/ k > fence[Len(fence)])
    BY <1>2, <1>4, <2>4, <2>5
  <2>7. SearchFence(k) # -1
    BY <1>2, <2>1
  <2>8. BlockGet(k, bit) = DiskSearch(SearchFence(k), k)
    BY Zenon, <2>6, <2>7 DEF BlockGet
  <2>9. QED
    BY Zenon, <2>1, <2>3, <2>8
<1>6. CASE L!Searched(AsRun(v), k)
  <2>1. PICK i \in 1..c : v[i].key = k
    BY <1>1, <1>6, SearchedFacts
  <2>2. PICK q \in 0..n - 1 : \E s \in 0..Held(v, q) - 1 : i = q * PageSize + s + 1
    BY <1>1, EntryPlace
  <2>3. PICK s \in 0..Held(v, q) - 1 : i = q * PageSize + s + 1
    BY <2>2
  <2>4. q < n - 1
    BY <1>1, <1>6, <2>1, <2>3, SearchedFacts
  <2>5. QED
    BY <1>5, <1>6, <2>1, <2>3, <2>4
<1>7. CASE ~L!Searched(AsRun(v), k)
  <2> SUFFICES ASSUME BlockGet(k, bit) # {} PROVE k = 0 /\ fence = <<0>>
    BY <1>7
  <2>1. fence[1] <= k /\ k <= fence[n]
    <3>1. ~(k < fence[1] \/ k > fence[Len(fence)])
      BY Zenon DEF BlockGet
    <3>2. fence[1] \in Int /\ fence[n] \in Int
      BY <1>2, <1>4
    <3>3. QED
      BY <1>2, <1>4, <3>1, <3>2
  <2>2. SearchFence(k) = -1
    <3>1. SUFFICES ASSUME SearchFence(k) # -1 PROVE FALSE
      OBVIOUS
    <3>2. PICK p \in 0..n - 2 : p = SearchFence(k)
      <4>1. SearchFence(k) \in -1..n - 2
        BY <1>2, <1>3, FenceSearch
      <4>2. QED
        BY <1>2, <3>1, <4>1
    <3>3. BlockGet(k, bit) = {} \/ BlockGet(k, bit) = DiskSearch(SearchFence(k), k)
      BY Zenon, <3>1 DEF BlockGet
    <3>4. DiskSearch(p, k) # {}
      BY <3>2, <3>3
    <3>5. p \in 0..n - 1 /\ p < n - 1
      BY <1>2
    <3>6. PICK s \in 0..Held(v, p) - 1 : v[p * PageSize + s + 1].key = k
      BY <1>1, <3>4, <3>5, PageSearch
    <3>7. L!Searched(AsRun(v), k)
      BY <1>1, <3>5, <3>6, SearchedFacts
    <3>8. QED
      BY <1>7, <3>7
  <2>3. n = 1 /\ k = fence[1]
    <3>1. k = fence[n]
      <4>1. ~(fence[1] <= k /\ k < fence[n])
        BY <1>2, <1>3, <2>2, FenceSearch
      <4>2. n \in 1..n
        BY <1>2
      <4>3. fence[n] \in Int
        BY <1>4, <4>2
      <4>4. QED
        BY <1>2, <2>1, <4>1, <4>3
    <3>2. SearchFence(k) = n - 2
      BY <1>2, <1>3, <3>1, FenceSearch
    <3>3. n = 1
      BY <1>2, <2>2, <3>2
    <3>4. QED
      BY <3>1, <3>3
  <2>4. k = 0
    <3>1. k # 0 => BlockGet(k, bit) = {}
      BY Zenon, <2>2 DEF BlockGet
    <3>2. QED
      BY <3>1
  <2>5. fence = <<0>>
    <3>1. fence = [i \in 1..1 |-> fence[i]]
      <4>1. \A m : fence = [i \in 1..m |-> v[(i - 1) * PageSize + 1].key] =>
                      fence = [i \in 1..m |-> fence[i]]
        OBVIOUS
      <4>2. fence = [i \in 1..1 |-> v[(i - 1) * PageSize + 1].key]
        BY Zenon, <1>1, <2>3 DEF BlockFence
      <4>3. QED
        BY Zenon, <4>1, <4>2
    <3>2. \A x, z : x = [i \in 1..1 |-> x[i]] /\ x[1] = z => x = <<z>>
      OBVIOUS
    <3>3. fence[1] = 0
      BY <2>3, <2>4
    <3>4. QED
      BY Zenon, <3>1, <3>2, <3>3
  <2>6. QED
    BY <2>4, <2>5
<1>8. QED
  BY <1>6, <1>7

\* A get in a block finds the entries before its last page and no other, as
\* module LeveledLevels takes it to, but for the entry of key 0 that a failed
\* read can make up in a block of one page.
THEOREM BlockGetCorrect == Spec => []BlockGetMatchesLevels
BY FileCorrect, BlockSearch, PTL
-----------------------------------------------------------------------------
(* Loading a run for compaction *)

\* The pages of v that are full, and the entries on them.
FullPages(v) == Len(v) \div PageSize
Full(v) == FullPages(v) * PageSize

LEMMA FullFacts ==
  ASSUME NEW v \in Vectors, v # <<>>
  PROVE  /\ FullPages(v) \in Nat /\ Full(v) \in 0..Len(v)
         /\ \/ FullPages(v) = Pages(v) /\ Len(v) = Full(v)
            \/ FullPages(v) = Pages(v) - 1 /\ Len(v) - Full(v) \in 1..PageSize - 1
<1> DEFINE n == Pages(v)
           c == Len(v)
           F == FullPages(v)
<1>1. n \in Nat \ {0} /\ c \in Nat \ {0} /\ PageSize \in Nat \ {0}
  BY FenceFacts, PageAssumption
<1>2. F \in Nat /\ F * PageSize <= c /\ c < F * PageSize + PageSize
  BY <1>1, Division DEF FullPages
<1>3. c <= n * PageSize /\ n * PageSize < c + PageSize
  BY PageFacts
<1>4. PICK m \in Nat : m = F * PageSize
  BY <1>1, <1>2, Multiples
<1>5. PICK a \in Int : a = n * PageSize
  BY <1>1
<1> HIDE DEF n, c, F
<1>6. ASSUME F >= n + 1 PROVE m >= a + PageSize
  <2>1. (n + 1) * PageSize <= F * PageSize
    BY <1>1, <1>2, <1>6, Multiples
  <2>2. (n + 1) * PageSize = n * PageSize + PageSize
    BY <1>1, Multiples
  <2>3. QED
    BY <1>4, <1>5, <2>1, <2>2
<1>7. ASSUME F + 2 <= n PROVE m + PageSize + PageSize <= a
  <2>1. (F + 2) * PageSize <= n * PageSize
    BY <1>1, <1>2, <1>7, Multiples
  <2>2. (F + 2) * PageSize = F * PageSize + PageSize + PageSize
    BY <1>1, <1>2
  <2>3. QED
    BY <1>4, <1>5, <2>1, <2>2
<1>8. F = n - 1 => a = m + PageSize
  <2>1. F = n - 1 => (F + 1) * PageSize = n * PageSize
    BY <1>1
  <2>2. (F + 1) * PageSize = F * PageSize + PageSize
    BY <1>1, <1>2, Multiples
  <2>3. QED
    BY <1>4, <1>5, <2>1, <2>2
<1>9. F = n \/ F = n - 1
  BY <1>1, <1>2, <1>3, <1>4, <1>5, <1>6, <1>7
<1>10. F = n => c = m
  BY <1>1, <1>2, <1>3, <1>4, <1>5
<1>11. F = n - 1 => c - m \in 1..PageSize - 1
  BY <1>1, <1>2, <1>3, <1>4, <1>5, <1>8
<1>12. Full(v) = m /\ m \in 0..c
  BY <1>1, <1>2, <1>4 DEF Full, F
<1>13. QED
  BY <1>2, <1>9, <1>10, <1>11, <1>12 DEF n, c, F

\* Where the full pages end.
LEMMA FullReads ==
  ASSUME NEW v \in Vectors, v # <<>>, file = Words(v)
  PROVE  /\ \A i \in 0..FullPages(v) - 1 :
              /\ ~(i * LoadPage > Size) /\ i * LoadPage + LoadPage - 1 < Size
              /\ (i + 1) * LoadPage <= Size
              /\ i \in 0..Pages(v) - 1 /\ Held(v, i) = PageSize
         /\ ~(FullPages(v) * LoadPage > Size)
         /\ ~(FullPages(v) * LoadPage + LoadPage - 1 < Size)
         /\ ~((FullPages(v) + 1) * LoadPage <= Size)
         /\ FullPages(v) = Pages(v) - 1 =>
              /\ Pages(v) * LoadPage > Size
              /\ Size - FullPages(v) * LoadPage = Len(v) - Full(v) + 1
<1> DEFINE n == Pages(v)
           c == Len(v)
           F == FullPages(v)
<1>1. n \in Nat \ {0} /\ c \in Nat \ {0} /\ PageSize \in Nat \ {0}
  BY FenceFacts, PageAssumption
<1>2. PICK m \in Nat : m = F * PageSize /\ m = Full(v)
  BY <1>1, FullFacts, Multiples DEF Full
<1>3. F \in Nat /\ m <= c /\ ((F = n /\ c = m) \/ (F = n - 1 /\ c - m \in 1..PageSize - 1))
  BY <1>1, <1>2, FullFacts
<1>4. Size = c + n
  BY ReadFacts
<1>5. PICK e \in Int : e = F * LoadPage /\ e = m + F /\ (F + 1) * LoadPage = e + LoadPage /\ LoadPage = PageSize + 1
  <2>1. LoadPage = PageSize + 1 /\ LoadPage \in Nat
    BY <1>1 DEF LoadPage
  <2>2. F * (PageSize + 1) = F * PageSize + F
    BY <1>1, <1>3, Multiples
  <2>3. (F + 1) * LoadPage = F * LoadPage + LoadPage
    BY <1>3, <2>1, Multiples
  <2>4. F * LoadPage = m + F
    BY Zenon, <1>2, <2>1, <2>2
  <2>5. m + F \in Int
    BY <1>2, <1>3
  <2>6. QED
    BY Zenon, <2>1, <2>3, <2>4, <2>5
<1> HIDE DEF n, c, F
<1>6. /\ ~(e > Size) /\ ~(e + LoadPage - 1 < Size) /\ ~(e + LoadPage <= Size)
      /\ F = n - 1 => Size - e = c - m + 1 /\ e + LoadPage > Size /\ F + 1 = n
  BY <1>1, <1>3, <1>4, <1>5
<1>7. ASSUME NEW i \in 0..F - 1
      PROVE  /\ ~(i * LoadPage > Size) /\ i * LoadPage + LoadPage - 1 < Size
             /\ (i + 1) * LoadPage <= Size
  <2>1. i \in Nat /\ i + 1 <= F
    BY <1>3
  <2>2. (i + 1) * LoadPage <= F * LoadPage
    BY <1>1, <1>3, <2>1, Multiples DEF LoadPage
  <2>3. PICK x \in Int : x = i * LoadPage /\ (i + 1) * LoadPage = x + LoadPage
    BY <1>1, <2>1, Multiples DEF LoadPage
  <2>4. x + LoadPage <= e
    BY <1>5, <2>2, <2>3
  <2>5. e <= Size /\ Size \in Int
    BY <1>1, <1>3, <1>4, <1>5
  <2>6. x + LoadPage <= Size /\ ~(x > Size) /\ x + LoadPage - 1 < Size
    BY <1>1, <1>5, <2>3, <2>4, <2>5
  <2>7. QED
    BY <2>3, <2>6
<1>8. ASSUME NEW i \in 0..F - 1 PROVE i \in 0..n - 1 /\ Held(v, i) = PageSize
  <2>1. i \in 0..n - 1
    BY <1>1, <1>3
  <2>2. (i + 1) * PageSize <= F * PageSize
    <3>1. i + 1 <= F /\ i \in Nat
      BY <1>3
    <3>2. QED
      BY <1>1, <1>3, <3>1, Multiples
  <2>3. (i + 1) * PageSize <= Len(v)
    <3>1. (i + 1) * PageSize \in Int
      BY <1>1, <2>1
    <3>2. QED
      BY <1>1, <1>2, <1>3, <2>2, <3>1 DEF c
  <2>4. QED
    BY <2>1, <2>3 DEF Held
<1>9. F = n - 1 => n * LoadPage > Size /\ Size - F * LoadPage = c - m + 1
  <2> SUFFICES ASSUME F = n - 1 PROVE n * LoadPage > Size /\ Size - F * LoadPage = c - m + 1
    OBVIOUS
  <2>1. Size - e = c - m + 1 /\ e + LoadPage > Size /\ F + 1 = n
    BY <1>6
  <2>2. n * LoadPage = e + LoadPage
    BY <1>5, <2>1
  <2>3. QED
    BY <1>5, <2>1, <2>2
<1>10. ~(F * LoadPage > Size) /\ ~(F * LoadPage + LoadPage - 1 < Size) /\ ~((F + 1) * LoadPage <= Size)
  BY <1>5, <1>6
<1>11. QED
  BY <1>2, <1>7, <1>8, <1>9, <1>10 DEF n, c, F

\* The entry that decoding a zeroed word gives.
Zeroed(bit) == [key |-> 0, ver |-> 0, del |-> bit]
Turn(good, read) == [good |-> good, read |-> read]

\* What load_full_file reads in turn i: a full page, or nothing but zeros.
LEMMA RunTurns ==
  ASSUME NEW v \in Vectors, v # <<>>, file = Words(v), NEW junk \in Junk
  PROVE  LET F == FullPages(v)
         IN  /\ \A i \in 0..F - 1 :
                  LoadTurn(i, TRUE, junk) = Turn(TRUE, [s \in 1..PageSize |-> v[i * PageSize + s]])
             /\ LoadTurn(F, TRUE, junk) = Turn(FALSE, [s \in 1..PageSize |-> Zeroed(junk[F % 2][s])])
             /\ F = Pages(v) - 1 =>
                  LoadTurn(F + 1, FALSE, junk)
                    = Turn(FALSE, [s \in 1..Len(v) - Full(v) |-> Zeroed(junk[(F + 1) % 2][s])])
<1> DEFINE F == FullPages(v)
           n == Pages(v)
           size(i) == IF i * LoadPage > Size THEN Size - (i - 1) * LoadPage ELSE LoadPage
           ok(i, good) == good /\ i * LoadPage + size(i) - 1 < Size
           bits(i, good) == IF ok(i, good) THEN WordAt(i * LoadPage + size(i) - 1).bits ELSE junk[i % 2]
           word(i, good, s) == IF ok(i, good) THEN WordAt(i * LoadPage + s - 1) ELSE [key |-> 0, ver |-> 0]
           entry(i, good, s) == [key |-> word(i, good, s).key, ver |-> word(i, good, s).ver,
                                 del |-> bits(i, good)[s]]
<1>1. \A i, good : LoadTurn(i, good, junk) = [good |-> ok(i, good), read |-> [s \in 1..size(i) - 1 |-> entry(i, good, s)]]
  BY Zenon DEF LoadTurn
<1>2. n \in Nat \ {0} /\ PageSize \in Nat \ {0} /\ F \in Nat /\ LoadPage - 1 = PageSize /\ LoadPage \in Nat
  BY FenceFacts, PageAssumption, FullFacts DEF LoadPage
<1>3. ASSUME NEW i, NEW good, ~ok(i, good)
      PROVE  LoadTurn(i, good, junk) = Turn(FALSE, [s \in 1..size(i) - 1 |-> Zeroed(junk[i % 2][s])])
  <2>1. \A s : entry(i, good, s) = Zeroed(junk[i % 2][s])
    BY Zenon, <1>3 DEF Zeroed
  <2>2. ok(i, good) = FALSE
    BY <1>3
  <2> HIDE DEF entry, ok, size
  <2>3. LoadTurn(i, good, junk) = [good |-> FALSE, read |-> [s \in 1..size(i) - 1 |-> entry(i, good, s)]]
    BY <1>1, <2>2
  <2>4. [s \in 1..size(i) - 1 |-> entry(i, good, s)] = [s \in 1..size(i) - 1 |-> Zeroed(junk[i % 2][s])]
    BY <2>1
  <2>5. QED
    BY Zenon, <2>3, <2>4 DEF Turn
<1>4. ASSUME NEW i \in 0..F - 1
      PROVE  LoadTurn(i, TRUE, junk) = Turn(TRUE, [s \in 1..PageSize |-> v[i * PageSize + s]])
  <2>1. /\ ~(i * LoadPage > Size) /\ i * LoadPage + LoadPage - 1 < Size
        /\ i \in 0..n - 1 /\ Held(v, i) = PageSize
    BY FullReads
  <2>2. size(i) = LoadPage /\ size(i) - 1 = PageSize
    BY <1>2, <2>1
  <2>3. ok(i, TRUE) = TRUE
    BY Zenon, <2>1, <2>2
  <2>4. i * LoadPage + size(i) - 1 = i * LoadPage + PageSize
    <3>1. i * LoadPage \in Int
      BY <1>2
    <3>2. QED
      BY <1>2, <2>2, <3>1
  <2>5. bits(i, TRUE) = WordAt(i * LoadPage + Held(v, i)).bits
    BY Zenon, <2>1, <2>3, <2>4
  <2>6. ASSUME NEW s \in 1..PageSize PROVE entry(i, TRUE, s) = v[i * PageSize + s]
    <3>1. s - 1 \in 0..Held(v, i) - 1
      BY <1>2, <2>1
    <3>2. i * LoadPage \in Int /\ i * PageSize \in Int
      BY <1>2
    <3>3. /\ i * LoadPage + (s - 1) = i * LoadPage + s - 1
          /\ i * PageSize + (s - 1) + 1 = i * PageSize + s /\ (s - 1) + 1 = s
      BY <1>2, <3>2
    <3>4. /\ WordAt(i * LoadPage + (s - 1)).key = v[i * PageSize + (s - 1) + 1].key
          /\ WordAt(i * LoadPage + (s - 1)).ver = v[i * PageSize + (s - 1) + 1].ver
          /\ WordAt(i * LoadPage + Held(v, i)).bits[(s - 1) + 1] = v[i * PageSize + (s - 1) + 1].del
      BY <2>1, <3>1, ReadFacts
    <3>5. /\ word(i, TRUE, s).key = v[i * PageSize + s].key
          /\ word(i, TRUE, s).ver = v[i * PageSize + s].ver
      BY Zenon, <2>3, <3>3, <3>4
    <3>6. bits(i, TRUE)[s] = v[i * PageSize + s].del
      BY Zenon, <2>5, <3>3, <3>4
    <3>7. PICK j \in 1..Len(v) : j = i * PageSize + s
      <4>1. i * PageSize + (s - 1) + 1 \in 1..Len(v)
        BY <2>1, <3>1, EntryPlace
      <4>2. QED
        BY <3>3, <4>1
    <3>8. v[j] = [key |-> v[j].key, ver |-> j, del |-> v[j].del] /\ v[j].ver = j
      BY Zenon, VectorFacts
    <3>9. QED
      BY Zenon, <3>5, <3>6, <3>7, <3>8
  <2> HIDE DEF entry, ok, size, bits, word
  <2>7. LoadTurn(i, TRUE, junk) = [good |-> TRUE, read |-> [s \in 1..PageSize |-> entry(i, TRUE, s)]]
    BY Zenon, <1>1, <2>2, <2>3
  <2>8. [s \in 1..PageSize |-> entry(i, TRUE, s)] = [s \in 1..PageSize |-> v[i * PageSize + s]]
    BY <2>6
  <2>9. QED
    BY Zenon, <2>7, <2>8 DEF Turn
<1>5. LoadTurn(F, TRUE, junk) = Turn(FALSE, [s \in 1..PageSize |-> Zeroed(junk[F % 2][s])])
  <2>1. ~(F * LoadPage > Size) /\ ~(F * LoadPage + LoadPage - 1 < Size)
    BY FullReads
  <2>2. size(F) = LoadPage /\ size(F) - 1 = PageSize
    BY <1>2, <2>1
  <2>3. ~ok(F, TRUE)
    BY Zenon, <2>1, <2>2
  <2>4. LoadTurn(F, TRUE, junk) = Turn(FALSE, [s \in 1..size(F) - 1 |-> Zeroed(junk[F % 2][s])])
    BY Zenon, <1>3, <2>3
  <2>5. QED
    BY Zenon, <2>2, <2>4
<1>6. ASSUME F = n - 1
      PROVE  LoadTurn(F + 1, FALSE, junk)
               = Turn(FALSE, [s \in 1..Len(v) - Full(v) |-> Zeroed(junk[(F + 1) % 2][s])])
  <2>1. n * LoadPage > Size /\ Size - F * LoadPage = Len(v) - Full(v) + 1
    BY <1>6, FullReads
  <2>2. F + 1 = n /\ (F + 1) - 1 = F
    BY <1>2, <1>6
  <2>3. size(F + 1) = Len(v) - Full(v) + 1
    BY Zenon, <2>1, <2>2
  <2>4. size(F + 1) - 1 = Len(v) - Full(v)
    <3>1. Len(v) \in Int /\ Full(v) \in Int
      BY VectorFacts, FullFacts
    <3>2. QED
      BY <2>3, <3>1
  <2>5. ~ok(F + 1, FALSE)
    OBVIOUS
  <2>6. LoadTurn(F + 1, FALSE, junk) = Turn(FALSE, [s \in 1..size(F + 1) - 1 |-> Zeroed(junk[(F + 1) % 2][s])])
    BY Zenon, <1>3, <2>5
  <2>7. QED
    BY Zenon, <2>4, <2>6
<1>7. QED
  BY <1>4, <1>5, <1>6

LEMMA Joins ==
  ASSUME NEW a, NEW m \in Nat, a = [i \in 1..m |-> a[i]],
         NEW b, NEW h \in Nat, b = [i \in 1..h |-> b[i]]
  PROVE  /\ a \o b = [i \in 1..m + h |-> (a \o b)[i]]
         /\ \A i \in 1..m : (a \o b)[i] = a[i]
         /\ \A s \in 1..h : (a \o b)[m + s] = b[s]
<1> DEFINE S == {a[i] : i \in 1..m} \cup {b[i] : i \in 1..h}
<1>1. \A x : x = [i \in 1..m |-> a[i]] => x \in Seq(S) /\ Len(x) = m
  OBVIOUS
<1>2. \A x : x = [i \in 1..h |-> b[i]] => x \in Seq(S) /\ Len(x) = h
  OBVIOUS
<1> HIDE DEF S
<1>3. a \in Seq(S) /\ Len(a) = m /\ b \in Seq(S) /\ Len(b) = h
  BY Zenon, <1>1, <1>2
<1>4. /\ a \o b \in Seq(S) /\ Len(a \o b) = m + h
      /\ \A i \in 1..m + h : (a \o b)[i] = IF i <= m THEN a[i] ELSE b[i - m]
  BY <1>3, ConcatProperties
<1>5. PICK z \in Seq(S) : z = a \o b
  BY <1>4
<1>6. z = [i \in 1..m + h |-> z[i]]
  BY <1>4, <1>5
<1>7. \A i \in 1..m + h : z[i] = IF i <= m THEN a[i] ELSE b[i - m]
  BY Zenon, <1>4, <1>5
<1>8. \A i \in 1..m : z[i] = a[i]
  <2>1. \A i \in 1..m : i \in 1..m + h /\ i <= m
    OBVIOUS
  <2>2. QED
    BY Zenon, <1>7, <2>1
<1>9. \A s \in 1..h : z[m + s] = b[s]
  <2>1. \A s \in 1..h : m + s \in 1..m + h /\ ~(m + s <= m) /\ (m + s) - m = s
    OBVIOUS
  <2>2. QED
    BY <1>7, <2>1
<1>10. QED
  BY Zenon, <1>5, <1>6, <1>8, <1>9

\* What load_full_file has after its last turn: the entries of the full pages,
\* then entries of key 0.
LEMMA RunLoaded ==
  ASSUME NEW v \in Vectors, v # <<>>, file = Words(v), fence = Fence(v), NEW junk \in Junk
  PROVE  LET B == LoadFullFile(junk)
         IN  \E len \in Nat : /\ B = [i \in 1..len |-> B[i]] /\ Full(v) + 1 <= len
                              /\ \A i \in 1..Full(v) : B[i] = v[i]
                              /\ B[Full(v) + 1] = Zeroed(junk[FullPages(v) % 2][1])
                              /\ \A i \in Full(v) + 1..len : B[i].key = 0
<1> DEFINE n == Pages(v)
           F == FullPages(v)
           m == Full(v)
           State(good, list) == [good |-> good, buffer |-> list]
           Z1 == [s \in 1..PageSize |-> Zeroed(junk[F % 2][s])]
           Z2 == [s \in 1..Len(v) - m |-> Zeroed(junk[(F + 1) % 2][s])]
           step(i, prev) == State(LoadTurn(i, prev.good, junk).good,
                                  prev.buffer \o LoadTurn(i, prev.good, junk).read)
           next(q, prev) == step(q - 1, prev)
           start == State(TRUE, <<>>)
           W == CHOOSE load : load = [q \in 0..Len(fence) |-> IF q = 0 THEN start ELSE next(q, load[q - 1])]
           front == Front(v, m)
<1>0. PICK yes, no : yes = TRUE /\ no = FALSE
  OBVIOUS
<1> DEFINE at(q) == IF q <= F THEN State(yes, Front(v, q * PageSize))
                    ELSE IF q = F + 1 THEN State(no, front \o Z1)
                    ELSE State(no, (front \o Z1) \o Z2)
           f == [q \in 0..n + 1 |-> at(q)]
<1>1. n \in Nat \ {0} /\ PageSize \in Nat \ {0} /\ F \in Nat /\ m \in 0..Len(v) /\ Len(v) \in Nat
  BY FenceFacts, PageAssumption, FullFacts
<1>2. (F = n /\ Len(v) = m) \/ (F = n - 1 /\ Len(v) - m \in 1..PageSize - 1)
  BY FullFacts
<1>3. Len(fence) = n + 1
  BY FenceFacts DEF Ordered
<1>4. LoadFullFile(junk) = W[Len(fence)].buffer
  BY Zenon DEF LoadFullFile
<1>5. /\ \A g, b : State(g, b).good = g /\ State(g, b).buffer = b
      /\ \A g, r : Turn(g, r).good = g /\ Turn(g, r).read = r
  BY DEF Turn
<1> HIDE DEF State
<1>6. ASSUME NEW i, NEW g, NEW b, NEW h, NEW r, LoadTurn(i, g, junk) = Turn(h, r)
      PROVE  step(i, State(g, b)) = State(h, b \o r)
  <2>1. State(g, b).good = g /\ State(g, b).buffer = b /\ Turn(h, r).good = h /\ Turn(h, r).read = r
    BY <1>5
  <2>2. step(i, State(g, b)) = State(LoadTurn(i, g, junk).good, b \o LoadTurn(i, g, junk).read)
    BY Zenon, <2>1
  <2>3. QED
    BY Zenon, <1>6, <2>1, <2>2
<1>7. ASSUME NEW q \in 1..n + 1 PROVE at(q) = next(q, at(q - 1))
  <2>1. CASE q <= F
    <3>1. q - 1 \in 0..F - 1 /\ q - 1 <= F /\ q - 1 \in Nat
      BY <1>1, <2>1
    <3>2. LoadTurn(q - 1, TRUE, junk) = Turn(TRUE, [s \in 1..PageSize |-> v[(q - 1) * PageSize + s]])
      BY <3>1, RunTurns
    <3>3. PICK x \in 0..Len(v) : x = (q - 1) * PageSize /\ x + PageSize <= Len(v) /\ x + PageSize = q * PageSize
      <4>1. (q - 1) * PageSize \in Nat /\ (q - 1) * PageSize = q * PageSize - PageSize /\ q * PageSize \in Int
        BY <1>1, <3>1, Multiples
      <4>2. q * PageSize <= m
        BY <1>1, <2>1, Multiples DEF Full
      <4>3. QED
        BY <1>1, <4>1, <4>2
    <3>4. Front(v, x) \o [s \in 1..PageSize |-> v[x + s]] = Front(v, x + PageSize)
      BY <1>1, <3>3, FrontFacts
    <3>5. at(q - 1) = State(yes, Front(v, x)) /\ at(q) = State(yes, Front(v, q * PageSize))
      BY Zenon, <2>1, <3>1, <3>3
    <3>6. PICK r : r = [s \in 1..PageSize |-> v[x + s]]
      OBVIOUS
    <3>7. LoadTurn(q - 1, yes, junk) = Turn(yes, r) /\ Front(v, x) \o r = Front(v, q * PageSize)
      BY Zenon, <1>0, <3>2, <3>3, <3>4, <3>6
    <3> HIDE DEF next, at
    <3>8. next(q, State(yes, Front(v, x))) = State(yes, Front(v, x) \o r)
      <4>1. PICK i : i = q - 1
        OBVIOUS
      <4> HIDE DEF step
      <4>2. step(i, State(yes, Front(v, x))) = State(yes, Front(v, x) \o r)
        <5>1. LoadTurn(i, yes, junk) = Turn(yes, r)
          BY Zenon, <3>7, <4>1
        <5>2. QED
          BY <1>6, <5>1
      <4>3. QED
        BY Zenon, <4>1, <4>2 DEF next
    <3>9. QED
      BY Zenon, <3>5, <3>7, <3>8
  <2>2. CASE q = F + 1
    <3>1. q - 1 = F /\ F <= F /\ ~(q <= F)
      BY <1>1, <2>2
    <3>2. at(q - 1) = State(yes, front) /\ at(q) = State(no, front \o Z1)
      BY Zenon, <2>2, <3>1 DEF Full
    <3>3. LoadTurn(q - 1, yes, junk) = Turn(no, Z1)
      <4>1. LoadTurn(F, TRUE, junk) = Turn(FALSE, Z1)
        BY RunTurns
      <4>2. QED
        BY Zenon, <1>0, <3>1, <4>1
    <3> HIDE DEF next, at, Z1, front
    <3>4. next(q, State(yes, front)) = State(no, front \o Z1)
      <4>1. PICK i : i = q - 1
        OBVIOUS
      <4> HIDE DEF step
      <4>2. step(i, State(yes, front)) = State(no, front \o Z1)
        BY <1>6, <3>3, <4>1
      <4>3. QED
        BY Zenon, <4>1, <4>2 DEF next
    <3>5. QED
      BY Zenon, <3>2, <3>4
  <2>3. CASE q > F + 1
    <3>1. F = n - 1 /\ q - 1 = F + 1 /\ ~(q <= F) /\ ~(q = F + 1) /\ ~(q - 1 <= F)
      BY <1>1, <1>2, <2>3
    <3>2. at(q - 1) = State(no, front \o Z1) /\ at(q) = State(no, (front \o Z1) \o Z2)
      BY Zenon, <3>1
    <3>3. LoadTurn(q - 1, no, junk) = Turn(no, Z2)
      <4>1. LoadTurn(F + 1, FALSE, junk) = Turn(FALSE, Z2)
        BY <3>1, RunTurns
      <4>2. QED
        BY Zenon, <1>0, <3>1, <4>1
    <3> HIDE DEF next, at, Z1, Z2, front
    <3>4. next(q, State(no, front \o Z1)) = State(no, (front \o Z1) \o Z2)
      <4>1. PICK i : i = q - 1
        OBVIOUS
      <4> HIDE DEF step
      <4>2. step(i, State(no, front \o Z1)) = State(no, (front \o Z1) \o Z2)
        BY <1>6, <3>3, <4>1
      <4>3. QED
        BY Zenon, <4>1, <4>2 DEF next
    <3>5. QED
      BY Zenon, <3>2, <3>4
  <2>4. q <= F \/ q = F + 1 \/ q > F + 1
    BY <1>1
  <2>5. QED
    BY Zenon, <2>1, <2>2, <2>3, <2>4
<1>8. at(0) = start
  <2>1. 0 <= F /\ 0 * PageSize = 0
    BY <1>1
  <2>2. Front(v, 0) = <<>>
    BY FrontFacts
  <2>3. QED
    BY Zenon, <1>0, <2>1, <2>2
<1> HIDE DEF at, next, start
<1>9. f = [q \in 0..Len(fence) |-> IF q = 0 THEN start ELSE next(q, f[q - 1])]
  <2>1. \A q \in 0..n + 1 : q = 0 \/ (q \in 1..n + 1 /\ q - 1 \in 0..n + 1)
    BY <1>1
  <2>2. \A q \in 0..n + 1 : at(q) = IF q = 0 THEN start ELSE next(q, f[q - 1])
    BY <1>7, <1>8, <2>1
  <2>3. QED
    BY <1>3, <2>2
<1> HIDE DEF f
<1>10. W = [q \in 0..Len(fence) |-> IF q = 0 THEN start ELSE next(q, W[q - 1])]
  BY Zenon, <1>9
<1> HIDE DEF W
<1>11. W[0] = f[0] /\ \A q \in 1..n + 1 : W[q - 1] = f[q - 1] => W[q] = f[q]
  <2>1. 0 \in 0..Len(fence) /\ \A q \in 1..n + 1 : q # 0 /\ q \in 0..Len(fence)
    BY <1>1, <1>3
  <2>2. \A q \in 0..Len(fence) : W[q] = IF q = 0 THEN start ELSE next(q, W[q - 1])
    BY <1>10
  <2>3. \A q \in 0..Len(fence) : f[q] = IF q = 0 THEN start ELSE next(q, f[q - 1])
    BY <1>9
  <2>4. QED
    BY Zenon, <2>1, <2>2, <2>3
<1>12. n + 1 \in Nat /\ n + 1 \in 0..n + 1
  BY <1>1
<1>13. W[n + 1] = f[n + 1]
  BY <1>11, <1>12, SameSteps
<1>14. W[n + 1] = at(n + 1)
  BY <1>12, <1>13 DEF f
<1>15. LoadFullFile(junk) = at(n + 1).buffer
  BY Zenon, <1>3, <1>4, <1>14
<1> DEFINE B1 == front \o Z1
           B2 == B1 \o Z2
<1>16. /\ B1 = [i \in 1..m + PageSize |-> B1[i]]
       /\ \A i \in 1..m : B1[i] = v[i]
       /\ \A s \in 1..PageSize : B1[m + s] = Z1[s]
  <2>1. front = [i \in 1..m |-> front[i]] /\ Z1 = [s \in 1..PageSize |-> Z1[s]]
    BY DEF Front
  <2>2. \A i \in 1..m : front[i] = v[i]
    BY <1>1, FrontFacts
  <2> HIDE DEF front, Z1
  <2>3. QED
    BY <1>1, <2>1, <2>2, Joins
<1>17. \A s \in 1..PageSize : Z1[s] = Zeroed(junk[F % 2][s])
  OBVIOUS
<1>18. \A bit : Zeroed(bit).key = 0
  BY DEF Zeroed
<1> HIDE DEF B1, Z1
<1>19. B1[m + 1] = Zeroed(junk[F % 2][1]) /\ \A i \in m + 1..m + PageSize : B1[i].key = 0
  <2>1. 1 \in 1..PageSize
    BY <1>1
  <2>2. ASSUME NEW i \in m + 1..m + PageSize PROVE B1[i].key = 0
    <3>1. i - m \in 1..PageSize /\ m + (i - m) = i
      BY <1>1
    <3>2. B1[i] = Zeroed(junk[F % 2][i - m])
      BY <1>16, <1>17, <3>1
    <3>3. QED
      BY Zenon, <1>18, <3>2
  <2>3. QED
    BY <1>16, <1>17, <2>1, <2>2
<1>20. CASE F = n
  <2>1. n + 1 = F + 1 /\ ~(n + 1 <= F)
    BY <1>1, <1>20
  <2>2. at(n + 1) = State(no, B1)
    BY Zenon, <2>1 DEF at, B1
  <2>3. LoadFullFile(junk) = B1
    <3>1. State(no, B1).buffer = B1
      BY <1>5
    <3>2. QED
      BY Zenon, <1>15, <2>2, <3>1
  <2>4. m + PageSize \in Nat /\ m + 1 <= m + PageSize
    BY <1>1
  <2>5. QED
    BY <1>16, <1>19, <2>3, <2>4
<1>21. CASE F = n - 1 /\ Len(v) - m \in 1..PageSize - 1
  <2>1. ~(n + 1 = F + 1) /\ ~(n + 1 <= F)
    BY <1>1, <1>21
  <2>2. at(n + 1) = State(no, B2)
    BY Zenon, <2>1 DEF at, B1
  <2>3. LoadFullFile(junk) = B2
    <3>1. State(no, B2).buffer = B2
      BY <1>5
    <3>2. QED
      BY Zenon, <1>15, <2>2, <3>1
  <2>4. PICK h \in Nat : h = Len(v) - m
    BY <1>1, <1>21
  <2>5. Z2 = [s \in 1..h |-> Z2[s]] /\ \A s \in 1..h : Z2[s] = Zeroed(junk[(F + 1) % 2][s])
    BY <2>4
  <2>6. m + PageSize \in Nat /\ m + PageSize + h \in Nat /\ m + 1 <= m + PageSize + h
    BY <1>1
  <2> HIDE DEF Z2
  <2>7. /\ B2 = [i \in 1..m + PageSize + h |-> B2[i]]
        /\ \A i \in 1..m + PageSize : B2[i] = B1[i]
        /\ \A s \in 1..h : B2[m + PageSize + s] = Z2[s]
    BY <1>16, <2>5, <2>6, Joins
  <2> HIDE DEF B2
  <2>8. \A i \in 1..m : B2[i] = v[i]
    <3>1. \A i \in 1..m : i \in 1..m + PageSize
      BY <1>1
    <3>2. QED
      BY <1>16, <2>7, <3>1
  <2>9. B2[m + 1] = Zeroed(junk[F % 2][1])
    <3>1. m + 1 \in 1..m + PageSize
      BY <1>1
    <3>2. QED
      BY <1>19, <2>7, <3>1
  <2>10. ASSUME NEW i \in m + 1..m + PageSize + h PROVE B2[i].key = 0
    <3>1. CASE i <= m + PageSize
      <4>1. i \in 1..m + PageSize /\ i \in m + 1..m + PageSize
        BY <1>1, <3>1
      <4>2. QED
        BY <1>19, <2>7, <4>1
    <3>2. CASE ~(i <= m + PageSize)
      <4>1. i - m - PageSize \in 1..h /\ m + PageSize + (i - m - PageSize) = i
        BY <1>1, <3>2
      <4>2. B2[i] = Zeroed(junk[(F + 1) % 2][i - m - PageSize])
        BY <2>5, <2>7, <4>1
      <4>3. QED
        BY Zenon, <1>18, <4>2
    <3>3. QED
      BY <3>1, <3>2
  <2>11. QED
    BY <2>3, <2>6, <2>7, <2>8, <2>9, <2>10
<1>22. QED
  BY <1>2, <1>20, <1>21

\* The first entry with key k of what was loaded, and its keys.
FirstOf(B, k) == B[Least({i \in DOMAIN B : B[i].key = k})]
LoadedKeys(B) == {B[i].key : i \in DOMAIN B}

LEMMA FirstFacts ==
  ASSUME NEW B, NEW len \in Nat, B = [i \in 1..len |-> B[i]],
         NEW i \in 1..len, \A j \in 1..len : B[j].key = B[i].key => i <= j
  PROVE  B[i].key \in LoadedKeys(B) /\ FirstOf(B, B[i].key) = B[i]
<1> DEFINE S == {j \in DOMAIN B : B[j].key = B[i].key}
<1>1. DOMAIN B = 1..len
  <2>1. \A x : x = [j \in 1..len |-> B[j]] => DOMAIN x = 1..len
    OBVIOUS
  <2>2. QED
    BY Zenon, <2>1
<1>2. i \in S /\ S \subseteq Nat /\ \A j \in S : i <= j /\ j \in Nat
  BY <1>1
<1>3. Least(S) \in S /\ \A j \in S : Least(S) <= j
  BY <1>2, LeastFacts
<1> HIDE DEF S
<1>4. Least(S) = i
  <2>1. i \in Nat /\ Least(S) \in Nat /\ Least(S) <= i /\ i <= Least(S)
    BY <1>2, <1>3
  <2>2. QED
    BY <2>1
<1>5. QED
  BY Zenon, <1>1, <1>4 DEF S, FirstOf, LoadedKeys

LEMMA RunLoad == FileInv => LoadMatchesTree
<1> DEFINE v == entries
           m == Full(v)
<1> SUFFICES ASSUME FileInv, IsRun, NEW junk \in Junk
             PROVE  LET B == LoadFullFile(junk)
                        kept == [k \in Keys |-> IF k \in LoadedKeys(B) THEN T!CellOf(FirstOf(B, k)) ELSE T!None]
                    IN  \E bit \in BOOLEAN : kept = T!LoadFullFile(AsRun(v), bit)
  BY Zenon DEF LoadMatchesTree, LoadedKeys, FirstOf
<1>1. v \in Vectors /\ v # <<>> /\ file = Words(v) /\ fence = Fence(v)
  BY DEF FileInv, IsRun
<1>2. FullPages(v) \in Nat /\ m \in 0..Len(v) /\ Len(v) \in Nat /\ PageSize \in Nat \ {0}
  BY <1>1, FullFacts, VectorFacts, PageAssumption
<1>3. PICK bit \in BOOLEAN : bit = junk[FullPages(v) % 2][1]
  <2>1. FullPages(v) % 2 \in 0..1 /\ 1 \in 1..PageSize
    BY <1>2
  <2>2. QED
    BY <2>1 DEF Junk, Bits
<1>4. PICK B : B = LoadFullFile(junk)
  OBVIOUS
<1>5. PICK len \in Nat : /\ B = [i \in 1..len |-> B[i]] /\ m + 1 <= len
                         /\ \A i \in 1..m : B[i] = v[i]
                         /\ B[m + 1] = Zeroed(bit)
                         /\ \A i \in m + 1..len : B[i].key = 0
  BY <1>1, <1>3, <1>4, RunLoaded
<1>6. T!InFullPage(AsRun(v)) = SavedKeys(v, m)
  BY <1>1, PlacesFacts DEF Full, FullPages
<1> DEFINE kept == [k \in Keys |-> IF k \in LoadedKeys(B) THEN T!CellOf(FirstOf(B, k)) ELSE T!None]
           loaded == T!LoadFullFile(AsRun(v), bit)
           cell(k) == IF k \in SavedKeys(v, m) THEN AsRun(v)[k]
                      ELSE IF k = 0 THEN [ver |-> 0, del |-> bit] ELSE T!None
<1>7. loaded = [k \in Keys |-> cell(k)]
  BY Zenon, <1>6 DEF T!LoadFullFile
<1>8. \A i \in 1..m : i \in 1..len /\ i \in 1..Len(v)
  BY <1>2, <1>5
<1>9. ASSUME NEW k \in Keys, k \in SavedKeys(v, m)
      PROVE  k \in LoadedKeys(B) /\ T!CellOf(FirstOf(B, k)) = cell(k)
  <2>1. PICK i \in 1..m : k = v[i].key
    BY <1>9 DEF SavedKeys
  <2>2. B[i] = v[i] /\ i \in 1..len /\ i \in 1..Len(v)
    BY <1>5, <1>8
  <2>3. ASSUME NEW j \in 1..len, B[j].key = B[i].key PROVE i <= j
    <3>1. CASE j \in 1..m
      <4>1. v[j].key = v[i].key /\ j \in 1..Len(v)
        BY <1>5, <1>8, <2>2, <2>3, <3>1
      <4>2. j = i
        BY <1>1, <2>2, <4>1, KeysDiffer
      <4>3. QED
        BY <4>2
    <3>2. CASE j \notin 1..m
      BY <1>2, <3>2
    <3>3. QED
      BY <3>1, <3>2
  <2>4. B[i].key \in LoadedKeys(B) /\ FirstOf(B, B[i].key) = B[i]
    BY <1>5, <2>2, <2>3, FirstFacts
  <2>5. AsRun(v)[v[i].key] = T!CellOf(v[i])
    BY <1>1, <2>2, AsRunFacts
  <2>6. k \in LoadedKeys(B) /\ FirstOf(B, k) = v[i]
    BY Zenon, <2>1, <2>2, <2>4
  <2>7. QED
    BY Zenon, <1>9, <2>1, <2>5, <2>6
<1>10. ASSUME 0 \notin SavedKeys(v, m)
       PROVE  0 \in LoadedKeys(B) /\ T!CellOf(FirstOf(B, 0)) = cell(0)
  <2>1. m + 1 \in 1..len
    BY <1>2, <1>5
  <2>2. B[m + 1].key = 0
    <3>1. m + 1 \in m + 1..len
      BY <1>2, <1>5
    <3>2. QED
      BY Zenon, <1>5, <3>1
  <2>3. ASSUME NEW j \in 1..len, B[j].key = B[m + 1].key PROVE m + 1 <= j
    <3>1. CASE j \in 1..m
      <4>1. v[j].key = 0
        BY Zenon, <1>5, <2>2, <2>3, <3>1
      <4>2. QED
        BY <1>10, <3>1, <4>1 DEF SavedKeys
    <3>2. CASE j \notin 1..m
      BY <1>2, <3>2
    <3>3. QED
      BY <3>1, <3>2
  <2>4. B[m + 1].key \in LoadedKeys(B) /\ FirstOf(B, B[m + 1].key) = B[m + 1]
    BY <1>5, <2>1, <2>3, FirstFacts
  <2>5. 0 \in LoadedKeys(B) /\ FirstOf(B, 0) = Zeroed(bit)
    BY Zenon, <1>5, <2>2, <2>4
  <2>6. T!CellOf(Zeroed(bit)) = [ver |-> 0, del |-> bit]
    BY Zenon DEF T!CellOf, Zeroed
  <2>7. QED
    BY Zenon, <1>10, <2>5, <2>6
<1>11. ASSUME NEW k \in Keys, k \notin SavedKeys(v, m), k # 0 PROVE k \notin LoadedKeys(B)
  <2>1. DOMAIN B = 1..len
    <3>1. \A x : x = [j \in 1..len |-> B[j]] => DOMAIN x = 1..len
      OBVIOUS
    <3>2. QED
      BY Zenon, <1>5, <3>1
  <2>2. ASSUME NEW j \in 1..len PROVE B[j].key # k
    <3>1. j \in 1..m \/ j \in m + 1..len
      BY <1>2
    <3>2. j \in 1..m => B[j].key = v[j].key /\ v[j].key \in SavedKeys(v, m)
      BY <1>5 DEF SavedKeys
    <3>3. j \in m + 1..len => B[j].key = 0
      BY <1>5
    <3>4. QED
      BY <1>11, <3>1, <3>2, <3>3
  <2>3. QED
    BY <2>1, <2>2 DEF LoadedKeys
<1> DEFINE got(k) == IF k \in LoadedKeys(B) THEN T!CellOf(FirstOf(B, k)) ELSE T!None
<1>12. ASSUME NEW k \in Keys PROVE got(k) = cell(k)
  <2>1. CASE k \in SavedKeys(v, m)
    <3> HIDE DEF cell
    <3>1. QED
      BY <1>9, <2>1
  <2>2. CASE k \notin SavedKeys(v, m) /\ k = 0
    <3> HIDE DEF cell
    <3>1. QED
      BY <1>10, <2>2
  <2>3. CASE k \notin SavedKeys(v, m) /\ k # 0
    <3>1. cell(k) = T!None
      BY Zenon, <2>3
    <3>2. k \notin LoadedKeys(B)
      BY <1>11, <2>3
    <3>3. QED
      BY Zenon, <3>1, <3>2
  <2>4. QED
    BY <2>1, <2>2, <2>3
<1>13. kept = loaded
  <2>1. kept = [k \in Keys |-> got(k)]
    BY Zenon
  <2> HIDE DEF kept, loaded, got, cell
  <2>2. [k \in Keys |-> got(k)] = [k \in Keys |-> cell(k)]
    BY <1>12
  <2>3. QED
    BY Zenon, <1>7, <2>1, <2>2
<1>14. QED
  BY Zenon, <1>4, <1>13

\* What a compaction keeps of a run it loads is what module TieredTree takes it
\* to be: the entries of the full pages, and the made-up entry of key 0.
THEOREM RunLoadCorrect == Spec => []LoadMatchesTree
BY FileCorrect, RunLoad, PTL
-----------------------------------------------------------------------------
(* Loading a block for compaction *)

\* An entry pushed again with a deletion bit.
Copy(e, bit) == [key |-> e.key, ver |-> e.ver, del |-> bit]

\* The entry read last, or the uninitialised one.
Left(list, made) == IF list = <<>> THEN made ELSE list[Len(list)]

\* The entries of page i, when it is full.
OnPage(v, i) == [s \in 1..PageSize |-> v[i * PageSize + s]]

LEMMA BlockFullTurn ==
  ASSUME NEW v \in Vectors, v # <<>>, file = Words(v), NEW made, NEW bits, NEW list,
         NEW i \in 0..FullPages(v) - 1
  PROVE  BlockTurn(i, list, made, bits) = list \o OnPage(v, i)
<1> DEFINE F == FullPages(v)
           ok(p) == (p + 1) * LoadPage <= Size
           left == IF list = <<>> THEN made ELSE list[Len(list)]
           word(p, s) == IF ok(p) THEN WordAt(p * LoadPage + s - 1) ELSE left
           flags(p) == IF ok(p) THEN WordAt(p * LoadPage + PageSize).bits ELSE bits
           entry(p, s) == [key |-> word(p, s).key, ver |-> word(p, s).ver, del |-> flags(p)[s]]
<1>1. \A p : BlockTurn(p, list, made, bits) = list \o [s \in 1..PageSize |-> entry(p, s)]
  BY Zenon DEF BlockTurn
<1>2. PageSize \in Nat \ {0} /\ F \in Nat /\ LoadPage \in Nat
  BY PageAssumption, FullFacts DEF LoadPage
<1>3. BlockTurn(i, list, made, bits) = list \o OnPage(v, i)
  <2>1. ok(i) /\ i \in 0..Pages(v) - 1 /\ Held(v, i) = PageSize
    BY FullReads
  <2>2. ASSUME NEW s \in 1..PageSize PROVE entry(i, s) = v[i * PageSize + s]
    <3>1. s - 1 \in 0..Held(v, i) - 1
      BY <1>2, <2>1
    <3>2. i * LoadPage \in Int /\ i * PageSize \in Int
      BY <1>2, <2>1
    <3>3. /\ i * LoadPage + (s - 1) = i * LoadPage + s - 1
          /\ i * PageSize + (s - 1) + 1 = i * PageSize + s /\ (s - 1) + 1 = s
      BY <1>2, <2>1, <3>2
    <3>4. /\ WordAt(i * LoadPage + (s - 1)).key = v[i * PageSize + (s - 1) + 1].key
          /\ WordAt(i * LoadPage + (s - 1)).ver = v[i * PageSize + (s - 1) + 1].ver
          /\ WordAt(i * LoadPage + Held(v, i)).bits[(s - 1) + 1] = v[i * PageSize + (s - 1) + 1].del
      BY <2>1, <3>1, ReadFacts
    <3>5. /\ word(i, s).key = v[i * PageSize + s].key
          /\ word(i, s).ver = v[i * PageSize + s].ver
      BY Zenon, <2>1, <3>3, <3>4
    <3>6. flags(i)[s] = v[i * PageSize + s].del
      BY Zenon, <2>1, <3>3, <3>4
    <3>7. PICK j \in 1..Len(v) : j = i * PageSize + s
      <4>1. i * PageSize + (s - 1) + 1 \in 1..Len(v)
        BY <2>1, <3>1, EntryPlace
      <4>2. QED
        BY <3>3, <4>1
    <3>8. v[j] = [key |-> v[j].key, ver |-> j, del |-> v[j].del] /\ v[j].ver = j
      BY Zenon, VectorFacts
    <3>9. QED
      BY Zenon, <3>5, <3>6, <3>7, <3>8
  <2> HIDE DEF entry
  <2>3. [s \in 1..PageSize |-> entry(i, s)] = [s \in 1..PageSize |-> v[i * PageSize + s]]
    BY <2>2
  <2>4. QED
    BY Zenon, <1>1, <2>3 DEF OnPage
<1>4. QED
  BY <1>3

LEMMA BlockLastTurn ==
  ASSUME NEW v \in Vectors, v # <<>>, file = Words(v), NEW made, NEW bits, NEW list
  PROVE  BlockTurn(FullPages(v), list, made, bits)
           = list \o [s \in 1..PageSize |-> Copy(Left(list, made), bits[s])]
<1> DEFINE F == FullPages(v)
           ok(p) == (p + 1) * LoadPage <= Size
           left == IF list = <<>> THEN made ELSE list[Len(list)]
           word(p, s) == IF ok(p) THEN WordAt(p * LoadPage + s - 1) ELSE left
           flags(p) == IF ok(p) THEN WordAt(p * LoadPage + PageSize).bits ELSE bits
           entry(p, s) == [key |-> word(p, s).key, ver |-> word(p, s).ver, del |-> flags(p)[s]]
<1>1. \A p : BlockTurn(p, list, made, bits) = list \o [s \in 1..PageSize |-> entry(p, s)]
  BY Zenon DEF BlockTurn
<1>2. PageSize \in Nat \ {0} /\ F \in Nat /\ LoadPage \in Nat
  BY PageAssumption, FullFacts DEF LoadPage
<1>3. BlockTurn(F, list, made, bits) = list \o [s \in 1..PageSize |-> Copy(Left(list, made), bits[s])]
  <2>1. ~ok(F)
    BY FullReads
  <2>2. \A s : entry(F, s) = Copy(Left(list, made), bits[s])
    BY Zenon, <2>1 DEF Copy, Left
  <2> HIDE DEF entry
  <2>3. [s \in 1..PageSize |-> entry(F, s)] = [s \in 1..PageSize |-> Copy(Left(list, made), bits[s])]
    BY <2>2
  <2>4. QED
    BY Zenon, <1>1, <2>3
<1>4. QED
  BY <1>3

\* What the other load_full_file has after its last turn: the entries of the
\* full pages, then copies of the last of them or of the uninitialised one.
LEMMA BlockLoaded ==
  ASSUME NEW v \in Vectors, v # <<>>, file = Words(v), fence = BlockFence(v), NEW made, NEW bits
  PROVE  LET B == LoadBlock(made, bits)
             m == Full(v)
         IN  \E len \in Nat : /\ B = [i \in 1..len |-> B[i]] /\ m <= len
                              /\ \A i \in 1..m : B[i] = v[i]
                              /\ m = 0 => len # 0
                              /\ \A i \in m + 1..len :
                                   IF m = 0 THEN B[i].key = made.key /\ B[i].ver = made.ver
                                   ELSE B[i].key = v[m].key
<1> DEFINE n == Pages(v)
           F == FullPages(v)
           m == Full(v)
           front == Front(v, m)
           Z == [s \in 1..PageSize |-> Copy(Left(front, made), bits[s])]
           next(q, prev) == BlockTurn(q - 1, prev, made, bits)
           W == CHOOSE load : load = [q \in 0..Len(fence) |-> IF q = 0 THEN <<>> ELSE next(q, load[q - 1])]
           at(q) == IF q <= F THEN Front(v, q * PageSize) ELSE front \o Z
           f == [q \in 0..n |-> at(q)]
<1>1. n \in Nat \ {0} /\ PageSize \in Nat \ {0} /\ F \in Nat /\ m \in 0..Len(v) /\ Len(v) \in Nat
  BY FenceFacts, PageAssumption, FullFacts
<1>2. (F = n /\ Len(v) = m) \/ (F = n - 1 /\ Len(v) - m \in 1..PageSize - 1)
  BY FullFacts
<1>3. Len(fence) = n
  BY FenceFacts DEF Ordered
<1>4. LoadBlock(made, bits) = W[Len(fence)]
  BY Zenon DEF LoadBlock
<1>5. ASSUME NEW q \in 1..n PROVE at(q) = next(q, at(q - 1))
  <2>1. CASE q <= F
    <3>1. q - 1 \in 0..F - 1 /\ q - 1 <= F /\ q - 1 \in Nat
      BY <1>1, <2>1
    <3>2. PICK x \in 0..Len(v) : x = (q - 1) * PageSize /\ x + PageSize <= Len(v) /\ x + PageSize = q * PageSize
      <4>1. (q - 1) * PageSize \in Nat /\ (q - 1) * PageSize = q * PageSize - PageSize /\ q * PageSize \in Int
        BY <1>1, <3>1, Multiples
      <4>2. q * PageSize <= m
        BY <1>1, <2>1, Multiples DEF Full
      <4>3. QED
        BY <1>1, <4>1, <4>2
    <3>3. Front(v, x) \o [s \in 1..PageSize |-> v[x + s]] = Front(v, x + PageSize)
      BY <1>1, <3>2, FrontFacts
    <3>4. at(q - 1) = Front(v, x) /\ at(q) = Front(v, q * PageSize)
      BY Zenon, <2>1, <3>1, <3>2
    <3>5. BlockTurn(q - 1, Front(v, x), made, bits) = Front(v, x) \o [s \in 1..PageSize |-> v[(q - 1) * PageSize + s]]
      <4>1. PICK i \in 0..F - 1 : i = q - 1
        BY <3>1
      <4>2. \A b : BlockTurn(i, b, made, bits) = b \o OnPage(v, i)
        BY BlockFullTurn
      <4>3. QED
        BY Zenon, <4>1, <4>2 DEF OnPage
    <3>6. QED
      BY Zenon, <3>2, <3>3, <3>4, <3>5
  <2>2. CASE ~(q <= F)
    <3>1. q - 1 = F /\ F <= F
      BY <1>1, <1>2, <2>2
    <3>2. at(q - 1) = front /\ at(q) = front \o Z
      BY Zenon, <2>2, <3>1 DEF Full
    <3>3. BlockTurn(F, front, made, bits) = front \o Z
      BY BlockLastTurn
    <3> HIDE DEF at, Z, front
    <3>4. QED
      BY Zenon, <3>1, <3>2, <3>3
  <2>3. QED
    BY <2>1, <2>2
<1>6. at(0) = <<>>
  <2>1. 0 <= F /\ 0 * PageSize = 0
    BY <1>1
  <2>2. Front(v, 0) = <<>>
    BY FrontFacts
  <2>3. QED
    BY Zenon, <2>1, <2>2
<1> HIDE DEF at, next
<1>7. f = [q \in 0..Len(fence) |-> IF q = 0 THEN <<>> ELSE next(q, f[q - 1])]
  <2>1. \A q \in 0..n : q = 0 \/ (q \in 1..n /\ q - 1 \in 0..n)
    BY <1>1
  <2>2. \A q \in 0..n : at(q) = IF q = 0 THEN <<>> ELSE next(q, f[q - 1])
    BY <1>5, <1>6, <2>1
  <2>3. QED
    BY <1>3, <2>2
<1> HIDE DEF f
<1>8. W = [q \in 0..Len(fence) |-> IF q = 0 THEN <<>> ELSE next(q, W[q - 1])]
  BY Zenon, <1>7
<1> HIDE DEF W
<1>9. W[0] = f[0] /\ \A q \in 1..n : W[q - 1] = f[q - 1] => W[q] = f[q]
  <2>1. 0 \in 0..Len(fence) /\ \A q \in 1..n : q # 0 /\ q \in 0..Len(fence)
    BY <1>1, <1>3
  <2>2. \A q \in 0..Len(fence) : W[q] = IF q = 0 THEN <<>> ELSE next(q, W[q - 1])
    BY <1>8
  <2>3. \A q \in 0..Len(fence) : f[q] = IF q = 0 THEN <<>> ELSE next(q, f[q - 1])
    BY <1>7
  <2>4. QED
    BY Zenon, <2>1, <2>2, <2>3
<1>10. n \in Nat /\ n \in 0..n
  BY <1>1
<1>11. W[n] = f[n]
  BY <1>9, <1>10, SameSteps
<1>12. LoadBlock(made, bits) = at(n)
  <2>1. f[n] = at(n)
    BY <1>10 DEF f
  <2>2. QED
    BY Zenon, <1>3, <1>4, <1>11, <2>1
<1>13. /\ front = [i \in 1..m |-> front[i]]
       /\ \A i \in 1..m : front[i] = v[i]
       /\ Len(front) = m /\ (m = 0 => front = <<>>)
  <2>1. front = [i \in 1..m |-> front[i]]
    BY DEF Front
  <2>2. \A i \in 1..m : front[i] = v[i] /\ Len(front) = m
    BY <1>1, FrontFacts
  <2>3. Len(front) = m
    BY <1>1, FrontFacts
  <2>4. m = 0 => front = <<>>
    BY FrontFacts
  <2>5. QED
    BY Zenon, <2>1, <2>2, <2>3, <2>4
<1>14. CASE F = n
  <2>1. LoadBlock(made, bits) = front
    <3>1. n <= F /\ n * PageSize = m
      BY <1>1, <1>14 DEF Full
    <3>2. QED
      BY Zenon, <1>12, <3>1 DEF at
  <2>2. m # 0 /\ m \in Nat /\ m <= m /\ m + 1..m = {}
    <3>1. m = Len(v) /\ Len(v) \in Nat \ {0}
      <4>1. Len(v) \in Nat \ {0}
        BY FenceFacts
      <4>2. n # n - 1
        BY <1>1
      <4>3. QED
        BY Zenon, <1>2, <1>14, <4>1, <4>2
    <3>2. \A x \in Nat : x + 1..x = {} /\ x <= x
      OBVIOUS
    <3>3. QED
      BY <3>1, <3>2
  <2> HIDE DEF front, m
  <2>3. QED
    BY <1>13, <2>1, <2>2 DEF m
<1>15. CASE F = n - 1
  <2> DEFINE all == front \o Z
             left == Left(front, made)
  <2>1. LoadBlock(made, bits) = all
    <3>1. ~(n <= F)
      BY <1>1, <1>15
    <3>2. QED
      BY Zenon, <1>12, <3>1 DEF at
  <2>2. Z = [s \in 1..PageSize |-> Z[s]] /\ \A s \in 1..PageSize : Z[s] = Copy(left, bits[s])
    OBVIOUS
  <2>3. \A s \in 1..PageSize : Z[s].key = left.key /\ Z[s].ver = left.ver
    <3>1. \A bit : Copy(left, bit).key = left.key /\ Copy(left, bit).ver = left.ver
      BY Zenon DEF Copy
    <3> HIDE DEF Z, left
    <3>2. QED
      BY <2>2, <3>1
  <2>4. /\ m = 0 => left = made
        /\ m # 0 => left = v[m]
    <3>1. CASE m = 0
      BY Zenon, <1>13, <3>1 DEF Left
    <3>2. CASE m # 0
      <4>1. m \in 1..m
        BY <1>1, <3>2
      <4>2. front # <<>>
        <5>1. Len(<<>>) = 0
          OBVIOUS
        <5>2. QED
          BY Zenon, <1>13, <3>2, <5>1
      <4>3. left = front[Len(front)]
        BY Zenon, <4>2 DEF Left
      <4>4. QED
        BY Zenon, <1>13, <3>2, <4>1, <4>3
    <3>3. QED
      BY <3>1, <3>2
  <2> HIDE DEF front, Z, left
  <2>5. /\ all = [i \in 1..m + PageSize |-> all[i]]
        /\ \A i \in 1..m : all[i] = front[i]
        /\ \A s \in 1..PageSize : all[m + s] = Z[s]
    BY <1>1, <1>13, <2>2, Joins
  <2> HIDE DEF all
  <2>6. \A i \in 1..m : all[i] = v[i]
    BY <1>13, <2>5
  <2>7. ASSUME NEW i \in m + 1..m + PageSize PROVE all[i].key = left.key /\ all[i].ver = left.ver
    <3>1. i - m \in 1..PageSize /\ m + (i - m) = i
      BY <1>1
    <3>2. all[i] = Z[i - m]
      BY <2>5, <3>1
    <3>3. QED
      BY <2>3, <3>1, <3>2
  <2>8. m + PageSize \in Nat /\ m <= m + PageSize /\ m + PageSize # 0
    BY <1>1
  <2>9. \A i \in m + 1..m + PageSize : IF m = 0 THEN all[i].key = made.key /\ all[i].ver = made.ver
                                       ELSE all[i].key = v[m].key
    BY <2>4, <2>7
  <2>10. QED
    BY <2>1, <2>5, <2>6, <2>8, <2>9
<1>16. QED
  BY <1>2, <1>14, <1>15

LEMMA BlockLoad == FileInv => BlockLoadMatchesLevels
<1> DEFINE v == entries
           m == Full(v)
<1> SUFFICES ASSUME FileInv, IsBlock, NEW key \in Keys, NEW bits \in Bits, NEW k \in Keys
             PROVE  LET B == LoadBlock([key |-> key, ver |-> 0], bits)
                        model == L!LoadBlock(AsRun(v), key)
                    IN  /\ (k \in LoadedKeys(B)) = (model[k] # T!None)
                        /\ k \in LoadedKeys(B) =>
                             /\ FirstOf(B, k).ver = model[k].ver
                             /\ FirstOf(B, k).ver = 0 \/ FirstOf(B, k).del = model[k].del
  BY Zenon DEF BlockLoadMatchesLevels, LoadedKeys, FirstOf
<1>1. v \in Vectors /\ v # <<>> /\ file = Words(v) /\ fence = BlockFence(v)
  BY DEF FileInv, IsBlock
<1>2. m \in 0..Len(v) /\ Len(v) \in Nat /\ m \in Nat
  BY <1>1, FullFacts, VectorFacts
<1>3. PICK made : made = [key |-> key, ver |-> 0] /\ made.key = key /\ made.ver = 0
  <2>1. [key |-> key, ver |-> 0].key = key /\ [key |-> key, ver |-> 0].ver = 0
    BY Zenon
  <2>2. QED
    BY Zenon, <2>1
<1>4. PICK B : B = LoadBlock(made, bits)
  OBVIOUS
<1>5. PICK len \in Nat : /\ B = [i \in 1..len |-> B[i]] /\ m <= len
                         /\ \A i \in 1..m : B[i] = v[i]
                         /\ m = 0 => len # 0
                         /\ \A i \in m + 1..len :
                              IF m = 0 THEN B[i].key = made.key /\ B[i].ver = made.ver
                              ELSE B[i].key = v[m].key
  BY <1>1, <1>4, BlockLoaded
<1>6. /\ L!T!InFullPage(AsRun(v)) = SavedKeys(v, m)
      /\ L!None = T!None
  BY <1>1, PlacesFacts, AsRunFacts DEF Full, FullPages
<1> DEFINE full == SavedKeys(v, m)
           cell == IF k \in full THEN AsRun(v)[k]
                   ELSE IF full = {} /\ k = key THEN [ver |-> 0, del |-> FALSE] ELSE T!None
           model == L!LoadBlock(AsRun(v), key)
<1>7. model[k] = cell
  <2>1. model = [j \in Keys |-> IF j \in full THEN AsRun(v)[j]
                                ELSE IF full = {} /\ j = key THEN [ver |-> 0, del |-> FALSE] ELSE T!None]
    BY Zenon, <1>6 DEF L!LoadBlock
  <2>2. QED
    BY Zenon, <2>1
<1>8. \A i \in 1..m : i \in 1..len /\ i \in 1..Len(v)
  BY <1>2, <1>5
<1>9. DOMAIN B = 1..len
  <2>1. \A x : x = [j \in 1..len |-> B[j]] => DOMAIN x = 1..len
    OBVIOUS
  <2>2. QED
    BY Zenon, <1>5, <2>1
<1>10. full = {} <=> m = 0
  <2>1. m = 0 => full = {}
    BY DEF SavedKeys
  <2>2. m # 0 => v[1].key \in full
    <3>1. m # 0 => 1 \in 1..m
      BY <1>2
    <3>2. QED
      BY <3>1 DEF SavedKeys
  <2> HIDE DEF full, m
  <2>3. QED
    BY <2>1, <2>2
<1>11. ASSUME NEW i \in 1..m, v[i].key = k
       PROVE  k \in LoadedKeys(B) /\ FirstOf(B, k) = v[i] /\ k \in full
  <2>1. B[i] = v[i] /\ i \in 1..len /\ i \in 1..Len(v)
    BY <1>5, <1>8
  <2>2. ASSUME NEW j \in 1..len, B[j].key = B[i].key PROVE i <= j
    <3>1. CASE j \in 1..m
      <4>1. v[j].key = v[i].key /\ j \in 1..Len(v)
        BY <1>5, <1>8, <2>1, <2>2, <3>1
      <4>2. j = i
        BY <1>1, <2>1, <4>1, KeysDiffer
      <4>3. QED
        BY <4>2
    <3>2. CASE j \notin 1..m
      BY <1>2, <3>2
    <3>3. QED
      BY <3>1, <3>2
  <2>3. B[i].key \in LoadedKeys(B) /\ FirstOf(B, B[i].key) = B[i]
    BY <1>5, <2>1, <2>2, FirstFacts
  <2>4. k \in full
    BY <1>11 DEF SavedKeys
  <2>5. QED
    BY Zenon, <1>11, <2>1, <2>3, <2>4
<1>12. ASSUME k \in LoadedKeys(B), k \notin full PROVE m = 0 /\ k = key
  <2>1. PICK j \in 1..len : B[j].key = k
    BY <1>9, <1>12 DEF LoadedKeys
  <2>2. j \notin 1..m
    <3>1. j \in 1..m => B[j].key \in full
      BY <1>5 DEF SavedKeys
    <3>2. QED
      BY <1>12, <2>1, <3>1
  <2>3. j \in m + 1..len
    BY <1>2, <2>2
  <2>4. m = 0
    <3>1. SUFFICES ASSUME m # 0 PROVE FALSE
      OBVIOUS
    <3>2. m \in 1..m
      BY <1>2, <3>1
    <3>3. B[j].key = v[m].key
      BY <1>5, <2>3, <3>1
    <3>4. v[m].key \in full
      BY <3>2 DEF SavedKeys
    <3>5. QED
      BY <1>12, <2>1, <3>3, <3>4
  <2>5. B[j].key = made.key
    BY <1>5, <2>3, <2>4
  <2>6. QED
    BY <1>3, <2>1, <2>4, <2>5
<1>13. ASSUME m = 0 PROVE key \in LoadedKeys(B) /\ FirstOf(B, key).ver = 0
  <2>1. 1 \in 1..len /\ 1 \in m + 1..len
    BY <1>2, <1>5, <1>13
  <2>2. B[1].key = key /\ B[1].ver = 0
    BY <1>3, <1>5, <1>13, <2>1
  <2>3. \A j \in 1..len : B[j].key = B[1].key => 1 <= j
    OBVIOUS
  <2>4. B[1].key \in LoadedKeys(B) /\ FirstOf(B, B[1].key) = B[1]
    BY <1>5, <2>1, <2>3, FirstFacts
  <2>5. QED
    BY Zenon, <2>2, <2>4
<1>14. CASE k \in full
  <2>1. PICK i \in 1..m : v[i].key = k
    BY <1>14 DEF SavedKeys
  <2>2. k \in LoadedKeys(B) /\ FirstOf(B, k) = v[i]
    BY <1>11, <2>1
  <2>3. AsRun(v)[v[i].key] = T!CellOf(v[i]) /\ T!CellOf(v[i]) # T!None
    BY <1>1, <1>8, AsRunFacts
  <2>4. model[k] = T!CellOf(v[i])
    BY Zenon, <1>7, <1>14, <2>1, <2>3
  <2>5. T!CellOf(v[i]).ver = v[i].ver /\ T!CellOf(v[i]).del = v[i].del
    BY Zenon DEF T!CellOf
  <2>6. (k \in LoadedKeys(B)) = (model[k] # T!None)
    BY Zenon, <2>2, <2>3, <2>4
  <2>7. FirstOf(B, k).ver = model[k].ver /\ FirstOf(B, k).del = model[k].del
    BY Zenon, <2>2, <2>4, <2>5
  <2>8. QED
    BY Zenon, <1>3, <1>4, <2>6, <2>7
<1>15. CASE k \notin full /\ m = 0 /\ k = key
  <2>1. model[k] = [ver |-> 0, del |-> FALSE]
    BY Zenon, <1>7, <1>10, <1>15
  <2>2. model[k].ver = 0
    <3>1. [ver |-> 0, del |-> FALSE].ver = 0
      BY Zenon
    <3>2. QED
      BY Zenon, <2>1, <3>1
  <2>3. model[k] # T!None
    <3>1. \A x, y \in Int : x = 0 /\ y = -1 => [ver |-> x, del |-> FALSE] # [ver |-> y, del |-> TRUE]
      OBVIOUS
    <3>2. [ver |-> 0, del |-> FALSE] # [ver |-> -1, del |-> TRUE]
      <4>1. 0 \in Int /\ -1 \in Int
        OBVIOUS
      <4>2. QED
        BY Zenon, <3>1, <4>1
    <3>3. QED
      BY Zenon, <2>1, <3>2 DEF T!None
  <2>4. k \in LoadedKeys(B) /\ FirstOf(B, k).ver = 0
    BY <1>13, <1>15
  <2>5. (k \in LoadedKeys(B)) = (model[k] # T!None)
    BY Zenon, <2>3, <2>4
  <2>6. QED
    BY Zenon, <1>3, <1>4, <2>2, <2>4, <2>5
<1>16. CASE k \notin full /\ ~(m = 0 /\ k = key)
  <2>1. k \notin LoadedKeys(B)
    BY <1>12, <1>16
  <2>2. model[k] = T!None
    BY Zenon, <1>7, <1>10, <1>16
  <2>3. (k \in LoadedKeys(B)) = (model[k] # T!None)
    <3> HIDE DEF model
    <3>1. (k \in LoadedKeys(B)) <=> (model[k] # T!None)
      BY <2>1, <2>2
    <3>2. QED
      BY <3>1
  <2>4. QED
    BY Zenon, <1>3, <1>4, <2>1, <2>3
<1>17. QED
  BY <1>14, <1>15, <1>16

\* What a compaction keeps of a block it loads is what module LeveledLevels
\* takes it to be, deletion flags of made-up entries aside.
THEOREM BlockLoadCorrect == Spec => []BlockLoadMatchesLevels
BY FileCorrect, BlockLoad, PTL
-----------------------------------------------------------------------------
(* The sort of the buffer *)

\* What a merge needs to know of an entry.
Writes == [key : Int, ver : Int]

Older(a, b) == a.key < b.key \/ (a.key = b.key /\ a.ver < b.ver)

\* s is in order of key, and entries of one key are oldest first.
InSortOrder(s) == s \in Seq(Writes) /\ \A i, j \in 1..Len(s) : i < j => Older(s[i], s[j])

LEMMA OlderOrder ==
  ASSUME NEW a \in Writes, NEW b \in Writes, NEW c \in Writes
  PROVE  /\ Older(a, b) /\ Older(b, c) => Older(a, c)
         /\ Older(a, b) /\ b.key < c.key => Older(a, c)
         /\ a.key <= b.key /\ Older(b, c) /\ a.ver < c.ver => Older(a, c)
         /\ Older(a, b) => a # b /\ a.key <= b.key
BY DEF Older, Writes

\* The loop of merge_s is f[n] entries far in left after n entries.
Merges(f, left, right) ==
  /\ f \in [Nat -> Nat] /\ f[0] = 0
  /\ \A n \in 0..(Len(left) + Len(right)) - 1 :
       f[n + 1] = IF FromRight(left, right, f[n], n - f[n]) THEN f[n] ELSE f[n] + 1
  /\ MergeSorted(left, right) =
       [n \in 1..Len(left) + Len(right) |-> IF f[n] = f[n - 1] THEN right[n - f[n]] ELSE left[f[n]]]

LEMMA MergeSteps ==
  ASSUME NEW left \in Seq(Writes), NEW right \in Seq(Writes)
  PROVE  \E f : Merges(f, left, right)
<1> DEFINE total == Len(left) + Len(right)
           go(l, r) == IF FromRight(left, right, l, r) THEN l ELSE l + 1
           h == [n \in Nat |-> [l \in Nat |-> go(l, n - l)]]
           W == CHOOSE taken : taken =
                  [n \in 0..total |-> IF n = 0 THEN 0 ELSE go(taken[n - 1], n - 1 - taken[n - 1])]
<1>1. total \in Nat
  OBVIOUS
<1>2. h \in [Nat -> [Nat -> Nat]]
  OBVIOUS
<1>3. \A n \in Nat : \A l \in Nat : h[n][l] = go(l, n - l)
  OBVIOUS
<1>4. MergeSorted(left, right) =
        [n \in 1..total |-> IF W[n] = W[n - 1] THEN right[n - W[n]] ELSE left[W[n]]]
  BY Zenon DEF MergeSorted
<1> HIDE DEF h, W
<1>5. PICK f \in [Nat -> Nat] : f[0] = 0 /\ \A n \in Nat : f[n + 1] = h[n][f[n]]
  <2>1. \A a \in Nat : \E f : P!Recurs(f, Nat, a, h)
    BY <1>2, P!Recursion, SameConstants
  <2>2. QED
    BY <2>1 DEF P!Recurs
<1> HIDE DEF go
<1>6. \A n \in Nat : f[n + 1] = go(f[n], n - f[n])
  <2>1. \A n \in Nat : f[n] \in Nat
    BY <1>5
  <2>2. QED
    BY Zenon, <1>3, <1>5, <2>1
<1> DEFINE g == [n \in 0..total |-> f[n]]
<1>7. g = [n \in 0..total |-> IF n = 0 THEN 0 ELSE go(g[n - 1], n - 1 - g[n - 1])]
  <2>1. \A n \in 0..total : n = 0 \/ (n - 1 \in Nat /\ n - 1 \in 0..total /\ n - 1 + 1 = n)
    BY <1>1
  <2>2. \A n \in 0..total : g[n] = f[n] /\ n \in Nat
    BY <1>1
  <2>3. g = [n \in 0..total |-> g[n]]
    OBVIOUS
  <2> HIDE DEF g
  <2>4. ASSUME NEW n \in 0..total PROVE g[n] = IF n = 0 THEN 0 ELSE go(g[n - 1], n - 1 - g[n - 1])
    <3>1. CASE n = 0
      BY <1>5, <2>2, <3>1
    <3>2. CASE n # 0
      <4>1. PICK m \in Nat : m = n - 1 /\ m \in 0..total /\ m + 1 = n
        BY <2>1, <3>2
      <4>2. f[n] = go(f[m], m - f[m])
        BY Zenon, <1>6, <4>1
      <4>3. g[n] = go(g[m], m - g[m])
        BY Zenon, <2>2, <4>1, <4>2
      <4>4. QED
        BY Zenon, <3>2, <4>1, <4>3
    <3>3. QED
      BY <3>1, <3>2
  <2>5. QED
    BY Zenon, <2>3, <2>4
<1>8. W = [n \in 0..total |-> IF n = 0 THEN 0 ELSE go(W[n - 1], n - 1 - W[n - 1])]
  <2>1. g = [n \in 0..total |-> IF n = 0 THEN 0 ELSE go(g[n - 1], n - 1 - g[n - 1])]
    BY Zenon, <1>7
  <2> HIDE DEF g
  <2>2. QED
    BY Zenon, <2>1 DEF W
<1>9. \A n \in 0..total : W[n] = f[n]
  <2>1. W[0] = f[0]
    BY <1>1, <1>5, <1>8
  <2>2. ASSUME NEW n \in 1..total, W[n - 1] = f[n - 1] PROVE W[n] = f[n]
    <3>1. PICK m \in Nat : m = n - 1 /\ m + 1 = n
      BY <1>1
    <3>2. n \in 0..total /\ n # 0
      BY <1>1
    <3>3. W[n] = go(W[m], m - W[m])
      BY Zenon, <1>8, <3>1, <3>2
    <3>4. f[n] = go(f[m], m - f[m])
      BY Zenon, <1>6, <3>1
    <3>5. QED
      BY Zenon, <2>2, <3>1, <3>3, <3>4
  <2>3. QED
    BY <1>1, <2>1, <2>2, SameSteps
<1>10. MergeSorted(left, right) = [n \in 1..total |-> IF f[n] = f[n - 1] THEN right[n - f[n]] ELSE left[f[n]]]
  <2> HIDE DEF total, g
  <2>1. \A n \in 1..total : n \in 0..total /\ n - 1 \in 0..total
    BY <1>1
  <2>2. \A n \in 1..total : W[n] = f[n] /\ W[n - 1] = f[n - 1]
    BY Zenon, <1>9, <2>1
  <2>3. QED
    BY Zenon, <1>4, <2>2
<1>11. \A n \in 0..total - 1 : f[n + 1] = IF FromRight(left, right, f[n], n - f[n]) THEN f[n] ELSE f[n] + 1
  <2>1. \A n \in 0..total - 1 : n \in Nat
    BY <1>1
  <2>2. QED
    BY Zenon, <1>6, <2>1 DEF go
<1>12. f \in [Nat -> Nat] /\ f[0] = 0
  BY <1>5
<1>13. Merges(f, left, right)
  BY Zenon, <1>10, <1>11, <1>12 DEF Merges
<1>14. QED
  BY <1>13

\* The first l + r entries of m are the first l of left and the first r of right,
\* in order and older than the others of left and right.
Merged(m, left, right, l, r) ==
  /\ l \in 0..Len(left) /\ r \in 0..Len(right)
  /\ \A i \in 1..l + r : \/ \E j \in 1..l : m[i] = left[j]
                         \/ \E j \in 1..r : m[i] = right[j]
  /\ \A j \in 1..l : \E i \in 1..l + r : m[i] = left[j]
  /\ \A j \in 1..r : \E i \in 1..l + r : m[i] = right[j]
  /\ \A i, j \in 1..l + r : i < j => Older(m[i], m[j])
  /\ \A i \in 1..l + r : /\ \A j \in l + 1..Len(left) : Older(m[i], left[j])
                         /\ \A j \in r + 1..Len(right) : Older(m[i], right[j])

\* The next entry is of right.
LEMMA MergesRight ==
  ASSUME NEW m, NEW left, NEW right, InSortOrder(left), InSortOrder(right), NEW l, NEW r,
         Merged(m, left, right, l, r), FromRight(left, right, l, r), m[l + r + 1] = right[r + 1]
  PROVE  Merged(m, left, right, l, r + 1)
<1> DEFINE n == l + r
           a == n + 1
           x == right[r + 1]
<1>1. /\ l \in 0..Len(left) /\ r \in 0..Len(right) /\ r < Len(right) /\ Len(left) \in Nat /\ Len(right) \in Nat
      /\ n \in Nat /\ r + 1 \in 1..Len(right)
  BY DEF Merged, FromRight, InSortOrder
<1>2. \A i \in 1..n + 1 : i \in 1..n \/ i = a
  BY <1>1
<1>3. x \in Writes /\ m[a] = x
  BY <1>1 DEF InSortOrder
<1>4. \A j \in r + 2..Len(right) : Older(x, right[j])
  BY <1>1 DEF InSortOrder
<1>5. ASSUME NEW j \in l + 1..Len(left) PROVE Older(x, left[j])
  <2>1. left[l + 1] \in Writes /\ left[j] \in Writes /\ x.key < left[l + 1].key
    BY <1>1 DEF InSortOrder, FromRight
  <2>2. j = l + 1 \/ Older(left[l + 1], left[j])
    BY <1>1 DEF InSortOrder
  <2>3. left[l + 1].key <= left[j].key
    BY <2>1, <2>2, OlderOrder DEF Writes
  <2>4. QED
    BY <1>3, <2>1, <2>3 DEF Older, Writes
<1>6. \A i \in 1..n : Older(m[i], x)
  <2>1. r + 1 \in r + 1..Len(right)
    BY <1>1
  <2>2. QED
    BY <2>1 DEF Merged
<1>7. \A j \in 1..r + 1 : j \in 1..r \/ j = r + 1
  BY <1>1
<1>8. a \in 1..n + 1 /\ \A i \in 1..n : i \in 1..n + 1 /\ ~(a < i)
  BY <1>1
<1>9. l + (r + 1) = n + 1 /\ r + 1 \in 0..Len(right)
  BY <1>1
<1>10. /\ \A i \in 1..n : (\E j \in 1..l : m[i] = left[j]) \/ (\E j \in 1..r : m[i] = right[j])
       /\ \A j \in 1..l : \E i \in 1..n : m[i] = left[j]
       /\ \A j \in 1..r : \E i \in 1..n : m[i] = right[j]
       /\ \A i, j \in 1..n : i < j => Older(m[i], m[j])
       /\ \A i \in 1..n : /\ \A j \in l + 1..Len(left) : Older(m[i], left[j])
                          /\ \A j \in r + 1..Len(right) : Older(m[i], right[j])
  BY DEF Merged
<1>11. \A j \in r + 2..Len(right) : j \in r + 1..Len(right)
  BY <1>1
<1>12. m[a] = right[r + 1]
  OBVIOUS
<1> HIDE DEF n, a, x
<1>13. \A i \in 1..n + 1 : (\E j \in 1..l : m[i] = left[j]) \/ (\E j \in 1..r + 1 : m[i] = right[j])
  <2>1. r + 1 \in 1..r + 1 /\ \A j \in 1..r : j \in 1..r + 1
    BY <1>1
  <2>2. QED
    BY <1>2, <1>10, <1>12, <2>1
<1>14. /\ \A j \in 1..l : \E i \in 1..n + 1 : m[i] = left[j]
       /\ \A j \in 1..r + 1 : \E i \in 1..n + 1 : m[i] = right[j]
  BY <1>7, <1>8, <1>10, <1>12
<1>15. \A i, j \in 1..n + 1 : i < j => Older(m[i], m[j])
  <2>1. ASSUME NEW i \in 1..n + 1, NEW j \in 1..n + 1, i < j PROVE Older(m[i], m[j])
    <3>1. i \in 1..n
      BY <1>1, <1>2, <1>8, <2>1
    <3>2. CASE j = a
      BY <1>3, <1>6, <3>1, <3>2
    <3>3. CASE j \in 1..n
      BY <1>10, <2>1, <3>1, <3>3
    <3>4. QED
      BY <1>2, <3>2, <3>3
  <2>2. QED
    BY <2>1
<1>16. \A i \in 1..n + 1 : /\ \A j \in l + 1..Len(left) : Older(m[i], left[j])
                           /\ \A j \in r + 2..Len(right) : Older(m[i], right[j])
  BY <1>2, <1>3, <1>4, <1>5, <1>10, <1>11
<1>17. (r + 1) + 1 = r + 2
  BY <1>1
<1>18. QED
  BY <1>1, <1>9, <1>13, <1>14, <1>15, <1>16, <1>17 DEF Merged

\* The next entry is of left.
LEMMA MergesLeft ==
  ASSUME NEW m, NEW left, NEW right, InSortOrder(left), InSortOrder(right), NEW l, NEW r,
         Merged(m, left, right, l, r), ~FromRight(left, right, l, r), l + r < Len(left) + Len(right),
         \A i \in 1..Len(left), j \in 1..Len(right) : left[i].ver < right[j].ver,
         m[l + r + 1] = left[l + 1]
  PROVE  Merged(m, left, right, l + 1, r)
<1> DEFINE n == l + r
           a == n + 1
           x == left[l + 1]
<1>1. /\ l \in 0..Len(left) /\ r \in 0..Len(right) /\ Len(left) \in Nat /\ Len(right) \in Nat /\ n \in Nat
  BY DEF Merged, InSortOrder
<1>2. l < Len(left)
  BY <1>1 DEF FromRight
<1>3. l + 1 \in 1..Len(left) /\ \A i \in 1..n + 1 : i \in 1..n \/ i = a
  BY <1>1, <1>2
<1>4. x \in Writes /\ m[a] = x
  BY <1>3 DEF InSortOrder
<1>5. \A j \in l + 2..Len(left) : Older(x, left[j])
  BY <1>1, <1>2 DEF InSortOrder
<1>6. ASSUME NEW j \in r + 1..Len(right) PROVE Older(x, right[j])
  <2>1. r + 1 \in 1..Len(right) /\ j \in 1..Len(right)
    BY <1>1
  <2>2. right[r + 1] \in Writes /\ right[j] \in Writes
    BY <2>1 DEF InSortOrder
  <2>3. x.key <= right[r + 1].key
    <3>1. l # Len(left) /\ r < Len(right)
      BY <1>1, <1>2, <2>1
    <3>2. ~(right[r + 1].key < x.key)
      BY <3>1 DEF FromRight
    <3>3. QED
      BY <1>4, <2>2, <3>2 DEF Writes
  <2>4. j = r + 1 \/ Older(right[r + 1], right[j])
    BY <1>1, <2>1 DEF InSortOrder
  <2>5. right[r + 1].key <= right[j].key
    BY <2>2, <2>4, OlderOrder DEF Writes
  <2>6. x.ver < right[j].ver
    BY <1>3, <2>1
  <2>7. QED
    BY <1>4, <2>2, <2>5, <2>6, <2>3 DEF Older, Writes
<1>7. \A i \in 1..n : Older(m[i], x)
  <2>1. l + 1 \in l + 1..Len(left)
    BY <1>1, <1>2
  <2>2. QED
    BY <2>1 DEF Merged
<1>8. \A j \in 1..l + 1 : j \in 1..l \/ j = l + 1
  BY <1>1
<1>9. a \in 1..n + 1 /\ \A i \in 1..n : i \in 1..n + 1 /\ ~(a < i)
  BY <1>1
<1>10. (l + 1) + r = n + 1 /\ l + 1 \in 0..Len(left)
  BY <1>1, <1>2
<1>11. /\ \A i \in 1..n : (\E j \in 1..l : m[i] = left[j]) \/ (\E j \in 1..r : m[i] = right[j])
       /\ \A j \in 1..l : \E i \in 1..n : m[i] = left[j]
       /\ \A j \in 1..r : \E i \in 1..n : m[i] = right[j]
       /\ \A i, j \in 1..n : i < j => Older(m[i], m[j])
       /\ \A i \in 1..n : /\ \A j \in l + 1..Len(left) : Older(m[i], left[j])
                          /\ \A j \in r + 1..Len(right) : Older(m[i], right[j])
  BY DEF Merged
<1>12. \A j \in l + 2..Len(left) : j \in l + 1..Len(left)
  BY <1>1
<1>13. m[a] = left[l + 1]
  OBVIOUS
<1> HIDE DEF n, a, x
<1>14. \A i \in 1..n + 1 : (\E j \in 1..l + 1 : m[i] = left[j]) \/ (\E j \in 1..r : m[i] = right[j])
  <2>1. l + 1 \in 1..l + 1 /\ \A j \in 1..l : j \in 1..l + 1
    BY <1>1
  <2>2. QED
    BY <1>3, <1>11, <1>13, <2>1
<1>15. /\ \A j \in 1..l + 1 : \E i \in 1..n + 1 : m[i] = left[j]
       /\ \A j \in 1..r : \E i \in 1..n + 1 : m[i] = right[j]
  BY <1>8, <1>9, <1>11, <1>13
<1>16. \A i, j \in 1..n + 1 : i < j => Older(m[i], m[j])
  <2>1. ASSUME NEW i \in 1..n + 1, NEW j \in 1..n + 1, i < j PROVE Older(m[i], m[j])
    <3>1. i \in 1..n
      BY <1>1, <1>3, <1>9, <2>1
    <3>2. CASE j = a
      BY <1>4, <1>7, <3>1, <3>2
    <3>3. CASE j \in 1..n
      BY <1>11, <2>1, <3>1, <3>3
    <3>4. QED
      BY <1>3, <3>2, <3>3
  <2>2. QED
    BY <2>1
<1>17. \A i \in 1..n + 1 : /\ \A j \in l + 2..Len(left) : Older(m[i], left[j])
                           /\ \A j \in r + 1..Len(right) : Older(m[i], right[j])
  BY <1>3, <1>4, <1>5, <1>6, <1>11, <1>12
<1>18. (l + 1) + 1 = l + 2
  BY <1>1
<1>19. QED
  BY <1>1, <1>10, <1>14, <1>15, <1>16, <1>17, <1>18 DEF Merged

\* The result of merge_s: the entries of both, in order.
LEMMA MergeFacts ==
  ASSUME NEW left, NEW right, InSortOrder(left), InSortOrder(right),
         \A i \in 1..Len(left), j \in 1..Len(right) : left[i].ver < right[j].ver
  PROVE  /\ DOMAIN MergeSorted(left, right) = 1..Len(left) + Len(right)
         /\ MergeSorted(left, right) = [n \in 1..Len(left) + Len(right) |-> MergeSorted(left, right)[n]]
         /\ Merged(MergeSorted(left, right), left, right, Len(left), Len(right))
<1> DEFINE total == Len(left) + Len(right)
           m == MergeSorted(left, right)
<1>1. left \in Seq(Writes) /\ right \in Seq(Writes) /\ Len(left) \in Nat /\ Len(right) \in Nat /\ total \in Nat
  BY DEF InSortOrder
<1>2. PICK f : Merges(f, left, right)
  BY <1>1, MergeSteps
<1>3. /\ f \in [Nat -> Nat] /\ f[0] = 0
      /\ \A n \in 0..total - 1 :
           f[n + 1] = IF FromRight(left, right, f[n], n - f[n]) THEN f[n] ELSE f[n] + 1
      /\ m = [n \in 1..total |-> IF f[n] = f[n - 1] THEN right[n - f[n]] ELSE left[f[n]]]
  BY <1>2 DEF Merges
<1> HIDE DEF m
<1> DEFINE good == {n \in Nat : n <= total => Merged(m, left, right, f[n], n - f[n])}
<1>4. 0 \in good
  <2>1. PICK z : z = 0 /\ z = f[0] /\ z = 0 - f[0]
    BY <1>3
  <2>2. Merged(m, left, right, 0, 0)
    BY <1>1 DEF Merged
  <2>3. QED
    BY <2>1, <2>2
<1>5. ASSUME NEW n \in Nat, n \in good, n + 1 <= total PROVE Merged(m, left, right, f[n + 1], (n + 1) - f[n + 1])
  <2>1. PICK l \in Nat : l = f[n]
    BY <1>3
  <2>2. PICK r \in Int : r = n - l
    OBVIOUS
  <2>3. Merged(m, left, right, l, r)
    <3>1. n <= total
      BY <1>1, <1>5
    <3>2. Merged(m, left, right, f[n], n - f[n])
      BY <1>5, <3>1
    <3>3. QED
      BY Zenon, <2>1, <2>2, <3>2
  <2>4. PICK k \in 1..total : k = n + 1
    BY <1>1, <1>5
  <2>5. n \in 0..total - 1 /\ k - 1 = n
    BY <1>1, <2>4
  <2>6. f[k] = IF FromRight(left, right, l, r) THEN l ELSE l + 1
    BY Zenon, <1>3, <2>1, <2>2, <2>4, <2>5
  <2>7. m[k] = IF f[k] = l THEN right[k - f[k]] ELSE left[f[k]]
    BY Zenon, <1>3, <2>1, <2>5
  <2>8. m[l + r + 1] = m[k]
    <3>1. l + r + 1 = k
      BY <2>2, <2>4
    <3>2. QED
      BY Zenon, <3>1
  <2>9. CASE FromRight(left, right, l, r)
    <3>1. f[k] = l
      BY Zenon, <2>6, <2>9
    <3>2. k - l = r + 1
      BY <2>2, <2>4
    <3>3. m[l + r + 1] = right[r + 1]
      BY Zenon, <2>7, <2>8, <3>1, <3>2
    <3>4. Merged(m, left, right, l, r + 1)
      BY Zenon, <2>3, <2>9, <3>3, MergesRight
    <3>5. Merged(m, left, right, f[k], k - f[k])
      BY Zenon, <3>1, <3>2, <3>4
    <3>6. QED
      BY Zenon, <2>4, <3>5
  <2>10. CASE ~FromRight(left, right, l, r)
    <3>1. f[k] = l + 1
      BY Zenon, <2>6, <2>10
    <3>2. k - (l + 1) = r /\ l + 1 # l
      BY <2>2, <2>4
    <3>3. m[l + r + 1] = left[l + 1]
      BY Zenon, <2>7, <2>8, <3>1, <3>2
    <3>4. l + r < Len(left) + Len(right)
      BY <1>1, <1>5, <2>2
    <3>5. Merged(m, left, right, l + 1, r)
      BY Zenon, <2>3, <2>10, <3>3, <3>4, MergesLeft
    <3>6. Merged(m, left, right, f[k], k - f[k])
      BY Zenon, <3>1, <3>2, <3>5
    <3>7. QED
      BY Zenon, <2>4, <3>6
  <2>11. QED
    BY <2>9, <2>10
<1>6. total \in good
  <2> HIDE DEF total
  <2>1. ASSUME NEW n \in Nat, n \in good PROVE n + 1 \in good
    <3>1. n + 1 <= total => Merged(m, left, right, f[n + 1], (n + 1) - f[n + 1])
      BY <1>5, <2>1
    <3>2. PICK k \in Nat : k = n + 1
      OBVIOUS
    <3>3. k <= total => Merged(m, left, right, f[k], k - f[k])
      BY Zenon, <3>1, <3>2
    <3>4. k \in good
      BY <3>3
    <3>5. QED
      BY Zenon, <3>2, <3>4
  <2> HIDE DEF good
  <2>2. Nat \subseteq good
    BY <1>4, <2>1, P!Induct, SameConstants
  <2>3. QED
    BY <1>1, <2>2
<1>7. Merged(m, left, right, Len(left), Len(right))
  <2> HIDE DEF total
  <2>1. PICK l \in Nat, r \in Int : l = f[total] /\ r = total - f[total]
    BY <1>1, <1>3
  <2>2. Merged(m, left, right, f[total], total - f[total])
    BY <1>1, <1>6
  <2>3. Merged(m, left, right, l, r)
    BY Zenon, <2>1, <2>2
  <2>4. l + r = total
    <3>1. r = total - l
      BY Zenon, <2>1
    <3>2. QED
      BY <1>1, <3>1
  <2>5. l = Len(left) /\ r = Len(right)
    BY <1>1, <2>3, <2>4 DEF Merged, total
  <2>6. QED
    BY Zenon, <2>3, <2>5
<1>8. DOMAIN m = 1..total /\ m = [n \in 1..total |-> m[n]]
  BY <1>3
<1>9. QED
  BY <1>7, <1>8 DEF m

\* v has its entries in the order they were written.
ByAge(v) == v \in Seq(Writes) /\ \A i, j \in 1..Len(v) : i < j => v[i].ver < v[j].ver

\* s is the stable sort of the entries from + 1 to to of v.
SortOf(s, v, from, to) ==
  /\ InSortOrder(s) /\ Len(s) = to - from
  /\ \A i \in 1..Len(s) : \E j \in from + 1..to : s[i] = v[j]
  /\ \A j \in from + 1..to : \E i \in 1..Len(s) : s[i] = v[j]

\* merge_s makes one sorted part of two adjacent ones.
LEMMA MergeAdjacent ==
  ASSUME NEW v, ByAge(v), NEW a \in 0..Len(v), NEW b \in 0..Len(v), NEW c \in 0..Len(v), a <= b, b <= c,
         NEW left, NEW right, SortOf(left, v, a, b), SortOf(right, v, b, c)
  PROVE  SortOf(MergeSorted(left, right), v, a, c)
<1> DEFINE m == MergeSorted(left, right)
           total == Len(left) + Len(right)
<1>1. /\ InSortOrder(left) /\ Len(left) = b - a /\ InSortOrder(right) /\ Len(right) = c - b
      /\ left \in Seq(Writes) /\ right \in Seq(Writes) /\ Len(v) \in Nat
  BY DEF SortOf, InSortOrder, ByAge
<1>2. total = c - a /\ total \in Nat
  BY <1>1
<1>3. \A i \in 1..Len(left), j \in 1..Len(right) : left[i].ver < right[j].ver
  <2>1. ASSUME NEW i \in 1..Len(left), NEW j \in 1..Len(right) PROVE left[i].ver < right[j].ver
    <3>1. PICK x \in a + 1..b : left[i] = v[x]
      BY DEF SortOf
    <3>2. PICK y \in b + 1..c : right[j] = v[y]
      BY DEF SortOf
    <3>3. x \in 1..Len(v) /\ y \in 1..Len(v) /\ x < y
      BY <1>1
    <3>4. v[x].ver < v[y].ver
      BY <3>3 DEF ByAge
    <3>5. QED
      BY Zenon, <3>1, <3>2, <3>4
  <2>2. QED
    BY <2>1
<1>4. /\ m = [n \in 1..total |-> m[n]]
      /\ Merged(m, left, right, Len(left), Len(right))
  BY Zenon, <1>1, <1>3, MergeFacts
<1>5. /\ \A i \in 1..total : \/ \E j \in 1..Len(left) : m[i] = left[j]
                             \/ \E j \in 1..Len(right) : m[i] = right[j]
      /\ \A j \in 1..Len(left) : \E i \in 1..total : m[i] = left[j]
      /\ \A j \in 1..Len(right) : \E i \in 1..total : m[i] = right[j]
      /\ \A i, j \in 1..total : i < j => Older(m[i], m[j])
  BY Zenon, <1>4 DEF Merged
<1> HIDE DEF m, total
<1>6. \A i \in 1..total : m[i] \in Writes
  BY SMTT(40), <1>1, <1>5
<1>7. m \in Seq(Writes) /\ Len(m) = total
  BY <1>2, <1>4, <1>6
<1>8. \A i \in 1..total : \E j \in a + 1..c : m[i] = v[j]
  <2>1. \A x \in a + 1..b : x \in a + 1..c
    OBVIOUS
  <2>2. \A x \in b + 1..c : x \in a + 1..c
    OBVIOUS
  <2>3. /\ \A j \in 1..Len(left) : \E x \in a + 1..b : left[j] = v[x]
        /\ \A j \in 1..Len(right) : \E x \in b + 1..c : right[j] = v[x]
    BY DEF SortOf
  <2>4. QED
    BY <1>5, <2>1, <2>2, <2>3
<1>9. \A x \in a + 1..c : \E i \in 1..total : m[i] = v[x]
  <2>1. \A x \in a + 1..c : x \in a + 1..b \/ x \in b + 1..c
    OBVIOUS
  <2>2. /\ \A x \in a + 1..b : \E j \in 1..Len(left) : left[j] = v[x]
        /\ \A x \in b + 1..c : \E j \in 1..Len(right) : right[j] = v[x]
    BY DEF SortOf
  <2>3. ASSUME NEW x \in a + 1..c PROVE \E i \in 1..total : m[i] = v[x]
    <3>1. CASE x \in a + 1..b
      <4>1. PICK j \in 1..Len(left) : left[j] = v[x]
        BY <2>2, <3>1
      <4>2. PICK i \in 1..total : m[i] = left[j]
        BY <1>5
      <4>3. QED
        BY Zenon, <4>1, <4>2
    <3>2. CASE x \in b + 1..c
      <4>1. PICK j \in 1..Len(right) : right[j] = v[x]
        BY <2>2, <3>2
      <4>2. PICK i \in 1..total : m[i] = right[j]
        BY <1>5
      <4>3. QED
        BY Zenon, <4>1, <4>2
    <3>3. QED
      BY <2>1, <3>1, <3>2
  <2>4. QED
    BY <2>3
<1>10. InSortOrder(m)
  BY <1>5, <1>7 DEF InSortOrder
<1>11. QED
  BY <1>2, <1>7, <1>8, <1>9, <1>10 DEF SortOf, m

\* A part of at most one entry is sorted.
LEMMA ShortSorted ==
  ASSUME NEW v, ByAge(v), NEW a \in 0..Len(v), NEW b \in 0..Len(v), a <= b, b - a <= 1
  PROVE  SortOf(SubSeq(v, a + 1, b), v, a, b)
<1>1. v \in Seq(Writes) /\ Len(v) \in Nat
  BY DEF ByAge
<1>2. PICK s \in Seq(Writes) : s = SubSeq(v, a + 1, b)
  <2>1. \A i \in a + 1..b : v[i] \in Writes
    BY <1>1
  <2>2. a + 1 \in Int /\ b \in Int
    OBVIOUS
  <2>3. SubSeq(v, a + 1, b) \in Seq(Writes)
    BY <2>1, <2>2, SubSeqProperties
  <2>4. QED
    BY Zenon, <2>3
<1>3. Len(s) = b - a /\ \A i \in 1..b - a : s[i] = v[a + i]
  BY <1>1, <1>2
<1>4. \A i \in 1..b - a : i = 1 /\ a + 1 = b
  OBVIOUS
<1>5. \A j \in a + 1..b : j = a + 1 /\ 1 \in 1..b - a
  OBVIOUS
<1>6. InSortOrder(s)
  BY <1>3, <1>4 DEF InSortOrder
<1>7. SortOf(s, v, a, b)
  BY <1>3, <1>4, <1>5, <1>6 DEF SortOf
<1>8. QED
  BY Zenon, <1>2, <1>7

\* Where mergeSort cuts the entries a + 1 to b.
Middle(a, b) == a + (b - a) \div 2

LEMMA MiddleBetween ==
  ASSUME NEW a \in Nat, NEW b \in Nat, b - a > 1
  PROVE  Middle(a, b) \in Nat /\ a < Middle(a, b) /\ Middle(a, b) < b
BY DEF Middle

\* What mergeSort makes of each stretch of v; its calls end.
LEMMA SortSteps ==
  ASSUME NEW v, Len(v) \in Nat
  PROVE  \E f : /\ MergeSort(v) = f[<<0, Len(v)>>]
                /\ \A a, b \in 0..Len(v) :
                     f[<<a, b>>] = IF b - a <= 1 THEN SubSeq(v, a + 1, b)
                                   ELSE MergeSorted(f[<<a, Middle(a, b)>>], f[<<Middle(a, b), b>>])
<1> DEFINE places == 0..Len(v)
           D == places \X places
           size(p) == p[2] - p[1]
           lower(p) == <<p[1], Middle(p[1], p[2])>>
           upper(p) == <<Middle(p[1], p[2]), p[2]>>
           made(p, x, y) == IF size(p) <= 1 THEN SubSeq(v, p[1] + 1, p[2]) ELSE MergeSorted(x, y)
           W == CHOOSE sort : sort = [p \in D |-> made(p, sort[lower(p)], sort[upper(p)])]
           holds(f, p) == f[p] = made(p, f[lower(p)], f[upper(p)])
           some == {n \in Nat : \E f : \A p \in D : size(p) <= n => holds(f, p)}
<1>1. MergeSort(v) = W[<<0, Len(v)>>]
  BY Zenon DEF MergeSort, Middle
<1> HIDE DEF W
<1>2. \A p \in D : size(p) \in Int /\ size(p) <= Len(v)
  OBVIOUS
<1>3. ASSUME NEW p \in D, size(p) > 1
      PROVE  lower(p) \in D /\ upper(p) \in D /\ size(lower(p)) < size(p) /\ size(upper(p)) < size(p)
  <2>1. PICK a \in places, b \in places : p = <<a, b>> /\ b - a > 1 /\ a \in Nat /\ b \in Nat
    BY <1>3
  <2>2. PICK m \in Nat : m = Middle(a, b) /\ a < m /\ m < b
    BY <2>1, MiddleBetween
  <2>3. lower(p) = <<a, m>> /\ upper(p) = <<m, b>>
    BY <2>1, <2>2
  <2>4. m \in places
    BY <2>2
  <2>5. QED
    BY <2>1, <2>2, <2>3, <2>4
<1> HIDE DEF lower, upper
<1>4. 0 \in some
  <2> DEFINE f == [p \in D |-> SubSeq(v, p[1] + 1, p[2])]
  <2>1. \A p \in D : size(p) <= 0 => size(p) <= 1
    BY <1>2
  <2>2. \A p \in D : f[p] = SubSeq(v, p[1] + 1, p[2])
    OBVIOUS
  <2> HIDE DEF f, D
  <2>3. \A p \in D : size(p) <= 0 => holds(f, p)
    BY Zenon, <2>1, <2>2
  <2>4. QED
    BY <2>3
<1>5. ASSUME NEW n \in Nat, n \in some PROVE n + 1 \in some
  <2>1. PICK f : \A p \in D : size(p) <= n => holds(f, p)
    BY <1>5
  <2> DEFINE g == [p \in D |-> IF size(p) <= n THEN f[p] ELSE made(p, f[lower(p)], f[upper(p)])]
  <2>2. \A p \in D : g[p] = IF size(p) <= n THEN f[p] ELSE made(p, f[lower(p)], f[upper(p)])
    BY Zenon
  <2> HIDE DEF g, made
  <2>3. \A p \in D : g[p] = made(p, f[lower(p)], f[upper(p)])
    BY Zenon, <2>1, <2>2
  <2>4. ASSUME NEW p \in D, size(p) <= n + 1 PROVE holds(g, p)
    <3>1. CASE size(p) <= 1
      <4>1. \A x, y : made(p, x, y) = SubSeq(v, p[1] + 1, p[2])
        BY Zenon, <3>1 DEF made
      <4>2. QED
        BY Zenon, <2>3, <4>1
    <3>2. CASE ~(size(p) <= 1)
      <4>1. lower(p) \in D /\ upper(p) \in D /\ size(lower(p)) <= n /\ size(upper(p)) <= n
        <5> HIDE DEF D
        <5>1. \A q \in D : size(q) \in Int
          BY <1>2
        <5>2. size(p) > 1
          BY <3>2, <5>1
        <5> HIDE DEF size
        <5>3. lower(p) \in D /\ upper(p) \in D /\ size(lower(p)) < size(p) /\ size(upper(p)) < size(p)
          BY <1>3, <5>2
        <5>4. QED
          BY <2>4, <5>1, <5>3
      <4>2. g[lower(p)] = f[lower(p)] /\ g[upper(p)] = f[upper(p)]
        BY Zenon, <2>2, <4>1
      <4>3. QED
        BY Zenon, <2>3, <4>2
    <3>3. QED
      BY <3>1, <3>2
  <2>5. n + 1 \in Nat
    OBVIOUS
  <2> HIDE DEF D, size, holds
  <2>6. QED
    BY <2>4, <2>5
<1>6. Len(v) \in some
  <2> HIDE DEF some
  <2>1. Nat \subseteq some
    BY <1>4, <1>5, P!Induct, SameConstants
  <2>2. QED
    BY <2>1
<1>7. PICK f : \A p \in D : holds(f, p)
  <2>1. PICK f : \A p \in D : size(p) <= Len(v) => holds(f, p)
    BY <1>6
  <2> HIDE DEF D, size, holds
  <2>2. QED
    BY Zenon, <1>2, <2>1
<1> DEFINE g == [p \in D |-> f[p]]
<1>8. \A p \in D : holds(g, p)
  <2>1. \A p \in D : g[p] = f[p]
    OBVIOUS
  <2> HIDE DEF g, made
  <2>2. ASSUME NEW p \in D PROVE holds(g, p)
    <3>1. f[p] = made(p, f[lower(p)], f[upper(p)])
      BY <1>7
    <3>2. CASE size(p) <= 1
      <4>1. \A x, y : made(p, x, y) = SubSeq(v, p[1] + 1, p[2])
        BY Zenon, <3>2 DEF made
      <4>2. QED
        BY Zenon, <2>1, <3>1, <4>1
    <3>3. CASE ~(size(p) <= 1)
      <4>1. size(p) > 1
        BY <1>2, <3>3
      <4>2. lower(p) \in D /\ upper(p) \in D
        BY <1>3, <4>1
      <4>3. QED
        BY Zenon, <2>1, <3>1, <4>2
    <3>4. QED
      BY <3>2, <3>3
  <2>3. QED
    BY <2>2
<1>9. g = [p \in D |-> made(p, g[lower(p)], g[upper(p)])]
  <2>1. g = [p \in D |-> g[p]]
    OBVIOUS
  <2> HIDE DEF g, D, made
  <2>2. QED
    BY Zenon, <1>8, <2>1
<1>10. W = [p \in D |-> made(p, W[lower(p)], W[upper(p)])]
  <2> HIDE DEF g
  <2>1. QED
    BY Zenon, <1>9 DEF W
<1>11. ASSUME NEW a \in places, NEW b \in places
       PROVE  W[<<a, b>>] = IF b - a <= 1 THEN SubSeq(v, a + 1, b)
                            ELSE MergeSorted(W[<<a, Middle(a, b)>>], W[<<Middle(a, b), b>>])
  <2>1. PICK p \in D : p = <<a, b>> /\ p[1] = a /\ p[2] = b
    <3>1. PICK p : p = <<a, b>>
      OBVIOUS
    <3>2. p[1] = a /\ p[2] = b
      BY <3>1
    <3>3. p \in D
      <4>1. \A S, x, y : x \in S /\ y \in S => <<x, y>> \in S \X S
        OBVIOUS
      <4> HIDE DEF places
      <4>2. QED
        BY Zenon, <3>1, <4>1, <1>11
    <3>4. QED
      BY Zenon, <3>1, <3>2, <3>3
  <2>2. W[p] = made(p, W[lower(p)], W[upper(p)])
    BY Zenon, <1>10
  <2>3. lower(p) = <<a, Middle(a, b)>> /\ upper(p) = <<Middle(a, b), b>>
    BY Zenon, <2>1 DEF lower, upper
  <2>4. QED
    BY Zenon, <2>1, <2>2, <2>3
<1>12. QED
  BY <1>1, <1>11

\* The sort of a vector in order of age is stable.
LEMMA MergeSortFacts ==
  ASSUME NEW v, ByAge(v)
  PROVE  SortOf(MergeSort(v), v, 0, Len(v))
<1>1. Len(v) \in Nat
  BY DEF ByAge
<1>2. PICK f : /\ MergeSort(v) = f[<<0, Len(v)>>]
               /\ \A a, b \in 0..Len(v) :
                    f[<<a, b>>] = IF b - a <= 1 THEN SubSeq(v, a + 1, b)
                                  ELSE MergeSorted(f[<<a, Middle(a, b)>>], f[<<Middle(a, b), b>>])
  BY <1>1, SortSteps
<1> DEFINE sorts(a, b) == SortOf(f[<<a, b>>], v, a, b)
           good == {n \in Nat : \A a, b \in 0..Len(v) : a <= b /\ b - a <= n => sorts(a, b)}
<1>3. ASSUME NEW a \in 0..Len(v), NEW b \in 0..Len(v), a <= b, b - a <= 1 PROVE sorts(a, b)
  <2>1. f[<<a, b>>] = SubSeq(v, a + 1, b)
    BY Zenon, <1>2, <1>3
  <2>2. SortOf(SubSeq(v, a + 1, b), v, a, b)
    BY <1>3, ShortSorted
  <2>3. QED
    BY Zenon, <2>1, <2>2
<1>4. ASSUME NEW a \in 0..Len(v), NEW b \in 0..Len(v), b - a > 1,
             sorts(a, Middle(a, b)), sorts(Middle(a, b), b)
      PROVE  sorts(a, b)
  <2>1. PICK m \in 0..Len(v) : m = Middle(a, b) /\ a <= m /\ m <= b
    <3>1. a \in Nat /\ b \in Nat /\ b <= Len(v)
      BY <1>1
    <3>2. PICK m \in Nat : m = Middle(a, b) /\ a < m /\ m < b
      BY <1>4, <3>1, MiddleBetween
    <3>3. m \in 0..Len(v) /\ a <= m /\ m <= b
      BY <1>1, <3>1, <3>2
    <3>4. QED
      BY Zenon, <3>2, <3>3
  <2>2. ~(b - a <= 1)
    BY <1>4
  <2>3. f[<<a, b>>] = MergeSorted(f[<<a, m>>], f[<<m, b>>])
    BY Zenon, <1>2, <2>1, <2>2
  <2>4. SortOf(f[<<a, m>>], v, a, m) /\ SortOf(f[<<m, b>>], v, m, b)
    BY Zenon, <1>4, <2>1
  <2>5. SortOf(MergeSorted(f[<<a, m>>], f[<<m, b>>]), v, a, b)
    BY Zenon, <2>1, <2>4, MergeAdjacent
  <2>6. QED
    BY Zenon, <2>3, <2>5
<1> HIDE DEF sorts
<1>5. 0 \in good
  <2>1. \A a, b \in 0..Len(v) : b - a <= 0 => b - a <= 1
    OBVIOUS
  <2>2. QED
    BY <1>3, <2>1
<1>6. ASSUME NEW n \in Nat, n \in good PROVE n + 1 \in good
  <2>1. ASSUME NEW a \in 0..Len(v), NEW b \in 0..Len(v), a <= b, b - a <= n + 1 PROVE sorts(a, b)
    <3>1. CASE b - a <= 1
      BY <1>3, <2>1, <3>1
    <3>2. CASE b - a > 1
      <4>1. PICK m \in 0..Len(v) : m = Middle(a, b) /\ a <= m /\ m <= b /\ m - a <= n /\ b - m <= n
        BY <1>1, <2>1, <3>2, MiddleBetween
      <4>2. sorts(a, m) /\ sorts(m, b)
        BY <1>6, <4>1
      <4>3. QED
        BY Zenon, <1>4, <3>2, <4>1, <4>2
    <3>3. QED
      BY <3>1, <3>2
  <2>2. n + 1 \in Nat
    OBVIOUS
  <2>3. QED
    BY <2>1, <2>2
<1>7. Len(v) \in good
  <2> HIDE DEF good
  <2>1. Nat \subseteq good
    BY <1>5, <1>6, P!Induct, SameConstants
  <2>2. QED
    BY <1>1, <2>1
<1>8. sorts(0, Len(v))
  BY <1>1, <1>7
<1>9. QED
  BY Zenon, <1>2, <1>8 DEF sorts

\* So is that of a stretch of one.
LEMMA StretchSorted ==
  ASSUME NEW v, ByAge(v), NEW a \in 0..Len(v), NEW b \in 0..Len(v), a <= b
  PROVE  SortOf(MergeSort(SubSeq(v, a + 1, b)), v, a, b)
<1>1. v \in Seq(Writes) /\ Len(v) \in Nat
  BY DEF ByAge
<1>2. PICK s \in Seq(Writes) : s = SubSeq(v, a + 1, b)
  <2>1. \A i \in a + 1..b : v[i] \in Writes
    BY <1>1
  <2>2. a + 1 \in Int /\ b \in Int
    OBVIOUS
  <2>3. SubSeq(v, a + 1, b) \in Seq(Writes)
    BY <2>1, <2>2, SubSeqProperties
  <2>4. QED
    BY Zenon, <2>3
<1>3. Len(s) = b - a /\ \A i \in 1..b - a : s[i] = v[a + i]
  BY <1>1, <1>2
<1>4. ByAge(s)
  <2>1. ASSUME NEW i \in 1..Len(s), NEW j \in 1..Len(s), i < j PROVE s[i].ver < s[j].ver
    <3>1. PICK x \in 1..Len(v), y \in 1..Len(v) : x = a + i /\ y = a + j /\ x < y
      BY <1>1, <1>3, <2>1
    <3>2. s[i] = v[x] /\ s[j] = v[y]
      BY <1>3, <3>1
    <3>3. v[x].ver < v[y].ver
      BY <3>1 DEF ByAge
    <3>4. QED
      BY Zenon, <3>2, <3>3
  <2>2. QED
    BY <2>1 DEF ByAge
<1> DEFINE m == MergeSort(s)
<1>5. SortOf(m, s, 0, Len(s))
  BY <1>4, MergeSortFacts
<1> HIDE DEF m
<1>6. /\ InSortOrder(m) /\ Len(m) = b - a
      /\ \A i \in 1..Len(m) : \E j \in 1..Len(s) : m[i] = s[j]
      /\ \A j \in 1..Len(s) : \E i \in 1..Len(m) : m[i] = s[j]
  BY <1>3, <1>5 DEF SortOf
<1>7. \A j \in 1..Len(s) : \E x \in a + 1..b : s[j] = v[x]
  <2>1. ASSUME NEW j \in 1..Len(s) PROVE \E x \in a + 1..b : s[j] = v[x]
    <3>1. PICK x \in a + 1..b : x = a + j
      BY <1>3
    <3>2. s[j] = v[x]
      BY <1>3, <3>1
    <3>3. QED
      BY <3>2
  <2>2. QED
    BY <2>1
<1>8. \A x \in a + 1..b : \E j \in 1..Len(s) : s[j] = v[x]
  <2>1. ASSUME NEW x \in a + 1..b PROVE \E j \in 1..Len(s) : s[j] = v[x]
    <3>1. PICK j \in 1..b - a : j = x - a /\ a + j = x
      OBVIOUS
    <3>2. s[j] = v[x]
      BY <1>3, <3>1
    <3>3. QED
      BY <1>3, <3>2
  <2>2. QED
    BY <2>1
<1>9. \A i \in 1..Len(m) : \E x \in a + 1..b : m[i] = v[x]
  <2>1. ASSUME NEW i \in 1..Len(m) PROVE \E x \in a + 1..b : m[i] = v[x]
    <3>1. PICK j \in 1..Len(s) : m[i] = s[j]
      BY <1>6
    <3>2. PICK x \in a + 1..b : s[j] = v[x]
      BY <1>7
    <3>3. QED
      BY Zenon, <3>1, <3>2
  <2>2. QED
    BY <2>1
<1>10. \A x \in a + 1..b : \E i \in 1..Len(m) : m[i] = v[x]
  <2>1. ASSUME NEW x \in a + 1..b PROVE \E i \in 1..Len(m) : m[i] = v[x]
    <3>1. PICK j \in 1..Len(s) : s[j] = v[x]
      BY <1>8
    <3>2. PICK i \in 1..Len(m) : m[i] = s[j]
      BY <1>6
    <3>3. QED
      BY Zenon, <3>1, <3>2
  <2>2. QED
    BY <2>1
<1>11. SortOf(m, v, a, b)
  BY <1>6, <1>9, <1>10 DEF SortOf
<1>12. QED
  BY Zenon, <1>2, <1>11 DEF m

\* The parts of n entries follow each other from the first to the last.
LEMMA PartEnds ==
  ASSUME NEW n \in Nat
  PROVE  /\ PartEnd(n, 0) = 0 /\ PartEnd(n, Threads) = n
         /\ \A i \in 0..Threads : PartEnd(n, i) \in 0..n
         /\ \A i \in 1..Threads : PartEnd(n, i - 1) <= PartEnd(n, i)
<1>1. Threads \in Nat \ {0}
  BY SortAssumption
<1>2. PICK q \in Nat : q = n \div Threads
  BY <1>1, Division
<1>3. PICK r \in 0..Threads - 1 : r = n % Threads
  BY <1>1
<1>4. n = q * Threads + r
  <2>1. n = (Threads * (n \div Threads)) + (n % Threads)
    BY <1>1
  <2>2. n = Threads * q + r
    BY Zenon, <1>2, <1>3, <2>1
  <2>3. QED
    BY <1>1, <2>2
<1> DEFINE least(i) == IF i < r THEN i ELSE r
<1>5. \A i : PartEnd(n, i) = i * q + least(i)
  BY Zenon, <1>2, <1>3 DEF PartEnd
<1>6. PICK p \in [0..Threads -> Nat] : \A i \in 0..Threads : p[i] = i * q
  <2>1. \A i \in 0..Threads : i * q \in Nat
    BY <1>1, Multiples
  <2> DEFINE p == [i \in 0..Threads |-> i * q]
  <2>2. p \in [0..Threads -> Nat] /\ \A i \in 0..Threads : p[i] = i * q
    BY <2>1
  <2>3. QED
    BY <2>2
<1>7. \A i \in 0..Threads : PartEnd(n, i) = p[i] + least(i)
  BY Zenon, <1>5, <1>6
<1>8. p[0] = 0 /\ p[Threads] = q * Threads /\ 0 \in 0..Threads /\ Threads \in 0..Threads
  BY <1>1, <1>6
<1>9. \A i \in 0..Threads : p[i] <= p[Threads]
  <2>1. ASSUME NEW i \in 0..Threads PROVE i * q <= Threads * q
    BY <1>1, Multiples
  <2>2. QED
    BY <1>6, <1>8, <2>1
<1>10. \A i \in 1..Threads : i - 1 \in 0..Threads /\ i \in 0..Threads /\ p[i - 1] <= p[i]
  <2>1. ASSUME NEW i \in 1..Threads PROVE i - 1 \in 0..Threads /\ i \in 0..Threads /\ p[i - 1] <= p[i]
    <3>1. PICK j \in 0..Threads : j = i - 1
      BY <1>1
    <3>2. i \in 0..Threads /\ j <= i
      BY <1>1, <3>1
    <3>3. j * q <= i * q
      BY <3>2, Multiples
    <3>4. p[j] <= p[i]
      BY Zenon, <1>6, <3>2, <3>3
    <3>5. QED
      BY Zenon, <3>1, <3>2, <3>4
  <2>2. QED
    BY <2>1
<1>11. \A i \in 0..Threads : least(i) \in 0..r /\ p[i] \in Nat
  BY <1>1
<1>12. least(0) = 0 /\ least(Threads) = r
  BY <1>1
<1>13. \A i \in 1..Threads : least(i - 1) <= least(i)
  BY <1>1
<1>14. n = p[Threads] + r
  BY <1>4, <1>8
<1> HIDE DEF least
<1>15. \A i \in 0..Threads : PartEnd(n, i) \in 0..n
  <2>1. ASSUME NEW i \in 0..Threads PROVE PartEnd(n, i) \in 0..n
    <3>1. PartEnd(n, i) = p[i] + least(i) /\ p[i] <= p[Threads] /\ least(i) \in 0..r
      BY <1>7, <1>9, <1>11
    <3>2. p[i] \in Nat /\ p[Threads] \in Nat
      BY <1>8, <1>11
    <3>3. QED
      BY <1>1, <1>14, <3>1, <3>2
  <2>2. QED
    BY <2>1
<1>16. \A i \in 1..Threads : PartEnd(n, i - 1) <= PartEnd(n, i)
  <2>1. ASSUME NEW i \in 1..Threads PROVE PartEnd(n, i - 1) <= PartEnd(n, i)
    <3>1. PICK j \in 0..Threads : j = i - 1 /\ p[j] <= p[i] /\ i \in 0..Threads
      BY <1>10
    <3>2. least(j) <= least(i)
      BY <1>13, <3>1
    <3>3. PartEnd(n, j) <= PartEnd(n, i)
      BY <1>7, <1>11, <3>1, <3>2
    <3>4. QED
      BY Zenon, <3>1, <3>3
  <2>2. QED
    BY <2>1
<1>17. QED
  BY <1>7, <1>8, <1>12, <1>14, <1>15, <1>16

\* What a worker makes of part i.
LEMMA PartSorted ==
  ASSUME NEW v, ByAge(v), NEW i \in Parts
  PROVE  SortOf(MergeSort(Part(v, i)), v, PartEnd(Len(v), i - 1), PartEnd(Len(v), i))
<1>1. Len(v) \in Nat /\ i - 1 \in 0..Threads /\ i \in 0..Threads /\ i \in 1..Threads
  BY SortAssumption DEF ByAge, Parts
<1>2. PICK a \in 0..Len(v) : a = PartEnd(Len(v), i - 1)
  BY <1>1, PartEnds
<1>3. PICK b \in 0..Len(v) : b = PartEnd(Len(v), i)
  BY <1>1, PartEnds
<1>4. a <= b
  BY <1>1, <1>2, <1>3, PartEnds
<1>5. SortOf(MergeSort(SubSeq(v, a + 1, b)), v, a, b)
  BY <1>4, StretchSorted
<1>6. QED
  BY Zenon, <1>2, <1>3, <1>5 DEF Part

\* The last of the first n entries of v with key k.
LastOf(v, k, n) == CHOOSE i \in 1..n : /\ v[i].key = k
                                       /\ \A j \in 1..n : v[j].key = k => j <= i

\* There is one, and it is the only one with no later one.
LEMMA LastOfFacts ==
  ASSUME NEW v, NEW n \in Nat, NEW k
  PROVE  /\ \A i \in 1..n : v[i].key = k =>
              /\ LastOf(v, k, n) \in 1..n /\ v[LastOf(v, k, n)].key = k
              /\ \A j \in 1..n : v[j].key = k => j <= LastOf(v, k, n)
         /\ \A i \in 1..n : v[i].key = k /\ (\A j \in 1..n : v[j].key = k => j <= i) => LastOf(v, k, n) = i
<1> DEFINE last(i) == v[i].key = k /\ \A j \in 1..n : v[j].key = k => j <= i
           S == {i \in 1..n : v[i].key = k}
<1>1. ASSUME NEW i \in 1..n, v[i].key = k PROVE \E m \in 1..n : last(m)
  <2>1. S \subseteq Nat /\ S # {} /\ \A m \in S : m <= n
    BY <1>1
  <2> HIDE DEF S
  <2>2. PICK m \in S : \A j \in S : j <= m
    BY <2>1, P!GreatestNat, SameConstants
  <2>3. QED
    BY <2>2 DEF S
<1>2. ASSUME NEW i \in 1..n, NEW m \in 1..n, last(i), last(m) PROVE i = m
  <2>1. i <= m /\ m <= i /\ i \in Int /\ m \in Int
    BY <1>2
  <2>2. QED
    BY <2>1
<1>3. LastOf(v, k, n) = CHOOSE i \in 1..n : last(i)
  BY Zenon DEF LastOf
<1> HIDE DEF last
<1>4. ASSUME NEW i \in 1..n, last(i) PROVE LastOf(v, k, n) \in 1..n /\ last(LastOf(v, k, n))
  BY Zenon, <1>3, <1>4
<1>5. QED
  <2>1. ASSUME NEW i \in 1..n, v[i].key = k PROVE LastOf(v, k, n) \in 1..n /\ last(LastOf(v, k, n))
    BY Zenon, <1>1, <1>4, <2>1
  <2>2. ASSUME NEW i \in 1..n, last(i) PROVE LastOf(v, k, n) = i
    BY Zenon, <1>2, <1>4, <2>2
  <2>3. QED
    BY Zenon, <2>1, <2>2 DEF last

\* The map has the keys of the vector, each with its last entry.
LEMMA FillFacts ==
  ASSUME NEW v, Len(v) \in Nat
  PROVE  FillMap(v) = [k \in {v[i].key : i \in 1..Len(v)} |-> v[LastOf(v, k, Len(v))]]
<1> DEFINE c == Len(v)
           keys(n) == {v[i].key : i \in 1..n}
           put(map, e) == [k \in DOMAIN map \cup {e.key} |-> IF k = e.key THEN e ELSE map[k]]
           g == [n \in 0..c |-> [k \in keys(n) |-> v[LastOf(v, k, n)]]]
           W == CHOOSE fill : fill = [n \in 0..Len(v) |-> IF n = 0 THEN Empty ELSE put(fill[n - 1], v[n])]
<1>1. FillMap(v) = W[Len(v)]
  BY Zenon DEF FillMap
<1> HIDE DEF W
<1>2. \A n \in 0..c : g[n] = [k \in keys(n) |-> v[LastOf(v, k, n)]]
  BY Zenon
<1>3. g = [n \in 0..c |-> g[n]]
  OBVIOUS
<1> HIDE DEF g
<1>4. 0 \in 0..c /\ g[0] = Empty
  <2>1. keys(0) = {} /\ 0 \in 0..c
    OBVIOUS
  <2> HIDE DEF keys
  <2>2. [k \in keys(0) |-> v[LastOf(v, k, 0)]] = Empty
    BY <2>1 DEF Empty
  <2>3. QED
    BY <1>2, <2>1, <2>2
<1>5. ASSUME NEW n \in 1..c PROVE n \in 0..c /\ n # 0 /\ g[n] = put(g[n - 1], v[n])
  <2>1. PICK m \in 0..c : m = n - 1 /\ m \in Nat /\ n \in Nat
    OBVIOUS
  <2>2. n \in 0..c /\ n # 0 /\ n \in 1..n /\ (\A i \in 1..n : i \in 1..m \/ i = n) /\ (\A i \in 1..m : i \in 1..n)
        /\ \A i \in 1..n : i <= n
    BY <2>1
  <2>3. keys(n) = keys(m) \cup {v[n].key}
    BY <2>2
  <2>4. LastOf(v, v[n].key, n) = n
    BY <2>1, <2>2, LastOfFacts
  <2>5. ASSUME NEW k \in keys(n), k # v[n].key PROVE LastOf(v, k, n) = LastOf(v, k, m)
    <3>1. PICK i \in 1..m : v[i].key = k
      BY <2>2, <2>5
    <3>2. PICK l \in 1..m : l = LastOf(v, k, m) /\ v[l].key = k /\ \A j \in 1..m : v[j].key = k => j <= l
      BY <2>1, <3>1, LastOfFacts
    <3>3. l \in 1..n /\ \A j \in 1..n : v[j].key = k => j <= l
      BY <2>2, <2>5, <3>2
    <3>4. LastOf(v, k, n) = l
      BY <2>1, <3>2, <3>3, LastOfFacts
    <3>5. QED
      BY <3>2, <3>4
  <2>6. g[m] = [k \in keys(m) |-> v[LastOf(v, k, m)]] /\ g[n] = [k \in keys(n) |-> v[LastOf(v, k, n)]]
    BY Zenon, <1>2, <2>1, <2>2
  <2> HIDE DEF keys
  <2>7. put(g[m], v[n]) = [k \in keys(n) |-> IF k = v[n].key THEN v[n] ELSE g[m][k]]
    <3>1. DOMAIN g[m] = keys(m)
      BY <2>6
    <3>2. QED
      BY Zenon, <2>3, <3>1
  <2>8. \A k \in keys(n) : v[LastOf(v, k, n)] = IF k = v[n].key THEN v[n] ELSE g[m][k]
    <3>1. ASSUME NEW k \in keys(n), k # v[n].key PROVE v[LastOf(v, k, n)] = g[m][k]
      <4>1. k \in keys(m)
        BY <2>3, <3>1
      <4>2. g[m][k] = v[LastOf(v, k, m)]
        BY <2>6, <4>1
      <4>3. QED
        BY Zenon, <2>5, <3>1, <4>2
    <3>2. QED
      BY Zenon, <2>4, <3>1
  <2>9. g[n] = put(g[m], v[n])
    BY ZenonT(40), <2>6, <2>7, <2>8
  <2>10. QED
    BY Zenon, <2>1, <2>2, <2>9
<1> HIDE DEF put
<1>6. g = [n \in 0..c |-> IF n = 0 THEN Empty ELSE put(g[n - 1], v[n])]
  <2>1. \A n \in 0..c : n = 0 \/ n \in 1..c
    OBVIOUS
  <2>2. \A n \in 0..c : g[n] = IF n = 0 THEN Empty ELSE put(g[n - 1], v[n])
    BY Zenon, <1>4, <1>5, <2>1
  <2>3. QED
    BY Zenon, <1>3, <2>2
<1>7. W = [n \in 0..c |-> IF n = 0 THEN Empty ELSE put(W[n - 1], v[n])]
  BY Zenon, <1>6 DEF W
<1>8. \A n \in 0..c : W[n] = g[n]
  <2>1. W[0] = g[0]
    BY Zenon, <1>4, <1>7
  <2>2. ASSUME NEW n \in 1..c, W[n - 1] = g[n - 1] PROVE W[n] = g[n]
    BY Zenon, <1>5, <1>7, <2>2
  <2>3. QED
    BY <2>1, <2>2, SameSteps
<1>9. c \in 0..c
  OBVIOUS
<1>10. QED
  BY Zenon, <1>1, <1>2, <1>8, <1>9

\* What the threads of the sort have made so far of the entries they were given.
SortInv ==
  /\ store \in Stores
  /\ queue \in Seq(Parts) /\ sorting \subseteq Parts
  /\ DOMAIN sorted \subseteq Parts
  /\ \A i \in DOMAIN sorted : SortOf(sorted[i], store, PartEnd(Len(store), i - 1), PartEnd(Len(store), i))
  /\ enqueued \in 0..Threads /\ combined \in 0..Threads
  /\ SortOf(buffer, store, 0, PartEnd(Len(store), combined))
  /\ mergeMap = Empty \/ (combined = Threads /\ mergeMap = FillMap(buffer))

\* The entries of the buffer, with the places they have in it.
LEMMA StoreFacts ==
  ASSUME store \in Stores
  PROVE  ByAge(store) /\ Len(store) \in Nat /\ DOMAIN store = 1..Len(store)
<1>1. PICK n \in 1..MaxEntries : \E keys \in [1..n -> SortKeys] : store = Buffered(keys)
  BY DEF Stores
<1>2. PICK keys \in [1..n -> SortKeys] : store = Buffered(keys)
  BY <1>1
<1>3. store = [i \in 1..n |-> [key |-> keys[i], ver |-> i]] /\ n \in Nat
  BY <1>2, SortAssumption DEF Buffered
<1>4. \A i \in 1..n : store[i] \in Writes /\ store[i].ver = i
  <2>1. ASSUME NEW i \in 1..n PROVE store[i] \in Writes /\ store[i].ver = i
    <3>1. keys[i] \in Int
      BY SortAssumption
    <3>2. store[i] = [key |-> keys[i], ver |-> i] /\ i \in Int
      BY <1>3
    <3>3. QED
      BY <3>1, <3>2 DEF Writes
  <2>2. QED
    BY <2>1
<1>5. store \in Seq(Writes) /\ Len(store) = n
  BY <1>3, <1>4
<1>6. QED
  BY <1>3, <1>4, <1>5 DEF ByAge

LEMMA InitSort == SortInit => SortInv
<1>1. SUFFICES ASSUME SortInit PROVE SortInv
  OBVIOUS
<1>2. store \in Stores /\ queue = <<>> /\ sorting = {} /\ sorted = Empty /\ enqueued = 0 /\ combined = 0
      /\ buffer = <<>> /\ mergeMap = Empty
  BY <1>1 DEF SortInit
<1>3. 0 \in 0..Threads /\ queue \in Seq(Parts) /\ DOMAIN sorted = {}
  BY <1>2, SortAssumption DEF Empty
<1>4. SortOf(<<>>, store, 0, 0)
  BY DEF SortOf, InSortOrder
<1>5. PartEnd(Len(store), 0) = 0
  BY <1>2, StoreFacts, PartEnds
<1>6. QED
  BY <1>2, <1>3, <1>4, <1>5 DEF SortInv

LEMMA NextSort == SortInv /\ [SortNext]_sortVars => SortInv'
<1>1. SUFFICES ASSUME SortInv, [SortNext]_sortVars PROVE SortInv'
  OBVIOUS
<1>2. /\ store \in Stores /\ queue \in Seq(Parts) /\ sorting \subseteq Parts /\ DOMAIN sorted \subseteq Parts
      /\ \A i \in DOMAIN sorted : SortOf(sorted[i], store, PartEnd(Len(store), i - 1), PartEnd(Len(store), i))
      /\ enqueued \in 0..Threads /\ combined \in 0..Threads
      /\ SortOf(buffer, store, 0, PartEnd(Len(store), combined))
      /\ mergeMap = Empty \/ (combined = Threads /\ mergeMap = FillMap(buffer))
  BY <1>1 DEF SortInv
<1>3. Threads \in Nat /\ Parts = 1..Threads /\ ByAge(store) /\ Len(store) \in Nat
  BY <1>2, StoreFacts, SortAssumption DEF Parts
<1>4. CASE Enqueue
  <2>1. enqueued + 1 \in Parts /\ enqueued + 1 \in 0..Threads
    BY <1>2, <1>3, <1>4 DEF Enqueue
  <2>2. Append(queue, enqueued + 1) \in Seq(Parts)
    BY <1>2, <2>1
  <2>3. queue' \in Seq(Parts) /\ enqueued' \in 0..Threads
        /\ UNCHANGED <<store, sorting, sorted, combined, buffer, mergeMap>>
    BY Zenon, <1>4, <2>1, <2>2 DEF Enqueue
  <2>4. QED
    BY <1>2, <2>3 DEF SortInv
<1>5. CASE Take
  <2>1. Head(queue) \in Parts /\ Tail(queue) \in Seq(Parts)
    BY <1>2, <1>5 DEF Take
  <2>2. queue' \in Seq(Parts) /\ sorting' \subseteq Parts
        /\ UNCHANGED <<store, enqueued, sorted, combined, buffer, mergeMap>>
    BY <1>2, <1>5, <2>1 DEF Take
  <2>3. QED
    BY <1>2, <2>2 DEF SortInv
<1>6. ASSUME NEW i \in Parts, Finish(i) PROVE SortInv'
  <2> DEFINE made == MergeSort(Part(store, i))
  <2>1. SortOf(made, store, PartEnd(Len(store), i - 1), PartEnd(Len(store), i))
    BY <1>3, PartSorted
  <2>2. /\ sorting' = sorting \ {i}
        /\ sorted' = [p \in DOMAIN sorted \cup {i} |-> IF p = i THEN made ELSE sorted[p]]
        /\ UNCHANGED <<store, enqueued, queue, combined, buffer, mergeMap>>
    BY <1>6 DEF Finish
  <2> HIDE DEF made
  <2>3. DOMAIN sorted' = DOMAIN sorted \cup {i} /\ sorting' \subseteq Parts
    BY <1>2, <2>2
  <2>4. DOMAIN sorted' \subseteq Parts
    BY <1>2, <1>6, <2>3
  <2>5. ASSUME NEW p \in DOMAIN sorted'
        PROVE  SortOf(sorted'[p], store, PartEnd(Len(store), p - 1), PartEnd(Len(store), p))
    <3>1. sorted'[p] = IF p = i THEN made ELSE sorted[p]
      BY Zenon, <2>2, <2>3
    <3>2. CASE p = i
      BY Zenon, <2>1, <3>1, <3>2
    <3>3. CASE p # i
      <4>1. p \in DOMAIN sorted
        BY <2>3, <3>3
      <4>2. QED
        BY Zenon, <1>2, <3>1, <3>3, <4>1
    <3>4. QED
      BY <3>2, <3>3
  <2>6. QED
    BY Zenon, <1>2, <2>2, <2>3, <2>4, <2>5 DEF SortInv
<1>7. CASE Combine
  <2>1. /\ combined < Threads /\ combined + 1 \in DOMAIN sorted
        /\ buffer' = MergeSorted(buffer, sorted[combined + 1])
        /\ combined' = combined + 1
        /\ UNCHANGED <<store, enqueued, queue, sorting, sorted, mergeMap>>
    BY <1>7 DEF Combine
  <2>2. PICK n \in 1..Threads : n = combined + 1 /\ n - 1 = combined
    BY <1>2, <1>3, <2>1
  <2>3. PICK b \in 0..Len(store) : b = PartEnd(Len(store), combined)
    BY <1>2, <1>3, PartEnds
  <2>4. PICK c \in 0..Len(store) : c = PartEnd(Len(store), n)
    <3>1. n \in 0..Threads
      BY <1>3
    <3>2. QED
      BY <1>3, <3>1, PartEnds
  <2>5. b <= c
    <3>1. PartEnd(Len(store), n - 1) <= PartEnd(Len(store), n)
      BY <1>3, PartEnds
    <3>2. QED
      BY Zenon, <2>2, <2>3, <2>4, <3>1
  <2>6. SortOf(buffer, store, 0, b) /\ SortOf(sorted[n], store, b, c)
    <3>1. SortOf(sorted[n], store, PartEnd(Len(store), n - 1), PartEnd(Len(store), n))
      BY Zenon, <1>2, <2>1, <2>2
    <3>2. QED
      BY Zenon, <1>2, <2>2, <2>3, <2>4, <3>1
  <2>7. SortOf(MergeSorted(buffer, sorted[n]), store, 0, c)
    <3>1. 0 \in 0..Len(store) /\ 0 <= b
      BY <1>3
    <3>2. QED
      BY Zenon, <1>3, <2>5, <2>6, <3>1, MergeAdjacent
  <2>8. combined' \in 0..Threads /\ SortOf(buffer', store, 0, PartEnd(Len(store), combined'))
    <3>1. n \in 0..Threads
      BY <1>3
    <3>2. QED
      BY Zenon, <2>1, <2>2, <2>4, <2>7, <3>1
  <2>9. mergeMap' = Empty
    <3>1. combined # Threads
      BY <1>2, <1>3, <2>1
    <3>2. QED
      BY Zenon, <1>2, <2>1, <3>1
  <2>10. QED
    BY Zenon, <1>2, <2>1, <2>8, <2>9 DEF SortInv
<1>8. CASE Fill
  BY Zenon, <1>2, <1>8 DEF Fill, SortInv
<1>9. CASE UNCHANGED sortVars
  BY Zenon, <1>2, <1>9 DEF sortVars, SortInv
<1>10. QED
  BY <1>1, <1>4, <1>5, <1>6, <1>7, <1>8, <1>9 DEF SortNext

LEMMA SortInvImplies == SortInv => MergedIsStableSort
<1>1. SUFFICES ASSUME SortInv PROVE MergedIsStableSort
  OBVIOUS
<1>2. /\ ByAge(store) /\ Len(store) \in Nat /\ DOMAIN store = 1..Len(store)
      /\ combined \in 0..Threads
      /\ SortOf(buffer, store, 0, PartEnd(Len(store), combined))
      /\ mergeMap = Empty \/ (combined = Threads /\ mergeMap = FillMap(buffer))
  BY <1>1, StoreFacts DEF SortInv
<1>3. PICK b \in 0..Len(store) : b = PartEnd(Len(store), combined)
  BY <1>2, PartEnds
<1>4. PICK done \in Seq(Writes) : done = SubSeq(store, 1, PartEnd(Len(store), combined))
  <2>1. \A i \in 1..b : store[i] \in Writes
    BY <1>2 DEF ByAge
  <2>2. 1 \in Int /\ b \in Int
    OBVIOUS
  <2>3. SubSeq(store, 1, b) \in Seq(Writes)
    BY <2>1, <2>2, SubSeqProperties
  <2>4. QED
    BY Zenon, <1>3, <2>3
<1>5. Len(done) = b /\ DOMAIN done = 1..b /\ \A i \in 1..b : done[i] = store[i]
  <2>1. store \in Seq(Writes) /\ done = SubSeq(store, 1, b)
    BY Zenon, <1>2, <1>3, <1>4 DEF ByAge
  <2>2. QED
    BY <2>1
<1>6. /\ InSortOrder(buffer) /\ Len(buffer) = b /\ DOMAIN buffer = 1..b
      /\ \A i \in 1..b : \E j \in 1..b : buffer[i] = store[j]
      /\ \A j \in 1..b : \E i \in 1..b : buffer[i] = store[j]
  <2>1. SortOf(buffer, store, 0, b)
    BY Zenon, <1>2, <1>3
  <2>2. buffer \in Seq(Writes) /\ Len(buffer) = b /\ 0 + 1 = 1
    BY <2>1 DEF SortOf, InSortOrder
  <2>3. QED
    BY <2>1, <2>2 DEF SortOf
<1>7. {buffer[i] : i \in DOMAIN buffer} = {done[i] : i \in DOMAIN done}
  <2>1. \A i \in 1..b : \E j \in 1..b : buffer[i] = done[j]
    BY Zenon, <1>5, <1>6
  <2>2. \A j \in 1..b : \E i \in 1..b : done[j] = buffer[i]
    BY Zenon, <1>5, <1>6
  <2>3. ASSUME NEW x PROVE x \in {buffer[i] : i \in 1..b} <=> x \in {done[i] : i \in 1..b}
    <3>1. ASSUME NEW i \in 1..b, x = buffer[i] PROVE x \in {done[j] : j \in 1..b}
      BY Zenon, <2>1, <3>1
    <3>2. ASSUME NEW i \in 1..b, x = done[i] PROVE x \in {buffer[j] : j \in 1..b}
      BY Zenon, <2>2, <3>2
    <3>3. QED
      BY Zenon, <3>1, <3>2
  <2>4. {buffer[i] : i \in 1..b} = {done[i] : i \in 1..b}
    BY Zenon, <2>3
  <2>5. QED
    BY Zenon, <1>5, <1>6, <2>4
<1>8. \A i, j \in DOMAIN buffer : i < j => Older(buffer[i], buffer[j])
  BY <1>6 DEF InSortOrder
<1>9. ASSUME Done
      PROVE  /\ DOMAIN mergeMap = Tree!BufferKeys
             /\ \A k \in Tree!BufferKeys : mergeMap[k] = store[Tree!LastWrite(k)]
  <2>1. b = Len(store) /\ mergeMap = FillMap(buffer)
    BY <1>2, <1>3, <1>9, PartEnds DEF Done
  <2>2. Tree!BufferKeys = {store[i].key : i \in 1..b}
    BY Zenon, <1>2, <2>1 DEF Tree!BufferKeys
  <2>3. {buffer[i].key : i \in 1..b} = {store[i].key : i \in 1..b}
    <3>1. ASSUME NEW x PROVE x \in {buffer[i].key : i \in 1..b} <=> x \in {store[i].key : i \in 1..b}
      <4>1. ASSUME NEW i \in 1..b, x = buffer[i].key PROVE x \in {store[j].key : j \in 1..b}
        BY Zenon, <1>6, <4>1
      <4>2. ASSUME NEW i \in 1..b, x = store[i].key PROVE x \in {buffer[j].key : j \in 1..b}
        BY Zenon, <1>6, <4>2
      <4>3. QED
        BY Zenon, <4>1, <4>2
    <3>2. QED
      BY Zenon, <3>1
  <2>4. mergeMap = [k \in {buffer[i].key : i \in 1..b} |-> buffer[LastOf(buffer, k, b)]]
    <3>1. Len(buffer) \in Nat
      BY <1>6
    <3>2. mergeMap = [k \in {buffer[i].key : i \in 1..Len(buffer)} |-> buffer[LastOf(buffer, k, Len(buffer))]]
      BY <2>1, <3>1, FillFacts
    <3>3. QED
      BY Zenon, <1>6, <3>2
  <2>5. ASSUME NEW k \in Tree!BufferKeys PROVE buffer[LastOf(buffer, k, b)] = store[Tree!LastWrite(k)]
    <3>1. PICK x \in 1..b : x = LastOf(store, k, b) /\ store[x].key = k
                            /\ \A y \in 1..b : store[y].key = k => y <= x
      BY <2>2, <2>5, LastOfFacts
    <3>2. Tree!LastWrite(k) = x
      <4>1. Tree!LastWrite(k) = LastOf(store, k, b)
        BY Zenon, <1>2, <2>1 DEF Tree!LastWrite, LastOf
      <4>2. QED
        BY Zenon, <3>1, <4>1
    <3>3. PICK i \in 1..b : buffer[i] = store[x]
      BY <1>6
    <3>4. buffer[i].key = k
      BY <3>1, <3>3
    <3>5. ASSUME NEW j \in 1..b, buffer[j].key = k PROVE j <= i
      <4>1. PICK y \in 1..b : buffer[j] = store[y]
        BY <1>6
      <4>2. y <= x
        BY <3>1, <3>5, <4>1
      <4>3. store[y].ver <= store[x].ver
        <5>1. y < x => store[y].ver < store[x].ver
          BY <2>1, <1>2 DEF ByAge
        <5>2. store[x] \in Writes /\ store[y] \in Writes
          BY <2>1, <1>2 DEF ByAge
        <5>3. y = x \/ y < x
          BY <4>2
        <5>4. QED
          BY <5>1, <5>2, <5>3 DEF Writes
      <4>4. buffer[j] \in Writes /\ buffer[i] \in Writes /\ ~Older(buffer[i], buffer[j])
        <5>1. store[x] \in Writes /\ store[y] \in Writes
          BY <2>1, <1>2 DEF ByAge
        <5>2. store[x].key = store[y].key
          BY <3>4, <3>5, <3>3, <4>1
        <5>3. ~Older(store[x], store[y])
          BY <4>3, <5>1, <5>2 DEF Older, Writes
        <5>4. QED
          BY Zenon, <3>3, <4>1, <5>1, <5>3
      <4>5. ~(i < j)
        BY <1>6, <1>8, <4>4
      <4>6. QED
        BY <4>5
    <3>6. LastOf(buffer, k, b) = i
      BY <3>4, <3>5, LastOfFacts
    <3>7. QED
      BY Zenon, <3>2, <3>3, <3>6
  <2>6. QED
    BY Zenon, <2>2, <2>3, <2>4, <2>5
<1>10. \A i, j \in DOMAIN buffer : i < j =>
         \/ buffer[i].key < buffer[j].key
         \/ buffer[i].key = buffer[j].key /\ buffer[i].ver < buffer[j].ver
  BY Zenon, <1>8 DEF Older
<1>11. Len(buffer) = Len(done)
  BY <1>5, <1>6
<1>12. QED
  BY Zenon, <1>4, <1>7, <1>9, <1>10, <1>11 DEF MergedIsStableSort

\* In whatever order the workers finish, the vector the parts are merged into is
\* the stable sort of them, and the map made of it has the last write of each key.
THEOREM SortCorrect == SortSpec => []MergedIsStableSort
<1>1. SortSpec => []SortInv
  BY InitSort, NextSort, PTL DEF SortSpec
<1>2. QED
  BY <1>1, SortInvImplies, PTL
=============================================================================
