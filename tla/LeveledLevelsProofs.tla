--------------------------- MODULE LeveledLevelsProofs ---------------------------
(***************************************************************************)
(* Proofs about LeveledLevels: the blocks of a level stay in key order,    *)
(* a search of a level and a flush that drops blocks are right because of  *)
(* it, and no key is lost on the way down but where the insertion in front *)
(* of a list cuts it off.  For every set of keys and all sizes.            *)
(***************************************************************************)
EXTENDS LeveledLevels, FiniteSetTheorems, TLAPS

\* The lemmas on numbers, orders and lists of levels.
P == INSTANCE TieredTreeProofs WITH MaxWrites <- 0, store <- <<>>, levels <- <<>>,
                                    clock <- 0, last <- <<>>, flushes <- 0

LEMMA SameConstants == /\ Keys \subseteq Int /\ 0 \in Keys /\ P!IsFiniteSet(Keys)
                       /\ BufferSize \in Nat \ {0} /\ LevelRatio \in Nat \ {0, 1}
                       /\ PageSize \in Nat \ {0} /\ 0 \in Nat
BY KeysAssumption, SizeAssumption DEF P!IsFiniteSet, IsFiniteSet

LEMMA SameSizes == \A S : P!Cardinality(S) = Cardinality(S) /\ (P!IsFiniteSet(S) <=> IsFiniteSet(S))
BY Zenon DEF P!Cardinality, Cardinality, P!IsFiniteSet, IsFiniteSet
-----------------------------------------------------------------------------
(* Least and greatest elements, and ranks *)

LEMMA KeysFinite ==
  ASSUME NEW S \in SUBSET Keys
  PROVE  IsFiniteSet(S) /\ Cardinality(S) \in Nat /\ S \subseteq Int
<1>1. IsFiniteSet(S)
  BY KeysAssumption, FS_Subset
<1>2. QED
  BY <1>1, FS_CardinalityType, KeysAssumption

\* The rank of k among the keys of S.
Rank(S, k) == Cardinality({j \in S : j <= k})

\* Ranks number a set of keys from 1, in order.
LEMMA KeyRanks ==
  ASSUME NEW S \in SUBSET Keys
  PROVE  /\ \A k \in S : Rank(S, k) \in 1..Cardinality(S)
         /\ \A k, m \in S : Rank(S, k) < Rank(S, m) <=> k < m
         /\ \A n \in 1..Cardinality(S) : \E k \in S : Rank(S, k) = n
<1>1. IsFiniteSet(S) /\ Cardinality(S) \in Nat /\ S \subseteq Int
  BY KeysFinite
<1>2. P!IsFiniteSet(S)
  BY <1>1, SameSizes
<1>3. /\ \A k \in S : P!Rank(S, k) \in 1..P!Cardinality(S)
      /\ \A k, m \in S : P!Rank(S, k) < P!Rank(S, m) <=> k < m
      /\ \A n \in 1..P!Cardinality(S) : \E k \in S : P!Rank(S, k) = n
  BY <1>1, <1>2, P!KeyRanks, SameConstants
<1>4. P!Cardinality(S) = Cardinality(S) /\ \A k : P!Rank(S, k) = Rank(S, k)
  BY Zenon, SameSizes DEF Rank, P!Rank
<1>5. QED
  BY <1>3, <1>4

LEMMA KeysEmpty == \A S \in SUBSET Keys : Cardinality(S) = 0 <=> S = {}
BY KeysFinite, FS_EmptySet

LEMMA LeastKey ==
  ASSUME NEW S \in SUBSET Keys, S # {}
  PROVE  Least(S) \in S /\ \A k \in S : Least(S) <= k
<1>1. S \subseteq Int /\ Cardinality(S) \in Nat /\ Cardinality(S) # 0
  BY KeysFinite, KeysEmpty
<1>2. 1 \in 1..Cardinality(S)
  BY <1>1
<1>3. PICK m \in S : Rank(S, m) = 1
  BY <1>2, KeyRanks
<1>4. \A k \in S : Rank(S, k) \in 1..Cardinality(S) /\ (Rank(S, k) < Rank(S, m) <=> k < m)
  BY KeyRanks
<1>5. \A k \in S : ~(Rank(S, k) < 1)
  BY <1>1, <1>4
<1>6. \A k \in S : m <= k
  BY <1>1, <1>3, <1>4, <1>5
<1>7. QED
  BY <1>6 DEF Least

LEMMA GreatestKey ==
  ASSUME NEW S \in SUBSET Keys, S # {}
  PROVE  Greatest(S) \in S /\ \A k \in S : k <= Greatest(S)
<1>1. S \subseteq Int /\ Cardinality(S) \in Nat /\ Cardinality(S) # 0
  BY KeysFinite, KeysEmpty
<1>2. Cardinality(S) \in 1..Cardinality(S)
  BY <1>1
<1>3. PICK m \in S : Rank(S, m) = Cardinality(S)
  BY <1>2, KeyRanks
<1>4. \A k \in S : Rank(S, k) \in 1..Cardinality(S) /\ (Rank(S, m) < Rank(S, k) <=> m < k)
  BY KeyRanks
<1>5. \A k \in S : ~(Cardinality(S) < Rank(S, k))
  BY <1>1, <1>4
<1>6. \A k \in S : k <= m
  BY <1>1, <1>3, <1>4, <1>5
<1>7. QED
  BY <1>6 DEF Greatest

LEMMA LeastIndex ==
  ASSUME NEW S, S \subseteq Nat, S # {}
  PROVE  Least(S) \in S /\ \A i \in S : Least(S) <= i
<1>1. \E m \in S : \A n \in S : m <= n
  BY P!LeastNat, SameConstants
<1>2. QED
  BY <1>1 DEF Least
LEMMA LeastOfRange ==
  ASSUME NEW a \in Nat, NEW b \in Int, a <= b
  PROVE  Least(a..b) = a
<1>1. a..b \subseteq Nat /\ a \in a..b /\ \A i \in a..b : a <= i
  OBVIOUS
<1>2. a..b # {}
  BY <1>1
<1> DEFINE D == a..b
<1>3. D \subseteq Nat /\ D # {} /\ a \in D /\ \A i \in D : a <= i
  BY <1>1, <1>2
<1> HIDE DEF D
<1>4. Least(D) \in D /\ Least(D) <= a
  BY <1>3, LeastIndex
<1>5. a <= Least(D) /\ Least(D) \in Nat
  BY <1>3, <1>4
<1>6. Least(D) = a
  BY <1>4, <1>5
<1>7. QED
  BY <1>6 DEF D
-----------------------------------------------------------------------------
(* What loading blocks gives *)

\* What the key an entry was made up for holds.
MadeUpCell == [ver |-> 0, del |-> FALSE]

LEMMA BlockFacts ==
  ASSUME NEW block \in Block
  PROVE  /\ KeysOf(block) \in SUBSET Keys
         /\ \A k \in Keys : k \in KeysOf(block) <=> block[k] # None
         /\ \A k \in Keys : block[k] \in T!Cell \cup {None}
BY DEF Block, T!Run, KeysOf, T!KeysOf, None

LEMMA IsBlock ==
  ASSUME NEW f, f = [k \in Keys |-> f[k]], \A k \in Keys : f[k] \in T!Cell \cup {None}
  PROVE  f \in Block
BY DEF Block, T!Run, None

LEMMA MadeUpFacts == MadeUpCell \in T!Cell /\ MadeUpCell # None
<1>1. PICK zero \in Nat : zero = 0
  OBVIOUS
<1>2. \A n \in Nat, m \in Int : m = -1 => [ver |-> n, del |-> FALSE] \in T!Cell /\ [ver |-> n, del |-> FALSE] # [ver |-> m, del |-> TRUE]
  BY DEF T!Cell
<1>3. QED
  BY <1>1, <1>2 DEF MadeUpCell, None, T!None

LEMMA SizesInTree == \A S : T!Cardinality(S) = Cardinality(S)
BY Zenon DEF T!Cardinality, Cardinality

\* A block with as many keys as a page has entries has a full page.
LEMMA FullPages ==
  ASSUME NEW block \in Block
  PROVE  /\ T!InFullPage(block) \subseteq KeysOf(block)
         /\ ~MakesUp(block) => T!InFullPage(block) # {}
<1> DEFINE S == KeysOf(block)
           c == Cardinality(S)
<1>1. S \in SUBSET Keys /\ c \in Nat
  BY BlockFacts, KeysFinite
<1>2. T!InFullPage(block) = {k \in S : Rank(S, k) <= PageSize * (c \div PageSize)}
  BY Zenon, SizesInTree DEF T!InFullPage, Rank, KeysOf
<1>3. ASSUME ~MakesUp(block) PROVE \E k \in S : Rank(S, k) <= PageSize * (c \div PageSize)
  <2>1. c >= PageSize /\ PageSize \in Nat /\ PageSize # 0
    BY <1>1, <1>3, SizeAssumption DEF MakesUp
  <2>2. PICK q \in Nat : q = c \div PageSize
    BY <1>1, <2>1
  <2>3. c < PageSize * q + PageSize
    BY <1>1, <2>1, <2>2
  <2>4. q # 0
    BY <1>1, <2>1, <2>3
  <2>5. PageSize * q >= 1
    BY <2>1, <2>2, <2>4
  <2>6. 1 \in 1..c
    BY <1>1, <2>1
  <2>7. PICK k \in S : Rank(S, k) = 1
    BY <1>1, <2>6, KeyRanks
  <2>8. QED
    BY <2>2, <2>5, <2>7
<1>4. QED
  BY <1>2, <1>3

LEMMA LoadBlockFacts ==
  ASSUME NEW block \in Block, NEW made \in Keys
  PROVE  /\ LoadBlock(block, made) \in Block
         /\ T!InFullPage(block) \subseteq KeysOf(LoadBlock(block, made))
         /\ \A k \in KeysOf(LoadBlock(block, made)) :
              \/ k \in KeysOf(block) /\ LoadBlock(block, made)[k] = block[k]
              \/ MakesUp(block) /\ LoadBlock(block, made)[k] = MadeUpCell
<1> DEFINE f == LoadBlock(block, made)
           full == T!InFullPage(block)
<1>1. f = [k \in Keys |-> IF k \in full THEN block[k]
                          ELSE IF full = {} /\ k = made THEN MadeUpCell ELSE None]
  BY DEF LoadBlock, MadeUpCell
<1>2. full \subseteq KeysOf(block) /\ (~MakesUp(block) => full # {})
  BY FullPages
<1>3. /\ KeysOf(block) \in SUBSET Keys
      /\ \A k \in Keys : k \in KeysOf(block) <=> block[k] # None
      /\ \A k \in Keys : block[k] \in T!Cell \cup {None}
  BY BlockFacts
<1>4. MadeUpCell \in T!Cell /\ MadeUpCell # None
  BY MadeUpFacts
<1> HIDE DEF f, full
<1>5. f \in Block
  <2>1. f = [k \in Keys |-> f[k]] /\ \A k \in Keys : f[k] \in T!Cell \cup {None}
    BY <1>1, <1>3, <1>4
  <2>2. QED
    BY <2>1, IsBlock
<1>6. \A k \in Keys : k \in KeysOf(f) <=> f[k] # None
  BY <1>5, BlockFacts
<1>7. full \subseteq KeysOf(f)
  BY <1>1, <1>2, <1>3, <1>6
<1>8. KeysOf(f) \subseteq Keys
  BY <1>5, BlockFacts
<1>9. ASSUME NEW k \in KeysOf(f)
      PROVE  \/ k \in KeysOf(block) /\ f[k] = block[k]
             \/ MakesUp(block) /\ f[k] = MadeUpCell
  BY <1>1, <1>2, <1>6, <1>8
<1>10. QED
  BY <1>5, <1>7, <1>9 DEF f, full

\* Keep-first merge of the blocks fam[i], i in I.
FirstOf(I, fam) ==
  LET having(k) == {i \in I : fam[i][k] # None}
  IN  [k \in Keys |-> IF having(k) = {} THEN None ELSE fam[Least(having(k))][k]]

LEMMA FirstOfFacts ==
  ASSUME NEW I \in SUBSET Nat, NEW fam, \A i \in I : fam[i] \in Block
  PROVE  /\ FirstOf(I, fam) \in Block
         /\ \A i \in I : KeysOf(fam[i]) \subseteq KeysOf(FirstOf(I, fam))
         /\ \A k \in KeysOf(FirstOf(I, fam)) :
              \E i \in I : k \in KeysOf(fam[i]) /\ FirstOf(I, fam)[k] = fam[i][k]
<1> DEFINE having(k) == {i \in I : fam[i][k] # None}
           f == FirstOf(I, fam)
<1>1. f = [k \in Keys |-> IF having(k) = {} THEN None ELSE fam[Least(having(k))][k]]
  BY DEF FirstOf
<1>2. ASSUME NEW k \in Keys, having(k) # {} PROVE Least(having(k)) \in having(k)
  BY <1>2, LeastIndex
<1>3. ASSUME NEW k \in Keys, NEW i \in I
      PROVE  /\ k \in KeysOf(fam[i]) <=> i \in having(k)
             /\ fam[i][k] \in T!Cell \cup {None}
  BY BlockFacts
<1>4. \A k \in Keys : having(k) \subseteq I
  OBVIOUS
<1>5. \A k \in Keys : \A i \in having(k) : fam[i][k] # None
  OBVIOUS
<1> HIDE DEF f, having
<1>6. f \in Block
  <2>1. \A k \in Keys : f[k] \in T!Cell \cup {None}
    BY <1>1, <1>2, <1>3, <1>4
  <2>2. f = [k \in Keys |-> f[k]]
    BY <1>1
  <2>3. QED
    BY <2>1, <2>2, IsBlock
<1>7. KeysOf(f) \subseteq Keys /\ \A k \in Keys : k \in KeysOf(f) <=> f[k] # None
  BY <1>6, BlockFacts
<1>8. ASSUME NEW i \in I, NEW k \in KeysOf(fam[i]) PROVE k \in KeysOf(f)
  <2>1. k \in Keys
    BY BlockFacts
  <2>2. having(k) # {}
    BY <1>3, <2>1
  <2>3. f[k] = fam[Least(having(k))][k]
    BY <1>1, <2>1, <2>2
  <2>4. f[k] # None
    BY <1>2, <1>5, <2>1, <2>2, <2>3
  <2>5. QED
    BY <1>7, <2>1, <2>4
<1>9. ASSUME NEW k \in KeysOf(f) PROVE \E i \in I : k \in KeysOf(fam[i]) /\ f[k] = fam[i][k]
  <2>1. k \in Keys /\ f[k] # None
    BY <1>7
  <2>2. having(k) # {} /\ f[k] = fam[Least(having(k))][k]
    BY <1>1, <2>1
  <2>3. Least(having(k)) \in having(k) /\ Least(having(k)) \in I
    BY <1>2, <1>4, <2>1, <2>2
  <2>4. QED
    BY <1>3, <2>1, <2>2, <2>3
<1>10. QED
  BY <1>6, <1>8, <1>9 DEF f

\* Loading blocks of a list: every key of a full page is loaded, and what is
\* loaded is an entry of one of them or the one made up.
LEMMA LoadBlocksFacts ==
  ASSUME NEW chain, NEW I \in SUBSET Nat, \A i \in I : chain[i] \in Block, NEW made \in Keys
  PROVE  /\ LoadBlocks(chain, I, made) \in Block
         /\ \A i \in I : T!InFullPage(chain[i]) \subseteq KeysOf(LoadBlocks(chain, I, made))
         /\ \A k \in KeysOf(LoadBlocks(chain, I, made)) :
              \E i \in I :
                \/ k \in KeysOf(chain[i]) /\ LoadBlocks(chain, I, made)[k] = chain[i][k]
                \/ MakesUp(chain[i]) /\ LoadBlocks(chain, I, made)[k] = MadeUpCell
<1> DEFINE loaded == [i \in I |-> LoadBlock(chain[i], made)]
           f == LoadBlocks(chain, I, made)
<1>1. f = FirstOf(I, loaded)
  BY Zenon DEF LoadBlocks, FirstOf
<1>2. \A i \in I : loaded[i] = LoadBlock(chain[i], made)
  OBVIOUS
<1>3. \A i \in I : loaded[i] \in Block
  BY <1>2, LoadBlockFacts
<1>4. \A i \in I : /\ T!InFullPage(chain[i]) \subseteq KeysOf(loaded[i])
                   /\ \A k \in KeysOf(loaded[i]) :
                        \/ k \in KeysOf(chain[i]) /\ loaded[i][k] = chain[i][k]
                        \/ MakesUp(chain[i]) /\ loaded[i][k] = MadeUpCell
  <2> HIDE DEF loaded
  <2>1. QED
    BY <1>2, LoadBlockFacts
<1> HIDE DEF f, loaded
<1>5. /\ f \in Block
      /\ \A i \in I : KeysOf(loaded[i]) \subseteq KeysOf(f)
      /\ \A k \in KeysOf(f) : \E i \in I : k \in KeysOf(loaded[i]) /\ f[k] = loaded[i][k]
  <2>1. /\ FirstOf(I, loaded) \in Block
        /\ \A i \in I : KeysOf(loaded[i]) \subseteq KeysOf(FirstOf(I, loaded))
        /\ \A k \in KeysOf(FirstOf(I, loaded)) :
             \E i \in I : k \in KeysOf(loaded[i]) /\ FirstOf(I, loaded)[k] = loaded[i][k]
    BY <1>3, FirstOfFacts
  <2>2. QED
    BY Zenon, <1>1, <2>1
<1>6. QED
  <2>1. \A i \in I : T!InFullPage(chain[i]) \subseteq KeysOf(f)
    BY <1>4, <1>5
  <2>2. \A k \in KeysOf(f) : \E i \in I : \/ k \in KeysOf(chain[i]) /\ f[k] = chain[i][k]
                                          \/ MakesUp(chain[i]) /\ f[k] = MadeUpCell
    <3>1. ASSUME NEW k \in KeysOf(f)
          PROVE  \E i \in I : \/ k \in KeysOf(chain[i]) /\ f[k] = chain[i][k]
                              \/ MakesUp(chain[i]) /\ f[k] = MadeUpCell
      <4>1. PICK i \in I : k \in KeysOf(loaded[i]) /\ f[k] = loaded[i][k]
        BY <1>5
      <4>2. QED
        BY <1>4, <4>1
    <3>2. QED
      BY <3>1
  <2>3. QED
    BY <1>5, <2>1, <2>2 DEF f
-----------------------------------------------------------------------------
(* The receiver and the blocks that are written *)

\* The first level that is not too large, or a new one, receives.
LEMMA ReceiverFacts ==
  ASSUME NEW S, leveled \in Seq(S)
  PROVE  /\ Receiver \in 1..Len(leveled) + 1
         /\ \A j \in 1..Receiver - 1 : TooLarge(j)
         /\ Receiver = Len(leveled) + 1 \/ ~TooLarge(Receiver)
<1> DEFINE large == {j \in 1..Len(leveled) : TooLarge(j)}
<1>1. Len(leveled) \in Nat
  OBVIOUS
<1>2. \A i \in 1..Len(leveled) + 1 :
        P!Takes(i, Len(leveled), large) <=> /\ \A j \in 1..i - 1 : TooLarge(j)
                                            /\ i = Len(leveled) + 1 \/ ~TooLarge(i)
  BY <1>1 DEF P!Takes
<1>3. \E i \in 1..Len(leveled) + 1 : P!Takes(i, Len(leveled), large)
  BY <1>1, P!OneTakes, SameConstants
<1> HIDE DEF large
<1>4. PICK i \in 1..Len(leveled) + 1 : /\ \A j \in 1..i - 1 : TooLarge(j)
                                       /\ i = Len(leveled) + 1 \/ ~TooLarge(i)
  BY <1>2, <1>3
<1>5. QED
  BY <1>4 DEF Receiver

LEMMA EntriesFacts == \A i \in Nat \ {0} : BlockEntries(i) \in Nat /\ BlockEntries(i) > 0
<1> SUFFICES ASSUME NEW i \in Nat \ {0} PROVE BlockEntries(i) \in Nat /\ BlockEntries(i) > 0
  OBVIOUS
<1>1. /\ LazyCutOff \in Nat /\ LazyCutOff > 0 /\ Partitions \in Nat /\ Partitions > 0
      /\ BufferSize \in Nat
  BY SizeAssumption
<1>2. MaxSize(i) \in Nat /\ MaxSize(i) > 0
  <2>1. CASE i = 1
    BY <1>1, <2>1 DEF MaxSize
  <2>2. CASE i # 1
    <3>1. PICK above \in Nat : above = LazyCutOff + (i - 1) - 1
      BY <1>1, <2>2
    <3>2. above > 0
      BY <1>1, <2>2, <3>1
    <3>3. Partitions * above \in Nat /\ Partitions * above > 0
      BY <1>1, <3>2
    <3>4. QED
      BY <2>2, <3>1, <3>3 DEF MaxSize, Level
  <2>3. QED
    BY <2>1, <2>2
<1>3. Level(i) + 1 \in Nat
  BY <1>1 DEF Level
<1>4. T!Power[Level(i) + 1] \in Nat
  <2>1. \A n \in Nat : P!Power[n] \in Nat
    BY P!PowerFacts, SameConstants
  <2>2. T!Power = P!Power
    BY Zenon DEF T!Power, P!Power
  <2>3. QED
    BY <1>3, <2>1, <2>2
<1>5. \A p \in Nat, m \in Nat \ {0} : (p * BufferSize) \div m + 1 \in Nat /\ (p * BufferSize) \div m + 1 > 0
  <2>1. \A q \in Nat, m \in Nat \ {0} : q \div m + 1 \in Nat /\ q \div m + 1 > 0
    OBVIOUS
  <2>2. \A p \in Nat : p * BufferSize \in Nat
    BY <1>1
  <2>3. QED
    BY <2>1, <2>2
<1>6. QED
  BY <1>2, <1>4, <1>5 DEF BlockEntries

\* All keys of S are below all of R.
Below(S, R) == \A k \in S, m \in R : k < m

Ordered(chain) == \A i, j \in DOMAIN chain : i < j => Below(KeysOf(chain[i]), KeysOf(chain[j]))

Filled(chain) == \A i \in DOMAIN chain : KeysOf(chain[i]) # {}

LEMMA Divided ==
  ASSUME NEW n \in Nat \ {0}
  PROVE  /\ \A a \in Nat : a \div n \in Nat /\ n * (a \div n) <= a /\ a < n * (a \div n) + n
         /\ \A a, b \in Nat : a <= b => a \div n <= b \div n
         /\ \A a \in Nat : n * a \in Nat /\ (n * a) \div n = a
<1>1. \A a \in Nat : a \div n \in Nat /\ n * (a \div n) <= a /\ a < n * (a \div n) + n
  OBVIOUS
<1>2. \A a, b \in Nat : a <= b => a \div n <= b \div n
  OBVIOUS
<1>3. \A a \in Nat : n * a \in Nat /\ (n * a) \div n = a
  OBVIOUS
<1>4. QED
  BY <1>1, <1>2, <1>3

LEMMA IsList ==
  ASSUME NEW N \in Nat, NEW S, NEW f, f = [i \in 1..N |-> f[i]], \A i \in 1..N : f[i] \in S
  PROVE  f \in Seq(S) /\ Len(f) = N /\ DOMAIN f = 1..N
<1>1. f \in [1..N -> S]
  OBVIOUS
<1>2. QED
  BY <1>1

\* The written blocks hold the content, in order.
LEMMA CutFacts ==
  ASSUME NEW S, leveled \in Seq(S), NEW content \in Block
  PROVE  /\ Cut(content) \in Seq(Block) /\ Len(Cut(content)) >= 1
         /\ Ordered(Cut(content))
         /\ ~CutsEmptyBlock(content) => Filled(Cut(content))
         /\ \A k \in KeysOf(content) : \E b \in DOMAIN Cut(content) : k \in KeysOf(Cut(content)[b])
         /\ \A b \in DOMAIN Cut(content) : \A k \in KeysOf(Cut(content)[b]) :
              k \in KeysOf(content) /\ Cut(content)[b][k] = content[k]
<1> DEFINE n == BlockEntries(Receiver)
           R == KeysOf(content)
           c == Cardinality(R)
           page(b) == [k \in Keys |-> IF content[k] # None /\ (Rank(R, k) - 1) \div n = b - 1
                                      THEN content[k] ELSE None]
           f == Cut(content)
<1>1. n \in Nat \ {0}
  <2>1. Receiver \in Nat \ {0}
    BY ReceiverFacts
  <2>2. QED
    BY <2>1, EntriesFacts
<1>2. R \in SUBSET Keys /\ c \in Nat
  BY BlockFacts, KeysFinite
<1>3. f = [b \in 1..c \div n + 1 |-> page(b)]
  BY Zenon DEF Cut, Rank
<1>4. c \div n \in Nat
  BY <1>1, <1>2, Divided
<1>5. /\ \A k \in R : Rank(R, k) \in 1..c
      /\ \A k, m \in R : Rank(R, k) < Rank(R, m) <=> k < m
      /\ \A r \in 1..c : \E k \in R : Rank(R, k) = r
  BY <1>2, KeyRanks
<1>6. /\ \A k \in Keys : k \in R <=> content[k] # None
      /\ \A k \in Keys : content[k] \in T!Cell \cup {None}
  BY BlockFacts
<1>7. ASSUME NEW b \in 1..c \div n + 1
      PROVE  /\ f[b] \in Block
             /\ \A k \in Keys : k \in KeysOf(f[b]) <=> k \in R /\ (Rank(R, k) - 1) \div n = b - 1
             /\ \A k \in KeysOf(f[b]) : k \in R /\ f[b][k] = content[k]
  <2>1. f[b] = page(b)
    BY <1>3
  <2>2. page(b) \in Block
    <3> DEFINE g == page(b)
    <3>1. g = [k \in Keys |-> g[k]] /\ \A k \in Keys : g[k] \in T!Cell \cup {None}
      BY <1>6
    <3> HIDE DEF g
    <3>2. g \in Block
      BY <3>1, IsBlock
    <3>3. QED
      BY <3>2 DEF g
  <2>3. \A k \in Keys : page(b)[k] = IF content[k] # None /\ (Rank(R, k) - 1) \div n = b - 1
                                     THEN content[k] ELSE None
    OBVIOUS
  <2> HIDE DEF f, page, R, n
  <2>4. /\ KeysOf(f[b]) \subseteq Keys
        /\ \A k \in Keys : k \in KeysOf(f[b]) <=> f[b][k] # None
    BY <2>1, <2>2, BlockFacts
  <2>5. QED
    BY <1>6, <2>1, <2>2, <2>3, <2>4
<1> HIDE DEF f, page, n, R, c
<1>8. f \in Seq(Block) /\ Len(f) = c \div n + 1 /\ DOMAIN f = 1..c \div n + 1
  <2>1. PICK N \in Nat : N = c \div n + 1
    BY <1>4
  <2>2. f = [b \in 1..N |-> f[b]] /\ \A b \in 1..N : f[b] \in Block
    BY <1>3, <1>7, <2>1
  <2>3. f \in Seq(Block) /\ Len(f) = N /\ DOMAIN f = 1..N
    BY <2>2, IsList
  <2>4. QED
    BY <2>1, <2>3
<1>9. \A k \in R : Rank(R, k) - 1 \in Nat /\ Rank(R, k) - 1 <= c
  BY <1>2, <1>5
<1>10. ASSUME NEW k \in R PROVE \E b \in 1..c \div n + 1 : k \in KeysOf(f[b])
  <2>1. PICK r \in Nat : r = Rank(R, k) - 1 /\ r <= c
    BY <1>9
  <2>2. r \div n \in Nat /\ r \div n <= c \div n
    BY <1>1, <1>2, <2>1, Divided
  <2>3. r \div n + 1 \in 1..c \div n + 1 /\ r \div n + 1 - 1 = r \div n
    BY <1>4, <2>2
  <2>4. PICK b \in 1..c \div n + 1 : r \div n = b - 1
    <3>1. \A x \in Nat : x + 1 \in 1..c \div n + 1 => \E b \in 1..c \div n + 1 : x = b - 1
      <4>1. SUFFICES ASSUME NEW x \in Nat, x + 1 \in 1..c \div n + 1
                     PROVE  \E b \in 1..c \div n + 1 : x = b - 1
        OBVIOUS
      <4>2. PICK b : b = x + 1
        OBVIOUS
      <4>3. b \in 1..c \div n + 1
        BY Zenon, <4>1, <4>2
      <4>4. x = b - 1
        BY <4>2
      <4>5. QED
        BY Zenon, <4>3, <4>4
    <3>2. QED
      BY Zenon, <2>2, <2>3, <3>1
  <2>5. k \in Keys
    BY <1>2
  <2>6. (Rank(R, k) - 1) \div n = b - 1
    BY <2>1, <2>4
  <2>7. k \in KeysOf(f[b])
    BY Zenon, <1>7, <2>5, <2>6
  <2>8. QED
    BY <2>7
<1>11. ASSUME NEW a \in 1..c \div n + 1, NEW b \in 1..c \div n + 1, a < b,
              NEW k \in KeysOf(f[a]), NEW m \in KeysOf(f[b])
       PROVE  k < m
  <2>1. k \in R /\ m \in R /\ k \in Keys /\ m \in Keys
    BY <1>2, <1>7
  <2>2. (Rank(R, k) - 1) \div n = a - 1 /\ (Rank(R, m) - 1) \div n = b - 1
    BY <1>7, <2>1
  <2>3. PICK r \in Nat : r = Rank(R, k) - 1
    BY <1>9, <2>1
  <2>4. PICK q \in Nat : q = Rank(R, m) - 1
    BY <1>9, <2>1
  <2>5. ~(q <= r)
    <3>1. q <= r => q \div n <= r \div n
      BY <1>1, Divided
    <3>2. ~(b - 1 <= a - 1)
      BY <1>4, <1>11
    <3>3. QED
      BY <2>2, <2>3, <2>4, <3>1, <3>2
  <2>6. Rank(R, k) < Rank(R, m)
    <3>1. Rank(R, k) \in Nat /\ Rank(R, m) \in Nat
      BY <1>2, <1>5, <2>1
    <3>2. QED
      BY <2>3, <2>4, <2>5, <3>1
  <2>7. QED
    BY <1>5, <2>1, <2>6
<1>12. ASSUME ~CutsEmptyBlock(content), NEW b \in 1..c \div n + 1 PROVE KeysOf(f[b]) # {}
  <2>1. c % n # 0
    BY <1>12 DEF CutsEmptyBlock, c, n, R
  <2>2. PICK q \in Nat : q = c \div n
    BY <1>4
  <2>3. n * q < c
    <3>1. \A x \in Nat : x % n = x - n * (x \div n) /\ n * (x \div n) <= x
      BY <1>1
    <3>2. n * q \in Nat /\ n * q <= c /\ c % n = c - n * q
      <4>1. \A y \in Nat : n * y \in Nat
        BY <1>1
      <4>2. QED
        BY <1>2, <2>2, <3>1, <4>1
    <3>3. QED
      BY <1>2, <2>1, <3>2
  <2>4. PICK d \in Nat : d = b - 1
    BY <1>4
  <2>5. d <= q
    BY <2>2, <2>4
  <2>6. n * d \in Nat /\ n * d <= n * q /\ (n * d) \div n = d
    <3>1. n * d \in Nat /\ (n * d) \div n = d
      BY <1>1, Divided
    <3>2. n * d <= n * q
      BY <1>1, <2>5
    <3>3. QED
      BY <3>1, <3>2
  <2>7. PICK e \in Nat : e = n * d
    BY <2>6
  <2>8. e + 1 \in 1..c /\ e + 1 - 1 = e
    <3>1. n * q \in Nat
      BY <1>1
    <3>2. e <= n * q
      BY <2>6, <2>7
    <3>3. QED
      BY <1>2, <2>3, <3>1, <3>2
  <2>9. PICK k \in R : Rank(R, k) = e + 1
    BY <1>5, <2>8
  <2>10. (Rank(R, k) - 1) \div n = b - 1
    BY <2>4, <2>6, <2>7, <2>8, <2>9
  <2>11. k \in KeysOf(f[b])
    BY <1>2, <1>7, <2>10
  <2>12. QED
    BY <2>11
<1>13. Len(f) >= 1
  BY <1>4, <1>8
<1>14. Ordered(f)
  BY <1>8, <1>11 DEF Ordered, Below
<1>15. ~CutsEmptyBlock(content) => Filled(f)
  BY <1>8, <1>12 DEF Filled
<1>16. QED
  BY <1>7, <1>8, <1>10, <1>13, <1>14, <1>15 DEF f, R
-----------------------------------------------------------------------------
(* The levels above the receiver *)

LEMMA ThresholdType == \A i \in Nat \ {0} : Threshold(i) \in Nat
<1> SUFFICES ASSUME NEW i \in Nat \ {0} PROVE Threshold(i) \in Nat
  OBVIOUS
<1>1. LazyCutOff \in Nat /\ LazyCutOff > 0 /\ Partitions \in Nat
  BY SizeAssumption
<1>2. MaxSize(i) \in Nat
  <2>1. CASE i = 1
    BY <1>1, <2>1 DEF MaxSize
  <2>2. CASE i # 1
    <3>1. PICK above \in Nat : above = LazyCutOff + (i - 1) - 1
      BY <1>1, <2>2
    <3>2. Partitions * above \in Nat
      BY <1>1
    <3>3. QED
      BY <2>2, <3>1, <3>2 DEF MaxSize, Level
  <2>3. QED
    BY <2>1, <2>2
<1>3. \A m \in Nat : (m * 2) \div 3 \in Nat
  OBVIOUS
<1>4. QED
  BY <1>2, <1>3 DEF Threshold

\* The block behind which a flush drops blocks.
FrontOf(start) == IF start > 1 THEN start ELSE 1

\* A level that is too large has more blocks than it may have.  What is flushed
\* lies in its list, behind the first block.
LEMMA FlushShape ==
  ASSUME NEW S, leveled \in Seq(Seq(S)), NEW i \in DOMAIN leveled, TooLarge(i),
         Threshold(i) > 0, NEW start \in 0..Threshold(i)
  PROVE  /\ Threshold(i) \in Nat /\ Len(leveled[i]) \in Nat /\ Threshold(i) < Len(leveled[i])
         /\ FrontOf(start) \in 1..Threshold(i)
         /\ Flushed(i, start) =
              FrontOf(start) + 1 .. FrontOf(start) + Len(leveled[i]) - Threshold(i)
         /\ Flushed(i, start) \subseteq 2..Len(leveled[i])
         /\ Least(Flushed(i, start)) = FrontOf(start) + 1
<1>1. i \in Nat \ {0} /\ leveled[i] \in Seq(S)
  OBVIOUS
<1>2. Threshold(i) \in Nat /\ Len(leveled[i]) \in Nat
  BY <1>1, ThresholdType
<1>3. leveled[i] # <<>>
  BY <1>2 DEF TooLarge, ListSize
<1>4. ListSize(leveled[i]) = Len(leveled[i]) /\ Threshold(i) < Len(leveled[i])
  BY <1>2, <1>3 DEF TooLarge, ListSize
<1>5. FrontOf(start) \in 1..Threshold(i)
  BY <1>2 DEF FrontOf
<1>6. Flushed(i, start) = FrontOf(start) + 1 .. FrontOf(start) + Len(leveled[i]) - Threshold(i)
  BY <1>4 DEF Flushed, FrontOf
<1>7. PICK f \in Nat : f = FrontOf(start) /\ f >= 1 /\ f <= Threshold(i)
  BY <1>2, <1>5
<1>8. PICK t \in Nat : t = Threshold(i)
  BY <1>2
<1>9. PICK n \in Nat : n = Len(leveled[i])
  BY <1>2
<1>10. Flushed(i, start) = f + 1 .. f + n - t
  BY <1>6, <1>7, <1>8, <1>9
<1>11. f + 1 .. f + n - t \subseteq 2..n
  BY <1>7, <1>8
<1>12. Least(f + 1 .. f + n - t) = f + 1
  <2>1. f + 1 <= f + n - t /\ f + n - t \in Int
    BY <1>4, <1>8, <1>9
  <2>2. QED
    BY <2>1, LeastOfRange
<1>13. QED
  BY <1>2, <1>4, <1>5, <1>6, <1>7, <1>9, <1>10, <1>11, <1>12

\* When no flush ends the process, every level above the receiver may have a
\* block.
LEMMA FlushRoom ==
  ASSUME NEW S, leveled \in Seq(Seq(S)), NEW starts \in Starts, ~FlushEnds(starts),
         NEW i \in 1..Receiver - 1
  PROVE  /\ i \in DOMAIN leveled /\ TooLarge(i) /\ Threshold(i) > 0
         /\ starts[i] \in 0..Threshold(i)
<1>1. /\ Receiver \in 1..Len(leveled) + 1 /\ TooLarge(i)
      /\ Len(leveled) \in Nat /\ DOMAIN leveled = 1..Len(leveled)
  BY ReceiverFacts
<1>2. i \in DOMAIN leveled /\ i \in Nat \ {0} /\ leveled[i] \in Seq(S) /\ Receiver \in Nat \ {0}
  BY <1>1
<1>3. Threshold(i) \in Nat /\ Threshold(Receiver) \in Nat /\ Len(leveled[i]) \in Nat
  BY <1>2, ThresholdType
<1>4. DOMAIN starts = 1..Receiver - 1 /\ starts[i] \in Nat /\ starts[i] <= Threshold(i)
  <2> DEFINE D == 1..Receiver - 1
             V == 0..Threshold(Receiver)
  <2>1. starts \in [D -> V] /\ \A m \in DOMAIN starts : starts[m] <= Threshold(m)
    BY Zenon DEF Starts
  <2>2. i \in D /\ V \subseteq Nat
    BY <1>3
  <2> HIDE DEF D, V
  <2>3. DOMAIN starts = D /\ starts[i] \in V
    BY <2>1, <2>2
  <2>4. starts[i] <= Threshold(i)
    BY Zenon, <2>1, <2>2, <2>3
  <2>5. QED
    BY <2>2, <2>3, <2>4 DEF D
<1>5. Flushed(i, starts[i]) \subseteq DOMAIN leveled[i]
  BY <1>4 DEF FlushEnds
<1>6. ASSUME Threshold(i) = 0 PROVE FALSE
  <2>1. PICK n \in Nat : n = ListSize(leveled[i])
    BY <1>3 DEF ListSize
  <2>2. n >= 1 /\ n >= Len(leveled[i])
    BY <1>2, <1>3, <2>1 DEF ListSize
  <2>3. Flushed(i, starts[i]) = 1 + 1 .. 1 + n - 0
    BY <1>4, <1>6, <2>1 DEF Flushed
  <2>4. n + 1 \in Flushed(i, starts[i])
    BY <2>2, <2>3
  <2>5. n + 1 \in 1..Len(leveled[i])
    BY <1>2, <1>5, <2>4
  <2>6. QED
    BY <1>3, <2>2, <2>5
<1>7. QED
  BY <1>1, <1>2, <1>3, <1>4, <1>6

\* What is left of a level: its blocks in their order, but those flushed.
LEMMA KeptFacts ==
  ASSUME NEW S, leveled \in Seq(Seq(S)), NEW i \in DOMAIN leveled, TooLarge(i),
         Threshold(i) > 0, NEW start \in 0..Threshold(i)
  PROVE  /\ Kept(i, start) \in Seq(S)
         /\ Filled(leveled[i]) => Filled(Kept(i, start))
         /\ Ordered(leveled[i]) => Ordered(Kept(i, start))
         /\ \A j \in DOMAIN Kept(i, start) : \E m \in DOMAIN leveled[i] : Kept(i, start)[j] = leveled[i][m]
         /\ \A m \in DOMAIN leveled[i] :
              m \in Flushed(i, start) \/ \E j \in DOMAIN Kept(i, start) : Kept(i, start)[j] = leveled[i][m]
<1> DEFINE chain == leveled[i]
           f == Kept(i, start)
<1>1. /\ Threshold(i) \in Nat /\ Len(chain) \in Nat /\ Threshold(i) < Len(chain)
      /\ FrontOf(start) \in 1..Threshold(i)
      /\ Flushed(i, start) = FrontOf(start) + 1 .. FrontOf(start) + Len(chain) - Threshold(i)
      /\ Least(Flushed(i, start)) = FrontOf(start) + 1
  BY FlushShape
<1>2. PICK t \in Nat : t = Threshold(i)
  BY <1>1
<1>3. PICK n \in Nat : n = Len(chain) - Threshold(i)
  BY <1>1
<1>4. PICK b \in Nat : b = FrontOf(start)
  BY <1>1
<1>5. b >= 1 /\ b <= t /\ n >= 1
  BY <1>1, <1>2, <1>3, <1>4
<1>6. chain \in Seq(S) /\ DOMAIN chain = 1..t + n
  BY <1>1, <1>2, <1>3
<1>7. Flushed(i, start) = b + 1 .. b + n
  <2>1. b + n = FrontOf(start) + Len(chain) - Threshold(i)
    BY <1>1, <1>3, <1>4
  <2>2. QED
    BY <1>1, <1>4, <2>1
<1> DEFINE shift(j) == IF j < b + 1 THEN j ELSE j + n
<1>8. f = [j \in 1..t |-> chain[shift(j)]]
  BY <1>1, <1>2, <1>3, <1>4 DEF Kept
<1> HIDE DEF chain, f
<1>9. \A j \in 1..t : shift(j) \in 1..t + n
  BY <1>5
<1>10. \A j, m \in 1..t : j < m => shift(j) < shift(m)
  OBVIOUS
<1>11. \A m \in 1..t + n : m \in b + 1 .. b + n \/ \E j \in 1..t : shift(j) = m
  <2>1. ASSUME NEW m \in 1..t + n, m \notin b + 1 .. b + n PROVE \E j \in 1..t : shift(j) = m
    <3>1. CASE m <= b
      <4>1. m \in 1..t /\ shift(m) = m
        BY <1>5, <3>1
      <4>2. QED
        BY <4>1
    <3>2. CASE m > b + n
      <4>1. m - n \in 1..t /\ shift(m - n) = m
        BY <1>5, <3>2
      <4>2. QED
        BY <4>1
    <3>3. QED
      BY <2>1, <3>1, <3>2
  <2>2. QED
    BY <2>1
<1> HIDE DEF shift
<1>12. \A j \in 1..t : f[j] = chain[shift(j)] /\ f[j] \in S
  <2>1. \A m \in DOMAIN chain : chain[m] \in S
    BY <1>6
  <2>2. \A j \in 1..t : f[j] = chain[shift(j)]
    BY <1>8
  <2>3. QED
    BY <1>6, <1>9, <2>1, <2>2
<1>13. f \in Seq(S) /\ DOMAIN f = 1..t
  <2>1. f = [j \in 1..t |-> f[j]]
    BY <1>8
  <2>2. f \in Seq(S) /\ Len(f) = t /\ DOMAIN f = 1..t
    BY <1>12, <2>1, IsList
  <2>3. QED
    BY <2>2
<1>14. Filled(chain) => Filled(f)
  BY <1>6, <1>9, <1>12, <1>13 DEF Filled
<1>15. ASSUME Ordered(chain) PROVE Ordered(f)
  <2>1. ASSUME NEW j \in 1..t, NEW m \in 1..t, j < m PROVE Below(KeysOf(f[j]), KeysOf(f[m]))
    <3>1. shift(j) \in DOMAIN chain /\ shift(m) \in DOMAIN chain /\ shift(j) < shift(m)
      BY <1>6, <1>9, <1>10, <2>1
    <3>2. Below(KeysOf(chain[shift(j)]), KeysOf(chain[shift(m)]))
      BY <1>15, <3>1 DEF Ordered
    <3>3. f[j] = chain[shift(j)] /\ f[m] = chain[shift(m)]
      BY <1>12
    <3>4. QED
      BY <3>2, <3>3
  <2>2. QED
    BY <1>13, <2>1 DEF Ordered
<1>16. \A j \in DOMAIN f : \E m \in DOMAIN chain : f[j] = chain[m]
  BY <1>6, <1>9, <1>12, <1>13
<1>17. \A m \in DOMAIN chain : m \in Flushed(i, start) \/ \E j \in DOMAIN f : f[j] = chain[m]
  BY <1>6, <1>7, <1>11, <1>12, <1>13
<1>18. QED
  BY <1>13, <1>14, <1>15, <1>16, <1>17 DEF chain, f
-----------------------------------------------------------------------------
(* Lists of blocks *)

Members(chain) == {chain[j] : j \in DOMAIN chain}

LEMMA Joined ==
  ASSUME NEW S, NEW a \in Seq(S), NEW b \in Seq(S)
  PROVE  /\ a \o b \in Seq(S) /\ Members(a \o b) = Members(a) \cup Members(b)
         /\ Filled(a) /\ Filled(b) => Filled(a \o b)
         /\ /\ Ordered(a) /\ Ordered(b)
            /\ \A x \in Members(a), y \in Members(b) : Below(KeysOf(x), KeysOf(y))
            => Ordered(a \o b)
<1> DEFINE n == Len(a)
           m == Len(b)
           f == a \o b
<1>1. n \in Nat /\ m \in Nat /\ DOMAIN a = 1..n /\ DOMAIN b = 1..m
  OBVIOUS
<1>2. /\ f \in Seq(S) /\ DOMAIN f = 1..n + m
      /\ \A j \in 1..n : f[j] = a[j]
      /\ \A j \in 1..n + m : j > n => f[j] = b[j - n]
  OBVIOUS
<1>0. n \in Nat /\ m \in Nat
  OBVIOUS
<1> HIDE DEF f, n, m
<1>3. \A j \in 1..n + m : j \in 1..n \/ (j > n /\ j - n \in 1..m)
  BY <1>0
<1>4. \A j \in 1..m : j + n \in 1..n + m /\ j + n > n /\ j + n - n = j
  BY <1>0
<1>5. \A j \in 1..n : j \in 1..n + m
  BY <1>1
<1>6. ASSUME NEW j \in 1..m PROVE f[j + n] = b[j]
  <2>1. \A i \in 1..n + m : i > n => f[i] = b[i - n]
    BY <1>2
  <2>2. PICK i \in 1..n + m : i = j + n /\ i > n /\ i - n = j
    <3>1. j + n \in 1..n + m /\ j + n > n /\ j + n - n = j
      BY <1>0
    <3>2. QED
      BY <1>0, <3>1
  <2>3. QED
    BY <2>1, <2>2
<1>7. Members(f) = Members(a) \cup Members(b)
  <2>1. ASSUME NEW j \in DOMAIN f PROVE f[j] \in Members(a) \cup Members(b)
    BY <1>1, <1>2, <1>3 DEF Members
  <2>2. ASSUME NEW j \in DOMAIN a PROVE a[j] \in Members(f)
    <3>1. j \in DOMAIN f /\ f[j] = a[j]
      BY <1>1, <1>2, <1>5
    <3>2. QED
      BY <3>1 DEF Members
  <2>3. ASSUME NEW j \in DOMAIN b PROVE b[j] \in Members(f)
    <3>1. j + n \in DOMAIN f /\ f[j + n] = b[j]
      BY <1>1, <1>2, <1>4, <1>6
    <3>2. QED
      BY <3>1 DEF Members
  <2>4. QED
    BY <2>1, <2>2, <2>3 DEF Members
<1>8. ASSUME Filled(a), Filled(b) PROVE Filled(f)
  BY <1>1, <1>2, <1>3, <1>8 DEF Filled
<1>9. ASSUME Ordered(a), Ordered(b),
             \A x \in Members(a), y \in Members(b) : Below(KeysOf(x), KeysOf(y))
      PROVE  Ordered(f)
  <2>1. SUFFICES ASSUME NEW i \in 1..n + m, NEW j \in 1..n + m, i < j
                 PROVE  Below(KeysOf(f[i]), KeysOf(f[j]))
    BY <1>2 DEF Ordered
  <2>2. CASE j \in 1..n
    <3>1. i \in 1..n
      BY <1>1, <2>1, <2>2
    <3>2. f[i] = a[i] /\ f[j] = a[j]
      BY <1>2, <2>2, <3>1
    <3>3. Below(KeysOf(a[i]), KeysOf(a[j]))
      BY <1>1, <1>9, <2>1, <2>2, <3>1 DEF Ordered
    <3>4. QED
      BY <3>2, <3>3
  <2>3. CASE i > n
    <3>1. i - n \in 1..m /\ j - n \in 1..m /\ i - n < j - n /\ j > n
      BY <1>1, <2>1, <2>3
    <3>2. f[i] = b[i - n] /\ f[j] = b[j - n]
      BY <1>2, <2>3, <3>1
    <3>3. Below(KeysOf(b[i - n]), KeysOf(b[j - n]))
      BY <1>1, <1>9, <3>1 DEF Ordered
    <3>4. QED
      BY <3>2, <3>3
  <2>4. CASE i \in 1..n /\ j > n
    <3>1. j - n \in 1..m
      BY <1>1, <2>4
    <3>2. f[i] = a[i] /\ f[j] = b[j - n]
      BY <1>2, <2>4
    <3>3. a[i] \in Members(a) /\ b[j - n] \in Members(b)
      BY <1>1, <2>4, <3>1 DEF Members
    <3>4. QED
      BY <1>9, <3>2, <3>3
  <2>5. QED
    BY <1>1, <1>3, <2>2, <2>3, <2>4
<1>10. QED
  BY <1>2, <1>7, <1>8, <1>9 DEF f

\* A part of a list.
LEMMA Part ==
  ASSUME NEW S, NEW chain \in Seq(S), NEW a \in Nat \ {0}, NEW b \in Nat, b <= Len(chain)
  PROVE  /\ SubSeq(chain, a, b) \in Seq(S)
         /\ Members(SubSeq(chain, a, b)) = {chain[j] : j \in a..b}
         /\ Filled(chain) => Filled(SubSeq(chain, a, b))
         /\ Ordered(chain) => Ordered(SubSeq(chain, a, b))
<1> DEFINE f == SubSeq(chain, a, b)
           n == IF a <= b THEN b - a + 1 ELSE 0
<1>1. Len(chain) \in Nat /\ DOMAIN chain = 1..Len(chain) /\ n \in Nat
  OBVIOUS
<1>2. f = [j \in 1..n |-> chain[a + j - 1]]
  <2>1. 1..n = 1..(1 + b - a)
    OBVIOUS
  <2>2. QED
    BY <2>1
<1> HIDE DEF f
<1>3. \A j \in 1..n : a + j - 1 \in a..b /\ a + j - 1 \in 1..Len(chain)
  BY <1>1
<1>4. \A j \in a..b : j - a + 1 \in 1..n /\ a + (j - a + 1) - 1 = j
  OBVIOUS
<1> HIDE DEF n
<1>5. \A j \in DOMAIN chain : chain[j] \in S
  OBVIOUS
<1>6. f \in Seq(S) /\ DOMAIN f = 1..n
  <2>1. f = [j \in 1..n |-> f[j]] /\ \A j \in 1..n : f[j] \in S
    BY <1>1, <1>2, <1>3, <1>5
  <2>2. f \in Seq(S) /\ Len(f) = n /\ DOMAIN f = 1..n
    BY <1>1, <2>1, IsList
  <2>3. QED
    BY <2>2
<1>7. \A j \in 1..n : f[j] = chain[a + j - 1]
  BY <1>2
<1>8. Members(f) = {chain[j] : j \in a..b}
  <2>1. \A j \in DOMAIN f : f[j] \in {chain[i] : i \in a..b}
    BY <1>3, <1>6, <1>7
  <2>2. ASSUME NEW j \in a..b PROVE \E i \in DOMAIN f : f[i] = chain[j]
    <3>1. PICK i \in 1..n : a + i - 1 = j
      BY <1>4
    <3>2. f[i] = chain[j]
      BY <1>7, <3>1
    <3>3. QED
      BY <1>6, <3>2
  <2>3. QED
    BY <2>1, <2>2 DEF Members
<1>9. ASSUME Filled(chain) PROVE Filled(f)
  <2>1. ASSUME NEW j \in DOMAIN f PROVE KeysOf(f[j]) # {}
    <3>1. f[j] = chain[a + j - 1] /\ a + j - 1 \in DOMAIN chain
      BY <1>1, <1>3, <1>6, <1>7
    <3>2. QED
      BY <1>9, <3>1 DEF Filled
  <2>2. QED
    BY <2>1 DEF Filled
<1>10. ASSUME Ordered(chain) PROVE Ordered(f)
  <2>1. ASSUME NEW i \in DOMAIN f, NEW j \in DOMAIN f, i < j PROVE Below(KeysOf(f[i]), KeysOf(f[j]))
    <3>1. /\ f[i] = chain[a + i - 1] /\ a + i - 1 \in DOMAIN chain
          /\ f[j] = chain[a + j - 1] /\ a + j - 1 \in DOMAIN chain
      BY <1>1, <1>3, <1>6, <1>7
    <3>2. a + i - 1 < a + j - 1
      BY <1>6, <2>1
    <3>3. Below(KeysOf(chain[a + i - 1]), KeysOf(chain[a + j - 1]))
      BY <1>10, <3>1, <3>2 DEF Ordered
    <3>4. QED
      BY <3>1, <3>3
  <2>2. QED
    BY <2>1 DEF Ordered
<1>11. QED
  BY <1>6, <1>8, <1>9, <1>10 DEF f

LEMMA Single ==
  ASSUME NEW S, NEW block \in S
  PROVE  /\ <<block>> \in Seq(S) /\ Members(<<block>>) = {block} /\ Ordered(<<block>>)
         /\ KeysOf(block) # {} => Filled(<<block>>)
<1> DEFINE f == <<block>>
<1>1. f \in Seq(S) /\ DOMAIN f = 1..1 /\ f[1] = block
  OBVIOUS
<1>2. \A i, j \in 1..1 : ~(i < j)
  OBVIOUS
<1>3. \A i \in 1..1 : i = 1
  OBVIOUS
<1>4. 1 \in 1..1
  OBVIOUS
<1> HIDE DEF f
<1>5. Members(f) = {block}
  BY <1>1, <1>3, <1>4 DEF Members
<1>6. Ordered(f)
  BY <1>1, <1>2 DEF Ordered
<1>7. KeysOf(block) # {} => Filled(f)
  BY <1>1, <1>3 DEF Filled
<1>8. QED
  BY <1>1, <1>5, <1>6, <1>7 DEF f
-----------------------------------------------------------------------------
(* What moves down and what is made of it *)

\* The levels once the receiver holds chain.
LEMMA LevelsWithFacts ==
  ASSUME NEW S, leveled \in Seq(Seq(S)), NEW starts \in Starts, ~FlushEnds(starts),
         NEW chain \in Seq(S)
  PROVE  /\ LevelsWith(chain, starts) \in Seq(Seq(S))
         /\ Receiver <= Len(LevelsWith(chain, starts))
         /\ Len(leveled) <= Len(LevelsWith(chain, starts))
         /\ \A i \in DOMAIN LevelsWith(chain, starts) : i \in DOMAIN leveled \/ i = Receiver
         /\ \A i \in 1..Receiver - 1 : LevelsWith(chain, starts)[i] = Kept(i, starts[i])
         /\ LevelsWith(chain, starts)[Receiver] = chain
         /\ \A i \in DOMAIN leveled : i > Receiver => LevelsWith(chain, starts)[i] = leveled[i]
<1> DEFINE N == IF Receiver > Len(leveled) THEN Receiver ELSE Len(leveled)
           f == LevelsWith(chain, starts)
<1>1. Len(leveled) \in Nat /\ DOMAIN leveled = 1..Len(leveled) /\ Receiver \in 1..Len(leveled) + 1
  BY ReceiverFacts
<1>2. N \in Nat /\ Receiver \in 1..N /\ Len(leveled) <= N
  BY <1>1
<1>3. f = [i \in 1..N |-> IF i < Receiver THEN Kept(i, starts[i])
                          ELSE IF i = Receiver THEN chain ELSE leveled[i]]
  BY DEF LevelsWith
<1>4. \A i \in 1..N : i \in DOMAIN leveled \/ i = Receiver
  BY <1>1
<1>5. \A i \in 1..Receiver - 1 : i \in 1..N /\ i < Receiver
  BY <1>1, <1>2
<1>6. \A i \in DOMAIN leveled : i \in 1..N
  BY <1>1, <1>2
<1> HIDE DEF f, N
<1>7. /\ \A i \in 1..Receiver - 1 : f[i] = Kept(i, starts[i])
      /\ f[Receiver] = chain
      /\ \A i \in DOMAIN leveled : i > Receiver => f[i] = leveled[i]
  <2>1. \A i \in 1..Receiver - 1 : f[i] = Kept(i, starts[i])
    BY <1>3, <1>5
  <2>2. ~(Receiver < Receiver)
    BY <1>1
  <2>3. f[Receiver] = chain
    BY <1>2, <1>3, <2>2
  <2>4. ASSUME NEW i \in DOMAIN leveled, i > Receiver PROVE f[i] = leveled[i]
    <3>1. i \in 1..N /\ ~(i < Receiver) /\ i # Receiver
      BY <1>1, <1>6, <2>4
    <3>2. QED
      BY <1>3, <3>1
  <2>5. QED
    BY <2>1, <2>3, <2>4
<1>8. ASSUME NEW i \in 1..N PROVE f[i] \in Seq(S)
  <2>1. CASE i < Receiver
    <3>1. i \in 1..Receiver - 1
      BY <1>1, <2>1
    <3>2. i \in DOMAIN leveled /\ TooLarge(i) /\ Threshold(i) > 0 /\ starts[i] \in 0..Threshold(i)
      BY <3>1, FlushRoom
    <3>3. Kept(i, starts[i]) \in Seq(S)
      BY <3>2, KeptFacts
    <3>4. QED
      BY <1>7, <3>1, <3>3
  <2>2. CASE i = Receiver
    BY <1>7, <2>2
  <2>3. CASE i > Receiver
    <3>1. i \in DOMAIN leveled
      BY <1>1, <1>4, <2>3
    <3>2. QED
      BY <1>7, <2>3, <3>1
  <2>4. QED
    BY <1>1, <2>1, <2>2, <2>3
<1>9. f \in Seq(Seq(S)) /\ Len(f) = N /\ DOMAIN f = 1..N
  <2>1. f = [i \in 1..N |-> f[i]]
    BY <1>3
  <2>2. QED
    BY <1>2, <1>8, <2>1, IsList
<1>10. Receiver <= N
  BY <1>2
<1>11. QED
  BY <1>2, <1>4, <1>7, <1>9, <1>10 DEF f

\* What is flushed comes with every key that can be read of it.
LEMMA MovedFacts ==
  ASSUME leveled \in Seq(Seq(Block)), NEW starts \in Starts, ~FlushEnds(starts), NEW made \in Keys
  PROVE  /\ Moved(starts, made) \in Block
         /\ \A i \in 1..Receiver - 1 : \A j \in Flushed(i, starts[i]) :
              T!InFullPage(leveled[i][j]) \subseteq KeysOf(Moved(starts, made))
         /\ \A k \in KeysOf(Moved(starts, made)) :
              \/ Moved(starts, made)[k] = MadeUpCell
              \/ \E i \in DOMAIN leveled : \E j \in DOMAIN leveled[i] :
                   k \in KeysOf(leveled[i][j]) /\ Moved(starts, made)[k] = leveled[i][j][k]
         /\ Receiver = 1 => KeysOf(Moved(starts, made)) = {}
<1> DEFINE I == 1..Receiver - 1
           from == [i \in DOMAIN starts |-> LoadBlocks(leveled[i], Flushed(i, starts[i]), made)]
           f == Moved(starts, made)
<1>1. DOMAIN starts = I /\ Receiver \in Nat \ {0}
  BY ReceiverFacts DEF Starts
<1>2. I \in SUBSET Nat
  BY <1>1
<1>3. f = FirstOf(I, from)
  <2>1. f = FirstOf(DOMAIN starts, from)
    BY Zenon DEF Moved, FirstOf
  <2> HIDE DEF f, from, I
  <2>2. QED
    BY Zenon, <1>1, <2>1
<1>4. \A i \in I : from[i] = LoadBlocks(leveled[i], Flushed(i, starts[i]), made)
  BY <1>1
<1>5. ASSUME NEW i \in I
      PROVE  /\ i \in DOMAIN leveled
             /\ Flushed(i, starts[i]) \in SUBSET Nat
             /\ \A j \in Flushed(i, starts[i]) : j \in DOMAIN leveled[i] /\ leveled[i][j] \in Block
  <2>1. i \in DOMAIN leveled /\ TooLarge(i) /\ Threshold(i) > 0 /\ starts[i] \in 0..Threshold(i)
    BY FlushRoom
  <2>2. Flushed(i, starts[i]) \subseteq 2..Len(leveled[i])
    BY <2>1, FlushShape
  <2>3. leveled[i] \in Seq(Block)
    BY <2>1
  <2>4. \A j \in 2..Len(leveled[i]) : j \in Nat /\ j \in DOMAIN leveled[i] /\ leveled[i][j] \in Block
    BY <2>3
  <2>5. QED
    BY <2>1, <2>2, <2>4
<1> HIDE DEF f, from, I
<1>6. ASSUME NEW i \in I
      PROVE  /\ from[i] \in Block
             /\ \A j \in Flushed(i, starts[i]) : T!InFullPage(leveled[i][j]) \subseteq KeysOf(from[i])
             /\ \A k \in KeysOf(from[i]) :
                  \/ from[i][k] = MadeUpCell
                  \/ \E j \in DOMAIN leveled[i] : k \in KeysOf(leveled[i][j]) /\ from[i][k] = leveled[i][j][k]
  <2> DEFINE chain == leveled[i]
             F == Flushed(i, starts[i])
  <2>1. F \in SUBSET Nat /\ \A j \in F : j \in DOMAIN chain /\ chain[j] \in Block
    BY <1>5
  <2>2. from[i] = LoadBlocks(chain, F, made)
    BY <1>4
  <2> HIDE DEF chain, F
  <2>3. /\ LoadBlocks(chain, F, made) \in Block
        /\ \A j \in F : T!InFullPage(chain[j]) \subseteq KeysOf(LoadBlocks(chain, F, made))
        /\ \A k \in KeysOf(LoadBlocks(chain, F, made)) :
             \E j \in F :
               \/ k \in KeysOf(chain[j]) /\ LoadBlocks(chain, F, made)[k] = chain[j][k]
               \/ MakesUp(chain[j]) /\ LoadBlocks(chain, F, made)[k] = MadeUpCell
    BY <2>1, LoadBlocksFacts
  <2>4. \A k \in KeysOf(LoadBlocks(chain, F, made)) :
          \/ LoadBlocks(chain, F, made)[k] = MadeUpCell
          \/ \E j \in DOMAIN chain : k \in KeysOf(chain[j]) /\ LoadBlocks(chain, F, made)[k] = chain[j][k]
    BY Zenon, <2>1, <2>3
  <2>5. QED
    BY Zenon, <2>2, <2>3, <2>4 DEF chain, F
<1>7. /\ FirstOf(I, from) \in Block
      /\ \A i \in I : KeysOf(from[i]) \subseteq KeysOf(FirstOf(I, from))
      /\ \A k \in KeysOf(FirstOf(I, from)) :
           \E i \in I : k \in KeysOf(from[i]) /\ FirstOf(I, from)[k] = from[i][k]
  <2>1. \A i \in I : from[i] \in Block
    BY <1>6
  <2>2. QED
    BY <1>2, <2>1, FirstOfFacts
<1>8. /\ f \in Block
      /\ \A i \in I : KeysOf(from[i]) \subseteq KeysOf(f)
      /\ \A k \in KeysOf(f) : \E i \in I : k \in KeysOf(from[i]) /\ f[k] = from[i][k]
  BY Zenon, <1>3, <1>7
<1>9. \A i \in I : \A j \in Flushed(i, starts[i]) : T!InFullPage(leveled[i][j]) \subseteq KeysOf(f)
  BY <1>6, <1>8
<1>10. \A k \in KeysOf(f) :
         \/ f[k] = MadeUpCell
         \/ \E i \in DOMAIN leveled : \E j \in DOMAIN leveled[i] :
              k \in KeysOf(leveled[i][j]) /\ f[k] = leveled[i][j][k]
  <2>1. ASSUME NEW k \in KeysOf(f)
        PROVE  \/ f[k] = MadeUpCell
               \/ \E i \in DOMAIN leveled : \E j \in DOMAIN leveled[i] :
                    k \in KeysOf(leveled[i][j]) /\ f[k] = leveled[i][j][k]
    <3>1. PICK i \in I : k \in KeysOf(from[i]) /\ f[k] = from[i][k]
      BY <1>8
    <3>2. \/ from[i][k] = MadeUpCell
          \/ \E j \in DOMAIN leveled[i] : k \in KeysOf(leveled[i][j]) /\ from[i][k] = leveled[i][j][k]
      BY <1>6, <3>1
    <3>3. i \in DOMAIN leveled
      BY <1>5
    <3>4. QED
      BY <3>1, <3>2, <3>3
  <2>2. QED
    BY <2>1
<1>11. Receiver = 1 => KeysOf(f) = {}
  <2>1. Receiver = 1 => I = {}
    BY DEF I
  <2>2. QED
    BY <1>8, <2>1
<1>12. QED
  BY <1>8, <1>9, <1>10, <1>11 DEF f, I

LEMMA ContentFacts ==
  ASSUME NEW batch \in Block, NEW moved \in Block,
         NEW older \in SUBSET (KeysOf(batch) \cap KeysOf(moved))
  PROVE  /\ Content(batch, moved, older) \in Block
         /\ KeysOf(Content(batch, moved, older)) = KeysOf(batch) \cup KeysOf(moved)
         /\ \A k \in KeysOf(Content(batch, moved, older)) :
              \/ k \in KeysOf(batch) /\ Content(batch, moved, older)[k] = batch[k]
              \/ k \in KeysOf(moved) /\ Content(batch, moved, older)[k] = moved[k]
<1> DEFINE f == Content(batch, moved, older)
<1>1. f = [k \in Keys |-> IF batch[k] # None /\ k \notin older THEN batch[k] ELSE moved[k]]
  BY DEF Content
<1>2. /\ KeysOf(batch) \subseteq Keys /\ KeysOf(moved) \subseteq Keys
      /\ \A k \in Keys : k \in KeysOf(batch) <=> batch[k] # None
      /\ \A k \in Keys : k \in KeysOf(moved) <=> moved[k] # None
      /\ \A k \in Keys : batch[k] \in T!Cell \cup {None}
      /\ \A k \in Keys : moved[k] \in T!Cell \cup {None}
  BY BlockFacts
<1> HIDE DEF f
<1>3. f \in Block
  <2>1. f = [k \in Keys |-> f[k]] /\ \A k \in Keys : f[k] \in T!Cell \cup {None}
    BY <1>1, <1>2
  <2>2. QED
    BY <2>1, IsBlock
<1>4. KeysOf(f) \subseteq Keys /\ \A k \in Keys : k \in KeysOf(f) <=> f[k] # None
  BY <1>3, BlockFacts
<1>5. \A k \in Keys : f[k] = IF batch[k] # None /\ k \notin older THEN batch[k] ELSE moved[k]
  BY <1>1
<1>6. \A k \in Keys : f[k] # None <=> batch[k] # None \/ moved[k] # None
  BY <1>2, <1>5
<1>7. KeysOf(f) = KeysOf(batch) \cup KeysOf(moved)
  BY <1>2, <1>4, <1>6
<1>8. \A k \in KeysOf(f) : \/ k \in KeysOf(batch) /\ f[k] = batch[k]
                           \/ k \in KeysOf(moved) /\ f[k] = moved[k]
  BY <1>2, <1>4, <1>5
<1>9. QED
  BY <1>3, <1>7, <1>8 DEF f

LEMMA OverFacts ==
  ASSUME NEW new \in Block, NEW old \in Block
  PROVE  /\ Over(new, old) \in Block
         /\ KeysOf(Over(new, old)) = KeysOf(new) \cup KeysOf(old)
         /\ \A k \in KeysOf(new) : Over(new, old)[k] = new[k]
         /\ \A k \in KeysOf(old) : k \notin KeysOf(new) => Over(new, old)[k] = old[k]
<1> DEFINE f == Over(new, old)
<1>1. f = [k \in Keys |-> IF new[k] # None THEN new[k] ELSE old[k]]
  BY DEF Over
<1>2. /\ KeysOf(new) \subseteq Keys /\ KeysOf(old) \subseteq Keys
      /\ \A k \in Keys : k \in KeysOf(new) <=> new[k] # None
      /\ \A k \in Keys : k \in KeysOf(old) <=> old[k] # None
      /\ \A k \in Keys : new[k] \in T!Cell \cup {None}
      /\ \A k \in Keys : old[k] \in T!Cell \cup {None}
  BY BlockFacts
<1> HIDE DEF f
<1>3. f \in Block
  <2>1. f = [k \in Keys |-> f[k]] /\ \A k \in Keys : f[k] \in T!Cell \cup {None}
    BY <1>1, <1>2
  <2>2. QED
    BY <2>1, IsBlock
<1>4. KeysOf(f) \subseteq Keys /\ \A k \in Keys : k \in KeysOf(f) <=> f[k] # None
  BY <1>3, BlockFacts
<1>5. \A k \in Keys : f[k] = IF new[k] # None THEN new[k] ELSE old[k]
  BY <1>1
<1>6. KeysOf(f) = KeysOf(new) \cup KeysOf(old)
  BY <1>2, <1>4, <1>5
<1>7. \A k \in KeysOf(new) : f[k] = new[k]
  BY <1>2, <1>5
<1>8. \A k \in KeysOf(old) : k \notin KeysOf(new) => f[k] = old[k]
  BY <1>2, <1>5
<1>9. QED
  BY <1>3, <1>6, <1>7, <1>8 DEF f
-----------------------------------------------------------------------------
(* Inserting into the receiver *)

LEMMA ChainType ==
  ASSUME leveled \in Seq(Seq(Block))
  PROVE  /\ Chain \in Seq(Block) /\ Len(Chain) \in Nat /\ DOMAIN Chain = 1..Len(Chain)
         /\ Chain = <<>> <=> Len(Chain) = 0
<1>1. Receiver \in 1..Len(leveled) + 1 /\ Len(leveled) \in Nat
  BY ReceiverFacts
<1>2. Receiver <= Len(leveled) => Receiver \in DOMAIN leveled
  BY <1>1
<1>3. Chain \in Seq(Block)
  BY <1>1, <1>2 DEF Chain
<1>4. \A s \in Seq(Block) : Len(s) \in Nat /\ DOMAIN s = 1..Len(s) /\ (s = <<>> <=> Len(s) = 0)
  OBVIOUS
<1>5. QED
  BY <1>3, <1>4

LEMMA LowerFacts ==
  ASSUME NEW block \in Block, KeysOf(block) # {}
  PROVE  Lower(block) \in KeysOf(block) /\ Lower(block) \in Int /\ \A k \in KeysOf(block) : Lower(block) <= k
<1>1. KeysOf(block) \in SUBSET Keys /\ Keys \subseteq Int
  BY BlockFacts, KeysAssumption
<1>2. QED
  BY <1>1, LeastKey DEF Lower

\* The blocks that are merged with the content are neighbours.  Those before
\* them begin and end below it, those behind them begin above it.
LEMMA Span ==
  ASSUME leveled \in Seq(Seq(Block)), Filled(Chain), NEW content \in Block, KeysOf(content) # {},
         ~InsertBehindEnds(content), Overlapped(content) # {}
  PROVE  \E front, end \in 1..Len(Chain) :
           /\ front <= end /\ Overlapped(content) = front..end
           /\ front > 1 => Lower(Chain[front]) <= Lower(content)
           /\ end < Len(Chain) => Lower(Chain[end + 1]) > Greatest(KeysOf(content))
<1> DEFINE left == Lower(content)
           right == Greatest(KeysOf(content))
           n == Len(Chain)
           front == Front(left, right)
           back == Back(right)
           end == IF back = 0 THEN n ELSE back - 1
<1>1. Chain \in Seq(Block) /\ n \in Nat /\ DOMAIN Chain = 1..n /\ (Chain = <<>> <=> n = 0)
  BY ChainType
<1>2. left \in Int /\ right \in Int
  <2>1. KeysOf(content) \in SUBSET Keys /\ Keys \subseteq Int
    BY BlockFacts, KeysAssumption
  <2>2. QED
    BY <2>1, LowerFacts, GreatestKey
<1>3. \A j \in 1..n : Lower(Chain[j]) \in Int
  <2>1. ASSUME NEW j \in 1..n PROVE Lower(Chain[j]) \in Int
    <3>1. Chain[j] \in Block /\ KeysOf(Chain[j]) # {}
      BY <1>1 DEF Filled
    <3>2. QED
      BY <3>1, LowerFacts
  <2>2. QED
    BY <2>1
<1>4. ASSUME NEW key, Above(key) # {}
      PROVE  Least(Above(key)) \in Above(key) /\ \A j \in Above(key) : Least(Above(key)) <= j
  <2>1. Above(key) \subseteq Nat
    BY <1>1 DEF Above
  <2>2. QED
    BY <1>4, <2>1, LeastIndex
<1>5. \A key : Above(key) \subseteq 1..n /\ \A j \in 1..n : j \in Above(key) <=> Lower(Chain[j]) > key
  BY <1>1 DEF Above
<1>6. Overlapped(content) = IF front = back THEN {} ELSE front..end
  BY DEF Overlapped
<1>7. front # back
  BY <1>6
<1>8. /\ Above(right) # {} => back = Least(Above(right)) /\ back \in 1..n
      /\ Above(right) = {} => back = 0
  BY <1>4, <1>5 DEF Back
<1>9. n # 0
  <2>1. SUFFICES ASSUME n = 0 PROVE FALSE
    OBVIOUS
  <2>2. Above(left) = {} /\ Above(right) = {} /\ Chain = <<>>
    BY <1>1, <1>5, <2>1
  <2>3. front = 0 /\ back = 0
    BY <1>8, <2>2 DEF Front
  <2>4. QED
    BY <1>7, <2>3
<1>10. front # 0
  BY <1>1, <1>9 DEF InsertBehindEnds
<1>11. /\ front \in 1..n
       /\ front > 1 => front \notin Above(left)
  <2>1. CASE Above(left) # {}
    <3>1. PICK l \in 1..n : l = Least(Above(left)) /\ \A j \in Above(left) : l <= j
      BY <1>4, <1>5, <2>1
    <3>2. front = IF l > 1 THEN l - 1 ELSE 1
      BY <2>1, <3>1 DEF Front
    <3>3. QED
      BY <1>1, <1>5, <3>1, <3>2
  <2>2. CASE Above(left) = {}
    <3>1. front = n
      BY <1>10, <2>2 DEF Front
    <3>2. QED
      BY <1>1, <1>9, <2>2, <3>1
  <2>3. QED
    BY <2>1, <2>2
<1>12. end \in Int /\ end <= n /\ (end < n => end + 1 \in Above(right))
  BY <1>1, <1>4, <1>5, <1>8
<1>13. front <= end /\ Overlapped(content) = front..end
  <2>1. Overlapped(content) = front..end
    BY <1>6, <1>7
  <2>2. front..end # {}
    BY <2>1
  <2> HIDE DEF front, end
  <2>3. QED
    BY <1>11, <1>12, <2>1, <2>2
<1>14. front > 1 => Lower(Chain[front]) <= left
  BY <1>2, <1>3, <1>5, <1>11
<1>15. end < n => Lower(Chain[end + 1]) > right
  BY <1>5, <1>12
<1>16. end \in 1..n
  <2> HIDE DEF front, end, n
  <2>1. QED
    BY <1>1, <1>11, <1>12, <1>13
<1> HIDE DEF front, end
<1>17. QED
  BY <1>11, <1>13, <1>14, <1>15, <1>16

\* In a list in order, the blocks before those that are merged hold smaller
\* keys than the content and than the merged blocks, those behind them greater.
LEMMA Outside ==
  ASSUME leveled \in Seq(Seq(Block)), Filled(Chain), Ordered(Chain),
         NEW content \in Block, KeysOf(content) # {},
         NEW front \in 1..Len(Chain), NEW end \in 1..Len(Chain), front <= end,
         front > 1 => Lower(Chain[front]) <= Lower(content),
         end < Len(Chain) => Lower(Chain[end + 1]) > Greatest(KeysOf(content)),
         NEW S, \A k \in S : k \in KeysOf(content) \/ \E i \in front..end : k \in KeysOf(Chain[i])
  PROVE  /\ \A j \in 1..front - 1 : Below(KeysOf(Chain[j]), S)
         /\ \A j \in end + 1 .. Len(Chain) : Below(S, KeysOf(Chain[j]))
<1>1. Chain \in Seq(Block) /\ Len(Chain) \in Nat /\ DOMAIN Chain = 1..Len(Chain)
  BY ChainType
<1>2. \A j \in 1..Len(Chain) :
        /\ KeysOf(Chain[j]) \subseteq Int
        /\ Lower(Chain[j]) \in KeysOf(Chain[j])
        /\ \A k \in KeysOf(Chain[j]) : Lower(Chain[j]) <= k
  <2>1. ASSUME NEW j \in 1..Len(Chain)
        PROVE  /\ KeysOf(Chain[j]) \subseteq Int
               /\ Lower(Chain[j]) \in KeysOf(Chain[j])
               /\ \A k \in KeysOf(Chain[j]) : Lower(Chain[j]) <= k
    <3>1. Chain[j] \in Block /\ KeysOf(Chain[j]) # {}
      BY <1>1 DEF Filled
    <3>2. KeysOf(Chain[j]) \in SUBSET Keys /\ Keys \subseteq Int
      BY <3>1, BlockFacts, KeysAssumption
    <3>3. QED
      BY <3>1, <3>2, LowerFacts
  <2>2. QED
    BY <2>1
<1>3. /\ KeysOf(content) \subseteq Int /\ Lower(content) \in Int /\ Greatest(KeysOf(content)) \in Int
      /\ \A k \in KeysOf(content) : Lower(content) <= k /\ k <= Greatest(KeysOf(content))
  <2>1. KeysOf(content) \in SUBSET Keys /\ Keys \subseteq Int
    BY BlockFacts, KeysAssumption
  <2>2. QED
    BY <2>1, LowerFacts, GreatestKey
<1>4. \A i, j \in 1..Len(Chain) : i < j => \A k \in KeysOf(Chain[i]), m \in KeysOf(Chain[j]) : k < m
  BY <1>1 DEF Ordered, Below
<1>5. ASSUME NEW j \in 1..front - 1, NEW k \in KeysOf(Chain[j]), NEW m \in S PROVE k < m
  <2>1. j \in 1..Len(Chain) /\ front > 1 /\ j < front
    BY <1>1
  <2>2. CASE m \in KeysOf(content)
    <3>1. k < Lower(Chain[front])
      BY <1>2, <1>4, <2>1
    <3>2. k \in Int /\ m \in Int /\ Lower(Chain[front]) \in Int
      BY <1>2, <1>3, <2>1, <2>2
    <3>3. Lower(Chain[front]) <= Lower(content) /\ Lower(content) <= m
      BY <1>3, <2>1, <2>2
    <3>4. QED
      BY <1>3, <3>1, <3>2, <3>3
  <2>3. ASSUME NEW i \in front..end, m \in KeysOf(Chain[i]) PROVE k < m
    <3>1. i \in 1..Len(Chain) /\ j < i
      BY <1>1, <2>1
    <3>2. QED
      BY <1>4, <2>1, <2>3, <3>1
  <2>4. QED
    BY <2>2, <2>3
<1>6. ASSUME NEW j \in end + 1 .. Len(Chain), NEW k \in S, NEW m \in KeysOf(Chain[j]) PROVE k < m
  <2>1. j \in 1..Len(Chain) /\ end < Len(Chain) /\ end < j /\ end + 1 \in 1..Len(Chain)
    BY <1>1
  <2>2. CASE k \in KeysOf(content)
    <3>1. Lower(Chain[end + 1]) <= m
      <4>1. CASE j = end + 1
        BY <1>2, <2>1, <4>1
      <4>2. CASE j > end + 1
        <5>1. Lower(Chain[end + 1]) \in KeysOf(Chain[end + 1]) /\ KeysOf(Chain[end + 1]) \subseteq Int
          BY <1>2, <2>1
        <5>2. \A a \in 1..Len(Chain) : a < j => \A l \in KeysOf(Chain[a]) : l < m
          BY <1>4, <2>1
        <5>3. Lower(Chain[end + 1]) < m
          BY <2>1, <4>2, <5>1, <5>2
        <5>4. m \in Int
          BY <1>2, <2>1
        <5>5. QED
          BY <5>1, <5>3, <5>4
      <4>3. QED
        BY <4>1, <4>2
    <3>2. k \in Int /\ m \in Int /\ Lower(Chain[end + 1]) \in Int
      BY <1>2, <1>3, <2>1, <2>2
    <3>3. k <= Greatest(KeysOf(content)) /\ Lower(Chain[end + 1]) > Greatest(KeysOf(content))
      BY <1>3, <2>1, <2>2
    <3>4. QED
      BY <1>3, <3>1, <3>2, <3>3
  <2>3. ASSUME NEW i \in front..end, k \in KeysOf(Chain[i]) PROVE k < m
    <3>1. i \in 1..Len(Chain) /\ i < j
      BY <1>1, <2>1
    <3>2. QED
      BY <1>4, <2>1, <2>3, <3>1
  <2>4. QED
    BY <2>2, <2>3
<1>7. QED
  BY <1>5, <1>6 DEF Below

\* merged is content over what is loaded of the blocks with indexes in over.
MergedFrom(merged, content, over) ==
  /\ merged \in Block
  /\ KeysOf(content) \subseteq KeysOf(merged)
  /\ \A k \in KeysOf(content) : merged[k] = content[k]
  /\ \A k \in KeysOf(merged) : k \notin KeysOf(content) =>
       \E i \in over : \/ k \in KeysOf(Chain[i]) /\ merged[k] = Chain[i][k]
                       \/ MakesUp(Chain[i]) /\ merged[k] = MadeUpCell
  /\ \A i \in over : T!InFullPage(Chain[i]) \subseteq KeysOf(merged)
  /\ over = {} => merged = content

LEMMA MergedFacts ==
  ASSUME leveled \in Seq(Seq(Block)), NEW content \in Block, NEW over \in SUBSET (1..Len(Chain)),
         NEW made \in Keys
  PROVE  MergedFrom(Over(content, LoadBlocks(Chain, over, made)), content, over)
<1> DEFINE merged == Over(content, LoadBlocks(Chain, over, made))
<1> DEFINE old == LoadBlocks(Chain, over, made)
<1>1. Chain \in Seq(Block) /\ Len(Chain) \in Nat /\ DOMAIN Chain = 1..Len(Chain)
  BY ChainType
<1>2. over \in SUBSET Nat /\ \A i \in over : Chain[i] \in Block
  BY <1>1
<1>3. /\ old \in Block
      /\ \A i \in over : T!InFullPage(Chain[i]) \subseteq KeysOf(old)
      /\ \A k \in KeysOf(old) :
           \E i \in over : \/ k \in KeysOf(Chain[i]) /\ old[k] = Chain[i][k]
                           \/ MakesUp(Chain[i]) /\ old[k] = MadeUpCell
  BY <1>2, LoadBlocksFacts
<1> HIDE DEF old
<1>4. /\ Over(content, old) \in Block
      /\ KeysOf(Over(content, old)) = KeysOf(content) \cup KeysOf(old)
      /\ \A k \in KeysOf(content) : Over(content, old)[k] = content[k]
      /\ \A k \in KeysOf(old) : k \notin KeysOf(content) => Over(content, old)[k] = old[k]
  BY <1>3, OverFacts
<1>5. merged = Over(content, old)
  BY DEF old
<1> HIDE DEF merged
<1>6. /\ merged \in Block
      /\ KeysOf(merged) = KeysOf(content) \cup KeysOf(old)
      /\ \A k \in KeysOf(content) : merged[k] = content[k]
      /\ \A k \in KeysOf(old) : k \notin KeysOf(content) => merged[k] = old[k]
  BY Zenon, <1>4, <1>5
<1>7. ASSUME NEW k \in KeysOf(merged), k \notin KeysOf(content)
      PROVE  \E i \in over : \/ k \in KeysOf(Chain[i]) /\ merged[k] = Chain[i][k]
                             \/ MakesUp(Chain[i]) /\ merged[k] = MadeUpCell
  <2>1. k \in KeysOf(old) /\ merged[k] = old[k]
    BY <1>6, <1>7
  <2>2. PICK i \in over : \/ k \in KeysOf(Chain[i]) /\ old[k] = Chain[i][k]
                          \/ MakesUp(Chain[i]) /\ old[k] = MadeUpCell
    BY <1>3, <2>1
  <2>3. QED
    BY <2>1, <2>2
<1>8. ASSUME over = {} PROVE merged = content
  <2>1. KeysOf(old) = {}
    BY <1>3, <1>8
  <2>2. KeysOf(merged) = KeysOf(content)
    BY <1>6, <2>1
  <2>3. \A k \in Keys : /\ k \in KeysOf(merged) <=> merged[k] # None
                        /\ k \in KeysOf(content) <=> content[k] # None
    BY <1>6, BlockFacts
  <2>4. \A k \in Keys : merged[k] = content[k]
    BY <1>6, <2>2, <2>3
  <2>5. \A f, g \in Block : (\A k \in Keys : f[k] = g[k]) => f = g
    BY DEF Block, T!Run
  <2>6. QED
    BY <1>6, <2>4, <2>5
<1>9. MergedFrom(merged, content, over)
  BY <1>3, <1>6, <1>7, <1>8 DEF MergedFrom
<1>10. QED
  BY <1>9 DEF merged

\* What an insertion of content makes of the receiver's list: chain, over the
\* blocks with indexes in over, the keys in cut being cut off.
Inserted(chain, content, over, cut) ==
  /\ chain \in Seq(Block) /\ Filled(chain)
  /\ Ordered(Chain) /\ (\A i \in over : ~MakesUp(Chain[i])) =>
       /\ Ordered(chain)
       /\ \A b \in Members(chain) : \A k \in KeysOf(b) : k \in KeysOf(content) => b[k] = content[k]
  /\ \A k \in KeysOf(content) : k \in cut \/ \E b \in Members(chain) : k \in KeysOf(b)
  /\ \A b \in Members(Chain) : \A k \in T!InFullPage(b) : \E new \in Members(chain) : k \in KeysOf(new)
  /\ \A b \in Members(chain) : \A k \in KeysOf(b) :
       \/ k \in KeysOf(content) /\ b[k] = content[k]
       \/ \E i \in over : MakesUp(Chain[i]) /\ b[k] = MadeUpCell
       \/ \E old \in Members(Chain) : k \in KeysOf(old) /\ b[k] = old[k]

LEMMA InsertedEmpty ==
  ASSUME leveled \in Seq(Seq(Block)), NEW content \in Block, Chain = <<>>, ~CutsEmptyBlock(content)
  PROVE  Inserted(Cut(content), content, {}, {})
<1> DEFINE f == Cut(content)
<1>1. /\ f \in Seq(Block) /\ Ordered(f) /\ Filled(f)
      /\ \A k \in KeysOf(content) : \E b \in DOMAIN f : k \in KeysOf(f[b])
      /\ \A b \in DOMAIN f : \A k \in KeysOf(f[b]) : k \in KeysOf(content) /\ f[b][k] = content[k]
  BY CutFacts
<1> HIDE DEF f
<1>2. Members(Chain) = {}
  BY DEF Members
<1>3. \A k \in KeysOf(content) : \E b \in Members(f) : k \in KeysOf(b)
  BY <1>1 DEF Members
<1>4. \A b \in Members(f) : \A k \in KeysOf(b) : k \in KeysOf(content) /\ b[k] = content[k]
  BY <1>1 DEF Members
<1>5. QED
  BY <1>1, <1>2, <1>3, <1>4 DEF Inserted, f

LEMMA InsertedBefore ==
  ASSUME leveled \in Seq(Seq(Block)), Filled(Chain), NEW content \in Block, KeysOf(content) # {},
         Chain # <<>>, Back(Greatest(KeysOf(content))) = 1, ~CutsEmptyBlock(content)
  PROVE  Inserted(<<Cut(content)[1]>> \o Chain, content, {},
                  KeysOf(content) \ KeysOf(Cut(content)[1]))
<1> DEFINE first == Cut(content)[1]
           right == Greatest(KeysOf(content))
           f == <<first>> \o Chain
<1>1. Chain \in Seq(Block) /\ Len(Chain) \in Nat /\ DOMAIN Chain = 1..Len(Chain) /\ Len(Chain) # 0
  BY ChainType
<1>2. /\ first \in Block /\ KeysOf(first) # {}
      /\ \A k \in KeysOf(first) : k \in KeysOf(content) /\ first[k] = content[k]
  <2> DEFINE g == Cut(content)
  <2>1. /\ g \in Seq(Block) /\ Len(g) >= 1 /\ Filled(g)
        /\ \A b \in DOMAIN g : \A k \in KeysOf(g[b]) : k \in KeysOf(content) /\ g[b][k] = content[k]
    BY CutFacts
  <2> HIDE DEF g
  <2>2. 1 \in DOMAIN g /\ g[1] \in Block
    BY <2>1
  <2>3. g[1] = first
    BY DEF g
  <2>4. QED
    BY <2>1, <2>2, <2>3 DEF Filled
<1>3. \A k \in KeysOf(content) : k <= right /\ k \in Int /\ right \in Int
  <2>1. KeysOf(content) \in SUBSET Keys /\ Keys \subseteq Int
    BY BlockFacts, KeysAssumption
  <2>2. QED
    BY <2>1, GreatestKey
<1>4. 1 \in Above(right)
  <2>1. Above(right) # {} /\ Least(Above(right)) = 1
    BY DEF Back
  <2>2. Above(right) \subseteq Nat
    BY <1>1 DEF Above
  <2>3. QED
    BY <2>1, <2>2, LeastIndex
<1>5. Lower(Chain[1]) > right
  BY <1>4 DEF Above
<1>6. \A j \in 1..Len(Chain) :
        /\ KeysOf(Chain[j]) \subseteq Int
        /\ Lower(Chain[j]) \in KeysOf(Chain[j])
        /\ \A k \in KeysOf(Chain[j]) : Lower(Chain[j]) <= k
  <2>1. ASSUME NEW j \in 1..Len(Chain)
        PROVE  /\ KeysOf(Chain[j]) \subseteq Int
               /\ Lower(Chain[j]) \in KeysOf(Chain[j])
               /\ \A k \in KeysOf(Chain[j]) : Lower(Chain[j]) <= k
    <3>1. Chain[j] \in Block /\ KeysOf(Chain[j]) # {}
      BY <1>1 DEF Filled
    <3>2. KeysOf(Chain[j]) \in SUBSET Keys /\ Keys \subseteq Int
      BY <3>1, BlockFacts, KeysAssumption
    <3>3. QED
      BY <3>1, <3>2, LowerFacts
  <2>2. QED
    BY <2>1
<1>7. ASSUME Ordered(Chain), NEW j \in 1..Len(Chain), NEW m \in KeysOf(Chain[j]), NEW k \in KeysOf(content)
      PROVE  k < m
  <2>1. 1 \in 1..Len(Chain)
    BY <1>1
  <2>2. m \in Int /\ Lower(Chain[1]) \in Int
    BY <1>6, <1>7, <2>1
  <2>3. Lower(Chain[1]) <= m
    <3>1. CASE j = 1
      BY <1>6, <1>7, <2>1, <3>1
    <3>2. CASE 1 < j
      <4>1. Below(KeysOf(Chain[1]), KeysOf(Chain[j]))
        BY <1>1, <1>7, <2>1, <3>2 DEF Ordered
      <4>2. Lower(Chain[1]) < m
        BY <1>6, <1>7, <2>1, <4>1 DEF Below
      <4>3. QED
        BY <2>2, <4>2
    <3>3. QED
      BY <3>1, <3>2
  <2>4. k <= right /\ k \in Int /\ right \in Int
    BY <1>3, <1>7
  <2>5. QED
    BY <1>5, <2>2, <2>3, <2>4
<1> HIDE DEF first
<1>8. <<first>> \in Seq(Block) /\ Members(<<first>>) = {first} /\ Ordered(<<first>>) /\ Filled(<<first>>)
  BY <1>2, Single
<1>9. /\ f \in Seq(Block) /\ Members(f) = {first} \cup Members(Chain) /\ Filled(f)
      /\ Ordered(Chain) /\ (\A y \in Members(Chain) : Below(KeysOf(first), KeysOf(y))) => Ordered(f)
  <2> DEFINE a == <<first>>
  <2>1. a \in Seq(Block) /\ Members(a) = {first} /\ Ordered(a) /\ Filled(a)
    BY <1>8
  <2> HIDE DEF a
  <2>2. /\ a \o Chain \in Seq(Block) /\ Members(a \o Chain) = Members(a) \cup Members(Chain)
        /\ Filled(a) /\ Filled(Chain) => Filled(a \o Chain)
        /\ /\ Ordered(a) /\ Ordered(Chain)
           /\ \A x \in Members(a), y \in Members(Chain) : Below(KeysOf(x), KeysOf(y))
           => Ordered(a \o Chain)
    BY <1>1, <2>1, Joined
  <2>3. \A x \in Members(a) : x = first
    BY <2>1
  <2>4. a \o Chain = f
    BY DEF a
  <2> HIDE DEF f
  <2>5. QED
    BY <2>1, <2>2, <2>3, <2>4
<1> HIDE DEF f
<1>10. ASSUME Ordered(Chain) PROVE \A y \in Members(Chain) : Below(KeysOf(first), KeysOf(y))
  BY <1>1, <1>2, <1>7, <1>10 DEF Members, Below
<1>11. ASSUME Ordered(Chain), NEW b \in Members(f), NEW k \in KeysOf(b), k \in KeysOf(content)
       PROVE  b[k] = content[k]
  <2>1. CASE b = first
    BY <1>2, <1>11, <2>1
  <2>2. ASSUME NEW j \in DOMAIN Chain, b = Chain[j] PROVE FALSE
    <3>1. k < k
      BY <1>1, <1>7, <1>11, <2>2
    <3>2. QED
      BY <1>3, <1>11, <3>1
  <2>3. QED
    BY <1>9, <2>1, <2>2 DEF Members
<1>12. \A b \in Members(Chain) : T!InFullPage(b) \subseteq KeysOf(b) /\ b \in Members(f)
  <2>1. \A b \in Members(Chain) : b \in Block
    BY <1>1 DEF Members
  <2>2. QED
    BY <1>9, <2>1, FullPages
<1>13. first \in Members(f) /\ \A b \in Members(f) : b = first \/ b \in Members(Chain)
  BY <1>9
<1>14. \A k \in KeysOf(content) : k \in KeysOf(content) \ KeysOf(first) \/ k \in KeysOf(first)
  OBVIOUS
<1>15. Ordered(Chain) => Ordered(f)
  BY <1>9, <1>10
<1>16. Inserted(f, content, {}, KeysOf(content) \ KeysOf(first))
  <2>1. \A k \in KeysOf(content) : k \in KeysOf(content) \ KeysOf(first) \/ \E b \in Members(f) : k \in KeysOf(b)
    BY <1>13, <1>14
  <2>2. \A b \in Members(Chain) : \A k \in T!InFullPage(b) : \E new \in Members(f) : k \in KeysOf(new)
    BY <1>12
  <2>3. \A b \in Members(f) : \A k \in KeysOf(b) :
          \/ k \in KeysOf(content) /\ b[k] = content[k]
          \/ \E old \in Members(Chain) : k \in KeysOf(old) /\ b[k] = old[k]
    BY <1>2, <1>13
  <2>4. QED
    BY <1>9, <1>11, <1>15, <2>1, <2>2, <2>3 DEF Inserted
<1>17. QED
  BY <1>16 DEF f, first

LEMMA GreatestOfRange ==
  ASSUME NEW a \in Int, NEW b \in Int, a <= b
  PROVE  Greatest(a..b) = b
<1>1. b \in a..b /\ \A i \in a..b : i <= b
  OBVIOUS
<1>2. Greatest(a..b) \in a..b /\ \A i \in a..b : i <= Greatest(a..b)
  BY <1>1 DEF Greatest
<1> DEFINE g == Greatest(a..b)
<1>3. g \in Int /\ g <= b /\ b <= g
  BY <1>1, <1>2
<1> HIDE DEF g
<1>4. g = b
  BY <1>3
<1>5. QED
  BY <1>4 DEF g

LEMMA Parts ==
  ASSUME leveled \in Seq(Seq(Block)), Filled(Chain)
  PROVE  \A a \in Nat \ {0}, b \in Nat : b <= Len(Chain) =>
           /\ SubSeq(Chain, a, b) \in Seq(Block)
           /\ Members(SubSeq(Chain, a, b)) = {Chain[j] : j \in a..b}
           /\ Filled(SubSeq(Chain, a, b))
           /\ Ordered(Chain) => Ordered(SubSeq(Chain, a, b))
<1>1. Chain \in Seq(Block)
  BY ChainType
<1>2. QED
  BY <1>1, Part

LEMMA InsertedSpan ==
  ASSUME leveled \in Seq(Seq(Block)), Filled(Chain), NEW content \in Block, KeysOf(content) # {},
         NEW front \in 1..Len(Chain), NEW end \in 1..Len(Chain), front <= end,
         front > 1 => Lower(Chain[front]) <= Lower(content),
         end < Len(Chain) => Lower(Chain[end + 1]) > Greatest(KeysOf(content)),
         NEW merged, MergedFrom(merged, content, front..end), ~CutsEmptyBlock(merged)
  PROVE  Inserted(SubSeq(Chain, 1, front - 1) \o Cut(merged) \o SubSeq(Chain, end + 1, Len(Chain)),
                  content, front..end, {})
<1> DEFINE n == Len(Chain)
           over == front..end
<1>1. Chain \in Seq(Block) /\ n \in Nat /\ DOMAIN Chain = 1..n
  BY ChainType
<1> DEFINE before == SubSeq(Chain, 1, front - 1)
           new == Cut(merged)
           behind == SubSeq(Chain, end + 1, n)
           f == before \o new \o behind
<1>2. over \in SUBSET (1..n) /\ over = front..end
  BY <1>1
<1>3. /\ merged \in Block
      /\ KeysOf(content) \subseteq KeysOf(merged)
      /\ \A k \in KeysOf(content) : merged[k] = content[k]
      /\ \A k \in KeysOf(merged) : k \notin KeysOf(content) =>
           \E i \in over : \/ k \in KeysOf(Chain[i]) /\ merged[k] = Chain[i][k]
                           \/ MakesUp(Chain[i]) /\ merged[k] = MadeUpCell
      /\ \A i \in over : T!InFullPage(Chain[i]) \subseteq KeysOf(merged)
  BY DEF MergedFrom
<1>4. /\ new \in Seq(Block) /\ Ordered(new) /\ Filled(new)
      /\ \A k \in KeysOf(merged) : \E b \in Members(new) : k \in KeysOf(b)
      /\ \A b \in Members(new) : \A k \in KeysOf(b) : k \in KeysOf(merged) /\ b[k] = merged[k]
  <2>1. /\ new \in Seq(Block) /\ Ordered(new) /\ Filled(new)
        /\ \A k \in KeysOf(merged) : \E b \in DOMAIN new : k \in KeysOf(new[b])
        /\ \A b \in DOMAIN new : \A k \in KeysOf(new[b]) : k \in KeysOf(merged) /\ new[b][k] = merged[k]
    BY <1>3, CutFacts
  <2> HIDE DEF new
  <2>2. QED
    BY <2>1 DEF Members
<1>5. /\ before \in Seq(Block) /\ Members(before) = {Chain[j] : j \in 1..front - 1} /\ Filled(before)
      /\ Ordered(Chain) => Ordered(before)
  <2>1. 1 \in Nat \ {0} /\ front - 1 \in Nat /\ front - 1 <= n
    BY <1>1
  <2>2. QED
    BY Zenon, <2>1, Parts
<1>6. /\ behind \in Seq(Block) /\ Members(behind) = {Chain[j] : j \in end + 1..n} /\ Filled(behind)
      /\ Ordered(Chain) => Ordered(behind)
  <2>1. end + 1 \in Nat \ {0} /\ n \in Nat /\ n <= n
    BY <1>1
  <2>2. QED
    BY Zenon, <2>1, Parts
<1> HIDE DEF before, new, behind
<1>7. /\ before \o new \in Seq(Block) /\ Members(before \o new) = Members(before) \cup Members(new)
      /\ Filled(before) /\ Filled(new) => Filled(before \o new)
      /\ /\ Ordered(before) /\ Ordered(new)
         /\ \A x \in Members(before), y \in Members(new) : Below(KeysOf(x), KeysOf(y))
         => Ordered(before \o new)
  BY <1>4, <1>5, Joined
<1>8. /\ f \in Seq(Block) /\ Members(f) = Members(before) \cup Members(new) \cup Members(behind)
      /\ Filled(f)
      /\ /\ Ordered(before) /\ Ordered(new) /\ Ordered(behind)
         /\ \A x \in Members(before), y \in Members(new) : Below(KeysOf(x), KeysOf(y))
         /\ \A x \in Members(before), y \in Members(behind) : Below(KeysOf(x), KeysOf(y))
         /\ \A x \in Members(new), y \in Members(behind) : Below(KeysOf(x), KeysOf(y))
         => Ordered(f)
  <2> DEFINE a == before \o new
  <2>1. /\ a \in Seq(Block) /\ Filled(a) /\ Members(a) = Members(before) \cup Members(new)
        /\ /\ Ordered(before) /\ Ordered(new)
           /\ \A x \in Members(before), y \in Members(new) : Below(KeysOf(x), KeysOf(y))
           => Ordered(a)
    BY <1>4, <1>5, <1>7
  <2> HIDE DEF a
  <2>2. /\ a \o behind \in Seq(Block) /\ Members(a \o behind) = Members(a) \cup Members(behind)
        /\ Filled(a) /\ Filled(behind) => Filled(a \o behind)
        /\ /\ Ordered(a) /\ Ordered(behind)
           /\ \A x \in Members(a), y \in Members(behind) : Below(KeysOf(x), KeysOf(y))
           => Ordered(a \o behind)
    BY <1>6, <2>1, Joined
  <2>3. f = a \o behind
    BY DEF a
  <2> HIDE DEF f
  <2>4. QED
    BY <1>6, <2>1, <2>2, <2>3
<1> HIDE DEF f
<1>9. ASSUME Ordered(Chain), \A i \in over : ~MakesUp(Chain[i])
       PROVE  /\ \A j \in 1..front - 1 : Below(KeysOf(Chain[j]), KeysOf(merged))
              /\ \A j \in end + 1..n : Below(KeysOf(merged), KeysOf(Chain[j]))
  <2>1. \A k \in KeysOf(merged) : k \in KeysOf(content) \/ \E i \in front..end : k \in KeysOf(Chain[i])
    BY <1>3, <1>9
  <2> DEFINE S == KeysOf(merged)
  <2>2. \A k \in S : k \in KeysOf(content) \/ \E i \in front..end : k \in KeysOf(Chain[i])
    BY <2>1
  <2> HIDE DEF S
  <2>3. /\ \A j \in 1..front - 1 : Below(KeysOf(Chain[j]), S)
        /\ \A j \in end + 1 .. Len(Chain) : Below(S, KeysOf(Chain[j]))
    BY <1>9, <2>2, Outside
  <2>4. QED
    BY <2>3 DEF S
<1>10. ASSUME Ordered(Chain), \A i \in over : ~MakesUp(Chain[i]) PROVE Ordered(f)
  <2>1. \A x \in Members(before), y \in Members(new) : Below(KeysOf(x), KeysOf(y))
    BY <1>4, <1>5, <1>9, <1>10 DEF Below
  <2>2. \A x \in Members(new), y \in Members(behind) : Below(KeysOf(x), KeysOf(y))
    BY <1>4, <1>6, <1>9, <1>10 DEF Below
  <2>3. \A i \in 1..front - 1, j \in end + 1..n : i \in 1..n /\ j \in 1..n /\ i < j
    BY <1>1
  <2>4. \A i \in 1..front - 1, j \in end + 1..n : Below(KeysOf(Chain[i]), KeysOf(Chain[j]))
    BY <1>1, <1>10, <2>3 DEF Ordered
  <2>5. \A x \in Members(before), y \in Members(behind) : Below(KeysOf(x), KeysOf(y))
    BY <1>5, <1>6, <2>4
  <2>6. QED
    BY <1>4, <1>5, <1>6, <1>8, <1>10, <2>1, <2>2, <2>5
<1>11. ASSUME Ordered(Chain), \A i \in over : ~MakesUp(Chain[i]),
              NEW b \in Members(f), NEW k \in KeysOf(b), k \in KeysOf(content)
       PROVE  b[k] = content[k]
  <2>1. CASE b \in Members(new)
    BY <1>3, <1>4, <1>11, <2>1
  <2>2. k \in KeysOf(merged) /\ k \in Int
    <3>1. KeysOf(content) \in SUBSET Keys /\ Keys \subseteq Int
      BY BlockFacts, KeysAssumption
    <3>2. QED
      BY <1>3, <1>11, <3>1
  <2>3. ASSUME NEW j \in 1..front - 1, b = Chain[j] PROVE FALSE
    <3>1. k < k
      BY <1>9, <1>11, <2>2, <2>3 DEF Below
    <3>2. QED
      BY <2>2, <3>1
  <2>4. ASSUME NEW j \in end + 1..n, b = Chain[j] PROVE FALSE
    <3>1. k < k
      BY <1>9, <1>11, <2>2, <2>4 DEF Below
    <3>2. QED
      BY <2>2, <3>1
  <2>5. QED
    BY <1>5, <1>6, <1>8, <2>1, <2>3, <2>4
<1>12. ASSUME NEW j \in 1..n, NEW k \in T!InFullPage(Chain[j]) PROVE \E b \in Members(f) : k \in KeysOf(b)
  <2>1. CASE j \in over
    <3>1. k \in KeysOf(merged)
      BY <1>3, <2>1
    <3>2. QED
      BY <1>4, <1>8, <3>1
  <2>2. CASE j \notin over
    <3>1. j \in 1..front - 1 \/ j \in end + 1..n
      BY <1>2, <2>2
    <3>2. Chain[j] \in Members(f)
      BY <1>5, <1>6, <1>8, <3>1
    <3>3. Chain[j] \in Block
      BY <1>1
    <3>4. k \in KeysOf(Chain[j])
      BY <3>3, FullPages
    <3>5. QED
      BY <3>2, <3>4
  <2>3. QED
    BY <2>1, <2>2
<1>13. \A b \in Members(Chain) : \A k \in T!InFullPage(b) : \E c \in Members(f) : k \in KeysOf(c)
  BY <1>1, <1>12 DEF Members
<1>14. \A k \in KeysOf(content) : \E b \in Members(f) : k \in KeysOf(b)
  BY <1>3, <1>4, <1>8
<1>15. \A j \in 1..n : Chain[j] \in Members(Chain)
  BY <1>1 DEF Members
<1>16. ASSUME NEW b \in Members(f), NEW k \in KeysOf(b)
       PROVE  \/ k \in KeysOf(content) /\ b[k] = content[k]
              \/ \E i \in over : MakesUp(Chain[i]) /\ b[k] = MadeUpCell
              \/ \E old \in Members(Chain) : k \in KeysOf(old) /\ b[k] = old[k]
  <2>1. CASE b \in Members(new)
    <3>1. k \in KeysOf(merged) /\ b[k] = merged[k]
      BY <1>4, <2>1
    <3>2. CASE k \in KeysOf(content)
      BY <1>3, <3>1, <3>2
    <3>3. ASSUME k \notin KeysOf(content), NEW i \in over,
                 \/ k \in KeysOf(Chain[i]) /\ merged[k] = Chain[i][k]
                 \/ MakesUp(Chain[i]) /\ merged[k] = MadeUpCell
          PROVE  \/ \E j \in over : MakesUp(Chain[j]) /\ b[k] = MadeUpCell
                 \/ \E old \in Members(Chain) : k \in KeysOf(old) /\ b[k] = old[k]
      <4>1. Chain[i] \in Members(Chain)
        BY <1>2, <1>15
      <4>2. QED
        BY <3>1, <3>3, <4>1
    <3>4. QED
      BY <1>3, <3>1, <3>2, <3>3
  <2>2. CASE b \in Members(before) \/ b \in Members(behind)
    <3>1. \A j \in 1..n : j \in 1..front - 1 \/ j \in end + 1..n => Chain[j] \in Members(Chain)
      BY <1>15
    <3>2. \A j : j \in 1..front - 1 \/ j \in end + 1..n => j \in 1..n
      BY <1>1
    <3>3. b \in Members(Chain)
      BY <1>5, <1>6, <2>2, <3>1, <3>2
    <3>4. QED
      BY <3>3
  <2>3. QED
    BY <1>8, <2>1, <2>2
<1>17. Inserted(f, content, over, {})
  BY <1>8, <1>10, <1>11, <1>13, <1>14, <1>16 DEF Inserted
<1>18. QED
  BY <1>17 DEF f, before, new, behind
-----------------------------------------------------------------------------
(* A batch arrives *)

\* What an arrival that does not end the process does: content is what moves
\* down, over are the blocks it is merged with, chain is what the receiver holds.
Arrived(batch, starts, content, over, chain) ==
  /\ starts \in Starts /\ ~FlushEnds(starts)
  /\ content \in Block /\ KeysOf(batch) \subseteq KeysOf(content)
  /\ \A k \in KeysOf(content) :
       \/ k \in KeysOf(batch) /\ content[k] = batch[k]
       \/ content[k] = MadeUpCell
       \/ \E i \in DOMAIN leveled : \E j \in DOMAIN leveled[i] :
            k \in KeysOf(leveled[i][j]) /\ content[k] = leveled[i][j][k]
  /\ \A i \in 1..Receiver - 1 : \A j \in Flushed(i, starts[i]) :
       T!InFullPage(leveled[i][j]) \subseteq KeysOf(content)
  /\ Receiver = 1 => \A k \in KeysOf(content) : k \in KeysOf(batch) /\ content[k] = batch[k]
  /\ Inserted(chain, content, over, dropped')
  /\ dropped' \subseteq Keys
  /\ leveled' = LevelsWith(chain, starts)
  /\ handed' = [k \in Keys |-> IF batch[k] # None THEN batch[k].ver ELSE handed[k]]
  /\ madeUp' \in BOOLEAN
  /\ ~madeUp' => ~madeUp /\ \A i \in over : ~MakesUp(Chain[i])
  /\ UNCHANGED up

LEMMA FilledChain ==
  ASSUME leveled \in Seq(Seq(Block)), \A i \in DOMAIN leveled : Filled(leveled[i])
  PROVE  Filled(Chain)
<1>1. Receiver \in 1..Len(leveled) + 1 /\ Len(leveled) \in Nat
  BY ReceiverFacts
<1>2. CASE Receiver > Len(leveled)
  <2>1. Chain = <<>>
    BY <1>2 DEF Chain
  <2>2. QED
    BY <2>1 DEF Filled
<1>3. CASE Receiver <= Len(leveled)
  <2>1. Receiver \in DOMAIN leveled /\ Chain = leveled[Receiver]
    BY <1>1, <1>3 DEF Chain
  <2>2. QED
    BY <2>1
<1>4. QED
  BY <1>1, <1>2, <1>3

LEMMA InsertCases ==
  ASSUME leveled \in Seq(Seq(Block)), \A i \in DOMAIN leveled : Filled(leveled[i]),
         madeUp \in BOOLEAN, NEW batch, NEW starts, NEW content \in Block, KeysOf(content) # {},
         Insert(batch, starts, content), ~End
  PROVE  \E over, chain :
           /\ Inserted(chain, content, over, dropped')
           /\ dropped' \subseteq Keys
           /\ leveled' = LevelsWith(chain, starts)
           /\ handed' = [k \in Keys |-> IF batch[k] # None THEN batch[k].ver ELSE handed[k]]
           /\ madeUp' \in BOOLEAN
           /\ ~madeUp' => ~madeUp /\ \A i \in over : ~MakesUp(Chain[i])
           /\ UNCHANGED up
<1> DEFINE over == Overlapped(content)
           blocks == {Chain[i] : i \in over}
           left == Lower(content)
           right == Greatest(KeysOf(content))
<1>1. /\ Chain \in Seq(Block) /\ Len(Chain) \in Nat /\ DOMAIN Chain = 1..Len(Chain)
      /\ Chain = <<>> <=> Len(Chain) = 0
  BY ChainType
<1>2. Filled(Chain)
  BY FilledChain
<1>3. PICK merged \in {Over(content, LoadBlocks(Chain, over, made)) : made \in Made(blocks)} :
        IF InsertEnds(content, merged) THEN End
        ELSE /\ \/ InsertIntoEmpty(starts, content)
                \/ InsertBefore(starts, content)
                \/ InsertOver(starts, over, merged)
             /\ Note(batch, FlushedBlocks(starts) \cup blocks)
             /\ UNCHANGED up
  BY Zenon DEF Insert
<1>4. PICK made \in Made(blocks) : merged = Over(content, LoadBlocks(Chain, over, made))
  BY Zenon
<1>5. made \in Keys
  BY KeysAssumption DEF Made
<1>6. /\ ~InsertBehindEnds(content) /\ ~CutsEmptyBlock(merged)
      /\ \/ InsertIntoEmpty(starts, content)
         \/ InsertBefore(starts, content)
         \/ InsertOver(starts, over, merged)
      /\ Note(batch, FlushedBlocks(starts) \cup blocks)
      /\ UNCHANGED up
  BY Zenon, <1>3 DEF InsertEnds
<1>7. /\ handed' = [k \in Keys |-> IF batch[k] # None THEN batch[k].ver ELSE handed[k]]
      /\ madeUp' \in BOOLEAN
      /\ ~madeUp' => ~madeUp /\ \A i \in over : ~MakesUp(Chain[i])
  <2>1. /\ handed' = [k \in Keys |-> IF batch[k] # None THEN batch[k].ver ELSE handed[k]]
        /\ madeUp' = (madeUp \/ \E block \in FlushedBlocks(starts) \cup blocks : MakesUp(block))
    BY <1>6 DEF Note
  <2>2. \A i \in over : Chain[i] \in FlushedBlocks(starts) \cup blocks
    OBVIOUS
  <2> HIDE DEF blocks, over
  <2>3. QED
    BY <2>1, <2>2
<1>8. over = {} => merged = content
  <2>1. ASSUME over = {} PROVE merged = content
    <3>1. {} \in SUBSET (1..Len(Chain))
      OBVIOUS
    <3>2. MergedFrom(Over(content, LoadBlocks(Chain, {}, made)), content, {})
      BY <1>5, <3>1, MergedFacts
    <3>3. Over(content, LoadBlocks(Chain, {}, made)) = content
      BY Zenon, <3>2 DEF MergedFrom
    <3>4. QED
      BY <1>4, <2>1, <3>3
  <2>2. QED
    BY <2>1
<1>9. CASE InsertIntoEmpty(starts, content)
  <2>1. Chain = <<>> /\ leveled' = LevelsWith(Cut(content), starts) /\ dropped' = {}
    BY <1>9 DEF InsertIntoEmpty
  <2>2. over = {}
    <3>1. Above(left) = {} /\ Above(right) = {}
      BY <2>1 DEF Above
    <3>2. Front(left, right) = 0 /\ Back(right) = 0
      BY <2>1, <3>1 DEF Front, Back
    <3>3. QED
      BY <3>2 DEF Overlapped
  <2>3. ~CutsEmptyBlock(content)
    BY <1>6, <1>8, <2>2
  <2>4. Inserted(Cut(content), content, {}, {})
    BY <2>1, <2>3, InsertedEmpty
  <2>5. ~madeUp' => ~madeUp /\ \A i \in {} : ~MakesUp(Chain[i])
    BY <1>7
  <2>6. QED
    BY Zenon, <1>6, <1>7, <2>1, <2>4, <2>5
<1>10. CASE InsertBefore(starts, content)
  <2> DEFINE cut == KeysOf(content) \ KeysOf(Cut(content)[1])
  <2>1. /\ Chain # <<>> /\ Front(left, right) = 1 /\ Back(right) = 1
        /\ leveled' = LevelsWith(<<Cut(content)[1]>> \o Chain, starts)
        /\ dropped' = cut
    BY <1>10 DEF InsertBefore
  <2>2. over = {}
    BY <2>1 DEF Overlapped
  <2>3. ~CutsEmptyBlock(content)
    BY <1>6, <1>8, <2>2
  <2>4. Inserted(<<Cut(content)[1]>> \o Chain, content, {}, cut)
    BY <1>2, <2>1, <2>3, InsertedBefore
  <2>5. ~madeUp' => ~madeUp /\ \A i \in {} : ~MakesUp(Chain[i])
    BY <1>7
  <2>6. cut \subseteq Keys
    BY BlockFacts
  <2> HIDE DEF cut
  <2> DEFINE chain == <<Cut(content)[1]>> \o Chain
  <2>7. Inserted(chain, content, {}, dropped') /\ dropped' \subseteq Keys
    BY Zenon, <2>1, <2>4, <2>6
  <2>8. leveled' = LevelsWith(chain, starts)
    BY <2>1
  <2> HIDE DEF chain
  <2>9. QED
    BY Zenon, <1>6, <1>7, <2>5, <2>7, <2>8
<1>11. CASE InsertOver(starts, over, merged)
  <2>1. /\ over # {}
        /\ leveled' = LevelsWith(SubSeq(Chain, 1, Least(over) - 1) \o Cut(merged)
                                   \o SubSeq(Chain, Greatest(over) + 1, Len(Chain)), starts)
        /\ dropped' = {}
    BY <1>11 DEF InsertOver
  <2>2. PICK front, end \in 1..Len(Chain) :
          /\ front <= end /\ over = front..end
          /\ front > 1 => Lower(Chain[front]) <= left
          /\ end < Len(Chain) => Lower(Chain[end + 1]) > right
    BY <1>2, <1>6, <2>1, Span
  <2>3. Least(front..end) = front /\ Greatest(front..end) = end
    <3>1. front \in Nat /\ front \in Int /\ end \in Int
      BY <1>1
    <3>2. QED
      BY <2>2, <3>1, LeastOfRange, GreatestOfRange
  <2>4. Least(over) = front /\ Greatest(over) = end
    BY Zenon, <2>2, <2>3
  <2> HIDE DEF over, left, right
  <2>5. MergedFrom(Over(content, LoadBlocks(Chain, front..end, made)), content, front..end)
    <3>1. front..end \in SUBSET (1..Len(Chain))
      BY <1>1
    <3>2. \A I \in SUBSET (1..Len(Chain)) : MergedFrom(Over(content, LoadBlocks(Chain, I, made)), content, I)
      BY <1>5, MergedFacts
    <3>3. QED
      BY Zenon, <3>1, <3>2
  <2>6. MergedFrom(merged, content, front..end)
    BY Zenon, <1>4, <2>2, <2>5
  <2>7. \A m : MergedFrom(m, content, front..end) /\ ~CutsEmptyBlock(m)
               => Inserted(SubSeq(Chain, 1, front - 1) \o Cut(m) \o SubSeq(Chain, end + 1, Len(Chain)),
                           content, front..end, {})
    BY <1>2, <2>2, InsertedSpan DEF left, right
  <2>8. Inserted(SubSeq(Chain, 1, front - 1) \o Cut(merged) \o SubSeq(Chain, end + 1, Len(Chain)),
                 content, front..end, {})
    BY Zenon, <1>6, <2>6, <2>7
  <2>9. leveled' = LevelsWith(SubSeq(Chain, 1, front - 1) \o Cut(merged)
                                \o SubSeq(Chain, end + 1, Len(Chain)), starts)
    BY Zenon, <2>1, <2>4
  <2>10. ~madeUp' => ~madeUp /\ \A i \in front..end : ~MakesUp(Chain[i])
    BY Zenon, <1>7, <2>2
  <2>11. dropped' \subseteq Keys /\ Inserted(SubSeq(Chain, 1, front - 1) \o Cut(merged)
             \o SubSeq(Chain, end + 1, Len(Chain)), content, front..end, dropped')
    BY Zenon, <2>1, <2>8
  <2>12. QED
    BY Zenon, <1>6, <1>7, <2>9, <2>10, <2>11
<1>12. QED
  BY <1>6, <1>9, <1>10, <1>11

LEMMA ArriveCases ==
  ASSUME leveled \in Seq(Seq(Block)), \A i \in DOMAIN leveled : Filled(leveled[i]),
         madeUp \in BOOLEAN, NEW batch \in Block, KeysOf(batch) # {}, Arrive(batch), ~End
  PROVE  \E starts, content, over, chain : Arrived(batch, starts, content, over, chain)
<1>1. PICK starts \in Starts :
        IF FlushEnds(starts) THEN End
        ELSE \E moved \in {Moved(starts, made) : made \in Made(FlushedBlocks(starts))} :
             \E content \in {Content(batch, moved, older) :
                             older \in SUBSET (KeysOf(batch) \cap KeysOf(moved))} :
               Insert(batch, starts, content)
  BY Zenon DEF Arrive
<1>2. ~FlushEnds(starts)
  BY Zenon, <1>1
<1>3. PICK made \in Made(FlushedBlocks(starts)) :
        \E content \in {Content(batch, Moved(starts, made), older) :
                        older \in SUBSET (KeysOf(batch) \cap KeysOf(Moved(starts, made)))} :
          Insert(batch, starts, content)
  BY Zenon, <1>1, <1>2
<1> DEFINE moved == Moved(starts, made)
<1>4. PICK older \in SUBSET (KeysOf(batch) \cap KeysOf(moved)) :
        Insert(batch, starts, Content(batch, moved, older))
  BY Zenon, <1>3
<1>5. made \in Keys
  BY KeysAssumption DEF Made
<1>6. /\ moved \in Block
      /\ \A i \in 1..Receiver - 1 : \A j \in Flushed(i, starts[i]) :
           T!InFullPage(leveled[i][j]) \subseteq KeysOf(moved)
      /\ \A k \in KeysOf(moved) :
           \/ moved[k] = MadeUpCell
           \/ \E i \in DOMAIN leveled : \E j \in DOMAIN leveled[i] :
                k \in KeysOf(leveled[i][j]) /\ moved[k] = leveled[i][j][k]
      /\ Receiver = 1 => KeysOf(moved) = {}
  BY <1>2, <1>5, MovedFacts
<1> HIDE DEF moved
<1> DEFINE content == Content(batch, moved, older)
<1>7. /\ content \in Block
      /\ KeysOf(content) = KeysOf(batch) \cup KeysOf(moved)
      /\ \A k \in KeysOf(content) : \/ k \in KeysOf(batch) /\ content[k] = batch[k]
                                    \/ k \in KeysOf(moved) /\ content[k] = moved[k]
  BY <1>6, ContentFacts
<1>8. Insert(batch, starts, content)
  BY <1>4
<1> HIDE DEF content
<1>9. KeysOf(content) # {}
  BY <1>7
<1>10. PICK over, chain :
         /\ Inserted(chain, content, over, dropped')
         /\ dropped' \subseteq Keys
         /\ leveled' = LevelsWith(chain, starts)
         /\ handed' = [k \in Keys |-> IF batch[k] # None THEN batch[k].ver ELSE handed[k]]
         /\ madeUp' \in BOOLEAN
         /\ ~madeUp' => ~madeUp /\ \A i \in over : ~MakesUp(Chain[i])
         /\ UNCHANGED up
  BY <1>7, <1>8, <1>9, InsertCases
<1>11. \A k \in KeysOf(content) :
         \/ k \in KeysOf(batch) /\ content[k] = batch[k]
         \/ content[k] = MadeUpCell
         \/ \E i \in DOMAIN leveled : \E j \in DOMAIN leveled[i] :
              k \in KeysOf(leveled[i][j]) /\ content[k] = leveled[i][j][k]
  BY <1>6, <1>7
<1>12. \A i \in 1..Receiver - 1 : \A j \in Flushed(i, starts[i]) :
         T!InFullPage(leveled[i][j]) \subseteq KeysOf(content)
  BY <1>6, <1>7
<1>13. Receiver = 1 => \A k \in KeysOf(content) : k \in KeysOf(batch) /\ content[k] = batch[k]
  BY <1>6, <1>7
<1>14. KeysOf(batch) \subseteq KeysOf(content)
  BY <1>7
<1>15. Arrived(batch, starts, content, over, chain)
  BY Zenon, <1>2, <1>7, <1>10, <1>11, <1>12, <1>13, <1>14 DEF Arrived
<1>16. QED
  BY Zenon, <1>15
-----------------------------------------------------------------------------
(* The inductive invariant *)

\* What the levels are: lists of blocks that are not empty, in key order until
\* an entry is made up.
LevelsShape ==
  /\ leveled \in Seq(Seq(Block)) /\ Len(leveled) >= 1
  /\ up \in BOOLEAN /\ madeUp \in BOOLEAN /\ dropped \subseteq Keys /\ handed \in [Keys -> Nat]
  /\ \A i \in DOMAIN leveled : Filled(leveled[i])
  /\ ~madeUp => \A i \in DOMAIN leveled : Ordered(leveled[i])

LevelsInv == LevelsShape /\ FirstLevelIsNewest

\* The receiver holds the list that the content was inserted into, the levels
\* above it what the flushes kept, and those below it what they held.
LEMMA ArrivedLevels ==
  ASSUME LevelsShape, NEW batch, NEW starts, NEW content, NEW over, NEW chain,
         Arrived(batch, starts, content, over, chain)
  PROVE  /\ leveled' \in Seq(Seq(Block)) /\ Len(leveled') >= 1
         /\ Receiver \in DOMAIN leveled' /\ leveled'[Receiver] = chain
         /\ DOMAIN leveled \subseteq DOMAIN leveled'
         /\ \A i \in DOMAIN leveled' :
              \/ i \in 1..Receiver - 1 /\ i \in DOMAIN leveled /\ leveled'[i] = Kept(i, starts[i])
              \/ i = Receiver /\ leveled'[i] = chain
              \/ i > Receiver /\ i \in DOMAIN leveled /\ leveled'[i] = leveled[i]
<1> DEFINE new == LevelsWith(chain, starts)
<1>1. /\ leveled \in Seq(Seq(Block)) /\ Len(leveled) >= 1 /\ Len(leveled) \in Nat
      /\ DOMAIN leveled = 1..Len(leveled)
  BY DEF LevelsShape
<1>2. starts \in Starts /\ ~FlushEnds(starts) /\ chain \in Seq(Block)
  BY DEF Arrived, Inserted
<1>3. /\ new \in Seq(Seq(Block)) /\ Receiver <= Len(new) /\ Len(leveled) <= Len(new)
      /\ \A i \in DOMAIN new : i \in DOMAIN leveled \/ i = Receiver
      /\ \A i \in 1..Receiver - 1 : new[i] = Kept(i, starts[i])
      /\ new[Receiver] = chain
      /\ \A i \in DOMAIN leveled : i > Receiver => new[i] = leveled[i]
  <2>1. leveled \in Seq(Seq(Block))
    BY <1>1
  <2>2. starts \in Starts /\ ~FlushEnds(starts) /\ chain \in Seq(Block)
    BY <1>2
  <2>3. QED
    BY SMTT(40), <2>1, <2>2, LevelsWithFacts
<1>4. leveled' = new
  BY DEF Arrived
<1> HIDE DEF new
<1>5. Receiver \in 1..Len(leveled) + 1
  BY <1>1, ReceiverFacts
<1>6. Len(new) \in Nat /\ DOMAIN new = 1..Len(new)
  BY <1>3
<1>7. Receiver \in DOMAIN new /\ DOMAIN leveled \subseteq DOMAIN new /\ Len(new) >= 1
  BY <1>1, <1>3, <1>5, <1>6
<1>8. ASSUME NEW i \in DOMAIN new
      PROVE  \/ i \in 1..Receiver - 1 /\ i \in DOMAIN leveled /\ new[i] = Kept(i, starts[i])
             \/ i = Receiver /\ new[i] = chain
             \/ i > Receiver /\ i \in DOMAIN leveled /\ new[i] = leveled[i]
  <2>1. i \in Nat /\ i >= 1
    BY <1>6
  <2>2. CASE i < Receiver
    <3>1. i \in 1..Receiver - 1 /\ i # Receiver
      BY <1>5, <2>1, <2>2
    <3>2. QED
      BY <1>3, <3>1
  <2>3. CASE i > Receiver
    <3>1. i # Receiver
      BY <1>5, <2>1, <2>3
    <3>2. QED
      BY <1>3, <2>3, <3>1
  <2>4. QED
    BY <1>3, <1>5, <2>1, <2>2, <2>3
<1>9. QED
  BY <1>3, <1>4, <1>7, <1>8

\* The list of the receiver is one of the levels, or empty.
LEMMA ChainInLevels ==
  ASSUME LevelsShape
  PROVE  /\ ~madeUp => Ordered(Chain)
         /\ \A b \in Members(Chain) : \E i \in DOMAIN leveled : \E j \in DOMAIN leveled[i] :
              i = Receiver /\ b = leveled[i][j]
<1>1. /\ leveled \in Seq(Seq(Block)) /\ Len(leveled) \in Nat
      /\ DOMAIN leveled = 1..Len(leveled)
  BY DEF LevelsShape
<1>2. Receiver \in 1..Len(leveled) + 1
  BY <1>1, ReceiverFacts
<1>3. CASE Receiver > Len(leveled)
  <2>1. Chain = <<>>
    BY <1>3 DEF Chain
  <2>2. DOMAIN Chain = {}
    BY <2>1
  <2>3. QED
    BY <2>2 DEF Ordered, Members
<1>4. CASE Receiver <= Len(leveled)
  <2>1. Receiver \in DOMAIN leveled /\ Chain = leveled[Receiver]
    BY <1>1, <1>2, <1>4 DEF Chain
  <2>2. ~madeUp => Ordered(Chain)
    BY <2>1 DEF LevelsShape
  <2>3. \A b \in Members(Chain) : \E j \in DOMAIN leveled[Receiver] : b = leveled[Receiver][j]
    BY <2>1 DEF Members
  <2>4. QED
    BY <2>1, <2>2, <2>3
<1>5. QED
  BY <1>1, <1>2, <1>3, <1>4

\* What a flush keeps of a level above the receiver.
LEMMA KeptLevel ==
  ASSUME LevelsShape, NEW starts \in Starts, ~FlushEnds(starts), NEW i \in 1..Receiver - 1
  PROVE  /\ i \in DOMAIN leveled
         /\ Filled(Kept(i, starts[i]))
         /\ Ordered(leveled[i]) => Ordered(Kept(i, starts[i]))
         /\ \A j \in DOMAIN Kept(i, starts[i]) :
              \E m \in DOMAIN leveled[i] : Kept(i, starts[i])[j] = leveled[i][m]
         /\ \A m \in DOMAIN leveled[i] :
              \/ m \in Flushed(i, starts[i])
              \/ \E j \in DOMAIN Kept(i, starts[i]) : Kept(i, starts[i])[j] = leveled[i][m]
<1>1. leveled \in Seq(Seq(Block))
  BY DEF LevelsShape
<1>2. i \in DOMAIN leveled /\ TooLarge(i) /\ Threshold(i) > 0 /\ starts[i] \in 0..Threshold(i)
  BY <1>1, FlushRoom
<1>3. Filled(leveled[i])
  BY <1>2 DEF LevelsShape
<1>4. \A start \in 0..Threshold(i) :
         /\ Filled(leveled[i]) => Filled(Kept(i, start))
         /\ Ordered(leveled[i]) => Ordered(Kept(i, start))
         /\ \A j \in DOMAIN Kept(i, start) : \E m \in DOMAIN leveled[i] : Kept(i, start)[j] = leveled[i][m]
         /\ \A m \in DOMAIN leveled[i] :
              m \in Flushed(i, start) \/ \E j \in DOMAIN Kept(i, start) : Kept(i, start)[j] = leveled[i][m]
  BY <1>1, <1>2, KeptFacts
<1>5. QED
  BY Zenon, <1>2, <1>3, <1>4

LEMMA ArrivedShape ==
  ASSUME LevelsShape, NEW batch \in Block, NEW starts, NEW content, NEW over, NEW chain,
         Arrived(batch, starts, content, over, chain)
  PROVE  LevelsShape'
<1>1. /\ leveled' \in Seq(Seq(Block)) /\ Len(leveled') >= 1
      /\ \A i \in DOMAIN leveled' :
           \/ i \in 1..Receiver - 1 /\ i \in DOMAIN leveled /\ leveled'[i] = Kept(i, starts[i])
           \/ i = Receiver /\ leveled'[i] = chain
           \/ i > Receiver /\ i \in DOMAIN leveled /\ leveled'[i] = leveled[i]
  BY ArrivedLevels
<1>2. /\ starts \in Starts /\ ~FlushEnds(starts) /\ Filled(chain)
      /\ Ordered(Chain) /\ (\A i \in over : ~MakesUp(Chain[i])) => Ordered(chain)
      /\ dropped' \subseteq Keys
      /\ handed' = [k \in Keys |-> IF batch[k] # None THEN batch[k].ver ELSE handed[k]]
      /\ madeUp' \in BOOLEAN /\ up' = up
      /\ ~madeUp' => ~madeUp /\ \A i \in over : ~MakesUp(Chain[i])
  BY DEF Arrived, Inserted
<1>3. ASSUME NEW i \in DOMAIN leveled'
      PROVE  Filled(leveled'[i]) /\ (~madeUp' => Ordered(leveled'[i]))
  <2>1. CASE i \in 1..Receiver - 1 /\ i \in DOMAIN leveled /\ leveled'[i] = Kept(i, starts[i])
    <3>1. Filled(Kept(i, starts[i])) /\ (Ordered(leveled[i]) => Ordered(Kept(i, starts[i])))
      BY <1>2, <2>1, KeptLevel
    <3>2. ~madeUp => Ordered(leveled[i])
      BY <2>1 DEF LevelsShape
    <3>3. QED
      BY <1>2, <2>1, <3>1, <3>2
  <2>2. CASE i = Receiver /\ leveled'[i] = chain
    <3>1. ~madeUp => Ordered(Chain)
      BY ChainInLevels
    <3>2. QED
      BY <1>2, <2>2, <3>1
  <2>3. CASE i > Receiver /\ i \in DOMAIN leveled /\ leveled'[i] = leveled[i]
    BY <1>2, <2>3 DEF LevelsShape
  <2>4. QED
    BY <1>1, <2>1, <2>2, <2>3
<1>4. handed' \in [Keys -> Nat]
  <2>1. ASSUME NEW k \in Keys
        PROVE  (IF batch[k] # None THEN batch[k].ver ELSE handed[k]) \in Nat
    <3>1. batch[k] \in T!Cell \cup {None} /\ handed[k] \in Nat
      BY BlockFacts DEF LevelsShape
    <3>2. \A c \in T!Cell : c.ver \in Nat
      BY DEF T!Cell
    <3>3. QED
      BY <3>1, <3>2
  <2>2. QED
    BY <1>2, <2>1
<1>5. up' \in BOOLEAN
  BY <1>2 DEF LevelsShape
<1>6. QED
  BY <1>1, <1>2, <1>3, <1>4, <1>5 DEF LevelsShape, Filled, Ordered
-----------------------------------------------------------------------------
(* Where the copies of a key come from, and where they go *)

\* Some block of these levels holds the copy c of k.
Copied(levels, k, c) ==
  \E i \in DOMAIN levels : \E j \in DOMAIN levels[i] :
    k \in KeysOf(levels[i][j]) /\ c = levels[i][j][k]

LEMMA CopiesAre ==
  ASSUME NEW k \in Keys
  PROVE  \A c : c \in Copies(k) <=> Copied(leveled, k, c)
BY DEF Copies, CopiesIn, Blocks, Copied, KeysOf, T!KeysOf, None

LEMMA CopiesNextAre ==
  ASSUME NEW k \in Keys
  PROVE  \A c : c \in Copies(k)' <=> Copied(leveled', k, c)
BY DEF Copies, CopiesIn, Blocks, Copied, KeysOf, T!KeysOf, None

\* A copy that is in the levels after an arrival was there, arrived, or is made up.
LEMMA ArrivedCopies ==
  ASSUME LevelsShape, NEW batch, NEW starts, NEW content, NEW over, NEW chain,
         Arrived(batch, starts, content, over, chain),
         NEW k \in Keys, NEW c, Copied(leveled', k, c)
  PROVE  \/ Copied(leveled, k, c)
         \/ k \in KeysOf(batch) /\ c = batch[k]
         \/ c = MadeUpCell
<1>1. PICK i \in DOMAIN leveled' : \E j \in DOMAIN leveled'[i] :
        k \in KeysOf(leveled'[i][j]) /\ c = leveled'[i][j][k]
  BY DEF Copied
<1>2. PICK j \in DOMAIN leveled'[i] : k \in KeysOf(leveled'[i][j]) /\ c = leveled'[i][j][k]
  BY <1>1
<1>3. starts \in Starts /\ ~FlushEnds(starts)
  BY DEF Arrived
<1>4. CASE i \in 1..Receiver - 1 /\ i \in DOMAIN leveled /\ leveled'[i] = Kept(i, starts[i])
  <2>1. \A n \in DOMAIN Kept(i, starts[i]) :
          \E m \in DOMAIN leveled[i] : Kept(i, starts[i])[n] = leveled[i][m]
    BY <1>3, <1>4, KeptLevel
  <2>2. PICK m \in DOMAIN leveled[i] : leveled'[i][j] = leveled[i][m]
    BY <1>2, <1>4, <2>1
  <2>3. QED
    BY <1>2, <1>4, <2>2 DEF Copied
<1>5. CASE i = Receiver /\ leveled'[i] = chain
  <2>1. \A b \in Members(chain) : \A m \in KeysOf(b) :
          \/ m \in KeysOf(content) /\ b[m] = content[m]
          \/ \E n \in over : MakesUp(Chain[n]) /\ b[m] = MadeUpCell
          \/ \E old \in Members(Chain) : m \in KeysOf(old) /\ b[m] = old[m]
    BY DEF Arrived, Inserted
  <2>2. chain[j] \in Members(chain) /\ k \in KeysOf(chain[j]) /\ c = chain[j][k]
    BY <1>2, <1>5 DEF Members
  <2>3. \/ k \in KeysOf(content) /\ c = content[k]
        \/ c = MadeUpCell
        \/ \E old \in Members(Chain) : k \in KeysOf(old) /\ c = old[k]
    BY <2>1, <2>2
  <2>4. CASE k \in KeysOf(content) /\ c = content[k]
    <3>1. \A m \in KeysOf(content) :
            \/ m \in KeysOf(batch) /\ content[m] = batch[m]
            \/ content[m] = MadeUpCell
            \/ \E n \in DOMAIN leveled : \E p \in DOMAIN leveled[n] :
                 m \in KeysOf(leveled[n][p]) /\ content[m] = leveled[n][p][m]
      BY DEF Arrived
    <3>2. QED
      BY <2>4, <3>1 DEF Copied
  <2>5. ASSUME NEW old \in Members(Chain), k \in KeysOf(old), c = old[k] PROVE Copied(leveled, k, c)
    BY <2>5, ChainInLevels DEF Copied
  <2>6. QED
    BY <2>3, <2>4, <2>5
<1>6. CASE i > Receiver /\ i \in DOMAIN leveled /\ leveled'[i] = leveled[i]
  BY <1>2, <1>6 DEF Copied
<1>7. \/ i \in 1..Receiver - 1 /\ i \in DOMAIN leveled /\ leveled'[i] = Kept(i, starts[i])
      \/ i = Receiver /\ leveled'[i] = chain
      \/ i > Receiver /\ i \in DOMAIN leveled /\ leveled'[i] = leveled[i]
  BY <1>1, ArrivedLevels
<1>8. QED
  BY <1>4, <1>5, <1>6, <1>7

\* A key of the content is in the receiver, or was cut off.
LEMMA ContentStays ==
  ASSUME LevelsShape, NEW batch, NEW starts, NEW content, NEW over, NEW chain,
         Arrived(batch, starts, content, over, chain), NEW k \in KeysOf(content)
  PROVE  k \in dropped' \/ \E c : Copied(leveled', k, c)
<1>1. k \in dropped' \/ \E b \in Members(chain) : k \in KeysOf(b)
  BY DEF Arrived, Inserted
<1>2. Receiver \in DOMAIN leveled' /\ leveled'[Receiver] = chain
  BY ArrivedLevels
<1>3. ASSUME NEW b \in Members(chain), k \in KeysOf(b) PROVE \E c : Copied(leveled', k, c)
  <2>1. PICK j \in DOMAIN chain : b = chain[j]
    BY DEF Members
  <2>2. k \in KeysOf(leveled'[Receiver][j])
    BY <1>2, <1>3, <2>1
  <2>3. QED
    BY <1>2, <2>2 DEF Copied
<1>4. QED
  BY <1>1, <1>3

\* A key that can be read is in the levels after an arrival, or was cut off.
LEMMA ReadableStays ==
  ASSUME LevelsShape, NEW batch, NEW starts, NEW content, NEW over, NEW chain,
         Arrived(batch, starts, content, over, chain), NEW k \in Keys, Readable(k)
  PROVE  k \in dropped' \/ \E c : Copied(leveled', k, c)
<1>1. PICK i \in DOMAIN leveled : \E j \in DOMAIN leveled[i] : k \in T!InFullPage(leveled[i][j])
  BY DEF Readable, Blocks
<1>2. PICK j \in DOMAIN leveled[i] : k \in T!InFullPage(leveled[i][j])
  BY <1>1
<1>3. leveled \in Seq(Seq(Block)) /\ Len(leveled) \in Nat /\ DOMAIN leveled = 1..Len(leveled)
  BY DEF LevelsShape
<1>4. k \in KeysOf(leveled[i][j])
  <2>1. leveled[i] \in Seq(Block)
    BY <1>3
  <2>2. leveled[i][j] \in Block
    BY <2>1
  <2>3. QED
    BY <1>2, <2>2, FullPages
<1>5. starts \in Starts /\ ~FlushEnds(starts)
  BY DEF Arrived
<1>6. Receiver \in 1..Len(leveled) + 1
  BY <1>3, ReceiverFacts
<1>7. /\ DOMAIN leveled \subseteq DOMAIN leveled' /\ leveled'[Receiver] = chain
      /\ Receiver \in DOMAIN leveled'
      /\ \A n \in DOMAIN leveled' :
           \/ n \in 1..Receiver - 1 /\ n \in DOMAIN leveled /\ leveled'[n] = Kept(n, starts[n])
           \/ n = Receiver /\ leveled'[n] = chain
           \/ n > Receiver /\ n \in DOMAIN leveled /\ leveled'[n] = leveled[n]
  BY ArrivedLevels
<1>8. CASE i \in 1..Receiver - 1 /\ leveled'[i] = Kept(i, starts[i])
  <2>1. CASE j \in Flushed(i, starts[i])
    <3>1. k \in KeysOf(content)
      BY <1>2, <1>8, <2>1 DEF Arrived
    <3>2. QED
      BY <3>1, ContentStays
  <2>2. CASE j \notin Flushed(i, starts[i])
    <3>1. \A m \in DOMAIN leveled[i] :
            \/ m \in Flushed(i, starts[i])
            \/ \E n \in DOMAIN Kept(i, starts[i]) : Kept(i, starts[i])[n] = leveled[i][m]
      BY <1>5, <1>8, KeptLevel
    <3>2. PICK n \in DOMAIN leveled'[i] : leveled'[i][n] = leveled[i][j]
      BY <1>8, <2>2, <3>1
    <3>3. i \in DOMAIN leveled' /\ k \in KeysOf(leveled'[i][n])
      BY <1>4, <1>7, <3>2
    <3>4. QED
      BY <3>3 DEF Copied
  <2>3. QED
    BY <2>1, <2>2
<1>9. CASE i = Receiver
  <2>1. Chain = leveled[i]
    BY <1>3, <1>6, <1>9 DEF Chain
  <2>2. leveled[i][j] \in Members(Chain)
    BY <2>1 DEF Members
  <2>3. PICK b \in Members(chain) : k \in KeysOf(b)
    BY <1>2, <2>2 DEF Arrived, Inserted
  <2>4. PICK n \in DOMAIN chain : b = chain[n]
    BY DEF Members
  <2>5. k \in KeysOf(leveled'[Receiver][n])
    BY <1>7, <2>3, <2>4
  <2>6. QED
    BY <1>7, <2>4, <2>5 DEF Copied
<1>10. CASE i > Receiver /\ leveled'[i] = leveled[i]
  BY <1>4, <1>7, <1>10 DEF Copied
<1>11. i \in DOMAIN leveled'
  BY <1>7
<1>12. QED
  BY <1>7, <1>8, <1>9, <1>10, <1>11

\* As long as there is one level, what arrived last is what the level holds.
LEMMA ArrivedNewest ==
  ASSUME LevelsInv, NEW batch \in Block, NEW starts, NEW content, NEW over, NEW chain,
         Arrived(batch, starts, content, over, chain)
  PROVE  FirstLevelIsNewest'
<1> SUFFICES ASSUME ~madeUp', Len(leveled') = 1, NEW k \in Keys, NEW c \in Copies(k)'
             PROVE  c.ver = handed'[k]
  BY DEF FirstLevelIsNewest
<1>1. LevelsShape /\ FirstLevelIsNewest
  BY DEF LevelsInv
<1>2. /\ leveled \in Seq(Seq(Block)) /\ Len(leveled) >= 1 /\ Len(leveled) \in Nat
      /\ DOMAIN leveled = 1..Len(leveled)
  BY <1>1 DEF LevelsShape
<1>3. /\ leveled' \in Seq(Seq(Block)) /\ Receiver \in DOMAIN leveled' /\ leveled'[Receiver] = chain
      /\ DOMAIN leveled \subseteq DOMAIN leveled'
  BY <1>1, ArrivedLevels
<1>4. Receiver = 1 /\ Len(leveled) = 1 /\ DOMAIN leveled' = 1..1
  <2>1. DOMAIN leveled' = 1..1
    BY <1>3
  <2>2. \A i \in 1..Len(leveled) : i \in 1..1
    BY <1>2, <1>3, <2>1
  <2>3. Len(leveled) \in 1..Len(leveled)
    BY <1>2
  <2>4. Receiver \in 1..1 /\ Len(leveled) \in 1..1
    BY Zenon, <1>3, <2>1, <2>2, <2>3
  <2>5. \A i \in 1..1 : i = 1
    OBVIOUS
  <2>6. QED
    BY Zenon, <2>1, <2>4, <2>5
<1>5. ~madeUp /\ \A i \in over : ~MakesUp(Chain[i])
  BY DEF Arrived
<1>6. Ordered(Chain)
  BY <1>1, <1>5, ChainInLevels
<1>7. /\ \A b \in Members(chain) : \A m \in KeysOf(b) : m \in KeysOf(content) => b[m] = content[m]
      /\ \A b \in Members(chain) : \A m \in KeysOf(b) :
           \/ m \in KeysOf(content) /\ b[m] = content[m]
           \/ \E i \in over : MakesUp(Chain[i]) /\ b[m] = MadeUpCell
           \/ \E old \in Members(Chain) : m \in KeysOf(old) /\ b[m] = old[m]
  BY <1>5, <1>6 DEF Arrived, Inserted
<1>8. /\ KeysOf(batch) \subseteq KeysOf(content)
      /\ \A m \in KeysOf(content) : m \in KeysOf(batch) /\ content[m] = batch[m]
      /\ handed' = [m \in Keys |-> IF batch[m] # None THEN batch[m].ver ELSE handed[m]]
  BY <1>4 DEF Arrived
<1>9. PICK i \in DOMAIN leveled' : \E j \in DOMAIN leveled'[i] :
        k \in KeysOf(leveled'[i][j]) /\ c = leveled'[i][j][k]
  BY CopiesNextAre DEF Copied
<1>10. i = Receiver
  BY <1>4, <1>9
<1>11. PICK b \in Members(chain) : k \in KeysOf(b) /\ c = b[k]
  BY <1>3, <1>9, <1>10 DEF Members
<1>12. CASE k \in KeysOf(content)
  <2>1. c = batch[k] /\ k \in KeysOf(batch)
    BY <1>7, <1>8, <1>11, <1>12
  <2>2. batch[k] # None
    BY <2>1, BlockFacts
  <2>3. QED
    BY <1>8, <2>1, <2>2
<1>13. CASE k \notin KeysOf(content)
  <2>1. batch[k] = None
    BY <1>8, <1>13, BlockFacts
  <2>2. PICK old \in Members(Chain) : k \in KeysOf(old) /\ c = old[k]
    BY <1>5, <1>7, <1>11, <1>13
  <2>3. Copied(leveled, k, c)
    BY <1>1, <2>2, ChainInLevels DEF Copied
  <2>4. c \in Copies(k)
    BY <2>3, CopiesAre
  <2>5. c.ver = handed[k]
    <3>1. \A m \in Keys : \A d \in Copies(m) : d.ver = handed[m]
      BY Zenon, <1>1, <1>4, <1>5 DEF FirstLevelIsNewest
    <3>2. QED
      BY Zenon, <2>4, <3>1
  <2>6. QED
    BY <1>8, <2>1, <2>5
<1>14. QED
  BY <1>12, <1>13
-----------------------------------------------------------------------------
(* The invariant is inductive *)

LEMMA InitLevels == Init => LevelsInv
<1> SUFFICES ASSUME Init PROVE LevelsInv
  OBVIOUS
<1>1. leveled = << <<>> >> /\ up = TRUE /\ madeUp = FALSE /\ dropped = {}
  BY DEF Init
<1>2. leveled \in Seq(Seq(Block)) /\ Len(leveled) = 1 /\ \A i \in DOMAIN leveled : leveled[i] = <<>>
  <2>1. <<>> \in Seq(Block)
    OBVIOUS
  <2>2. QED
    BY <1>1, <2>1
<1>3. \A i \in DOMAIN leveled : DOMAIN leveled[i] = {}
  BY <1>2
<1>4. handed \in [Keys -> Nat]
  BY DEF Init
<1>5. LevelsShape
  <2>1. /\ \A i \in DOMAIN leveled : Filled(leveled[i]) /\ Ordered(leveled[i])
        /\ Len(leveled) >= 1
    BY <1>2, <1>3 DEF Filled, Ordered
  <2>2. up \in BOOLEAN /\ madeUp \in BOOLEAN /\ dropped \subseteq Keys
    BY <1>1
  <2>3. QED
    BY Zenon, <1>2, <1>4, <2>1, <2>2 DEF LevelsShape
<1>6. FirstLevelIsNewest
  <2>1. ASSUME NEW k \in Keys, NEW c \in Copies(k) PROVE FALSE
    <3>1. Copied(leveled, k, c)
      BY <2>1, CopiesAre
    <3>2. QED
      BY <1>3, <3>1 DEF Copied
  <2>2. QED
    BY <2>1 DEF FirstLevelIsNewest
<1>7. QED
  BY <1>5, <1>6 DEF LevelsInv

\* A step that leaves the lists and what the properties compare them with alone.
LEMMA SameLevels ==
  ASSUME LevelsInv, leveled' = leveled, up' \in BOOLEAN, madeUp' = madeUp, dropped' = dropped,
         handed' = handed
  PROVE  LevelsInv'
<1>1. LevelsShape'
  BY DEF LevelsInv, LevelsShape, Filled, Ordered
<1>2. FirstLevelIsNewest'
  BY DEF LevelsInv, FirstLevelIsNewest, Copies, CopiesIn, Blocks
<1>3. QED
  BY <1>1, <1>2 DEF LevelsInv

\* Whatever arrives, in whatever way it is merged.
LEMMA ArriveKeeps ==
  ASSUME LevelsInv, NEW batch \in Block, KeysOf(batch) # {}, Arrive(batch)
  PROVE  LevelsInv'
<1>1. CASE End
  BY <1>1, SameLevels DEF End
<1>2. CASE ~End
  <2>1. /\ leveled \in Seq(Seq(Block)) /\ (\A i \in DOMAIN leveled : Filled(leveled[i]))
        /\ madeUp \in BOOLEAN /\ LevelsShape
    BY DEF LevelsInv, LevelsShape
  <2>2. PICK starts, content, over, chain : Arrived(batch, starts, content, over, chain)
    BY <1>2, <2>1, ArriveCases
  <2>3. LevelsShape'
    BY <2>1, <2>2, ArrivedShape
  <2>4. FirstLevelIsNewest'
    BY <2>2, ArrivedNewest
  <2>5. QED
    BY <2>3, <2>4 DEF LevelsInv
<1>3. QED
  BY <1>1, <1>2

\* The batches that Next brings are blocks with a key.
LEMMA FreshIsBatch ==
  ASSUME LevelsInv, \A k \in Keys : handed[k] < MaxArrivals,
         NEW keys \in SUBSET Keys, Cardinality(keys) >= MinBatch
  PROVE  Fresh(keys) \in Block /\ KeysOf(Fresh(keys)) # {}
<1> DEFINE versions == {handed[k] : k \in Keys}
           newest == Greatest(versions)
<1>1. handed \in [Keys -> Nat]
  BY DEF LevelsInv, LevelsShape
<1>2. MaxArrivals \in Nat /\ MinBatch \in Nat /\ MinBatch >= 1
  BY SizeAssumption
<1>3. versions \subseteq Nat /\ handed[0] \in versions /\ \A n \in versions : n <= MaxArrivals
  BY <1>1, <1>2, KeysAssumption
<1> HIDE DEF versions
<1>4. \E m \in versions : \A n \in versions : n <= m
  BY <1>2, <1>3, P!GreatestNat, SameConstants
<1>5. newest \in versions
  BY <1>4 DEF Greatest
<1>6. newest \in Nat
  BY <1>3, <1>5
<1> HIDE DEF newest
<1>7. PICK v \in Nat : v = newest + 1
  BY <1>6
<1>8. Fresh(keys) = [k \in Keys |-> IF k \in keys THEN [ver |-> v, del |-> FALSE] ELSE None]
  BY <1>7 DEF Fresh, newest, versions
<1>9. [ver |-> v, del |-> FALSE] \in T!Cell /\ [ver |-> v, del |-> FALSE] # None
  <2>1. v # -1
    BY <1>7
  <2>2. QED
    BY <2>1 DEF T!Cell, None, T!None
<1>10. Fresh(keys) \in Block
  BY <1>8, <1>9 DEF Block, T!Run, None
<1>11. PICK k \in keys : TRUE
  <2>1. Cardinality(keys) \in Nat /\ Cardinality(keys) # 0
    BY <1>2, KeysFinite
  <2>2. QED
    BY <2>1, KeysEmpty
<1>12. k \in KeysOf(Fresh(keys))
  BY <1>8, <1>9, <1>10, <1>11, BlockFacts
<1>13. QED
  BY <1>10, <1>12

LEMMA NextLevels == LevelsInv /\ [Next]_vars => LevelsInv'
<1> SUFFICES ASSUME LevelsInv, [Next]_vars PROVE LevelsInv'
  OBVIOUS
<1>1. CASE Next /\ ~End
  <2>1. PICK keys \in SUBSET Keys : /\ \A k \in Keys : handed[k] < MaxArrivals
                                    /\ Cardinality(keys) >= MinBatch /\ Arrive(Fresh(keys))
    BY <1>1 DEF Next, SearchEmptyEnds
  <2>2. Fresh(keys) \in Block /\ KeysOf(Fresh(keys)) # {}
    BY <2>1, FreshIsBatch
  <2>3. \A batch \in Block : KeysOf(batch) # {} /\ Arrive(batch) => LevelsInv'
    BY ArriveKeeps
  <2>4. QED
    BY <2>1, <2>2, <2>3
<1>2. CASE UNCHANGED vars
  BY <1>2, SameLevels DEF vars, LevelsInv, LevelsShape
<1>3. CASE End
  BY <1>3, SameLevels DEF End
<1>4. QED
  BY <1>1, <1>2, <1>3

\* Until something is flushed to a second level, what the first level holds of
\* a key is the copy that arrived last (insert_block, 4-165): the merge takes
\* the new copy of every key that has two.
THEOREM NewestArrival == Spec => []FirstLevelIsNewest
<1>1. LevelsInv => FirstLevelIsNewest
  BY DEF LevelsInv
<1>2. QED
  BY <1>1, InitLevels, NextLevels, PTL DEF Spec
-----------------------------------------------------------------------------
(* The order of the blocks *)

LEMMA ShapeInOrder == LevelsShape => BlocksInOrder
<1> SUFFICES ASSUME LevelsShape, ~madeUp, NEW i \in DOMAIN leveled
             PROVE  /\ \A j \in DOMAIN leveled[i] : KeysOf(leveled[i][j]) # {}
                    /\ \A j \in 1..Len(leveled[i]) - 1 :
                         \A k \in KeysOf(leveled[i][j]), m \in KeysOf(leveled[i][j + 1]) : k < m
  BY DEF BlocksInOrder
<1>1. Filled(leveled[i]) /\ Ordered(leveled[i]) /\ leveled[i] \in Seq(Block)
  BY DEF LevelsShape
<1>2. ASSUME NEW j \in 1..Len(leveled[i]) - 1
      PROVE  \A k \in KeysOf(leveled[i][j]), m \in KeysOf(leveled[i][j + 1]) : k < m
  <2>1. Len(leveled[i]) \in Nat /\ DOMAIN leveled[i] = 1..Len(leveled[i])
    BY <1>1
  <2>2. j \in DOMAIN leveled[i] /\ j + 1 \in DOMAIN leveled[i] /\ j < j + 1
    BY <2>1
  <2>3. Below(KeysOf(leveled[i][j]), KeysOf(leveled[i][j + 1]))
    BY <1>1, <2>2 DEF Ordered
  <2>4. QED
    BY <2>3 DEF Below
<1>3. QED
  BY <1>1, <1>2 DEF Filled

\* The blocks of a level are never empty and stay in key order (insert_block,
\* 4-165, and flush, 338-391), whatever is flushed, merged and cut anew, until
\* a load makes an entry up.
THEOREM OrderCorrect == Spec => []BlocksInOrder
<1>1. LevelsInv => BlocksInOrder
  BY ShapeInOrder DEF LevelsInv
<1>2. QED
  BY <1>1, InitLevels, NextLevels, PTL DEF Spec
-----------------------------------------------------------------------------
(* What a flush takes *)

\* A level that is too large has the blocks that flush takes from it, and its
\* first block is not among them (338-367).
THEOREM FlushCorrect == Spec => []FlushStaysInList
<1>1. LevelsInv => FlushStaysInList
  <2> SUFFICES ASSUME LevelsInv, NEW i \in DOMAIN leveled, TooLarge(i), Threshold(i) > 0,
                      NEW start \in 0..Threshold(i)
               PROVE  Flushed(i, start) \subseteq 2..Len(leveled[i])
    BY DEF FlushStaysInList
  <2>1. leveled \in Seq(Seq(Block))
    BY DEF LevelsInv, LevelsShape
  <2>2. QED
    BY <2>1, FlushShape
<1>2. QED
  BY <1>1, InitLevels, NextLevels, PTL DEF Spec
-----------------------------------------------------------------------------
(* Keys on their way down *)

LEMMA NextStays ==
  ASSUME LevelsInv, [Next]_vars, NEW k \in Keys, up', Readable(k) \/ handed'[k] # handed[k]
  PROVE  Copies(k)' # {} \/ k \in dropped'
<1>1. LevelsShape
  BY DEF LevelsInv
<1>2. CASE Next /\ ~End
  <2>1. PICK keys \in SUBSET Keys : /\ \A m \in Keys : handed[m] < MaxArrivals
                                    /\ Cardinality(keys) >= MinBatch /\ Arrive(Fresh(keys))
    BY <1>2 DEF Next, SearchEmptyEnds
  <2> DEFINE batch == Fresh(keys)
  <2>2. batch \in Block /\ KeysOf(batch) # {}
    BY <2>1, FreshIsBatch
  <2>3. Arrive(batch)
    BY <2>1
  <2> HIDE DEF batch
  <2>4. /\ leveled \in Seq(Seq(Block)) /\ (\A i \in DOMAIN leveled : Filled(leveled[i]))
        /\ madeUp \in BOOLEAN
    BY <1>1 DEF LevelsShape
  <2>5. PICK starts, content, over, chain : Arrived(batch, starts, content, over, chain)
    BY <1>2, <2>2, <2>3, <2>4, ArriveCases
  <2>6. k \in dropped' \/ \E c : Copied(leveled', k, c)
    <3>1. CASE Readable(k)
      BY <1>1, <2>5, <3>1, ReadableStays
    <3>2. CASE handed'[k] # handed[k]
      <4>1. handed' = [m \in Keys |-> IF batch[m] # None THEN batch[m].ver ELSE handed[m]]
        BY <2>5 DEF Arrived
      <4>2. batch[k] # None
        BY <3>2, <4>1
      <4>3. k \in KeysOf(batch)
        BY <2>2, <4>2, BlockFacts
      <4>4. k \in KeysOf(content)
        BY <2>5, <4>3 DEF Arrived
      <4>5. QED
        BY <1>1, <2>5, <4>4, ContentStays
    <3>3. QED
      BY <3>1, <3>2
  <2>7. QED
    BY <2>6, CopiesNextAre
<1>3. CASE End
  BY <1>3 DEF End
<1>4. CASE UNCHANGED vars
  <2>1. Readable(k) /\ leveled' = leveled
    BY <1>4 DEF vars
  <2>2. PICK i \in DOMAIN leveled : \E block \in Blocks(i) : k \in T!InFullPage(block)
    BY <2>1 DEF Readable
  <2>3. PICK j \in DOMAIN leveled[i] : k \in T!InFullPage(leveled[i][j])
    BY <2>2 DEF Blocks
  <2>4. leveled[i][j] \in Block
    <3>1. leveled[i] \in Seq(Block)
      BY <1>1 DEF LevelsShape
    <3>2. QED
      BY <3>1
  <2>5. k \in KeysOf(leveled'[i][j])
    BY <2>1, <2>3, <2>4, FullPages
  <2>6. \E c : Copied(leveled', k, c)
    BY <2>1, <2>5 DEF Copied
  <2>7. QED
    BY <2>6, CopiesNextAre
<1>5. QED
  BY <1>2, <1>3, <1>4

\* However blocks are flushed, merged and cut anew (merge_policy, 527-567), a
\* key that arrives or that a load can read stays in the levels, unless it is
\* cut off by an insertion in front of the list (insert_block, 60-72).
THEOREM KeysStay == Spec => ReadableKeysStay
<1>1. LevelsInv /\ [Next]_vars =>
        [\A k \in Keys : up' /\ (Readable(k) \/ handed'[k] # handed[k]) =>
           Copies(k)' # {} \/ k \in dropped']_vars
  BY NextStays
<1>2. QED
  BY <1>1, InitLevels, NextLevels, PTL DEF Spec, ReadableKeysStay
-----------------------------------------------------------------------------
(* Searching a level *)

\* Pages follow the order of the keys, and some key is in the last one.
LEMMA PageFacts ==
  ASSUME NEW block \in Block
  PROVE  /\ \A k \in KeysOf(block) : PageOf(block, k) \in Nat
         /\ \A k, m \in KeysOf(block) : k < m => PageOf(block, k) <= PageOf(block, m)
         /\ KeysOf(block) # {} => \E k \in KeysOf(block) : PageOf(block, k) = LastPage(block)
<1> DEFINE S == KeysOf(block)
           c == Cardinality(S)
<1>1. S \in SUBSET Keys /\ S \subseteq Int /\ c \in Nat
  BY BlockFacts, KeysFinite
<1>2. \A k : PageOf(block, k) = (Rank(S, k) - 1) \div PageSize
  BY DEF PageOf, Rank
<1>3. LastPage(block) = (c - 1) \div PageSize
  BY DEF LastPage
<1>4. /\ \A k \in S : Rank(S, k) \in 1..c
      /\ \A k, m \in S : Rank(S, k) < Rank(S, m) <=> k < m
      /\ \A n \in 1..c : \E k \in S : Rank(S, k) = n
  BY <1>1, KeyRanks
<1>5. /\ \A a \in Nat : a \div PageSize \in Nat
      /\ \A a, b \in Nat : a <= b => a \div PageSize <= b \div PageSize
  BY Divided, SizeAssumption
<1> HIDE DEF c, S
<1>6. ASSUME NEW k \in S PROVE PageOf(block, k) \in Nat
  <2>1. PICK a \in Nat : a = Rank(S, k) - 1
    BY <1>1, <1>4
  <2>2. QED
    BY <1>2, <1>5, <2>1
<1>7. ASSUME NEW k \in S, NEW m \in S, k < m PROVE PageOf(block, k) <= PageOf(block, m)
  <2>1. PICK a \in Nat : a = Rank(S, k) - 1
    BY <1>1, <1>4
  <2>2. PICK b \in Nat : b = Rank(S, m) - 1
    BY <1>1, <1>4
  <2>3. a <= b
    <3>1. Rank(S, k) < Rank(S, m) /\ Rank(S, k) \in Nat /\ Rank(S, m) \in Nat
      BY <1>1, <1>4, <1>7
    <3>2. QED
      BY <2>1, <2>2, <3>1
  <2>4. QED
    BY <1>2, <1>5, <2>1, <2>2, <2>3
<1>8. ASSUME S # {} PROVE \E k \in S : PageOf(block, k) = LastPage(block)
  <2>1. c # 0
    BY <1>1, <1>8, KeysEmpty DEF c
  <2>2. c \in 1..c
    BY <1>1, <2>1
  <2>3. PICK k \in S : Rank(S, k) = c
    BY <1>4, <2>2
  <2>4. QED
    BY <1>2, <1>3, <2>3
<1>9. QED
  BY <1>6, <1>7, <1>8 DEF S

\* A key that is not in the last page is below the upper fence post.
LEMMA SearchedBelowUpper ==
  ASSUME NEW block \in Block, NEW k, Searched(block, k)
  PROVE  k \in KeysOf(block) /\ k <= Upper(block)
<1> DEFINE L == {m \in KeysOf(block) : PageOf(block, m) = LastPage(block)}
<1>1. k \in KeysOf(block) /\ PageOf(block, k) < LastPage(block)
  BY DEF Searched
<1>2. KeysOf(block) \in SUBSET Keys /\ KeysOf(block) \subseteq Int
  BY BlockFacts, KeysFinite
<1>3. /\ \A x \in KeysOf(block) : PageOf(block, x) \in Nat
      /\ \A x, m \in KeysOf(block) : x < m => PageOf(block, x) <= PageOf(block, m)
      /\ L # {}
  BY <1>1, PageFacts
<1>4. L \in SUBSET Keys
  BY <1>2
<1>5. Least(L) \in L
  BY <1>3, <1>4, LeastKey
<1>6. Upper(block) = Least(L)
  BY DEF Upper
<1>7. Upper(block) \in KeysOf(block) /\ PageOf(block, Upper(block)) = LastPage(block)
  BY <1>5, <1>6
<1>8. ~(Upper(block) < k)
  BY <1>1, <1>3, <1>7
<1>9. QED
  BY <1>1, <1>2, <1>7, <1>8

\* The walk along a level's list reaches every block that has the key.
LEMMA WalkReaches ==
  ASSUME NEW chain \in Seq(Block), Filled(chain), Ordered(chain), NEW j \in DOMAIN chain,
         NEW k \in KeysOf(chain[j])
  PROVE  j \in Walked(chain, k)
<1>1. DOMAIN chain = 1..Len(chain) /\ Len(chain) \in Nat /\ \A m \in DOMAIN chain : chain[m] \in Block
  OBVIOUS
<1>2. ASSUME NEW m \in 1..j PROVE Lower(chain[m]) <= k
  <2>1. m \in DOMAIN chain /\ j \in Nat /\ m \in Nat /\ m <= j
    BY <1>1
  <2>2. KeysOf(chain[m]) # {} /\ chain[m] \in Block
    BY <1>1, <2>1 DEF Filled
  <2>3. /\ Lower(chain[m]) \in KeysOf(chain[m]) /\ Lower(chain[m]) \in Int
        /\ \A x \in KeysOf(chain[m]) : Lower(chain[m]) <= x
    BY <2>2, LowerFacts
  <2>4. CASE m = j
    BY <2>3, <2>4
  <2>5. CASE m # j
    <3>1. m < j
      BY <2>1, <2>5
    <3>2. Below(KeysOf(chain[m]), KeysOf(chain[j]))
      BY <2>1, <3>1 DEF Ordered
    <3>3. Lower(chain[m]) < k
      BY <2>3, <3>2 DEF Below
    <3>4. k \in Int
      BY <1>1, BlockFacts, KeysFinite
    <3>5. QED
      BY <2>3, <3>3, <3>4
  <2>6. QED
    BY <2>4, <2>5
<1>3. QED
  BY <1>2 DEF Walked

\* What get reads of an ordered level.
LEMMA LevelGetFacts ==
  ASSUME NEW chain \in Seq(Block), Filled(chain), Ordered(chain), NEW k \in Keys
  PROVE  \/ LevelGet(chain, k) = None /\ \A j \in DOMAIN chain : ~Searched(chain[j], k)
         \/ \E j \in DOMAIN chain : Searched(chain[j], k) /\ LevelGet(chain, k) = chain[j][k]
<1> DEFINE hits == {j \in Walked(chain, k) : k <= Upper(chain[j]) /\ Searched(chain[j], k)}
<1>1. \A j \in DOMAIN chain : chain[j] \in Block /\ j \in Nat
  OBVIOUS
<1>2. ASSUME NEW j \in DOMAIN chain, Searched(chain[j], k) PROVE j \in hits
  <2>1. k \in KeysOf(chain[j]) /\ k <= Upper(chain[j])
    BY <1>1, <1>2, SearchedBelowUpper
  <2>2. j \in Walked(chain, k)
    BY <2>1, WalkReaches
  <2>3. QED
    BY <1>2, <2>1, <2>2
<1>3. hits \subseteq DOMAIN chain /\ \A j \in hits : Searched(chain[j], k)
  BY DEF Walked
<1>4. LevelGet(chain, k) = IF hits = {} THEN None ELSE chain[Least(hits)][k]
  BY DEF LevelGet
<1> HIDE DEF hits
<1>5. CASE hits = {}
  BY <1>2, <1>4, <1>5
<1>6. CASE hits # {}
  <2>1. hits \subseteq Nat
    BY <1>1, <1>3
  <2>2. Least(hits) \in hits
    BY <1>6, <2>1, LeastIndex
  <2>3. QED
    BY <1>3, <1>4, <1>6, <2>2
<1>7. QED
  BY <1>5, <1>6

LEMMA ShapeFindsAll == LevelsShape => GetFindsAllButLastPages
<1> SUFFICES ASSUME LevelsShape, ~madeUp, NEW i \in DOMAIN leveled, NEW k \in Keys \ {0}
             PROVE  LET readable == {block \in Blocks(i) : Searched(block, k)}
                    IN  IF readable = {} THEN LevelGet(leveled[i], k) = None
                        ELSE LevelGet(leveled[i], k) \in {block[k] : block \in readable}
  BY DEF GetFindsAllButLastPages
<1> DEFINE readable == {block \in Blocks(i) : Searched(block, k)}
<1>1. leveled[i] \in Seq(Block) /\ Filled(leveled[i]) /\ Ordered(leveled[i])
  BY DEF LevelsShape
<1>2. \/ LevelGet(leveled[i], k) = None /\ \A j \in DOMAIN leveled[i] : ~Searched(leveled[i][j], k)
      \/ \E j \in DOMAIN leveled[i] :
           Searched(leveled[i][j], k) /\ LevelGet(leveled[i], k) = leveled[i][j][k]
  BY <1>1, LevelGetFacts
<1>3. CASE LevelGet(leveled[i], k) = None /\ \A j \in DOMAIN leveled[i] : ~Searched(leveled[i][j], k)
  <2>1. readable = {}
    BY <1>3 DEF Blocks
  <2>2. QED
    BY <1>3, <2>1
<1>4. ASSUME NEW j \in DOMAIN leveled[i], Searched(leveled[i][j], k),
             LevelGet(leveled[i], k) = leveled[i][j][k]
      PROVE  readable # {} /\ LevelGet(leveled[i], k) \in {block[k] : block \in readable}
  <2>1. leveled[i][j] \in readable
    BY <1>4 DEF Blocks
  <2> HIDE DEF readable
  <2>2. QED
    BY <1>4, <2>1
<1>5. QED
  BY <1>2, <1>3, <1>4

\* Level_Run::get (393-415) finds every key but 0 of a level that is not in the
\* last page of its block, and no other: the order of the blocks is what lets
\* it end its walk at the first block that begins above the key.
THEOREM LevelSearchCorrect == Spec => []GetFindsAllButLastPages
<1>1. LevelsInv => GetFindsAllButLastPages
  BY ShapeFindsAll DEF LevelsInv
<1>2. QED
  BY <1>1, InitLevels, NextLevels, PTL DEF Spec
-----------------------------------------------------------------------------
(* For module LazyTree: what an arrival and a get do to single copies *)

\* A copy that is in the levels after an arrival was there, arrived, or is made up.
LEMMA ArriveCopies ==
  ASSUME LevelsInv, NEW batch \in Block, KeysOf(batch) # {}, Arrive(batch),
         NEW k \in Keys, NEW c \in Copies(k)'
  PROVE  \/ c \in Copies(k)
         \/ k \in KeysOf(batch) /\ c = batch[k]
         \/ c = MadeUpCell
<1>1. CASE End
  BY <1>1 DEF End, Copies, CopiesIn, Blocks
<1>2. CASE ~End
  <2>1. /\ leveled \in Seq(Seq(Block)) /\ (\A i \in DOMAIN leveled : Filled(leveled[i]))
        /\ madeUp \in BOOLEAN /\ LevelsShape
    BY DEF LevelsInv, LevelsShape
  <2>2. PICK starts, content, over, chain : Arrived(batch, starts, content, over, chain)
    BY <1>2, <2>1, ArriveCases
  <2>3. Copied(leveled', k, c)
    BY CopiesNextAre
  <2>4. Copied(leveled, k, c) \/ (k \in KeysOf(batch) /\ c = batch[k]) \/ c = MadeUpCell
    BY <2>1, <2>2, <2>3, ArrivedCopies
  <2>5. QED
    BY <2>4, CopiesAre
<1>3. QED
  BY <1>1, <1>2

\* An ordered level has one copy of a key, and a get of the level answers that
\* or nothing.
LEMMA OneCopy ==
  ASSUME LevelsInv, ~madeUp, Len(leveled) = 1, NEW k \in Keys
  PROVE  /\ \A c, d \in Copies(k) : c = d
         /\ \A c \in Copies(k) : c.ver = handed[k]
         /\ LevelGet(leveled[1], k) \in Copies(k) \cup {None}
<1>1. /\ LevelsShape /\ FirstLevelIsNewest
      /\ leveled \in Seq(Seq(Block)) /\ DOMAIN leveled = {1}
  <2>1. LevelsShape /\ FirstLevelIsNewest
    BY DEF LevelsInv
  <2>2. leveled \in Seq(Seq(Block))
    BY <2>1 DEF LevelsShape
  <2>3. DOMAIN leveled = 1..1
    BY <2>2
  <2>4. QED
    BY <2>1, <2>2, <2>3
<1>2. leveled[1] \in Seq(Block) /\ Filled(leveled[1]) /\ Ordered(leveled[1])
  <2>1. 1 \in DOMAIN leveled
    BY <1>1
  <2>2. \A i \in DOMAIN leveled : leveled[i] \in Seq(Block)
    <3>1. leveled \in Seq(Seq(Block))
      BY <1>1
    <3>2. QED
      BY <3>1
  <2>3. \A i \in DOMAIN leveled : Filled(leveled[i]) /\ Ordered(leveled[i])
    BY Zenon, <1>1 DEF LevelsShape
  <2>4. QED
    BY Zenon, <2>1, <2>2, <2>3
<1>3. \A j \in DOMAIN leveled[1] : j \in Nat /\ leveled[1][j] \in Block
  BY <1>2
<1>4. k \in Int
  BY KeysAssumption
<1>5. \A i, j \in DOMAIN leveled[1] :
        k \in KeysOf(leveled[1][i]) /\ k \in KeysOf(leveled[1][j]) => i = j
  <2>1. ASSUME NEW i \in DOMAIN leveled[1], NEW j \in DOMAIN leveled[1], i < j,
               k \in KeysOf(leveled[1][i]), k \in KeysOf(leveled[1][j])
        PROVE  FALSE
    <3>1. k < k
      BY <1>2, <2>1 DEF Ordered, Below
    <3>2. QED
      BY <1>4, <3>1
  <2>2. QED
    BY <1>3, <2>1
<1>6. \A c : c \in Copies(k) <=> \E j \in DOMAIN leveled[1] : k \in KeysOf(leveled[1][j]) /\ c = leveled[1][j][k]
  BY <1>1, CopiesAre DEF Copied
<1>7. \A c, d \in Copies(k) : c = d
  BY <1>5, <1>6
<1>8. \A c \in Copies(k) : c.ver = handed[k]
  <2>1. \A m \in Keys : \A c \in Copies(m) : c.ver = handed[m]
    BY Zenon, <1>1 DEF FirstLevelIsNewest
  <2>2. QED
    BY Zenon, <2>1
<1>9. LevelGet(leveled[1], k) \in Copies(k) \cup {None}
  <2>1. \/ LevelGet(leveled[1], k) = None
        \/ \E j \in DOMAIN leveled[1] :
             Searched(leveled[1][j], k) /\ LevelGet(leveled[1], k) = leveled[1][j][k]
    BY <1>2, LevelGetFacts
  <2>2. \A j \in DOMAIN leveled[1] : Searched(leveled[1][j], k) => k \in KeysOf(leveled[1][j])
    BY DEF Searched
  <2>3. QED
    BY <1>6, <2>1, <2>2
<1>10. QED
  BY <1>7, <1>8, <1>9
=============================================================================
