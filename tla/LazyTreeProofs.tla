----------------------------- MODULE LazyTreeProofs ------------------------------
(***************************************************************************)
(* Proofs about LazyTree: no tiered level is ever full and none lies past  *)
(* the cut-off; buffer, tiers and leveled levels hold the copies of a key  *)
(* in the order of their age; and what a get answers.  For every set of    *)
(* keys, buffer size, level ratio, page size and cut-off.                  *)
(***************************************************************************)
EXTENDS LazyTree, TLAPS

\* The lemmas on lists of levels, and the tree of module TieredTree.
P == INSTANCE TieredTreeProofs WITH levels <- tiers, flushes <- 0

LEMMA SameConstants == /\ Keys \subseteq Int /\ 0 \in Keys /\ P!IsFiniteSet(Keys)
                       /\ BufferSize \in Nat \ {0} /\ LevelRatio \in Nat \ {0, 1}
                       /\ PageSize \in Nat \ {0} /\ MaxWrites \in Nat
BY TreeAssumption, LevelsAssumption, WritesAssumption DEF P!IsFiniteSet, IsFiniteSet
-----------------------------------------------------------------------------
\* The tiered levels are lists of some runs.
TiersInv == (\E S : tiers \in Seq(Seq(S))) /\ TiersWithinCutOff

FullTiers == {i \in 1..Len(tiers) : T!Full(i)}

\* The cascade ends at a tiered level or at the next one, and there it has room.
LEMMA TargetHasRoom ==
  ASSUME NEW S, tiers \in Seq(Seq(S))
  PROVE  /\ T!Target \in 1..Len(tiers) + 1
         /\ T!Target <= Len(tiers) => ~T!Full(T!Target)
<1>1. Len(tiers) \in Nat
  OBVIOUS
<1>2. \A i \in 1..Len(tiers) + 1 :
        P!Takes(i, Len(tiers), FullTiers) <=> /\ \A j \in 1..i - 1 : T!Full(j)
                                              /\ i = Len(tiers) + 1 \/ ~T!Full(i)
  BY <1>1 DEF P!Takes, FullTiers
<1>3. PICK i \in 1..Len(tiers) + 1 : /\ \A j \in 1..i - 1 : T!Full(j)
                                     /\ i = Len(tiers) + 1 \/ ~T!Full(i)
  BY <1>1, <1>2, P!OneTakes, SameConstants
<1>4. /\ T!Target \in 1..Len(tiers) + 1
      /\ T!Target = Len(tiers) + 1 \/ ~T!Full(T!Target)
  BY <1>3 DEF T!Target
<1>5. QED
  BY <1>1, <1>4

LEMMA InitTiers == Init => TiersInv
<1> SUFFICES ASSUME Init PROVE TiersInv
  OBVIOUS
<1>1. tiers = << <<>> >>
  BY DEF Init, T!Init
<1>2. tiers \in Seq(Seq({0}))
  <2>1. <<>> \in Seq({0})
    OBVIOUS
  <2>2. QED
    BY <1>1, <2>1
<1>3. TiersWithinCutOff
  BY <1>1, LevelsAssumption DEF TiersWithinCutOff
<1>4. QED
  BY <1>2, <1>3 DEF TiersInv

\* A compaction that ends at a tiered level leaves room in it.
LEMMA TierKeepsRoom ==
  ASSUME TiersInv, NEW run, T!Target <= LazyCutOff, tiers' = T!LevelsAfter(run)
  PROVE  TiersInv'
<1> DEFINE t == T!Target
<1>1. PICK S : tiers \in Seq(Seq(S))
  BY DEF TiersInv
<1>2. PICK R : tiers \in Seq(Seq(R)) /\ run \in R
  <2>1. tiers \in Seq(Seq(S \cup {run}))
    BY <1>1, P!LevelsOfMore, SameConstants
  <2>2. QED
    BY <2>1
<1>3. t \in 1..Len(tiers) + 1 /\ (t <= Len(tiers) => ~T!Full(t))
  BY <1>1, TargetHasRoom
<1>4. tiers' = P!PushedInto(tiers, t, run)
  BY DEF T!LevelsAfter, P!PushedInto
<1> HIDE DEF t
<1>5. tiers' \in Seq(Seq(R)) /\ P!IsPushed(tiers', tiers, t, run)
  BY <1>2, <1>3, <1>4, P!PushedIntoShape, SameConstants
<1>6. /\ Len(tiers) \in Nat /\ Len(tiers) <= LazyCutOff
      /\ \A i \in 1..Len(tiers) : /\ Len(tiers[i]) \in Nat /\ Len(tiers[i]) < LevelRatio
                                  /\ tiers[i] \in Seq(R)
  BY <1>2 DEF TiersInv, TiersWithinCutOff
<1>7. Len(tiers') <= LazyCutOff
  BY <1>3, <1>5, <1>6 DEF P!IsPushed, t
<1>8. ASSUME NEW i \in 1..Len(tiers')
      PROVE  Len(tiers'[i]) < LevelRatio
  <2>1. i \in Nat /\ t \in Nat
    BY <1>3
  <2>2. CASE i < t
    <3>1. Len(tiers'[i]) = 0
      BY <1>5, <2>2 DEF P!IsPushed
    <3>2. QED
      BY <3>1, LevelsAssumption
  <2>3. CASE i > t
    BY <1>5, <1>6, <2>3 DEF P!IsPushed
  <2>4. CASE i = t /\ t > Len(tiers)
    <3>1. tiers'[i] = <<run>>
      BY <1>5, <2>4 DEF P!IsPushed
    <3>2. Len(tiers'[i]) = 1
      BY <3>1
    <3>3. QED
      BY <3>2, LevelsAssumption
  <2>5. CASE i = t /\ ~(t > Len(tiers))
    <3>1. i \in 1..Len(tiers) /\ tiers'[i] = Append(tiers[i], run)
      BY <1>5, <2>5 DEF P!IsPushed
    <3>2. Len(tiers'[i]) = Len(tiers[i]) + 1
      BY <1>6, <3>1
    <3>3. Len(tiers[i]) # LevelRatio - 1
      BY <1>3, <2>5, <3>1 DEF T!Full
    <3>4. QED
      BY <1>6, <3>1, <3>2, <3>3, LevelsAssumption
  <2>6. QED
    BY <2>1, <2>2, <2>3, <2>4, <2>5
<1>9. DOMAIN tiers' = 1..Len(tiers')
  BY <1>5
<1>10. QED
  BY <1>5, <1>7, <1>8, <1>9 DEF TiersInv, TiersWithinCutOff

\* Emptying the tiered levels keeps their number.
LEMMA EmptiedTiers ==
  ASSUME TiersInv, tiers' = TiersEmptied
  PROVE  TiersInv'
<1>1. PICK S : tiers \in Seq(Seq(S))
  BY DEF TiersInv
<1>2. Len(tiers) \in Nat /\ DOMAIN tiers = 1..Len(tiers)
  BY <1>1
<1>3. tiers' = [i \in 1..Len(tiers) |-> <<>>]
  BY <1>2 DEF TiersEmptied
<1>4. <<>> \in Seq(S) /\ Len(<<>>) = 0
  OBVIOUS
<1>5. tiers' \in Seq(Seq(S)) /\ Len(tiers') = Len(tiers)
  BY <1>2, <1>3, <1>4
<1>6. Len(tiers') <= LazyCutOff
  BY <1>5 DEF TiersInv, TiersWithinCutOff
<1>7. \A i \in DOMAIN tiers' : Len(tiers'[i]) < LevelRatio
  BY <1>3, <1>4, LevelsAssumption
<1>8. QED
  BY <1>5, <1>6, <1>7 DEF TiersInv, TiersWithinCutOff

LEMMA NextTiers == TiersInv /\ [Next]_vars => TiersInv'
<1> SUFFICES ASSUME TiersInv, [Next]_vars PROVE TiersInv'
  OBVIOUS
<1>1. ASSUME tiers' = tiers
      PROVE  TiersInv'
  BY <1>1 DEF TiersInv, TiersWithinCutOff
<1>2. ASSUME NEW k \in Keys, NEW del \in BOOLEAN, WriteInBuffer(k, del)
      PROVE  TiersInv'
  BY <1>1, <1>2 DEF WriteInBuffer, T!WriteInBuffer
<1>3. ASSUME NEW k \in Keys, NEW del \in BOOLEAN, MergeIntoTier(k, del)
      PROVE  TiersInv'
  <2>1. PICK bit \in BOOLEAN : tiers' = T!LevelsAfter(T!MergeMap(bit))
    BY <1>3 DEF MergeIntoTier
  <2>2. T!Target <= LazyCutOff
    BY <1>3 DEF MergeIntoTier, TierHasRoom
  <2>3. QED
    BY <2>1, <2>2, TierKeepsRoom
<1>4. ASSUME NEW k \in Keys, NEW del \in BOOLEAN, MergeIntoLeveled(k, del)
      PROVE  TiersInv'
  BY <1>4, EmptiedTiers DEF MergeIntoLeveled
<1>5. CASE UNCHANGED vars
  BY <1>1, <1>5 DEF vars
<1>6. CASE Next
  BY <1>1, <1>2, <1>3, <1>4, <1>6 DEF Next, Put, Del, SearchEmptyEnds
<1>7. QED
  BY <1>5, <1>6

\* No tiered level is ever full after a command, and the cascade never opens a
\* tiered level past the cut-off, however merges into the tiers and out of them
\* alternate (merge_policy, 467-494 and 527-567).
THEOREM TiersCorrect == Spec => []TiersWithinCutOff
<1>1. TiersInv => TiersWithinCutOff
  BY DEF TiersInv
<1>2. QED
  BY <1>1, InitTiers, NextTiers, PTL DEF Spec
-----------------------------------------------------------------------------
(* The leveled levels again: the lemmas of module LeveledLevelsProofs are *)
(* about the operators of an instance of that module, which are those of  *)
(* L under another name.  What the two are called by is expanded until    *)
(* only the constants and the variables are left.                         *)

LP == INSTANCE LeveledLevelsProofs WITH MinBatch <- 1, MaxArrivals <- 0

LEMMA SameBlocks ==
  /\ L!None = LP!None /\ L!Block = LP!Block
  /\ \A b : /\ L!KeysOf(b) = LP!KeysOf(b) /\ L!Least(b) = LP!Least(b)
            /\ L!Greatest(b) = LP!Greatest(b) /\ L!Lower(b) = LP!Lower(b)
            /\ L!Upper(b) = LP!Upper(b) /\ L!Cut(b) = LP!Cut(b)
            /\ L!Overlapped(b) = LP!Overlapped(b) /\ L!Back(b) = LP!Back(b)
            /\ L!Made(b) = LP!Made(b) /\ L!FlushedBlocks(b) = LP!FlushedBlocks(b)
            /\ L!Copies(b) = LP!Copies(b)
            /\ L!FlushEnds(b) <=> LP!FlushEnds(b)
  /\ \A b, c : /\ L!LoadBlock(b, c) = LP!LoadBlock(b, c) /\ L!Over(b, c) = LP!Over(b, c)
               /\ L!Front(b, c) = LP!Front(b, c) /\ L!Walked(b, c) = LP!Walked(b, c)
               /\ L!Flushed(b, c) = LP!Flushed(b, c) /\ L!LevelsWith(b, c) = LP!LevelsWith(b, c)
               /\ L!Searched(b, c) <=> LP!Searched(b, c)
               /\ L!InsertEnds(b, c) <=> LP!InsertEnds(b, c)
               /\ L!Note(b, c) <=> LP!Note(b, c)
  /\ \A b, c, d : L!Content(b, c, d) = LP!Content(b, c, d)
  /\ L!Chain = LP!Chain /\ L!Starts = LP!Starts /\ (L!End <=> LP!End)
<1> USE DEF L!KeysOf, L!Block, L!Least, L!Greatest, L!PageOf, L!LastPage, L!Lower, L!Upper,
      L!LoadBlock, L!MakesUp, L!Over, L!Level, L!MaxSize, L!Threshold, L!BlockEntries,
      L!ListSize, L!TooLarge, L!Receiver, L!Flushed, L!Kept, L!Starts, L!Made, L!Content,
      L!Chain, L!Above, L!Front, L!Back, L!Overlapped, L!Cut, L!CutsEmptyBlock, L!LevelsWith,
      L!Note, L!FlushedBlocks, L!FlushEnds, L!InsertBehindEnds, L!InsertEnds, L!End, L!None,
      L!Searched, L!Walked, L!Blocks, L!CopiesIn, L!Copies, L!T!None, L!T!KeysOf,
      L!T!InFullPage, L!T!Power, L!T!Cardinality, L!T!Run, L!T!Cell, L!Cardinality, LP!KeysOf,
      LP!Block, LP!Least, LP!Greatest, LP!PageOf, LP!LastPage, LP!Lower, LP!Upper,
      LP!LoadBlock, LP!MakesUp, LP!Over, LP!Level, LP!MaxSize, LP!Threshold, LP!BlockEntries,
      LP!ListSize, LP!TooLarge, LP!Receiver, LP!Flushed, LP!Kept, LP!Starts, LP!Made,
      LP!Content, LP!Chain, LP!Above, LP!Front, LP!Back, LP!Overlapped, LP!Cut,
      LP!CutsEmptyBlock, LP!LevelsWith, LP!Note, LP!FlushedBlocks, LP!FlushEnds,
      LP!InsertBehindEnds, LP!InsertEnds, LP!End, LP!None, LP!Searched, LP!Walked, LP!Blocks,
      LP!CopiesIn, LP!Copies, LP!T!None, LP!T!KeysOf, LP!T!InFullPage, LP!T!Power,
      LP!T!Cardinality, LP!T!Run, LP!T!Cell, LP!Cardinality
<1>1. L!None = LP!None
  BY Zenon
<1>2. L!Block = LP!Block
  BY Zenon
<1>3. \A b : L!KeysOf(b) = LP!KeysOf(b)
  BY Zenon
<1>4. \A b : L!Least(b) = LP!Least(b)
  BY Zenon
<1>5. \A b : L!Greatest(b) = LP!Greatest(b)
  BY Zenon
<1>6. \A b : L!Lower(b) = LP!Lower(b)
  BY Zenon
<1>7. \A b : L!Upper(b) = LP!Upper(b)
  BY Zenon
<1>8. \A b : L!Cut(b) = LP!Cut(b)
  BY Zenon
<1>9. \A b : L!Overlapped(b) = LP!Overlapped(b)
  BY Zenon
<1>10. \A b : L!Back(b) = LP!Back(b)
  BY Zenon
<1>11. \A b : L!Made(b) = LP!Made(b)
  BY Zenon
<1>12. \A b : L!FlushedBlocks(b) = LP!FlushedBlocks(b)
  BY Zenon
<1>13. \A b : L!Copies(b) = LP!Copies(b)
  BY Zenon
<1>14. \A b : L!FlushEnds(b) <=> LP!FlushEnds(b)
  BY Zenon
<1>15. \A b, c : L!LoadBlock(b, c) = LP!LoadBlock(b, c)
  BY Zenon
<1>16. \A b, c : L!Over(b, c) = LP!Over(b, c)
  BY Zenon
<1>17. \A b, c : L!Front(b, c) = LP!Front(b, c)
  BY Zenon
<1>18. \A b, c : L!Walked(b, c) = LP!Walked(b, c)
  BY Zenon
<1>19. \A b, c : L!Flushed(b, c) = LP!Flushed(b, c)
  BY Zenon
<1>20. \A b, c : L!LevelsWith(b, c) = LP!LevelsWith(b, c)
  BY Zenon
<1>21. \A b, c : L!Searched(b, c) <=> LP!Searched(b, c)
  BY Zenon
<1>22. \A b, c : L!InsertEnds(b, c) <=> LP!InsertEnds(b, c)
  BY Zenon
<1>23. \A b, c : L!Note(b, c) <=> LP!Note(b, c)
  BY Zenon
<1>24. \A b, c, d : L!Content(b, c, d) = LP!Content(b, c, d)
  BY Zenon
<1>25. L!Chain = LP!Chain
  BY Zenon
<1>26. L!Starts = LP!Starts
  BY Zenon
<1>27. L!End <=> LP!End
  BY Zenon
<1> HIDE DEF L!KeysOf, L!Block, L!Least, L!Greatest, L!PageOf, L!LastPage, L!Lower, L!Upper,
      L!LoadBlock, L!MakesUp, L!Over, L!Level, L!MaxSize, L!Threshold, L!BlockEntries,
      L!ListSize, L!TooLarge, L!Receiver, L!Flushed, L!Kept, L!Starts, L!Made, L!Content,
      L!Chain, L!Above, L!Front, L!Back, L!Overlapped, L!Cut, L!CutsEmptyBlock, L!LevelsWith,
      L!Note, L!FlushedBlocks, L!FlushEnds, L!InsertBehindEnds, L!InsertEnds, L!End, L!None,
      L!Searched, L!Walked, L!Blocks, L!CopiesIn, L!Copies, L!T!None, L!T!KeysOf,
      L!T!InFullPage, L!T!Power, L!T!Cardinality, L!T!Run, L!T!Cell, L!Cardinality, LP!KeysOf,
      LP!Block, LP!Least, LP!Greatest, LP!PageOf, LP!LastPage, LP!Lower, LP!Upper,
      LP!LoadBlock, LP!MakesUp, LP!Over, LP!Level, LP!MaxSize, LP!Threshold, LP!BlockEntries,
      LP!ListSize, LP!TooLarge, LP!Receiver, LP!Flushed, LP!Kept, LP!Starts, LP!Made,
      LP!Content, LP!Chain, LP!Above, LP!Front, LP!Back, LP!Overlapped, LP!Cut,
      LP!CutsEmptyBlock, LP!LevelsWith, LP!Note, LP!FlushedBlocks, LP!FlushEnds,
      LP!InsertBehindEnds, LP!InsertEnds, LP!End, LP!None, LP!Searched, LP!Walked, LP!Blocks,
      LP!CopiesIn, LP!Copies, LP!T!None, LP!T!KeysOf, LP!T!InFullPage, LP!T!Power,
      LP!T!Cardinality, LP!T!Run, LP!T!Cell, LP!Cardinality
<1>28. QED
  BY Zenon, <1>1, <1>2, <1>3, <1>4, <1>5, <1>6, <1>7, <1>8, <1>9, <1>10, <1>11, <1>12, <1>13, <1>14, <1>15, <1>16, <1>17, <1>18, <1>19, <1>20, <1>21, <1>22, <1>23, <1>24, <1>25, <1>26, <1>27

LEMMA SameLoads ==
  /\ \A c, I, m : L!LoadBlocks(c, I, m) = LP!LoadBlocks(c, I, m)
  /\ \A s, m : L!Moved(s, m) = LP!Moved(s, m)
<1>1. ASSUME NEW c, NEW I, NEW m PROVE L!LoadBlocks(c, I, m) = LP!LoadBlocks(c, I, m)
  <2> DEFINE f == [i \in I |-> L!LoadBlock(c[i], m)]
             g == [i \in I |-> LP!LoadBlock(c[i], m)]
  <2>1. f = g
    BY SameBlocks
  <2>2. L!LoadBlocks(c, I, m) =
          [k \in Keys |-> IF {i \in I : f[i][k] # L!None} = {} THEN L!None
                          ELSE f[L!Least({i \in I : f[i][k] # L!None})][k]]
    BY Zenon DEF L!LoadBlocks
  <2>3. LP!LoadBlocks(c, I, m) =
          [k \in Keys |-> IF {i \in I : g[i][k] # LP!None} = {} THEN LP!None
                          ELSE g[LP!Least({i \in I : g[i][k] # LP!None})][k]]
    BY Zenon DEF LP!LoadBlocks
  <2> HIDE DEF f, g
  <2>4. LP!LoadBlocks(c, I, m) =
          [k \in Keys |-> IF {i \in I : f[i][k] # LP!None} = {} THEN LP!None
                          ELSE f[LP!Least({i \in I : f[i][k] # LP!None})][k]]
    BY Zenon, <2>1, <2>3
  <2>5. QED
    BY Zenon, <2>2, <2>4
       DEF L!None, LP!None, L!T!None, LP!T!None, L!Least, LP!Least
<1>2. ASSUME NEW s, NEW m PROVE L!Moved(s, m) = LP!Moved(s, m)
  <2> DEFINE f == [i \in DOMAIN s |-> L!LoadBlocks(leveled[i], L!Flushed(i, s[i]), m)]
             g == [i \in DOMAIN s |-> LP!LoadBlocks(leveled[i], LP!Flushed(i, s[i]), m)]
  <2>1. f = g
    BY <1>1, SameBlocks
  <2>2. L!Moved(s, m) =
          [k \in Keys |-> IF {i \in DOMAIN s : f[i][k] # L!None} = {} THEN L!None
                          ELSE f[L!Least({i \in DOMAIN s : f[i][k] # L!None})][k]]
    BY Zenon DEF L!Moved
  <2>3. LP!Moved(s, m) =
          [k \in Keys |-> IF {i \in DOMAIN s : g[i][k] # LP!None} = {} THEN LP!None
                          ELSE g[LP!Least({i \in DOMAIN s : g[i][k] # LP!None})][k]]
    BY Zenon DEF LP!Moved
  <2> HIDE DEF f, g
  <2>4. LP!Moved(s, m) =
          [k \in Keys |-> IF {i \in DOMAIN s : f[i][k] # LP!None} = {} THEN LP!None
                          ELSE f[LP!Least({i \in DOMAIN s : f[i][k] # LP!None})][k]]
    BY Zenon, <2>1, <2>3
  <2>5. QED
    BY Zenon, <2>2, <2>4
       DEF L!None, LP!None, L!T!None, LP!T!None, L!Least, LP!Least
<1>3. QED
  BY <1>1, <1>2

LEMMA SameInsert == ASSUME NEW b, NEW s, NEW c, L!Insert(b, s, c) PROVE LP!Insert(b, s, c)
<1> DEFINE over == L!Overlapped(c)
           blocks == {L!Chain[i] : i \in over}
<1>1. PICK merged \in {L!Over(c, L!LoadBlocks(L!Chain, over, made)) : made \in L!Made(blocks)} :
        IF L!InsertEnds(c, merged) THEN L!End
        ELSE /\ \/ L!InsertIntoEmpty(s, c)
                \/ L!InsertBefore(s, c)
                \/ L!InsertOver(s, over, merged)
             /\ L!Note(b, L!FlushedBlocks(s) \cup blocks)
             /\ UNCHANGED up
  BY Zenon DEF L!Insert
<1>2. L!InsertIntoEmpty(s, c) => LP!InsertIntoEmpty(s, c)
  BY SameBlocks DEF L!InsertIntoEmpty, LP!InsertIntoEmpty
<1>3. L!InsertBefore(s, c) => LP!InsertBefore(s, c)
  BY SameBlocks DEF L!InsertBefore, LP!InsertBefore
<1>4. L!InsertOver(s, over, merged) => LP!InsertOver(s, over, merged)
  BY SameBlocks DEF L!InsertOver, LP!InsertOver
<1> DEFINE lblocks == {LP!Chain[i] : i \in over}
<1>5. blocks = lblocks
  BY SameBlocks
<1>6. L!Made(blocks) = LP!Made(lblocks) /\ L!FlushedBlocks(s) = LP!FlushedBlocks(s) /\ over = LP!Overlapped(c)
  BY Zenon, <1>5, SameBlocks
<1>7. PICK made \in LP!Made(lblocks) : merged = LP!Over(c, LP!LoadBlocks(LP!Chain, over, made))
  <2>1. PICK made \in L!Made(blocks) : merged = L!Over(c, L!LoadBlocks(L!Chain, over, made))
    BY Zenon, <1>1
  <2>2. L!Over(c, L!LoadBlocks(L!Chain, over, made)) = LP!Over(c, LP!LoadBlocks(LP!Chain, over, made))
    BY Zenon, SameBlocks, SameLoads
  <2>3. QED
    BY Zenon, <1>6, <2>1, <2>2
<1>8. IF LP!InsertEnds(c, merged) THEN LP!End
      ELSE /\ \/ LP!InsertIntoEmpty(s, c)
              \/ LP!InsertBefore(s, c)
              \/ LP!InsertOver(s, over, merged)
           /\ LP!Note(b, LP!FlushedBlocks(s) \cup lblocks)
           /\ UNCHANGED up
  <2>1. (L!InsertEnds(c, merged) <=> LP!InsertEnds(c, merged)) /\ (L!End => LP!End)
    BY Zenon, SameBlocks
  <2>2. L!Note(b, L!FlushedBlocks(s) \cup blocks) => LP!Note(b, LP!FlushedBlocks(s) \cup lblocks)
    BY Zenon, <1>5, <1>6, SameBlocks
  <2> HIDE DEF blocks, lblocks, over
  <2>3. QED
    BY Zenon, <1>1, <1>2, <1>3, <1>4, <2>1, <2>2
<1>9. merged \in {LP!Over(c, LP!LoadBlocks(LP!Chain, over, fill)) : fill \in LP!Made(lblocks)}
  BY Zenon, <1>7
<1> HIDE DEF over
<1>10. \E m \in {LP!Over(c, LP!LoadBlocks(LP!Chain, over, fill)) : fill \in LP!Made(lblocks)} :
         IF LP!InsertEnds(c, m) THEN LP!End
         ELSE /\ \/ LP!InsertIntoEmpty(s, c)
                 \/ LP!InsertBefore(s, c)
                 \/ LP!InsertOver(s, over, m)
              /\ LP!Note(b, LP!FlushedBlocks(s) \cup lblocks)
              /\ UNCHANGED up
  BY Zenon, <1>8, <1>9
<1>11. QED
  BY Zenon, <1>6, <1>10 DEF LP!Insert

LEMMA SameArrive == ASSUME NEW b, L!Arrive(b) PROVE LP!Arrive(b)
BY SameBlocks, SameLoads, SameInsert DEF L!Arrive, LP!Arrive

LEMMA SameGet == \A c, k : L!LevelGet(c, k) = LP!LevelGet(c, k)
<1> SUFFICES ASSUME NEW c, NEW k PROVE L!LevelGet(c, k) = LP!LevelGet(c, k)
  OBVIOUS
<1> DEFINE f == {i \in L!Walked(c, k) : k <= L!Upper(c[i]) /\ L!Searched(c[i], k)}
           g == {i \in LP!Walked(c, k) : k <= LP!Upper(c[i]) /\ LP!Searched(c[i], k)}
<1>1. f = g
  BY SameBlocks
<1>2. L!LevelGet(c, k) = IF f = {} THEN L!None ELSE c[L!Least(f)][k]
  BY Zenon DEF L!LevelGet
<1>3. LP!LevelGet(c, k) = IF g = {} THEN LP!None ELSE c[LP!Least(g)][k]
  BY Zenon DEF LP!LevelGet
<1> HIDE DEF f, g
<1>4. QED
  BY Zenon, <1>1, <1>2, <1>3, SameBlocks
-----------------------------------------------------------------------------
(* The tree of module TieredTree, as T and as the lemmas' P *)

LEMMA LevelsConstants == /\ Keys \subseteq Int /\ 0 \in Keys /\ LP!IsFiniteSet(Keys)
                         /\ BufferSize \in Nat \ {0} /\ LevelRatio \in Nat \ {0, 1}
                         /\ PageSize \in Nat \ {0} /\ LazyCutOff \in Nat \ {0}
                         /\ Partitions \in Nat \ {0} /\ 1 \in Nat \ {0} /\ 0 \in Nat
BY TreeAssumption, LevelsAssumption DEF LP!IsFiniteSet, IsFiniteSet

LEMMA SameTree ==
  /\ T!None = P!None /\ LP!None = P!None /\ LP!Block = P!Run
  /\ \A run : LP!KeysOf(run) = P!KeysOf(run)
  /\ \A k : T!Copies(k) = P!Copies(k) /\ T!Get(k) = P!Get(k)
  /\ T!RecencyOrder <=> P!RecencyOrder
  /\ \A k, del : /\ T!WriteInBuffer(k, del) <=> P!WriteInBuffer(k, del)
                 /\ T!Stamp(k, del) <=> P!Stamp(k, del)
                 /\ T!NewEntry(k, del) = P!NewEntry(k, del)
  /\ \A run : T!LevelsAfter(run) = P!LevelsAfter(run)
<1> USE DEF T!None, P!None, T!Copies, P!Copies, T!CellOf, P!CellOf, T!Holders, P!Holders,
            T!Positions, P!Positions, T!RunAt, P!RunAt, T!Before, P!Before, T!First, P!First,
            T!BufferKeys, P!BufferKeys, T!LastWrite, P!LastWrite, T!LiveHolders, P!LiveHolders,
            T!Get, P!Get, T!NewEntry, P!NewEntry, T!Stamp, P!Stamp, T!Full, P!Full,
            T!Target, P!Target, T!LevelsAfter, P!LevelsAfter,
            LP!None, LP!T!None, LP!Block, LP!T!Run, P!Run, LP!T!Cell, P!Cell,
            LP!KeysOf, LP!T!KeysOf, P!KeysOf
<1>1. T!None = P!None /\ LP!None = P!None /\ LP!Block = P!Run
  BY Zenon
<1>2. \A run : LP!KeysOf(run) = P!KeysOf(run)
  BY Zenon
<1>3. \A k : T!Copies(k) = P!Copies(k)
  BY Zenon
<1>4. \A k : T!Get(k) = P!Get(k)
  BY Zenon
<1>5. T!RecencyOrder <=> P!RecencyOrder
  BY Zenon DEF T!RecencyOrder, P!RecencyOrder, T!BufferInOrder, P!BufferInOrder,
               T!BufferNewerThanRuns, P!BufferNewerThanRuns, T!RunsInOrder, P!RunsInOrder
<1>6. \A k, del : T!WriteInBuffer(k, del) <=> P!WriteInBuffer(k, del)
  BY Zenon DEF T!WriteInBuffer, P!WriteInBuffer
<1>7. \A k, del : T!Stamp(k, del) <=> P!Stamp(k, del)
  BY Zenon
<1>8. \A k, del : T!NewEntry(k, del) = P!NewEntry(k, del)
  BY Zenon
<1>9. \A run : T!LevelsAfter(run) = P!LevelsAfter(run)
  BY Zenon
<1>10. QED
  BY Zenon, <1>1, <1>2, <1>3, <1>4, <1>5, <1>6, <1>7, <1>8, <1>9

LEMMA SameMerge == \A bit : T!MergeMap(bit) = P!MergeMap(bit)
<1> SUFFICES ASSUME NEW bit PROVE T!MergeMap(bit) = P!MergeMap(bit)
  OBVIOUS
<1> DEFINE f == [p \in T!Merged |-> T!LoadFullFile(T!RunAt(p), bit)]
           g == [p \in P!Merged |-> P!LoadFullFile(P!RunAt(p), bit)]
<1>1. T!Merged = P!Merged
  BY Zenon DEF T!Merged, P!Merged, T!Positions, P!Positions, T!Target, P!Target, T!Full, P!Full
<1>2. \A p : T!LoadFullFile(T!RunAt(p), bit) = P!LoadFullFile(P!RunAt(p), bit)
  BY Zenon DEF T!LoadFullFile, P!LoadFullFile, T!RunAt, P!RunAt, T!InFullPage, P!InFullPage,
               T!KeysOf, P!KeysOf, T!None, P!None, T!Cardinality, P!Cardinality
<1>3. f = g
  BY <1>1, <1>2
<1>4. T!MergeMap(bit) =
        [k \in Keys |-> IF k \in T!BufferKeys THEN T!CellOf(store[T!LastWrite(k)])
                        ELSE IF {p \in T!Merged : f[p][k] # T!None} = {} THEN T!None
                        ELSE f[T!First({p \in T!Merged : f[p][k] # T!None})][k]]
  BY Zenon DEF T!MergeMap
<1>5. P!MergeMap(bit) =
        [k \in Keys |-> IF k \in P!BufferKeys THEN P!CellOf(store[P!LastWrite(k)])
                        ELSE IF {p \in P!Merged : g[p][k] # P!None} = {} THEN P!None
                        ELSE g[P!First({p \in P!Merged : g[p][k] # P!None})][k]]
  BY Zenon DEF P!MergeMap
<1> HIDE DEF f, g
<1>6. P!MergeMap(bit) =
        [k \in Keys |-> IF k \in P!BufferKeys THEN P!CellOf(store[P!LastWrite(k)])
                        ELSE IF {p \in T!Merged : f[p][k] # P!None} = {} THEN P!None
                        ELSE f[P!First({p \in T!Merged : f[p][k] # P!None})][k]]
  BY Zenon, <1>1, <1>3, <1>5
<1>7. QED
  BY Zenon, <1>4, <1>6
     DEF T!BufferKeys, P!BufferKeys, T!CellOf, P!CellOf, T!LastWrite, P!LastWrite,
         T!None, P!None, T!First, P!First, T!Before, P!Before
-----------------------------------------------------------------------------
(* The order of age, over the tiers and the leveled levels *)

\* The copies of a key on the tiers are as old as writes of it, and those on the
\* leveled levels are older than all of them.
AgeInv ==
  \A k \in Keys \ {0} :
    /\ \A c \in P!Copies(k) : c.ver \in Nat /\ c.ver >= 1 /\ c.ver <= last[k].ver
    /\ \A c \in LP!Copies(k) : c.ver <= clock /\ \A d \in P!Copies(k) : c.ver < d.ver

\* The inductive invariant of the whole tree: the invariants of its two parts,
\* and what keeps the age of one part above the other's.
LazyInv == /\ P!RecencyInv /\ P!BufferHoldsLast /\ P!LastBounded
           /\ LP!LevelsInv
           /\ AgeInv

LEMMA InitLazy == Init => LazyInv
<1> SUFFICES ASSUME Init PROVE LazyInv
  OBVIOUS
<1>1. P!Init /\ LP!Init
  BY Zenon DEF Init, T!Init, P!Init, L!Init, LP!Init, T!None, P!None
<1>2. P!RecencyInv /\ LP!LevelsInv
  BY <1>1, P!InitRecency, LP!InitLevels, SameConstants, LevelsConstants
<1>3. store = <<>> /\ DOMAIN store = {} /\ tiers = << <<>> >> /\ leveled = << <<>> >>
  BY DEF Init, T!Init, L!Init
<1>4. P!BufferHoldsLast
  BY <1>3 DEF P!BufferHoldsLast
<1>5. P!LastBounded
  <2>1. clock = 0 /\ last = [k \in Keys |-> T!None]
    BY DEF Init, T!Init
  <2>2. T!None.ver = -1
    BY DEF T!None
  <2>3. QED
    BY <2>1, <2>2 DEF P!LastBounded
<1>6. AgeInv
  <2>1. P!Positions = {}
    BY <1>3 DEF P!Positions
  <2>2. \A k : P!Copies(k) = {}
    BY <1>3, <2>1 DEF P!Copies, P!Holders
  <2>3. \A k : LP!Copies(k) = {}
    BY <1>3 DEF LP!Copies, LP!CopiesIn, LP!Blocks
  <2>4. QED
    BY <2>2, <2>3 DEF AgeInv
<1>7. QED
  BY <1>2, <1>4, <1>5, <1>6 DEF LazyInv

\* The leveled levels are left alone.
LEMMA LeveledUnchanged ==
  ASSUME LP!LevelsInv, UNCHANGED leveledVars \/ L!End
  PROVE  LP!LevelsInv' /\ \A k : LP!Copies(k)' = LP!Copies(k)
<1>1. /\ leveled' = leveled /\ madeUp' = madeUp /\ dropped' = dropped /\ handed' = handed
      /\ (up' = up \/ up' = FALSE)
  BY DEF leveledVars, L!End
<1>2. up' \in BOOLEAN
  BY <1>1 DEF LP!LevelsInv, LP!LevelsShape
<1>3. LP!LevelsInv'
  BY <1>1, <1>2, LP!SameLevels, LevelsConstants
<1>4. \A k : LP!Copies(k)' = LP!Copies(k)
  BY <1>1 DEF LP!Copies, LP!CopiesIn, LP!Blocks
<1>5. QED
  BY <1>3, <1>4

\* What the ghosts record of a write.
LEMMA StampFacts ==
  ASSUME LazyInv, NEW w \in Keys, NEW del \in BOOLEAN, P!Stamp(w, del)
  PROVE  /\ clock \in Nat /\ clock' = clock + 1 /\ P!LastBounded'
         /\ last'[w].ver = clock + 1
         /\ \A k \in Keys : last[k].ver \in Int /\ last[k].ver <= clock
         /\ \A k \in Keys : k # w => last'[k] = last[k]
<1>1. clock \in Nat /\ last \in [Keys -> P!Cell \cup {P!None}] /\ P!LastBounded
  BY DEF LazyInv, P!RecencyInv, P!TypeOK
<1>2. /\ clock' = clock + 1
      /\ last' = [last EXCEPT ![w] = [ver |-> clock + 1, del |-> del]]
  BY DEF P!Stamp
<1>3. \A k \in Keys : last[k].ver \in Int /\ last[k].ver <= clock
  BY <1>1 DEF P!LastBounded, P!Cell, P!None
<1>4. last'[w] = [ver |-> clock + 1, del |-> del] /\ \A k \in Keys : k # w => last'[k] = last[k]
  BY <1>1, <1>2
<1>5. last'[w].ver = clock + 1
  BY <1>4
<1>6. P!LastBounded'
  BY <1>1, <1>2, <1>3, <1>4, <1>5 DEF P!LastBounded
<1>7. QED
  BY <1>1, <1>2, <1>3, <1>4, <1>5, <1>6

\* The version of a copy on the leveled levels is a number.
LEMMA LeveledVersions ==
  ASSUME LP!LevelsInv, NEW k \in Keys, NEW c \in LP!Copies(k)
  PROVE  c.ver \in Nat
<1>1. PICK i \in DOMAIN leveled : \E j \in DOMAIN leveled[i] : c = leveled[i][j][k] /\ c # LP!None
  BY DEF LP!Copies, LP!CopiesIn, LP!Blocks
<1>2. PICK j \in DOMAIN leveled[i] : c = leveled[i][j][k] /\ c # LP!None
  BY <1>1
<1>3. leveled \in Seq(Seq(LP!Block))
  BY DEF LP!LevelsInv, LP!LevelsShape
<1>4. leveled[i] \in Seq(LP!Block)
  BY <1>3
<1>5. leveled[i][j] \in LP!Block
  BY <1>4
<1>6. leveled[i][j] \in [Keys -> P!Cell \cup {P!None}] /\ LP!None = P!None
  BY <1>5, SameTree DEF P!Run
<1>7. c \in P!Cell
  BY <1>2, <1>6
<1>8. QED
  BY <1>7 DEF P!Cell

\* A write that leaves the leveled levels alone and of the tiers' copies keeps
\* some and adds its own.
LEMMA TierWriteAge ==
  ASSUME LazyInv, NEW w \in Keys, NEW del \in BOOLEAN, P!Stamp(w, del),
         \A k \in Keys \ {0} : \A c \in P!Copies(k)' : c \in P!Copies(k) \/ (k = w /\ c = last'[k]),
         \A k \in Keys : LP!Copies(k)' = LP!Copies(k), LP!LevelsInv
  PROVE  AgeInv'
<1>1. /\ clock \in Nat /\ clock' = clock + 1 /\ last'[w].ver = clock + 1
      /\ \A k \in Keys : last[k].ver \in Int /\ last[k].ver <= clock
      /\ \A k \in Keys : k # w => last'[k] = last[k]
  BY StampFacts
<1> SUFFICES ASSUME NEW k \in Keys \ {0}
             PROVE  /\ \A c \in P!Copies(k)' : c.ver \in Nat /\ c.ver >= 1 /\ c.ver <= last'[k].ver
                    /\ \A c \in LP!Copies(k)' : c.ver <= clock' /\ \A d \in P!Copies(k)' : c.ver < d.ver
  BY DEF AgeInv
<1>2. /\ \A c \in P!Copies(k) : c.ver \in Nat /\ c.ver >= 1 /\ c.ver <= last[k].ver
      /\ \A c \in LP!Copies(k) : c.ver <= clock /\ \A d \in P!Copies(k) : c.ver < d.ver
  BY DEF LazyInv, AgeInv
<1>3. \A c \in LP!Copies(k) : c.ver \in Int
  BY LeveledVersions
<1>4. ASSUME NEW c \in P!Copies(k)'
      PROVE  /\ c.ver \in Nat /\ c.ver >= 1 /\ c.ver <= last'[k].ver
             /\ \A o \in LP!Copies(k) : o.ver < c.ver
  <2>1. CASE c \in P!Copies(k)
    <3>1. c.ver \in Nat /\ c.ver >= 1 /\ c.ver <= last[k].ver
      BY <1>2, <2>1
    <3>2. c.ver <= last'[k].ver
      BY <1>1, <3>1
    <3>3. QED
      BY <1>2, <2>1, <3>1, <3>2
  <2>2. CASE k = w /\ c = last'[k]
    <3>1. c.ver = clock + 1
      BY <1>1, <2>2
    <3>2. QED
      BY <1>1, <1>2, <1>3, <2>2, <3>1
  <2>3. QED
    BY <2>1, <2>2
<1>5. ASSUME NEW c \in LP!Copies(k)' PROVE c.ver <= clock' /\ \A d \in P!Copies(k)' : c.ver < d.ver
  <2>1. c \in LP!Copies(k)
    BY <1>5
  <2>2. c.ver <= clock'
    BY <1>1, <1>2, <1>3, <2>1
  <2>3. QED
    BY <1>4, <2>1, <2>2
<1>6. QED
  BY <1>4, <1>5

\* The buffer has room.
LEMMA BufferWriteLazy ==
  ASSUME LazyInv, NEW k \in Keys, NEW del \in BOOLEAN, WriteInBuffer(k, del)
  PROVE  LazyInv'
<1>1. P!WriteInBuffer(k, del) /\ UNCHANGED leveledVars
  BY SameTree DEF WriteInBuffer
<1>2. P!Stamp(k, del)
  BY <1>1 DEF P!WriteInBuffer
<1>3. P!RecencyInv /\ P!TypeOK /\ P!BufferHoldsLast /\ P!LastBounded /\ LP!LevelsInv
  BY DEF LazyInv, P!RecencyInv
<1>4. P!Next
  <2>1. P!WriteInBuffer(k, FALSE) \/ P!WriteInBuffer(k, TRUE)
    BY <1>1
  <2>2. QED
    BY <2>1 DEF P!Next, P!Put, P!Del
<1>5. P!TypeOK'
  BY <1>3, <1>4, P!NextType, SameConstants
<1>6. P!RecencyInv'
  BY <1>1, <1>3, <1>5, P!BufferWriteRecency, SameConstants
<1>7. P!BufferHoldsLast'
  BY <1>3, <1>4, P!NextBufferHoldsLast, SameConstants
<1>8. P!LastBounded'
  BY <1>2, StampFacts
<1>9. LP!LevelsInv' /\ \A j : LP!Copies(j)' = LP!Copies(j)
  BY <1>1, <1>3, LeveledUnchanged
<1>10. \A j \in Keys \ {0} : \A c \in P!Copies(j)' : c \in P!Copies(j) \/ (j = k /\ c = last'[j])
  BY <1>1, <1>3, P!BufferWriteCopies, SameConstants
<1>11. AgeInv'
  BY <1>2, <1>3, <1>9, <1>10, TierWriteAge
<1>12. QED
  BY <1>6, <1>7, <1>8, <1>9, <1>11 DEF LazyInv

\* The buffer is full, and the cascade ends at a tiered level.
LEMMA TierMergeLazy ==
  ASSUME LazyInv, NEW k \in Keys, NEW del \in BOOLEAN, MergeIntoTier(k, del)
  PROVE  LazyInv'
<1>1. P!Stamp(k, del) /\ store' = <<P!NewEntry(k, del)>> /\ UNCHANGED leveledVars
  BY SameTree DEF MergeIntoTier
<1>2. PICK bit \in BOOLEAN : tiers' = P!LevelsAfter(P!MergeMap(bit))
  BY SameTree, SameMerge DEF MergeIntoTier
<1>3. P!RecencyInv /\ P!TypeOK /\ P!BufferHoldsLast /\ P!LastBounded /\ LP!LevelsInv
  BY DEF LazyInv, P!RecencyInv
<1>4. P!Compacted(k, del)
  BY <1>1, <1>2 DEF P!Compacted
<1>5. P!TypeOK'
  BY <1>3, <1>4, P!CompactedType, SameConstants
<1>6. P!RecencyInv'
  BY <1>3, <1>4, <1>5, P!FlushRecency, SameConstants
<1>7. P!BufferHoldsLast'
  BY <1>3, <1>4, P!CompactedHoldsLast, SameConstants
<1>8. P!LastBounded'
  BY <1>1, StampFacts
<1>9. LP!LevelsInv' /\ \A j : LP!Copies(j)' = LP!Copies(j)
  BY <1>1, <1>3, LeveledUnchanged
<1>10. \A j \in Keys \ {0} : \A c \in P!Copies(j)' : c \in P!Copies(j) \/ (j = k /\ c = last'[j])
  BY <1>3, <1>4, P!CompactedCopies, SameConstants
<1>11. AgeInv'
  BY <1>1, <1>3, <1>9, <1>10, TierWriteAge
<1>12. QED
  BY <1>6, <1>7, <1>8, <1>9, <1>11 DEF LazyInv

\* What a compaction merges is a batch of some key, and its copies are the tiers'.
LEMMA MergedBatch ==
  ASSUME LazyInv, Len(store) >= BufferSize, NEW bit \in BOOLEAN
  PROVE  /\ P!MergeMap(bit) \in LP!Block /\ LP!KeysOf(P!MergeMap(bit)) # {}
         /\ \A k \in Keys \ {0} : k \in LP!KeysOf(P!MergeMap(bit)) => P!MergeMap(bit)[k] \in P!Copies(k)
<1> DEFINE batch == P!MergeMap(bit)
<1>1. P!TypeOK /\ store \in Seq(P!Entry)
  BY DEF LazyInv, P!RecencyInv, P!TypeOK
<1>2. /\ batch \in P!Run
      /\ \A k \in Keys \ {0} : batch[k] # P!None =>
           \/ \E i \in DOMAIN store : store[i].key = k /\ batch[k] = P!CellOf(store[i])
           \/ \E p \in P!Merged : p \in P!Holders(k) /\ batch[k] = P!RunAt(p)[k]
  BY <1>1, P!MergeMapOrigin, SameConstants
<1>3. \A k : k \in LP!KeysOf(batch) <=> k \in Keys /\ batch[k] # P!None
  BY SameTree DEF P!KeysOf
<1>4. LP!KeysOf(batch) # {}
  <2>1. 1 \in DOMAIN store
    BY <1>1, TreeAssumption
  <2>2. store[1] \in P!Entry
    BY <1>1, <2>1
  <2>3. PICK k \in Keys : k = store[1].key
    BY <2>2 DEF P!Entry
  <2>4. k \in P!BufferKeys
    BY <2>1, <2>3 DEF P!BufferKeys
  <2>5. P!LastWrite(k) \in DOMAIN store
    BY <1>1, <2>4, P!LastWriteIsWrite, SameConstants
  <2>6. batch[k] = P!CellOf(store[P!LastWrite(k)])
    BY <2>3, <2>4 DEF P!MergeMap
  <2>7. store[P!LastWrite(k)] \in P!Entry
    BY <1>1, <2>5
  <2> HIDE DEF batch
  <2>8. batch[k].ver \in Nat
    BY <2>6, <2>7 DEF P!Entry, P!CellOf
  <2>9. batch[k] # P!None
    BY <2>8 DEF P!None
  <2>10. QED
    BY <1>3, <2>3, <2>9
<1>5. ASSUME NEW k \in Keys \ {0}, k \in LP!KeysOf(batch)
      PROVE  batch[k] \in P!Copies(k)
  <2>1. batch[k] # P!None
    BY <1>3, <1>5
  <2> HIDE DEF batch
  <2>2. QED
    BY <1>2, <2>1 DEF P!Copies
<1>6. QED
  BY <1>2, <1>4, <1>5, SameTree

\* With the tiers empty, a write in an empty buffer is the only copy there.
LEMMA EmptiedTree ==
  ASSUME LazyInv, NEW w \in Keys, NEW del \in BOOLEAN, P!Stamp(w, del),
         tiers' = TiersEmptied, store' = <<P!NewEntry(w, del)>>
  PROVE  /\ P!RecencyInv' /\ P!BufferHoldsLast' /\ P!LastBounded'
         /\ \A k \in Keys : \A c \in P!Copies(k)' : k = w /\ c = last'[k]
<1>1. P!TypeOK
  BY DEF LazyInv, P!RecencyInv
<1>2. clock \in Nat /\ clock' = clock + 1 /\ P!LastBounded' /\ last'[w].ver = clock + 1
  BY StampFacts
<1>3. /\ clock' \in Nat /\ last' \in [Keys -> P!Cell \cup {P!None}]
      /\ P!NewEntry(w, del) \in P!Entry /\ P!CellOf(P!NewEntry(w, del)) = last'[w]
  BY <1>1, P!StampType, P!StampCopy, SameConstants
<1>4. DOMAIN store' = {1} /\ store'[1] = P!NewEntry(w, del)
  OBVIOUS
<1>5. P!NewEntry(w, del).key = w
  BY DEF P!NewEntry
<1>6. tiers \in Seq(Seq(P!Run)) /\ Len(tiers) >= 1
  BY <1>1 DEF P!TypeOK
<1>7. tiers' \in Seq(Seq(P!Run)) /\ Len(tiers') >= 1 /\ \A i \in DOMAIN tiers' : tiers'[i] = <<>>
  <2>1. Len(tiers) \in Nat /\ DOMAIN tiers = 1..Len(tiers)
    BY <1>6
  <2>2. tiers' = [i \in 1..Len(tiers) |-> <<>>]
    BY <2>1 DEF TiersEmptied
  <2>3. <<>> \in Seq(P!Run)
    OBVIOUS
  <2>4. QED
    BY <1>6, <2>1, <2>2, <2>3
<1>8. P!Positions' = {}
  BY <1>7 DEF P!Positions
<1>9. \A k : P!Holders(k)' = {}
  BY <1>8 DEF P!Holders
<1>10. P!TypeOK'
  <2>1. store' \in Seq(P!Entry) /\ Len(store') <= BufferSize
    BY <1>3, TreeAssumption
  <2>2. QED
    BY <1>3, <1>7, <2>1 DEF P!TypeOK
<1>11. P!RecencyOrder'
  BY <1>4, <1>9 DEF P!RecencyOrder, P!BufferInOrder, P!BufferNewerThanRuns, P!RunsInOrder
<1>12. P!VersionsBounded'
  <2>1. P!NewEntry(w, del).ver = clock + 1
    BY DEF P!NewEntry
  <2>2. QED
    BY <1>2, <1>4, <1>9, <2>1 DEF P!VersionsBounded
<1>13. P!BufferHoldsLast'
  BY <1>3, <1>4, <1>5 DEF P!BufferHoldsLast, P!CellOf
<1>14. \A k \in Keys : \A c \in P!Copies(k)' : k = w /\ c = last'[k]
  BY <1>3, <1>4, <1>5, <1>9 DEF P!Copies, P!CellOf
<1>15. QED
  BY <1>2, <1>10, <1>11, <1>12, <1>13, <1>14 DEF P!RecencyInv

\* The buffer and all tiered levels are full.
LEMMA LeveledMergeLazy ==
  ASSUME LazyInv, NEW w \in Keys, NEW del \in BOOLEAN, MergeIntoLeveled(w, del)
  PROVE  LazyInv'
<1>1. /\ P!Stamp(w, del) /\ store' = <<P!NewEntry(w, del)>> /\ tiers' = TiersEmptied
      /\ Len(store) >= BufferSize
  BY SameTree DEF MergeIntoLeveled
<1>2. PICK bit \in BOOLEAN : LP!Arrive(P!MergeMap(bit))
  <2>1. PICK bit \in BOOLEAN : L!Arrive(T!MergeMap(bit))
    BY DEF MergeIntoLeveled
  <2>2. L!Arrive(P!MergeMap(bit))
    BY Zenon, <2>1, SameMerge
  <2>3. QED
    BY <2>2, SameArrive
<1> DEFINE batch == P!MergeMap(bit)
<1>3. /\ batch \in LP!Block /\ LP!KeysOf(batch) # {}
      /\ \A k \in Keys \ {0} : k \in LP!KeysOf(batch) => batch[k] \in P!Copies(k)
  BY <1>1, MergedBatch
<1>4. /\ P!RecencyInv' /\ P!BufferHoldsLast' /\ P!LastBounded'
      /\ \A k \in Keys : \A c \in P!Copies(k)' : k = w /\ c = last'[k]
  BY <1>1, EmptiedTree
<1>5. LP!Arrive(batch)
  BY <1>2
<1> HIDE DEF batch
<1>6. LP!LevelsInv
  BY DEF LazyInv
<1>7. LP!LevelsInv'
  BY <1>3, <1>5, <1>6, LP!ArriveKeeps, LevelsConstants
<1>8. \A k \in Keys : \A c \in LP!Copies(k)' :
        c \in LP!Copies(k) \/ (k \in LP!KeysOf(batch) /\ c = batch[k]) \/ c = LP!MadeUpCell
  BY <1>3, <1>5, <1>6, LP!ArriveCopies, LevelsConstants
<1>9. /\ clock \in Nat /\ clock' = clock + 1 /\ last'[w].ver = clock + 1
      /\ \A k \in Keys : last[k].ver \in Int /\ last[k].ver <= clock
  BY <1>1, StampFacts
<1>10. AgeInv'
  <2> SUFFICES ASSUME NEW k \in Keys \ {0}
               PROVE  /\ \A c \in P!Copies(k)' : c.ver \in Nat /\ c.ver >= 1 /\ c.ver <= last'[k].ver
                      /\ \A c \in LP!Copies(k)' : c.ver <= clock' /\ \A d \in P!Copies(k)' : c.ver < d.ver
    BY DEF AgeInv
  <2>1. \A c \in P!Copies(k)' : c.ver = clock + 1 /\ c.ver = last'[k].ver
    BY <1>4, <1>9
  <2>2. ASSUME NEW c \in LP!Copies(k)' PROVE c.ver \in Int /\ c.ver <= clock
    <3>1. CASE c \in LP!Copies(k)
      BY <1>6, <3>1, LeveledVersions DEF LazyInv, AgeInv
    <3>2. CASE k \in LP!KeysOf(batch) /\ c = batch[k]
      <4>1. c \in P!Copies(k)
        BY <1>3, <3>2
      <4>2. c.ver \in Nat /\ c.ver <= last[k].ver
        BY <4>1 DEF LazyInv, AgeInv
      <4>3. QED
        BY <1>9, <4>2
    <3>3. CASE c = LP!MadeUpCell
      <4>1. c.ver = 0
        BY <3>3 DEF LP!MadeUpCell
      <4>2. QED
        BY <1>9, <4>1
    <3>4. QED
      BY <1>8, <3>1, <3>2, <3>3
  <2>3. QED
    BY <1>9, <2>1, <2>2
<1>11. QED
  BY <1>4, <1>7, <1>10 DEF LazyInv

LEMMA NextLazy == LazyInv /\ [Next]_vars => LazyInv'
<1> SUFFICES ASSUME LazyInv, [Next]_vars PROVE LazyInv'
  OBVIOUS
<1>1. CASE SearchEmptyEnds \/ UNCHANGED vars
  <2>1. /\ store' = store /\ tiers' = tiers /\ clock' = clock /\ last' = last
        /\ UNCHANGED leveledVars \/ L!End
    BY <1>1 DEF vars, leveledVars, SearchEmptyEnds, L!SearchEmptyEnds
  <2>2. P!RecencyInv /\ P!BufferHoldsLast /\ P!LastBounded /\ LP!LevelsInv
    BY DEF LazyInv
  <2>3. UNCHANGED P!vars
    BY <2>1 DEF P!vars
  <2>4. P!RecencyInv'
    BY <2>2, <2>3, P!NextRecency, SameConstants
  <2>5. P!BufferHoldsLast' /\ P!LastBounded'
    BY <2>1, <2>2 DEF P!BufferHoldsLast, P!LastBounded, P!CellOf
  <2>6. LP!LevelsInv' /\ \A k : LP!Copies(k)' = LP!Copies(k)
    BY <2>1, <2>2, LeveledUnchanged
  <2>7. \A k : P!Copies(k)' = P!Copies(k)
    BY <2>1 DEF P!Copies, P!Holders, P!Positions, P!RunAt, P!CellOf
  <2>8. AgeInv'
    BY <2>1, <2>6, <2>7 DEF LazyInv, AgeInv
  <2>9. QED
    BY <2>4, <2>5, <2>6, <2>8 DEF LazyInv
<1>2. ASSUME NEW k \in Keys, Put(k) \/ Del(k)
      PROVE  LazyInv'
  BY <1>2, BufferWriteLazy, TierMergeLazy, LeveledMergeLazy DEF Put, Del
<1>3. QED
  BY <1>1, <1>2 DEF Next

\* In every state, what the buffer and the tiers hold of a key is in the order
\* of age and newer than all copies of it on the leveled levels: a get, and a
\* merge into the leveled levels, may stop at the first copy (91-187, 392-423).
THEOREM AgeCorrect == Spec => []RecencyOrder
<1>1. LazyInv => RecencyOrder
  <2> SUFFICES ASSUME LazyInv PROVE RecencyOrder
    OBVIOUS
  <2>1. T!RecencyOrder
    BY SameTree DEF LazyInv, P!RecencyInv
  <2>2. \A k \in Keys \ {0} : L!Copies(k) = LP!Copies(k) /\ T!Copies(k) = P!Copies(k)
    BY Zenon, SameBlocks, SameTree
  <2>3. \A k \in Keys \ {0} : \A old \in LP!Copies(k), new \in P!Copies(k) : old.ver < new.ver
    BY DEF LazyInv, AgeInv
  <2>4. QED
    BY Zenon, <2>1, <2>2, <2>3 DEF RecencyOrder
<1>2. QED
  BY <1>1, InitLazy, NextLazy, PTL DEF Spec

\* What the buffer and the tiers answer for a key whose last write, a put, they hold.
LEMMA TreeGetsLast ==
  ASSUME LazyInv, NEW k \in Keys \ {0}, last[k] \in P!Copies(k), ~last[k].del
  PROVE  P!Get(k) = last[k]
<1>1. P!RecencyInv /\ P!BufferHoldsLast /\ tiers \in Seq(Seq(P!Run)) /\ store \in Seq(P!Entry)
  BY DEF LazyInv, P!RecencyInv, P!TypeOK
<1>2. P!GetIsNewestLive
  BY <1>1, P!RecencyImpliesGet, SameConstants
<1>3. CASE k \in P!BufferKeys
  BY <1>2, <1>3 DEF P!GetIsNewestLive
<1>4. CASE k \notin P!BufferKeys
  <2>1. PICK p \in P!Holders(k) : last[k] = P!RunAt(p)[k]
    BY <1>4 DEF P!Copies, P!BufferKeys
  <2>2. p \in P!LiveHolders(k)
    BY <2>1 DEF P!LiveHolders
  <2>3. P!LiveHolders(k) \subseteq P!Holders(k) /\ P!LiveHolders(k) \subseteq P!Positions
    BY DEF P!LiveHolders, P!Holders
  <2> DEFINE f == P!First(P!LiveHolders(k))
  <2>4. f \in P!LiveHolders(k) /\ \A q \in P!LiveHolders(k) : q # f => P!Before(f, q)
    BY <1>1, <2>2, <2>3, P!FirstIsFirst, SameConstants
  <2>5. P!Get(k) = P!RunAt(f)[k]
    BY <1>4, <2>2 DEF P!Get
  <2> HIDE DEF f
  <2>6. P!RunAt(f)[k] \in P!Copies(k)
    BY <2>3, <2>4 DEF P!Copies
  <2>7. P!RunAt(f)[k].ver \in Nat /\ P!RunAt(f)[k].ver <= last[k].ver
    BY <2>6 DEF LazyInv, AgeInv
  <2>8. last[k].ver \in Nat
    BY DEF LazyInv, AgeInv
  <2>9. f = p
    <3>1. SUFFICES ASSUME f # p PROVE FALSE
      OBVIOUS
    <3>2. P!Before(f, p)
      BY <2>2, <2>4, <3>1
    <3>3. P!RunAt(p)[k].ver < P!RunAt(f)[k].ver
      BY <1>1, <2>1, <2>3, <2>4, <3>2 DEF P!RecencyInv, P!RecencyOrder, P!RunsInOrder
    <3>4. QED
      BY <2>1, <2>7, <2>8, <3>3
  <2>10. QED
    BY <2>1, <2>5, <2>9
<1>5. QED
  BY <1>3, <1>4

\* Without a copy of a key in the buffer and the tiers they answer nothing.
LEMMA TreeGetsNothing ==
  ASSUME NEW k \in Keys, P!Copies(k) = {}
  PROVE  P!Get(k) = P!None
<1>1. k \notin P!BufferKeys
  BY DEF P!Copies, P!BufferKeys
<1>2. P!LiveHolders(k) = {}
  BY DEF P!LiveHolders, P!Copies
<1>3. QED
  BY <1>1, <1>2 DEF P!Get

\* With one leveled level, and no entry made up, a get that finds a value of a
\* key whose last write is a put that is in the tree answers that write: the
\* buffer and the tiers are searched before the level, where a key has one copy.
THEOREM GetLastCorrect == Spec => []GetIsLastWrite
<1>1. LazyInv => GetIsLastWrite
  <2> SUFFICES ASSUME LazyInv, Len(leveled) = 1, ~madeUp, NEW k \in Keys \ {0},
                      last[k] \in T!Copies(k) \cup L!Copies(k), ~last[k].del, ~Get(k).del
               PROVE  Get(k) = last[k]
    BY Zenon DEF GetIsLastWrite
  <2>1. /\ T!Get(k) = P!Get(k) /\ T!Copies(k) = P!Copies(k) /\ T!None = P!None /\ LP!None = P!None
        /\ L!Copies(k) = LP!Copies(k)
    BY Zenon, SameTree, SameBlocks
  <2>2. last[k] # T!None
    BY DEF T!None
  <2>3. CASE last[k] \in P!Copies(k)
    <3>1. T!Get(k) = last[k]
      BY <2>1, <2>3, TreeGetsLast
    <3>2. QED
      BY <2>2, <3>1 DEF Get
  <2>4. CASE last[k] \in LP!Copies(k) /\ last[k] \notin P!Copies(k)
    <3>1. P!Copies(k) = {}
      <4>1. last[k].ver \in Nat
        BY <2>4, LeveledVersions DEF LazyInv
      <4>2. \A d \in P!Copies(k) : d.ver \in Nat /\ d.ver <= last[k].ver /\ last[k].ver < d.ver
        BY <2>4 DEF LazyInv, AgeInv
      <4>3. QED
        BY <4>1, <4>2
    <3>2. T!Get(k) = T!None
      BY <2>1, <3>1, TreeGetsNothing
    <3>3. /\ \A c, d \in LP!Copies(k) : c = d
          /\ LP!LevelGet(leveled[1], k) \in LP!Copies(k) \cup {LP!None}
      BY LP!OneCopy, LevelsConstants DEF LazyInv
    <3>4. L!LevelGet(leveled[1], k) = LP!LevelGet(leveled[1], k)
      BY Zenon, SameGet
    <3>5. DOMAIN leveled = {1}
      <4>1. leveled \in Seq(Seq(LP!Block))
        BY DEF LazyInv, LP!LevelsInv, LP!LevelsShape
      <4>2. QED
        BY <4>1
    <3>6. LeveledHits(k) # {}
      <4>1. SUFFICES ASSUME LeveledHits(k) = {} PROVE FALSE
        OBVIOUS
      <4>2. Get(k) = T!None
        BY <3>2, <4>1 DEF Get
      <4>3. QED
        BY <4>2 DEF T!None
    <3>7. LeveledHits(k) = {1}
      BY <3>5, <3>6 DEF LeveledHits
    <3>8. L!Least({1}) = 1
      BY DEF L!Least
    <3>9. Get(k) = L!LevelGet(leveled[1], k) /\ L!LevelGet(leveled[1], k) # T!None
      <4>1. Get(k) = L!LevelGet(leveled[L!Least(LeveledHits(k))], k)
        BY <3>2, <3>6 DEF Get
      <4>2. L!Least(LeveledHits(k)) = 1
        BY Zenon, <3>7, <3>8
      <4>3. 1 \in LeveledHits(k)
        BY <3>7
      <4>4. QED
        BY Zenon, <4>1, <4>2, <4>3 DEF LeveledHits
    <3>10. Get(k) \in LP!Copies(k)
      BY Zenon, <2>1, <3>3, <3>4, <3>9
    <3>11. QED
      BY Zenon, <2>4, <3>3, <3>10
  <2>5. QED
    BY <2>1, <2>3, <2>4
<1>2. QED
  BY <1>1, InitLazy, NextLazy, PTL DEF Spec
=============================================================================
