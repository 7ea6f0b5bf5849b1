--------------------------- MODULE PersistenceProofs -----------------------------
(***************************************************************************)
(* Proofs about Persistence: restarts and compactions keep the directory   *)
(* in step with the runs of the tree; whatever end a start comes after,    *)
(* the tree it loads has the copies of a key in the order of their age;    *)
(* and after a q and a start a get answers what it did.  For every set of  *)
(* keys, buffer size, level ratio, page size and number of starts.         *)
(***************************************************************************)
EXTENDS Persistence, FiniteSetTheorems, TLAPS

\* The lemmas on lists of levels, and the tree of module TieredTree.
P == INSTANCE TieredTreeProofs

LEMMA SameConstants == /\ Keys \subseteq Int /\ 0 \in Keys /\ P!IsFiniteSet(Keys)
                       /\ BufferSize \in Nat \ {0} /\ LevelRatio \in Nat \ {0, 1}
                       /\ PageSize \in Nat \ {0} /\ MaxWrites \in Nat
BY TreeAssumption DEF P!IsFiniteSet, IsFiniteSet
-----------------------------------------------------------------------------
(* Lists of files in the shape of lists of runs *)

SameShape(ns, ls) == /\ Len(ns) = Len(ls)
                     /\ \A i \in 1..Len(ns) : Len(ns[i]) = Len(ls[i])

\* No two places of ns have one file, and all files have numbers up to n.
OwnFiles(ns, n) ==
  /\ \A i \in 1..Len(ns) : \A j \in 1..Len(ns[i]) : ns[i][j] <= n
  /\ \A i, m \in 1..Len(ns) : \A j \in 1..Len(ns[i]), o \in 1..Len(ns[m]) :
       ns[i][j] = ns[m][o] => i = m /\ j = o

\* ns has, where ls has its runs, files with numbers up to n.
Placed(ns, ls, n) == /\ ns \in Seq(Seq(Nat))
                     /\ \E S : ls \in Seq(Seq(S))
                     /\ SameShape(ns, ls)
                     /\ OwnFiles(ns, n)

\* The inductive invariant: the files of the tree and of the meta file are where
\* their runs are, and none has a number still to be given out.  While every end
\* was a q the directory holds the files of the tree, and between a q and the
\* next start the meta file names the same.
SavedWhenClean == clean => /\ disk = FilesOf(names)
                           /\ running \/ (meta.exists /\ memory.exists /\ meta.names = names)
FilesInv == /\ flushes \in Nat
            /\ Placed(names, levels, flushes)
            /\ Placed(meta.names, meta.levels, flushes)
            /\ SavedWhenClean
-----------------------------------------------------------------------------
LEMMA FileHasPlace ==
  ASSUME NEW ns, ns \in Seq(Seq(Nat)), NEW f, f \in FilesOf(ns)
  PROVE  \E i \in 1..Len(ns) : \E j \in 1..Len(ns[i]) : f = ns[i][j]
<1>1. DOMAIN ns = 1..Len(ns) /\ \A i \in 1..Len(ns) : DOMAIN ns[i] = 1..Len(ns[i])
  OBVIOUS
<1>2. PICK i \in 1..Len(ns) : f \in {ns[i][j] : j \in DOMAIN ns[i]}
  BY <1>1 DEF FilesOf
<1>3. QED
  BY <1>1, <1>2

LEMMA PlaceHasFile ==
  ASSUME NEW ns, ns \in Seq(Seq(Nat)), NEW i, i \in 1..Len(ns), NEW j, j \in 1..Len(ns[i])
  PROVE  ns[i][j] \in FilesOf(ns)
<1>1. DOMAIN ns = 1..Len(ns) /\ DOMAIN ns[i] = 1..Len(ns[i])
  OBVIOUS
<1>2. ns[i][j] \in {ns[i][m] : m \in DOMAIN ns[i]}
  BY <1>1
<1>3. QED
  BY <1>1, <1>2 DEF FilesOf

\* Nothing is placed in an empty list, nor in a list of one empty level.
LEMMA PlacedNothing ==
  ASSUME NEW n \in Nat
  PROVE  Placed(<<>>, <<>>, n) /\ Placed(<< <<>> >>, << <<>> >>, n)
<1>1. <<>> \in Seq(Seq(Nat)) /\ << <<>> >> \in Seq(Seq(Nat))
  <2>1. <<>> \in Seq(Nat)
    OBVIOUS
  <2>2. QED
    BY <2>1
<1>2. Len(<<>>) = 0 /\ Len(<< <<>> >>) = 1 /\ << <<>> >>[1] = <<>>
  OBVIOUS
<1>3. QED
  BY <1>1, <1>2 DEF Placed, SameShape, OwnFiles

LEMMA PlacedMore ==
  ASSUME NEW n \in Nat, NEW ns, NEW ls, Placed(ns, ls, n)
  PROVE  Placed(ns, ls, n + 1)
<1>1. \A i \in 1..Len(ns) : \A j \in 1..Len(ns[i]) : ns[i][j] \in Nat
  BY DEF Placed
<1>2. \A i \in 1..Len(ns) : \A j \in 1..Len(ns[i]) : ns[i][j] <= n + 1
  <2>1. ASSUME NEW i \in 1..Len(ns), NEW j \in 1..Len(ns[i])
        PROVE  ns[i][j] <= n + 1
    <3>1. ns[i][j] \in Nat /\ ns[i][j] <= n
      BY <1>1 DEF Placed, OwnFiles
    <3>2. QED
      BY <3>1
  <2>2. QED
    BY <2>1
<1> DEFINE single == \A i, m \in 1..Len(ns) : \A j \in 1..Len(ns[i]), o \in 1..Len(ns[m]) :
                       ns[i][j] = ns[m][o] => i = m /\ j = o
<1>3. single
  BY DEF Placed, OwnFiles
<1>4. OwnFiles(ns, n + 1)
  BY <1>2, <1>3 DEF OwnFiles
<1>5. QED
  BY <1>4 DEF Placed

\* What is left of s when it is cut short behind place b of level a.
IsUpTo(u, s, a, b) ==
  /\ Len(u) = a
  /\ \A i \in 1..a - 1 : u[i] = s[i]
  /\ Len(u[a]) = b
  /\ \A j \in 1..b : u[a][j] = s[a][j]

LEMMA UpToShape ==
  ASSUME NEW V, NEW s, s \in Seq(Seq(V)), NEW a, a \in 1..Len(s), NEW b, b \in 1..Len(s[a]),
         NEW p, p[1] = a, p[2] = b
  PROVE  UpTo(p, s) \in Seq(Seq(V)) /\ IsUpTo(UpTo(p, s), s, a, b)
<1> DEFINE u(i) == IF i = a THEN SubSeq(s[i], 1, b) ELSE s[i]
<1>1. UpTo(p, s) = [i \in 1..a |-> u(i)]
  BY DEF UpTo
<1>2. a \in Nat /\ b \in Nat /\ s[a] \in Seq(V) /\ Len(s[a]) \in Nat /\ b <= Len(s[a])
  OBVIOUS
<1>3. /\ SubSeq(s[a], 1, b) \in Seq(V) /\ Len(SubSeq(s[a], 1, b)) = b
      /\ \A j \in 1..b : SubSeq(s[a], 1, b)[j] = s[a][j]
  BY <1>2
<1>4. \A i \in 1..a : u(i) \in Seq(V)
  BY <1>2, <1>3
<1> HIDE DEF u
<1>5. UpTo(p, s) \in Seq(Seq(V)) /\ Len(UpTo(p, s)) = a
  BY <1>1, <1>2, <1>4
<1>6. \A i \in 1..a : UpTo(p, s)[i] = u(i)
  BY <1>1
<1>7. QED
  BY <1>2, <1>3, <1>5, <1>6 DEF u, IsUpTo

\* A meta file cut short places the runs it has.
LEMMA PlacedUpTo ==
  ASSUME NEW n \in Nat, NEW ns, NEW ls, Placed(ns, ls, n),
         NEW a, a \in 1..Len(ns), NEW b, b \in 1..Len(ns[a]), NEW p, p[1] = a, p[2] = b
  PROVE  Placed(UpTo(p, ns), UpTo(p, ls), n)
<1>1. PICK S : ls \in Seq(Seq(S))
  BY DEF Placed
<1>2. /\ ns \in Seq(Seq(Nat)) /\ SameShape(ns, ls) /\ OwnFiles(ns, n)
      /\ a \in 1..Len(ls) /\ b \in 1..Len(ls[a])
  BY DEF Placed, SameShape
<1> DEFINE un == UpTo(p, ns)
           ul == UpTo(p, ls)
<1>3. un \in Seq(Seq(Nat)) /\ IsUpTo(un, ns, a, b)
  BY <1>2, UpToShape
<1>4. ul \in Seq(Seq(S)) /\ IsUpTo(ul, ls, a, b)
  BY <1>1, <1>2, UpToShape
<1> HIDE DEF un, ul
<1>5. /\ a \in Nat /\ Len(ns) \in Nat /\ a <= Len(ns)
      /\ Len(ns[a]) \in Nat /\ b \in Nat /\ b <= Len(ns[a])
  BY <1>2
<1>6. Len(un) = a /\ Len(ul) = a
  BY <1>3, <1>4 DEF IsUpTo
<1>7. ASSUME NEW i \in 1..a
      PROVE  /\ i \in 1..Len(ns)
             /\ Len(un[i]) = Len(ul[i])
             /\ \A j \in 1..Len(un[i]) : j \in 1..Len(ns[i]) /\ un[i][j] = ns[i][j]
  <2>1. i \in 1..Len(ns)
    BY <1>5
  <2>2. CASE i = a
    <3>1. Len(un[i]) = b /\ Len(ul[i]) = b
      BY <1>3, <1>4, <2>2 DEF IsUpTo
    <3>2. \A j \in 1..b : j \in 1..Len(ns[i]) /\ un[i][j] = ns[i][j]
      BY <1>3, <1>5, <2>2 DEF IsUpTo
    <3>3. QED
      BY <2>1, <3>1, <3>2
  <2>3. CASE i # a
    <3>1. i \in 1..a - 1
      BY <1>5, <2>3
    <3>2. un[i] = ns[i] /\ ul[i] = ls[i]
      BY <1>3, <1>4, <3>1 DEF IsUpTo
    <3>3. Len(ns[i]) = Len(ls[i])
      BY <1>2, <2>1 DEF SameShape
    <3>4. QED
      BY <2>1, <3>2, <3>3
  <2>4. QED
    BY <2>2, <2>3
<1>8. SameShape(un, ul)
  BY <1>6, <1>7 DEF SameShape
<1>9. OwnFiles(un, n)
  <2>1. \A i \in 1..a : \A j \in 1..Len(un[i]) : un[i][j] <= n
    BY ZenonT(40), <1>2, <1>7 DEF OwnFiles
  <2>2. ASSUME NEW i \in 1..a, NEW m \in 1..a, NEW j \in 1..Len(un[i]), NEW o \in 1..Len(un[m]),
               un[i][j] = un[m][o]
        PROVE  i = m /\ j = o
    <3>1. /\ i \in 1..Len(ns) /\ j \in 1..Len(ns[i]) /\ un[i][j] = ns[i][j]
          /\ m \in 1..Len(ns) /\ o \in 1..Len(ns[m]) /\ un[m][o] = ns[m][o]
      BY <1>7
    <3>2. /\ i \in 1..Len(ns) /\ j \in 1..Len(ns[i])
          /\ m \in 1..Len(ns) /\ o \in 1..Len(ns[m]) /\ ns[i][j] = ns[m][o]
      BY <2>2, <3>1
    <3>3. \A c, d \in 1..Len(ns) : \A e \in 1..Len(ns[c]), g \in 1..Len(ns[d]) :
            ns[c][e] = ns[d][g] => c = d /\ e = g
      BY <1>2 DEF OwnFiles
    <3>4. QED
      BY <3>2, <3>3
  <2>3. QED
    BY <1>6, <2>1, <2>2 DEF OwnFiles
<1>10. QED
  BY <1>3, <1>4, <1>8, <1>9 DEF Placed, un, ul
\* A run of the tree has its place in the list of files.
LEMMA RunPlace ==
  ASSUME Placed(names, levels, flushes), NEW p \in T!Positions
  PROVE  p = <<p[1], p[2]>> /\ p[1] \in 1..Len(names) /\ p[2] \in 1..Len(names[p[1]])
<1>1. /\ DOMAIN levels = 1..Len(names)
      /\ \A i \in 1..Len(names) : DOMAIN levels[i] = 1..Len(names[i])
  BY DEF Placed, SameShape
<1>2. PICK i \in 1..Len(names) : p \in {i} \X (1..Len(names[i]))
  BY <1>1 DEF T!Positions
<1>3. QED
  BY <1>2
-----------------------------------------------------------------------------
(* Compaction *)

\* The cascade ends at the same level in the list of runs and in that of files.
LEMMA SameTarget ==
  ASSUME Placed(names, levels, flushes)
  PROVE  N!Target = T!Target /\ T!Target \in 1..Len(names) + 1
<1> DEFINE n == Len(names)
           full == {i \in 1..n : Len(names[i]) = LevelRatio - 1}
<1>1. n \in Nat /\ Len(levels) = n
  BY DEF Placed, SameShape
<1>2. \A i \in 1..n : Len(levels[i]) = Len(names[i])
  BY DEF Placed, SameShape
<1>3. ASSUME NEW i \in 1..n + 1
      PROVE  /\ P!Takes(i, n, full) <=> /\ \A j \in 1..i - 1 : Len(names[j]) = LevelRatio - 1
                                        /\ i = n + 1 \/ Len(names[i]) # LevelRatio - 1
             /\ P!Takes(i, n, full) <=> /\ \A j \in 1..i - 1 : Len(levels[j]) = LevelRatio - 1
                                        /\ i = n + 1 \/ Len(levels[i]) # LevelRatio - 1
  <2>1. (\A j \in 1..i - 1 : j \in 1..n) /\ (i = n + 1 \/ i \in 1..n)
    BY <1>1
  <2> HIDE DEF n
  <2>2. QED
    BY <1>2, <2>1 DEF P!Takes
<1>4. PICK t \in 1..n + 1 : P!Takes(t, n, full)
  BY <1>1, P!OneTakes, SameConstants
<1> HIDE DEF full
<1>5. T!Target \in 1..n + 1 /\ P!Takes(T!Target, n, full)
  <2>1. \E i \in 1..Len(levels) + 1 :
          /\ \A j \in 1..i - 1 : Len(levels[j]) = LevelRatio - 1
          /\ i = Len(levels) + 1 \/ Len(levels[i]) # LevelRatio - 1
    BY <1>1, <1>3, <1>4
  <2>2. /\ T!Target \in 1..Len(levels) + 1
        /\ \A j \in 1..T!Target - 1 : Len(levels[j]) = LevelRatio - 1
        /\ T!Target = Len(levels) + 1 \/ Len(levels[T!Target]) # LevelRatio - 1
    BY <2>1 DEF T!Target, T!Full
  <2>3. QED
    BY <1>1, <1>3, <2>2
<1>6. N!Target \in 1..n + 1 /\ P!Takes(N!Target, n, full)
  <2>1. \E i \in 1..n + 1 :
          /\ \A j \in 1..i - 1 : Len(names[j]) = LevelRatio - 1
          /\ i = n + 1 \/ Len(names[i]) # LevelRatio - 1
    BY <1>3, <1>4
  <2>2. /\ N!Target \in 1..n + 1
        /\ \A j \in 1..N!Target - 1 : Len(names[j]) = LevelRatio - 1
        /\ N!Target = n + 1 \/ Len(names[N!Target]) # LevelRatio - 1
    BY <2>1 DEF N!Target, N!Full
  <2>3. QED
    BY <1>3, <2>2
<1>7. N!Target = T!Target
  BY <1>1, <1>5, <1>6, P!OneTakes, SameConstants
<1>8. QED
  BY <1>5, <1>7

\* The files of the levels above t.
FilesAbove(ns, t) == {f \in FilesOf(ns) : \E i \in 1..Len(ns) : \E j \in 1..Len(ns[i]) :
                                            i < t /\ f = ns[i][j]}

\* merge_policy removes the files of the levels it clears.
LEMMA MergedAbove ==
  ASSUME Placed(names, levels, flushes)
  PROVE  MergedFiles = FilesAbove(names, T!Target)
<1>1. /\ names \in Seq(Seq(Nat)) /\ Len(levels) = Len(names) /\ DOMAIN levels = 1..Len(names)
      /\ \A i \in 1..Len(names) : DOMAIN levels[i] = 1..Len(names[i])
  BY DEF Placed, SameShape
<1>2. ASSUME NEW f \in MergedFiles
      PROVE  f \in FilesAbove(names, T!Target)
  <2>1. PICK p \in T!Positions : p[1] < T!Target /\ f = names[p[1]][p[2]]
    BY <1>2 DEF MergedFiles, T!Merged, FileOf
  <2>2. PICK i \in 1..Len(names) : p \in {i} \X (1..Len(names[i]))
    BY <1>1, <2>1 DEF T!Positions
  <2>3. p[1] = i /\ p[2] \in 1..Len(names[i])
    BY <2>2
  <2>4. f \in FilesOf(names)
    BY <1>1, <2>1, <2>3, PlaceHasFile
  <2>5. QED
    BY <2>1, <2>3, <2>4 DEF FilesAbove
<1>3. ASSUME NEW f \in FilesAbove(names, T!Target)
      PROVE  f \in MergedFiles
  <2>1. PICK i \in 1..Len(names) : \E j \in 1..Len(names[i]) : i < T!Target /\ f = names[i][j]
    BY <1>3 DEF FilesAbove
  <2>2. PICK j \in 1..Len(names[i]) : i < T!Target /\ f = names[i][j]
    BY <2>1
  <2>3. <<i, j>> \in T!Positions
    BY <1>1 DEF T!Positions
  <2>4. <<i, j>> \in T!Merged
    BY <2>2, <2>3 DEF T!Merged
  <2>5. f = FileOf(<<i, j>>)
    BY <2>2 DEF FileOf
  <2>6. QED
    BY <2>4, <2>5 DEF MergedFiles
<1>4. QED
  BY <1>2, <1>3

\* ns2 is ns, and ls2 is ls, after file n + 1 and its run were pushed into level t.
Pushing(n, ns, ls, ns2, ls2, t, run, S) ==
  /\ n \in Nat /\ Placed(ns, ls, n)
  /\ t \in 1..Len(ns) + 1
  /\ ls \in Seq(Seq(S)) /\ run \in S
  /\ ns2 \in Seq(Seq(Nat)) /\ P!IsPushed(ns2, ns, t, n + 1)
  /\ ls2 \in Seq(Seq(S)) /\ P!IsPushed(ls2, ls, t, run)

\* A compaction places the new run, and the files left are those it did not
\* remove and the new one.
LEMMA PushingPlaces ==
  ASSUME NEW n, NEW ns, NEW ls, NEW ns2, NEW ls2, NEW t, NEW run, NEW S,
         Pushing(n, ns, ls, ns2, ls2, t, run, S)
  PROVE  /\ Placed(ns2, ls2, n + 1)
         /\ FilesOf(ns2) = (FilesOf(ns) \ FilesAbove(ns, t)) \cup {n + 1}
<1>0. n \in Nat
  BY DEF Pushing
<1>1. ls \in Seq(Seq(S)) /\ run \in S
  BY DEF Pushing
<1>2. /\ ns \in Seq(Seq(Nat)) /\ SameShape(ns, ls) /\ OwnFiles(ns, n)
      /\ Len(ls) = Len(ns) /\ t \in 1..Len(ns) + 1
  BY DEF Pushing, Placed, SameShape
<1>3. ns2 \in Seq(Seq(Nat)) /\ P!IsPushed(ns2, ns, t, n + 1)
  BY DEF Pushing
<1>4. ls2 \in Seq(Seq(S)) /\ P!IsPushed(ls2, ls, t, run)
  BY DEF Pushing
<1>5. Len(ns) \in Nat /\ t \in Nat /\ Len(ns2) \in Nat /\ Len(ns2) = Len(ls2)
  BY <1>2, <1>3, <1>4 DEF P!IsPushed
<1> DEFINE new(i, j) == i = t /\ j = (IF t > Len(ns) THEN 1 ELSE Len(ns[t]) + 1)
           old(i, j) == /\ i \in 1..Len(ns) /\ j \in 1..Len(ns[i]) /\ i >= t
                        /\ ns2[i][j] = ns[i][j]
\* What stands where.
<1>6. ASSUME NEW i \in 1..Len(ns2)
      PROVE  /\ Len(ns2[i]) = Len(ls2[i])
             /\ \A j \in 1..Len(ns2[i]) : old(i, j) \/ (new(i, j) /\ ns2[i][j] = n + 1)
  <2>1. CASE i < t
    <3>1. ns2[i] = <<>> /\ ls2[i] = <<>>
      BY <1>3, <1>4, <1>5, <2>1 DEF P!IsPushed
    <3>2. QED
      BY <3>1
  <2>2. CASE i > t
    <3>1. i \in 1..Len(ns) /\ ns2[i] = ns[i] /\ ls2[i] = ls[i]
      BY <1>3, <1>4, <1>5, <2>2 DEF P!IsPushed
    <3>2. QED
      BY <1>2, <1>5, <2>2, <3>1 DEF SameShape
  <2>3. CASE i = t /\ t > Len(ns)
    <3>1. ns2[i] = <<n + 1>>
      BY <1>3, <2>3 DEF P!IsPushed
    <3>2. Len(ns2[i]) = 1 /\ ns2[i][1] = n + 1
      BY <3>1
    <3>3. Len(ls2[i]) = 1
      <4>1. ls2[i] = <<run>>
        BY <1>2, <1>4, <1>5, <2>3 DEF P!IsPushed
      <4>2. QED
        BY <1>0, <4>1
    <3>4. \A j \in 1..1 : j = 1
      OBVIOUS
    <3>5. QED
      BY <2>3, <3>2, <3>3, <3>4
  <2>4. CASE i = t /\ ~(t > Len(ns))
    <3>1. /\ i \in 1..Len(ns)
          /\ ns2[i] = Append(ns[i], n + 1) /\ ls2[i] = Append(ls[i], run)
      BY <1>2, <1>3, <1>4, <1>5, <2>4 DEF P!IsPushed
    <3>2. ns[i] \in Seq(Nat) /\ ls[i] \in Seq(S) /\ Len(ns[i]) = Len(ls[i]) /\ Len(ns[i]) \in Nat
      BY <1>1, <1>2, <3>1 DEF SameShape
    <3>3. Len(ns2[i]) = Len(ns[i]) + 1 /\ Len(ls2[i]) = Len(ns[i]) + 1
      BY <3>1, <3>2
    <3>4. /\ \A j \in 1..Len(ns[i]) : ns2[i][j] = ns[i][j]
          /\ ns2[i][Len(ns[i]) + 1] = n + 1
      BY <3>1, <3>2, P!AppendShape, SameConstants
    <3>5. \A j \in 1..Len(ns[i]) + 1 : j \in 1..Len(ns[i]) \/ j = Len(ns[i]) + 1
      BY <3>2
    <3>6. QED
      BY <1>5, <2>4, <3>1, <3>3, <3>4, <3>5
  <2>5. QED
    BY <1>5, <2>1, <2>2, <2>3, <2>4
\* What is kept, and that the new one is there.
<1>7. ASSUME NEW i \in 1..Len(ns), NEW j \in 1..Len(ns[i]), i >= t
      PROVE  i \in 1..Len(ns2) /\ j \in 1..Len(ns2[i]) /\ ns2[i][j] = ns[i][j]
  <2>1. i \in 1..Len(ns2)
    BY <1>3, <1>5, <1>7 DEF P!IsPushed
  <2>2. CASE i > t
    BY <1>3, <2>1, <2>2 DEF P!IsPushed
  <2>3. CASE i = t
    <3>1. ns2[i] = Append(ns[i], n + 1)
      BY SMTT(20), <1>3, <1>5, <2>1, <2>3 DEF P!IsPushed
    <3>2. ns[i] \in Seq(Nat)
      BY <1>2
    <3>3. Len(ns2[i]) = Len(ns[i]) + 1 /\ Len(ns[i]) \in Nat
      BY <3>1, <3>2, P!AppendShape, SameConstants
    <3>4. ns2[i][j] = ns[i][j]
      BY <3>1, <3>2, P!AppendShape, SameConstants
    <3>5. QED
      BY <2>1, <3>3, <3>4
  <2>4. QED
    BY <1>5, <1>7, <2>2, <2>3
<1>8. \E i \in 1..Len(ns2) : \E j \in 1..Len(ns2[i]) : ns2[i][j] = n + 1
  <2>1. t \in 1..Len(ns2)
    BY <1>2, <1>3, <1>5 DEF P!IsPushed
  <2>2. CASE t > Len(ns)
    <3>1. ns2[t] = <<n + 1>>
      BY <1>3, <2>1, <2>2 DEF P!IsPushed
    <3>2. 1 \in 1..Len(ns2[t]) /\ ns2[t][1] = n + 1
      BY <3>1
    <3>3. QED
      BY <2>1, <3>2
  <2>3. CASE ~(t > Len(ns))
    <3>1. t \in 1..Len(ns) /\ ns2[t] = Append(ns[t], n + 1)
      BY <1>3, <2>1, <2>3 DEF P!IsPushed
    <3>2. ns[t] \in Seq(Nat)
      BY <1>2, <3>1
    <3>3. /\ Len(ns[t]) + 1 \in 1..Len(ns2[t])
          /\ ns2[t][Len(ns[t]) + 1] = n + 1
      BY <3>1, <3>2
    <3>4. QED
      BY <2>1, <3>3
  <2>4. QED
    BY <2>2, <2>3
<1>9. \A i \in 1..Len(ns) : \A j \in 1..Len(ns[i]) : ns[i][j] \in Nat /\ ns[i][j] <= n
  BY <1>2 DEF OwnFiles
<1>10. SameShape(ns2, ls2)
  BY <1>5, <1>6 DEF SameShape
<1>11. OwnFiles(ns2, n + 1)
  <2>1. ASSUME NEW i \in 1..Len(ns2), NEW j \in 1..Len(ns2[i])
        PROVE  ns2[i][j] <= n + 1
    <3>1. CASE old(i, j)
      <4>1. ns[i][j] \in Nat /\ ns[i][j] <= n
        BY <1>9, <3>1
      <4>2. QED
        BY <1>0, <3>1, <4>1
    <3>2. CASE ns2[i][j] = n + 1
      BY <1>0, <3>2
    <3>3. QED
      BY <1>6, <3>1, <3>2
  <2>2. ASSUME NEW i \in 1..Len(ns2), NEW m \in 1..Len(ns2),
               NEW j \in 1..Len(ns2[i]), NEW o \in 1..Len(ns2[m]), ns2[i][j] = ns2[m][o]
        PROVE  i = m /\ j = o
    <3>1. /\ old(i, j) \/ (new(i, j) /\ ns2[i][j] = n + 1)
          /\ old(m, o) \/ (new(m, o) /\ ns2[m][o] = n + 1)
      BY <1>6
    <3>2. CASE old(i, j) /\ old(m, o)
      <4>1. /\ i \in 1..Len(ns) /\ j \in 1..Len(ns[i])
            /\ m \in 1..Len(ns) /\ o \in 1..Len(ns[m]) /\ ns[i][j] = ns[m][o]
        BY <2>2, <3>2
      <4>2. QED
        BY <1>2, <4>1 DEF OwnFiles
    <3>3. CASE old(i, j) /\ ns2[m][o] = n + 1
      <4>1. ns[i][j] \in Nat /\ ns[i][j] <= n /\ ns[i][j] = n + 1
        BY <1>9, <2>2, <3>3
      <4>2. QED
        BY <1>0, <4>1
    <3>4. CASE old(m, o) /\ ns2[i][j] = n + 1
      <4>1. ns[m][o] \in Nat /\ ns[m][o] <= n /\ ns[m][o] = n + 1
        BY <1>9, <2>2, <3>4
      <4>2. QED
        BY <1>0, <4>1
    <3>5. CASE new(i, j) /\ new(m, o)
      BY <3>5
    <3>6. QED
      BY <3>1, <3>2, <3>3, <3>4, <3>5
  <2>3. QED
    BY <2>1, <2>2 DEF OwnFiles
<1>12. Placed(ns2, ls2, n + 1)
  BY <1>3, <1>4, <1>10, <1>11 DEF Placed
<1>13. ASSUME NEW f \in FilesOf(ns2)
       PROVE  f \in (FilesOf(ns) \ FilesAbove(ns, t)) \cup {n + 1}
  <2>1. PICK i \in 1..Len(ns2) : \E j \in 1..Len(ns2[i]) : f = ns2[i][j]
    BY <1>3, <1>13, FileHasPlace
  <2>2. PICK j \in 1..Len(ns2[i]) : f = ns2[i][j]
    BY <2>1
  <2>3. CASE old(i, j)
    <3>1. i \in 1..Len(ns) /\ j \in 1..Len(ns[i]) /\ i >= t /\ f = ns[i][j]
      BY <2>2, <2>3
    <3>2. f \in FilesOf(ns)
      BY <1>2, <3>1, PlaceHasFile
    <3>3. \A m \in 1..Len(ns) : \A o \in 1..Len(ns[m]) : f = ns[m][o] => m = i
      BY <1>2, <3>1 DEF OwnFiles
    <3>4. f \notin FilesAbove(ns, t)
      BY <1>5, <3>1, <3>3 DEF FilesAbove
    <3>5. QED
      BY <3>2, <3>4
  <2>4. QED
    BY <1>6, <2>2, <2>3
<1>14. ASSUME NEW f \in FilesOf(ns), f \notin FilesAbove(ns, t)
       PROVE  f \in FilesOf(ns2)
  <2>0. ns \in Seq(Seq(Nat)) /\ f \in FilesOf(ns)
    BY <1>2, <1>14
  <2>1. PICK i \in 1..Len(ns) : \E j \in 1..Len(ns[i]) : f = ns[i][j]
    BY <2>0, FileHasPlace
  <2>2. PICK j \in 1..Len(ns[i]) : f = ns[i][j]
    BY <2>1
  <2>3. ~(i < t)
    BY <1>14, <2>2 DEF FilesAbove
  <2>4. i >= t
    BY <1>5, <2>3
  <2>5. i \in 1..Len(ns2) /\ j \in 1..Len(ns2[i]) /\ ns2[i][j] = f
    BY <1>7, <2>2, <2>4
  <2>6. QED
    BY <1>3, <2>5, PlaceHasFile
<1>15. n + 1 \in FilesOf(ns2)
  BY <1>3, <1>8, PlaceHasFile
<1>16. QED
  BY <1>12, <1>13, <1>14, <1>15
LEMMA PlacedPushed ==
  ASSUME NEW n \in Nat, NEW ns, NEW ls, Placed(ns, ls, n), NEW t, t \in 1..Len(ns) + 1, NEW run
  PROVE  /\ Placed(P!PushedInto(ns, t, n + 1), P!PushedInto(ls, t, run), n + 1)
         /\ FilesOf(P!PushedInto(ns, t, n + 1)) = (FilesOf(ns) \ FilesAbove(ns, t)) \cup {n + 1}
<1>1. PICK S : ls \in Seq(Seq(S)) /\ run \in S
  <2>1. PICK R : ls \in Seq(Seq(R))
    BY DEF Placed
  <2>2. ls \in Seq(Seq(R \cup {run}))
    BY <2>1, P!LevelsOfMore, SameConstants
  <2>3. QED
    BY <2>2
<1>2. ns \in Seq(Seq(Nat)) /\ Len(ls) = Len(ns) /\ t \in 1..Len(ls) + 1
  BY DEF Placed, SameShape
<1>3. PICK ns2 : ns2 = P!PushedInto(ns, t, n + 1)
  OBVIOUS
<1>4. PICK ls2 : ls2 = P!PushedInto(ls, t, run)
  OBVIOUS
<1>5. ns2 \in Seq(Seq(Nat)) /\ P!IsPushed(ns2, ns, t, n + 1)
  BY <1>2, <1>3, P!PushedIntoShape, SameConstants
<1>6. ls2 \in Seq(Seq(S)) /\ P!IsPushed(ls2, ls, t, run)
  BY <1>1, <1>2, <1>4, P!PushedIntoShape, SameConstants
<1>7. /\ Placed(ns2, ls2, n + 1)
      /\ FilesOf(ns2) = (FilesOf(ns) \ FilesAbove(ns, t)) \cup {n + 1}
  BY <1>1, <1>5, <1>6, PushingPlaces DEF Pushing
<1>8. QED
  BY <1>3, <1>4, <1>7
-----------------------------------------------------------------------------
(* The steps *)

LEMMA InitFiles == Init => FilesInv
<1> SUFFICES ASSUME Init PROVE FilesInv
  OBVIOUS
<1>1. /\ flushes = 0 /\ levels = << <<>> >> /\ names = << <<>> >>
      /\ meta.names = <<>> /\ meta.levels = <<>> /\ disk = {} /\ running
  BY DEF Init, T!Init, NoMeta
<1>2. FilesOf(names) = {}
  BY <1>1 DEF FilesOf
<1>3. QED
  BY <1>1, <1>2, PlacedNothing DEF FilesInv, SavedWhenClean

LEMMA WriteFiles ==
  ASSUME FilesInv, NEW k \in Keys, NEW del \in BOOLEAN, Write(k, del)
  PROVE  FilesInv'
<1>1. /\ running /\ UNCHANGED <<memory, meta, running, starts, orderly, clean>>
  BY DEF Write, saves, ends
<1>2. /\ flushes \in Nat /\ Placed(names, levels, flushes)
      /\ Placed(meta.names, meta.levels, flushes) /\ SavedWhenClean
  BY DEF FilesInv
<1>3. CASE T!WriteInBuffer(k, del) /\ UNCHANGED <<names, disk>>
  <2>1. UNCHANGED <<levels, flushes, names, disk>>
    BY <1>3 DEF T!WriteInBuffer
  <2>2. QED
    BY <1>1, <1>2, <2>1 DEF FilesInv, SavedWhenClean, FilesOf
<1>4. CASE /\ T!WriteAfterFlush(k, del)
           /\ names' = N!LevelsAfter(NewFile)
           /\ disk' = (disk \ MergedFiles) \cup {NewFile}
  <2>1. PICK bit \in BOOLEAN : levels' = T!LevelsAfter(T!MergeMap(bit))
    BY <1>4 DEF T!WriteAfterFlush
  <2>2. flushes' = flushes + 1 /\ NewFile = flushes + 1
    BY <1>4 DEF T!WriteAfterFlush, NewFile
  <2>3. PICK t : t = T!Target
    OBVIOUS
  <2>4. PICK run : run = T!MergeMap(bit)
    OBVIOUS
  <2>5. N!Target = t /\ t \in 1..Len(names) + 1
    BY <1>2, <2>3, SameTarget
  <2>6. names' = P!PushedInto(names, t, flushes + 1)
    BY <1>4, <2>2, <2>5 DEF N!LevelsAfter, P!PushedInto
  <2>7. levels' = P!PushedInto(levels, t, run)
    BY <2>1, <2>3, <2>4 DEF T!LevelsAfter, P!PushedInto
  <2>8. /\ Placed(names', levels', flushes + 1)
        /\ FilesOf(names') = (FilesOf(names) \ FilesAbove(names, t)) \cup {flushes + 1}
    BY <1>2, <2>5, <2>6, <2>7, PlacedPushed
  <2>9. MergedFiles = FilesAbove(names, t)
    BY <1>2, <2>3, MergedAbove
  <2>10. clean => disk' = FilesOf(names')
    BY <1>2, <1>4, <2>2, <2>8, <2>9 DEF SavedWhenClean
  <2>11. SavedWhenClean'
    BY <1>1, <2>10 DEF SavedWhenClean, FilesOf
  <2>12. Placed(meta.names, meta.levels, flushes + 1)
    BY <1>2, PlacedMore
  <2>13. flushes + 1 \in Nat
    BY <1>2
  <2>14. QED
    BY <1>1, <2>2, <2>8, <2>11, <2>12, <2>13 DEF FilesInv
<1>5. QED
  BY <1>3, <1>4 DEF Write

LEMMA QuitFiles == FilesInv /\ Quit => FilesInv'
<1> SUFFICES ASSUME FilesInv, Quit PROVE FilesInv'
  OBVIOUS
<1>1. /\ UNCHANGED <<names, levels, flushes, disk, clean>>
      /\ meta'.exists /\ memory'.exists /\ meta'.names = names /\ meta'.levels = levels
  BY DEF Quit, treeVars, SavedMeta, SavedMemory
<1>2. QED
  BY <1>1 DEF FilesInv, SavedWhenClean, FilesOf

\* After a bad end the directory need not fit, but the files are as placed.
LEMMA BadEndFiles ==
  ASSUME FilesInv, EndedBadly, Placed(meta.names, meta.levels, flushes)'
  PROVE  FilesInv'
<1>1. UNCHANGED <<names, levels, flushes>> /\ ~clean'
  BY DEF EndedBadly, treeVars
<1>2. QED
  BY <1>1 DEF FilesInv, SavedWhenClean

LEMMA SavePlaces ==
  ASSUME FilesInv, EndedBadly, EndInSave
  PROVE  Placed(meta.names, meta.levels, flushes)'
<1>1. /\ UNCHANGED <<names, levels, flushes>> /\ flushes \in Nat
      /\ Placed(names, levels, flushes) /\ Placed(meta.names, meta.levels, flushes)
  BY DEF EndedBadly, treeVars, FilesInv
<1>2. CASE UNCHANGED meta
  BY <1>1, <1>2
<1>3. CASE meta' = EmptyMeta
  <2>1. meta'.names = <<>> /\ meta'.levels = <<>>
    BY <1>3 DEF EmptyMeta
  <2>2. QED
    BY <1>1, <2>1, PlacedNothing
<1>4. ASSUME NEW p \in T!Positions, meta' = MetaUpTo(p)
      PROVE  Placed(meta.names, meta.levels, flushes)'
  <2>1. meta'.names = UpTo(p, names) /\ meta'.levels = UpTo(p, levels)
    BY <1>4 DEF MetaUpTo
  <2>2. p[1] \in 1..Len(names) /\ p[2] \in 1..Len(names[p[1]])
    BY <1>1, RunPlace
  <2>3. QED
    BY <1>1, <2>1, <2>2, PlacedUpTo
<1>5. QED
  BY <1>2, <1>3, <1>4 DEF EndInSave

LEMMA StartFiles ==
  ASSUME FilesInv, StartFresh \/ StartSaved
  PROVE  FilesInv'
<1>1. /\ UNCHANGED <<flushes, disk, memory, meta, clean>> /\ ~running /\ running'
      /\ flushes \in Nat /\ Placed(meta.names, meta.levels, flushes) /\ SavedWhenClean
  BY DEF StartFresh, StartSaved, ReconstructFileStructure, Started, FilesInv, saves
<1>2. CASE StartFresh
  <2>1. names' = << <<>> >> /\ levels' = << <<>> >> /\ ~(meta.exists /\ memory.exists)
    BY <1>2 DEF StartFresh
  <2>2. ~clean'
    BY <1>1, <2>1 DEF SavedWhenClean
  <2>3. Placed(names', levels', flushes)
    BY <1>1, <2>1, PlacedNothing
  <2>4. QED
    BY <1>1, <2>2, <2>3 DEF FilesInv, SavedWhenClean
<1>3. CASE StartSaved
  <2>1. names' = meta.names /\ levels' = meta.levels
    BY <1>3 DEF StartSaved, ReconstructFileStructure
  <2>2. Placed(names', levels', flushes)
    BY <1>1, <2>1
  <2>3. clean => disk' = FilesOf(names')
    BY <1>1, <2>1 DEF SavedWhenClean
  <2>4. SavedWhenClean'
    BY <1>1, <2>3 DEF SavedWhenClean, FilesOf
  <2>5. QED
    BY <1>1, <2>2, <2>4 DEF FilesInv
<1>4. QED
  BY <1>2, <1>3

LEMMA NextFiles == FilesInv /\ [Next]_vars => FilesInv'
<1> SUFFICES ASSUME FilesInv, [Next]_vars PROVE FilesInv'
  OBVIOUS
<1>1. ASSUME NEW k \in Keys, NEW del \in BOOLEAN, Write(k, del)
      PROVE  FilesInv'
  BY <1>1, WriteFiles
<1>2. CASE Quit
  BY <1>2, QuitFiles
<1>3. CASE End \/ EndInCompaction
  <2>1. EndedBadly /\ UNCHANGED meta
    BY <1>3 DEF End, EndInCompaction, saves
  <2>2. Placed(meta.names, meta.levels, flushes)'
    BY <2>1 DEF EndedBadly, treeVars, FilesInv
  <2>3. QED
    BY <2>1, <2>2, BadEndFiles
<1>4. CASE EndInSave
  <2>1. EndedBadly
    BY <1>4 DEF EndInSave
  <2>2. QED
    BY <1>4, <2>1, SavePlaces, BadEndFiles
<1>5. CASE StartFresh \/ StartSaved
  BY <1>5, StartFiles
<1>6. CASE UNCHANGED vars
  BY <1>6 DEF vars, treeVars, saves, ends, FilesInv, SavedWhenClean, FilesOf
<1>7. QED
  BY <1>1, <1>2, <1>3, <1>4, <1>5, <1>6 DEF Next

LEMMA InvFilesAreRuns == FilesInv => FilesAreRuns
<1> SUFFICES ASSUME FilesInv PROVE FilesAreRuns
  OBVIOUS
<1>1. clean => disk = FilesOf(names)
  BY DEF FilesInv, SavedWhenClean
<1>2. Placed(names, levels, flushes)
  BY DEF FilesInv
<1>3. OwnFiles(names, flushes)
  BY <1>2 DEF Placed
<1>4. ASSUME NEW p \in T!Positions, NEW q \in T!Positions, FileOf(p) = FileOf(q)
      PROVE  p = q
  <2>1. /\ p = <<p[1], p[2]>> /\ p[1] \in 1..Len(names) /\ p[2] \in 1..Len(names[p[1]])
        /\ q = <<q[1], q[2]>> /\ q[1] \in 1..Len(names) /\ q[2] \in 1..Len(names[q[1]])
    BY <1>2, RunPlace
  <2>2. names[p[1]][p[2]] = names[q[1]][q[2]]
    BY <1>4 DEF FileOf
  <2>3. p[1] = q[1] /\ p[2] = q[2]
    BY <1>3, <2>1, <2>2 DEF OwnFiles
  <2>4. QED
    BY <2>1, <2>3
<1>5. QED
  BY <1>1, <1>4 DEF FilesAreRuns

\* While every end was a q, the files of runs on disk are those of the runs of
\* the tree, however often the program restarts and whatever it compacts in
\* between (merge_policy 439-452, exit_save 631-634, reconstruct_file_structure 1005-1137);
\* and however it ends, no two runs share a file.
THEOREM FilesCorrect == Spec => []FilesAreRuns
<1>1. QED
  BY InitFiles, NextFiles, InvFilesAreRuns, PTL DEF Spec
-----------------------------------------------------------------------------
(* The age of entries and of runs, the saved ones too *)

\* The entries of a buffer: later is newer, nothing is newer than n.
EntriesAged(es, n) ==
  /\ es \in Seq(P!Entry) /\ Len(es) <= BufferSize
  /\ \A e \in 1..Len(es) : es[e].ver <= n
  /\ \A e, f \in 1..Len(es) : e < f /\ es[e].key = es[f].key => es[e].ver < es[f].ver

\* The runs of a list of levels: of every key but 0, what is searched earlier is newer.
RunsBounded(ls, n) ==
  \A i \in 1..Len(ls) : \A j \in 1..Len(ls[i]) : \A k \in Keys : ls[i][j][k].ver <= n
RunsOrdered(ls) ==
  \A k \in Keys \ {0} : \A i, m \in 1..Len(ls) : \A j \in 1..Len(ls[i]) : \A o \in 1..Len(ls[m]) :
    /\ ls[i][j][k] # P!None /\ ls[m][o][k] # P!None
    /\ i < m \/ (i = m /\ j > o)
    => ls[m][o][k].ver < ls[i][j][k].ver
RunsAged(ls, n) == ls \in Seq(Seq(P!Run)) /\ RunsBounded(ls, n) /\ RunsOrdered(ls)

\* The runs hold nothing of an entry's key that is as new as the entry.
Older(ls, es) ==
  \A i \in 1..Len(ls) : \A j \in 1..Len(ls[i]) : \A e \in 1..Len(es) :
    ls[i][j][es[e].key].ver < es[e].ver

\* The inductive invariant of the order of age: what a start can load is in order,
\* and so is the buffer over the levels of the meta file, which an end in the
\* middle of a save leaves beside the memory file it has just written.
AgeInv ==
  /\ clock \in Nat /\ flushes \in Nat /\ last \in [Keys -> P!Cell \cup {P!None}]
  /\ EntriesAged(store, clock) /\ EntriesAged(memory.entries, clock)
  /\ RunsAged(levels, clock) /\ RunsAged(meta.levels, clock)
  /\ Older(levels, store) /\ Older(meta.levels, store) /\ Older(meta.levels, memory.entries)
  /\ Len(levels) >= 1
  /\ meta.exists /\ meta # EmptyMeta => Len(meta.levels) >= 1

LEMMA EntryFacts ==
  ASSUME NEW es, es \in Seq(P!Entry), NEW e \in 1..Len(es)
  PROVE  es[e] \in P!Entry /\ es[e].key \in Keys /\ es[e].ver \in Nat /\ es[e].del \in BOOLEAN
<1>1. es[e] \in P!Entry
  OBVIOUS
<1>2. QED
  BY <1>1 DEF P!Entry

LEMMA RunFacts ==
  ASSUME NEW ls, ls \in Seq(Seq(P!Run)), NEW i \in 1..Len(ls), NEW j \in 1..Len(ls[i])
  PROVE  /\ Len(ls) \in Nat /\ Len(ls[i]) \in Nat
         /\ ls[i] \in Seq(P!Run) /\ ls[i][j] \in P!Run
         /\ \A k \in Keys : ls[i][j][k] \in P!Cell \cup {P!None} /\ ls[i][j][k].ver \in Int
<1>1. ls[i] \in Seq(P!Run)
  OBVIOUS
<1>2. ls[i][j] \in P!Run
  BY <1>1
<1>3. \A k \in Keys : ls[i][j][k] \in P!Cell \cup {P!None}
  BY <1>2 DEF P!Run
<1>4. \A c \in P!Cell \cup {P!None} : c.ver \in Int
  BY DEF P!Cell, P!None
<1>5. QED
  BY <1>1, <1>2, <1>3, <1>4

LEMMA EntriesAgedMore ==
  ASSUME NEW n \in Nat, NEW es, EntriesAged(es, n)
  PROVE  EntriesAged(es, n + 1)
<1>1. es \in Seq(P!Entry)
  BY DEF EntriesAged
<1>2. \A e \in 1..Len(es) : es[e].ver \in Nat /\ es[e].ver <= n
  BY <1>1, EntryFacts DEF EntriesAged
<1>3. \A e \in 1..Len(es) : es[e].ver <= n + 1
  BY <1>2
<1>4. QED
  BY <1>3 DEF EntriesAged

LEMMA RunsAgedMore ==
  ASSUME NEW n \in Nat, NEW ls, RunsAged(ls, n)
  PROVE  RunsAged(ls, n + 1)
<1>1. ls \in Seq(Seq(P!Run)) /\ RunsBounded(ls, n) /\ RunsOrdered(ls)
  BY DEF RunsAged
<1>2. ASSUME NEW i \in 1..Len(ls), NEW j \in 1..Len(ls[i]), NEW k \in Keys
      PROVE  ls[i][j][k].ver <= n + 1
  <2>1. ls[i][j][k].ver \in Int
    BY <1>1, RunFacts
  <2>2. ls[i][j][k].ver <= n
    BY <1>1 DEF RunsBounded
  <2>3. QED
    BY <2>1, <2>2
<1>3. RunsBounded(ls, n + 1)
  BY <1>2 DEF RunsBounded
<1>4. QED
  BY <1>1, <1>3 DEF RunsAged

\* A new write behind the entries.
LEMMA AppendAged ==
  ASSUME NEW n \in Nat, NEW es, EntriesAged(es, n), Len(es) < BufferSize,
         NEW x, x \in P!Entry, x.ver = n + 1
  PROVE  EntriesAged(Append(es, x), n + 1)
<1> DEFINE new == Append(es, x)
<1>1. es \in Seq(P!Entry) /\ Len(es) \in Nat
  BY DEF EntriesAged
<1>2. /\ new \in Seq(P!Entry) /\ Len(new) = Len(es) + 1 /\ new[Len(es) + 1] = x
      /\ \A j \in 1..Len(es) : new[j] = es[j]
  BY <1>1, P!AppendShape, SameConstants
<1> HIDE DEF new
<1>3. \A e \in 1..Len(new) : e \in 1..Len(es) \/ e = Len(es) + 1
  BY <1>1, <1>2
<1>4. \A e \in 1..Len(es) : es[e].ver \in Nat /\ es[e].ver <= n
  BY <1>1, EntryFacts DEF EntriesAged
<1>5. \A e \in 1..Len(new) : new[e].ver <= n + 1
  BY <1>2, <1>3, <1>4
<1>6. ASSUME NEW e \in 1..Len(new), NEW f \in 1..Len(new), e < f, new[e].key = new[f].key
      PROVE  new[e].ver < new[f].ver
  <2>1. e \in 1..Len(es)
    BY <1>1, <1>2, <1>6
  <2>2. new[e] = es[e]
    BY <1>2, <2>1
  <2>3. CASE f \in 1..Len(es)
    <3>1. new[f] = es[f]
      BY <1>2, <2>3
    <3>2. QED
      BY <1>6, <2>1, <2>2, <2>3, <3>1 DEF EntriesAged
  <2>4. CASE f = Len(es) + 1
    <3>1. new[f].ver = n + 1
      BY <1>2, <2>4
    <3>2. es[e].ver \in Nat /\ es[e].ver <= n
      BY <1>4, <2>1
    <3>3. QED
      BY <2>2, <3>1, <3>2
  <2>5. QED
    BY <1>3, <2>3, <2>4
<1>7. Len(new) <= BufferSize
  BY <1>1, <1>2, TreeAssumption
<1>8. QED
  BY <1>2, <1>5, <1>6, <1>7 DEF EntriesAged, new

LEMMA AppendOlder ==
  ASSUME NEW n \in Nat, NEW es, es \in Seq(P!Entry), NEW x, x \in P!Entry, x.ver = n + 1,
         NEW ls, RunsAged(ls, n), Older(ls, es)
  PROVE  Older(ls, Append(es, x))
<1> DEFINE new == Append(es, x)
<1>1. Len(es) \in Nat
  OBVIOUS
<1>2. /\ new \in Seq(P!Entry) /\ Len(new) = Len(es) + 1 /\ new[Len(es) + 1] = x
      /\ \A j \in 1..Len(es) : new[j] = es[j]
  BY P!AppendShape, SameConstants
<1> HIDE DEF new
<1>3. SUFFICES ASSUME NEW i \in 1..Len(ls), NEW j \in 1..Len(ls[i]), NEW e \in 1..Len(new)
               PROVE  ls[i][j][new[e].key].ver < new[e].ver
  BY DEF Older, new
<1>4. CASE e \in 1..Len(es)
  <2>1. new[e] = es[e]
    BY <1>2, <1>4
  <2>2. QED
    BY <1>4, <2>1 DEF Older
<1>5. CASE e = Len(es) + 1
  <2>1. new[e] = x /\ x.key \in Keys
    BY <1>2, <1>5 DEF P!Entry
  <2>2. ls[i][j][x.key].ver \in Int
    BY <2>1, RunFacts DEF RunsAged
  <2>3. ls[i][j][x.key].ver <= n
    BY <2>1 DEF RunsAged, RunsBounded
  <2>4. QED
    BY <2>1, <2>2, <2>3
<1>6. QED
  BY <1>1, <1>2, <1>4, <1>5

\* A new write alone.
LEMMA OneEntryAged ==
  ASSUME NEW n \in Nat, NEW x, x \in P!Entry, x.ver = n + 1
  PROVE  /\ EntriesAged(<<x>>, n + 1)
         /\ \A ls : ls \in Seq(Seq(P!Run)) /\ RunsBounded(ls, n) => Older(ls, <<x>>)
<1>1. <<x>> \in Seq(P!Entry) /\ Len(<<x>>) = 1 /\ <<x>>[1] = x
  OBVIOUS
<1>2. 1 <= BufferSize
  BY TreeAssumption
<1>3. \A e \in 1..Len(<<x>>) : e = 1
  BY <1>1
<1>4. EntriesAged(<<x>>, n + 1)
  <2> DEFINE es == <<x>>
  <2>1. es \in Seq(P!Entry) /\ Len(es) = 1 /\ es[1] = x
    OBVIOUS
  <2> HIDE DEF es
  <2>2. \A e \in 1..Len(es) : e = 1
    BY <2>1
  <2>3. \A e \in 1..Len(es) : es[e].ver <= n + 1
    BY <2>1, <2>2
  <2>4. \A e, f \in 1..Len(es) : ~(e < f)
    BY <2>2
  <2>5. EntriesAged(es, n + 1)
    BY <1>2, <2>1, <2>3, <2>4 DEF EntriesAged
  <2>6. QED
    BY <2>5 DEF es
<1>5. ASSUME NEW ls, ls \in Seq(Seq(P!Run)), RunsBounded(ls, n) PROVE Older(ls, <<x>>)
  <2>1. x.key \in Keys
    BY DEF P!Entry
  <2>2. ASSUME NEW i \in 1..Len(ls), NEW j \in 1..Len(ls[i]) PROVE ls[i][j][x.key].ver < x.ver
    <3>1. ls[i][j][x.key].ver \in Int
      BY <1>5, <2>1, RunFacts
    <3>2. ls[i][j][x.key].ver <= n
      BY <1>5, <2>1 DEF RunsBounded
    <3>3. QED
      BY <3>1, <3>2
  <2>3. QED
    BY <1>1, <1>3, <2>2 DEF Older
<1>6. QED
  BY <1>4, <1>5

\* The runs of a list cut short, at the places they had.
LEMMA UpToRuns ==
  ASSUME NEW V, NEW ls, ls \in Seq(Seq(V)), NEW a, a \in 1..Len(ls), NEW b, b \in 1..Len(ls[a]),
         NEW p, p[1] = a, p[2] = b
  PROVE  /\ UpTo(p, ls) \in Seq(Seq(V)) /\ Len(UpTo(p, ls)) = a
         /\ \A i \in 1..a : /\ i \in 1..Len(ls)
                            /\ \A j \in 1..Len(UpTo(p, ls)[i]) :
                                 j \in 1..Len(ls[i]) /\ UpTo(p, ls)[i][j] = ls[i][j]
<1> DEFINE u == UpTo(p, ls)
<1>1. u \in Seq(Seq(V)) /\ IsUpTo(u, ls, a, b)
  BY UpToShape
<1> HIDE DEF u
<1>2. a \in Nat /\ Len(ls) \in Nat /\ a <= Len(ls)
  OBVIOUS
<1>3. Len(ls[a]) \in Nat /\ b \in Nat /\ b <= Len(ls[a])
  <2>1. ls[a] \in Seq(V)
    OBVIOUS
  <2>2. QED
    BY <2>1
<1>4. ASSUME NEW i \in 1..a
      PROVE  i \in 1..Len(ls) /\ \A j \in 1..Len(u[i]) : j \in 1..Len(ls[i]) /\ u[i][j] = ls[i][j]
  <2>1. i \in 1..Len(ls)
    BY <1>2
  <2>2. CASE i = a
    <3>1. Len(u[a]) = b /\ \A j \in 1..b : u[a][j] = ls[a][j]
      BY <1>1 DEF IsUpTo
    <3>2. \A j \in 1..b : j \in 1..Len(ls[a])
      BY <1>3
    <3>3. QED
      BY <2>1, <2>2, <3>1, <3>2
  <2>3. CASE i # a
    <3>1. i \in 1..a - 1
      BY <1>2, <2>3
    <3>2. u[i] = ls[i]
      BY <1>1, <3>1 DEF IsUpTo
    <3>3. QED
      BY <2>1, <3>2
  <2>4. QED
    BY <2>2, <2>3
<1>5. QED
  BY <1>1, <1>4 DEF u, IsUpTo

LEMMA UpToAged ==
  ASSUME NEW n \in Nat, NEW ls, RunsAged(ls, n), NEW a, a \in 1..Len(ls), NEW b, b \in 1..Len(ls[a]),
         NEW p, p[1] = a, p[2] = b
  PROVE  /\ RunsAged(UpTo(p, ls), n) /\ Len(UpTo(p, ls)) >= 1
         /\ \A es : Older(ls, es) => Older(UpTo(p, ls), es)
<1> DEFINE u == UpTo(p, ls)
<1>1. ls \in Seq(Seq(P!Run)) /\ RunsBounded(ls, n) /\ RunsOrdered(ls)
  BY DEF RunsAged
<1>2. /\ u \in Seq(Seq(P!Run)) /\ Len(u) = a
      /\ \A i \in 1..a : /\ i \in 1..Len(ls)
                         /\ \A j \in 1..Len(u[i]) : j \in 1..Len(ls[i]) /\ u[i][j] = ls[i][j]
  BY <1>1, UpToRuns
<1> HIDE DEF u
<1>3. ASSUME NEW i \in 1..Len(u), NEW j \in 1..Len(u[i])
      PROVE  i \in 1..Len(ls) /\ j \in 1..Len(ls[i]) /\ u[i][j] = ls[i][j]
  BY <1>2
<1>4. RunsBounded(u, n)
  BY <1>1, <1>3 DEF RunsBounded
<1>5. RunsOrdered(u)
  <2>1. SUFFICES ASSUME NEW k \in Keys \ {0}, NEW i \in 1..Len(u), NEW m \in 1..Len(u),
                        NEW j \in 1..Len(u[i]), NEW o \in 1..Len(u[m]),
                        u[i][j][k] # P!None, u[m][o][k] # P!None, i < m \/ (i = m /\ j > o)
                 PROVE  u[m][o][k].ver < u[i][j][k].ver
    BY DEF RunsOrdered
  <2>2. i \in 1..Len(ls) /\ j \in 1..Len(ls[i]) /\ u[i][j] = ls[i][j]
    BY <1>3
  <2>3. m \in 1..Len(ls) /\ o \in 1..Len(ls[m]) /\ u[m][o] = ls[m][o]
    BY <1>3
  <2>4. QED
    BY <1>1, <2>1, <2>2, <2>3 DEF RunsOrdered
<1>6. ASSUME NEW es, Older(ls, es) PROVE Older(u, es)
  BY <1>3, <1>6 DEF Older
<1>7. Len(u) >= 1
  BY <1>1, <1>2
<1>8. QED
  BY <1>2, <1>4, <1>5, <1>6, <1>7 DEF RunsAged, u

\* Nothing is in order.
LEMMA NothingAged ==
  ASSUME NEW n \in Nat
  PROVE  /\ EntriesAged(<<>>, n)
         /\ \A ls : Older(ls, <<>>)
         /\ \A es : Older(<<>>, es) /\ Older(<< <<>> >>, es)
         /\ RunsAged(<<>>, n) /\ RunsAged(<< <<>> >>, n)
<1>1. \A V : <<>> \in Seq(V)
  OBVIOUS
<1>2. Len(<<>>) = 0 /\ 1..0 = {}
  OBVIOUS
<1>3. EntriesAged(<<>>, n)
  BY <1>1, <1>2, TreeAssumption DEF EntriesAged
<1>4. (\A ls : Older(ls, <<>>)) /\ (\A es : Older(<<>>, es))
  BY <1>2 DEF Older
<1>5. RunsAged(<<>>, n)
  BY <1>1, <1>2 DEF RunsAged, RunsBounded, RunsOrdered
<1> DEFINE one == << <<>> >>
<1>6. one \in Seq(Seq(P!Run)) /\ \A i \in 1..Len(one) : one[i] = <<>>
  OBVIOUS
<1> HIDE DEF one
<1>7. \A i \in 1..Len(one) : 1..Len(one[i]) = {}
  BY <1>2, <1>6
<1>8. RunsAged(one, n)
  BY <1>6, <1>7 DEF RunsAged, RunsBounded, RunsOrdered
<1>9. \A es : Older(one, es)
  BY <1>7 DEF Older
<1>10. QED
  BY <1>3, <1>4, <1>5, <1>8, <1>9 DEF one
-----------------------------------------------------------------------------
(* What a save writes of the buffer *)

\* What flush_buffer makes of an entry.
FlushOne(run, entry) ==
  [run EXCEPT ![entry.key] =
     IF entry.del /\ @ # T!None THEN T!None ELSE T!CellOf(entry)]

LEMMA SameCells == T!None = P!None /\ (\A e : T!CellOf(e) = P!CellOf(e)) /\ (\A r : T!KeysOf(r) = P!KeysOf(r))
BY Zenon DEF T!None, P!None, T!CellOf, P!CellOf, T!KeysOf, P!KeysOf

LEMMA FlushOneFacts ==
  ASSUME NEW run \in P!Run, NEW entry \in P!Entry
  PROVE  /\ FlushOne(run, entry) \in P!Run
         /\ \A k \in Keys : FlushOne(run, entry)[k] =
              IF k # entry.key THEN run[k]
              ELSE IF entry.del /\ run[k] # P!None THEN P!None ELSE P!CellOf(entry)
<1>1. P!CellOf(entry) \in P!Cell /\ entry.key \in Keys
  BY DEF P!CellOf, P!Cell, P!Entry
<1>2. run \in [Keys -> P!Cell \cup {P!None}]
  BY DEF P!Run
<1> DEFINE v == IF entry.del /\ run[entry.key] # P!None THEN P!None ELSE P!CellOf(entry)
<1>3. FlushOne(run, entry) = [run EXCEPT ![entry.key] = v]
  BY Zenon, SameCells DEF FlushOne
<1>4. v \in P!Cell \cup {P!None}
  BY <1>1
<1>5. v = IF entry.del /\ run[entry.key] # P!None THEN P!None ELSE P!CellOf(entry)
  OBVIOUS
<1> HIDE DEF v
<1>6. FlushOne(run, entry) \in [Keys -> P!Cell \cup {P!None}]
  BY <1>2, <1>3, <1>4
<1>7. \A k \in Keys : FlushOne(run, entry)[k] = IF k # entry.key THEN run[k] ELSE v
  BY <1>2, <1>3
<1>8. QED
  BY <1>5, <1>6, <1>7 DEF P!Run

\* flush_buffer takes the entries one by one.
LEMMA FlushSteps ==
  ASSUME store \in Seq(P!Entry)
  PROVE  \E f : /\ \A n \in 0..Len(store) : f[n] \in P!Run
                /\ \A k \in Keys : f[0][k] = P!None
                /\ \A n \in 1..Len(store) : f[n] = FlushOne(f[n - 1], store[n])
                /\ FlushBuffer = f[Len(store)]
<1> DEFINE c == Len(store)
           nothing == [k \in Keys |-> T!None]
           next == [n \in Nat |-> [run \in P!Run |->
                      IF n + 1 \in 1..c THEN FlushOne(run, store[n + 1]) ELSE run]]
           W == CHOOSE flush : flush =
                  [n \in 0..Len(store) |->
                     IF n = 0 THEN [k \in Keys |-> T!None]
                     ELSE [flush[n - 1] EXCEPT ![store[n].key] =
                             IF store[n].del /\ @ # T!None THEN T!None ELSE T!CellOf(store[n])]]
<1>1. c \in Nat /\ \A n \in 1..c : store[n] \in P!Entry
  OBVIOUS
<1>2. nothing \in P!Run /\ \A k \in Keys : nothing[k] = P!None
  BY SameCells DEF P!Run
<1>3. next \in [Nat -> [P!Run -> P!Run]]
  <2>1. ASSUME NEW n \in Nat, NEW run \in P!Run
        PROVE  (IF n + 1 \in 1..c THEN FlushOne(run, store[n + 1]) ELSE run) \in P!Run
    BY <1>1, FlushOneFacts
  <2>2. QED
    BY <2>1
<1>4. \A n \in Nat : \A run \in P!Run : n + 1 \in 1..c => next[n][run] = FlushOne(run, store[n + 1])
  OBVIOUS
<1> HIDE DEF nothing, next
<1>5. PICK f \in [Nat -> P!Run] : f[0] = nothing /\ \A n \in Nat : f[n + 1] = next[n][f[n]]
  <2>1. \A a \in P!Run : \E f : P!Recurs(f, P!Run, a, next)
    BY <1>3, P!Recursion, SameConstants
  <2>2. QED
    BY <1>2, <2>1 DEF P!Recurs
<1> DEFINE g == [n \in 0..c |-> f[n]]
<1>6. \A n \in 1..c : f[n] = FlushOne(f[n - 1], store[n])
  <2>1. ASSUME NEW n \in 1..c PROVE f[n] = FlushOne(f[n - 1], store[n])
    <3>1. n - 1 \in Nat /\ n - 1 + 1 = n
      BY <1>1
    <3>2. f[n] = next[n - 1][f[n - 1]] /\ f[n - 1] \in P!Run
      BY <1>5, <3>1
    <3>3. \A m : m \in Nat /\ m + 1 \in 1..c => next[m][f[m]] = FlushOne(f[m], store[m + 1])
      BY <1>4, <1>5
    <3>4. QED
      BY <3>1, <3>2, <3>3
  <2>2. QED
    BY <2>1
<1>7. g = [n \in 0..c |-> IF n = 0 THEN nothing ELSE FlushOne(g[n - 1], store[n])]
  <2>1. \A n \in 0..c : n = 0 \/ n \in 1..c
    BY <1>1
  <2>2. \A n \in 1..c : n - 1 \in 0..c /\ n \in 0..c
    BY <1>1
  <2>3. \A n \in 0..c : g[n] = f[n]
    OBVIOUS
  <2>4. g = [n \in 0..c |-> g[n]]
    OBVIOUS
  <2> HIDE DEF g
  <2>5. \A n \in 0..c : g[n] = IF n = 0 THEN nothing ELSE FlushOne(g[n - 1], store[n])
    BY <1>5, <1>6, <2>1, <2>2, <2>3
  <2>6. QED
    BY <2>4, <2>5
<1> HIDE DEF g
<1>8. W = [n \in 0..c |-> IF n = 0 THEN nothing ELSE FlushOne(W[n - 1], store[n])]
  BY Zenon, <1>7 DEF nothing, FlushOne
<1>9. FlushBuffer = W[Len(store)]
  BY Zenon DEF FlushBuffer
<1> HIDE DEF W
<1> DEFINE same == {n \in Nat : n <= c => W[n] = f[n]}
<1>10. Nat \subseteq same
  <2>1. 0 \in same
    BY <1>1, <1>5, <1>8
  <2>2. ASSUME NEW n \in Nat, n \in same PROVE n + 1 \in same
    <3>1. ASSUME n + 1 <= c PROVE W[n + 1] = f[n + 1]
      <4>1. PICK m : m = n + 1
        OBVIOUS
      <4>2. m \in 1..c /\ m - 1 = n /\ m \in 0..c /\ m # 0 /\ n <= c
        BY <1>1, <3>1, <4>1
      <4>3. W[m] = FlushOne(W[n], store[m])
        BY <1>8, <4>2
      <4>4. f[m] = FlushOne(f[n], store[m])
        BY <1>6, <4>2
      <4>5. W[n] = f[n]
        BY <2>2, <4>2
      <4>6. QED
        BY Zenon, <4>1, <4>3, <4>4, <4>5
    <3>2. QED
      BY <3>1
  <2> HIDE DEF same
  <2>3. QED
    BY <2>1, <2>2, P!Induct, SameConstants
<1>11. W[c] = f[c]
  BY <1>1, <1>10
<1>12. \A k \in Keys : f[0][k] = P!None
  BY <1>2, <1>5
<1>13. \A n \in 0..c : f[n] \in P!Run
  BY <1>1, <1>5
<1>14. QED
  BY <1>6, <1>9, <1>11, <1>12, <1>13

\* The last of the first n entries with key k is the one at j.
LastOf(j, k, n) == /\ j \in 1..n /\ store[j].key = k
                   /\ \A m \in 1..n : store[m].key = k => m <= j

\* What flush_buffer keeps of a key is its last entry; it may drop a tombstone,
\* but only one that follows another entry of the key.
LEMMA FlushFacts ==
  ASSUME store \in Seq(P!Entry)
  PROVE  /\ FlushBuffer \in P!Run
         /\ \A k \in Keys :
              /\ FlushBuffer[k] # P!None =>
                   \E j \in 1..Len(store) : LastOf(j, k, Len(store)) /\ FlushBuffer[k] = P!CellOf(store[j])
              /\ \A j \in 1..Len(store) :
                   /\ LastOf(j, k, Len(store))
                   /\ ~store[j].del \/ \A m \in 1..Len(store) : store[m].key = k => m = j
                   => FlushBuffer[k] = P!CellOf(store[j])
<1> DEFINE c == Len(store)
<1>1. c \in Nat /\ \A n \in 1..c : store[n] \in P!Entry
  OBVIOUS
<1>2. PICK f : /\ \A n \in 0..c : f[n] \in P!Run
               /\ \A k \in Keys : f[0][k] = P!None
               /\ \A n \in 1..c : f[n] = FlushOne(f[n - 1], store[n])
               /\ FlushBuffer = f[c]
  BY FlushSteps
<1> DEFINE kept(n) ==
             \A k \in Keys :
               /\ f[n][k] # P!None => \E j \in 1..n : LastOf(j, k, n) /\ f[n][k] = P!CellOf(store[j])
               /\ \A j \in 1..n :
                    /\ LastOf(j, k, n)
                    /\ ~store[j].del \/ \A m \in 1..n : store[m].key = k => m = j
                    => f[n][k] = P!CellOf(store[j])
           keeps == {n \in Nat : n <= c => kept(n)}
<1>3. kept(0)
  BY <1>2
<1>4. ASSUME NEW n \in Nat, NEW o \in 1..c, o = n + 1, kept(n)
      PROVE  kept(o)
  <2>1. n \in 0..c /\ o - 1 = n /\ (\A i \in 1..o : i \in 1..n \/ i = o) /\ (\A i \in 1..n : i \in 1..o /\ i < o)
    BY <1>1, <1>4
  <2>2. f[n] \in P!Run /\ f[o] = FlushOne(f[n], store[o]) /\ store[o] \in P!Entry
    BY <1>1, <1>2, <2>1
  <2>3. \A k \in Keys : f[o][k] = IF k # store[o].key THEN f[n][k]
                                  ELSE IF store[o].del /\ f[n][k] # P!None THEN P!None
                                  ELSE P!CellOf(store[o])
    BY <2>2, FlushOneFacts
  <2>4. SUFFICES ASSUME NEW k \in Keys
                 PROVE  /\ f[o][k] # P!None => \E j \in 1..o : LastOf(j, k, o) /\ f[o][k] = P!CellOf(store[j])
                        /\ \A j \in 1..o :
                             /\ LastOf(j, k, o)
                             /\ ~store[j].del \/ \A m \in 1..o : store[m].key = k => m = j
                             => f[o][k] = P!CellOf(store[j])
    OBVIOUS
  <2>5. /\ f[n][k] # P!None => \E j \in 1..n : LastOf(j, k, n) /\ f[n][k] = P!CellOf(store[j])
        /\ \A j \in 1..n :
             /\ LastOf(j, k, n)
             /\ ~store[j].del \/ \A m \in 1..n : store[m].key = k => m = j
             => f[n][k] = P!CellOf(store[j])
    BY <1>4
  <2>6. CASE k # store[o].key
    <3>1. f[o][k] = f[n][k]
      BY <2>3, <2>6
    <3>2. \A j : LastOf(j, k, o) <=> LastOf(j, k, n)
      BY <2>1, <2>6 DEF LastOf
    <3>3. \A j : (\A m \in 1..o : store[m].key = k => m = j) <=> (\A m \in 1..n : store[m].key = k => m = j)
      BY <2>1, <2>6
    <3>4. \A j : LastOf(j, k, n) => j \in 1..n /\ j \in 1..o
      BY <2>1 DEF LastOf
    <3> HIDE DEF kept
    <3>5. QED
      BY <2>5, <3>1, <3>2, <3>3, <3>4
  <2>7. CASE k = store[o].key
    <3>1. f[o][k] = IF store[o].del /\ f[n][k] # P!None THEN P!None ELSE P!CellOf(store[o])
      BY <2>3, <2>7
    <3>2. o \in 1..o /\ LastOf(o, k, o) /\ \A j : LastOf(j, k, o) => j = o
      <4>1. o \in 1..o /\ \A m \in 1..o : m <= o /\ (m >= o => m = o)
        BY <1>4, <2>1
      <4>2. QED
        BY <2>7, <4>1 DEF LastOf
    <3>3. ASSUME ~store[o].del \/ \A m \in 1..o : store[m].key = k => m = o
          PROVE  f[o][k] = P!CellOf(store[o])
      <4>1. CASE ~store[o].del
        BY <3>1, <4>1
      <4>2. CASE \A m \in 1..o : store[m].key = k => m = o
        <5>1. ASSUME NEW j \in 1..n, LastOf(j, k, n) PROVE FALSE
          <6>1. j \in 1..o /\ j < o /\ store[j].key = k
            BY <2>1, <5>1 DEF LastOf
          <6>2. j = o
            BY <4>2, <6>1
          <6>3. QED
            BY <6>1, <6>2
        <5>2. f[n][k] = P!None
          BY <2>5, <5>1
        <5>3. QED
          BY <3>1, <5>2
      <4>3. QED
        BY <3>3, <4>1, <4>2
    <3>4. f[o][k] # P!None => f[o][k] = P!CellOf(store[o])
      BY <3>1
    <3> HIDE DEF kept
    <3>5. QED
      BY <3>2, <3>3, <3>4
  <2>8. QED
    BY <2>6, <2>7
<1>5. Nat \subseteq keeps
  <2> HIDE DEF kept
  <2>1. 0 \in keeps
    BY <1>3
  <2>2. ASSUME NEW n \in Nat, n \in keeps PROVE n + 1 \in keeps
    <3>1. ASSUME n + 1 <= c PROVE kept(n + 1)
      <4>1. PICK o : o = n + 1
        OBVIOUS
      <4>2. o \in 1..c /\ n <= c
        BY <1>1, <3>1, <4>1
      <4>3. kept(o)
        BY <1>4, <2>2, <4>1, <4>2
      <4>4. QED
        BY <4>1, <4>3
    <3>2. QED
      BY <3>1
  <2> HIDE DEF keeps
  <2>3. QED
    BY <2>1, <2>2, P!Induct, SameConstants
<1>6. kept(c)
  <2> HIDE DEF kept
  <2>1. QED
    BY <1>1, <1>5
<1>7. FlushBuffer \in P!Run
  <2>1. c \in 0..c
    BY <1>1
  <2>2. QED
    BY <1>2, <2>1
<1>8. QED
  BY <1>2, <1>6, <1>7

LEMMA SameSizes == \A S : P!Cardinality(S) = Cardinality(S) /\ (P!IsFiniteSet(S) <=> IsFiniteSet(S))
BY Zenon DEF P!Cardinality, Cardinality, P!IsFiniteSet, IsFiniteSet

\* The saved vector has an entry for each key, and no other.
LEMMA SortedFacts ==
  ASSUME NEW run \in P!Run
  PROVE  /\ Sorted(run) \in Seq(P!Entry) /\ Len(Sorted(run)) = Cardinality(P!KeysOf(run))
         /\ \A i \in 1..Len(Sorted(run)) : /\ Sorted(run)[i].key \in P!KeysOf(run)
                                           /\ P!CellOf(Sorted(run)[i]) = run[Sorted(run)[i].key]
         /\ \A k \in P!KeysOf(run) : \E i \in 1..Len(Sorted(run)) : Sorted(run)[i].key = k
         /\ \A i, j \in 1..Len(Sorted(run)) : Sorted(run)[i].key = Sorted(run)[j].key => i = j
<1> DEFINE keys == P!KeysOf(run)
           c == Cardinality(keys)
           rank(k) == Cardinality({j \in keys : j <= k})
           nth(i) == CHOOSE k \in keys : rank(k) = i
           cell(i) == [key |-> nth(i), ver |-> run[nth(i)].ver, del |-> run[nth(i)].del]
<1>1. /\ c \in Nat
      /\ \A k \in keys : rank(k) \in 1..c
      /\ \A k, m \in keys : rank(k) < rank(m) <=> k < m
      /\ \A n \in 1..c : \E k \in keys : rank(k) = n
  <2>1. keys \subseteq Int /\ P!IsFiniteSet(keys)
    <3>1. keys \in SUBSET Keys
      BY DEF P!KeysOf
    <3>2. IsFiniteSet(keys)
      BY <3>1, FS_Subset, TreeAssumption
    <3>3. QED
      BY <3>1, <3>2, SameSizes, TreeAssumption
  <2>2. /\ P!Cardinality(keys) \in Nat
        /\ \A k \in keys : P!Rank(keys, k) \in 1..P!Cardinality(keys)
        /\ \A k, m \in keys : P!Rank(keys, k) < P!Rank(keys, m) <=> k < m
        /\ \A n \in 1..P!Cardinality(keys) : \E k \in keys : P!Rank(keys, k) = n
    <3> HIDE DEF keys
    <3>1. QED
      BY <2>1, P!KeyRanks, SameConstants
  <2>3. P!Cardinality(keys) = c /\ \A k : P!Rank(keys, k) = rank(k)
    BY Zenon, SameSizes DEF P!Rank
  <2>4. c \in Nat
    BY <2>2, <2>3
  <2> HIDE DEF keys, c, rank
  <2>5. \A k \in keys : rank(k) \in 1..c
    BY <2>2, <2>3
  <2>6. \A k, m \in keys : rank(k) < rank(m) <=> k < m
    BY <2>2, <2>3
  <2>7. \A n \in 1..c : \E k \in keys : rank(k) = n
    BY <2>2, <2>3
  <2>8. QED
    BY <2>4, <2>5, <2>6, <2>7
<1>2. Sorted(run) = [i \in 1..c |-> cell(i)]
  BY Zenon, SameCells DEF Sorted
<1> HIDE DEF rank
<1>3. \A i \in 1..c : nth(i) \in keys /\ rank(nth(i)) = i
  BY <1>1
<1> HIDE DEF nth
<1>4. \A k \in keys : k \in Keys /\ run[k] \in P!Cell
  BY DEF P!KeysOf, P!Run
<1>5. \A i \in 1..c : cell(i) \in P!Entry /\ cell(i).key = nth(i) /\ P!CellOf(cell(i)) = run[nth(i)]
  <2>1. ASSUME NEW i \in 1..c
        PROVE  cell(i) \in P!Entry /\ cell(i).key = nth(i) /\ P!CellOf(cell(i)) = run[nth(i)]
    <3>1. nth(i) \in Keys /\ run[nth(i)] \in P!Cell
      BY <1>3, <1>4
    <3>2. \A m \in Keys, x \in P!Cell :
            /\ [key |-> m, ver |-> x.ver, del |-> x.del] \in P!Entry
            /\ P!CellOf([key |-> m, ver |-> x.ver, del |-> x.del]) = x
      BY DEF P!Entry, P!Cell, P!CellOf
    <3>3. QED
      BY <3>1, <3>2
  <2>2. QED
    BY <2>1
<1> DEFINE s == Sorted(run)
<1> HIDE DEF keys, cell
<1>6. s \in Seq(P!Entry) /\ Len(s) = c /\ \A i \in 1..c : s[i] = cell(i)
  <2> HIDE DEF c
  <2>1. QED
    BY <1>1, <1>2, <1>5
<1> HIDE DEF c, s
<1>7. \A i \in 1..Len(s) : s[i].key \in keys /\ P!CellOf(s[i]) = run[s[i].key]
  BY <1>3, <1>5, <1>6
<1>8. ASSUME NEW i \in 1..c, NEW j \in 1..c, s[i].key = s[j].key PROVE i = j
  <2>1. nth(i) = nth(j)
    BY <1>5, <1>6, <1>8
  <2>2. QED
    BY <1>3, <2>1
<1>9. ASSUME NEW k \in keys PROVE \E i \in 1..c : s[i].key = k
  <2>1. PICK i \in 1..c : i = rank(k)
    BY <1>1
  <2>2. nth(i) \in keys /\ rank(nth(i)) = rank(k)
    BY <1>3, <2>1
  <2>3. ~(rank(nth(i)) < rank(k)) /\ ~(rank(k) < rank(nth(i)))
    <3>1. \A n \in Nat : ~(n < n)
      OBVIOUS
    <3>2. rank(k) \in Nat
      BY <1>1
    <3>3. QED
      BY <2>2, <3>1, <3>2
  <2>4. ~(nth(i) < k) /\ ~(k < nth(i)) /\ nth(i) \in Int /\ k \in Int
    BY <1>1, <1>4, <2>2, <2>3, TreeAssumption
  <2>5. nth(i) = k
    BY <2>4
  <2>6. QED
    BY <1>5, <1>6, <2>5
<1>10. QED
  BY <1>6, <1>7, <1>8, <1>9 DEF keys, c, s

\* What a save writes of the buffer.
SavedEntries == Sorted(FlushBuffer)

\* Each saved entry is the last of its key in the buffer.
LEMMA SavedFacts ==
  ASSUME store \in Seq(P!Entry)
  PROVE  /\ SavedEntries \in Seq(P!Entry) /\ Len(SavedEntries) <= Len(store)
         /\ \A i \in 1..Len(SavedEntries) : \E j \in 1..Len(store) :
              /\ LastOf(j, SavedEntries[i].key, Len(store))
              /\ SavedEntries[i].ver = store[j].ver /\ SavedEntries[i].key = store[j].key
         /\ \A i, j \in 1..Len(SavedEntries) : SavedEntries[i].key = SavedEntries[j].key => i = j
<1> DEFINE c == Len(store)
           s == SavedEntries
           keys == P!KeysOf(FlushBuffer)
<1>1. c \in Nat
  OBVIOUS
<1>2. /\ FlushBuffer \in P!Run
      /\ \A k \in Keys : FlushBuffer[k] # P!None =>
           \E j \in 1..c : LastOf(j, k, c) /\ FlushBuffer[k] = P!CellOf(store[j])
  BY FlushFacts
<1>3. /\ s \in Seq(P!Entry) /\ Len(s) = Cardinality(keys)
      /\ \A i \in 1..Len(s) : s[i].key \in keys /\ P!CellOf(s[i]) = FlushBuffer[s[i].key]
      /\ \A i, j \in 1..Len(s) : s[i].key = s[j].key => i = j
  BY <1>2, SortedFacts DEF SavedEntries
<1>4. \A k : k \in keys <=> k \in Keys /\ FlushBuffer[k] # P!None
  BY DEF P!KeysOf
<1> HIDE DEF keys, s, c
<1>5. ASSUME NEW i \in 1..Len(s)
      PROVE  \E j \in 1..c : /\ LastOf(j, s[i].key, c)
                             /\ s[i].ver = store[j].ver /\ s[i].key = store[j].key
  <2>1. s[i].key \in keys /\ P!CellOf(s[i]) = FlushBuffer[s[i].key]
    BY <1>3
  <2>2. PICK j \in 1..c : LastOf(j, s[i].key, c) /\ FlushBuffer[s[i].key] = P!CellOf(store[j])
    BY <1>2, <1>4, <2>1
  <2>3. P!CellOf(s[i]) = P!CellOf(store[j])
    BY <2>1, <2>2
  <2>4. s[i].ver = store[j].ver
    BY <2>3 DEF P!CellOf
  <2>5. QED
    BY <2>2, <2>4 DEF LastOf
<1>6. Cardinality(keys) <= c
  <2> DEFINE of == [j \in 1..c |-> store[j].key]
             held == {store[j].key : j \in 1..c}
  <2>1. of \in Surjection(1..c, held)
    BY DEF Surjection
  <2>2. IsFiniteSet(1..c) /\ Cardinality(1..c) = c
    BY <1>1, FS_Interval
  <2>3. keys \subseteq held
    <3>1. ASSUME NEW k \in keys PROVE k \in held
      <4>1. PICK j \in 1..c : LastOf(j, k, c)
        BY <1>2, <1>4
      <4>2. QED
        BY <4>1 DEF LastOf
    <3>2. QED
      BY <3>1
  <2> HIDE DEF of, held
  <2>4. IsFiniteSet(held) /\ Cardinality(held) <= Cardinality(1..c)
    BY <2>1, <2>2, FS_Surjection
  <2>5. Cardinality(keys) <= Cardinality(held)
    BY <2>3, <2>4, FS_Subset
  <2>6. Cardinality(keys) \in Nat /\ Cardinality(held) \in Nat
    BY <2>3, <2>4, FS_Subset, FS_CardinalityType
  <2>7. QED
    BY <1>1, <2>2, <2>4, <2>5, <2>6
<1>7. QED
  BY <1>3, <1>5, <1>6 DEF s, c

\* The saved entries are in order, and as new over any runs as the buffer.
LEMMA SavedAged ==
  ASSUME NEW n \in Nat, EntriesAged(store, n)
  PROVE  /\ EntriesAged(SavedEntries, n)
         /\ \A ls : Older(ls, store) => Older(ls, SavedEntries)
<1> DEFINE s == SavedEntries
<1>1. store \in Seq(P!Entry) /\ Len(store) <= BufferSize /\ Len(store) \in Nat
      /\ \A e \in 1..Len(store) : store[e].ver <= n
  BY DEF EntriesAged
<1>2. /\ s \in Seq(P!Entry) /\ Len(s) <= Len(store)
      /\ \A i \in 1..Len(s) : \E j \in 1..Len(store) : s[i].ver = store[j].ver /\ s[i].key = store[j].key
      /\ \A i, j \in 1..Len(s) : s[i].key = s[j].key => i = j
  BY <1>1, SavedFacts
<1> HIDE DEF s
<1>3. Len(s) <= BufferSize
  BY <1>1, <1>2, TreeAssumption
<1>4. \A e \in 1..Len(s) : s[e].ver <= n
  BY <1>1, <1>2
<1>5. \A e, f \in 1..Len(s) : e < f => s[e].key # s[f].key
  <2>1. \A e \in 1..Len(s) : ~(e < e)
    OBVIOUS
  <2>2. QED
    BY <1>2, <2>1
<1>6. EntriesAged(s, n)
  BY <1>2, <1>3, <1>4, <1>5 DEF EntriesAged
<1>7. ASSUME NEW ls, Older(ls, store) PROVE Older(ls, s)
  <2>1. ASSUME NEW i \in 1..Len(ls), NEW j \in 1..Len(ls[i]), NEW e \in 1..Len(s)
        PROVE  ls[i][j][s[e].key].ver < s[e].ver
    <3>1. PICK m \in 1..Len(store) : s[e].ver = store[m].ver /\ s[e].key = store[m].key
      BY <1>2
    <3>2. ls[i][j][store[m].key].ver < store[m].ver
      BY <1>7 DEF Older
    <3>3. QED
      BY <3>1, <3>2
  <2>2. QED
    BY <2>1 DEF Older
<1>8. QED
  BY <1>6, <1>7 DEF s
-----------------------------------------------------------------------------
(* The tree of module TieredTree, as T and as the lemmas' P *)

LEMMA SameMerge == \A bit : T!MergeMap(bit) = P!MergeMap(bit)
<1> SUFFICES ASSUME NEW bit PROVE T!MergeMap(bit) = P!MergeMap(bit)
  OBVIOUS
<1> DEFINE f == [p \in T!Merged |-> T!LoadFullFile(T!RunAt(p), bit)]
           g == [p \in P!Merged |-> P!LoadFullFile(P!RunAt(p), bit)]
<1>1. T!Merged = P!Merged
  BY Zenon DEF T!Merged, P!Merged, T!Positions, P!Positions, T!Target, P!Target, T!Full, P!Full
<1>2. \A p : T!LoadFullFile(T!RunAt(p), bit) = P!LoadFullFile(P!RunAt(p), bit)
  BY Zenon DEF T!LoadFullFile, P!LoadFullFile, T!RunAt, P!RunAt, T!InFullPage, P!InFullPage,
               T!KeysOf, P!KeysOf, T!None, P!None, T!Cardinality, P!Cardinality
<1>3. f = g
  BY <1>1, <1>2
<1>4. T!MergeMap(bit) =
        [k \in Keys |-> IF k \in T!BufferKeys THEN T!CellOf(store[T!LastWrite(k)])
                        ELSE IF {p \in T!Merged : f[p][k] # T!None} = {} THEN T!None
                        ELSE f[T!First({p \in T!Merged : f[p][k] # T!None})][k]]
  BY Zenon DEF T!MergeMap
<1>5. P!MergeMap(bit) =
        [k \in Keys |-> IF k \in P!BufferKeys THEN P!CellOf(store[P!LastWrite(k)])
                        ELSE IF {p \in P!Merged : g[p][k] # P!None} = {} THEN P!None
                        ELSE g[P!First({p \in P!Merged : g[p][k] # P!None})][k]]
  BY Zenon DEF P!MergeMap
<1> HIDE DEF f, g
<1>6. P!MergeMap(bit) =
        [k \in Keys |-> IF k \in P!BufferKeys THEN P!CellOf(store[P!LastWrite(k)])
                        ELSE IF {p \in T!Merged : f[p][k] # P!None} = {} THEN P!None
                        ELSE f[P!First({p \in T!Merged : f[p][k] # P!None})][k]]
  BY Zenon, <1>1, <1>3, <1>5
<1>7. QED
  BY Zenon, <1>4, <1>6
     DEF T!BufferKeys, P!BufferKeys, T!CellOf, P!CellOf, T!LastWrite, P!LastWrite,
         T!None, P!None, T!First, P!First, T!Before, P!Before

LEMMA SameTree ==
  /\ T!RecencyOrder <=> P!RecencyOrder
  /\ \A k, del : /\ T!WriteInBuffer(k, del) <=> P!WriteInBuffer(k, del)
                 /\ T!Stamp(k, del) <=> P!Stamp(k, del)
                 /\ T!NewEntry(k, del) = P!NewEntry(k, del)
                 /\ T!WriteAfterFlush(k, del) <=> P!WriteAfterFlush(k, del)
  /\ \A run : T!LevelsAfter(run) = P!LevelsAfter(run)
<1> USE DEF T!None, P!None, T!CellOf, P!CellOf, T!Holders, P!Holders,
            T!Positions, P!Positions, T!RunAt, P!RunAt, T!Before, P!Before,
            T!NewEntry, P!NewEntry, T!Stamp, P!Stamp, T!Full, P!Full,
            T!Target, P!Target, T!LevelsAfter, P!LevelsAfter
<1>1. T!RecencyOrder <=> P!RecencyOrder
  BY Zenon DEF T!RecencyOrder, P!RecencyOrder, T!BufferInOrder, P!BufferInOrder,
               T!BufferNewerThanRuns, P!BufferNewerThanRuns, T!RunsInOrder, P!RunsInOrder
<1>2. \A k, del : T!WriteInBuffer(k, del) <=> P!WriteInBuffer(k, del)
  BY Zenon DEF T!WriteInBuffer, P!WriteInBuffer
<1>3. \A k, del : T!Stamp(k, del) <=> P!Stamp(k, del)
  BY Zenon
<1>4. \A k, del : T!NewEntry(k, del) = P!NewEntry(k, del)
  BY Zenon
<1>5. \A run : T!LevelsAfter(run) = P!LevelsAfter(run)
  BY Zenon
<1> HIDE DEF T!None, P!None, T!CellOf, P!CellOf, T!Holders, P!Holders,
            T!Positions, P!Positions, T!RunAt, P!RunAt, T!Before, P!Before,
            T!NewEntry, P!NewEntry, T!Stamp, P!Stamp, T!Full, P!Full,
            T!Target, P!Target, T!LevelsAfter, P!LevelsAfter
<1>6. \A k, del : T!WriteAfterFlush(k, del) <=> P!WriteAfterFlush(k, del)
  BY Zenon, <1>3, <1>4, <1>5, SameMerge DEF T!WriteAfterFlush, P!WriteAfterFlush
<1>7. QED
  BY Zenon, <1>1, <1>2, <1>3, <1>4, <1>5, <1>6

\* The invariant of module TieredTree's proof, from this one.
LEMMA AgeIsRecency ==
  ASSUME AgeInv
  PROVE  P!RecencyInv
<1>1. /\ store \in Seq(P!Entry) /\ Len(store) <= BufferSize /\ DOMAIN store = 1..Len(store)
      /\ \A e \in 1..Len(store) : store[e].ver <= clock
      /\ \A e, f \in 1..Len(store) : e < f /\ store[e].key = store[f].key => store[e].ver < store[f].ver
  BY DEF AgeInv, EntriesAged
<1>2. levels \in Seq(Seq(P!Run)) /\ RunsBounded(levels, clock) /\ RunsOrdered(levels)
  BY DEF AgeInv, RunsAged
<1>3. \A p \in P!Positions : /\ p[1] \in 1..Len(levels) /\ p[2] \in 1..Len(levels[p[1]])
                             /\ P!RunAt(p) = levels[p[1]][p[2]]
  BY <1>2, P!PositionsType, SameConstants DEF P!RunAt
<1>4. P!TypeOK
  BY <1>1, <1>2 DEF P!TypeOK, AgeInv
<1>5. P!VersionsBounded
  BY <1>1, <1>2, <1>3 DEF P!VersionsBounded, P!Holders, RunsBounded
<1>6. P!BufferInOrder
  BY <1>1 DEF P!BufferInOrder
<1>7. P!BufferNewerThanRuns
  BY <1>1, <1>3 DEF P!BufferNewerThanRuns, P!Holders, AgeInv, Older
<1>8. P!RunsInOrder
  <2>1. SUFFICES ASSUME NEW k \in Keys \ {0}, NEW p \in P!Holders(k), NEW q \in P!Holders(k), P!Before(p, q)
                 PROVE  P!RunAt(q)[k].ver < P!RunAt(p)[k].ver
    BY DEF P!RunsInOrder
  <2>2. /\ p[1] \in 1..Len(levels) /\ p[2] \in 1..Len(levels[p[1]])
        /\ P!RunAt(p) = levels[p[1]][p[2]] /\ P!RunAt(p)[k] # P!None
    BY <1>3 DEF P!Holders
  <2>3. /\ q[1] \in 1..Len(levels) /\ q[2] \in 1..Len(levels[q[1]])
        /\ P!RunAt(q) = levels[q[1]][q[2]] /\ P!RunAt(q)[k] # P!None
    BY <1>3 DEF P!Holders
  <2>4. p[1] < q[1] \/ (p[1] = q[1] /\ p[2] > q[2])
    BY <2>1 DEF P!Before
  <2>5. QED
    BY <1>2, <2>2, <2>3, <2>4 DEF RunsOrdered
<1>9. QED
  BY <1>4, <1>5, <1>6, <1>7, <1>8 DEF P!RecencyInv, P!RecencyOrder

\* And back, for the order of the runs after a write.
LEMMA RecencyOrdersRuns ==
  ASSUME P!RecencyInv'
  PROVE  levels' \in Seq(Seq(P!Run)) /\ RunsOrdered(levels')
<1>1. levels' \in Seq(Seq(P!Run)) /\ P!RunsInOrder'
  BY DEF P!RecencyInv, P!RecencyOrder, P!TypeOK
<1>2. ASSUME NEW i \in 1..Len(levels'), NEW j \in 1..Len(levels'[i])
      PROVE  <<i, j>> \in P!Positions' /\ P!RunAt(<<i, j>>)' = levels'[i][j]
  <2>1. i \in DOMAIN levels' /\ levels'[i] \in Seq(P!Run)
    BY <1>1
  <2>2. j \in DOMAIN levels'[i]
    BY <2>1
  <2>3. <<i, j>> \in {i} \X DOMAIN levels'[i]
    BY <2>2
  <2>4. QED
    BY <2>1, <2>3 DEF P!Positions, P!RunAt
<1>3. ASSUME NEW k \in Keys \ {0}, NEW i \in 1..Len(levels'), NEW m \in 1..Len(levels'),
             NEW j \in 1..Len(levels'[i]), NEW o \in 1..Len(levels'[m]),
             levels'[i][j][k] # P!None, levels'[m][o][k] # P!None, i < m \/ (i = m /\ j > o)
      PROVE  levels'[m][o][k].ver < levels'[i][j][k].ver
  <2>1. <<i, j>> \in P!Holders(k)' /\ <<m, o>> \in P!Holders(k)'
    BY <1>2, <1>3 DEF P!Holders
  <2>2. P!Before(<<i, j>>, <<m, o>>)
    BY <1>3 DEF P!Before
  <2>3. P!RunAt(<<m, o>>)'[k].ver < P!RunAt(<<i, j>>)'[k].ver
    BY <1>1, <2>1, <2>2 DEF P!RunsInOrder
  <2>4. QED
    BY <1>2, <2>3
<1>4. QED
  BY <1>1, <1>3 DEF RunsOrdered

\* What a compaction makes is no newer than the last write, key 0 included.
LEMMA MergedBounded ==
  ASSUME AgeInv, NEW bit \in BOOLEAN, NEW k \in Keys
  PROVE  P!MergeMap(bit)[k].ver <= clock
<1> DEFINE loaded == [p \in P!Merged |-> P!LoadFullFile(P!RunAt(p), bit)]
           having == {p \in P!Merged : loaded[p][k] # P!None}
<1>1. /\ store \in Seq(P!Entry) /\ DOMAIN store = 1..Len(store) /\ clock \in Nat
      /\ \A e \in 1..Len(store) : store[e].ver <= clock
      /\ levels \in Seq(Seq(P!Run)) /\ RunsBounded(levels, clock)
  <2>1. clock \in Nat /\ EntriesAged(store, clock) /\ RunsAged(levels, clock)
    BY Zenon DEF AgeInv
  <2>2. store \in Seq(P!Entry) /\ \A e \in 1..Len(store) : store[e].ver <= clock
    BY Zenon, <2>1 DEF EntriesAged
  <2>3. levels \in Seq(Seq(P!Run)) /\ RunsBounded(levels, clock)
    BY Zenon, <2>1 DEF RunsAged
  <2>4. DOMAIN store = 1..Len(store)
    BY <2>2
  <2>5. QED
    BY <2>1, <2>2, <2>3, <2>4
<1>2. P!MergeMap(bit)[k] = IF k \in P!BufferKeys THEN P!CellOf(store[P!LastWrite(k)])
                           ELSE IF having = {} THEN P!None
                           ELSE loaded[P!First(having)][k]
  BY DEF P!MergeMap
<1>3. P!None.ver <= clock
  BY <1>1 DEF P!None
<1>4. CASE k \in P!BufferKeys
  <2>1. P!LastWrite(k) \in 1..Len(store)
    BY <1>1, <1>4, P!LastWriteIsWrite, SameConstants
  <2>2. P!MergeMap(bit)[k].ver = store[P!LastWrite(k)].ver
    BY <1>2, <1>4 DEF P!CellOf
  <2>3. QED
    BY <1>1, <2>1, <2>2
<1>5. CASE k \notin P!BufferKeys /\ having = {}
  BY <1>2, <1>3, <1>5
<1>6. CASE k \notin P!BufferKeys /\ having # {}
  <2> DEFINE f == P!First(having)
  <2>1. having \subseteq P!Positions
    BY DEF P!Merged
  <2> HIDE DEF loaded
  <2>2. f \in having
    <3> HIDE DEF having
    <3>1. QED
      BY <1>1, <1>6, <2>1, P!FirstIsFirst, SameConstants
  <2>3. f \in P!Positions /\ f \in P!Merged
    BY <2>1, <2>2
  <2>4. P!MergeMap(bit)[k] = loaded[f][k]
    BY <1>2, <1>6
  <2> HIDE DEF f
  <2>5. f[1] \in 1..Len(levels) /\ f[2] \in 1..Len(levels[f[1]]) /\ P!RunAt(f) = levels[f[1]][f[2]]
    BY <1>1, <2>3, P!PositionsType, SameConstants DEF P!RunAt
  <2>6. P!RunAt(f)[k].ver <= clock
    BY <1>1, <2>5 DEF RunsBounded
  <2>7. loaded[f][k] = P!LoadFullFile(P!RunAt(f), bit)[k]
    BY <2>3 DEF loaded
  <2>8. \/ loaded[f][k] = P!RunAt(f)[k]
        \/ loaded[f][k] = [ver |-> 0, del |-> bit]
        \/ loaded[f][k] = P!None
    BY <2>7 DEF P!LoadFullFile
  <2>9. loaded[f][k].ver <= clock
    <3>1. CASE loaded[f][k] = P!RunAt(f)[k]
      BY <2>6, <3>1
    <3>2. CASE loaded[f][k] = [ver |-> 0, del |-> bit]
      <4>1. loaded[f][k].ver = 0
        BY <3>2
      <4>2. QED
        BY <1>1, <4>1
    <3>3. CASE loaded[f][k] = P!None
      BY <1>3, <3>3
    <3>4. QED
      BY <2>8, <3>1, <3>2, <3>3
  <2>10. QED
    BY <2>4, <2>9
<1>7. QED
  BY <1>4, <1>5, <1>6
-----------------------------------------------------------------------------
(* The order of age under each step *)

\* The levels after a compaction hold runs they held, and the new one.
LEMMA PushedRuns ==
  ASSUME NEW V, NEW ls \in Seq(Seq(V)), NEW t \in 1..Len(ls) + 1, NEW x \in V,
         NEW pushed \in Seq(Seq(V)), P!IsPushed(pushed, ls, t, x),
         NEW i \in 1..Len(pushed), NEW j \in 1..Len(pushed[i])
  PROVE  \/ pushed[i][j] = x
         \/ \E m \in 1..Len(ls) : \E o \in 1..Len(ls[m]) : pushed[i][j] = ls[m][o]
<1>1. P!IsPushed(pushed, ls, t, x)
  OBVIOUS
<1>2. i \in Nat /\ t \in Nat
  OBVIOUS
<1>3. CASE i < t
  <2>1. pushed[i] = <<>>
    BY <1>1, <1>3 DEF P!IsPushed
  <2>2. Len(pushed[i]) = 0
    BY <2>1
  <2>3. QED
    BY <2>2
<1>4. CASE i > t
  <2>1. i \in 1..Len(ls) /\ pushed[i] = ls[i]
    BY <1>1, <1>4 DEF P!IsPushed
  <2>2. QED
    BY <2>1
<1>5. CASE i = t /\ t > Len(ls)
  <2>1. pushed[i] = <<x>>
    BY <1>1, <1>5 DEF P!IsPushed
  <2>2. Len(pushed[i]) = 1 /\ pushed[i][1] = x
    BY <2>1
  <2>3. j = 1
    BY <2>2
  <2>4. QED
    BY <2>2, <2>3
<1>6. CASE i = t /\ ~(t > Len(ls))
  <2>1. i \in 1..Len(ls) /\ pushed[i] = Append(ls[i], x)
    BY <1>1, <1>6 DEF P!IsPushed
  <2>2. ls[i] \in Seq(V)
    BY <2>1
  <2>3. /\ Len(ls[i]) \in Nat /\ Len(pushed[i]) = Len(ls[i]) + 1
        /\ \A n \in 1..Len(ls[i]) : pushed[i][n] = ls[i][n]
        /\ pushed[i][Len(ls[i]) + 1] = x
    <3>1. PICK s : s = ls[i]
      OBVIOUS
    <3>2. s \in Seq(V) /\ pushed[i] = Append(s, x)
      BY <2>1, <2>2, <3>1
    <3>3. /\ Len(s) \in Nat /\ Len(Append(s, x)) = Len(s) + 1
          /\ \A n \in 1..Len(s) : Append(s, x)[n] = s[n]
          /\ Append(s, x)[Len(s) + 1] = x
      BY <3>2, P!AppendShape, SameConstants
    <3>4. QED
      BY Zenon, <3>1, <3>2, <3>3
  <2>4. j \in 1..Len(ls[i]) \/ j = Len(ls[i]) + 1
    BY <2>3
  <2>5. QED
    BY <2>1, <2>3, <2>4
<1>7. QED
  BY <1>2, <1>3, <1>4, <1>5, <1>6

LEMMA CompactedBounded ==
  ASSUME AgeInv, NEW bit \in BOOLEAN, NEW new \in Seq(Seq(P!Run)),
         P!IsPushed(new, levels, P!Target, P!MergeMap(bit))
  PROVE  RunsBounded(new, clock)
<1>1. P!RecencyInv /\ P!TypeOK
  BY AgeIsRecency DEF P!RecencyInv
<1>2. levels \in Seq(Seq(P!Run)) /\ RunsBounded(levels, clock)
  BY DEF AgeInv, RunsAged
<1>3. P!MergeMap(bit) \in P!Run
  BY <1>1, P!MergeMapOrigin, SameConstants
<1>4. P!Target \in 1..Len(levels) + 1
  BY <1>2, P!TargetType, SameConstants
<1>5. ASSUME NEW i \in 1..Len(new), NEW j \in 1..Len(new[i]), NEW k \in Keys
      PROVE  new[i][j][k].ver <= clock
  <2>1. \/ new[i][j] = P!MergeMap(bit)
        \/ \E m \in 1..Len(levels) : \E o \in 1..Len(levels[m]) : new[i][j] = levels[m][o]
    <3>1. \A t \in 1..Len(levels) + 1, run \in P!Run : P!IsPushed(new, levels, t, run) =>
            \/ new[i][j] = run
            \/ \E m \in 1..Len(levels) : \E o \in 1..Len(levels[m]) : new[i][j] = levels[m][o]
      <4>1. ASSUME NEW t \in 1..Len(levels) + 1, NEW run \in P!Run, P!IsPushed(new, levels, t, run)
            PROVE  \/ new[i][j] = run
                   \/ \E m \in 1..Len(levels) : \E o \in 1..Len(levels[m]) : new[i][j] = levels[m][o]
        <5>1. PICK R : R = P!Run
          OBVIOUS
        <5>2. levels \in Seq(Seq(R)) /\ new \in Seq(Seq(R)) /\ run \in R
          BY <1>2, <5>1
        <5>3. QED
          BY <4>1, <5>2, PushedRuns
      <4>2. QED
        BY <4>1
    <3>2. QED
      BY Zenon, <1>3, <1>4, <3>1
  <2>2. CASE new[i][j] = P!MergeMap(bit)
    BY <2>2, MergedBounded
  <2>3. CASE \E m \in 1..Len(levels) : \E o \in 1..Len(levels[m]) : new[i][j] = levels[m][o]
    BY <1>2, <2>3 DEF RunsBounded
  <2>4. QED
    BY <2>1, <2>2, <2>3
<1>6. QED
  BY <1>5 DEF RunsBounded

\* A write: the saved state grows no newer, and the write is newer than all of it.
LEMMA WriteAge ==
  ASSUME AgeInv, NEW k \in Keys, NEW del \in BOOLEAN, Write(k, del)
  PROVE  AgeInv'
<1> DEFINE x == P!NewEntry(k, del)
<1>1. P!RecencyInv /\ P!TypeOK
  BY AgeIsRecency DEF P!RecencyInv
<1>2. memory' = memory /\ meta' = meta
  BY DEF Write, saves
<1>3. P!WriteInBuffer(k, del) \/ P!WriteAfterFlush(k, del)
  BY SameTree DEF Write
<1>4. P!Next
  <2>1. \/ P!WriteInBuffer(k, FALSE) \/ P!WriteAfterFlush(k, FALSE)
        \/ P!WriteInBuffer(k, TRUE) \/ P!WriteAfterFlush(k, TRUE)
    BY <1>3
  <2>2. QED
    BY <2>1 DEF P!Next, P!Put, P!Del
<1>5. P!RecencyInv'
  BY <1>1, <1>4, P!NextRecency, SameConstants
<1>6. /\ clock' \in Nat /\ flushes' \in Nat /\ last' \in [Keys -> P!Cell \cup {P!None}]
      /\ Len(levels') >= 1
  BY <1>5 DEF P!RecencyInv, P!TypeOK
<1>7. levels' \in Seq(Seq(P!Run)) /\ RunsOrdered(levels')
  BY <1>5, RecencyOrdersRuns
<1>8. P!Stamp(k, del)
  BY <1>3 DEF P!WriteInBuffer, P!WriteAfterFlush
<1>9. clock \in Nat /\ clock' = clock + 1 /\ x \in P!Entry
  BY <1>1, <1>8, P!StampType, SameConstants DEF P!Stamp, AgeInv
<1>10. x.ver = clock + 1
  BY DEF P!NewEntry
<1> HIDE DEF x
<1>11. /\ EntriesAged(store, clock) /\ EntriesAged(memory.entries, clock)
       /\ RunsAged(levels, clock) /\ RunsAged(meta.levels, clock)
       /\ Older(levels, store) /\ Older(meta.levels, store) /\ Older(meta.levels, memory.entries)
       /\ (meta.exists /\ meta # EmptyMeta => Len(meta.levels) >= 1)
  BY Zenon DEF AgeInv
<1>12. EntriesAged(memory.entries, clock + 1)
  BY <1>9, <1>11, EntriesAgedMore
<1>13. RunsAged(meta.levels, clock + 1)
  BY <1>9, <1>11, RunsAgedMore
<1>14. EntriesAged(store', clock + 1) /\ RunsAged(levels', clock + 1) /\ Older(levels', store') /\ Older(meta.levels, store')
  <2>1. store \in Seq(P!Entry)
    BY <1>11 DEF EntriesAged
  <2>2. CASE P!WriteInBuffer(k, del)
    <3>1. store' = Append(store, x) /\ levels' = levels /\ Len(store) < BufferSize
      BY <2>2 DEF P!WriteInBuffer, x
    <3>2. EntriesAged(Append(store, x), clock + 1)
      BY <1>9, <1>10, <1>11, <3>1, AppendAged
    <3>3. RunsAged(levels, clock + 1)
      BY <1>9, <1>11, RunsAgedMore
    <3>4. Older(levels, Append(store, x))
      BY <1>9, <1>10, <1>11, <2>1, AppendOlder
    <3>5. Older(meta.levels, Append(store, x))
      BY <1>9, <1>10, <1>11, <2>1, AppendOlder
    <3>6. QED
      BY Zenon, <3>1, <3>2, <3>3, <3>4, <3>5
  <2>3. CASE P!WriteAfterFlush(k, del)
    <3>1. store' = <<x>>
      BY <2>3 DEF P!WriteAfterFlush, x
    <3>2. PICK bit \in BOOLEAN : levels' = P!LevelsAfter(P!MergeMap(bit))
      BY <2>3 DEF P!WriteAfterFlush
    <3>3. RunsBounded(levels', clock)
      <4>1. levels \in Seq(Seq(P!Run)) /\ P!Target \in 1..Len(levels) + 1
        <5>1. levels \in Seq(Seq(P!Run))
          BY <1>11 DEF RunsAged
        <5>2. QED
          BY <5>1, P!TargetType, SameConstants
      <4>2. P!MergeMap(bit) \in P!Run
        BY <1>1, P!MergeMapOrigin, SameConstants
      <4>3. levels' = P!PushedInto(levels, P!Target, P!MergeMap(bit))
        BY <3>2 DEF P!LevelsAfter, P!PushedInto
      <4>4. \A new : new = P!PushedInto(levels, P!Target, P!MergeMap(bit)) =>
                        P!IsPushed(new, levels, P!Target, P!MergeMap(bit))
        BY <4>1, <4>2, P!PushedIntoShape, SameConstants
      <4>5. P!IsPushed(levels', levels, P!Target, P!MergeMap(bit))
        BY Zenon, <4>3, <4>4
      <4>6. QED
        BY <1>7, <4>5, CompactedBounded
    <3>4. RunsAged(levels', clock)
      BY Zenon, <1>7, <3>3 DEF RunsAged
    <3>5. RunsAged(levels', clock + 1)
      BY <1>9, <3>4, RunsAgedMore
    <3>6. /\ EntriesAged(<<x>>, clock + 1)
          /\ \A ls : ls \in Seq(Seq(P!Run)) /\ RunsBounded(ls, clock) => Older(ls, <<x>>)
      BY <1>9, <1>10, OneEntryAged
    <3>7. Older(levels', <<x>>)
      BY Zenon, <1>7, <3>3, <3>6
    <3>8. meta.levels \in Seq(Seq(P!Run)) /\ RunsBounded(meta.levels, clock)
      BY Zenon, <1>11 DEF RunsAged
    <3>9. Older(meta.levels, <<x>>)
      BY Zenon, <3>6, <3>8
    <3>10. QED
      BY Zenon, <3>1, <3>5, <3>6, <3>7, <3>9
  <2>4. QED
    BY <1>3, <2>2, <2>3
<1>15. QED
  BY Zenon, <1>2, <1>6, <1>9, <1>11, <1>12, <1>13, <1>14 DEF AgeInv, EmptyMeta

LEMMA InitAge == Init => AgeInv
<1> SUFFICES ASSUME Init PROVE AgeInv
  OBVIOUS
<1>1. /\ store = <<>> /\ levels = << <<>> >> /\ clock = 0 /\ flushes = 0
      /\ last = [k \in Keys |-> P!None]
      /\ memory.entries = <<>> /\ meta.levels = <<>> /\ ~meta.exists
  BY SameCells DEF Init, T!Init, NoMemory, NoMeta
<1>2. \A n \in Nat :
        /\ EntriesAged(<<>>, n) /\ (\A ls : Older(ls, <<>>))
        /\ RunsAged(<<>>, n) /\ RunsAged(<< <<>> >>, n)
  BY NothingAged
<1>3. clock \in Nat /\ flushes \in Nat /\ last \in [Keys -> P!Cell \cup {P!None}] /\ Len(levels) >= 1
  BY <1>1
<1>4. QED
  BY Zenon, <1>1, <1>2, <1>3 DEF AgeInv

\* Steps of the files: a new memory file holds what a save writes of the buffer,
\* or nothing; a new meta file has levels of the tree, or some of them, and the
\* memory file beside it is of the same save.
LEMMA SaveAge ==
  ASSUME AgeInv, UNCHANGED treeVars,
         \/ memory' = memory /\ meta' = meta
         \/ memory'.entries = <<>> /\ meta' = meta
         \/ memory'.entries = SavedEntries /\ meta' = meta
         \/ memory'.entries = SavedEntries /\ meta' = EmptyMeta
         \/ /\ memory'.entries = SavedEntries
            /\ RunsAged(meta'.levels, clock) /\ Older(meta'.levels, store) /\ Len(meta'.levels) >= 1
  PROVE  AgeInv'
<1>1. store' = store /\ levels' = levels /\ clock' = clock /\ flushes' = flushes /\ last' = last
  BY DEF treeVars
<1>2. /\ clock \in Nat /\ flushes \in Nat /\ last \in [Keys -> P!Cell \cup {P!None}]
      /\ EntriesAged(store, clock) /\ EntriesAged(memory.entries, clock)
      /\ RunsAged(levels, clock) /\ RunsAged(meta.levels, clock)
      /\ Older(levels, store) /\ Older(meta.levels, store) /\ Older(meta.levels, memory.entries)
      /\ Len(levels) >= 1 /\ (meta.exists /\ meta # EmptyMeta => Len(meta.levels) >= 1)
  BY Zenon DEF AgeInv
<1>3. EntriesAged(SavedEntries, clock) /\ \A ls : Older(ls, store) => Older(ls, SavedEntries)
  BY <1>2, SavedAged
<1>4. /\ EntriesAged(<<>>, clock) /\ (\A ls : Older(ls, <<>>))
      /\ (\A es : Older(<<>>, es)) /\ RunsAged(<<>>, clock)
  BY <1>2, NothingAged
<1>5. EmptyMeta.levels = <<>> /\ EmptyMeta' = EmptyMeta
  BY DEF EmptyMeta
<1>6. EntriesAged(memory'.entries, clock)
  BY Zenon, <1>2, <1>3, <1>4
<1>7. RunsAged(meta'.levels, clock) /\ Older(meta'.levels, store)
  BY Zenon, <1>2, <1>4, <1>5
<1>8. Older(meta'.levels, memory'.entries)
  BY Zenon, <1>2, <1>3, <1>4, <1>5, <1>7
<1>9. meta'.exists /\ meta' # EmptyMeta => Len(meta'.levels) >= 1
  BY Zenon, <1>2
<1>10. QED
  BY Zenon, <1>1, <1>2, <1>5, <1>6, <1>7, <1>8, <1>9 DEF AgeInv

LEMMA EndAge ==
  ASSUME AgeInv, Quit \/ End \/ EndInCompaction \/ EndInSave
  PROVE  AgeInv'
<1>1. UNCHANGED treeVars
  BY DEF Quit, End, EndInCompaction, EndInSave, EndedBadly
<1>2. SavedMemory.entries = SavedEntries /\ SavedMeta.levels = levels
  BY DEF SavedMemory, SavedMeta, SavedEntries
<1>3. /\ clock \in Nat /\ RunsAged(levels, clock) /\ Older(levels, store) /\ Len(levels) >= 1
      /\ levels \in Seq(Seq(P!Run))
  <2>1. clock \in Nat /\ RunsAged(levels, clock) /\ Older(levels, store) /\ Len(levels) >= 1
    BY Zenon DEF AgeInv
  <2>2. QED
    BY Zenon, <2>1 DEF RunsAged
<1>4. CASE Quit
  <2>1. memory' = SavedMemory /\ meta' = SavedMeta
    BY <1>4 DEF Quit
  <2>2. memory'.entries = SavedEntries /\ meta'.levels = levels
    BY Zenon, <1>2, <2>1
  <2>3. RunsAged(meta'.levels, clock) /\ Older(meta'.levels, store) /\ Len(meta'.levels) >= 1
    BY Zenon, <1>3, <2>2
  <2>4. QED
    BY <1>1, <2>2, <2>3, SaveAge
<1>5. CASE End \/ EndInCompaction
  <2>1. memory' = memory /\ meta' = meta
    BY <1>5 DEF End, EndInCompaction, saves
  <2>2. QED
    BY <1>1, <2>1, SaveAge
<1>6. CASE EndInSave
  <2>1. CASE memory' = [exists |-> TRUE, entries |-> <<>>] /\ meta' = meta
    <3>1. memory'.entries = <<>> /\ meta' = meta
      BY <2>1
    <3>2. QED
      BY <1>1, <3>1, SaveAge
  <2>2. CASE memory' = SavedMemory /\ meta' = meta
    <3>1. memory'.entries = SavedEntries /\ meta' = meta
      BY Zenon, <1>2, <2>2
    <3>2. QED
      BY <1>1, <3>1, SaveAge
  <2>3. CASE memory' = SavedMemory /\ meta' = EmptyMeta
    <3>1. memory'.entries = SavedEntries /\ meta' = EmptyMeta
      BY Zenon, <1>2, <2>3
    <3>2. QED
      BY <1>1, <3>1, SaveAge
  <2>4. ASSUME memory' = SavedMemory, NEW p \in T!Positions, meta' = MetaUpTo(p)
        PROVE  AgeInv'
    <3>1. memory'.entries = SavedEntries
      BY Zenon, <1>2, <2>4
    <3>2. meta'.levels = UpTo(p, levels)
      BY <2>4 DEF MetaUpTo
    <3>3. p[1] \in 1..Len(levels) /\ p[2] \in 1..Len(levels[p[1]])
      <4>1. T!Positions = P!Positions
        BY Zenon DEF T!Positions, P!Positions
      <4>2. \A q \in P!Positions : q[1] \in 1..Len(levels) /\ q[2] \in 1..Len(levels[q[1]])
        BY <1>3, P!PositionsType, SameConstants
      <4>3. QED
        BY Zenon, <2>4, <4>1, <4>2
    <3>4. /\ RunsAged(UpTo(p, levels), clock) /\ Len(UpTo(p, levels)) >= 1
          /\ \A es : Older(levels, es) => Older(UpTo(p, levels), es)
      BY <1>3, <3>3, UpToAged
    <3>5. RunsAged(meta'.levels, clock) /\ Older(meta'.levels, store) /\ Len(meta'.levels) >= 1
      BY Zenon, <1>3, <3>2, <3>4
    <3>6. QED
      BY <1>1, <3>1, <3>5, SaveAge
  <2>5. QED
    BY <1>6, <2>1, <2>2, <2>3, <2>4 DEF EndInSave
<1>7. QED
  BY <1>4, <1>5, <1>6

LEMMA StartAge ==
  ASSUME AgeInv, StartFresh \/ StartSaved
  PROVE  AgeInv'
<1>1. clock' = clock /\ flushes' = flushes /\ last' = last /\ memory' = memory /\ meta' = meta
  BY DEF StartFresh, StartSaved, Started, saves
<1>2. /\ clock \in Nat /\ flushes \in Nat /\ last \in [Keys -> P!Cell \cup {P!None}]
      /\ EntriesAged(memory.entries, clock) /\ RunsAged(meta.levels, clock)
      /\ Older(meta.levels, memory.entries)
      /\ (meta.exists /\ meta # EmptyMeta => Len(meta.levels) >= 1)
  BY Zenon DEF AgeInv
<1>3. EmptyMeta' = EmptyMeta
  BY DEF EmptyMeta
<1>4. CASE StartFresh
  <2>1. store' = <<>> /\ levels' = << <<>> >>
    BY <1>4 DEF StartFresh
  <2>2. EntriesAged(<<>>, clock) /\ (\A ls : Older(ls, <<>>)) /\ RunsAged(<< <<>> >>, clock)
    BY <1>2, NothingAged
  <2>3. Len(levels') >= 1
    BY <2>1
  <2>4. QED
    BY Zenon, <1>1, <1>2, <1>3, <2>1, <2>2, <2>3 DEF AgeInv
<1>5. CASE StartSaved
  <2>1. store' = memory.entries /\ levels' = meta.levels /\ meta.exists /\ meta # EmptyMeta
    BY <1>5 DEF StartSaved, ReconstructFileStructure
  <2>2. QED
    BY Zenon, <1>1, <1>2, <1>3, <2>1 DEF AgeInv
<1>6. QED
  BY <1>4, <1>5

LEMMA NextAge == AgeInv /\ [Next]_vars => AgeInv'
<1> SUFFICES ASSUME AgeInv, [Next]_vars PROVE AgeInv'
  OBVIOUS
<1>1. ASSUME NEW k \in Keys, NEW del \in BOOLEAN, Write(k, del) PROVE AgeInv'
  BY <1>1, WriteAge
<1>2. CASE Quit \/ End \/ EndInCompaction \/ EndInSave
  BY <1>2, EndAge
<1>3. CASE StartFresh \/ StartSaved
  BY <1>3, StartAge
<1>4. CASE UNCHANGED vars
  <2>1. UNCHANGED treeVars /\ memory' = memory /\ meta' = meta
    BY <1>4 DEF vars, treeVars, saves
  <2>2. QED
    BY <2>1, SaveAge
<1>5. QED
  BY <1>1, <1>2, <1>3, <1>4 DEF Next

\* In every state, however the program ended and whatever its files then held,
\* searches and compactions visit the copies of a key from the newest on: the
\* buffer that load_memory fills is never older than the levels that
\* reconstruct_file_structure (1005-1137) builds beside it.
THEOREM OrderCorrect == Spec => []RecencyOrder
<1>1. AgeInv => RecencyOrder
  BY AgeIsRecency, SameTree DEF RecencyOrder, P!RecencyInv
<1>2. QED
  BY <1>1, InitAge, NextAge, PTL DEF Spec
-----------------------------------------------------------------------------
(* The answers before a save and after the start that loads it *)

\* What the runs answer for a key that the buffer lacks.
RunAnswer(k) == IF T!LiveHolders(k) # {} THEN T!RunAt(T!First(T!LiveHolders(k)))[k] ELSE T!None

\* The last entry of a key in a buffer.
LastIn(es, k) == CHOOSE i \in DOMAIN es : /\ es[i].key = k
                                          /\ \A j \in DOMAIN es : es[j].key = k => j <= i

LEMMA GetIs ==
  ASSUME NEW k
  PROVE  /\ k \in T!BufferKeys => T!Get(k) = T!CellOf(store[LastIn(store, k)])
         /\ k \notin T!BufferKeys => T!Get(k) = RunAnswer(k)
         /\ T!LastWrite(k) = LastIn(store, k)
<1>1. T!LastWrite(k) = LastIn(store, k)
  BY Zenon DEF T!LastWrite, LastIn
<1>2. QED
  BY Zenon, <1>1 DEF T!Get, RunAnswer

LEMMA GetIsNext ==
  ASSUME NEW k
  PROVE  /\ k \in {store'[i].key : i \in DOMAIN store'} => T!Get(k)' = T!CellOf(store'[LastIn(store', k)])
         /\ k \notin {store'[i].key : i \in DOMAIN store'} => T!Get(k)' = RunAnswer(k)'
<1>1. T!LastWrite(k)' = LastIn(store', k)
  BY Zenon DEF T!LastWrite, LastIn
<1>2. T!BufferKeys' = {store'[i].key : i \in DOMAIN store'}
  BY Zenon DEF T!BufferKeys
<1>3. QED
  BY Zenon, <1>1, <1>2 DEF T!Get, RunAnswer

LEMMA LastInIsLast ==
  ASSUME NEW es, es \in Seq(P!Entry), NEW k, NEW e \in 1..Len(es), es[e].key = k
  PROVE  /\ LastIn(es, k) \in 1..Len(es) /\ es[LastIn(es, k)].key = k
         /\ \A j \in 1..Len(es) : es[j].key = k => j <= LastIn(es, k)
<1> DEFINE W == {i \in 1..Len(es) : es[i].key = k}
<1>1. DOMAIN es = 1..Len(es) /\ Len(es) \in Nat
  OBVIOUS
<1>2. W \subseteq Nat /\ W # {} /\ \A n \in W : n <= Len(es)
  BY <1>1
<1>3. PICK m \in W : \A n \in W : n <= m
  BY <1>1, <1>2, P!GreatestNat, SameConstants
<1>4. \E i \in DOMAIN es : /\ es[i].key = k
                           /\ \A j \in DOMAIN es : es[j].key = k => j <= i
  BY <1>1, <1>3
<1>5. QED
  BY <1>1, <1>4 DEF LastIn

\* What the runs answer is nothing, or a copy that a run has.
LEMMA RunAnswerIsCopy ==
  ASSUME levels \in Seq(Seq(P!Run)), NEW k
  PROVE  \/ RunAnswer(k) = P!None
         \/ \E i \in 1..Len(levels) : \E j \in 1..Len(levels[i]) : RunAnswer(k) = levels[i][j][k]
<1>1. /\ T!LiveHolders(k) = P!LiveHolders(k) /\ T!None = P!None
      /\ (\A S : T!First(S) = P!First(S)) /\ (\A p : T!RunAt(p) = P!RunAt(p))
  BY Zenon DEF T!LiveHolders, P!LiveHolders, T!Holders, P!Holders, T!Positions, P!Positions,
               T!RunAt, P!RunAt, T!None, P!None, T!First, P!First, T!Before, P!Before
<1>2. P!LiveHolders(k) \subseteq P!Positions
  BY DEF P!LiveHolders, P!Holders
<1>3. CASE P!LiveHolders(k) = {}
  BY Zenon, <1>1, <1>3 DEF RunAnswer
<1>4. CASE P!LiveHolders(k) # {}
  <2>1. \A S : S \subseteq P!Positions /\ S # {} => P!First(S) \in S
    BY P!FirstIsFirst, SameConstants
  <2>2. P!First(P!LiveHolders(k)) \in P!Positions
    BY Zenon, <1>2, <1>4, <2>1
  <2>3. RunAnswer(k) = P!RunAt(P!First(P!LiveHolders(k)))[k]
    BY Zenon, <1>1, <1>4 DEF RunAnswer
  <2>4. PICK p \in P!Positions : p = P!First(P!LiveHolders(k))
    BY <2>2
  <2>5. p[1] \in 1..Len(levels) /\ p[2] \in 1..Len(levels[p[1]])
    BY P!PositionsType, SameConstants
  <2>6. RunAnswer(k) = levels[p[1]][p[2]][k]
    BY Zenon, <2>3, <2>4 DEF P!RunAt
  <2>7. QED
    BY <2>5, <2>6
<1>5. QED
  BY <1>3, <1>4

\* A get after the start answers what flush_buffer kept of the key, else a run.
LEMMA StartGet ==
  ASSUME AgeInv, store' = SavedEntries, levels' = levels, NEW k \in Keys
  PROVE  /\ FlushBuffer[k] # P!None => T!Get(k)' = FlushBuffer[k]
         /\ FlushBuffer[k] = P!None => T!Get(k)' = RunAnswer(k)
<1>1. store \in Seq(P!Entry)
  BY DEF AgeInv, EntriesAged
<1>2. RunAnswer(k)' = RunAnswer(k)
  <2>1. T!Positions' = T!Positions /\ \A p : T!RunAt(p)' = T!RunAt(p)
    BY Zenon DEF T!Positions, T!RunAt
  <2>2. T!LiveHolders(k)' = T!LiveHolders(k)
    BY Zenon, <2>1 DEF T!LiveHolders, T!Holders, T!None
  <2>3. T!RunAt(T!First(T!LiveHolders(k)))' = T!RunAt(T!First(T!LiveHolders(k)))
    BY Zenon, <2>2 DEF T!RunAt, T!First, T!Before
  <2>4. QED
    BY Zenon, <2>2, <2>3 DEF RunAnswer, T!None
<1>3. FlushBuffer \in P!Run
  BY <1>1, FlushFacts
<1> DEFINE s == SavedEntries
<1>4. /\ s \in Seq(P!Entry)
      /\ \A i \in 1..Len(s) : /\ s[i].key \in P!KeysOf(FlushBuffer)
                              /\ P!CellOf(s[i]) = FlushBuffer[s[i].key]
      /\ \A m \in P!KeysOf(FlushBuffer) : \E i \in 1..Len(s) : s[i].key = m
  BY <1>3, SortedFacts DEF SavedEntries
<1>5. \A m : m \in P!KeysOf(FlushBuffer) <=> m \in Keys /\ FlushBuffer[m] # P!None
  BY DEF P!KeysOf
<1>6. DOMAIN s = 1..Len(s)
  BY <1>4
<1>7. s = store'
  BY Zenon
<1>8. /\ k \in {s[i].key : i \in DOMAIN s} => T!Get(k)' = T!CellOf(s[LastIn(s, k)])
      /\ k \notin {s[i].key : i \in DOMAIN s} => T!Get(k)' = RunAnswer(k)
  BY Zenon, <1>2, <1>7, GetIsNext
<1> HIDE DEF s
<1>9. ASSUME FlushBuffer[k] # P!None PROVE T!Get(k)' = FlushBuffer[k]
  <2>1. PICK e \in 1..Len(s) : s[e].key = k
    BY <1>4, <1>5, <1>9
  <2>2. LastIn(s, k) \in 1..Len(s) /\ s[LastIn(s, k)].key = k
    BY <1>4, <2>1, LastInIsLast
  <2>3. P!CellOf(s[LastIn(s, k)]) = FlushBuffer[k]
    BY <1>4, <2>2
  <2>4. k \in {s[i].key : i \in DOMAIN s}
    BY <1>6, <2>1
  <2>5. QED
    BY Zenon, <1>8, <2>3, <2>4, SameCells
<1>10. ASSUME FlushBuffer[k] = P!None PROVE T!Get(k)' = RunAnswer(k)
  <2>1. k \notin {s[i].key : i \in DOMAIN s}
    BY <1>4, <1>5, <1>6, <1>10
  <2>2. QED
    BY Zenon, <1>8, <2>1
<1>11. QED
  BY <1>9, <1>10

LEMMA CellVersions ==
  ASSUME NEW x \in P!Entry, NEW y \in P!Entry
  PROVE  /\ P!CellOf(x) = P!CellOf(y) => x.ver = y.ver
         /\ P!CellOf(x).ver = x.ver /\ P!CellOf(x) # P!None /\ P!None.ver < x.ver
<1>1. x.ver \in Nat
  BY DEF P!Entry
<1>2. P!CellOf(x).ver = x.ver /\ P!CellOf(y).ver = y.ver
  BY DEF P!CellOf
<1>3. P!None.ver = -1
  BY DEF P!None
<1>4. QED
  BY <1>1, <1>2, <1>3

\* So it answers what it did before the save, unless flush_buffer dropped the key,
\* and then never what the buffer held before the tombstone.
LEMMA StartKeepsAnswers ==
  ASSUME AgeInv, store' = SavedEntries, levels' = levels, NEW k \in Keys
  PROVE  IF ~Dropped(k) THEN T!Get(k)' = T!Get(k)
         ELSE \A i \in DOMAIN store :
                store[i].key = k /\ i < T!LastWrite(k) => T!Get(k)' # T!CellOf(store[i])
<1>1. /\ store \in Seq(P!Entry) /\ Len(store) \in Nat /\ DOMAIN store = 1..Len(store)
      /\ \A e, f \in 1..Len(store) : e < f /\ store[e].key = store[f].key => store[e].ver < store[f].ver
      /\ \A e \in 1..Len(store) : store[e] \in P!Entry
  BY DEF AgeInv, EntriesAged
<1>2. levels \in Seq(Seq(P!Run)) /\ Older(levels, store)
  BY DEF AgeInv, RunsAged
<1>3. /\ FlushBuffer[k] # P!None => T!Get(k)' = FlushBuffer[k]
      /\ FlushBuffer[k] = P!None => T!Get(k)' = RunAnswer(k)
  BY StartGet
<1>4. /\ FlushBuffer[k] # P!None =>
           \E j \in 1..Len(store) : LastOf(j, k, Len(store)) /\ FlushBuffer[k] = P!CellOf(store[j])
      /\ \A j \in 1..Len(store) :
           /\ LastOf(j, k, Len(store))
           /\ ~store[j].del \/ \A m \in 1..Len(store) : store[m].key = k => m = j
           => FlushBuffer[k] = P!CellOf(store[j])
  BY <1>1, FlushFacts
<1>5. /\ k \in T!BufferKeys => T!Get(k) = P!CellOf(store[T!LastWrite(k)])
      /\ k \notin T!BufferKeys => T!Get(k) = RunAnswer(k)
  BY Zenon, GetIs, SameCells
<1>6. k \in T!BufferKeys <=> \E e \in 1..Len(store) : store[e].key = k
  BY <1>1 DEF T!BufferKeys
<1> DEFINE l == T!LastWrite(k)
           last0 == T!Get(k)'
<1>7. ASSUME NEW e \in 1..Len(store), store[e].key = k
      PROVE  l \in 1..Len(store) /\ LastOf(l, k, Len(store)) /\ \A j : LastOf(j, k, Len(store)) => j = l
  <2>1. l = LastIn(store, k)
    BY Zenon, GetIs
  <2>2. /\ LastIn(store, k) \in 1..Len(store) /\ store[LastIn(store, k)].key = k
        /\ \A j \in 1..Len(store) : store[j].key = k => j <= LastIn(store, k)
    BY <1>1, <1>7, LastInIsLast
  <2> HIDE DEF l
  <2>3. /\ l \in 1..Len(store) /\ store[l].key = k
        /\ \A j \in 1..Len(store) : store[j].key = k => j <= l
    BY Zenon, <2>1, <2>2
  <2>4. \A j \in 1..Len(store) : j <= l /\ l <= j => j = l
    BY <2>3
  <2>5. QED
    BY <2>3, <2>4 DEF LastOf
<1>8. Dropped(k) <=> \E i, j \in 1..Len(store) : /\ i < j /\ store[i].key = k /\ store[j].key = k
                                                /\ store[j].del /\ j = l
  BY <1>1 DEF Dropped
<1> HIDE DEF l, last0, LastOf
<1>9. ASSUME ~Dropped(k) PROVE last0 = T!Get(k)
  <2>1. CASE k \notin T!BufferKeys
    <3>1. FlushBuffer[k] = P!None
      <4>1. \A j : LastOf(j, k, Len(store)) => j \in 1..Len(store) /\ store[j].key = k
        BY DEF LastOf
      <4>2. QED
        BY <1>4, <1>6, <2>1, <4>1
    <3>2. QED
      BY Zenon, <1>3, <1>5, <2>1, <3>1 DEF last0
  <2>2. CASE k \in T!BufferKeys
    <3>1. l \in 1..Len(store) /\ LastOf(l, k, Len(store))
      BY <1>6, <1>7, <2>2
    <3>2. store[l].key = k /\ \A m \in 1..Len(store) : store[m].key = k => m <= l
      BY <3>1 DEF LastOf
    <3>3. ~store[l].del \/ \A m \in 1..Len(store) : store[m].key = k => m = l
      BY <1>8, <1>9, <3>1, <3>2
    <3>4. FlushBuffer[k] = P!CellOf(store[l])
      BY <1>4, <3>1, <3>3
    <3>5. P!CellOf(store[l]) # P!None
      BY <1>1, <3>1, CellVersions
    <3>6. QED
      BY Zenon, <1>3, <1>5, <2>2, <3>4, <3>5 DEF last0, l
  <2>3. QED
    BY <2>1, <2>2
<1>10. ASSUME NEW i \in 1..Len(store), store[i].key = k, i < l
       PROVE  last0 # P!CellOf(store[i])
  <2>1. l \in 1..Len(store) /\ LastOf(l, k, Len(store)) /\ \A j : LastOf(j, k, Len(store)) => j = l
    BY <1>7, <1>10
  <2>2. store[l].key = k
    BY <2>1 DEF LastOf
  <2>3. store[i].ver < store[l].ver /\ store[i] \in P!Entry /\ store[l] \in P!Entry
    BY <1>1, <1>10, <2>1, <2>2
  <2>4. store[i].ver \in Nat /\ store[l].ver \in Nat
    BY <2>3 DEF P!Entry
  <2>5. CASE FlushBuffer[k] # P!None
    <3>1. FlushBuffer[k] = P!CellOf(store[l])
      BY <1>4, <2>1, <2>5
    <3>2. P!CellOf(store[l]) # P!CellOf(store[i])
      BY <2>3, <2>4, CellVersions
    <3>3. QED
      BY Zenon, <1>3, <2>5, <3>1, <3>2 DEF last0
  <2>6. CASE FlushBuffer[k] = P!None
    <3>1. last0 = RunAnswer(k)
      BY Zenon, <1>3, <2>6 DEF last0
    <3>2. \/ RunAnswer(k) = P!None
          \/ \E m \in 1..Len(levels) : \E o \in 1..Len(levels[m]) : RunAnswer(k) = levels[m][o][k]
      BY <1>2, RunAnswerIsCopy
    <3>3. ASSUME NEW m \in 1..Len(levels), NEW o \in 1..Len(levels[m])
          PROVE  levels[m][o][k] # P!CellOf(store[i])
      <4>1. levels[m][o][k].ver < store[i].ver
        BY <1>2, <1>10 DEF Older
      <4>2. levels[m][o][k].ver \in Int
        BY <1>2, RunFacts
      <4>3. P!CellOf(store[i]).ver = store[i].ver
        BY <2>3, CellVersions
      <4>4. levels[m][o][k].ver # store[i].ver
        BY <2>4, <4>1, <4>2
      <4>5. QED
        BY Zenon, <4>3, <4>4
    <3>4. P!None # P!CellOf(store[i])
      BY <2>3, CellVersions
    <3>5. QED
      BY Zenon, <3>1, <3>2, <3>3, <3>4
  <2>7. QED
    BY <2>5, <2>6
<1>11. QED
  BY Zenon, <1>1, <1>9, <1>10, SameCells DEF last0, l

\* Between a q and the next start the files hold what the program held last.
SavedInv == ~running /\ orderly => memory = SavedMemory /\ meta = SavedMeta

LEMMA NextSaved == SavedInv /\ [Next]_vars => SavedInv'
<1> SUFFICES ASSUME SavedInv, [Next]_vars, ~running', orderly' PROVE memory' = SavedMemory' /\ meta' = SavedMeta'
  BY DEF SavedInv
<1>1. ASSUME UNCHANGED <<treeVars, names>> PROVE SavedMemory' = SavedMemory /\ SavedMeta' = SavedMeta
  <2>1. store' = store /\ levels' = levels /\ names' = names
    BY <1>1 DEF treeVars
  <2>2. FlushBuffer' = FlushBuffer
    BY Zenon, <2>1 DEF FlushBuffer, T!None, T!CellOf
  <2>3. Sorted(FlushBuffer)' = Sorted(FlushBuffer)
    BY Zenon, <2>2 DEF Sorted, T!KeysOf, T!None
  <2>4. QED
    BY Zenon, <2>1, <2>3 DEF SavedMemory, SavedMeta
<1>2. CASE Quit
  <2>1. memory' = SavedMemory /\ meta' = SavedMeta /\ UNCHANGED <<treeVars, names>>
    BY <1>2 DEF Quit
  <2>2. QED
    BY Zenon, <1>1, <2>1
<1>3. CASE UNCHANGED vars
  <2>1. UNCHANGED <<treeVars, names>> /\ memory' = memory /\ meta' = meta /\ ~running /\ orderly
    BY <1>3 DEF vars, saves, ends
  <2>2. QED
    BY Zenon, <1>1, <2>1 DEF SavedInv
<1>4. CASE Next
  <2>1. ~orderly' \/ Quit \/ running' = TRUE
    BY <1>4 DEF Next, Write, End, EndInCompaction, EndInSave, EndedBadly, StartFresh, StartSaved, Started
  <2>2. QED
    BY <1>2, <2>1
<1>5. QED
  BY <1>3, <1>4

\* A q saves what a start needs (exit_save 631-634, flush_buffer 129-152, load_memory):
\* across the two, get answers as it did for every key whose last entry in the
\* buffer is not a tombstone dropped together with the entry before it, and for
\* those it never brings back what the tombstone deleted in the buffer.
THEOREM RestartCorrect == Spec => RestartKeepsAnswers
<1> DEFINE A == ~running /\ orderly /\ running' =>
                  \A k \in Keys :
                    IF ~Dropped(k) THEN T!Get(k)' = T!Get(k)
                    ELSE \A i \in DOMAIN store :
                           store[i].key = k /\ i < T!LastWrite(k) => T!Get(k)' # T!CellOf(store[i])
<1>1. Init => SavedInv
  BY DEF Init, SavedInv
<1>2. AgeInv /\ SavedInv /\ [Next]_vars => [A]_vars
  <2> SUFFICES ASSUME AgeInv, SavedInv, Next, ~running, orderly, running' PROVE A
    OBVIOUS
  <2>1. memory = SavedMemory /\ meta = SavedMeta
    BY Zenon DEF SavedInv
  <2>2. /\ memory.exists /\ meta.exists /\ memory.entries = SavedEntries /\ meta.levels = levels
    BY <2>1 DEF SavedMemory, SavedMeta, SavedEntries
  <2>3. StartSaved
    BY <2>2 DEF Next, Write, Quit, End, EndInCompaction, EndInSave, EndedBadly, StartFresh
  <2>4. store' = SavedEntries /\ levels' = levels
    BY Zenon, <2>2, <2>3 DEF StartSaved, ReconstructFileStructure
  <2>5. \A k \in Keys :
          IF ~Dropped(k) THEN T!Get(k)' = T!Get(k)
          ELSE \A i \in DOMAIN store :
                 store[i].key = k /\ i < T!LastWrite(k) => T!Get(k)' # T!CellOf(store[i])
    BY <2>4, StartKeepsAnswers
  <2>6. QED
    BY Zenon, <2>5
<1>3. QED
  BY <1>1, <1>2, InitAge, NextAge, NextSaved, PTL DEF Spec, RestartKeepsAnswers
=============================================================================
