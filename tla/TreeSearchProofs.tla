--------------------------- MODULE TreeSearchProofs -----------------------------
(***************************************************************************)
(* Proofs about TreeSearch: that what the threads do to the tree is what   *)
(* one thread does in TieredTree, that a get or a range that returns has   *)
(* the answer of one thread, and that no task is left queued when a        *)
(* compaction changes the levels; for any number of threads, any buffer    *)
(* and any number of entries a task searches.                              *)
(***************************************************************************)
EXTENDS TreeSearch, FiniteSetTheorems, TLAPS
-----------------------------------------------------------------------------
\* What is proved about TieredTree, for the tree that is searched here.
P == INSTANCE TieredTreeProofs

\* The thread that calls the tree waits for tasks, or soon will.
Searching == caller.op \in {"get", "range", "write"}

\* The tasks of the stage whose futures were collected, and the task that the
\* i-th future is of.
Collected == caller.next - Len(futures)
Task(i) == [op |-> caller.op, slot |-> i, arg |-> caller.arg, at |-> Tasks[Collected + i]]

Within(arg) == {k \in Keys : arg[1] <= k /\ k <= arg[2]}

Findings == [Keys -> T!Cell \cup {None}]
Futures == [ready : BOOLEAN, found : Findings]
Callers == [op : {"idle", "get", "range", "write", "destroy", "gone"}, arg : Int \X Int,
            stage : Nat, next : Nat,
            step : {"none", "enqueue", "notify", "collect", "notify_all", "join"}]
TaskSet == {Stale} \cup [op : {"get", "range", "write"}, slot : Nat, arg : Int \X Int, at : Int \X Int]

TypeInv ==
  /\ caller \in Callers
  /\ caller.op \in {"get", "write"} => caller.arg[1] \in Keys
  /\ caller.op = "get" => caller.arg = <<caller.arg[1], caller.arg[1]>>
  /\ futures \in Seq(Futures)
  /\ merged \in Findings
  /\ queue \in Seq(TaskSet)
  /\ worker \in [Workers -> [is : {"awake", "waiting", "running", "gone"}, task : TaskSet]]

\* A thread that searches is in a stage there is, with a task to queue when it
\* is about to queue one; only a get collects before all tasks are queued.
CallerInv ==
  IF Searching
  THEN /\ caller.stage <= LastStage
       /\ Len(futures) <= caller.next /\ caller.next <= Len(Tasks)
       /\ caller.step \in {"enqueue", "notify", "collect"}
       /\ caller.step = "enqueue" => caller.next < Len(Tasks)
       /\ caller.op # "get" => /\ Len(futures) = caller.next
                               /\ caller.step = "collect" => caller.next = Len(Tasks)
       /\ answer = NoAnswer
  ELSE /\ futures = <<>> /\ merged = Nothing
       /\ caller.step \in {"none", "notify_all", "join"}
       /\ answer = NoAnswer \/ caller = Idle

\* A future that is ready has what its task can find.
FuturesInv ==
  \A i \in DOMAIN futures :
    \/ futures[i] = Pending
    \/ \E found \in Finds(Task(i)) : futures[i] = [ready |-> TRUE, found |-> found]

\* Every task that is queued or running and not abandoned is that of a future
\* that waits for it, and is there once.
Awaited(task) == \E i \in DOMAIN futures : task = Task(i) /\ futures[i] = Pending
PoolInv ==
  /\ \A j \in DOMAIN queue : queue[j] # Stale => Awaited(queue[j])
  /\ \A w \in Workers : worker[w].task # Stale => worker[w].is = "running" /\ Awaited(worker[w].task)
  /\ \A j, m \in DOMAIN queue : queue[j] = queue[m] /\ queue[j] # Stale => j = m
  /\ \A v, w \in Workers : worker[v].task = worker[w].task /\ worker[v].task # Stale => v = w
  /\ \A j \in DOMAIN queue, w \in Workers : queue[j] = worker[w].task => queue[j] = Stale

\* The abandoned tasks are queued before all others, and are gone once another
\* one is taken.
Fresh == \A j \in DOMAIN queue : queue[j] # Stale
DrainInv ==
  /\ \A j, m \in DOMAIN queue : j < m /\ queue[m] = Stale => queue[j] = Stale
  /\ \/ \E w \in Workers : worker[w].task # Stale
     \/ \E i \in DOMAIN futures : futures[i].ready
     \/ caller.op = "write" /\ caller.stage > 0
     => Fresh

\* A get has missed the key wherever it has looked.
Misses(at, k) == IF at[1] = 0 THEN InChunk(at[2], k) = None ELSE T!RunAt(at)[k].del
SearchedInv ==
  caller.op = "get" =>
    /\ \A n \in 1..Collected : Misses(Tasks[n], caller.arg[1])
    /\ caller.stage > 0 => /\ caller.arg[1] \notin T!BufferKeys
                           /\ \A p \in T!Positions :
                                p[1] < caller.stage => T!RunAt(p)[caller.arg[1]].del

\* A range has merged what the buffer has.
OfBuffer(arg) == [k \in Keys |-> IF k \in Within(arg) /\ k \in T!BufferKeys
                                 THEN T!CellOf(store[T!LastWrite(k)]) ELSE None]
MergedInv ==
  /\ Searching /\ (caller.op # "range" \/ caller.stage = 0) => merged = Nothing
  /\ caller.op = "range" /\ caller.stage > 0 => merged = OfBuffer(caller.arg)

SearchInv == /\ TypeInv /\ CallerInv /\ FuturesInv /\ PoolInv /\ DrainInv
             /\ SearchedInv /\ MergedInv /\ SearchesAreSequential
-----------------------------------------------------------------------------
(* The tree is TieredTree's *)

LEMMA SameConstants == /\ Keys \subseteq Int /\ 0 \in Keys /\ P!IsFiniteSet(Keys)
                       /\ BufferSize \in Nat \ {0} /\ LevelRatio \in Nat \ {0, 1}
                       /\ PageSize \in Nat \ {0} /\ MaxWrites \in Nat
BY TreeAssumption DEF P!IsFiniteSet, IsFiniteSet

LEMMA SameSizes == \A S : P!Cardinality(S) = Cardinality(S) /\ (P!IsFiniteSet(S) <=> IsFiniteSet(S))
BY Zenon DEF P!Cardinality, Cardinality, P!IsFiniteSet, IsFiniteSet

LEMMA SameNames ==
  /\ T!None = P!None /\ T!Cell = P!Cell /\ T!Entry = P!Entry /\ T!Run = P!Run
  /\ T!Positions = P!Positions /\ T!BufferKeys = P!BufferKeys
  /\ \A p : T!RunAt(p) = P!RunAt(p)
  /\ \A p, q : T!Before(p, q) <=> P!Before(p, q)
  /\ \A S : T!First(S) = P!First(S)
  /\ \A k : T!LastWrite(k) = P!LastWrite(k)
BY DEF T!None, P!None, T!Cell, P!Cell, T!Entry, P!Entry, T!Run, P!Run, T!Positions, P!Positions,
       T!BufferKeys, P!BufferKeys, T!RunAt, P!RunAt, T!Before, P!Before, T!First, P!First,
       T!LastWrite, P!LastWrite

LEMMA SameMerge == \A bit : T!LevelsAfter(T!MergeMap(bit)) = P!LevelsAfter(P!MergeMap(bit))
<1> SUFFICES ASSUME NEW bit PROVE T!LevelsAfter(T!MergeMap(bit)) = P!LevelsAfter(P!MergeMap(bit))
  OBVIOUS
<1>1. T!MergeMap(bit) = P!MergeMap(bit)
  BY Zenon
  DEF T!MergeMap, P!MergeMap, T!LastWrite, P!LastWrite, T!BufferKeys, P!BufferKeys, T!CellOf, P!CellOf,
      T!None, P!None, T!First, P!First, T!Before, P!Before, T!Merged, P!Merged, T!Target, P!Target,
      T!Full, P!Full, T!Positions, P!Positions, T!RunAt, P!RunAt, T!LoadFullFile, P!LoadFullFile,
      T!InFullPage, P!InFullPage, T!KeysOf, P!KeysOf, T!Cardinality, P!Cardinality
<1>2. \A run : T!LevelsAfter(run) = P!LevelsAfter(run)
  BY Zenon DEF T!LevelsAfter, P!LevelsAfter, T!Target, P!Target, T!Full, P!Full
<1>3. QED
  BY <1>1, <1>2

LEMMA SameSteps ==
  /\ T!TypeOK <=> P!TypeOK
  /\ T!Init <=> P!Init
  /\ T!Next <=> P!Next
<1>1. T!TypeOK <=> P!TypeOK
  BY DEF T!TypeOK, P!TypeOK, T!Entry, P!Entry, T!Run, P!Run, T!Cell, P!Cell, T!None, P!None
<1>2. T!Init <=> P!Init
  BY SameNames DEF T!Init, P!Init
<1>3. \A k, del : T!Stamp(k, del) <=> P!Stamp(k, del)
  BY DEF T!Stamp, P!Stamp
<1>4. \A k, del : T!WriteInBuffer(k, del) <=> P!WriteInBuffer(k, del)
  BY <1>3 DEF T!WriteInBuffer, P!WriteInBuffer, T!NewEntry, P!NewEntry
<1>5. \A k, del : T!WriteAfterFlush(k, del) <=> P!WriteAfterFlush(k, del)
  BY <1>3, SameMerge DEF T!WriteAfterFlush, P!WriteAfterFlush, T!NewEntry, P!NewEntry
<1>6. T!Next <=> P!Next
  BY <1>4, <1>5 DEF T!Next, P!Next, T!Put, P!Put, T!Del, P!Del
<1>7. QED
  BY <1>1, <1>2, <1>6

LEMMA TreeType ==
  /\ Init => T!TypeOK
  /\ T!TypeOK /\ [T!Next]_treeVars => T!TypeOK'
<1>1. Init => T!TypeOK
  BY SameSteps, P!InitType, SameConstants DEF Init
<1>2. ASSUME T!TypeOK, [T!Next]_treeVars
      PROVE  T!TypeOK'
  <2>1. P!TypeOK /\ [P!Next]_P!vars
    BY <1>2, SameSteps DEF treeVars, P!vars
  <2>2. P!TypeOK'
    BY <2>1, P!NextType, SameConstants
  <2>3. QED
    BY <2>2 DEF T!TypeOK, P!TypeOK, T!Entry, P!Entry, T!Run, P!Run, T!Cell, P!Cell, T!None, P!None
<1>3. QED
  BY <1>1, <1>2

\* What the tree holds, by places.
LEMMA TreeFacts ==
  ASSUME T!TypeOK
  PROVE  /\ store \in Seq(T!Entry) /\ levels \in Seq(Seq(T!Run))
         /\ Len(levels) \in Nat /\ Len(store) \in Nat /\ DOMAIN levels = 1..Len(levels)
         /\ \A p \in T!Positions : /\ p = <<p[1], p[2]>>
                                   /\ p[1] \in 1..Len(levels)
                                   /\ p[2] \in 1..Len(levels[p[1]])
                                   /\ levels[p[1]] \in Seq(T!Run)
                                   /\ T!RunAt(p) \in T!Run
         /\ \A i \in 1..Len(levels) : \A j \in 1..Len(levels[i]) : <<i, j>> \in T!Positions
<1>1. store \in Seq(T!Entry) /\ levels \in Seq(Seq(T!Run))
  BY DEF T!TypeOK
<1>2. levels \in Seq(Seq(P!Run))
  BY <1>1, SameNames
<1>3. /\ \A p \in P!Positions : /\ p = <<p[1], p[2]>>
                                /\ p[1] \in 1..Len(levels)
                                /\ p[2] \in 1..Len(levels[p[1]])
                                /\ levels[p[1]] \in Seq(P!Run)
                                /\ P!RunAt(p) \in P!Run
      /\ \A i \in 1..Len(levels) : \A j \in 1..Len(levels[i]) : <<i, j>> \in P!Positions
  BY <1>2, P!PositionsType, SameConstants
<1>4. QED
  BY <1>1, <1>3, SameNames
-----------------------------------------------------------------------------
(* The runs of some levels in search order *)

\* The tree has finitely many runs.
LEMMA PositionsFinite ==
  ASSUME T!TypeOK
  PROVE  IsFiniteSet(T!Positions)
<1> DEFINE ofLevel == [i \in 1..Len(levels) |-> {i} \X (1..Len(levels[i]))]
           parts == {ofLevel[i] : i \in 1..Len(levels)}
<1>1. levels \in Seq(Seq(T!Run)) /\ Len(levels) \in Nat /\ DOMAIN levels = 1..Len(levels)
  BY TreeFacts
<1>2. IsFiniteSet(1..Len(levels))
  <2>1. Len(levels) \in Int
    BY <1>1
  <2>2. QED
    BY <2>1, FS_Interval
<1>3. IsFiniteSet(parts)
  <2>1. ofLevel \in Surjection(1..Len(levels), parts)
    BY DEF Surjection
  <2> HIDE DEF ofLevel, parts
  <2>2. QED
    BY <1>2, <2>1, FS_Surjection
<1>4. ASSUME NEW i \in 1..Len(levels)
      PROVE  IsFiniteSet(ofLevel[i])
  <2>1. Len(levels[i]) \in Int
    BY <1>1, <1>4
  <2>2. IsFiniteSet(1..Len(levels[i]))
    BY <2>1, FS_Interval
  <2>3. IsFiniteSet({i})
    BY FS_Singleton
  <2>4. IsFiniteSet({i} \X (1..Len(levels[i])))
    BY <2>2, <2>3, FS_Product
  <2>5. QED
    BY <2>4
<1>5. IsFiniteSet(UNION parts)
  <2>1. \A part \in parts : IsFiniteSet(part)
    BY <1>4
  <2> HIDE DEF parts
  <2>2. QED
    BY <1>3, <2>1, FS_UNION
<1>6. T!Positions \subseteq UNION parts
  BY <1>1 DEF T!Positions
<1>7. QED
  BY <1>5, <1>6, FS_Subset

\* The runs of the levels in I: each once, in search order.
LEMMA RunsInSearchOrder ==
  ASSUME T!TypeOK, NEW I
  PROVE  /\ RunsOf(I) \in Seq(T!Positions) /\ Len(RunsOf(I)) \in Nat
         /\ DOMAIN RunsOf(I) = 1..Len(RunsOf(I))
         /\ \A n \in 1..Len(RunsOf(I)) : RunsOf(I)[n] \in T!Positions /\ RunsOf(I)[n][1] \in I
         /\ \A n, m \in 1..Len(RunsOf(I)) : n < m => T!Before(RunsOf(I)[n], RunsOf(I)[m])
         /\ \A p \in T!Positions : p[1] \in I => \E n \in 1..Len(RunsOf(I)) : RunsOf(I)[n] = p
<1> DEFINE S == {p \in T!Positions : p[1] \in I}
           R == {e \in S \X S : T!Before(e[1], e[2])}
           rank == [x \in S |-> Cardinality({y \in S : <<y, x>> \in R})]
           c == Cardinality(S)
<1>1. IsFiniteSet(S)
  <2>1. S \in SUBSET T!Positions
    OBVIOUS
  <2>2. QED
    BY <2>1, PositionsFinite, FS_Subset
<1>2. \A p \in S : p = <<p[1], p[2]>> /\ p[1] \in Nat /\ p[2] \in Nat
  <2>1. ASSUME NEW p \in S PROVE p = <<p[1], p[2]>> /\ p[1] \in Nat /\ p[2] \in Nat
    <3>1. p = <<p[1], p[2]>> /\ p[1] \in 1..Len(levels) /\ p[2] \in 1..Len(levels[p[1]])
      BY TreeFacts
    <3>2. QED
      BY <3>1
  <2>2. QED
    BY <2>1
<1>3. \A x, y \in S : <<x, y>> \in R <=> T!Before(x, y)
  OBVIOUS
<1>4. /\ \A x, y \in S : <<x, y>> \in R => <<y, x>> \notin R
      /\ \A x, y, z \in S : <<x, y>> \in R /\ <<y, z>> \in R => <<x, z>> \in R
      /\ \A x, y \in S : x # y => <<x, y>> \in R \/ <<y, x>> \in R
  <2> HIDE DEF R, S
  <2>1. \A x, y \in S : T!Before(x, y) => ~T!Before(y, x)
    BY <1>2 DEF T!Before
  <2>2. \A x, y, z \in S : T!Before(x, y) /\ T!Before(y, z) => T!Before(x, z)
    BY <1>2 DEF T!Before
  <2>3. \A x, y \in S : x # y => T!Before(x, y) \/ T!Before(y, x)
    <3>1. ASSUME NEW x \in S, NEW y \in S, x # y PROVE T!Before(x, y) \/ T!Before(y, x)
      <4>1. x[1] # y[1] \/ x[2] # y[2]
        BY <1>2, <3>1
      <4>2. x[1] \in Nat /\ y[1] \in Nat /\ x[2] \in Nat /\ y[2] \in Nat
        BY <1>2
      <4>3. QED
        BY <4>1, <4>2 DEF T!Before
    <3>2. QED
      BY <3>1
  <2>4. QED
    BY <1>3, <2>1, <2>2, <2>3
<1>5. /\ c \in Nat
      /\ \A x \in S : rank[x] \in 0..c - 1
      /\ \A x, y \in S : rank[x] < rank[y] <=> <<x, y>> \in R
      /\ \A n \in 0..c - 1 : \E x \in S : rank[x] = n
  <2> DEFINE r == rank
  <2>1. r = [x \in S |-> Cardinality({y \in S : <<y, x>> \in R})]
    OBVIOUS
  <2> HIDE DEF R, S, r
  <2>2. P!IsFiniteSet(S)
    BY <1>1, SameSizes
  <2>3. \A s : s = [x \in S |-> P!Cardinality({y \in S : <<y, x>> \in R})] =>
          /\ P!Cardinality(S) \in Nat
          /\ \A x \in S : s[x] \in 0..P!Cardinality(S) - 1
          /\ \A x, y \in S : s[x] < s[y] <=> <<x, y>> \in R
          /\ \A n \in 0..P!Cardinality(S) - 1 : \E x \in S : s[x] = n
    BY <1>4, <2>2, P!Ranks, SameConstants
  <2>4. r = [x \in S |-> P!Cardinality({y \in S : <<y, x>> \in R})]
    BY <2>1, SameSizes
  <2>5. P!Cardinality(S) = Cardinality(S)
    BY SameSizes
  <2>6. QED
    BY <2>3, <2>4, <2>5 DEF r
<1>6. \A x \in S : rank[x] = Cardinality({q \in S : q # x /\ T!Before(q, x)})
  <2>1. ASSUME NEW x \in S PROVE {y \in S : <<y, x>> \in R} = {q \in S : q # x /\ T!Before(q, x)}
    <3>1. ~T!Before(x, x)
      BY <1>2 DEF T!Before
    <3>2. QED
      BY <1>3, <3>1
  <2>2. QED
    BY <2>1
<1> DEFINE ahead(p) == {q \in S : q # p /\ T!Before(q, p)}
           runs == RunsOf(I)
<1>7. runs = [n \in 1..c |-> CHOOSE p \in S : Cardinality(ahead(p)) = n - 1]
  BY DEF RunsOf
<1>8. \A n \in 1..c : runs[n] \in S /\ rank[runs[n]] = n - 1
  <2>1. ASSUME NEW n \in 1..c PROVE runs[n] \in S /\ rank[runs[n]] = n - 1
    <3>1. runs[n] = CHOOSE p \in S : Cardinality(ahead(p)) = n - 1
      <4> HIDE DEF S, ahead, runs
      <4>1. QED
        BY <1>7
    <3>2. \A p \in S : rank[p] = Cardinality(ahead(p))
      BY <1>6
    <3> HIDE DEF S, rank, runs, ahead
    <3>3. n - 1 \in 0..c - 1
      BY <1>5
    <3>4. \E p \in S : Cardinality(ahead(p)) = n - 1
      BY <1>5, <3>2, <3>3
    <3>5. runs[n] \in S /\ Cardinality(ahead(runs[n])) = n - 1
      BY <3>1, <3>4
    <3>6. QED
      BY <3>2, <3>5
  <2>2. QED
    BY <2>1
<1>9. DOMAIN runs = 1..c /\ runs \in Seq(T!Positions) /\ Len(runs) = c
  <2>1. \A n \in 1..c : runs[n] \in T!Positions
    BY <1>8
  <2> HIDE DEF rank, runs, S, ahead
  <2>2. runs \in [1..c -> T!Positions]
    BY <1>7, <2>1
  <2>3. QED
    BY <1>5, <2>2
<1>10. \A n, m \in 1..c : n < m => T!Before(runs[n], runs[m])
  <2>1. ASSUME NEW n \in 1..c, NEW m \in 1..c, n < m PROVE T!Before(runs[n], runs[m])
    <3>1. runs[n] \in S /\ runs[m] \in S /\ rank[runs[n]] = n - 1 /\ rank[runs[m]] = m - 1
      BY <1>8
    <3> HIDE DEF runs, rank, R, S
    <3>2. rank[runs[n]] < rank[runs[m]]
      BY <1>5, <2>1, <3>1
    <3>3. QED
      BY <1>3, <1>5, <3>1, <3>2
  <2>2. QED
    BY <2>1
<1>11. ASSUME NEW p \in T!Positions, p[1] \in I
       PROVE  \E n \in 1..c : runs[n] = p
  <2>1. p \in S /\ rank[p] \in 0..c - 1
    BY <1>5, <1>11
  <2> HIDE DEF rank, runs, R, S
  <2>2. rank[p] + 1 \in 1..c
    BY <1>5, <2>1
  <2>3. runs[rank[p] + 1] \in S /\ rank[runs[rank[p] + 1]] = rank[p]
    <3>1. runs[rank[p] + 1] \in S /\ rank[runs[rank[p] + 1]] = (rank[p] + 1) - 1
      BY <1>8, <2>2
    <3>2. QED
      BY <2>1, <3>1
  <2>4. ~(rank[p] < rank[p])
    BY <2>1
  <2>5. runs[rank[p] + 1] = p
    <3> DEFINE x == runs[rank[p] + 1]
    <3>1. x \in S /\ rank[x] = rank[p]
      BY <2>3
    <3> HIDE DEF x
    <3>2. <<x, p>> \notin R /\ <<p, x>> \notin R
      BY <1>5, <2>1, <2>4, <3>1
    <3>3. x = p
      BY <1>4, <2>1, <3>1, <3>2
    <3>4. QED
      BY <3>3 DEF x
  <2>6. QED
    BY <2>2, <2>5
<1>12. QED
  <2>1. \A n \in 1..c : runs[n] \in T!Positions /\ runs[n][1] \in I
    BY <1>8
  <2> HIDE DEF rank, R, S
  <2>2. QED
    BY <1>5, <1>9, <1>10, <1>11, <2>1
-----------------------------------------------------------------------------
(* The chunks of the buffer *)

LEMMA Quotient ==
  ASSUME NEW a \in Nat, NEW b \in Nat, b # 0
  PROVE  a \div b \in Nat /\ b * (a \div b) <= a /\ a < b * (a \div b) + b
OBVIOUS

LEMMA Multiples ==
  ASSUME NEW a \in Nat, NEW b \in Nat, NEW c \in Nat, a <= b
  PROVE  a * c \in Nat /\ b * c \in Nat /\ a * c <= b * c
OBVIOUS

\* The last write of a buffered key.
LEMMA LastOne ==
  ASSUME T!TypeOK, NEW k \in T!BufferKeys
  PROVE  /\ T!LastWrite(k) \in DOMAIN store
         /\ store[T!LastWrite(k)].key = k
         /\ \A j \in DOMAIN store : store[j].key = k => j <= T!LastWrite(k)
<1>1. store \in Seq(P!Entry) /\ k \in P!BufferKeys
  BY TreeFacts, SameNames
<1>2. /\ P!LastWrite(k) \in DOMAIN store
      /\ store[P!LastWrite(k)].key = k
      /\ \A j \in DOMAIN store : store[j].key = k => j <= P!LastWrite(k)
  BY <1>1, P!LastWriteIsWrite, SameConstants
<1>3. QED
  BY <1>2, SameNames

\* An entry of the buffer has a key and a cell, which is not None.
LEMMA EntryFacts ==
  ASSUME T!TypeOK, NEW j \in DOMAIN store
  PROVE  /\ store[j].key \in Keys /\ store[j].key \in T!BufferKeys
         /\ T!CellOf(store[j]) \in T!Cell /\ T!CellOf(store[j]) # None
<1>1. store[j] \in T!Entry
  BY TreeFacts
<1>2. QED
  BY <1>1 DEF T!Entry, T!Cell, T!CellOf, T!BufferKeys, None, T!None

\* There is a chunk for every entry and none without one.
LEMMA ChunksShape ==
  ASSUME T!TypeOK
  PROVE  /\ Len(Chunks) \in Nat /\ DOMAIN Chunks = 1..Len(Chunks)
         /\ \A i \in 1..Len(Chunks) : Chunks[i] = <<0, i>>
         /\ Len(store) <= SearchSize * Len(Chunks)
         /\ SearchSize * Len(Chunks) < Len(store) + SearchSize
<1>1. Len(store) \in Nat /\ SearchSize \in Nat /\ SearchSize # 0
  BY TreeFacts, SearchAssumption
<1> DEFINE n == (Len(store) + SearchSize - 1) \div SearchSize
<1>2. /\ n \in Nat
      /\ SearchSize * n <= Len(store) + SearchSize - 1
      /\ Len(store) + SearchSize - 1 < SearchSize * n + SearchSize
  <2>1. Len(store) + SearchSize - 1 \in Nat
    BY <1>1
  <2>2. QED
    BY <1>1, <2>1, Quotient
<1>3. Chunks = [i \in 1..n |-> <<0, i>>]
  BY DEF Chunks
<1> HIDE DEF n
<1>4. Len(Chunks) = n /\ DOMAIN Chunks = 1..n
  BY <1>2, <1>3
<1>5. \A i \in 1..n : Chunks[i] = <<0, i>>
  BY <1>3
<1>6. SearchSize * n \in Nat
  BY <1>1, <1>2
<1>7. Len(store) <= SearchSize * n /\ SearchSize * n < Len(store) + SearchSize
  BY <1>1, <1>2, <1>6
<1>8. QED
  BY <1>2, <1>4, <1>5, <1>7

\* The entries of chunk i.
Chunk(i) == {j \in DOMAIN store : /\ Len(store) - (i - 1) * SearchSize - SearchSize < j
                                  /\ j <= Len(store) - (i - 1) * SearchSize}

\* What a search of a chunk finds: the last of its entries with the key.
LEMMA InChunkIsLast ==
  ASSUME T!TypeOK, NEW i \in Nat, NEW k \in Keys
  PROVE  /\ InChunk(i, k) \in T!Cell \cup {None}
         /\ InChunk(i, k) = None <=> \A j \in Chunk(i) : store[j].key # k
         /\ \A j \in Chunk(i) : /\ store[j].key = k
                                /\ \A m \in Chunk(i) : store[m].key = k => m <= j
                                => InChunk(i, k) = T!CellOf(store[j])
<1> DEFINE hits == {j \in Chunk(i) : store[j].key = k}
           top == CHOOSE j \in hits : \A m \in hits : m <= j
<1>1. InChunk(i, k) = IF hits = {} THEN None ELSE T!CellOf(store[top])
  BY DEF InChunk, Chunk
<1>2. DOMAIN store = 1..Len(store) /\ Len(store) \in Nat
  BY TreeFacts
<1>3. hits \subseteq DOMAIN store
  BY DEF Chunk
<1>4. hits # {} => top \in hits /\ \A m \in hits : m <= top
  <2>1. ASSUME hits # {} PROVE \E j \in hits : \A m \in hits : m <= j
    <3>1. hits \subseteq Nat /\ \A m \in hits : m <= Len(store)
      BY <1>2, <1>3
    <3> HIDE DEF hits
    <3>2. QED
      BY <1>2, <2>1, <3>1, P!GreatestNat, SameConstants
  <2> HIDE DEF hits
  <2>2. QED
    BY <2>1
<1>5. hits # {} => T!CellOf(store[top]) \in T!Cell /\ T!CellOf(store[top]) # None
  <2> HIDE DEF hits, top
  <2>1. QED
    BY <1>3, <1>4, EntryFacts
<1>6. ASSUME NEW j \in hits, \A m \in hits : m <= j PROVE top = j
  <2>1. top \in Nat /\ j \in Nat /\ top <= j /\ j <= top
    <3> HIDE DEF hits, top
    <3>1. QED
      BY <1>2, <1>3, <1>4, <1>6
  <2> HIDE DEF hits, top
  <2>2. QED
    BY <2>1
<1>7. hits = {} <=> \A j \in Chunk(i) : store[j].key # k
  OBVIOUS
<1>8. ASSUME NEW j \in Chunk(i), store[j].key = k, \A m \in Chunk(i) : store[m].key = k => m <= j
      PROVE  InChunk(i, k) = T!CellOf(store[j])
  <2>1. j \in hits /\ \A m \in hits : m <= j
    BY <1>8
  <2> HIDE DEF hits, top
  <2>2. QED
    BY <1>1, <1>6, <2>1
<1>9. QED
  <2> HIDE DEF hits, top
  <2>1. InChunk(i, k) \in T!Cell \cup {None}
    BY <1>1, <1>5
  <2>2. InChunk(i, k) = None <=> \A j \in Chunk(i) : store[j].key # k
    BY <1>1, <1>5, <1>7
  <2>3. QED
    BY <1>8, <2>1, <2>2

\* Every entry of the buffer is in a chunk, and the entries of an earlier chunk
\* are behind those of a later one.
LEMMA ChunkOfEntry ==
  ASSUME T!TypeOK
  PROVE  /\ \A j \in DOMAIN store : \E i \in 1..Len(Chunks) : j \in Chunk(i)
         /\ \A i, m \in 1..Len(Chunks) : i < m => \A j \in Chunk(i), l \in Chunk(m) : l < j
<1>1. /\ DOMAIN store = 1..Len(store) /\ Len(store) \in Nat
      /\ SearchSize \in Nat /\ SearchSize # 0 /\ Len(Chunks) \in Nat
  BY TreeFacts, SearchAssumption, ChunksShape
<1>2. ASSUME NEW j \in DOMAIN store
      PROVE  \E i \in 1..Len(Chunks) : j \in Chunk(i)
  <2> DEFINE d == (Len(store) - j) \div SearchSize
  <2>1. Len(store) - j \in Nat /\ j \in Nat /\ j # 0
    BY <1>1
  <2>2. d \in Nat /\ SearchSize * d <= Len(store) - j /\ Len(store) - j < SearchSize * d + SearchSize
    BY <1>1, <2>1, Quotient
  <2> HIDE DEF d
  <2>3. d < Len(Chunks)
    <3>1. SUFFICES ASSUME Len(Chunks) <= d PROVE FALSE
      BY <1>1, <2>2
    <3>2. Len(Chunks) * SearchSize <= d * SearchSize
      BY <1>1, <2>2, <3>1, Multiples
    <3>3. SearchSize * Len(Chunks) <= SearchSize * d
      BY <1>1, <2>2, <3>2
    <3>4. Len(store) <= SearchSize * Len(Chunks)
      BY ChunksShape
    <3>5. SearchSize * Len(Chunks) \in Nat /\ SearchSize * d \in Nat
      BY <1>1, <2>2
    <3>6. QED
      BY <1>1, <2>1, <2>2, <3>3, <3>4, <3>5
  <2>4. d + 1 \in 1..Len(Chunks) /\ (d + 1) - 1 = d
    BY <1>1, <2>2, <2>3
  <2>5. d * SearchSize = SearchSize * d /\ SearchSize * d \in Nat
    BY <1>1, <2>2
  <2>6. Len(store) - d * SearchSize - SearchSize < j /\ j <= Len(store) - d * SearchSize
    BY <1>1, <2>1, <2>2, <2>5
  <2>7. j \in Chunk(d + 1)
    BY <2>4, <2>6 DEF Chunk
  <2>8. QED
    BY <2>4, <2>7
<1>3. ASSUME NEW i \in 1..Len(Chunks), NEW m \in 1..Len(Chunks), i < m,
             NEW j \in Chunk(i), NEW l \in Chunk(m)
      PROVE  l < j
  <2>1. /\ Len(store) - (i - 1) * SearchSize - SearchSize < j
        /\ l <= Len(store) - (m - 1) * SearchSize
        /\ j \in Nat /\ l \in Nat
    BY <1>1 DEF Chunk
  <2>2. i \in Nat /\ m - 1 \in Nat /\ i <= m - 1
    BY <1>1, <1>3
  <2>3. i * SearchSize \in Nat /\ (m - 1) * SearchSize \in Nat /\ i * SearchSize <= (m - 1) * SearchSize
    BY <1>1, <2>2, Multiples
  <2>4. (i - 1) * SearchSize + SearchSize = i * SearchSize /\ (i - 1) * SearchSize \in Int
    BY <1>1, <2>2
  <2>5. QED
    BY <1>1, <2>1, <2>3, <2>4
<1>4. QED
  BY <1>2, <1>3

\* A search chunk by chunk from the back finds the last write of a key, unless
\* the buffer does not have the key.
LEMMA ChunkSearch ==
  ASSUME T!TypeOK, NEW k \in Keys
  PROVE  /\ \A i \in 1..Len(Chunks) : InChunk(i, k) # None => k \in T!BufferKeys
         /\ (\A i \in 1..Len(Chunks) : InChunk(i, k) = None) => k \notin T!BufferKeys
         /\ \A i \in 1..Len(Chunks) :
              InChunk(i, k) # None /\ (\A m \in 1..i - 1 : InChunk(m, k) = None)
              => InChunk(i, k) = T!CellOf(store[T!LastWrite(k)])
<1>1. Len(Chunks) \in Nat /\ DOMAIN store = 1..Len(store) /\ Len(store) \in Nat
  BY ChunksShape, TreeFacts
<1>2. ASSUME NEW i \in 1..Len(Chunks), InChunk(i, k) # None
      PROVE  k \in T!BufferKeys
  <2>1. i \in Nat
    BY <1>1
  <2>2. PICK j \in Chunk(i) : store[j].key = k
    BY <1>2, <2>1, InChunkIsLast
  <2>3. j \in DOMAIN store
    BY DEF Chunk
  <2>4. QED
    BY <2>2, <2>3, EntryFacts
<1>3. ASSUME k \in T!BufferKeys
      PROVE  \E i \in 1..Len(Chunks) : T!LastWrite(k) \in Chunk(i) /\ InChunk(i, k) # None
  <2>1. T!LastWrite(k) \in DOMAIN store /\ store[T!LastWrite(k)].key = k
    BY <1>3, LastOne
  <2>2. PICK i \in 1..Len(Chunks) : T!LastWrite(k) \in Chunk(i)
    BY <2>1, ChunkOfEntry
  <2>3. i \in Nat
    BY <1>1
  <2>4. InChunk(i, k) # None
    BY <2>1, <2>2, <2>3, InChunkIsLast
  <2>5. QED
    BY <2>2, <2>4
<1>4. ASSUME NEW i \in 1..Len(Chunks), InChunk(i, k) # None, \A m \in 1..i - 1 : InChunk(m, k) = None
      PROVE  InChunk(i, k) = T!CellOf(store[T!LastWrite(k)])
  <2>1. k \in T!BufferKeys /\ i \in Nat
    BY <1>1, <1>2, <1>4
  <2>2. /\ T!LastWrite(k) \in DOMAIN store /\ store[T!LastWrite(k)].key = k
        /\ \A j \in DOMAIN store : store[j].key = k => j <= T!LastWrite(k)
    BY <2>1, LastOne
  <2>3. PICK c \in 1..Len(Chunks) : T!LastWrite(k) \in Chunk(c) /\ InChunk(c, k) # None
    BY <1>3, <2>1
  <2>4. ~(c < i)
    <3>1. c < i => c \in 1..i - 1
      BY <1>1
    <3>2. QED
      BY <1>4, <2>3, <3>1
  <2>5. PICK j \in Chunk(i) : store[j].key = k
    BY <1>4, <2>1, InChunkIsLast
  <2>6. j \in DOMAIN store /\ j <= T!LastWrite(k)
    BY <2>2, <2>5 DEF Chunk
  <2>7. ~(i < c)
    <3>1. i < c => T!LastWrite(k) < j
      BY <2>3, ChunkOfEntry
    <3>2. j \in Nat /\ T!LastWrite(k) \in Nat
      BY <1>1, <2>2, <2>6
    <3>3. QED
      BY <2>6, <3>1, <3>2
  <2>8. c = i
    BY <1>1, <2>4, <2>7
  <2>9. /\ T!LastWrite(k) \in Chunk(i)
        /\ \A m \in Chunk(i) : store[m].key = k => m <= T!LastWrite(k)
    BY <2>2, <2>3, <2>8 DEF Chunk
  <2>10. QED
    BY <2>1, <2>2, <2>9, InChunkIsLast
<1>5. QED
  BY <1>2, <1>3, <1>4
-----------------------------------------------------------------------------
(* The tasks of a stage, and what they find *)

LEMMA ThreadsType == Threads \in Nat /\ Threads # 0
<1>1. IsFiniteSet(Workers) /\ Workers # {}
  BY SearchAssumption
<1>2. QED
  BY <1>1, FS_CardinalityType, FS_EmptySet DEF Threads

\* The tasks of each stage of each operation.
LEMMA TasksByStage ==
  /\ caller.op \in {"get", "range"} => TasksOf(0) = Chunks
  /\ caller.op = "write" => TasksOf(0) = Parts
  /\ \A stage \in Nat : stage > 0 =>
       /\ caller.op = "get" => TasksOf(stage) = RunsOf({stage})
       /\ caller.op = "range" => TasksOf(stage) = RunsOf(DOMAIN levels)
       /\ caller.op = "write" => TasksOf(stage) = RunsOf(1..T!Target - 1)
<1>1. /\ caller.op \in {"get", "range"} => TasksOf(0) = Chunks
      /\ caller.op = "write" => TasksOf(0) = Parts
  BY DEF TasksOf
<1>2. ASSUME NEW stage \in Nat, stage > 0
      PROVE  /\ caller.op = "get" => TasksOf(stage) = RunsOf({stage})
             /\ caller.op = "range" => TasksOf(stage) = RunsOf(DOMAIN levels)
             /\ caller.op = "write" => TasksOf(stage) = RunsOf(1..T!Target - 1)
  BY <1>2 DEF TasksOf
<1>3. QED
  BY <1>1, <1>2

LEMMA TasksShape ==
  ASSUME T!TypeOK, Searching, NEW stage \in Nat
  PROVE  /\ Len(TasksOf(stage)) \in Nat
         /\ DOMAIN TasksOf(stage) = 1..Len(TasksOf(stage))
         /\ TasksOf(stage) \in Seq(Int \X Int)
         /\ \A n \in 1..Len(TasksOf(stage)) : TasksOf(stage)[n] \in Int \X Int
         /\ stage > 0 => \A n \in 1..Len(TasksOf(stage)) : TasksOf(stage)[n] \in T!Positions
<1>1. T!Positions \subseteq Int \X Int
  <2>1. ASSUME NEW p \in T!Positions PROVE p \in Int \X Int
    <3>1. p = <<p[1], p[2]>> /\ p[1] \in 1..Len(levels) /\ p[2] \in 1..Len(levels[p[1]])
      BY TreeFacts
    <3>2. p[1] \in Int /\ p[2] \in Int
      BY <3>1
    <3>3. QED
      BY <3>1, <3>2
  <2>2. QED
    BY <2>1
<1>2. CASE stage > 0
  <2>1. \E I : TasksOf(stage) = RunsOf(I)
    BY <1>2, TasksByStage DEF Searching
  <2>2. QED
    BY <1>1, <2>1, RunsInSearchOrder
<1>3. CASE stage = 0
  <2>1. /\ Len(Chunks) \in Nat /\ DOMAIN Chunks = 1..Len(Chunks) /\ Chunks \in Seq(Int \X Int)
        /\ \A n \in 1..Len(Chunks) : Chunks[n] \in Int \X Int
    <3>1. /\ Len(Chunks) \in Nat /\ DOMAIN Chunks = 1..Len(Chunks)
          /\ \A n \in 1..Len(Chunks) : Chunks[n] = <<0, n>>
      BY ChunksShape
    <3>2. \A n \in 1..Len(Chunks) : Chunks[n] \in Int \X Int
      <4>1. PICK zero \in Int : zero = 0
        OBVIOUS
      <4>2. ASSUME NEW n \in 1..Len(Chunks) PROVE <<zero, n>> \in Int \X Int
        BY <3>1
      <4>3. QED
        BY <3>1, <4>1, <4>2
    <3>3. Chunks = [n \in DOMAIN Chunks |-> Chunks[n]]
      BY DEF Chunks
    <3>4. Chunks \in [1..Len(Chunks) -> Int \X Int]
      BY <3>1, <3>2, <3>3
    <3>5. QED
      BY <3>1, <3>2, <3>4
  <2>2. /\ Len(Parts) \in Nat /\ DOMAIN Parts = 1..Len(Parts) /\ Parts \in Seq(Int \X Int)
        /\ \A n \in 1..Len(Parts) : Parts[n] \in Int \X Int
    <3>1. Threads \in Nat
      BY ThreadsType
    <3> HIDE DEF Threads
    <3>2. QED
      BY <3>1 DEF Parts
  <2>3. TasksOf(stage) = Chunks \/ TasksOf(stage) = Parts
    BY <1>3, TasksByStage DEF Searching
  <2>4. CASE TasksOf(stage) = Chunks
    BY <1>3, <2>1, <2>4
  <2>5. CASE TasksOf(stage) = Parts
    BY <1>3, <2>2, <2>5
  <2>6. QED
    BY <2>3, <2>4, <2>5
<1>4. QED
  BY <1>2, <1>3

\* What a search of a chunk, a get's and a range's search of a run, and a part
\* of a compaction find.
LEMMA FindsInBuffer ==
  ASSUME NEW task, task.op \in {"get", "range"}, task.at[1] = 0
  PROVE  Finds(task) = {[k \in Keys |-> IF k \in Within(task.arg) THEN InChunk(task.at[2], k) ELSE None]}
BY DEF Finds, Within

LEMMA FindsInRun ==
  ASSUME NEW task, task.op = "get", task.at[1] # 0
  PROVE  Finds(task) = {[k \in Keys |-> IF k \in Within(task.arg) /\ ~T!RunAt(task.at)[k].del
                                        THEN T!RunAt(task.at)[k] ELSE None]}
BY DEF Finds, Within

LEMMA FindsInRange ==
  ASSUME NEW task, task.op = "range", task.at[1] # 0, NEW f \in Finds(task)
  PROVE  /\ DOMAIN f = Keys
         /\ \A k \in Keys : f[k] # None => /\ k \in Within(task.arg)
                                           /\ k \in T!KeysOf(T!RunAt(task.at))
                                           /\ f[k] = AsLive(T!RunAt(task.at)[k])
         /\ \E some : f = [k \in Keys |-> IF k \in some THEN AsLive(T!RunAt(task.at)[k]) ELSE None]
BY DEF Finds, Within

LEMMA FindsOfWrite ==
  ASSUME NEW task, task.op = "write"
  PROVE  Finds(task) = {Nothing}
BY DEF Finds

LEMMA NothingType == Nothing \in Findings /\ \A k \in Keys : Nothing[k] = None
BY DEF Nothing, Findings, None

\* What a search finds of a key is a cell or nothing.
LEMMA FindsType ==
  ASSUME T!TypeOK, NEW task, task.op \in {"get", "range", "write"},
         task.at[1] = 0 => task.at[2] \in Nat,
         task.at[1] # 0 => task.op = "write" \/ task.at \in T!Positions
  PROVE  Finds(task) \subseteq Findings
<1>1. CASE task.op \in {"get", "range"} /\ task.at[1] = 0
  <2>1. \A k \in Keys : InChunk(task.at[2], k) \in T!Cell \cup {None}
    BY <1>1, InChunkIsLast
  <2>2. QED
    BY <1>1, <2>1, FindsInBuffer DEF Findings
<1>2. CASE task.op = "get" /\ task.at[1] # 0
  <2>1. T!RunAt(task.at) \in T!Run
    BY <1>2, TreeFacts
  <2>2. \A k \in Keys : T!RunAt(task.at)[k] \in T!Cell \cup {None}
    BY <2>1 DEF T!Run, None
  <2>3. QED
    BY <1>2, <2>2, FindsInRun DEF Findings
<1>3. CASE task.op = "range" /\ task.at[1] # 0
  <2>1. T!RunAt(task.at) \in T!Run
    BY <1>3, TreeFacts
  <2>2. ASSUME NEW f \in Finds(task) PROVE f \in Findings
    <3>1. PICK some : f = [k \in Keys |-> IF k \in some THEN AsLive(T!RunAt(task.at)[k]) ELSE None]
      BY <1>3, FindsInRange
    <3>2. ASSUME NEW k \in Keys PROVE f[k] \in T!Cell \cup {None}
      <4>1. CASE f[k] = None
        BY <4>1
      <4>2. CASE f[k] # None
        <5>1. k \in T!KeysOf(T!RunAt(task.at)) /\ f[k] = AsLive(T!RunAt(task.at)[k])
          BY <1>3, <4>2, FindsInRange
        <5>2. T!RunAt(task.at)[k] \in T!Cell
          BY <2>1, <5>1 DEF T!Run, T!KeysOf
        <5>3. QED
          BY <5>1, <5>2 DEF AsLive, T!Cell
      <4>3. QED
        BY <4>1, <4>2
    <3>3. f = [k \in Keys |-> f[k]]
      BY <3>1
    <3>4. QED
      BY <3>2, <3>3 DEF Findings
  <2>3. QED
    BY <2>2
<1>4. CASE task.op = "write"
  BY <1>4, FindsOfWrite, NothingType
<1>5. QED
  BY <1>1, <1>2, <1>3, <1>4
-----------------------------------------------------------------------------
(* What a step that leaves the buffer and the levels alone leaves as it is *)

LEMMA TreeSame ==
  ASSUME store' = store, levels' = levels
  PROVE  /\ T!BufferKeys' = T!BufferKeys /\ T!Positions' = T!Positions
         /\ \A k : T!LastWrite(k)' = T!LastWrite(k)
         /\ \A p : T!RunAt(p)' = T!RunAt(p)
         /\ Chunks' = Chunks
         /\ \A I : RunsOf(I)' = RunsOf(I)
         /\ T!Target' = T!Target
         /\ \A i, k : InChunk(i, k)' = InChunk(i, k)
         /\ \A task : Finds(task)' = Finds(task)
         /\ \A arg : OfBuffer(arg)' = OfBuffer(arg)
         /\ \A at, k : Misses(at, k)' = Misses(at, k)
<1>1. T!BufferKeys' = T!BufferKeys /\ T!Positions' = T!Positions
  BY DEF T!BufferKeys, T!Positions
<1>2. \A k : T!LastWrite(k)' = T!LastWrite(k)
  BY DEF T!LastWrite
<1>3. \A p : T!RunAt(p)' = T!RunAt(p)
  BY DEF T!RunAt
<1>4. Chunks' = Chunks
  BY DEF Chunks
<1>5. \A I : RunsOf(I)' = RunsOf(I)
  BY <1>1 DEF RunsOf, T!Before
<1>6. T!Target' = T!Target
  BY DEF T!Target, T!Full
<1>7. \A i, k : InChunk(i, k)' = InChunk(i, k)
  BY DEF InChunk
<1>8. \A task : Finds(task)' = Finds(task)
  BY ZenonT(40), <1>3, <1>7 DEF Finds, T!KeysOf, AsLive
<1>9. \A arg : OfBuffer(arg)' = OfBuffer(arg)
  BY <1>1, <1>2 DEF OfBuffer
<1>10. \A at, k : Misses(at, k)' = Misses(at, k)
  BY <1>3, <1>7 DEF Misses
<1>11. QED
  BY <1>1, <1>2, <1>3, <1>4, <1>5, <1>6, <1>7, <1>8, <1>9, <1>10

\* The same operation has the same tasks at a stage.
LEMMA TasksSame ==
  ASSUME store' = store, levels' = levels, caller.op' = caller.op
  PROVE  \A stage : TasksOf(stage)' = TasksOf(stage)
<1> SUFFICES ASSUME NEW stage PROVE TasksOf(stage)' = TasksOf(stage)
  OBVIOUS
<1>1. Chunks' = Chunks /\ T!Positions' = T!Positions /\ T!Target' = T!Target
  BY TreeSame
<1>2. RunsOf({stage})' = RunsOf({stage})
  BY <1>1 DEF RunsOf, T!Before
<1>3. RunsOf(DOMAIN levels)' = RunsOf(DOMAIN levels)
  BY <1>1 DEF RunsOf, T!Before
<1>4. RunsOf(1..T!Target - 1)' = RunsOf(1..T!Target - 1)
  BY <1>1 DEF RunsOf, T!Before
<1>5. Parts' = Parts
  BY DEF Parts, Threads
<1>6. QED
  BY <1>1, <1>2, <1>3, <1>4, <1>5 DEF TasksOf

LEMMA GetSame ==
  ASSUME store' = store, levels' = levels
  PROVE  \A k : T!Get(k)' = T!Get(k) /\ T!Holders(k)' = T!Holders(k)
<1>1. \A k : T!Holders(k)' = T!Holders(k) /\ T!LiveHolders(k)' = T!LiveHolders(k)
  BY TreeSame DEF T!Holders, T!LiveHolders
<1>2. \A k : T!First(T!LiveHolders(k))' = T!First(T!LiveHolders(k))
  BY <1>1 DEF T!First, T!Before
<1>3. \A k : T!Get(k)' = T!Get(k)
  BY <1>1, <1>2, TreeSame DEF T!Get, T!CellOf
<1>4. QED
  BY <1>1, <1>3

\* The same answer stays right.
LEMMA AnswerSame ==
  ASSUME store' = store, levels' = levels, SearchesAreSequential, answer' = answer
  PROVE  SearchesAreSequential'
BY GetSame, TreeSame DEF SearchesAreSequential, T!CellOf, AsLive

LEMMA NoAnswerRight ==
  ASSUME answer.op = "none"
  PROVE  SearchesAreSequential
BY DEF SearchesAreSequential
-----------------------------------------------------------------------------
(* The thread that calls the tree, between two operations *)

\* A task that is not abandoned has a future that is pending: with none, every
\* task is abandoned.
LEMMA AllAbandoned ==
  ASSUME PoolInv, \A i \in DOMAIN futures : futures[i] # Pending
  PROVE  /\ \A j \in DOMAIN queue : queue[j] = Stale
         /\ \A w \in Workers : worker[w].task = Stale
BY DEF PoolInv, Awaited

LEMMA Quiet ==
  ASSUME CallerInv, PoolInv, ~Searching
  PROVE  /\ futures = <<>> /\ merged = Nothing
         /\ \A j \in DOMAIN queue : queue[j] = Stale
         /\ \A w \in Workers : worker[w].task = Stale
<1>1. futures = <<>> /\ merged = Nothing
  BY DEF CallerInv
<1>2. \A i \in DOMAIN futures : futures[i] # Pending
  BY <1>1
<1>3. QED
  BY <1>1, <1>2, AllAbandoned

LEMMA QuietAfter ==
  ASSUME ~Searching', futures' = <<>>, merged' = Nothing,
         \A j \in DOMAIN queue' : queue'[j] = Stale,
         \A w \in Workers : worker'[w].task = Stale
  PROVE  FuturesInv' /\ PoolInv' /\ DrainInv' /\ SearchedInv' /\ MergedInv'
<1>1. DOMAIN futures' = {}
  OBVIOUS
<1>2. FuturesInv'
  BY <1>1 DEF FuturesInv
<1>3. PoolInv'
  BY DEF PoolInv
<1>4. DrainInv'
  <2>1. ~(\E i \in DOMAIN futures' : futures'[i].ready)
    BY <1>1
  <2>2. ~(caller'.op = "write")
    BY DEF Searching
  <2>3. QED
    BY <2>1, <2>2 DEF DrainInv
<1>5. SearchedInv'
  BY DEF SearchedInv, Searching
<1>6. MergedInv'
  BY DEF MergedInv, Searching
<1>7. QED
  BY <1>2, <1>3, <1>4, <1>5, <1>6

LEMMA IdleFacts == Idle \in Callers /\ Idle.op = "idle" /\ Idle.step = "none"
<1>1. PICK zero \in Nat : zero = 0
  OBVIOUS
<1>2. [op |-> "idle", arg |-> <<zero, zero>>, stage |-> zero, next |-> zero, step |-> "none"] \in Callers
  BY DEF Callers
<1>3. QED
  BY <1>1, <1>2 DEF Idle

LEMMA PendingType == Pending \in Futures /\ ~Pending.ready
BY NothingType DEF Pending, Futures

LEMMA ReadyNothing == [Pending EXCEPT !.ready = TRUE] = [ready |-> TRUE, found |-> Nothing]
<1>1. ASSUME NEW a, NEW b, NEW c
      PROVE  [[ready |-> a, found |-> b] EXCEPT !.ready = c] = [ready |-> c, found |-> b]
  OBVIOUS
<1>2. QED
  BY <1>1, Zenon DEF Pending

LEMMA InitSearch == Init => SearchInv
<1> SUFFICES ASSUME Init PROVE SearchInv
  OBVIOUS
<1> USE DEF Init
<1>1. TypeInv
  <2>1. caller \in Callers /\ caller.op \notin {"get", "write"}
    BY IdleFacts
  <2>2. futures \in Seq(Futures) /\ queue \in Seq(TaskSet)
    OBVIOUS
  <2>3. merged \in Findings
    BY NothingType
  <2>4. worker \in [Workers -> [is : {"awake", "waiting", "running", "gone"}, task : TaskSet]]
    BY DEF Doing, TaskSet
  <2>5. QED
    BY <2>1, <2>2, <2>3, <2>4 DEF TypeInv
<1>2. CallerInv
  BY IdleFacts DEF CallerInv, Searching
<1>3. \A w \in Workers : worker[w].task = Stale
  BY DEF Doing
<1>4. FuturesInv /\ PoolInv /\ DrainInv /\ SearchedInv /\ MergedInv
  <2>1. ~Searching
    BY IdleFacts DEF Searching
  <2>2. FuturesInv
    BY DEF FuturesInv
  <2>3. PoolInv
    BY <1>3 DEF PoolInv
  <2>4. DrainInv
    BY <1>3, <2>1 DEF DrainInv, Searching
  <2>5. SearchedInv /\ MergedInv
    BY <2>1 DEF SearchedInv, MergedInv, Searching
  <2>6. QED
    BY <2>2, <2>3, <2>4, <2>5
<1>5. SearchesAreSequential
  BY NoAnswerRight DEF NoAnswer
<1>6. QED
  BY <1>1, <1>2, <1>4, <1>5 DEF SearchInv

\* A write that finds room, and the steps of the destructor.
LEMMA IdleSteps ==
  ASSUME T!TypeOK, SearchInv,
         (\E write \in Writes : Write(write[1], write[2])) \/ StopPool \/ NotifyAll \/ Join
  PROVE  SearchInv'
<1>1. /\ TypeInv /\ CallerInv /\ PoolInv /\ SearchesAreSequential /\ caller \in Callers
      /\ worker \in [Workers -> [is : {"awake", "waiting", "running", "gone"}, task : TaskSet]]
  BY DEF SearchInv, TypeInv
<1>2. futures' = futures /\ merged' = merged /\ queue' = queue
  BY DEF Write, StopPool, NotifyAll, Join, poolVars
<1>3. /\ ~Searching /\ ~Searching'
      /\ caller' \in Callers /\ caller'.op \notin {"get", "write"}
      /\ caller'.step \in {"none", "notify_all", "join"}
      /\ answer' = NoAnswer
  <2>1. CASE \E write \in Writes : Write(write[1], write[2])
    <3>1. caller = Idle /\ caller' = Idle /\ answer' = NoAnswer
      BY <2>1 DEF Write
    <3>2. QED
      BY <3>1, IdleFacts DEF Searching
  <2>2. CASE StopPool
    <3>1. caller = Idle /\ caller' = [Idle EXCEPT !.op = "destroy", !.step = "notify_all"] /\ answer' = NoAnswer
      BY <2>2 DEF StopPool
    <3>2. caller' \in Callers /\ caller'.op = "destroy" /\ caller'.step = "notify_all"
      BY <3>1, IdleFacts DEF Callers
    <3>3. QED
      BY <3>1, <3>2, IdleFacts DEF Searching
  <2>3. CASE NotifyAll
    <3>1. caller.step = "notify_all" /\ caller' = [caller EXCEPT !.step = "join"] /\ answer' = answer
      BY <2>3 DEF NotifyAll
    <3>2. ~Searching /\ answer = NoAnswer
      BY <1>1, <3>1, IdleFacts DEF CallerInv
    <3>3. caller' \in Callers /\ caller'.op = caller.op /\ caller'.step = "join"
      BY <1>1, <3>1 DEF Callers
    <3>4. QED
      BY <3>1, <3>2, <3>3 DEF Searching
  <2>4. CASE Join
    <3>1. caller.step = "join" /\ caller' = [Idle EXCEPT !.op = "gone"] /\ answer' = answer
      BY <2>4 DEF Join
    <3>2. ~Searching /\ answer = NoAnswer
      BY <1>1, <3>1, IdleFacts DEF CallerInv
    <3>3. caller' \in Callers /\ caller'.op = "gone" /\ caller'.step = "none"
      BY <3>1, IdleFacts DEF Callers
    <3>4. QED
      BY <3>1, <3>2, <3>3 DEF Searching
  <2>5. QED
    BY <2>1, <2>2, <2>3, <2>4
<1>4. /\ futures = <<>> /\ merged = Nothing
      /\ \A j \in DOMAIN queue : queue[j] = Stale
      /\ \A w \in Workers : worker[w].task = Stale
  BY <1>1, <1>3, Quiet
<1>5. /\ worker' \in [Workers -> [is : {"awake", "waiting", "running", "gone"}, task : TaskSet]]
      /\ \A w \in Workers : worker'[w].task = Stale
  <2>1. \/ worker' = worker
        \/ worker' = [w \in Workers |-> IF w \in Waiting THEN Doing("awake") ELSE worker[w]]
    BY DEF Write, StopPool, NotifyAll, Join, poolVars
  <2>2. Doing("awake") \in [is : {"awake", "waiting", "running", "gone"}, task : TaskSet]
    BY DEF Doing, TaskSet
  <2>3. Doing("awake").task = Stale
    BY DEF Doing
  <2>4. QED
    BY <1>1, <1>4, <2>1, <2>2, <2>3
<1>6. TypeInv'
  BY <1>1, <1>2, <1>3, <1>5 DEF TypeInv
<1>7. CallerInv'
  BY <1>2, <1>3, <1>4 DEF CallerInv
<1>8. FuturesInv' /\ PoolInv' /\ DrainInv' /\ SearchedInv' /\ MergedInv'
  BY <1>2, <1>3, <1>4, <1>5, QuietAfter
<1>9. SearchesAreSequential'
  BY <1>3 DEF SearchesAreSequential, NoAnswer
<1>10. QED
  BY <1>6, <1>7, <1>8, <1>9 DEF SearchInv

\* An operation starts.
LEMMA StartStep ==
  ASSUME T!TypeOK, SearchInv, NEW op, NEW arg, Start(op, arg),
         \/ op = "write" /\ arg \in Keys \X {0, 1}
         \/ op = "get" /\ \E k \in Keys : arg = <<k, k>>
         \/ op = "range" /\ arg \in Ranges
  PROVE  SearchInv'
<1>1. /\ caller = Idle /\ answer' = NoAnswer
      /\ store' = store /\ levels' = levels
      /\ futures' = futures /\ merged' = merged
      /\ queue' = queue /\ worker' = worker
  BY DEF Start, treeVars, poolVars
<1>2. /\ futures = <<>> /\ merged = Nothing
      /\ \A j \in DOMAIN queue : queue[j] = Stale
      /\ \A w \in Workers : worker[w].task = Stale
  <2>1. ~Searching
    BY <1>1, IdleFacts DEF Searching
  <2>2. QED
    BY <2>1, Quiet DEF SearchInv
<1>3. arg \in Int \X Int /\ (op # "range" => arg[1] \in Keys) /\ (op = "get" => arg = <<arg[1], arg[1]>>)
  <2>1. Keys \subseteq Int /\ Ranges \subseteq Keys \X Keys /\ {0, 1} \subseteq Int
    BY TreeAssumption, SearchAssumption
  <2>2. QED
    BY <2>1
<1>4. /\ caller' \in Callers
      /\ caller'.op = op /\ caller'.arg = arg /\ caller'.stage = 0 /\ caller'.next = 0
      /\ caller'.step = IF op = "write" \/ store # <<>> THEN "enqueue" ELSE "collect"
      /\ op \in {"get", "range", "write"}
  <2>1. PICK zero \in Nat : zero = 0
    OBVIOUS
  <2>2. PICK step \in {"enqueue", "collect"} : step = IF op = "write" \/ store # <<>> THEN "enqueue" ELSE "collect"
    OBVIOUS
  <2>3. caller' = [op |-> op, arg |-> arg, stage |-> zero, next |-> zero, step |-> step]
    BY <2>1, <2>2 DEF Start
  <2>4. op \in {"get", "range", "write"}
    OBVIOUS
  <2>5. QED
    BY <1>3, <2>1, <2>2, <2>3, <2>4 DEF Callers
<1>5. TypeInv'
  BY <1>1, <1>3, <1>4 DEF SearchInv, TypeInv
<1>6. Len(futures') = 0 /\ DOMAIN futures' = {}
  BY <1>1, <1>2
<1>7. CallerInv'
  <2>1. Len(levels) \in Nat
    BY TreeFacts
  <2>2. Searching'
    BY <1>4 DEF Searching
  <2>3. caller'.stage <= LastStage'
    BY <1>1, <1>4, <2>1 DEF LastStage
  <2>4. Tasks' = IF op = "write" THEN Parts ELSE Chunks
    <3>1. Chunks' = Chunks
      BY <1>1, TreeSame
    <3>2. QED
      BY <1>4, <3>1 DEF Tasks, TasksOf, Parts, Threads
  <2>5. Len(Parts) \in Nat /\ Len(Parts) # 0
    <3>1. Threads \in Nat /\ Threads # 0
      BY ThreadsType
    <3> HIDE DEF Threads
    <3>2. QED
      BY <3>1 DEF Parts
  <2>6. Len(Chunks) \in Nat /\ (Len(Chunks) = 0 <=> store = <<>>)
    <3>1. /\ Len(Chunks) \in Nat /\ SearchSize \in Nat /\ SearchSize # 0
          /\ Len(store) <= SearchSize * Len(Chunks)
          /\ SearchSize * Len(Chunks) < Len(store) + SearchSize
      BY ChunksShape, SearchAssumption
    <3>2. Len(store) \in Nat /\ (Len(store) = 0 <=> store = <<>>)
      BY TreeFacts
    <3>3. ASSUME Len(Chunks) = 0 PROVE Len(store) = 0
      <4>1. SearchSize * Len(Chunks) = 0
        BY <3>1, <3>3
      <4>2. QED
        BY <3>1, <3>2, <4>1
    <3>4. ASSUME Len(store) = 0 PROVE Len(Chunks) = 0
      <4>1. SUFFICES ASSUME 1 <= Len(Chunks) PROVE FALSE
        BY <3>1
      <4>2. 1 * SearchSize <= Len(Chunks) * SearchSize
        BY <3>1, <4>1, Multiples
      <4>3. QED
        BY <3>1, <3>4, <4>2
    <3>5. QED
      BY <3>1, <3>2, <3>3, <3>4
  <2>7. /\ Len(futures') <= caller'.next /\ caller'.next <= Len(Tasks')
        /\ Len(futures') = caller'.next
    BY <1>4, <1>6, <2>4, <2>5, <2>6
  <2>8. caller'.step = "enqueue" => caller'.next < Len(Tasks')
    BY <1>4, <2>4, <2>5, <2>6
  <2>9. caller'.op # "get" /\ caller'.step = "collect" => caller'.next = Len(Tasks')
    BY <1>4, <2>4, <2>6
  <2>10. caller'.step \in {"enqueue", "notify", "collect"}
    BY <1>4
  <2>11. QED
    BY <1>1, <2>2, <2>3, <2>7, <2>8, <2>9, <2>10 DEF CallerInv
<1>8. FuturesInv'
  BY <1>6 DEF FuturesInv
<1>9. PoolInv'
  BY <1>1, <1>2 DEF PoolInv
<1>10. DrainInv'
  <2>1. \A w \in Workers : worker'[w].task = Stale
    BY <1>1, <1>2
  <2>2. ~(\E i \in DOMAIN futures' : futures'[i].ready)
    BY <1>6
  <2>3. ~(caller'.stage > 0)
    BY <1>4
  <2>4. \A j \in DOMAIN queue' : queue'[j] = Stale
    BY <1>1, <1>2
  <2>5. QED
    BY <2>1, <2>2, <2>3, <2>4 DEF DrainInv
<1>11. SearchedInv'
  <2>1. Collected' = 0
    BY <1>4, <1>6 DEF Collected
  <2>2. ~(caller'.stage > 0)
    BY <1>4
  <2>3. QED
    BY <2>1, <2>2 DEF SearchedInv
<1>12. MergedInv'
  <2>1. merged' = Nothing /\ ~(caller'.stage > 0)
    BY <1>1, <1>2, <1>4
  <2>2. QED
    BY <2>1 DEF MergedInv, Nothing
<1>13. SearchesAreSequential'
  BY <1>1 DEF SearchesAreSequential, NoAnswer
<1>14. QED
  BY <1>5, <1>7, <1>8, <1>9, <1>10, <1>11, <1>12, <1>13 DEF SearchInv
-----------------------------------------------------------------------------
(* While an operation is under way *)

LEMMA SearchFacts ==
  ASSUME T!TypeOK, TypeInv, CallerInv, Searching
  PROVE  /\ caller \in Callers /\ caller.stage \in Nat /\ caller.next \in Nat /\ caller.arg \in Int \X Int
         /\ Len(futures) \in Nat /\ DOMAIN futures = 1..Len(futures)
         /\ Collected \in Nat /\ Collected + Len(futures) = caller.next
         /\ Len(Tasks) \in Nat /\ DOMAIN Tasks = 1..Len(Tasks) /\ caller.next <= Len(Tasks)
         /\ \A n \in 1..Len(Tasks) : Tasks[n] \in Int \X Int
         /\ \A i \in DOMAIN futures : futures[i] \in Futures
<1>1. caller \in Callers /\ caller.stage \in Nat /\ caller.next \in Nat /\ caller.arg \in Int \X Int
  BY DEF TypeInv, Callers
<1>2. Len(futures) \in Nat /\ DOMAIN futures = 1..Len(futures) /\ \A i \in DOMAIN futures : futures[i] \in Futures
  BY DEF TypeInv
<1>3. Len(futures) <= caller.next /\ caller.next <= Len(Tasks)
  BY DEF CallerInv
<1>4. Collected \in Nat /\ Collected + Len(futures) = caller.next
  BY <1>1, <1>2, <1>3 DEF Collected
<1>5. /\ Len(Tasks) \in Nat /\ DOMAIN Tasks = 1..Len(Tasks)
      /\ \A n \in 1..Len(Tasks) : Tasks[n] \in Int \X Int
  BY <1>1, TasksShape DEF Tasks
<1>6. QED
  BY <1>1, <1>2, <1>3, <1>4, <1>5

\* The task of a slot.
LEMMA TaskFacts ==
  ASSUME Searching, NEW i
  PROVE  /\ Task(i).slot = i /\ Task(i).op = caller.op /\ Task(i).arg = caller.arg
         /\ Task(i).at = Tasks[Collected + i]
         /\ Task(i) # Stale
BY DEF Task, Stale, Searching

LEMMA TaskType ==
  ASSUME Searching, NEW i \in Nat, caller.arg \in Int \X Int, Tasks[Collected + i] \in Int \X Int
  PROVE  Task(i) \in TaskSet
BY DEF Task, TaskSet, Searching

\* The caller goes on to another task or step.
LEMMA CallerMoves ==
  ASSUME caller \in Callers, NEW next \in Nat,
         NEW step \in {"none", "enqueue", "notify", "collect", "notify_all", "join"},
         NEW moved, moved = [caller EXCEPT !.next = next, !.step = step]
  PROVE  /\ moved \in Callers /\ moved.op = caller.op /\ moved.arg = caller.arg
         /\ moved.stage = caller.stage /\ moved.next = next /\ moved.step = step
BY DEF Callers

\* The tasks of a step that leaves the stage and the collected ones alone.
LEMMA SameTasks ==
  ASSUME store' = store, levels' = levels,
         caller'.op = caller.op, caller'.arg = caller.arg, caller'.stage = caller.stage
  PROVE  /\ Tasks' = Tasks /\ LastStage' = LastStage
         /\ Searching' = Searching
         /\ Collected' = Collected =>
              \A i : Task(i)' = Task(i) /\ Finds(Task(i))' = Finds(Task(i))
<1>1. Tasks' = Tasks
  BY TasksSame DEF Tasks
<1>2. LastStage' = LastStage /\ Searching' = Searching
  BY DEF LastStage, Searching
<1>3. ASSUME Collected' = Collected, NEW i
      PROVE  Task(i)' = Task(i) /\ Finds(Task(i))' = Finds(Task(i))
  <2>1. Task(i)' = Task(i)
    BY <1>1, <1>3 DEF Task
  <2>2. Finds(Task(i))' = Finds(Task(i))
    <3>1. \A task : Finds(task)' = Finds(task)
      BY TreeSame
    <3>2. QED
      BY <2>1, <3>1
  <2>3. QED
    BY <2>1, <2>2
<1>4. QED
  BY <1>1, <1>2, <1>3

\* The part of the invariant about what was collected stays true with it.
LEMMA CollectedSame ==
  ASSUME store' = store, levels' = levels, SearchedInv, MergedInv,
         caller'.op = caller.op, caller'.arg = caller.arg, caller'.stage = caller.stage,
         Collected' = Collected, merged' = merged
  PROVE  SearchedInv' /\ MergedInv'
<1>1. Tasks' = Tasks /\ Searching' = Searching
  BY SameTasks
<1>2. SearchedInv'
  BY <1>1, TreeSame DEF SearchedInv
<1>3. MergedInv'
  BY <1>1, TreeSame DEF MergedInv, Nothing
<1>4. QED
  BY <1>2, <1>3

\* A task is queued.
LEMMA EnqueueStep ==
  ASSUME T!TypeOK, SearchInv, Enqueue
  PROVE  SearchInv'
<1>1. /\ caller.step = "enqueue" /\ store' = store /\ levels' = levels /\ merged' = merged
      /\ worker' = worker /\ answer' = answer
      /\ queue' = Append(queue, NextTask) /\ futures' = Append(futures, Pending)
      /\ caller' = [caller EXCEPT !.next = @ + 1, !.step = "notify"]
  BY DEF Enqueue, treeVars
<1>2. /\ TypeInv /\ CallerInv /\ FuturesInv /\ PoolInv /\ DrainInv /\ SearchedInv /\ MergedInv
      /\ SearchesAreSequential
  BY DEF SearchInv
<1>3. Searching
  BY <1>1, <1>2 DEF CallerInv
<1>4. /\ caller \in Callers /\ caller.stage \in Nat /\ caller.next \in Nat /\ caller.arg \in Int \X Int
      /\ Len(futures) \in Nat /\ DOMAIN futures = 1..Len(futures)
      /\ Collected \in Nat /\ Collected + Len(futures) = caller.next
      /\ Len(Tasks) \in Nat /\ caller.next < Len(Tasks)
      /\ \A n \in 1..Len(Tasks) : Tasks[n] \in Int \X Int
  <2>1. caller.next < Len(Tasks)
    BY <1>1, <1>2, <1>3 DEF CallerInv
  <2>2. QED
    BY <1>2, <1>3, <2>1, SearchFacts
<1>5. /\ caller' \in Callers /\ caller'.op = caller.op /\ caller'.arg = caller.arg
      /\ caller'.stage = caller.stage /\ caller'.next = caller.next + 1 /\ caller'.step = "notify"
  <2>1. PICK next \in Nat : next = caller.next + 1
    BY <1>4
  <2>2. caller' = [caller EXCEPT !.next = next, !.step = "notify"]
    BY <1>1, <2>1
  <2>3. caller \in Callers
    BY <1>4
  <2>4. \A moved : moved = [caller EXCEPT !.next = next, !.step = "notify"] =>
          /\ moved \in Callers /\ moved.op = caller.op /\ moved.arg = caller.arg
          /\ moved.stage = caller.stage /\ moved.next = next /\ moved.step = "notify"
    BY <2>3, CallerMoves
  <2>5. QED
    BY <2>1, <2>2, <2>4
<1> DEFINE n == Len(futures)
<1>6. /\ Len(futures') = n + 1 /\ DOMAIN futures' = 1..n + 1 /\ futures' \in Seq(Futures)
      /\ futures'[n + 1] = Pending /\ \A i \in 1..n : futures'[i] = futures[i]
  <2>1. futures \in Seq(Futures) /\ Pending \in Futures
    BY <1>2, PendingType DEF TypeInv
  <2>2. QED
    BY <1>1, <2>1, P!AppendShape, SameConstants
<1>7. Collected' = Collected
  <2>1. caller'.next - Len(futures') = caller.next - Len(futures)
    <3>1. ASSUME NEW a \in Nat, NEW b \in Nat PROVE (a + 1) - (b + 1) = a - b
      OBVIOUS
    <3>2. QED
      BY <1>4, <1>5, <1>6, <3>1
  <2>2. QED
    BY <2>1 DEF Collected
<1>8. /\ Tasks' = Tasks /\ LastStage' = LastStage /\ Searching'
      /\ \A i : Task(i)' = Task(i) /\ Finds(Task(i))' = Finds(Task(i))
  BY <1>1, <1>3, <1>5, <1>7, SameTasks
<1>9. NextTask = Task(n + 1)
  <2>1. caller.next + 1 = Collected + (n + 1)
    BY <1>4
  <2>2. QED
    BY <2>1 DEF NextTask, Task
<1>10. NextTask \in TaskSet /\ NextTask # Stale /\ NextTask.slot = n + 1
  <2>1. n + 1 \in Nat /\ Collected + (n + 1) \in 1..Len(Tasks)
    BY <1>4
  <2>2. QED
    BY <1>3, <1>4, <1>9, <2>1, TaskFacts, TaskType
<1>11. /\ Len(queue) \in Nat /\ Len(queue') = Len(queue) + 1 /\ queue' \in Seq(TaskSet)
       /\ DOMAIN queue = 1..Len(queue) /\ DOMAIN queue' = 1..Len(queue) + 1
       /\ queue'[Len(queue) + 1] = NextTask /\ \A j \in 1..Len(queue) : queue'[j] = queue[j]
  <2>1. queue \in Seq(TaskSet)
    BY <1>2 DEF TypeInv
  <2>2. QED
    BY <1>1, <1>10, <2>1, P!AppendShape, SameConstants
<1>12. TypeInv'
  <2>1. /\ caller'.op \in {"get", "write"} => caller'.arg[1] \in Keys
        /\ caller'.op = "get" => caller'.arg = <<caller'.arg[1], caller'.arg[1]>>
    BY <1>2, <1>5 DEF TypeInv
  <2>2. merged' \in Findings
    BY <1>1, <1>2 DEF TypeInv
  <2>3. worker' \in [Workers -> [is : {"awake", "waiting", "running", "gone"}, task : TaskSet]]
    BY <1>1, <1>2 DEF TypeInv
  <2>4. QED
    BY <1>5, <1>6, <1>11, <2>1, <2>2, <2>3 DEF TypeInv, Findings
<1>13. CallerInv'
  <2>1. caller'.stage <= LastStage'
    BY <1>2, <1>3, <1>5, <1>8 DEF CallerInv
  <2>2. Len(futures') <= caller'.next /\ caller'.next <= Len(Tasks')
    BY <1>4, <1>5, <1>6, <1>8
  <2>3. caller'.op # "get" => Len(futures') = caller'.next
    <3>1. caller.op # "get" => Len(futures) = caller.next
      BY <1>2, <1>3 DEF CallerInv
    <3>2. QED
      BY <1>5, <1>6, <3>1
  <2>4. answer' = NoAnswer
    BY <1>1, <1>2, <1>3 DEF CallerInv
  <2>5. QED
    BY <1>5, <1>8, <2>1, <2>2, <2>3, <2>4 DEF CallerInv, NoAnswer, Nothing
<1>14. FuturesInv'
  <2>1. ASSUME NEW i \in 1..n
        PROVE  \/ futures'[i] = Pending
               \/ \E found \in Finds(Task(i))' : futures'[i] = [ready |-> TRUE, found |-> found]
    <3>1. i \in DOMAIN futures /\ futures'[i] = futures[i]
      BY <1>4, <1>6
    <3>2. \/ futures[i] = Pending
          \/ \E found \in Finds(Task(i)) : futures[i] = [ready |-> TRUE, found |-> found]
      BY Zenon, <1>2, <3>1 DEF FuturesInv
    <3>3. Finds(Task(i))' = Finds(Task(i))
      BY <1>8
    <3>4. QED
      BY Zenon, <3>1, <3>2, <3>3
  <2>2. \A i \in 1..n + 1 : i \in 1..n \/ i = n + 1
    BY <1>4
  <2>3. QED
    BY <1>6, <2>1, <2>2 DEF FuturesInv, Pending
<1> DEFINE awaits(task) == \E i \in DOMAIN futures' : task = Task(i)' /\ futures'[i] = Pending
<1>15. \A task : Awaited(task) => awaits(task)
  BY <1>4, <1>6, <1>8 DEF Awaited
<1>16. awaits(NextTask)
  BY <1>4, <1>6, <1>8, <1>9
<1>17. \A task : Awaited(task) => task # NextTask
  <2>1. ASSUME NEW task, Awaited(task) PROVE task.slot # n + 1
    <3>1. PICK i \in 1..n : task = Task(i)
      BY <1>4, <2>1 DEF Awaited
    <3>2. task.slot = i
      BY <1>3, <3>1, TaskFacts
    <3>3. QED
      BY <1>4, <3>2
  <2>2. QED
    BY <1>10, <2>1
<1>18. PoolInv'
  <2> HIDE DEF awaits
  <2>1. ASSUME NEW j \in DOMAIN queue'
        PROVE  (j \in DOMAIN queue /\ queue'[j] = queue[j]) \/ (j = Len(queue) + 1 /\ queue'[j] = NextTask)
    <3>1. j \in 1..Len(queue) \/ j = Len(queue) + 1
      BY <1>11
    <3>2. QED
      BY <1>11, <3>1
  <2>2. \A j \in DOMAIN queue' : queue'[j] # Stale => awaits(queue'[j])
    <3>1. ASSUME NEW j \in DOMAIN queue', queue'[j] # Stale PROVE awaits(queue'[j])
      <4>1. CASE j \in DOMAIN queue /\ queue'[j] = queue[j]
        <5>1. Awaited(queue[j])
          BY <1>2, <3>1, <4>1 DEF PoolInv
        <5>2. QED
          BY <1>15, <4>1, <5>1
      <4>2. CASE queue'[j] = NextTask
        BY <1>16, <4>2
      <4>3. QED
        BY <2>1, <4>1, <4>2
    <3>2. QED
      BY <3>1
  <2>3. \A w \in Workers : worker'[w].task # Stale => worker'[w].is = "running" /\ awaits(worker'[w].task)
    <3>1. ASSUME NEW w \in Workers, worker[w].task # Stale
          PROVE  worker[w].is = "running" /\ awaits(worker[w].task)
      <4>1. worker[w].is = "running" /\ Awaited(worker[w].task)
        BY <1>2, <3>1 DEF PoolInv
      <4>2. QED
        BY <1>15, <4>1
    <3>2. QED
      BY <1>1, <3>1
  <2>4. \A j \in DOMAIN queue : queue[j] # NextTask
    BY <1>2, <1>10, <1>17 DEF PoolInv
  <2>5. \A w \in Workers : worker[w].task # NextTask
    BY <1>2, <1>10, <1>17 DEF PoolInv
  <2>6. \A j, m \in DOMAIN queue' : queue'[j] = queue'[m] /\ queue'[j] # Stale => j = m
    <3>1. ASSUME NEW j \in DOMAIN queue', NEW m \in DOMAIN queue', queue'[j] = queue'[m], queue'[j] # Stale
          PROVE  j = m
      <4>1. CASE j \in DOMAIN queue /\ m \in DOMAIN queue
        <5>1. queue'[j] = queue[j] /\ queue'[m] = queue[m]
          BY <1>11, <4>1
        <5>2. QED
          BY <1>2, <3>1, <4>1, <5>1 DEF PoolInv
      <4>2. CASE j \notin DOMAIN queue \/ m \notin DOMAIN queue
        <5>1. queue'[j] = NextTask
          BY <2>1, <3>1, <4>2
        <5>2. j \notin DOMAIN queue
          BY <1>11, <2>4, <5>1
        <5>3. m \notin DOMAIN queue
          BY <1>11, <2>4, <3>1, <5>1
        <5>4. QED
          BY <2>1, <5>2, <5>3
      <4>3. QED
        BY <4>1, <4>2
    <3>2. QED
      BY <3>1
  <2>7. \A v, w \in Workers : worker'[v].task = worker'[w].task /\ worker'[v].task # Stale => v = w
    BY <1>1, <1>2 DEF PoolInv
  <2>8. \A j \in DOMAIN queue', w \in Workers : queue'[j] = worker'[w].task => queue'[j] = Stale
    <3>1. ASSUME NEW j \in DOMAIN queue', NEW w \in Workers, queue'[j] = worker[w].task
          PROVE  queue'[j] = Stale
      <4>1. CASE j \in DOMAIN queue /\ queue'[j] = queue[j]
        BY <1>2, <3>1, <4>1 DEF PoolInv
      <4>2. CASE queue'[j] = NextTask
        BY <2>5, <3>1, <4>2
      <4>3. QED
        BY <2>1, <4>1, <4>2
    <3>2. QED
      BY <1>1, <3>1
  <2>9. QED
    BY <2>2, <2>3, <2>6, <2>7, <2>8 DEF PoolInv, Awaited, awaits, Pending, Nothing, Stale
<1>19. DrainInv'
  <2>1. \A j, m \in DOMAIN queue' : j < m /\ queue'[m] = Stale => queue'[j] = Stale
    <3>1. ASSUME NEW j \in DOMAIN queue', NEW m \in DOMAIN queue', j < m, queue'[m] = Stale
          PROVE  queue'[j] = Stale
      <4>1. m \in DOMAIN queue
        BY <1>10, <1>11, <3>1
      <4>2. j \in DOMAIN queue
        BY <1>11, <3>1, <4>1
      <4>3. queue[m] = Stale => queue[j] = Stale
        BY <1>2, <3>1, <4>1, <4>2 DEF DrainInv
      <4>4. QED
        BY <1>11, <3>1, <4>1, <4>2, <4>3
    <3>2. QED
      BY <3>1
  <2>2. ASSUME Fresh PROVE \A j \in DOMAIN queue' : queue'[j] # Stale
    BY <1>10, <1>11, <2>2 DEF Fresh
  <2>3. \A i \in DOMAIN futures' : futures'[i].ready => i \in DOMAIN futures /\ futures[i].ready
    <3>1. ASSUME NEW i \in 1..n + 1, futures'[i].ready PROVE i \in 1..n /\ futures[i].ready
      <4>1. i # n + 1
        BY <1>6, <3>1, PendingType
      <4>2. i \in 1..n
        BY <1>4, <4>1
      <4>3. QED
        BY <1>6, <3>1, <4>2
    <3>2. QED
      BY <1>4, <1>6, <3>1
  <2>4. ASSUME \/ \E w \in Workers : worker'[w].task # Stale
               \/ \E i \in DOMAIN futures' : futures'[i].ready
               \/ caller'.op = "write" /\ caller'.stage > 0
        PROVE  Fresh
    BY <1>1, <1>2, <1>5, <2>3, <2>4 DEF DrainInv
  <2>5. QED
    BY <2>1, <2>2, <2>4 DEF DrainInv, Fresh, Stale
<1>20. SearchedInv' /\ MergedInv'
  BY <1>1, <1>2, <1>5, <1>7, CollectedSame
<1>21. SearchesAreSequential'
  BY <1>1, <1>2, AnswerSame
<1>22. QED
  BY <1>12, <1>13, <1>14, <1>18, <1>19, <1>20, <1>21 DEF SearchInv

\* A thread that waits may be woken, and the caller goes on or collects.
LEMMA NotifyStep ==
  ASSUME T!TypeOK, SearchInv, Notify
  PROVE  SearchInv'
<1>1. /\ caller.step = "notify" /\ store' = store /\ levels' = levels /\ merged' = merged
      /\ queue' = queue /\ futures' = futures /\ answer' = answer
      /\ caller' = [caller EXCEPT !.step = IF BatchQueued THEN "collect" ELSE "enqueue"]
      /\ worker' = worker \/ \E w \in Waiting : worker' = [worker EXCEPT ![w] = Doing("awake")]
  BY DEF Notify, treeVars
<1>2. /\ TypeInv /\ CallerInv /\ FuturesInv /\ PoolInv /\ DrainInv /\ SearchedInv /\ MergedInv
      /\ SearchesAreSequential
  BY DEF SearchInv
<1>3. Searching
  BY <1>1, <1>2 DEF CallerInv
<1>4. /\ caller \in Callers /\ caller.next \in Nat
      /\ Len(futures) \in Nat /\ Len(Tasks) \in Nat /\ caller.next <= Len(Tasks)
  BY <1>2, <1>3, SearchFacts
<1>5. /\ caller' \in Callers /\ caller'.op = caller.op /\ caller'.arg = caller.arg
      /\ caller'.stage = caller.stage /\ caller'.next = caller.next
      /\ caller'.step = IF BatchQueued THEN "collect" ELSE "enqueue"
  <2>1. PICK step \in {"enqueue", "collect"} : step = IF BatchQueued THEN "collect" ELSE "enqueue"
    OBVIOUS
  <2>2. caller' = [caller EXCEPT !.step = step]
    BY <1>1, <2>1
  <2>3. QED
    BY <1>4, <2>1, <2>2 DEF Callers
<1>6. Collected' = Collected
  BY <1>1, <1>5 DEF Collected
<1>7. /\ Tasks' = Tasks /\ LastStage' = LastStage /\ Searching'
      /\ \A i : Task(i)' = Task(i) /\ Finds(Task(i))' = Finds(Task(i))
  BY <1>1, <1>3, <1>5, <1>6, SameTasks
<1>8. /\ worker' \in [Workers -> [is : {"awake", "waiting", "running", "gone"}, task : TaskSet]]
      /\ \A w \in Workers : /\ worker'[w].task = worker[w].task
                            /\ worker[w].is = "running" => worker'[w].is = "running"
  <2>1. worker \in [Workers -> [is : {"awake", "waiting", "running", "gone"}, task : TaskSet]]
    BY <1>2 DEF TypeInv
  <2>2. CASE worker' = worker
    BY <2>1, <2>2
  <2>3. CASE \E w \in Waiting : worker' = [worker EXCEPT ![w] = Doing("awake")]
    <3>1. PICK w \in Waiting : worker' = [worker EXCEPT ![w] = Doing("awake")]
      BY <2>3
    <3>2. w \in Workers /\ worker[w].is = "waiting"
      BY DEF Waiting
    <3>3. worker[w].task = Stale
      BY <1>2, <3>2 DEF PoolInv
    <3>4. /\ Doing("awake") \in [is : {"awake", "waiting", "running", "gone"}, task : TaskSet]
          /\ Doing("awake").task = Stale
      BY DEF Doing, TaskSet
    <3>5. \A v \in Workers : worker'[v] = IF v = w THEN Doing("awake") ELSE worker[v]
      BY <2>1, <3>1
    <3>6. worker' \in [Workers -> [is : {"awake", "waiting", "running", "gone"}, task : TaskSet]]
      BY <2>1, <3>1, <3>2, <3>4
    <3>7. QED
      BY <3>2, <3>3, <3>4, <3>5, <3>6
  <2>4. QED
    BY <1>1, <2>2, <2>3
<1>9. TypeInv'
  <2>1. /\ caller'.op \in {"get", "write"} => caller'.arg[1] \in Keys
        /\ caller'.op = "get" => caller'.arg = <<caller'.arg[1], caller'.arg[1]>>
    BY <1>2, <1>5 DEF TypeInv
  <2>2. futures' \in Seq(Futures) /\ merged' \in Findings /\ queue' \in Seq(TaskSet)
    BY <1>1, <1>2 DEF TypeInv
  <2>3. QED
    BY <1>5, <1>8, <2>1, <2>2 DEF TypeInv
<1>10. CallerInv'
  <2>1. caller'.stage <= LastStage'
    BY <1>2, <1>3, <1>5, <1>7 DEF CallerInv
  <2>2. Len(futures') <= caller'.next /\ caller'.next <= Len(Tasks')
    BY <1>1, <1>2, <1>3, <1>5, <1>7 DEF CallerInv
  <2>3. caller'.op # "get" => Len(futures') = caller'.next
    BY <1>1, <1>2, <1>3, <1>5 DEF CallerInv
  <2>4. answer' = NoAnswer
    BY <1>1, <1>2, <1>3 DEF CallerInv
  <2>5. caller'.step = "enqueue" => caller'.next < Len(Tasks')
    BY <1>4, <1>5, <1>7 DEF BatchQueued
  <2>6. caller'.op # "get" /\ caller'.step = "collect" => caller'.next = Len(Tasks')
    BY <1>4, <1>5, <1>7 DEF BatchQueued
  <2>7. caller'.step \in {"enqueue", "notify", "collect"}
    BY <1>5
  <2>8. QED
    BY <1>7, <2>1, <2>2, <2>3, <2>4, <2>5, <2>6, <2>7 DEF CallerInv, NoAnswer, Nothing
<1>11. FuturesInv'
  BY <1>1, <1>2, <1>7 DEF FuturesInv, Pending, Nothing
<1>12. PoolInv'
  <2>1. \A task : Awaited(task) => \E i \in DOMAIN futures' : task = Task(i)' /\ futures'[i] = Pending
    BY <1>1, <1>7 DEF Awaited
  <2>2. \A j \in DOMAIN queue : queue[j] # Stale =>
          \E i \in DOMAIN futures' : queue[j] = Task(i)' /\ futures'[i] = Pending
    BY <1>2, <2>1 DEF PoolInv
  <2>3. \A w \in Workers : worker[w].task # Stale =>
          /\ worker[w].is = "running"
          /\ \E i \in DOMAIN futures' : worker[w].task = Task(i)' /\ futures'[i] = Pending
    BY <1>2, <2>1 DEF PoolInv
  <2>4. /\ \A j, m \in DOMAIN queue : queue[j] = queue[m] /\ queue[j] # Stale => j = m
        /\ \A v, w \in Workers : worker[v].task = worker[w].task /\ worker[v].task # Stale => v = w
        /\ \A j \in DOMAIN queue, w \in Workers : queue[j] = worker[w].task => queue[j] = Stale
    BY <1>2 DEF PoolInv
  <2>5. QED
    BY <1>1, <1>8, <2>2, <2>3, <2>4 DEF PoolInv, Awaited, Pending, Nothing, Stale
<1>13. DrainInv'
  BY <1>1, <1>2, <1>5, <1>8 DEF DrainInv, Fresh, Stale
<1>14. SearchedInv' /\ MergedInv'
  BY <1>1, <1>2, <1>5, <1>6, CollectedSame
<1>15. SearchesAreSequential'
  BY <1>1, <1>2, AnswerSame
<1>16. QED
  BY <1>9, <1>10, <1>11, <1>12, <1>13, <1>14, <1>15 DEF SearchInv
-----------------------------------------------------------------------------
(* The threads of the pool *)

\* A step of a thread leaves what is about the caller.
LEMMA CallerSame ==
  ASSUME store' = store, levels' = levels, caller' = caller, merged' = merged, answer' = answer,
         futures' = futures \/ (Searching /\ Len(futures') = Len(futures)), SearchInv
  PROVE  /\ CallerInv' /\ SearchedInv' /\ MergedInv' /\ SearchesAreSequential'
         /\ Tasks' = Tasks /\ Searching' = Searching
         /\ \A i : Task(i)' = Task(i) /\ Finds(Task(i))' = Finds(Task(i))
<1>1. Collected' = Collected /\ Len(futures') = Len(futures)
  BY DEF Collected
<1>2. /\ Tasks' = Tasks /\ LastStage' = LastStage /\ Searching' = Searching
      /\ \A i : Task(i)' = Task(i) /\ Finds(Task(i))' = Finds(Task(i))
  BY <1>1, SameTasks
<1>3. SearchedInv' /\ MergedInv'
  BY <1>1, CollectedSame DEF SearchInv
<1>4. SearchesAreSequential'
  BY AnswerSame DEF SearchInv
<1>5. CallerInv'
  <2>1. CallerInv
    BY DEF SearchInv
  <2>2. CASE Searching
    BY <1>1, <1>2, <2>1, <2>2 DEF CallerInv, NoAnswer, Nothing
  <2>3. CASE ~Searching
    BY <1>2, <2>1, <2>3 DEF CallerInv, NoAnswer, Nothing, Idle
  <2>4. QED
    BY <2>2, <2>3
<1>6. QED
  BY <1>2, <1>3, <1>4, <1>5

\* A thread takes a task, waits or leaves.
LEMMA TakeStep ==
  ASSUME T!TypeOK, SearchInv, NEW w \in Workers, TakeOrWait(w)
  PROVE  SearchInv'
<1>1. /\ worker[w].is = "awake" /\ store' = store /\ levels' = levels /\ caller' = caller
      /\ futures' = futures /\ merged' = merged /\ answer' = answer
      /\ \/ /\ queue # <<>> /\ queue' = Tail(queue)
            /\ worker' = [worker EXCEPT ![w] = [is |-> "running", task |-> Head(queue)]]
         \/ /\ queue' = queue
            /\ \E is \in {"gone", "waiting"} : worker' = [worker EXCEPT ![w] = Doing(is)]
  BY DEF TakeOrWait, treeVars
<1>2. /\ TypeInv /\ FuturesInv /\ PoolInv /\ DrainInv
      /\ worker \in [Workers -> [is : {"awake", "waiting", "running", "gone"}, task : TaskSet]]
      /\ queue \in Seq(TaskSet)
  BY DEF SearchInv, TypeInv
<1>3. /\ CallerInv' /\ SearchedInv' /\ MergedInv' /\ SearchesAreSequential'
      /\ \A i : Task(i)' = Task(i) /\ Finds(Task(i))' = Finds(Task(i))
  BY <1>1, CallerSame
<1>4. FuturesInv'
  BY <1>1, <1>2, <1>3 DEF FuturesInv, Pending, Nothing
<1>5. \A task : Awaited(task) => \E i \in DOMAIN futures' : task = Task(i)' /\ futures'[i] = Pending
  BY <1>1, <1>3 DEF Awaited
<1> DEFINE awaits(task) == \E i \in DOMAIN futures' : task = Task(i)' /\ futures'[i] = Pending
<1>6. worker[w].task = Stale
  BY <1>1, <1>2 DEF PoolInv
\* What the queue and the threads have is what they had: a task moved at most.
<1>7. CASE /\ queue # <<>> /\ queue' = Tail(queue)
           /\ worker' = [worker EXCEPT ![w] = [is |-> "running", task |-> Head(queue)]]
  <2>1. /\ Len(queue) \in Nat /\ 1 \in DOMAIN queue /\ Head(queue) = queue[1] /\ queue[1] \in TaskSet
        /\ queue' \in Seq(TaskSet)
        /\ \A j \in DOMAIN queue' : j \in Nat /\ j + 1 \in DOMAIN queue /\ queue'[j] = queue[j + 1]
    BY <1>2, <1>7
  <2>2. PICK head \in TaskSet : head = queue[1]
    BY <2>1
  <2>3. /\ worker' \in [Workers -> [is : {"awake", "waiting", "running", "gone"}, task : TaskSet]]
        /\ worker'[w].is = "running" /\ worker'[w].task = queue[1]
        /\ \A v \in Workers : v # w => worker'[v] = worker[v]
    <3>1. worker' = [worker EXCEPT ![w] = [is |-> "running", task |-> head]]
      BY <1>7, <2>1, <2>2
    <3>2. [is |-> "running", task |-> head] \in [is : {"awake", "waiting", "running", "gone"}, task : TaskSet]
      OBVIOUS
    <3>3. /\ worker' \in [Workers -> [is : {"awake", "waiting", "running", "gone"}, task : TaskSet]]
          /\ worker'[w] = [is |-> "running", task |-> head]
          /\ \A v \in Workers : v # w => worker'[v] = worker[v]
      BY <1>2, <3>1, <3>2
    <3>4. QED
      BY <2>2, <3>3
  <2>4. TypeInv'
    BY <1>1, <1>2, <2>1, <2>3 DEF TypeInv
  <2>5. PoolInv'
    <3>1. /\ \A j \in DOMAIN queue : queue[j] # Stale => awaits(queue[j])
          /\ \A v \in Workers : worker[v].task # Stale => worker[v].is = "running" /\ awaits(worker[v].task)
      BY <1>2, <1>5 DEF PoolInv
    <3>2. /\ \A j, m \in DOMAIN queue : queue[j] = queue[m] /\ queue[j] # Stale => j = m
          /\ \A u, v \in Workers : worker[u].task = worker[v].task /\ worker[u].task # Stale => u = v
          /\ \A j \in DOMAIN queue, v \in Workers : queue[j] = worker[v].task => queue[j] = Stale
      BY <1>2 DEF PoolInv
    <3> HIDE DEF awaits
    <3>3. \A j \in DOMAIN queue' : queue'[j] # Stale => awaits(queue'[j])
      BY <2>1, <3>1
    <3>4. \A v \in Workers : worker'[v].task # Stale => worker'[v].is = "running" /\ awaits(worker'[v].task)
      BY <2>1, <2>3, <3>1
    <3>5. \A j, m \in DOMAIN queue' : queue'[j] = queue'[m] /\ queue'[j] # Stale => j = m
      <4>1. ASSUME NEW j \in DOMAIN queue', NEW m \in DOMAIN queue', queue'[j] = queue'[m], queue'[j] # Stale
            PROVE  j = m
        <5>1. j \in Nat /\ m \in Nat
          BY <2>1
        <5>2. j + 1 = m + 1
          BY <2>1, <3>2, <4>1
        <5>3. QED
          BY <5>1, <5>2
      <4>2. QED
        BY <4>1
    <3>6. \A u, v \in Workers : worker'[u].task = worker'[v].task /\ worker'[u].task # Stale => u = v
      <4>1. ASSUME NEW v \in Workers, v # w, worker'[v].task = worker'[w].task
            PROVE  worker'[v].task = Stale
        <5>1. queue[1] = worker[v].task
          BY <2>3, <4>1
        <5>2. queue[1] = Stale
          BY <2>1, <3>2, <5>1
        <5>3. QED
          BY <2>3, <4>1, <5>2
      <4>2. ASSUME NEW u \in Workers, NEW v \in Workers, u # w, v # w,
                   worker'[u].task = worker'[v].task, worker'[u].task # Stale
            PROVE  u = v
        <5>1. worker'[u] = worker[u] /\ worker'[v] = worker[v]
          BY <2>3, <4>2
        <5>2. QED
          BY <3>2, <4>2, <5>1
      <4>3. QED
        BY <4>1, <4>2
    <3>7. \A j \in DOMAIN queue', v \in Workers : queue'[j] = worker'[v].task => queue'[j] = Stale
      <4>1. ASSUME NEW j \in DOMAIN queue', NEW v \in Workers, queue'[j] = worker'[v].task, queue'[j] # Stale
            PROVE  FALSE
        <5>1. CASE v = w
          <6>1. queue[j + 1] = queue[1] /\ queue[j + 1] # Stale
            BY <2>1, <2>3, <4>1, <5>1
          <6>2. j + 1 = 1 /\ j \in DOMAIN queue'
            BY <2>1, <3>2, <6>1
          <6>3. j # 0
            BY <1>2, <1>7
          <6>4. QED
            BY <2>1, <6>2, <6>3
        <5>2. CASE v # w
          BY <2>1, <2>3, <3>2, <4>1, <5>2
        <5>3. QED
          BY <5>1, <5>2
      <4>2. QED
        BY <4>1
    <3>8. QED
      BY <3>3, <3>4, <3>5, <3>6, <3>7 DEF PoolInv, Awaited, awaits, Pending, Nothing, Stale
  <2>6. DrainInv'
    <3>1. \A j, m \in DOMAIN queue : j < m /\ queue[m] = Stale => queue[j] = Stale
      BY <1>2 DEF DrainInv
    <3>2. \A j, m \in DOMAIN queue' : j < m /\ queue'[m] = Stale => queue'[j] = Stale
      <4>1. ASSUME NEW j \in DOMAIN queue', NEW m \in DOMAIN queue', j < m, queue'[m] = Stale
            PROVE  queue'[j] = Stale
        <5>1. j + 1 < m + 1
          BY <2>1, <4>1
        <5>2. QED
          BY <2>1, <3>1, <4>1, <5>1
      <4>2. QED
        BY <4>1
    <3>3. Fresh => \A j \in DOMAIN queue' : queue'[j] # Stale
      BY <2>1 DEF Fresh
    <3>4. ASSUME queue[1] # Stale PROVE \A j \in DOMAIN queue' : queue'[j] # Stale
      <4>1. ASSUME NEW j \in DOMAIN queue', queue'[j] = Stale PROVE FALSE
        <5>1. 1 < j + 1
          <6>1. j \in Nat /\ j # 0
            BY <1>2, <1>7, <2>1
          <6>2. QED
            BY <6>1
        <5>2. QED
          BY <2>1, <3>1, <3>4, <4>1, <5>1
      <4>2. QED
        BY <4>1
    <3>5. (\E v \in Workers : worker'[v].task # Stale) =>
            queue[1] # Stale \/ \E v \in Workers : worker[v].task # Stale
      BY <2>3
    <3>6. ASSUME \/ \E v \in Workers : worker'[v].task # Stale
                 \/ \E i \in DOMAIN futures' : futures'[i].ready
                 \/ caller'.op = "write" /\ caller'.stage > 0
          PROVE  \A j \in DOMAIN queue' : queue'[j] # Stale
      <4>1. CASE queue[1] # Stale
        BY <3>4, <4>1
      <4>2. CASE queue[1] = Stale
        <5>1. Fresh
          BY <1>1, <1>2, <3>5, <3>6, <4>2 DEF DrainInv
        <5>2. QED
          BY <3>3, <5>1
      <4>3. QED
        BY <4>1, <4>2
    <3>7. QED
      BY <3>2, <3>6 DEF DrainInv, Fresh, Stale
  <2>7. QED
    BY <1>3, <1>4, <2>4, <2>5, <2>6 DEF SearchInv
<1>8. CASE queue' = queue /\ \E is \in {"gone", "waiting"} : worker' = [worker EXCEPT ![w] = Doing(is)]
  <2>1. PICK is \in {"gone", "waiting"} : worker' = [worker EXCEPT ![w] = Doing(is)]
    BY <1>8
  <2>2. /\ Doing(is) \in [is : {"awake", "waiting", "running", "gone"}, task : TaskSet]
        /\ Doing(is).task = Stale
    BY DEF Doing, TaskSet
  <2>3. /\ worker' \in [Workers -> [is : {"awake", "waiting", "running", "gone"}, task : TaskSet]]
        /\ \A v \in Workers : worker'[v] = IF v = w THEN Doing(is) ELSE worker[v]
    BY <1>2, <2>1, <2>2
  <2>4. \A v \in Workers : /\ worker'[v].task = worker[v].task
                           /\ worker[v].task # Stale => worker'[v] = worker[v]
    BY <1>6, <2>2, <2>3
  <2>5. TypeInv'
    BY <1>1, <1>2, <1>8, <2>3 DEF TypeInv
  <2>6. PoolInv'
    <3>1. /\ \A j \in DOMAIN queue : queue[j] # Stale => awaits(queue[j])
          /\ \A v \in Workers : worker[v].task # Stale => worker[v].is = "running" /\ awaits(worker[v].task)
      BY <1>2, <1>5 DEF PoolInv
    <3>2. /\ \A j, m \in DOMAIN queue : queue[j] = queue[m] /\ queue[j] # Stale => j = m
          /\ \A u, v \in Workers : worker[u].task = worker[v].task /\ worker[u].task # Stale => u = v
          /\ \A j \in DOMAIN queue, v \in Workers : queue[j] = worker[v].task => queue[j] = Stale
      BY <1>2 DEF PoolInv
    <3> HIDE DEF awaits
    <3>3. \A v \in Workers : worker'[v].task # Stale => worker'[v].is = "running" /\ awaits(worker'[v].task)
      BY <2>4, <3>1
    <3>4. QED
      BY <1>8, <2>4, <3>1, <3>2, <3>3 DEF PoolInv, Awaited, awaits, Pending, Nothing, Stale
  <2>7. DrainInv'
    BY <1>1, <1>2, <1>8, <2>4 DEF DrainInv, Fresh, Stale
  <2>8. QED
    BY <1>3, <1>4, <2>5, <2>6, <2>7 DEF SearchInv
<1>9. QED
  BY <1>1, <1>7, <1>8

\* Where the tasks of a search look.
LEMMA TaskPlaces ==
  ASSUME T!TypeOK, TypeInv, CallerInv, Searching
  PROVE  /\ caller.op \in {"get", "range"} /\ caller.stage = 0 =>
              /\ Len(Tasks) = Len(Chunks)
              /\ \A n \in 1..Len(Tasks) : Tasks[n][1] = 0 /\ Tasks[n][2] = n
         /\ caller.stage > 0 =>
              \A n \in 1..Len(Tasks) : Tasks[n] \in T!Positions /\ Tasks[n][1] \in 1..Len(levels)
         /\ \A i \in DOMAIN futures : Collected + i \in 1..Len(Tasks)
         /\ \A i \in DOMAIN futures : Finds(Task(i)) \subseteq Findings
<1>1. /\ caller.stage \in Nat /\ Len(futures) \in Nat /\ DOMAIN futures = 1..Len(futures)
      /\ Collected \in Nat /\ Collected + Len(futures) = caller.next
      /\ Len(Tasks) \in Nat /\ caller.next <= Len(Tasks) /\ caller.next \in Nat
  BY SearchFacts
<1>2. ASSUME caller.op \in {"get", "range"}, caller.stage = 0
      PROVE  /\ Len(Tasks) = Len(Chunks)
             /\ \A n \in 1..Len(Tasks) : Tasks[n][1] = 0 /\ Tasks[n][2] = n
  <2>1. Tasks = Chunks
    BY <1>2, TasksByStage DEF Tasks
  <2>2. \A n \in 1..Len(Chunks) : Chunks[n] = <<0, n>>
    BY ChunksShape
  <2>3. \A n \in 1..Len(Chunks) : Chunks[n][1] = 0 /\ Chunks[n][2] = n
    BY <2>2
  <2>4. QED
    BY <2>1, <2>3
<1>3. ASSUME caller.stage > 0
      PROVE  \A n \in 1..Len(Tasks) : Tasks[n] \in T!Positions /\ Tasks[n][1] \in 1..Len(levels)
  <2>1. \A n \in 1..Len(Tasks) : Tasks[n] \in T!Positions
    BY <1>1, <1>3, TasksShape DEF Tasks
  <2>2. QED
    BY <2>1, TreeFacts
<1>4. \A i \in DOMAIN futures : Collected + i \in 1..Len(Tasks)
  <2>1. ASSUME NEW i \in 1..Len(futures) PROVE Collected + i \in 1..Len(Tasks)
    BY <1>1
  <2>2. QED
    BY <1>1, <2>1
<1>5. ASSUME NEW i \in DOMAIN futures PROVE Finds(Task(i)) \subseteq Findings
  <2>1. Task(i).op = caller.op /\ Task(i).at = Tasks[Collected + i] /\ caller.op \in {"get", "range", "write"}
    BY TaskFacts DEF Searching
  <2>2. PICK n \in 1..Len(Tasks) : n = Collected + i
    BY <1>4
  <2>3. CASE caller.op = "write"
    BY <2>1, <2>3, FindsOfWrite, NothingType
  <2>4. CASE caller.op # "write" /\ caller.stage = 0
    <3>1. Task(i).at[1] = 0 /\ Task(i).at[2] \in Nat
      BY <1>1, <1>2, <2>1, <2>2, <2>4
    <3>2. QED
      BY <2>1, <3>1, FindsType
  <2>5. CASE caller.op # "write" /\ caller.stage > 0
    <3>1. Task(i).at \in T!Positions /\ Task(i).at[1] \in 1..Len(levels)
      BY <1>3, <2>1, <2>2, <2>5
    <3>2. Task(i).at[1] # 0
      BY <3>1, TreeFacts
    <3>3. QED
      BY <2>1, <3>1, <3>2, FindsType
  <2>6. QED
    BY <1>1, <2>3, <2>4, <2>5
<1>6. QED
  BY <1>2, <1>3, <1>4, <1>5

\* A thread runs its task; the result of an abandoned one goes nowhere.
LEMMA RunStep ==
  ASSUME T!TypeOK, SearchInv, NEW w \in Workers, Run(w)
  PROVE  SearchInv'
<1> DEFINE task == worker[w].task
<1>1. /\ store' = store /\ levels' = levels /\ caller' = caller /\ merged' = merged
      /\ answer' = answer /\ queue' = queue
      /\ worker' = [worker EXCEPT ![w] = Doing("awake")]
      /\ task = Stale => futures' = futures
      /\ task # Stale => \E found \in Finds(task) :
                           futures' = [futures EXCEPT ![task.slot] = [ready |-> TRUE, found |-> found]]
  BY DEF Run, treeVars
<1>2. /\ TypeInv /\ CallerInv /\ FuturesInv /\ PoolInv /\ DrainInv
      /\ worker \in [Workers -> [is : {"awake", "waiting", "running", "gone"}, task : TaskSet]]
      /\ futures \in Seq(Futures)
  BY DEF SearchInv, TypeInv
<1>3. /\ Doing("awake") \in [is : {"awake", "waiting", "running", "gone"}, task : TaskSet]
      /\ Doing("awake").task = Stale
  BY DEF Doing, TaskSet
<1>4. /\ worker' \in [Workers -> [is : {"awake", "waiting", "running", "gone"}, task : TaskSet]]
      /\ worker'[w].task = Stale
      /\ \A v \in Workers : v # w => worker'[v] = worker[v]
  BY <1>1, <1>2, <1>3
\* At most the future of this task has changed.
<1>5. /\ futures' \in Seq(Futures) /\ DOMAIN futures' = DOMAIN futures /\ Len(futures') = Len(futures)
      /\ futures' = futures \/ Searching
      /\ \A i \in DOMAIN futures : futures'[i] = futures[i] \/ (Searching /\ task = Task(i))
      /\ \A i \in DOMAIN futures : \/ futures'[i] = futures[i]
                                   \/ \E found \in Finds(Task(i)) : futures'[i] = [ready |-> TRUE, found |-> found]
  <2>1. CASE task = Stale
    BY <1>1, <1>2, <2>1
  <2>2. CASE task # Stale
    <3>1. PICK i \in DOMAIN futures : task = Task(i) /\ futures[i] = Pending
      BY <1>2, <2>2 DEF PoolInv, Awaited
    <3>2. Searching
      BY <1>2, <3>1 DEF CallerInv
    <3>3. task.slot = i
      BY <3>1, <3>2, TaskFacts
    <3>4. PICK found \in Finds(task) : futures' = [futures EXCEPT ![task.slot] = [ready |-> TRUE, found |-> found]]
      BY <1>1, <2>2
    <3>5. found \in Findings
      BY <1>2, <3>1, <3>2, <3>4, TaskPlaces
    <3>6. futures' = [futures EXCEPT ![i] = [ready |-> TRUE, found |-> found]]
      BY <3>3, <3>4
    <3>7. [ready |-> TRUE, found |-> found] \in Futures
      BY <3>5 DEF Futures
    <3>8. /\ futures' \in Seq(Futures) /\ DOMAIN futures' = DOMAIN futures /\ Len(futures') = Len(futures)
          /\ futures'[i] = [ready |-> TRUE, found |-> found]
          /\ \A j \in DOMAIN futures : j # i => futures'[j] = futures[j]
      <4>1. PICK future \in Futures : future = [ready |-> TRUE, found |-> found]
        BY <3>7
      <4>2. futures' = [futures EXCEPT ![i] = future]
        BY <3>6, <4>1
      <4>3. /\ futures' \in Seq(Futures) /\ DOMAIN futures' = DOMAIN futures /\ Len(futures') = Len(futures)
            /\ futures'[i] = future
            /\ \A j \in DOMAIN futures : j # i => futures'[j] = futures[j]
        BY <1>2, <4>2
      <4>4. QED
        BY <4>1, <4>3
    <3>9. found \in Finds(Task(i))
      BY <3>1, <3>4
    <3>10. QED
      BY <3>1, <3>2, <3>8, <3>9
  <2>3. QED
    BY <2>1, <2>2
<1>6. /\ CallerInv' /\ SearchedInv' /\ MergedInv' /\ SearchesAreSequential'
      /\ \A i : Task(i)' = Task(i) /\ Finds(Task(i))' = Finds(Task(i))
  BY <1>1, <1>5, CallerSame
<1>7. TypeInv'
  BY <1>1, <1>2, <1>4, <1>5 DEF TypeInv
<1>8. FuturesInv'
  BY <1>2, <1>5, <1>6 DEF FuturesInv, Pending, Nothing
<1> DEFINE awaits(t) == \E i \in DOMAIN futures' : t = Task(i)' /\ futures'[i] = Pending
<1>9. \A t : Awaited(t) /\ t # task => awaits(t)
  BY <1>5, <1>6 DEF Awaited
<1>10. /\ \A j, m \in DOMAIN queue : queue[j] = queue[m] /\ queue[j] # Stale => j = m
       /\ \A u, v \in Workers : worker[u].task = worker[v].task /\ worker[u].task # Stale => u = v
       /\ \A j \in DOMAIN queue, v \in Workers : queue[j] = worker[v].task => queue[j] = Stale
       /\ \A j \in DOMAIN queue : queue[j] # Stale => Awaited(queue[j])
       /\ \A v \in Workers : worker[v].task # Stale => worker[v].is = "running" /\ Awaited(worker[v].task)
  BY <1>2 DEF PoolInv
<1>11. PoolInv'
  <2> HIDE DEF awaits
  <2>1. \A j \in DOMAIN queue : queue[j] # Stale => awaits(queue[j])
    BY <1>9, <1>10
  <2>2. \A v \in Workers : worker'[v].task # Stale => worker'[v].is = "running" /\ awaits(worker'[v].task)
    <3>1. ASSUME NEW v \in Workers, worker'[v].task # Stale
          PROVE  worker'[v].is = "running" /\ awaits(worker'[v].task)
      <4>1. v # w /\ worker'[v] = worker[v]
        BY <1>4, <3>1
      <4>2. worker[v].task # task
        BY <1>10, <3>1, <4>1
      <4>3. QED
        BY <1>9, <1>10, <3>1, <4>1, <4>2
    <3>2. QED
      BY <3>1
  <2>3. \A u, v \in Workers : worker'[u].task = worker'[v].task /\ worker'[u].task # Stale => u = v
    <3>1. ASSUME NEW u \in Workers, NEW v \in Workers, worker'[u].task = worker'[v].task, worker'[u].task # Stale
          PROVE  u = v
      <4>1. u # w /\ v # w
        BY <1>4, <3>1
      <4>2. worker'[u] = worker[u] /\ worker'[v] = worker[v]
        BY <1>4, <4>1
      <4>3. QED
        BY <1>10, <3>1, <4>2
    <3>2. QED
      BY <3>1
  <2>4. \A j \in DOMAIN queue, v \in Workers : queue[j] = worker'[v].task => queue[j] = Stale
    BY <1>4, <1>10
  <2>5. QED
    BY <1>1, <1>10, <2>1, <2>2, <2>3, <2>4 DEF PoolInv, Awaited, awaits, Pending, Nothing, Stale
<1>12. DrainInv'
  <2>1. (\E v \in Workers : worker'[v].task # Stale) => \E v \in Workers : worker[v].task # Stale
    BY <1>4
  <2>2. (\E i \in DOMAIN futures' : futures'[i].ready) =>
          (\E i \in DOMAIN futures : futures[i].ready) \/ \E v \in Workers : worker[v].task # Stale
    <3>1. ASSUME NEW i \in DOMAIN futures, futures'[i].ready, ~futures[i].ready
          PROVE  task # Stale
      <4>1. futures'[i] # futures[i]
        BY <3>1
      <4>2. Searching /\ task = Task(i)
        BY <1>5, <4>1
      <4>3. QED
        BY <4>2, TaskFacts
    <3>2. QED
      BY <1>5, <3>1
  <2>3. ASSUME \/ \E v \in Workers : worker'[v].task # Stale
               \/ \E i \in DOMAIN futures' : futures'[i].ready
               \/ caller'.op = "write" /\ caller'.stage > 0
        PROVE  Fresh
    BY <1>1, <1>2, <2>1, <2>2, <2>3 DEF DrainInv
  <2>4. \A j, m \in DOMAIN queue : j < m /\ queue[m] = Stale => queue[j] = Stale
    BY <1>2 DEF DrainInv
  <2>5. QED
    BY <1>1, <2>3, <2>4 DEF DrainInv, Fresh, Stale
<1>13. QED
  BY <1>6, <1>7, <1>8, <1>11, <1>12 DEF SearchInv
-----------------------------------------------------------------------------
(* What a get and a range collect *)

\* A future that is ready has what its task found.
LEMMA ReadyFuture ==
  ASSUME FuturesInv, NEW i \in DOMAIN futures, futures[i].ready
  PROVE  futures[i].found \in Finds(Task(i)) /\ futures[i] = [ready |-> TRUE, found |-> futures[i].found]
<1>1. futures[i] # Pending
  BY PendingType
<1>2. PICK found \in Finds(Task(i)) : futures[i] = [ready |-> TRUE, found |-> found]
  BY <1>1 DEF FuturesInv
<1>3. QED
  BY <1>2

\* A get's key, and the task it waits for in slot i: the result is the key's in
\* that place, or nothing when it is missed there.
LEMMA GetFinds ==
  ASSUME T!TypeOK, TypeInv, CallerInv, FuturesInv, caller.op = "get",
         NEW i \in DOMAIN futures, futures[i].ready,
         NEW k, k = caller.arg[1], NEW n, n = Collected + i
  PROVE  /\ k \in Keys /\ n \in 1..Len(Tasks)
         /\ futures[i].found = Nothing <=> Misses(Tasks[n], k)
         /\ caller.stage = 0 => futures[i].found[k] = InChunk(n, k)
         /\ caller.stage > 0 /\ ~Misses(Tasks[n], k) => futures[i].found[k] = T!RunAt(Tasks[n])[k]
<1>1. Searching /\ k \in Keys /\ k \in Int /\ caller.arg = <<k, k>> /\ Keys \subseteq Int
  BY TreeAssumption DEF Searching, TypeInv
<1>2. n \in 1..Len(Tasks) /\ caller.stage \in Nat
  BY <1>1, TaskPlaces, SearchFacts
<1>3. Within(caller.arg) = {k}
  <2>1. caller.arg[1] = k /\ caller.arg[2] = k
    BY <1>1
  <2>2. \A j \in Keys : (k <= j /\ j <= k) <=> j = k
    BY <1>1
  <2>3. QED
    BY <1>1, <2>1, <2>2 DEF Within
<1>4. /\ Task(i).op = "get" /\ Task(i).arg = caller.arg /\ Task(i).at = Tasks[n]
      /\ futures[i].found \in Finds(Task(i))
  BY <1>1, TaskFacts, ReadyFuture
<1> DEFINE found == futures[i].found
<1>5. CASE caller.stage = 0
  <2>1. Tasks[n][1] = 0 /\ Tasks[n][2] = n
    BY <1>1, <1>2, <1>5, TaskPlaces
  <2>2. found = [j \in Keys |-> IF j \in {k} THEN InChunk(n, j) ELSE None]
    BY <1>3, <1>4, <2>1, FindsInBuffer
  <2> HIDE DEF found
  <2>3. found[k] = InChunk(n, k)
    BY <1>1, <2>2
  <2>4. found = Nothing <=> InChunk(n, k) = None
    <3>1. found = Nothing => InChunk(n, k) = None
      BY <1>1, <2>3, NothingType
    <3>2. InChunk(n, k) = None => \A j \in Keys : (IF j \in {k} THEN InChunk(n, j) ELSE None) = None
      OBVIOUS
    <3>3. InChunk(n, k) = None => found = Nothing
      BY <2>2, <3>2 DEF Nothing
    <3>4. QED
      BY <3>1, <3>3
  <2>5. Misses(Tasks[n], k) <=> InChunk(n, k) = None
    BY <2>1 DEF Misses
  <2>6. QED
    BY <1>1, <1>2, <1>5, <2>3, <2>4, <2>5 DEF found
<1>6. CASE caller.stage > 0
  <2>1. Tasks[n] \in T!Positions /\ Tasks[n][1] # 0
    <3>1. Tasks[n] \in T!Positions /\ Tasks[n][1] \in 1..Len(levels)
      BY <1>1, <1>2, <1>6, TaskPlaces
    <3>2. QED
      BY <3>1, TreeFacts
  <2> DEFINE run == T!RunAt(Tasks[n])
  <2>2. found = [j \in Keys |-> IF j \in {k} /\ ~run[j].del THEN run[j] ELSE None]
    BY <1>3, <1>4, <2>1, FindsInRun
  <2>3. Misses(Tasks[n], k) <=> run[k].del
    BY <2>1 DEF Misses
  <2> HIDE DEF found, run
  <2>4. ~run[k].del => found[k] = run[k] /\ run[k] # None
    BY <1>1, <2>2 DEF None, T!None
  <2>5. ~run[k].del => found # Nothing
    BY <1>1, <2>4, NothingType
  <2>6. run[k].del => found = Nothing
    <3>1. run[k].del => \A j \in Keys : (IF j \in {k} /\ ~run[j].del THEN run[j] ELSE None) = None
      OBVIOUS
    <3>2. QED
      BY <2>2, <3>1 DEF Nothing
  <2>7. QED
    BY <1>1, <1>2, <1>6, <2>3, <2>4, <2>5, <2>6 DEF found, run
<1>7. QED
  BY <1>2, <1>5, <1>6

\* When all futures of a get are ready and none is a hit, it has missed the key
\* wherever a task was queued for.
LEMMA AllMissed ==
  ASSUME T!TypeOK, TypeInv, CallerInv, FuturesInv, SearchedInv, caller.op = "get",
         \A i \in DOMAIN futures : futures[i].ready, Hits = {}
  PROVE  \A n \in 1..caller.next : Misses(Tasks[n], caller.arg[1])
<1>1. /\ Searching /\ Len(futures) \in Nat /\ DOMAIN futures = 1..Len(futures)
      /\ Collected \in Nat /\ Collected + Len(futures) = caller.next /\ caller.next \in Nat
  <2>1. Searching
    BY DEF Searching
  <2>2. QED
    BY <2>1, SearchFacts
<1>2. \A i \in DOMAIN futures : futures[i].found = Nothing
  <2> DEFINE S == {i \in DOMAIN futures : futures[i].found # Nothing}
  <2>1. SUFFICES ASSUME S # {} PROVE FALSE
    OBVIOUS
  <2>2. S \subseteq Nat
    BY <1>1
  <2>3. PICK i \in S : \A j \in S : i <= j
    <3> HIDE DEF S
    <3>1. QED
      BY <2>1, <2>2, P!LeastNat, SameConstants
  <2>4. ASSUME NEW j \in 1..i - 1 PROVE futures[j] = [Pending EXCEPT !.ready = TRUE]
    <3>1. j \in DOMAIN futures /\ futures[j].found = Nothing
      <4>1. i \in 1..Len(futures)
        BY <1>1
      <4>2. j \in 1..Len(futures) /\ ~(i <= j)
        BY <1>1, <4>1
      <4>3. j \notin S
        BY <2>3, <4>2
      <4>4. QED
        BY <1>1, <4>2, <4>3
    <3>2. futures[j] = [ready |-> TRUE, found |-> futures[j].found]
      BY <3>1, ReadyFuture
    <3>3. futures[j] = [ready |-> TRUE, found |-> Nothing]
      BY <3>1, <3>2
    <3>4. QED
      BY <3>3, ReadyNothing
  <2>5. i \in Hits
    BY <2>4 DEF Hits
  <2>6. QED
    BY <2>5
<1>3. ASSUME NEW n \in 1..caller.next PROVE Misses(Tasks[n], caller.arg[1])
  <2>1. CASE n <= Collected
    <3>1. n \in 1..Collected
      BY <1>1, <2>1
    <3>2. QED
      BY <3>1 DEF SearchedInv
  <2>2. CASE n > Collected
    <3>1. PICK i \in DOMAIN futures : n = Collected + i
      <4>1. n - Collected \in 1..Len(futures) /\ n = Collected + (n - Collected)
        BY <1>1, <2>2
      <4>2. QED
        BY <1>1, <4>1
    <3>2. QED
      BY <1>2, <3>1, GetFinds
  <2>3. QED
    BY <1>1, <2>1, <2>2
<1>4. QED
  BY <1>3

\* The stage of a get is over: what it looked at misses the key.
LEMMA StageMissed ==
  ASSUME T!TypeOK, TypeInv, CallerInv, SearchedInv, caller.op = "get", caller.next = Len(Tasks),
         \A n \in 1..caller.next : Misses(Tasks[n], caller.arg[1])
  PROVE  /\ caller.arg[1] \notin T!BufferKeys
         /\ \A p \in T!Positions : p[1] <= caller.stage => T!RunAt(p)[caller.arg[1]].del
<1> DEFINE k == caller.arg[1]
<1>1. Searching /\ k \in Keys
  BY DEF Searching, TypeInv
<1>2. caller.stage \in Nat /\ Len(Tasks) \in Nat
  BY <1>1, SearchFacts
<1>3. CASE caller.stage = 0
  <2>1. \A n \in 1..Len(Chunks) : InChunk(n, k) = None
    <3>1. ASSUME NEW n \in 1..Len(Chunks) PROVE InChunk(n, k) = None
      <4>1. n \in 1..Len(Tasks) /\ Tasks[n][1] = 0 /\ Tasks[n][2] = n
        BY <1>1, <1>3, TaskPlaces
      <4>2. Misses(Tasks[n], k)
        BY <4>1
      <4>3. QED
        BY <4>1, <4>2 DEF Misses
    <3>2. QED
      BY <3>1
  <2>2. k \notin T!BufferKeys
    BY <1>1, <2>1, ChunkSearch
  <2>3. \A p \in T!Positions : ~(p[1] <= caller.stage)
    <3>1. ASSUME NEW p \in T!Positions PROVE ~(p[1] <= 0)
      <4>1. p[1] \in 1..Len(levels)
        BY TreeFacts
      <4>2. QED
        BY <4>1, TreeFacts
    <3>2. QED
      BY <1>3, <3>1
  <2>4. QED
    BY <2>2, <2>3
<1>4. CASE caller.stage > 0
  <2>1. /\ k \notin T!BufferKeys
        /\ \A p \in T!Positions : p[1] < caller.stage => T!RunAt(p)[k].del
    BY <1>4 DEF SearchedInv
  <2>2. Tasks = RunsOf({caller.stage})
    BY <1>2, <1>4, TasksByStage DEF Tasks
  <2>3. ASSUME NEW p \in T!Positions, p[1] = caller.stage PROVE T!RunAt(p)[k].del
    <3>1. PICK n \in 1..Len(Tasks) : Tasks[n] = p
      BY <2>2, <2>3, RunsInSearchOrder
    <3>2. Misses(p, k)
      BY <3>1
    <3>3. p[1] # 0
      BY <1>4, <2>3
    <3>4. QED
      BY <3>2, <3>3 DEF Misses
  <2>4. ASSUME NEW p \in T!Positions, p[1] <= caller.stage PROVE T!RunAt(p)[k].del
    <3>1. p[1] \in Int
      BY TreeFacts
    <3>2. QED
      BY <1>2, <2>1, <2>3, <2>4, <3>1
  <2>5. QED
    BY <2>1, <2>4
<1>5. QED
  BY <1>2, <1>3, <1>4

\* The run a get of one thread takes the key from.
LEMMA FirstLive ==
  ASSUME T!TypeOK, NEW k \in Keys, k \notin T!BufferKeys,
         NEW p \in T!Positions, ~T!RunAt(p)[k].del,
         \A q \in T!Positions : ~T!RunAt(q)[k].del /\ q # p => T!Before(p, q)
  PROVE  T!Get(k) = T!RunAt(p)[k]
<1> DEFINE L == T!LiveHolders(k)
<1>1. p \in L
  BY DEF T!LiveHolders, T!Holders, T!None
<1>2. \A q \in L : q \in T!Positions /\ (q # p => P!Before(p, q))
  BY SameNames DEF T!LiveHolders, T!Holders
<1>3. L \subseteq Nat \X Nat
  <2>1. ASSUME NEW q \in T!Positions PROVE q \in Nat \X Nat
    <3>1. q = <<q[1], q[2]>> /\ q[1] \in 1..Len(levels) /\ q[2] \in 1..Len(levels[q[1]])
      BY TreeFacts
    <3>2. q[1] \in Nat /\ q[2] \in Nat
      BY <3>1
    <3>3. QED
      BY <3>1, <3>2
  <2>2. QED
    BY <1>2, <2>1
<1>4. T!First(L) = p
  <2> HIDE DEF L
  <2>1. P!First(L) = p
    BY <1>1, <1>2, <1>3, P!FirstUnique, SameConstants
  <2>2. QED
    BY <2>1, SameNames
<1>5. L # {}
  BY <1>1
<1>6. QED
  BY <1>4, <1>5 DEF T!Get

\* The result a get returns is what a get of one thread answers.
LEMMA HitIsGet ==
  ASSUME T!TypeOK, TypeInv, CallerInv, FuturesInv, SearchedInv, caller.op = "get", NEW i \in Hits
  PROVE  futures[i].found[caller.arg[1]] = T!Get(caller.arg[1])
<1> DEFINE k == caller.arg[1]
           n == Collected + i
<1>1. /\ Searching /\ Len(futures) \in Nat /\ DOMAIN futures = 1..Len(futures)
      /\ Collected \in Nat /\ caller.stage \in Nat /\ Len(Tasks) \in Nat
  <2>1. Searching
    BY DEF Searching
  <2>2. QED
    BY <2>1, SearchFacts
<1>2. i \in DOMAIN futures /\ futures[i].found # Nothing
      /\ \A j \in 1..i - 1 : futures[j] = [ready |-> TRUE, found |-> Nothing]
  BY ReadyNothing DEF Hits
<1>3. futures[i].ready
  <2>1. futures[i] # Pending
    BY <1>2 DEF Pending
  <2>2. QED
    BY <1>2, <2>1 DEF FuturesInv
<1>4. k \in Keys /\ n \in 1..Len(Tasks) /\ ~Misses(Tasks[n], k)
  BY <1>2, <1>3, GetFinds
<1>5. ASSUME NEW m \in 1..n - 1 PROVE m \in 1..Len(Tasks) /\ Misses(Tasks[m], k)
  <2>1. m \in 1..Len(Tasks)
    BY <1>1, <1>4
  <2>2. CASE m <= Collected
    <3>1. m \in 1..Collected
      BY <1>1, <2>1, <2>2
    <3>2. QED
      BY <2>1, <3>1 DEF SearchedInv
  <2>3. CASE m > Collected
    <3>1. PICK j \in 1..i - 1 : m = Collected + j
      <4>1. i \in Nat
        BY <1>1, <1>2
      <4>2. m - Collected \in 1..i - 1 /\ m = Collected + (m - Collected)
        BY <1>1, <2>1, <2>3, <4>1
      <4>3. QED
        BY <4>2
    <3>2. j \in DOMAIN futures
      BY <1>1, <1>2
    <3>3. futures[j].ready /\ futures[j].found = Nothing
      BY <1>2
    <3>4. Misses(Tasks[m], k)
      BY <3>1, <3>2, <3>3, GetFinds
    <3>5. QED
      BY <2>1, <3>4
  <2>4. QED
    BY <1>1, <2>1, <2>2, <2>3
<1>6. CASE caller.stage = 0
  <2>1. /\ Len(Tasks) = Len(Chunks)
        /\ \A m \in 1..Len(Tasks) : Tasks[m][1] = 0 /\ Tasks[m][2] = m
    BY <1>1, <1>6, TaskPlaces
  <2>2. n \in 1..Len(Chunks) /\ InChunk(n, k) # None
    BY <1>4, <2>1 DEF Misses
  <2>3. \A m \in 1..n - 1 : InChunk(m, k) = None
    BY <1>5, <2>1 DEF Misses
  <2>4. k \in T!BufferKeys /\ InChunk(n, k) = T!CellOf(store[T!LastWrite(k)])
    <3> HIDE DEF n, k
    <3>1. QED
      BY <1>4, <2>2, <2>3, ChunkSearch
  <2>5. futures[i].found[k] = InChunk(n, k)
    BY <1>2, <1>3, <1>6, GetFinds
  <2>6. QED
    BY <2>4, <2>5 DEF T!Get
<1>7. CASE caller.stage > 0
  <2> DEFINE p == Tasks[n]
  <2>1. p \in T!Positions /\ p[1] # 0 /\ p[1] = caller.stage
    <3>1. Tasks = RunsOf({caller.stage})
      BY <1>1, <1>7, TasksByStage DEF Tasks
    <3>2. p \in T!Positions /\ p[1] \in {caller.stage}
      BY <1>4, <3>1, RunsInSearchOrder
    <3>3. QED
      BY <1>7, <3>2
  <2>2. ~T!RunAt(p)[k].del /\ futures[i].found[k] = T!RunAt(p)[k]
    <3>1. ~T!RunAt(p)[k].del
      BY <1>4, <2>1 DEF Misses
    <3>2. futures[i].found[k] = T!RunAt(Tasks[n])[k]
      BY <1>2, <1>3, <1>4, <1>7, GetFinds
    <3>3. QED
      BY <3>1, <3>2
  <2>3. /\ k \notin T!BufferKeys
        /\ \A q \in T!Positions : q[1] < caller.stage => T!RunAt(q)[k].del
    BY <1>7 DEF SearchedInv
  <2>4. ASSUME NEW q \in T!Positions, ~T!RunAt(q)[k].del, q # p PROVE T!Before(p, q)
    <3>1. q[1] \in Int /\ ~(q[1] < caller.stage) /\ p[1] \in Int /\ q[1] # 0
      <4>1. q[1] \in 1..Len(levels) /\ p[1] \in 1..Len(levels)
        BY <2>1, TreeFacts
      <4>2. q[1] # 0
        BY <4>1, TreeFacts
      <4>3. QED
        BY <2>3, <2>4, <4>1, <4>2
    <3>2. CASE q[1] > caller.stage
      BY <1>1, <2>1, <3>1, <3>2 DEF T!Before
    <3>3. CASE q[1] = caller.stage
      <4>1. Tasks = RunsOf({caller.stage})
        BY <1>1, <1>7, TasksByStage DEF Tasks
      <4>2. PICK m \in 1..Len(Tasks) : Tasks[m] = q
        BY <3>3, <4>1, RunsInSearchOrder
      <4>3. m \notin 1..n - 1
        <5>1. ~Misses(q, k)
          BY <2>4, <3>1 DEF Misses
        <5>2. QED
          BY <1>5, <4>2, <5>1
      <4>4. m # n
        BY <2>4, <4>2
      <4>5. n < m
        BY <1>1, <1>4, <4>3, <4>4
      <4>6. QED
        BY <1>4, <4>1, <4>2, <4>5, RunsInSearchOrder
    <3>4. QED
      BY <1>1, <3>1, <3>2, <3>3
  <2>5. T!Get(k) = T!RunAt(p)[k]
    <3> HIDE DEF p, k
    <3>1. QED
      BY <1>4, <2>1, <2>2, <2>3, <2>4, FirstLive
  <2>6. QED
    BY <2>2, <2>5
<1>8. QED
  BY <1>1, <1>6, <1>7

\* What the merge of the collected futures has of a key: what was merged before,
\* or the result of the first future that has the key.
LEMMA MergeFirstAt ==
  ASSUME TypeInv, NEW k \in Keys
  PROVE  /\ merged[k] # None => MergeFirst[k] = merged[k]
         /\ (\A i \in DOMAIN futures : futures[i].found[k] = None) => MergeFirst[k] = merged[k]
         /\ merged[k] = None /\ MergeFirst[k] # None =>
              \E i \in DOMAIN futures : /\ futures[i].found[k] # None
                                        /\ \A j \in 1..i - 1 : futures[j].found[k] = None
                                        /\ MergeFirst[k] = futures[i].found[k]
         /\ merged[k] = None /\ (\E i \in DOMAIN futures : futures[i].found[k] # None) => MergeFirst[k] # None
<1> DEFINE S == {i \in DOMAIN futures : futures[i].found[k] # None}
           first == CHOOSE i \in S : \A j \in S : i <= j
<1>1. Len(futures) \in Nat /\ DOMAIN futures = 1..Len(futures)
  BY DEF TypeInv
<1>2. MergeFirst[k] = IF merged[k] = None /\ S # {} THEN futures[first].found[k] ELSE merged[k]
  BY DEF MergeFirst
<1>3. ASSUME S # {} PROVE first \in S /\ \A j \in S : first <= j
  <2>1. S \subseteq Nat
    BY <1>1
  <2>2. \E i \in S : \A j \in S : i <= j
    <3> HIDE DEF S
    <3>1. QED
      BY <1>3, <2>1, P!LeastNat, SameConstants
  <2> HIDE DEF S
  <2>3. QED
    BY <2>2
<1>4. S # {} => /\ first \in DOMAIN futures /\ futures[first].found[k] # None
                /\ \A j \in 1..first - 1 : futures[j].found[k] = None
  <2>1. ASSUME S # {}, NEW j \in 1..first - 1 PROVE futures[j].found[k] = None
    <3>1. first \in 1..Len(futures)
      BY <1>1, <1>3, <2>1
    <3> HIDE DEF first
    <3>2. j \in DOMAIN futures /\ ~(first <= j)
      BY <1>1, <3>1
    <3>3. j \notin S
      BY <1>3, <2>1, <3>2
    <3>4. QED
      BY <3>2, <3>3
  <2>2. QED
    BY <1>3, <2>1
<1> HIDE DEF first
<1>5. merged[k] # None \/ (\A i \in DOMAIN futures : futures[i].found[k] = None) => MergeFirst[k] = merged[k]
  BY <1>2
<1>6. ASSUME merged[k] = None, S # {}
      PROVE  MergeFirst[k] = futures[first].found[k]
  BY <1>2, <1>6
<1>7. QED
  BY <1>4, <1>5, <1>6

LEMMA MergeFirstType ==
  ASSUME TypeInv
  PROVE  MergeFirst \in Findings
<1>1. MergeFirst = [k \in Keys |-> MergeFirst[k]]
  BY DEF MergeFirst
<1>2. ASSUME NEW k \in Keys PROVE MergeFirst[k] \in T!Cell \cup {None}
  <2>1. merged[k] \in T!Cell \cup {None}
    BY DEF TypeInv, Findings
  <2>2. \A i \in DOMAIN futures : futures[i].found[k] \in T!Cell \cup {None}
    <3>1. \A i \in DOMAIN futures : futures[i] \in Futures
      BY DEF TypeInv
    <3>2. \A i \in DOMAIN futures : futures[i].found \in Findings
      BY <3>1 DEF Futures
    <3>3. QED
      BY <3>2 DEF Findings
  <2>3. CASE MergeFirst[k] = merged[k]
    BY <2>1, <2>3
  <2>4. CASE MergeFirst[k] # merged[k]
    BY <2>2, <2>4, MergeFirstAt
  <2>5. QED
    BY <2>3, <2>4
<1>3. QED
  BY <1>1, <1>2 DEF Findings

\* After its first stage a range has merged the last writes of the buffer.
LEMMA RangeMergesBuffer ==
  ASSUME T!TypeOK, TypeInv, CallerInv, FuturesInv, MergedInv,
         caller.op = "range", caller.stage = 0, caller.next = Len(Tasks),
         \A i \in DOMAIN futures : futures[i].ready
  PROVE  MergeFirst = OfBuffer(caller.arg)
<1>1. /\ Searching /\ Len(futures) = Len(Tasks) /\ DOMAIN futures = 1..Len(Tasks) /\ Collected = 0
  <2>1. Searching
    BY DEF Searching
  <2>2. Len(futures) = caller.next /\ Len(futures) \in Nat /\ DOMAIN futures = 1..Len(futures)
    BY <2>1, SearchFacts DEF CallerInv
  <2>3. QED
    BY <2>1, <2>2 DEF Collected
<1>2. /\ Len(Tasks) = Len(Chunks) /\ Len(Chunks) \in Nat
      /\ \A n \in 1..Len(Tasks) : Tasks[n][1] = 0 /\ Tasks[n][2] = n
  BY <1>1, TaskPlaces, ChunksShape
<1>3. ASSUME NEW i \in DOMAIN futures, NEW k \in Keys
      PROVE  futures[i].found[k] = IF k \in Within(caller.arg) THEN InChunk(i, k) ELSE None
  <2>1. PICK n \in 1..Len(Tasks) : n = i
    BY <1>1
  <2>2. Collected + i = n
    BY <1>1, <1>2, <2>1
  <2>3. Task(i).at[1] = 0 /\ Task(i).at[2] = i /\ Task(i).op = "range" /\ Task(i).arg = caller.arg
    BY <1>1, <1>2, <2>1, <2>2, TaskFacts
  <2>4. futures[i].found \in Finds(Task(i))
    BY <1>3, ReadyFuture
  <2>5. futures[i].found = [j \in Keys |-> IF j \in Within(caller.arg) THEN InChunk(i, j) ELSE None]
    BY <2>3, <2>4, FindsInBuffer
  <2>6. QED
    BY <2>5
<1>4. merged = Nothing /\ \A k \in Keys : merged[k] = None
  BY <1>1, NothingType DEF MergedInv
<1>5. ASSUME NEW k \in Keys
      PROVE  MergeFirst[k] = IF k \in Within(caller.arg) /\ k \in T!BufferKeys
                             THEN T!CellOf(store[T!LastWrite(k)]) ELSE None
  <2>1. CASE k \in Within(caller.arg) /\ k \in T!BufferKeys
    <3>1. PICK c \in 1..Len(Chunks) : InChunk(c, k) # None
      BY <2>1, ChunkSearch
    <3>2. c \in DOMAIN futures /\ futures[c].found[k] # None
      BY <1>1, <1>2, <1>3, <2>1, <3>1
    <3>3. merged[k] = None /\ MergeFirst[k] # None
      BY <1>4, <3>2, MergeFirstAt
    <3>4. PICK i \in DOMAIN futures : /\ futures[i].found[k] # None
                                      /\ \A j \in 1..i - 1 : futures[j].found[k] = None
                                      /\ MergeFirst[k] = futures[i].found[k]
      BY <3>3, MergeFirstAt
    <3>5. i \in 1..Len(Chunks) /\ InChunk(i, k) # None /\ MergeFirst[k] = InChunk(i, k)
      BY <1>1, <1>2, <1>3, <2>1, <3>4
    <3>6. \A j \in 1..i - 1 : InChunk(j, k) = None
      <4>1. \A j \in 1..i - 1 : j \in DOMAIN futures
        BY <1>1, <1>2, <3>5
      <4>2. QED
        BY <1>3, <2>1, <3>4, <4>1
    <3>7. InChunk(i, k) = T!CellOf(store[T!LastWrite(k)])
      BY <3>5, <3>6, ChunkSearch
    <3>8. QED
      BY <2>1, <3>5, <3>7
  <2>2. CASE ~(k \in Within(caller.arg) /\ k \in T!BufferKeys)
    <3>1. \A i \in DOMAIN futures : futures[i].found[k] = None
      BY <1>1, <1>2, <1>3, <2>2, ChunkSearch
    <3>2. MergeFirst[k] = merged[k]
      BY <3>1, MergeFirstAt
    <3>3. QED
      BY <1>4, <2>2, <3>2
  <2>3. QED
    BY <2>1, <2>2
<1>6. MergeFirst = [k \in Keys |-> MergeFirst[k]]
  BY DEF MergeFirst
<1>7. QED
  BY <1>5, <1>6 DEF OfBuffer

\* After its last stage it has what it answers: of a key in the range that the
\* buffer lacks at most what some run has of it.
LEMMA RangeAnswers ==
  ASSUME T!TypeOK, TypeInv, CallerInv, FuturesInv, MergedInv,
         caller.op = "range", caller.stage = 1,
         \A i \in DOMAIN futures : futures[i].ready,
         NEW k \in Keys
  PROVE  /\ k \notin Within(caller.arg) => MergeFirst[k] = None
         /\ k \in Within(caller.arg) /\ k \in T!BufferKeys =>
              MergeFirst[k] = T!CellOf(store[T!LastWrite(k)])
         /\ k \in Within(caller.arg) /\ k \notin T!BufferKeys =>
              MergeFirst[k] \in {None} \cup {AsLive(T!RunAt(p)[k]) : p \in T!Holders(k)}
<1>1. Searching /\ Len(Tasks) \in Nat
  <2>1. Searching
    BY DEF Searching
  <2>2. QED
    BY <2>1, SearchFacts
<1>2. merged[k] = IF k \in Within(caller.arg) /\ k \in T!BufferKeys
                  THEN T!CellOf(store[T!LastWrite(k)]) ELSE None
  BY DEF MergedInv, OfBuffer
<1>3. ASSUME NEW i \in DOMAIN futures, futures[i].found[k] # None
      PROVE  /\ k \in Within(caller.arg)
             /\ \E p \in T!Holders(k) : futures[i].found[k] = AsLive(T!RunAt(p)[k])
  <2>1. PICK n \in 1..Len(Tasks) : n = Collected + i
    BY <1>1, TaskPlaces
  <2>2. Tasks[n] \in T!Positions /\ Tasks[n][1] # 0
    <3>1. Tasks[n] \in T!Positions /\ Tasks[n][1] \in 1..Len(levels)
      BY <1>1, TaskPlaces
    <3>2. QED
      BY <3>1, TreeFacts
  <2>3. Task(i).op = "range" /\ Task(i).arg = caller.arg /\ Task(i).at = Tasks[n]
    BY <1>1, <2>1, TaskFacts
  <2>4. futures[i].found \in Finds(Task(i))
    BY <1>3, ReadyFuture
  <2>5. /\ k \in Within(caller.arg) /\ k \in T!KeysOf(T!RunAt(Tasks[n]))
        /\ futures[i].found[k] = AsLive(T!RunAt(Tasks[n])[k])
    BY <1>3, <2>2, <2>3, <2>4, FindsInRange
  <2>6. Tasks[n] \in T!Holders(k)
    BY <2>2, <2>5 DEF T!Holders, T!KeysOf
  <2>7. QED
    BY <2>5, <2>6
<1>4. CASE k \in Within(caller.arg) /\ k \in T!BufferKeys
  <2>1. T!CellOf(store[T!LastWrite(k)]) # None
    BY <1>4, LastOne, EntryFacts
  <2>2. QED
    BY <1>2, <1>4, <2>1, MergeFirstAt
<1>5. CASE ~(k \in Within(caller.arg) /\ k \in T!BufferKeys)
  <2>1. merged[k] = None
    BY <1>2, <1>5
  <2>2. CASE MergeFirst[k] = None
    BY <1>5, <2>2
  <2>3. CASE MergeFirst[k] # None
    <3>1. PICK i \in DOMAIN futures : futures[i].found[k] # None /\ MergeFirst[k] = futures[i].found[k]
      BY <2>1, <2>3, MergeFirstAt
    <3>2. QED
      BY <1>3, <1>5, <3>1
  <2>4. QED
    BY <2>2, <2>3
<1>6. QED
  BY <1>4, <1>5
-----------------------------------------------------------------------------
(* The thread that calls the tree collects *)

\* An operation that ends leaves nobody waiting for a task.
LEMMA EndsQuietly ==
  ASSUME TypeInv, caller' = Idle, futures' = <<>>, merged' = Nothing,
         queue' \in Seq(TaskSet), \A j \in DOMAIN queue' : queue'[j] = Stale,
         worker' \in [Workers -> [is : {"awake", "waiting", "running", "gone"}, task : TaskSet]],
         \A w \in Workers : worker'[w].task = Stale,
         SearchesAreSequential'
  PROVE  SearchInv'
<1>1. caller' \in Callers /\ caller'.op = "idle" /\ caller'.step = "none" /\ ~Searching'
  BY IdleFacts DEF Searching
<1>2. TypeInv'
  <2>1. merged' \in Findings /\ futures' \in Seq(Futures)
    BY NothingType
  <2>2. QED
    BY <1>1, <2>1 DEF TypeInv, Findings
<1>3. CallerInv'
  BY <1>1 DEF CallerInv, Idle, Nothing
<1>4. FuturesInv' /\ PoolInv' /\ DrainInv' /\ SearchedInv' /\ MergedInv'
  BY <1>1, QuietAfter
<1>5. QED
  BY <1>2, <1>3, <1>4 DEF SearchInv

\* A get returns at a hit and abandons the tasks that are left.
LEMMA GetReturnsStep ==
  ASSUME T!TypeOK, SearchInv, GetReturns
  PROVE  SearchInv'
<1>1. PICK i \in Hits : Return(futures[i].found)
  BY DEF GetReturns
<1>2. /\ caller.op = "get" /\ store' = store /\ levels' = levels /\ merged' = merged
      /\ queue' = [j \in DOMAIN queue |-> Stale]
      /\ worker' = [w \in Workers |-> [worker[w] EXCEPT !.task = Stale]]
      /\ caller' = Idle /\ futures' = <<>>
      /\ answer' = [op |-> caller.op, arg |-> caller.arg, found |-> futures[i].found]
  BY <1>1 DEF GetReturns, Return, treeVars
<1>3. /\ TypeInv /\ CallerInv /\ FuturesInv /\ SearchedInv /\ MergedInv
      /\ worker \in [Workers -> [is : {"awake", "waiting", "running", "gone"}, task : TaskSet]]
      /\ queue \in Seq(TaskSet)
  BY DEF SearchInv, TypeInv
<1>4. merged' = Nothing
  BY <1>2, <1>3 DEF MergedInv, Searching
<1>5. Stale \in TaskSet
  BY DEF TaskSet
<1>6. queue' \in Seq(TaskSet) /\ \A j \in DOMAIN queue' : queue'[j] = Stale
  <2>1. Len(queue) \in Nat /\ DOMAIN queue = 1..Len(queue)
    BY <1>3
  <2>2. queue' = [j \in 1..Len(queue) |-> Stale]
    BY <1>2, <2>1
  <2>3. QED
    BY <1>5, <2>1, <2>2
<1>7. /\ worker' \in [Workers -> [is : {"awake", "waiting", "running", "gone"}, task : TaskSet]]
      /\ \A w \in Workers : worker'[w].task = Stale
  BY <1>2, <1>3, <1>5
<1>8. SearchesAreSequential'
  <2>1. futures[i].found[caller.arg[1]] = T!Get(caller.arg[1])
    BY <1>2, <1>3, HitIsGet
  <2>2. /\ answer'.op = "get" /\ answer'.arg = caller.arg
        /\ answer'.found[answer'.arg[1]] = futures[i].found[caller.arg[1]]
    BY <1>2
  <2>3. \A k : T!Get(k)' = T!Get(k)
    BY <1>2, GetSame
  <2>4. T!Get(answer.arg[1])' = T!Get(caller.arg[1])
    BY <2>2, <2>3
  <2>5. QED
    BY <2>1, <2>2, <2>4 DEF SearchesAreSequential
<1>9. QED
  BY <1>2, <1>3, <1>4, <1>6, <1>7, <1>8, EndsQuietly

\* The last stage is collected: the answer is nothing, what was merged, or the
\* compaction is carried out.
LEMMA FinishStep ==
  ASSUME T!TypeOK, SearchInv, Finish
  PROVE  SearchInv'
<1>1. /\ caller.step = "collect" /\ caller.next = Len(Tasks) /\ caller.stage = LastStage
      /\ \A i \in DOMAIN futures : futures[i].ready
      /\ merged' = Nothing /\ queue' = queue /\ worker' = worker
      /\ caller' = Idle /\ futures' = <<>>
  BY DEF Finish, Return, poolVars
<1>2. /\ TypeInv /\ CallerInv /\ FuturesInv /\ PoolInv /\ SearchedInv /\ MergedInv
      /\ worker \in [Workers -> [is : {"awake", "waiting", "running", "gone"}, task : TaskSet]]
      /\ queue \in Seq(TaskSet)
  BY DEF SearchInv, TypeInv
<1>3. Searching
  BY <1>1, <1>2 DEF CallerInv
<1>4. /\ \A j \in DOMAIN queue : queue[j] = Stale
      /\ \A w \in Workers : worker[w].task = Stale
  <2>1. \A i \in DOMAIN futures : futures[i] # Pending
    BY <1>1, PendingType
  <2>2. QED
    BY <1>2, <2>1, AllAbandoned
<1>5. SearchesAreSequential'
  <2>1. CASE /\ caller.op = "get" /\ Hits = {} /\ Return(Nothing) /\ UNCHANGED treeVars
    <3> DEFINE k == caller.arg[1]
    <3>1. /\ store' = store /\ levels' = levels
          /\ answer' = [op |-> caller.op, arg |-> caller.arg, found |-> Nothing]
      BY <2>1 DEF Return, treeVars
    <3>2. \A n \in 1..caller.next : Misses(Tasks[n], k)
      BY <1>1, <1>2, <2>1, AllMissed
    <3>3. /\ k \notin T!BufferKeys
          /\ \A p \in T!Positions : p[1] <= caller.stage => T!RunAt(p)[k].del
      BY <1>1, <1>2, <2>1, <3>2, StageMissed
    <3>4. \A p \in T!Positions : T!RunAt(p)[k].del
      <4>1. caller.stage = Len(levels)
        BY <1>1, <2>1 DEF LastStage
      <4>2. \A p \in T!Positions : p[1] <= Len(levels)
        BY TreeFacts
      <4>3. QED
        BY <3>3, <4>1, <4>2
    <3>5. k \in Keys /\ Nothing[k] = None
      BY <1>2, <2>1, NothingType DEF TypeInv
    <3>6. T!Get(k) = None
      <4>1. T!LiveHolders(k) = {}
        BY <3>4 DEF T!LiveHolders, T!Holders
      <4>2. QED
        BY <3>3, <4>1 DEF T!Get, None
    <3>7. /\ answer'.op = "get" /\ answer'.arg = caller.arg
          /\ answer'.found[answer'.arg[1]] = T!Get(k)
      BY <2>1, <3>1, <3>5, <3>6
    <3>8. \A j : T!Get(j)' = T!Get(j)
      BY <3>1, GetSame
    <3>9. T!Get(answer.arg[1])' = T!Get(k)
      BY <3>7, <3>8
    <3>10. QED
      BY <3>7, <3>9 DEF SearchesAreSequential
  <2>2. CASE caller.op = "range" /\ Return(MergeFirst) /\ UNCHANGED treeVars
    <3>1. /\ store' = store /\ levels' = levels
          /\ answer' = [op |-> caller.op, arg |-> caller.arg, found |-> MergeFirst]
      BY <2>2 DEF Return, treeVars
    <3>2. caller.stage = 1
      BY <1>1, <2>2 DEF LastStage
    <3>3. ASSUME NEW k \in Keys
          PROVE  /\ k \notin Within(caller.arg) => MergeFirst[k] = None
                 /\ k \in Within(caller.arg) /\ k \in T!BufferKeys =>
                      MergeFirst[k] = T!CellOf(store[T!LastWrite(k)])
                 /\ k \in Within(caller.arg) /\ k \notin T!BufferKeys =>
                      MergeFirst[k] \in {None} \cup {AsLive(T!RunAt(p)[k]) : p \in T!Holders(k)}
      BY <1>1, <1>2, <2>2, <3>2, RangeAnswers
    <3>4. answer'.op = "range" /\ answer'.arg = caller.arg /\ answer'.found = MergeFirst
      BY <2>2, <3>1
    <3>5. /\ T!BufferKeys' = T!BufferKeys
          /\ \A k : T!LastWrite(k)' = T!LastWrite(k) /\ T!Holders(k)' = T!Holders(k)
          /\ \A p : T!RunAt(p)' = T!RunAt(p)
      BY <3>1, TreeSame, GetSame
    <3> HIDE DEF MergeFirst
    <3>6. QED
      BY <3>1, <3>3, <3>4, <3>5 DEF SearchesAreSequential, Within, T!CellOf, AsLive
  <2>3. CASE caller.op = "write" /\ UNCHANGED answer
    <3>1. answer' = NoAnswer
      BY <1>2, <1>3, <2>3 DEF CallerInv
    <3>2. QED
      BY <3>1 DEF SearchesAreSequential, NoAnswer
  <2>4. QED
    BY <2>1, <2>2, <2>3 DEF Finish
<1>6. QED
  BY <1>1, <1>2, <1>4, <1>5, EndsQuietly

\* A batch or a stage is collected: on to the next one.
LEMMA NextBatchStep ==
  ASSUME T!TypeOK, SearchInv, NextBatch
  PROVE  SearchInv'
<1>1. /\ caller.step = "collect" /\ \A i \in DOMAIN futures : futures[i].ready
      /\ caller.op = "get" => Hits = {}
      /\ caller.next < Len(Tasks) \/ caller.stage < LastStage
      /\ futures' = <<>> /\ store' = store /\ levels' = levels
      /\ merged' = IF caller.op = "range" THEN MergeFirst ELSE merged
      /\ queue' = queue /\ worker' = worker /\ answer' = answer
  BY DEF NextBatch, treeVars, poolVars
<1>2. /\ TypeInv /\ CallerInv /\ FuturesInv /\ PoolInv /\ DrainInv /\ SearchedInv /\ MergedInv
      /\ SearchesAreSequential
  BY DEF SearchInv
<1>3. Searching
  BY <1>1, <1>2 DEF CallerInv
<1>4. /\ caller \in Callers /\ caller.stage \in Nat /\ caller.next \in Nat
      /\ Len(futures) \in Nat /\ DOMAIN futures = 1..Len(futures)
      /\ Len(Tasks) \in Nat /\ caller.next <= Len(Tasks) /\ Len(levels) \in Nat /\ LastStage \in Nat
  <2>1. Len(levels) \in Nat
    BY TreeFacts
  <2>2. LastStage \in Nat
    BY <2>1 DEF LastStage
  <2>3. QED
    BY <1>2, <1>3, <2>1, <2>2, SearchFacts
<1>5. /\ \A j \in DOMAIN queue : queue[j] = Stale
      /\ \A w \in Workers : worker[w].task = Stale
  <2>1. \A i \in DOMAIN futures : futures[i] # Pending
    BY <1>1, PendingType
  <2>2. QED
    BY <1>2, <2>1, AllAbandoned
<1>6. answer' = NoAnswer /\ SearchesAreSequential'
  <2>1. answer = NoAnswer
    BY <1>2, <1>3 DEF CallerInv
  <2>2. QED
    BY <1>1, <1>2, <2>1, AnswerSame
<1>7. Len(futures') = 0 /\ DOMAIN futures' = {} /\ futures' \in Seq(Futures)
  BY <1>1
<1>8. merged' \in Findings
  BY <1>1, <1>2, MergeFirstType DEF TypeInv
<1>9. FuturesInv' /\ PoolInv'
  <2>1. FuturesInv'
    BY <1>7 DEF FuturesInv
  <2>2. PoolInv'
    BY <1>1, <1>5 DEF PoolInv
  <2>3. QED
    BY <2>1, <2>2
\* Once the second stage of a compaction begins its abandoned tasks are gone.
<1>10. caller.op = "write" /\ (caller.stage > 0 \/ caller.next = Len(Tasks)) => \A j \in DOMAIN queue : queue[j] # Stale
  <2>1. CASE caller.op = "write" /\ caller.stage > 0
    BY <1>2, <2>1 DEF DrainInv, Fresh
  <2>2. CASE caller.op = "write" /\ caller.stage = 0 /\ caller.next = Len(Tasks)
    <3>1. Tasks = Parts
      BY <2>2, TasksByStage DEF Tasks
    <3>2. Len(Parts) # 0
      <4>1. Threads \in Nat /\ Threads # 0
        BY ThreadsType
      <4> HIDE DEF Threads
      <4>2. QED
        BY <4>1 DEF Parts
    <3>3. Len(futures) = Len(Tasks)
      BY <1>2, <1>3, <2>2 DEF CallerInv
    <3>4. 1 \in DOMAIN futures
      BY <1>4, <3>1, <3>2, <3>3
    <3>5. \E i \in DOMAIN futures : futures[i].ready
      BY <1>1, <3>4
    <3>6. QED
      BY <1>2, <3>5 DEF DrainInv, Fresh
  <2>3. QED
    BY <1>4, <2>1, <2>2
<1>11. /\ \A j, m \in DOMAIN queue : j < m /\ queue[m] = Stale => queue[j] = Stale
       /\ ~(\E w \in Workers : worker[w].task # Stale)
  BY <1>2, <1>5 DEF DrainInv
<1>12. caller.op = "get" => \A n \in 1..caller.next : Misses(Tasks[n], caller.arg[1])
  BY <1>1, <1>2, AllMissed
<1>13. /\ caller.op \in {"get", "write"} => caller.arg[1] \in Keys
       /\ caller.op = "get" => caller.arg = <<caller.arg[1], caller.arg[1]>>
  BY <1>2 DEF TypeInv
<1>14. CASE caller.next < Len(Tasks)
  <2>1. caller.op = "get"
    BY <1>1, <1>2, <1>3, <1>4, <1>14 DEF CallerInv
  <2>2. /\ caller' \in Callers /\ caller'.op = "get" /\ caller'.arg = caller.arg
        /\ caller'.stage = caller.stage /\ caller'.next = caller.next /\ caller'.step = "enqueue"
    <3>1. caller' = [caller EXCEPT !.step = "enqueue"]
      BY <1>14 DEF NextBatch
    <3>2. QED
      BY <1>4, <2>1, <3>1 DEF Callers
  <2>3. Tasks' = Tasks /\ LastStage' = LastStage /\ Searching'
    BY <1>1, <1>3, <2>1, <2>2, SameTasks
  <2>4. Collected' = caller.next
    BY <1>4, <1>7, <2>2 DEF Collected
  <2>5. merged' = merged
    BY <1>1, <2>1
  <2>6. TypeInv'
    BY <1>1, <1>2, <1>7, <1>8, <1>13, <2>1, <2>2 DEF TypeInv, Findings
  <2>7. CallerInv'
    <3>1. caller'.stage <= LastStage'
      BY <1>2, <1>3, <2>2, <2>3 DEF CallerInv
    <3>2. QED
      BY <1>4, <1>6, <1>7, <1>14, <2>2, <2>3, <3>1 DEF CallerInv, NoAnswer, Nothing
  <2>8. DrainInv'
    BY <1>1, <1>7, <1>11, <2>2 DEF DrainInv, Stale
  <2>9. SearchedInv'
    <3>1. \A n \in 1..Collected' : Misses(Tasks'[n], caller'.arg[1])
      BY <1>12, <2>1, <2>2, <2>3, <2>4
    <3>2. caller.stage > 0 => /\ caller.arg[1] \notin T!BufferKeys
                              /\ \A p \in T!Positions : p[1] < caller.stage => T!RunAt(p)[caller.arg[1]].del
      BY <1>2, <2>1 DEF SearchedInv
    <3>3. /\ \A at, k : Misses(at, k)' = Misses(at, k)
          /\ T!BufferKeys' = T!BufferKeys /\ T!Positions' = T!Positions
          /\ \A p : T!RunAt(p)' = T!RunAt(p)
      BY <1>1, TreeSame
    <3>4. \A n \in 1..Collected' : Misses(Tasks[n], caller.arg[1])'
      BY <2>2, <2>3, <3>1, <3>3
    <3>5. QED
      BY <2>2, <2>3, <3>2, <3>3, <3>4 DEF SearchedInv
  <2>10. MergedInv'
    <3>1. merged = Nothing
      BY <1>2, <1>3, <2>1 DEF MergedInv
    <3>2. QED
      BY <2>2, <2>5, <3>1 DEF MergedInv, Nothing
  <2>11. QED
    BY <1>6, <1>9, <2>6, <2>7, <2>8, <2>9, <2>10 DEF SearchInv
<1>15. CASE ~(caller.next < Len(Tasks))
  <2>1. caller.next = Len(Tasks) /\ caller.stage < LastStage
    BY <1>1, <1>4, <1>15
  <2>2. /\ caller' \in Callers /\ caller'.op = caller.op /\ caller'.arg = caller.arg
        /\ caller'.stage = caller.stage + 1 /\ caller'.next = 0
        /\ caller'.step = IF TasksOf(caller.stage + 1) = <<>> THEN "collect" ELSE "enqueue"
    <3>1. PICK zero \in Nat : zero = 0
      OBVIOUS
    <3>2. PICK stage \in Nat : stage = caller.stage + 1
      BY <1>4
    <3>3. PICK step \in {"collect", "enqueue"} :
            step = IF TasksOf(caller.stage + 1) = <<>> THEN "collect" ELSE "enqueue"
      OBVIOUS
    <3>4. caller' = [caller EXCEPT !.stage = stage, !.next = zero, !.step = step]
      BY <1>4, <1>15, <3>1, <3>2, <3>3 DEF NextBatch
    <3>5. \A moved : moved = [caller EXCEPT !.stage = stage, !.next = zero, !.step = step] =>
            /\ moved \in Callers /\ moved.op = caller.op /\ moved.arg = caller.arg
            /\ moved.stage = stage /\ moved.next = zero /\ moved.step = step
      <4>1. caller \in Callers
        BY <1>4
      <4>2. step \in {"none", "enqueue", "notify", "collect", "notify_all", "join"}
        OBVIOUS
      <4>3. QED
        BY <4>1, <4>2 DEF Callers
    <3>6. /\ caller' \in Callers /\ caller'.op = caller.op /\ caller'.arg = caller.arg
          /\ caller'.stage = stage /\ caller'.next = zero /\ caller'.step = step
      BY <3>4, <3>5
    <3>7. QED
      BY <3>1, <3>2, <3>3, <3>6
  <2>3. Searching' /\ LastStage' = LastStage
    BY <1>1, <1>3, <2>2 DEF Searching, LastStage
  <2>4. Tasks' = TasksOf(caller.stage + 1)
    <3>1. \A stage : TasksOf(stage)' = TasksOf(stage)
      BY <1>1, <2>2, TasksSame
    <3>2. TasksOf(caller.stage)' = TasksOf(caller.stage + 1)
      BY <2>2, <3>1
    <3>3. QED
      BY <3>2 DEF Tasks
  <2>5. /\ Len(TasksOf(caller.stage + 1)) \in Nat
        /\ TasksOf(caller.stage + 1) # <<>> => Len(TasksOf(caller.stage + 1)) > 0
        /\ TasksOf(caller.stage + 1) = <<>> => Len(TasksOf(caller.stage + 1)) = 0
    <3>1. PICK stage \in Nat : stage = caller.stage + 1
      BY <1>4
    <3>2. TasksOf(stage) \in Seq(Int \X Int)
      BY <1>3, TasksShape
    <3>3. QED
      BY <3>1, <3>2
  <2>6. Collected' = 0
    BY <1>7, <2>2 DEF Collected
  <2>7. TypeInv'
    BY <1>1, <1>2, <1>7, <1>8, <1>13, <2>2 DEF TypeInv, Findings
  <2>8. CallerInv'
    <3>1. caller'.stage <= LastStage'
      BY <1>4, <2>1, <2>2, <2>3
    <3>2. Len(futures') = caller'.next /\ caller'.next <= Len(Tasks')
      BY <1>7, <2>2, <2>4, <2>5
    <3>3. /\ caller'.step \in {"enqueue", "notify", "collect"}
          /\ caller'.step = "enqueue" => caller'.next < Len(Tasks')
          /\ caller'.step = "collect" => caller'.next = Len(Tasks')
      BY <2>2, <2>4, <2>5
    <3>4. Len(futures') <= caller'.next
      BY <1>7, <3>2
    <3>5. QED
      BY <1>6, <2>3, <3>1, <3>2, <3>3, <3>4 DEF CallerInv, NoAnswer, Nothing
  <2>9. DrainInv'
    <3>1. caller'.op = "write" => \A j \in DOMAIN queue : queue[j] # Stale
      BY <1>10, <2>1, <2>2
    <3>2. QED
      BY <1>1, <1>7, <1>11, <3>1 DEF DrainInv, Fresh, Stale
  <2>10. SearchedInv'
    <3>1. SUFFICES ASSUME caller.op = "get" PROVE SearchedInv'
      BY <2>2 DEF SearchedInv
    <3>2. /\ caller.arg[1] \notin T!BufferKeys
          /\ \A p \in T!Positions : p[1] <= caller.stage => T!RunAt(p)[caller.arg[1]].del
      BY <1>2, <1>12, <2>1, <3>1, StageMissed
    <3>3. \A p \in T!Positions : p[1] < caller.stage + 1 => p[1] <= caller.stage
      <4>1. \A p \in T!Positions : p[1] \in Int
        BY TreeFacts
      <4>2. QED
        BY <1>4, <4>1
    <3>4. /\ T!BufferKeys' = T!BufferKeys /\ T!Positions' = T!Positions
          /\ \A p : T!RunAt(p)' = T!RunAt(p)
      BY <1>1, TreeSame
    <3>5. QED
      BY <2>2, <2>6, <3>2, <3>3, <3>4 DEF SearchedInv
  <2>11. MergedInv'
    <3>1. ASSUME caller.op # "range" PROVE merged' = Nothing
      BY <1>1, <1>2, <1>3, <3>1 DEF MergedInv
    <3>2. ASSUME caller.op = "range" PROVE merged' = OfBuffer(caller.arg)
      <4>1. caller.stage = 0
        BY <1>4, <2>1, <3>2 DEF LastStage
      <4>2. QED
        BY <1>1, <1>2, <2>1, <3>2, <4>1, RangeMergesBuffer
    <3>3. OfBuffer(caller.arg)' = OfBuffer(caller.arg)
      <4>1. \A arg : OfBuffer(arg)' = OfBuffer(arg)
        BY <1>1, TreeSame
      <4>2. QED
        BY <2>2, <4>1
    <3>4. caller'.stage > 0
      BY <1>4, <2>2
    <3>5. QED
      BY <2>2, <3>1, <3>2, <3>3, <3>4 DEF MergedInv, Nothing
  <2>12. QED
    BY <1>6, <1>9, <2>7, <2>8, <2>9, <2>10, <2>11 DEF SearchInv
<1>16. QED
  BY <1>14, <1>15
-----------------------------------------------------------------------------
(* What the threads do, all in all *)

\* A step of the threads does to the tree what one thread does or nothing.
LEMMA TreeStep ==
  ASSUME SearchInv, [Next]_vars
  PROVE  [T!Next]_treeVars
<1> USE DEF treeVars
<1>1. CASE UNCHANGED vars
  BY <1>1 DEF vars
<1>2. CASE Operation
  <2>1. ASSUME NEW write \in Writes, Write(write[1], write[2]) PROVE T!Next
    <3>1. write[1] \in Keys /\ write[2] \in BOOLEAN
      BY SearchAssumption
    <3>2. PICK k \in Keys, del \in BOOLEAN : k = write[1] /\ del = write[2]
      BY <3>1
    <3>3. T!WriteInBuffer(k, del)
      BY <2>1, <3>2 DEF Write
    <3>4. del = TRUE \/ del = FALSE
      OBVIOUS
    <3>5. T!Put(k) \/ T!Del(k)
      BY <3>3, <3>4 DEF T!Put, T!Del
    <3>6. QED
      BY <3>5 DEF T!Next
  <2>2. ASSUME NEW op, NEW arg, Start(op, arg) PROVE UNCHANGED treeVars
    BY <2>2 DEF Start
  <2>3. QED
    BY <1>2, <2>1, <2>2 DEF Operation, StartCompaction
<1>3. CASE StopPool
  BY <1>3 DEF StopPool
<1>4. CASE CallerGoesOn
  <2>1. CASE Finish
    <3>1. CASE caller.op = "write" /\ T!WriteAfterFlush(caller.arg[1], caller.arg[2] = 1)
      <4>1. caller.arg[1] \in Keys
        BY <3>1 DEF SearchInv, TypeInv
      <4>2. PICK k \in Keys : k = caller.arg[1]
        BY <4>1
      <4>3. PICK del \in BOOLEAN : del = (caller.arg[2] = 1)
        OBVIOUS
      <4>4. T!WriteAfterFlush(k, del)
        BY <3>1, <4>2, <4>3
      <4>5. T!Put(k) \/ T!Del(k)
        BY <4>4 DEF T!Put, T!Del
      <4>6. QED
        BY <4>5 DEF T!Next
    <3>2. CASE UNCHANGED treeVars
      BY <3>2
    <3>3. QED
      BY <2>1, <3>1, <3>2 DEF Finish
  <2>2. CASE Enqueue \/ Notify \/ GetReturns \/ NextBatch \/ NotifyAll \/ Join
    BY <2>2 DEF Enqueue, Notify, GetReturns, NextBatch, NotifyAll, Join
  <2>3. QED
    BY <1>4, <2>1, <2>2 DEF CallerGoesOn
<1>5. CASE \E w \in Workers : TakeOrWait(w) \/ Run(w)
  BY <1>5 DEF TakeOrWait, Run
<1>6. QED
  BY <1>1, <1>2, <1>3, <1>4, <1>5 DEF Next

LEMMA NextSearch ==
  ASSUME T!TypeOK, SearchInv, [Next]_vars
  PROVE  T!TypeOK' /\ SearchInv'
<1>1. T!TypeOK'
  BY TreeStep, TreeType
<1> SUFFICES SearchInv'
  BY <1>1
<1>2. CASE UNCHANGED vars
  <2>1. /\ store' = store /\ levels' = levels /\ caller' = caller /\ futures' = futures /\ merged' = merged
        /\ queue' = queue /\ worker' = worker /\ answer' = answer
    BY <1>2 DEF vars
  <2>2. /\ CallerInv' /\ SearchedInv' /\ MergedInv' /\ SearchesAreSequential'
        /\ \A i : Task(i)' = Task(i) /\ Finds(Task(i))' = Finds(Task(i))
    BY <2>1, CallerSame
  <2>3. TypeInv'
    BY <2>1 DEF SearchInv, TypeInv
  <2>4. FuturesInv'
    BY <2>1, <2>2 DEF SearchInv, FuturesInv, Pending, Nothing
  <2>5. DrainInv'
    BY <2>1 DEF SearchInv, DrainInv, Fresh, Stale
  <2>6. PoolInv'
    <3>1. \A task : Awaited(task) => \E i \in DOMAIN futures' : task = Task(i)' /\ futures'[i] = Pending
      BY <2>1, <2>2 DEF Awaited
    <3>2. PoolInv
      BY DEF SearchInv
    <3>3. \A j \in DOMAIN queue : queue[j] # Stale =>
            \E i \in DOMAIN futures' : queue[j] = Task(i)' /\ futures'[i] = Pending
      BY <3>1, <3>2 DEF PoolInv
    <3>4. \A w \in Workers : worker[w].task # Stale =>
            /\ worker[w].is = "running"
            /\ \E i \in DOMAIN futures' : worker[w].task = Task(i)' /\ futures'[i] = Pending
      BY <3>1, <3>2 DEF PoolInv
    <3>5. /\ \A j, m \in DOMAIN queue : queue[j] = queue[m] /\ queue[j] # Stale => j = m
          /\ \A v, w \in Workers : worker[v].task = worker[w].task /\ worker[v].task # Stale => v = w
          /\ \A j \in DOMAIN queue, w \in Workers : queue[j] = worker[w].task => queue[j] = Stale
      BY <3>2 DEF PoolInv
    <3>6. QED
      BY <2>1, <3>3, <3>4, <3>5 DEF PoolInv, Awaited, Pending, Nothing, Stale
  <2>7. QED
    BY <2>2, <2>3, <2>4, <2>5, <2>6 DEF SearchInv
<1>3. CASE Operation
  <2>1. CASE \E write \in Writes : Write(write[1], write[2])
    BY <2>1, IdleSteps
  <2>2. CASE \E write \in Writes : StartCompaction(write[1], write[2])
    <3>1. PICK write \in Writes : Start("write", <<write[1], IF write[2] THEN 1 ELSE 0>>)
      BY <2>2 DEF StartCompaction
    <3>2. write[1] \in Keys
      BY SearchAssumption
    <3>3. PICK del \in {0, 1} : del = IF write[2] THEN 1 ELSE 0
      OBVIOUS
    <3>4. Start("write", <<write[1], del>>) /\ <<write[1], del>> \in Keys \X {0, 1}
      BY <3>1, <3>2, <3>3
    <3>5. QED
      BY <3>4, StartStep
  <2>3. CASE \E k \in Keys : Start("get", <<k, k>>)
    BY <2>3, StartStep
  <2>4. CASE \E range \in Ranges : Start("range", range)
    BY <2>4, StartStep
  <2>5. QED
    BY <1>3, <2>1, <2>2, <2>3, <2>4 DEF Operation
<1>4. CASE StopPool
  BY <1>4, IdleSteps
<1>5. CASE CallerGoesOn
  BY <1>5, EnqueueStep, NotifyStep, GetReturnsStep, NextBatchStep, FinishStep, IdleSteps DEF CallerGoesOn
<1>6. CASE \E w \in Workers : TakeOrWait(w) \/ Run(w)
  BY <1>6, TakeStep, RunStep
<1>7. QED
  BY <1>2, <1>3, <1>4, <1>5, <1>6 DEF Next

LEMMA SearchAlways == Spec => [](T!TypeOK /\ SearchInv)
<1>1. Init => T!TypeOK /\ SearchInv
  BY TreeType, InitSearch
<1>2. T!TypeOK /\ SearchInv /\ [Next]_vars => (T!TypeOK /\ SearchInv)'
  BY NextSearch
<1>3. QED
  BY <1>1, <1>2, PTL DEF Spec

\* In whatever order the threads finish their tasks and whichever tasks a get
\* abandons, get and range (lsm_tree.cpp:91-329) answer what a search by one
\* thread would.
THEOREM SearchesCorrect == Spec => []SearchesAreSequential
<1>1. T!TypeOK /\ SearchInv => SearchesAreSequential
  BY DEF SearchInv
<1>2. QED
  BY <1>1, SearchAlways, PTL

\* When merge_policy (lsm_tree.cpp:335-423) has collected its futures and changes
\* the levels, no task that a get abandoned is left in the queue.
THEOREM DrainsCorrect == Spec => CompactionDrainsQueue
<1>1. ASSUME T!TypeOK, SearchInv, [Next]_vars
      PROVE  [flushes' # flushes => queue = <<>>]_vars
  <2> USE DEF treeVars, poolVars
  <2>1. CASE UNCHANGED vars
    BY <2>1
  <2>2. CASE Next
    <3>1. SUFFICES ASSUME flushes' # flushes PROVE queue = <<>>
      OBVIOUS
    <3>2. Finish
      BY <2>2, <3>1 DEF Next, Operation, Write, StartCompaction, Start, StopPool, CallerGoesOn, Enqueue,
                        Notify, GetReturns, NextBatch, NotifyAll, Join, TakeOrWait, Run, T!WriteInBuffer
    <3>3. caller.op = "write"
      BY <3>1, <3>2 DEF Finish
    <3>4. /\ caller.stage = 1 /\ \A i \in DOMAIN futures : futures[i].ready
      BY <3>2, <3>3 DEF Finish, LastStage
    <3>5. \A j \in DOMAIN queue : queue[j] = Stale
      <4>1. \A i \in DOMAIN futures : futures[i] # Pending
        BY <3>4, PendingType
      <4>2. QED
        BY <1>1, <4>1, AllAbandoned DEF SearchInv
    <3>6. \A j \in DOMAIN queue : queue[j] # Stale
      BY <1>1, <3>3, <3>4 DEF SearchInv, DrainInv, Fresh
    <3>7. queue \in Seq(TaskSet)
      BY <1>1 DEF SearchInv, TypeInv
    <3>8. QED
      BY <3>5, <3>6, <3>7
  <2>3. QED
    BY <1>1, <2>1, <2>2
<1>2. QED
  BY <1>1, SearchAlways, PTL DEF Spec, CompactionDrainsQueue

\* With all its threads the tree is TieredTree: every put, del, get and range of
\* lsm_tree.cpp:76-423 changes it as one thread does, or not at all.
THEOREM ImplementsTree == Spec => T!Spec
<1>1. Init => T!Init
  BY DEF Init
<1>2. SearchInv /\ [Next]_vars => [T!Next]_(T!vars)
  BY TreeStep DEF treeVars, T!vars
<1>3. QED
  BY <1>1, <1>2, SearchAlways, PTL DEF Spec, T!Spec

\* What is proved about the tree of one thread holds while threads search it: a
\* get that returns has the newest copy of the key that is not a tombstone.
THEOREM SearchedTreeCorrect == Spec => []T!GetIsNewestLive
<1>1. T!Init => P!Init
  BY SameSteps
<1>2. [T!Next]_(T!vars) => [P!Next]_(P!vars)
  BY SameSteps DEF T!vars, P!vars
<1>3. P!Spec => []P!GetIsNewestLive
  BY P!GetCorrect, SameConstants
<1>4. P!GetIsNewestLive => T!GetIsNewestLive
  BY Zenon
  DEF P!GetIsNewestLive, T!GetIsNewestLive, P!Get, T!Get, P!LiveHolders, T!LiveHolders, P!Holders,
      T!Holders, P!CellOf, T!CellOf, P!None, T!None, P!BufferKeys, T!BufferKeys, P!LastWrite,
      T!LastWrite, P!First, T!First, P!Before, T!Before, P!RunAt, T!RunAt, P!Positions, T!Positions
<1>5. QED
  BY <1>1, <1>2, <1>3, <1>4, ImplementsTree, PTL DEF T!Spec, P!Spec
=============================================================================
