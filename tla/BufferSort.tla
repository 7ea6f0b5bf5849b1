------------------------------ MODULE BufferSort --------------------------------
(***************************************************************************)
(* The first half of merge_policy (src/lsm_tree.cpp:356-380): the buffer   *)
(* is split into a part for each thread of the pool, the workers of the    *)
(* pool (src/lib/ThreadPool.h) sort the parts, and the thread of the tree  *)
(* waits for the parts in order, merges them into one sorted vector and    *)
(* keeps the last entry of each key.  Module TieredTree takes the result   *)
(* to be the last write of each key.                                       *)
(***************************************************************************)
EXTENDS Integers, Sequences, FiniteSets

CONSTANTS SortKeys,   \* the keys in use
          MaxEntries, \* bound: entries in the buffer
          Threads     \* num_of_threads, and the workers of the pool

ASSUME SortAssumption == SortKeys \subseteq Int /\ MaxEntries \in Nat /\ Threads \in Nat \ {0}

VARIABLES store,     \* the buffer; ver is the place of an entry in it
          enqueued,  \* parts handed to the pool so far
          queue,     \* ThreadPool::tasks, the parts no worker has taken
          sorting,   \* the parts workers are sorting
          sorted,    \* the parts whose future is ready, sorted
          combined,  \* parts merged into buffer so far
          buffer,    \* the merged vector
          mergeMap   \* merge_map, once the loop over buffer has filled it
sortVars == <<store, enqueued, queue, sorting, sorted, combined, buffer, mergeMap>>

Entry == [key : SortKeys, ver : 1..MaxEntries]
Buffered(keys) == [i \in DOMAIN keys |-> [key |-> keys[i], ver |-> i]]
Stores == UNION {{Buffered(keys) : keys \in [1..n -> SortKeys]} : n \in 1..MaxEntries}
Parts == 1..Threads
Empty == [k \in {} |-> 0]
-----------------------------------------------------------------------------
(* The pure functions *)

\* The end of part i of a vector of n entries: the first n % Threads parts
\* have one entry more than the others.
PartEnd(n, i) == i * (n \div Threads) + (IF i < n % Threads THEN i ELSE n % Threads)

\* splitVector
Part(v, i) == SubSeq(v, PartEnd(Len(v), i - 1) + 1, PartEnd(Len(v), i))

\* merge_s, with l entries of left and r of right in merged, goes on with one of
\* right; of two entries with one key the left one comes first.
FromRight(left, right, l, r) ==
  r < Len(right) /\ (l = Len(left) \/ right[r + 1].key < left[l + 1].key)

\* merge_s; taken[n] is how many of the first n entries are of left.
MergeSorted(left, right) ==
  LET total == Len(left) + Len(right)
      taken[n \in 0..total] ==
        IF n = 0 THEN 0
        ELSE LET l == taken[n - 1]
             IN  IF FromRight(left, right, l, n - 1 - l) THEN l ELSE l + 1
  IN  [n \in 1..total |-> IF taken[n] = taken[n - 1] THEN right[n - taken[n]]
                          ELSE left[taken[n]]]

\* mergeSort; sort[<<i, j>>] is what it makes of the entries i + 1 to j of v.
MergeSort(v) ==
  LET places == 0..Len(v)
      sort[p \in places \X places] ==
        LET mid == p[1] + (p[2] - p[1]) \div 2
        IN  IF p[2] - p[1] <= 1 THEN SubSeq(v, p[1] + 1, p[2])
            ELSE MergeSorted(sort[<<p[1], mid>>], sort[<<mid, p[2]>>])
  IN  sort[<<0, Len(v)>>]

\* The loop of merge_policy that assigns merge_map[entry.key] in order.
FillMap(v) ==
  LET fill[n \in 0..Len(v)] ==
        IF n = 0 THEN Empty
        ELSE [k \in DOMAIN fill[n - 1] \cup {v[n].key} |->
                IF k = v[n].key THEN v[n] ELSE fill[n - 1][k]]
  IN  fill[Len(v)]
-----------------------------------------------------------------------------
(* The thread of the tree, and the workers *)

SortInit == /\ store \in Stores
            /\ enqueued = 0 /\ queue = <<>> /\ sorting = {} /\ sorted = Empty
            /\ combined = 0 /\ buffer = <<>> /\ mergeMap = Empty

\* merge_policy enqueues the sort of the next part.
Enqueue == /\ enqueued < Threads
           /\ enqueued' = enqueued + 1
           /\ queue' = Append(queue, enqueued + 1)
           /\ UNCHANGED <<store, sorting, sorted, combined, buffer, mergeMap>>

\* A free worker takes the task at the front.
Take == /\ queue # <<>> /\ Cardinality(sorting) < Threads
        /\ queue' = Tail(queue)
        /\ sorting' = sorting \cup {Head(queue)}
        /\ UNCHANGED <<store, enqueued, sorted, combined, buffer, mergeMap>>

\* A worker finishes part i and makes its future ready.
Finish(i) == /\ i \in sorting
             /\ sorting' = sorting \ {i}
             /\ sorted' = [p \in DOMAIN sorted \cup {i} |->
                             IF p = i THEN MergeSort(Part(store, i)) ELSE sorted[p]]
             /\ UNCHANGED <<store, enqueued, queue, combined, buffer, mergeMap>>

\* Fault: the newer part is merged in on the left.
CombineSwapped ==
  /\ enqueued = Threads /\ combined < Threads
  /\ combined + 1 \in DOMAIN sorted
  /\ buffer' = MergeSorted(sorted[combined + 1], buffer)
  /\ combined' = combined + 1
  /\ UNCHANGED <<store, enqueued, queue, sorting, sorted, mergeMap>>

\* The tree's thread has waited for the next future and merges its part.
Combine == /\ enqueued = Threads /\ combined < Threads
           /\ combined + 1 \in DOMAIN sorted
           /\ buffer' = MergeSorted(buffer, sorted[combined + 1])
           /\ combined' = combined + 1
           /\ UNCHANGED <<store, enqueued, queue, sorting, sorted, mergeMap>>

Fill == /\ combined = Threads /\ mergeMap = Empty
        /\ mergeMap' = FillMap(buffer)
        /\ UNCHANGED <<store, enqueued, queue, sorting, sorted, combined, buffer>>

Done == mergeMap # Empty

SortNext == Enqueue \/ Take \/ (\E i \in Parts : Finish(i)) \/ Combine \/ Fill

\* That every part comes to its end is a matter of the pool: module TreeSearch.
SortSpec == SortInit /\ [][SortNext]_sortVars
-----------------------------------------------------------------------------
(* Properties *)

Tree == INSTANCE TieredTree WITH
       Keys <- SortKeys, BufferSize <- MaxEntries, LevelRatio <- 2, PageSize <- 1,
       MaxWrites <- 0, levels <- <<>>, clock <- 0, last <- <<>>, flushes <- 0

\* In whatever order the workers finish, what the tree's thread has merged is
\* the stable sort of the parts it has waited for: every entry once, in order
\* of key, and entries of one key oldest first.  So the map the merge starts
\* from has the keys of the buffer, each with its last write, as module
\* TieredTree takes it to.
MergedIsStableSort ==
  LET done == SubSeq(store, 1, PartEnd(Len(store), combined))
  IN  /\ Len(buffer) = Len(done)
      /\ {buffer[i] : i \in DOMAIN buffer} = {done[i] : i \in DOMAIN done}
      /\ \A i, j \in DOMAIN buffer : i < j =>
           \/ buffer[i].key < buffer[j].key
           \/ buffer[i].key = buffer[j].key /\ buffer[i].ver < buffer[j].ver
      /\ Done => /\ DOMAIN mergeMap = Tree!BufferKeys
                 /\ \A k \in Tree!BufferKeys : mergeMap[k] = store[Tree!LastWrite(k)]
=============================================================================
