------------------------------- MODULE TreeSearch --------------------------------
(***************************************************************************)
(* The operations of the tree as the one thread that calls them and the    *)
(* threads of its pool carry them out (src/lsm_tree.cpp:91-329, 335-423,   *)
(* src/lib/ThreadPool.h).  get searches the buffer in chunks and each      *)
(* level run by run, a task each, and collects their futures after every   *)
(* batch of as many tasks as there are threads; it returns at the first    *)
(* result and abandons the rest of the batch.  range and a write that      *)
(* compacts wait for all their tasks.  The destructor stops the pool.      *)
(*                                                                         *)
(* What the tree holds is module TieredTree's state, and what a compaction *)
(* does to it one step of that module once its tasks are done.             *)
(***************************************************************************)
EXTENDS Integers, Sequences, FiniteSets

CONSTANTS Keys, BufferSize, LevelRatio, PageSize, MaxWrites,  \* as in TieredTree
          Workers,    \* the threads of the pool, num_of_threads of them
          SearchSize, \* entries of the buffer a task searches (10000 in the code)
          Writes,     \* bound: the writes in use, <<key, deleted>>
          Ranges      \* bound: the ranges in use, <<lower, upper>>

ASSUME TreeAssumption == /\ Keys \subseteq Int /\ 0 \in Keys /\ IsFiniteSet(Keys)
                         /\ BufferSize \in Nat \ {0} /\ LevelRatio \in Nat \ {0, 1}
                         /\ PageSize \in Nat \ {0} /\ MaxWrites \in Nat
ASSUME SearchAssumption == /\ IsFiniteSet(Workers) /\ Workers # {}
                           /\ SearchSize \in Nat \ {0}
                           /\ Writes \subseteq Keys \X BOOLEAN
                           /\ Ranges \subseteq Keys \X Keys

VARIABLES store, levels, clock, last, flushes,  \* as in TieredTree
          caller,   \* the operation under way, its stage, its next task, its step
          futures,  \* the futures not collected yet: found, once they are ready
          merged,   \* range: hash_mp
          queue,    \* ThreadPool::tasks
          worker,   \* what each thread does, and the task it runs
          stop,     \* ThreadPool::stop
          answer    \* ghost: what the get or range that just returned answered
treeVars == <<store, levels, clock, last, flushes>>
poolVars == <<queue, worker, stop>>
vars == <<store, levels, clock, last, flushes, caller, futures, merged,
          queue, worker, stop, answer>>

T == INSTANCE TieredTree
None == T!None

Threads == Cardinality(Workers)
Idle == [op |-> "idle", arg |-> <<0, 0>>, stage |-> 0, next |-> 0, step |-> "none"]
Nothing == [k \in Keys |-> None]
NoAnswer == [op |-> "none", arg |-> <<0, 0>>, found |-> Nothing]
Pending == [ready |-> FALSE, found |-> Nothing]
\* A task whose future nobody has any more.
Stale == [op |-> "stale", slot |-> 0, arg |-> <<0, 0>>, at |-> <<0, 0>>]
Doing(what) == [is |-> what, task |-> Stale]

Init == /\ T!Init
        /\ caller = Idle
        /\ futures = <<>>
        /\ merged = Nothing
        /\ queue = <<>> /\ stop = FALSE
        /\ worker = [w \in Workers |-> Doing("awake")]
        /\ answer = NoAnswer
-----------------------------------------------------------------------------
(* The tasks of an operation, stage by stage *)

Chunks == [i \in 1..(Len(store) + SearchSize - 1) \div SearchSize |-> <<0, i>>]

\* The runs of the levels in I, in search order.
RunsOf(I) == LET P == {p \in T!Positions : p[1] \in I}
                 before(p) == {q \in P : q # p /\ T!Before(q, p)}
             IN  [n \in 1..Cardinality(P) |-> CHOOSE p \in P : Cardinality(before(p)) = n - 1]

Parts == [i \in 1..Threads |-> <<0, i>>]

\* A get visits level by level, a compaction the levels above its target.
TasksOf(stage) ==
  CASE caller.op \in {"get", "range"} /\ stage = 0 -> Chunks
    [] caller.op = "write" /\ stage = 0 -> Parts
    [] caller.op = "get" /\ stage > 0 -> RunsOf({stage})
    [] caller.op = "range" /\ stage > 0 -> RunsOf(DOMAIN levels)
    [] caller.op = "write" /\ stage > 0 -> RunsOf(1..T!Target - 1)
Tasks == TasksOf(caller.stage)

\* The last write of a key in the i-th chunk from the back of the buffer.
InChunk(i, k) ==
  LET back == Len(store) - (i - 1) * SearchSize
      hits == {j \in DOMAIN store : back - SearchSize < j /\ j <= back /\ store[j].key = k}
  IN  IF hits = {} THEN None
      ELSE T!CellOf(store[CHOOSE j \in hits : \A m \in hits : m <= j])

AsLive(cell) == [cell EXCEPT !.del = FALSE]

\* What a task that somebody waits for can find: a get of a run skips a tombstone;
\* a range search of a run finds some of its entries and takes the deletion bits
\* of another page for theirs, so a tombstone can pass as live (module PagedFile).
\* Sorts and loads are part of the step that ends a compaction.
Finds(task) ==
  LET inBuffer == task.at[1] = 0
      run == T!RunAt(task.at)
      within == {k \in Keys : task.arg[1] <= k /\ k <= task.arg[2]}
      only(S, cell(_)) == [k \in Keys |-> IF k \in S THEN cell(k) ELSE None]
  IN  CASE task.op \in {"get", "range"} /\ inBuffer ->
             {only(within, LAMBDA k : InChunk(task.at[2], k))}
        [] task.op = "get" /\ ~inBuffer ->
             {only({k \in within : ~run[k].del}, LAMBDA k : run[k])}
        [] task.op = "range" /\ ~inBuffer ->
             {only(some, LAMBDA k : AsLive(run[k])) : some \in SUBSET (within \cap T!KeysOf(run))}
        [] task.op = "write" -> {Nothing}
-----------------------------------------------------------------------------
(* The thread that calls the tree *)

Start(op, arg) ==
  /\ caller = Idle
  /\ caller' = [op |-> op, arg |-> arg, stage |-> 0, next |-> 0,
                step |-> IF op = "write" \/ store # <<>> THEN "enqueue" ELSE "collect"]
  /\ answer' = NoAnswer
  /\ UNCHANGED <<treeVars, futures, merged, poolVars>>

Write(k, del) ==
  /\ caller = Idle
  /\ T!WriteInBuffer(k, del)
  /\ answer' = NoAnswer
  /\ UNCHANGED <<caller, futures, merged, poolVars>>

StartCompaction(k, del) == /\ Len(store) >= BufferSize /\ clock < MaxWrites
                           /\ Start("write", <<k, IF del THEN 1 ELSE 0>>)

Operation == \/ \E write \in Writes : Write(write[1], write[2]) \/ StartCompaction(write[1], write[2])
             \/ \E k \in Keys : Start("get", <<k, k>>)
             \/ \E range \in Ranges : Start("range", range)

NextTask == [op |-> caller.op, slot |-> Len(futures) + 1, arg |-> caller.arg,
             at |-> Tasks[caller.next + 1]]

\* Fault: the newest task is run first.
EnqueueInFront ==
  /\ caller.step = "enqueue"
  /\ queue' = <<NextTask>> \o queue
  /\ futures' = Append(futures, Pending)
  /\ caller' = [caller EXCEPT !.next = @ + 1, !.step = "notify"]
  /\ UNCHANGED <<treeVars, merged, worker, stop, answer>>

\* enqueue, up to the end of its critical section.
Enqueue ==
  /\ caller.step = "enqueue"
  /\ queue' = Append(queue, NextTask)
  /\ futures' = Append(futures, Pending)
  /\ caller' = [caller EXCEPT !.next = @ + 1, !.step = "notify"]
  /\ UNCHANGED <<treeVars, merged, worker, stop, answer>>

Waiting == {w \in Workers : worker[w].is = "waiting"}

\* A get collects after every batch, the others when all tasks are queued.
BatchQueued == \/ caller.next = Len(Tasks)
               \/ caller.op = "get" /\ caller.next % Threads = 0

\* Fault: nobody is notified.
NotifyNobody ==
  /\ caller.step = "notify"
  /\ caller' = [caller EXCEPT !.step = IF BatchQueued THEN "collect" ELSE "enqueue"]
  /\ UNCHANGED <<treeVars, futures, merged, worker, queue, stop, answer>>

\* notify_one, which may find nobody waiting.
Notify ==
  /\ caller.step = "notify"
  /\ \/ Waiting = {} /\ UNCHANGED worker
     \/ \E w \in Waiting : worker' = [worker EXCEPT ![w] = Doing("awake")]
  /\ caller' = [caller EXCEPT !.step = IF BatchQueued THEN "collect" ELSE "enqueue"]
  /\ UNCHANGED <<treeVars, futures, merged, queue, stop, answer>>

\* Fault: the result that is ready first is taken.
HitsAnyReady == {i \in DOMAIN futures : futures[i].found # Nothing}

\* The future whose result get returns.
Hits == {i \in DOMAIN futures : /\ futures[i].found # Nothing
                                /\ \A j \in 1..i - 1 : futures[j] = [Pending EXCEPT !.ready = TRUE]}

Return(found) == /\ answer' = [op |-> caller.op, arg |-> caller.arg, found |-> found]
                 /\ caller' = Idle
                 /\ futures' = <<>>

\* A result: the futures that are left are destroyed, their tasks are not.
GetReturns ==
  /\ caller.op = "get" /\ caller.step = "collect"
  /\ \E i \in Hits : Return(futures[i].found)
  /\ queue' = [j \in DOMAIN queue |-> Stale]
  /\ worker' = [w \in Workers |-> [worker[w] EXCEPT !.task = Stale]]
  /\ UNCHANGED <<treeVars, merged, stop>>

\* hash_mp.merge, future by future: a key that is there stays.
MergeFirst == LET having(k) == {i \in DOMAIN futures : futures[i].found[k] # None}
                  oldest(S) == CHOOSE i \in S : \A j \in S : i <= j
              IN  [k \in Keys |-> IF merged[k] = None /\ having(k) # {}
                                  THEN futures[oldest(having(k))].found[k] ELSE merged[k]]

LastStage == IF caller.op = "get" THEN Len(levels) ELSE 1

\* All futures of the batch were collected: on to the next batch or stage.
NextBatch ==
  /\ caller.step = "collect"
  /\ \A i \in DOMAIN futures : futures[i].ready
  /\ caller.op = "get" => Hits = {}
  /\ caller.next < Len(Tasks) \/ caller.stage < LastStage
  /\ caller' = IF caller.next < Len(Tasks) THEN [caller EXCEPT !.step = "enqueue"]
               ELSE [caller EXCEPT !.stage = @ + 1, !.next = 0,
                       !.step = IF TasksOf(caller.stage + 1) = <<>> THEN "collect" ELSE "enqueue"]
  /\ futures' = <<>>
  /\ merged' = IF caller.op = "range" THEN MergeFirst ELSE merged
  /\ UNCHANGED <<treeVars, poolVars, answer>>

\* So were those of the last stage.
Finish ==
  /\ caller.step = "collect" /\ caller.next = Len(Tasks) /\ caller.stage = LastStage
  /\ \A i \in DOMAIN futures : futures[i].ready
  /\ \/ caller.op = "get" /\ Hits = {} /\ Return(Nothing) /\ UNCHANGED treeVars
     \/ caller.op = "range" /\ Return(MergeFirst) /\ UNCHANGED treeVars
     \/ /\ caller.op = "write" /\ T!WriteAfterFlush(caller.arg[1], caller.arg[2] = 1)
        /\ caller' = Idle /\ futures' = <<>> /\ UNCHANGED answer
  /\ merged' = Nothing
  /\ UNCHANGED poolVars

\* ~LSM_Tree deletes the buffer and the levels and ends in ~ThreadPool: stop is
\* set under the lock, then notify_all.  The stale tasks that are left run on.
StopPool ==
  /\ caller = Idle
  /\ stop' = TRUE
  /\ caller' = [Idle EXCEPT !.op = "destroy", !.step = "notify_all"]
  /\ answer' = NoAnswer
  /\ UNCHANGED <<treeVars, futures, merged, queue, worker>>

\* Fault: one thread is notified.
NotifyOneOfAll ==
  /\ caller.step = "notify_all"
  /\ \/ Waiting = {} /\ UNCHANGED worker
     \/ \E w \in Waiting : worker' = [worker EXCEPT ![w] = Doing("awake")]
  /\ caller' = [caller EXCEPT !.step = "join"]
  /\ UNCHANGED <<treeVars, futures, merged, queue, stop, answer>>

NotifyAll ==
  /\ caller.step = "notify_all"
  /\ worker' = [w \in Workers |-> IF w \in Waiting THEN Doing("awake") ELSE worker[w]]
  /\ caller' = [caller EXCEPT !.step = "join"]
  /\ UNCHANGED <<treeVars, futures, merged, queue, stop, answer>>

Join ==
  /\ caller.step = "join" /\ \A w \in Workers : worker[w].is = "gone"
  /\ caller' = [Idle EXCEPT !.op = "gone"]
  /\ UNCHANGED <<treeVars, futures, merged, poolVars, answer>>

CallerGoesOn == Enqueue \/ Notify \/ GetReturns \/ NextBatch \/ Finish \/ NotifyAll \/ Join
-----------------------------------------------------------------------------
(* The threads of the pool *)

\* The critical section: take a task, or leave when the pool has stopped and no
\* task is left, or wait.
TakeOrWait(w) ==
  /\ worker[w].is = "awake"
  /\ IF queue # <<>>
     THEN /\ worker' = [worker EXCEPT ![w] = [is |-> "running", task |-> Head(queue)]]
          /\ queue' = Tail(queue)
     ELSE /\ worker' = [worker EXCEPT ![w] = Doing(IF stop THEN "gone" ELSE "waiting")]
          /\ UNCHANGED queue
  /\ UNCHANGED <<treeVars, caller, futures, merged, stop, answer>>

\* The task's result goes to its future.  A stale task reads a buffer or runs
\* that may have changed or gone since: its result is dropped, and a crash is
\* left out.
Run(w) ==
  LET task == worker[w].task
  IN  /\ worker[w].is = "running"
      /\ IF task = Stale THEN UNCHANGED futures
         ELSE \E found \in Finds(task) :
                futures' = [futures EXCEPT ![task.slot] = [ready |-> TRUE, found |-> found]]
      /\ worker' = [worker EXCEPT ![w] = Doing("awake")]
      /\ UNCHANGED <<treeVars, caller, merged, queue, stop, answer>>

Next == \/ Operation \/ StopPool \/ CallerGoesOn
        \/ \E w \in Workers : TakeOrWait(w) \/ Run(w)

\* The threads are scheduled; nobody has to start an operation.
Spec == /\ Init /\ [][Next]_vars
        /\ WF_vars(CallerGoesOn)
        /\ \A w \in Workers : WF_vars(TakeOrWait(w) \/ Run(w))
-----------------------------------------------------------------------------
(* Properties *)

\* Tasks end in any order and early returns abandon some, yet a get answers what
\* a search of the buffer from its back and then of the runs one by one would,
\* and a range the last write of each key of the range the buffer holds,
\* tombstones included, and of other keys at most what some run has of them,
\* passed off as live.
SearchesAreSequential ==
  /\ answer.op = "get" => answer.found[answer.arg[1]] = T!Get(answer.arg[1])
  /\ answer.op = "range" => \A k \in Keys :
       CASE ~(answer.arg[1] <= k /\ k <= answer.arg[2]) -> answer.found[k] = None
         [] OTHER -> IF k \in T!BufferKeys THEN answer.found[k] = T!CellOf(store[T!LastWrite(k)])
                     ELSE answer.found[k] \in {None} \cup {AsLive(T!RunAt(p)[k]) : p \in T!Holders(k)}

\* When a compaction changes run_storage no abandoned search of it is queued
\* any more; one that already runs may still read what is cleared.
CompactionDrainsQueue == [][flushes' # flushes => queue = <<>>]_vars

\* No wake-up is lost between enqueue and wait: every operation returns.
EveryOperationReturns ==
  caller.op \in {"get", "range", "write"} ~> caller.op \notin {"get", "range", "write"}

\* The destructor drains the queue and joins every thread.
PoolIsJoined == stop ~> queue = <<>> /\ \A w \in Workers : worker[w].is = "gone"
=============================================================================
