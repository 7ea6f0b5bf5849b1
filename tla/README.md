# A verification of the optimized LSM tree in TLA+

The program under `src/` is a key-value store: a log-structured merge tree in
C++ with a write buffer in memory and sorted files below it, a command loop
(`main.cpp`), and an HTTP server with a client (`server.cpp`, `client.cpp`). This
directory holds TLA+ modules translated from that code, TLC configurations that
check them on small instances, and proofs that TLAPS checks for every value of
the constants. `PROJECT.json` lists, for each definition, the lines it models,
and for each hazard of the code the properties that are about it.

## 1. The system

| Component | Code | State | Operations |
|---|---|---|---|
| Tree core, mode 0 | `lsm_tree.cpp`, `buffer_level.h` | the buffer `store`; a list of levels, each with `run_storage` | `put`, `del`, `get`, `range`, `merge_policy` |
| Leveled runs, mode 1 | `level_run.cpp`, `lsm_tree.cpp:455-572` | for each leveled level a linked list of blocks | `insert_block`, `flush`, `partial_merge`, `get`, `range_search` |
| Run and block files | `run.cpp`, `level_run.cpp`, `lsm_tree.cpp` | a binary file of pages and deletion bits, fence pointers | `save_to_memory`, `process_block`, `disk_search`, `range_disk_search`, `load_full_file` |
| Parallel sort of the buffer | `lsm_tree.cpp:356-380, 1231-1290` | parts, futures, the merged vector, `merge_map` | `splitVector`, `mergeSort`, `merge_s` |
| Thread pool | `lib/ThreadPool.h` | queue of tasks, threads | `enqueue`, the threads' loop, destructor |
| Server, queue, client | `server.cpp`, `task_queue.h`, `client.cpp` | task queue, map `results`, worker, clients | post, status, worker, stop |
| HTTP library | `lib/httplib.h` | sockets, its own pool of threads, streams | `listen`, `stop`, `process_request`, `Post`, `Get` |
| Persistence | `lsm_tree.cpp:631-1136`, `main.cpp:127-240` | memory file, meta file, Bloom and fence files | `exit_save`, `load_memory`, `reconstruct_file_structure` |
| Bloom filter | `bloom.cpp` | an array of bits | `set`, `is_set` |
| Command loop | `main.cpp:14-124` | none of its own | calls the tree, one command after the other |

How they interact. A front end calls the tree one operation at a time: the loop
of `main.cpp`, or the server's single worker. Inside an operation the tree hands
closures to its thread pool and waits on their futures; a search that has its
answer returns and leaves the rest of its closures in the pool. A full buffer
makes `put` and `del` call `merge_policy`, which sorts the buffer in parallel,
loads the files of the levels it merges, writes new ones and removes the old.
The HTTP handlers run on the library's threads, share the queue and the map
`results` with the worker, and one of them may stop the library; then `main`
deletes the tree.

What is hard, and what makes each part correct:

- *Tree*: compactions cascade, and every search trusts that the place of a copy
  (buffer, level, index in the level) tells its age. Correct: that order is kept by
  every sequence of writes; nothing a compaction can read is lost, nothing
  dropped returns; levels stay within their limits.
- *Mode 1*: blocks are rewritten in place, cut anew and flushed from a random
  start. Correct: the blocks of a level stay in order and disjoint, and what lies
  above is newer.
- *Files*: offsets, sizes of a last page and packed bits, written in two places
  and read in eight. Correct: what is read is what was written.
- *Sort, searches*: workers finish in any order, and abandoned work goes on.
  Correct: the answer is that of a sequential search, everything returns.
- *Server*: handlers, worker, main and clients interleave. Correct: commands take
  effect one by one in the order of arrival, and an answer reaches who asked.
- *HTTP*: connections are cut, time out or hang; `stop` is called from one of the
  threads it waits for. Correct: a handler sees a whole request, at most once; the
  client's result is true; every thread comes back.
- *Persistence*: saves and compactions may be cut short. Correct: a restart finds
  the tree that was saved.

## 2. The modules

| Module | Models | Used by |
|---|---|---|
| `TieredTree` | put, del, get and merge_policy of mode 0, a whole operation a step | `TieredTreeProofs`; instantiated by every other module of the tree |
| `TreeSearch` | the same tree task by task: get, range and compaction on the pool | `TreeSearchProofs` |
| `BufferSort` | the parallel sort at the start of merge_policy | `PagedFileProofs` |
| `LeveledLevels` | the leveled levels of mode 1: insertion, flush, load, get | `LeveledLevelsProofs`, `PagedFile`, `LazyTree` |
| `LazyTree` | mode 1 as a whole: buffer, tiers (of `TieredTree`) and leveled levels (of `LeveledLevels`) | `LazyTreeProofs` |
| `PagedFile` | the words of a run's, a block's and the buffer's file, and every function that writes or reads them | `PagedFileProofs` |
| `Persistence` | saves, ends and starts of the program in mode 0; `TieredTree` with its files | `PersistenceProofs` |
| `CommandQueue` | abstract: commands taken in order, performed one at a time, until it closes | `Server` |
| `Server` | server.cpp, task_queue.h, client.cpp | `ServerProofs` |
| `HttpServer` | the library's listen, thread pool, keep-alive and stop, with many connections | `ServerProofs` |
| `HttpExchange` | one connection of the library, write by write and read by read | `HttpExchangeProofs` |

`MC...` modules hold values for the configurations. `...Proofs` modules hold the
theorems about a module; `PagedFileProofs` and `ServerProofs` serve two each. The
lemmas on numbers, ranks of keys and lists of levels at the head of
`TieredTreeProofs` serve the other proofs about the tree too.

The layers are tied together by properties, not only by reading:

- What `load_full_file` makes of a run is `TieredTree!LoadFullFile` (the entries of
  full pages and a made-up entry of key 0); what a load and a get make of a block
  are `LeveledLevels!LoadBlock` and `LevelGet`. `PagedFile` computes those functions
  word by word, failed streams and uninitialised words included, and
  `LoadMatchesTree`, `BlockLoadMatchesLevels` and `BlockGetMatchesLevels` compare.
- That a get or range is one step in `TieredTree` rests on `SearchesAreSequential`
  of `TreeSearch`, whose writes are those of `TieredTree`.
- That a compaction starts from `TieredTree!LastWrite` rests on
  `MergedIsStableSort` of `BufferSort`.
- `Server` takes a POST or a GET as handled or not; that a handler runs at most
  once for a whole body, and that a response is its answer, is `HandledWhole` and
  `ResultIsTrue` of `HttpExchange`, and `ServedOnce` of `HttpServer`.
- `Server` implements `CommandQueue` (`IsCommandQueue`).

How state and actions correspond to the code:

- `TieredTree`: `store` is `BufferLevel::store`, `levels[i]` the `run_storage` of
  the i-th `Level_Node`, a run a function from keys to cells (`ver` for the value,
  `del` for the flag) or `None`. `WriteInBuffer` is `insert`/`del` with room;
  `WriteAfterFlush` is the branch on -1: `merge_policy` (`Target`, `Merged`,
  `MergeMap`, `LevelsAfter`), `clear_buffer` and the second insert. `clock`, `last`
  and `flushes` are ghosts.
- `TreeSearch`: `caller` is the tree's thread with the operation it is in; it
  enqueues a batch of closures (`Enqueue`, `Notify`), waits for their futures,
  returns early (`Hits`) or starts the next batch; `Run(w)` is a closure on a
  thread. A closure whose future was dropped becomes `Stale` and still runs.
  `StopPool` and `Join` are the pool's destructor.
- `BufferSort`: the tree's thread enqueues, waits in order and merges (`Enqueue`,
  `Combine`, `Fill`); workers `Take` and `Finish` in any order.
- `LeveledLevels`: `leveled[i]` is the list of blocks of a level. One action is
  one call of `merge_policy` that reaches these levels: flushes of all levels that
  are too large, from the deepest up, each from a start drawn at random
  (`FlushedBlocks`), then the insertion of what came into the first
  (`InsertIntoEmpty`, `InsertBefore`, `InsertOver`). The branches in which the code
  follows a null or dangling pointer end the process (`FlushEnds`, `InsertEnds`).
  So may a `get` in a level without blocks (`SearchEmptyEnds`), which reads posts
  and a filter that nobody has set.
- `LazyTree`: a write with room, a merge into a tier, or a merge of all tiers into
  the leveled levels.
- `PagedFile`: a step writes one file, as a run (`SaveToMemory`), as a block
  (`ProcessBlock`) or as the buffer's file (`ExitSaveMemory`); the readers are
  operators on the file. A word is 8 bytes, the unit of all offsets. A page has
  `PageSize` entries, 64 in the code.
- `Persistence`: the variables of `TieredTree` (instantiated as `T`) and its
  writes; `names` repeats the shape of `levels` with the files of the runs, so the
  same operator `LevelsAfter` (of a second instance, `N`) moves both; `disk` is the
  set of `lsm_tree_*.dat` files, `memory` and `meta` the two save files. `Quit` is
  q; `End`, `EndInCompaction` and `EndInSave` are the places where the process can
  end otherwise; `StartFresh` and `StartSaved` the two branches of `main`.
- `Server`: a handler is a program counter (`stop`, `push`, `mark`, `reply`)
  because the worker can run between its steps; the worker pops, executes and
  stores; `DeleteTree` and `Exit` are the end of `main`. The tree is the sequence
  of puts that took effect. The worker knows nothing of that end: it goes on with
  commands on a tree that is deleted (`ExecuteOnDeleted`) until the process is
  gone, which may cut a save (`EndProcess`). What it finds in a deleted tree is
  taken as any first part of the puts (`Remains`), and the ghost `dangling` says
  that it has looked. A client whose read times out (`PostFails`) leaves its
  handler at work and is free again.
- `HttpServer`: `listen_internal` (`Listen`), the threads of the pool (`Serve`),
  and clients that connect, send, wait or give up. A wake-up and the step of the
  one who waits are separate, so that a lost one would show.
- `HttpExchange`: an end of the connection is a record: its step, what it still
  writes, what has come and is not read (`wire`), the line, headers and body it
  has read. `Write` sends any part; `GetWord`, `GetContent` read; `WriteFails`,
  `LineBreaks`, `ContentBreaks` are the timeouts and broken connections; `Dies`
  and `Suspends` what can happen to a process. Text is a sequence of words; a line
  and its end are two, so every place where a line, the headers or a body can be
  cut, with a different effect, is there.

Definitions marked `Fault:` are plausible errors of the code, each used to check
that a property notices it; no specification uses them.

## 3. The runs

| Run | Instance | What it shows |
|---|---|---|
| `tiered_cascade` | keys 0 and 1, buffer 2, ratio 2, pages of 2, 13 writes | order of age, counts and copies through three levels |
| `paged_file` | every vector of up to 5 entries over -1..3, pages of 2 | search, range and load of runs and blocks, and the memory file |
| `buffer_sort` | every buffer of up to 5 writes of 3 keys, 3 threads | the sort is stable |
| `server` | 2 clients, one of which times out, 3 tasks, commands p, g, cq, q | refinement of the queue, order, own answers, polling ends |
| `persistence` | keys 0 and 1, buffer 2, ratio 3, 7 writes, 2 restarts | order, files and answers across every kind of end |
| `leveled_levels` | keys -1..3, ratio 2, buffer 2, pages of 2, 3 blocks a level, 4 merges | blocks in order, get, flush, nothing readable lost |
| `lazy_tree` | keys -1..2, buffer 1, ratio 2, pages of 1, 10 writes | order of age across buffer, tiers and leveled levels |
| `tree_search` | keys 0 and 1, buffer 2, ratio 3, 2 threads, 5 writes, 2 ranges | answers do not depend on the order of tasks; all returns |
| `http_server` | 2 threads, 3 connections, commands and q | once, all requests end, listen returns |
| `http_exchange` | a POST of two bytes or a GET, up to 3 requests a connection | whole requests, true results, both ends come to an end |

Two more runs, `deleted_key` and `every_poll_answered`, expect a violation; section 4
says what each shows.

The properties of the runs that pass, besides a `TypeOK` in two of them:

- `RecencyOrder` (of `TieredTree`): later in the buffer is newer, the buffer is
  newer than every run, and runs visited earlier are newer. `get` and the
  keep-first merges depend on it and nothing in the code checks it. In
  `Persistence` it is checked across ends and restarts: `exit_save` writes the
  memory file before the meta file, and in that order a buffer that is loaded is
  never older than the runs beside it, wherever the save was cut; in the other
  order it could be. In `LazyTree` it also says that the buffer and tiers are newer
  than all leveled levels.
- `RunsCountFlushes`: levels are the digits of the number of compactions in base
  `LevelRatio`, so none is lost or counted twice and no level is overfull.
- `GetIsNewestLive`, `GetIsLastWrite`: the answer of `get` against the copies that
  exist, in mode 0 and in mode 1 until a second leveled level is reached.
- `NoCopyFromNowhere`, `NewestCopySurvives`, `ReadableKeysStay`: what a step,
  cascading or not, may never do to the copies of a key.
- `BlocksInOrder`, `GetFindsAllButLastPages`, `FlushStaysInList`,
  `FirstLevelIsNewest`, `TiersWithinCutOff`: mode 1.
- `SearchFindsSaved`, `LoadMatchesTree`, `BlockGetMatchesLevels`,
  `BlockLoadMatchesLevels`, `RangeReturnsSaved`, `MemoryRoundTrip`: each reader of a
  file against what was written.
- `MergedIsStableSort`: the sort. `SearchesAreSequential`,
  `CompactionDrainsQueue`, `EveryOperationReturns`, `PoolIsJoined`: the pool.
- `IsCommandQueue`, `GetSeesEarlierPuts`, `SaveHasEarlierPuts`, `AnswersAreOwn`,
  `AnsweredUnlessOverwritten`: the server. The second and third hold until a command
  runs on the deleted tree. Its `TypeOK` says besides that no handler at work, no
  client that waits and no worker with a command is without its task.
- `ServedOnce`, `RequestsEnd`, `StopEndsListen`: a request is handled at most once
  and none after `listen` returned, whoever gave up; requests behind idle
  connections end; the handler that calls `stop` does not wait for itself.
- `HandledWhole`, `ResultIsTrue`, `SidesEnd`: after any cut or timeout no part of a
  body reaches a handler and no second request is made of the rest; a result
  of the client's call says what happened, and after an error other than `Read`
  no handler runs, so that the client may try again; a peer that is suspended
  for good blocks nobody.
- `FilesAreRuns`, `RestartKeepsAnswers`: the files against the structure, and the
  answers of `get` on the two sides of a save and a start.

Key 0 is left out of properties of keys in the tree: a load makes up an entry of
that key (section 4), and it can shadow what was written.

The bounds. `MaxWrites`, `MaxEntries`, `MaxTasks`, `MaxArrivals`, `MaxStarts` and
`MaxConns` only stop a behaviour. Thirteen writes into a buffer of two are six
compactions: the third level is reached at the fourth. A page of two entries has
a first, a last, a full and a partial page with files of five entries, and 64
plays no other part in the code than the width of the word of deletion bits,
one bit for each entry. Two clients and one worker are all the processes any one
race of the server involves. `MaxStarts` of two lets a tree that was loaded be
changed, saved or cut short, and loaded again; seven writes make a run in each
of the three lives, or a compaction of two runs in one. Four arrivals of up to
five keys fill the first leveled level, flush it to a second and insert again.
Five writes with a ratio of 3 put two runs in a level, so that an early return
abandons a search of a run, and merge them; three connections on two threads
leave one waiting behind idle ones. `KeepAliveMax` is 3 for the code's 5
(`CPPHTTPLIB_KEEPALIVE_MAX_COUNT`): a first, a middle and a last request on a
connection.

Fairness is weak fairness of threads that exist: the pools' threads, the tree's
thread, handlers, the worker, main, `listen`, the polling loop of a client and
its wait for a response, and both ends of an exchange. The code has no lock held
across a wait, so a thread that can go on stays able to, and the operating
system runs it. A read or write with a timeout ends by itself. Posting,
connecting, sending, giving up, starting an operation and stopping the pool are
choices and have no fairness. The other modules state no liveness: their steps
are calls.

Deadlock is not checked where behaviours end: at a bound, when a sort or an
exchange is done, when the process is gone.

## 4. Where the code differs from what it says

Two disagreements have a run that violates a property a comment of the code
states:

- `deleted_key`: `process_run` (`lsm_tree.cpp:200`) answers nothing for a
  tombstone and the search goes on to older runs, so a deleted key is found again
  once its tombstone has left the buffer ("This function deletes a key", 333).
- `every_poll_answered`: the handler's `Processing` (`server.cpp:229-231`) can
  overwrite an answer, and the client then polls without end ("periodically check
  for results", `client.cpp:30`).

The models hold others as the code has them; the properties above are stated of
the program with these behaviours, and no property says that they do not occur:

- `load_full_file` (`lsm_tree.cpp:1153-1171`) loses the entries of a last page that
  is not full and makes up entries of key 0 and value 0 in their place, with
  deletion flags from an uninitialised word; that of a block loses them too and
  repeats an entry. `LoadFullFile` and `LoadBlock` say exactly which.
- `range_disk_search` (`run.cpp:128-175`) and `range_block_search` decode page
  `i - 1` when they visit page `i`, and compare the place in the file with the size
  of a page: a file of one page is never decoded, others in part. They also take a
  key for a page number (140). "All values within range" (`lsm_tree.cpp:213`) is not
  what they give: `RangeReturnsSaved` says only that nothing is made up.
- The handler of q (`server.cpp:216-226`) stops the server before it queues the
  task that saves, and `main` does not wait for the worker: what was put may not be
  saved. `main` deletes the tree while the worker may be at a command, and the
  worker goes on with the deleted one (`server.cpp:256`); the "Global mutex for
  LSM_Tree access" (18) is never locked. `SaveHasEarlierPuts` is of a save made
  before that and not cut by the end of the process.
- The server's command r swaps the ends of a range that are the wrong way round by
  `key_a = key_b; key_b = key_a` (`server.cpp:76-77`), which makes them equal.
- `flush_buffer` (`buffer_level.h:140`) drops a tombstone with the put before it,
  so a deleted key that an older run holds is found again after a save and a start.
  `RestartKeepsAnswers` is of the other keys, and of these says that no put which
  the tombstone deleted comes back.
- A compaction (`lsm_tree.cpp:447`) removes files the last saved meta file names;
  after an end other than q the next start can load runs without files.
  `FilesAreRuns` is therefore stated for orderly ends.
- `insert_block` links only the first of the new blocks that go in front of the
  list (`level_run.cpp:85`); the others are lost, and `ReadableKeysStay` leaves their
  keys out. It inserts between the posts of the last block through a null pointer
  (`level_run.cpp:97`), and cuts a block without entries when the last one is filled
  exactly (`level_run.cpp:196`).
- What is flushed from a leveled level is put behind what arrives, the whole is
  sorted by key alone (`lsm_tree.cpp:561`), and the later of two copies stays
  (`level_run.cpp:55`): an update that meets the flush of an older version can be
  lost. `FirstLevelIsNewest` and `GetIsLastWrite` are of one leveled level.
- `Level_Run::get` in a level without blocks reads the posts of the root block, which
  nobody has set (`level_run.cpp:398`). It passes over the block, as `LevelGet` does,
  or the process ends there (`SearchEmptyEnds`).
- An early return of `get` (`lsm_tree.cpp:116`) abandons searches that hold iterators
  into the buffer or a level, and the pool runs them after the next write or, at
  the end, on what `~LSM_Tree` has deleted. `CompactionDrainsQueue` bounds them: none
  is queued when runs change, but one that runs may read what is cleared.
- After a request that was cut the library answers 400 and keeps the connection,
  reading the rest as further requests. The client (`client.cpp:20`) takes that
  response for the id of a task, an empty one, and polls for it without end; a
  poll without a response is a read through a null pointer (`client.cpp:35`). An
  answer is erased before it is sent (`server.cpp:242`), so one that is lost on the
  way is lost.

## 5. What is proved

For every value of the constants, from the assumptions the modules name, which
TLC evaluates in the runs:

| Module | Theorem | Says |
|---|---|---|
| `TieredTreeProofs` | `TypeCorrect`, `RecencyCorrect`, `GetCorrect`, `CountCorrect` | `[]TypeOK`, `[]RecencyOrder`, `[]GetIsNewestLive`, `[]RunsCountFlushes` |
| | `CopiesCorrect`, `NewestCorrect` | the action properties `NoCopyFromNowhere`, `NewestCopySurvives` |
| `TreeSearchProofs` | `SearchesCorrect`, `DrainsCorrect` | `[]SearchesAreSequential`, `CompactionDrainsQueue` |
| | `ImplementsTree`, `SearchedTreeCorrect` | the tree whose searches are split into tasks implements `TieredTree`, and so has its `GetIsNewestLive` |
| `LeveledLevelsProofs` | `OrderCorrect`, `LevelSearchCorrect` | `[]BlocksInOrder`, `[]GetFindsAllButLastPages` |
| | `FlushCorrect`, `NewestArrival`, `KeysStay` | `[]FlushStaysInList`, `[]FirstLevelIsNewest`, `ReadableKeysStay` |
| `LazyTreeProofs` | `TiersCorrect`, `AgeCorrect`, `GetLastCorrect` | `[]TiersWithinCutOff`, `[]RecencyOrder`, `[]GetIsLastWrite` |
| `PersistenceProofs` | `FilesCorrect`, `OrderCorrect`, `RestartCorrect` | `[]FilesAreRuns`, `[]RecencyOrder`, `RestartKeepsAnswers` |
| `PagedFileProofs` | `SearchCorrect`, `RangeCorrect`, `MemoryCorrect` | `[]SearchFindsSaved`, `[]RangeReturnsSaved`, `[]MemoryRoundTrip` |
| | `RunLoadCorrect` | `[]LoadMatchesTree` |
| | `BlockGetCorrect`, `BlockLoadCorrect` | `[]BlockGetMatchesLevels`, `[]BlockLoadMatchesLevels` |
| | `SortCorrect` | `[]MergedIsStableSort` of `BufferSort` |
| `ServerProofs` | `TypeCorrect`, `GetsCorrect`, `SavesCorrect`, `AnswersCorrect` | `[]TypeOK`, `[]GetSeesEarlierPuts`, `[]SaveHasEarlierPuts`, `[]AnswersAreOwn` |
| | `ImplementsQueue` | the initial state and every step of `Server` are those of `CommandQueue`, or a stutter |
| | `ServedCorrect` | `[]ServedOnce` of `HttpServer` |
| `HttpExchangeProofs` | `HandledCorrect`, `ResultCorrect` | `[]HandledWhole`, `[]ResultIsTrue` |

The assumptions are what the code takes for granted. Keys are a finite set of
integers with 0, sizes are positive, and the ratio is at least 2 (section 6 says
why). Of the words of an exchange: a command has no end of a line in it, since
`client.cpp` posts one line it has read (`CommandAssumption`), and an answer has no
CRLF, since the handlers end lines with a line feed alone (`AnswerAssumption`).

*Tree.* `RecencyOrder` is not inductive alone: a new write is newer than every copy
only if no copy has a version past the clock. `RecencyInv` adds that and the
types. A write in the buffer appends the clock's next version. A compaction
(`FlushRecency`) rests on three facts: each cell of the merged run comes from the
buffer or from the first merged run that holds the key (`MergeMapOrigin`); the
levels above the target are empty afterwards, those below unchanged, and the new
run is last in its level (`LevelsAfterShape`); so a run that stays was visited
after every merged one and is older. That the buffer's last write of a key is
its last write at all (`NextBufferHoldsLast`) is an invariant of its own and gives
`GetIsNewestLive`. The action properties need the types, and
`NewestCopySurvives` that no stamp of a last write is past the clock, so that a
write of a key changes `last`. `MergeMapNewest` says what a compaction puts in the
new run for a key whose newest copy it can read: that copy when it is in the
buffer or in a merged run, and otherwise nothing, with every run that holds the
key at or below the target.

`RunsCountFlushes` is inductive with the types. The levels above the target are
full, so they stand for one compaction less than a run of the target
(`FullWeight`), and pushing one there is carrying a digit (`PushedWeight`).

*Parallel searches.* `ImplementsTree` needs little: a task changes nothing that
`TieredTree` has, and a compaction is its step. That an answer is the sequential
one is `SearchInv`: every future is that of a task of the present stage, and one
that is ready has what the task can find in the tree as it is now (`FuturesInv`);
each task that is queued or runs is abandoned or awaited by exactly one future
(`PoolInv`), so no thread answers for another; a get has missed the key in every
place it has left behind (`SearchedInv`), a range has merged what the buffer has
(`MergedInv`). `DrainInv` is the argument for `CompactionDrainsQueue`: abandoned
tasks stand before all others in the queue, so once a task of a later operation
has been taken none is queued, and a compaction waits for tasks of its own
before it changes the levels.

*Leveled levels.* `LevelsInv` has the types, that no block is empty, that the
blocks of each list are in order (`Ordered`) until a load makes an entry up, and
`FirstLevelIsNewest`. An insertion replaces consecutive blocks, those whose posts
reach into the content; because the list is ordered everything left of them is
below the content and everything right of them above, so the pieces cut from the
merged content fit in between. The pieces are cut by rank; `KeyRanks`, by induction
on the number of keys, says that ranks are a bijection in key order. A flush takes
consecutive blocks behind the first: it takes as many as the level has above the
threshold, from a start that is at most the threshold (`FlushCorrect`).
`LevelSearchCorrect` is the order again: a walk that ends at a block that begins
above the key has passed the only block the key can be in.

*Mode 1.* `TiersInv` adds to `TiersWithinCutOff` that the tiers are a sequence of
sequences. The cascade stops at a level with room (`TargetHasRoom`); a merge adds
one run there and empties the levels above, a merge past the cut-off empties all.
The other two theorems take the tiers to be a `TieredTree` and the levels below to
be `LeveledLevels`, and use what is proved of both. `LazyInv` joins their
invariants by `AgeInv`: of each key but 0, what the leveled levels hold is older
than all that buffer and tiers hold, and no version is past the clock. A merge of
all tiers keeps it since it leaves nothing in the tiers and the buffer but the
write that caused it. `GetIsLastWrite` follows from it with `FirstLevelIsNewest`
and `BufferHoldsLast`: the last write is the newest copy, so if it is a put in the
tree the search meets it before every other copy.

*Persistence.* `FilesAreRuns` is not inductive: a start replaces the structure by
that of the meta file. `FilesInv` carries the shape and the names of both: in each,
every run has a name, no name is used twice, and every name is one that was given
out (`Placed`); and while every end was a q, the disk is what the meta file names.
`PushingPlaces` takes this through a compaction, where the names move by the same
operator as the runs.

`RecencyOrder` needs the order of age of all that a start can load, in `AgeInv`:
the buffer and the memory file are in order, the runs of the tree and of the meta
file are, and the runs of the meta file are older than the memory file's entries
*and* than the present buffer. The last is what the order of the writes of
`exit_save` needs: a save that is cut after the memory file leaves the new buffer
beside the levels of an earlier save. `FlushFacts` says what `flush_buffer` keeps,
by induction over the buffer (what it keeps of a key is its last entry or
nothing), and `SortedFacts` that the saved vector has each of these keys once.

`RestartKeepsAnswers` adds `SavedInv`: between a q and the next start the files
are those of the state the program ended in. A get then answers what
`flush_buffer` kept of the key, else what the runs answer (`StartGet`). For a key it
has not dropped that is the answer before; for a dropped one it is the tombstone
or a copy of a run, which `AgeInv` says is older than every entry of the buffer,
so never a put that the tombstone deleted there.

*Files.* `FileInv` is short, and inductive since a step writes a whole file: the
entries are a vector the program can save, the file is its words (`Words`), and the
fence is the one its kind of file gets. The work is in what it implies. `EntryPlace`
and `WordsFacts` say where entry i and the word of bits of each page stand in the
file, the last page included, and `ReadFacts` what a reader gets there.
`FenceSearch` says what a search of the fence returns: the page between whose posts
the key lies, which is the only page the key can be in (`FenceFinds`). The loaders
are recursive functions over the pages, followed by induction: `MemoryRead` finds
the whole vector; `RunLoaded` and `BlockLoaded` find the full pages as they were
written (`FullReads`), and behind them, where the stream has failed, made-up entries
only. That these are what `TieredTree` and `LeveledLevels` take a load to be rests
on `SavedRanks`: in a sorted vector, the rank of a key among the keys of the run is
its place. So the abstraction of the files in the modules of the tree holds for
every size of a page and every content, not only where `paged_file` compares.

*Sort.* `SortInv` says that what a worker has made of a part, and what the tree's
thread has merged of the first parts, is the stable sort (`SortOf`) of those entries
of the buffer. `MergeFacts` follows the loop of `merge_s`: after l entries of the
left and r of the right vector, what is merged is these, in order, and comes before
the rest of both (`Merged`); of two entries with one key the left one is the older,
since every entry of the left vector was written before all of the right.
`MergeSortFacts` is induction on the length of a stretch, `PartEnds` the arithmetic
of `splitVector`, and `FillFacts` says that `merge_map` keeps the last entry of each
key, which the order of the merged vector makes the key's last write.

*Server.* `TypeOK` is inductive with what it says of tasks: a handler takes the
task its client posted through every step, also when the client has given up, and
a queue of tasks gives the worker one. `OrderInv` says of every put that was
replied to that it is in the queue, with the worker or in the tree, and of every
task in the queue that the puts before it are in the tree or ahead of it; it
gives both ordering properties. It is kept until a command runs on the deleted
tree, and from then on `dangling` holds (`DanglingStays`): the invariant is
`ServerInv`, the types, `IdsKnown`, and `dangling` or `OrderInv`. `IdsKnown` says that
nobody has an id that was not handed out, deleted tree or not. `OwnInv` says that
the copies of one task, in the queue, at the worker and at the client, agree, and
that what is stored under its id is its answer; it gives `AnswersAreOwn`.
`ImplementsQueue` needs only the types: a step of a handler that pushes is `Take`,
one of the worker that executes is `Perform`, the deletion of the tree is `Close`,
a command on the deleted tree is `Discard`, a pop moves the task within `pending`.

*HTTP server.* `ServedOnce` speaks of requests and of the end only. `ServeInv` adds
that a connection has one place at a time, in the backlog, in the pool's queue
or with one thread (`OnePlace`), that its request is not handled before it has
left the queues (`HandledLast`), that an open connection has a place
(`OpenHasPlace`), and that things stop in the order socket, accepting, threads
(`StopsInOrder`). When all threads are gone both queues are empty, so no
connection is open.

*An exchange.* What a handler is given depends on how much of the text the client
has sent, the network has delivered and the server has read, in any cut.
`RequestInv` says where the server is in that text: there are places p and q such
that all up to q is sent, the words from p to q are on the wire, and the line,
headers and body the server has are what stands before p (`Sent`, `Read`). A
handler is called only at the end of the headers of a GET or of the whole body
of a POST. After a request that was refused the server reads on in the rest of
the text, where no line starts another request, since a command is one line:
so there is no second call. `HandledInv` says that after a call the server only
answers and closes. The other direction is the same argument over the response:
`HeadInv` and `ContentInv` say which prefix of it the client has, `ResultInv` what a
result means.

Only model-checked:

- Liveness under fairness and what needs ENABLED, which is beyond TLAPS:
  `AnsweredUnlessOverwritten`, `EveryOperationReturns`,
  `PoolIsJoined`, `RequestsEnd`, `StopEndsListen`, `SidesEnd`, and the fairness part of
  `IsCommandQueue`, whose safety part is `ImplementsQueue`.

Every other property of the runs that pass is a theorem. The two runs that expect
a violation have none. Where the code recurs (`Power`, `FlushBuffer`, `MergeSort`,
the loaders) the modules use recursive functions, and the proofs argue by
induction with a set of numbers (`Induct`) or show that the function exists
(`Recursion`, `SortSteps`), as the induction theorems of the library cannot be used.

## 6. What is not modelled, and why

- Outcomes of a data race: the worker's accesses to the map `results` take
  another mutex than the handlers' (`server.cpp:152, 203`). The model takes each
  access as one step; what a race can do to a `std::map` the source does not say.
  The same holds of what an abandoned search reads of a cleared vector. Of what the
  worker finds in a deleted tree `Server` has part of the puts or the end of the
  process, and no other harm.
- More than one handler at work for one client: after a timeout a client of `Server`
  posts again when the handler it left behind is done. In `HttpServer` every
  connection is a client of its own, so there a handler left behind does not keep
  the next request back.
- Ids of tasks and names of files are distinct; the code draws them from clocks
  and an uninitialised counter (`server.cpp:179`).
- Failures to open or write a file, and memory.
- Saves and restarts of mode 1 (`lsm_tree.cpp:828-910, 1047-1133`), whose reader
  uses a variable that most lines do not set.
- `Level_Run::range_search`, which collects `range_block_search` of every block.
- In `Persistence`: a start from an empty meta file, which takes the sizes of the
  tree from uninitialised variables; a memory file cut short within its entries;
  the new run's file a cut compaction leaves behind, which nothing names; other
  parameters given to a fresh start. The server never loads a saved tree.
- A `level_ratio` of 1, with which every level is full when it is made and the
  cascade never ends; no document of the repository says which ratios are allowed.
- A Bloom filter lets every key of its file through; a false positive costs a
  search of a page that lacks the key, and changes no answer. That the filter has
  no false negatives is taken as given.
- The server's commands r, d, l and s, which take the path of p and g.
- Of the HTTP library: TLS, compression, multipart, ranges, chunked bodies,
  redirects, proxies, URL coding; nothing the program uses.
- Formatting, timing, statistics, the experiment scripts, the hash functions.
- `merge` (`lsm_tree.cpp:585-619`) and `get_range` (`buffer_level.h:86-111`), which
  nothing calls.

## 7. The plan

Left, in this order: a module for the words of the Bloom filter, with no false
negatives after a save and a start; the restart of mode 1; `range` of mode 1.
