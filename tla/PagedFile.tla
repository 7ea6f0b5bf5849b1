------------------------------- MODULE PagedFile --------------------------------
(***************************************************************************)
(* The binary files of the tree, word by word: how save_to_memory and      *)
(* exit_save_memory lay sorted entries out in pages, and how disk_search,  *)
(* range_disk_search, load_full_file and load_memory read them back        *)
(* (src/lsm_tree.cpp, src/run.cpp); and how the blocks of a leveled level, *)
(* which have the same layout, are written and read (src/level_run.cpp).   *)
(*                                                                         *)
(* A file is a sequence of words of 8 bytes, the unit of every offset in   *)
(* the code: an entry's key and value, or the deletion bits of a page.     *)
(* A full page is PageSize entries and their bits; the last page of a file *)
(* may have fewer entries.  Positions in files count from 0, as offsets do.*)
(***************************************************************************)
EXTENDS Integers, Sequences, FiniteSets

CONSTANTS Keys,     \* the keys in use, a finite subset of KEY_t
          PageSize  \* entries in a page, SAVE_MEMORY_PAGE_SIZE / 8 in the code

ASSUME KeysAssumption == Keys \subseteq Int /\ 0 \in Keys /\ IsFiniteSet(Keys)
ASSUME PageAssumption == PageSize \in Nat \ {0}

VARIABLES kind,     \* whose file: a run's, a block's or the buffer's
          entries,  \* ghost: the entries last written to the file
          file,     \* the words of the file
          fence     \* the fence pointers of a run or a block
vars == <<kind, entries, file, fence>>

LoadPage == PageSize + 1  \* LOAD_MEMORY_PAGE_SIZE
Bits == [1..PageSize -> BOOLEAN]

\* The vectors create_run and exit_save_memory write: sorted, keys distinct.
\* ver tells the values apart; 0 is the value of an entry no write stored.
Vector(keys, dels) == [i \in DOMAIN keys |-> [key |-> keys[i], ver |-> i, del |-> dels[i]]]
Vectors ==
  UNION {{Vector(keys, dels) :
            keys \in {f \in [1..n -> Keys] : \A i, j \in 1..n : i < j => f[i] < f[j]},
            dels \in [1..n -> BOOLEAN]} : n \in 0..Cardinality(Keys)}

WordAt(pos) == file[pos + 1]
Size == Len(file)
-----------------------------------------------------------------------------
(* Writing *)

Pages(v) == (Len(v) + PageSize - 1) \div PageSize

\* The deletion bits of page i (from 0), padded with zeros.
BitsOf(v, i) == [b \in 1..PageSize |-> i * PageSize + b <= Len(v) /\ v[i * PageSize + b].del]

Words(v) ==
  [w \in 1..Len(v) + Pages(v) |->
     LET page == (w - 1) \div LoadPage
         slot == ((w - 1) % LoadPage) + 1
     IN  IF slot = LoadPage \/ w = Len(v) + Pages(v)
         THEN [bits |-> BitsOf(v, page)]
         ELSE [key |-> v[page * PageSize + slot].key, ver |-> v[page * PageSize + slot].ver]]

\* The first key of each page: the fence pointers of a block.
BlockFence(v) == [i \in 1..Pages(v) |-> v[(i - 1) * PageSize + 1].key]

\* The first key of each page, and the last key of all.
Fence(v) == [i \in 1..Pages(v) + 1 |-> IF i <= Pages(v) THEN v[(i - 1) * PageSize + 1].key
                                       ELSE v[Len(v)].key]

\* create_run hands save_to_memory a vector that is never empty.
SaveToMemory(v) == /\ v # <<>>
                   /\ kind' = "run"
                   /\ entries' = v
                   /\ file' = Words(v)
                   /\ fence' = Fence(v)

\* process_block pushes no last key; an empty block ends the process.
ProcessBlock(v) == /\ v # <<>>
                   /\ kind' = "block"
                   /\ entries' = v
                   /\ file' = Words(v)
                   /\ fence' = BlockFence(v)

ExitSaveMemory(v) == /\ kind' = "buffer"
                     /\ entries' = v
                     /\ file' = Words(v)
                     /\ fence' = <<>>

Init == kind = "buffer" /\ entries = <<>> /\ file = <<>> /\ fence = <<>>
Next == \E v \in Vectors : SaveToMemory(v) \/ ProcessBlock(v) \/ ExitSaveMemory(v)
Spec == Init /\ [][Next]_vars
-----------------------------------------------------------------------------
(* Point search in a run *)

Least(S) == CHOOSE i \in S : \A j \in S : i <= j

\* Fault: no special case for the last fence pointer.
SearchBlockFence(k) ==
  LET within == {i \in 1..Len(fence) - 1 : fence[i] <= k /\ k < fence[i + 1]}
  IN  IF within # {} THEN Least(within) - 1 ELSE -1

\* The page (from 0) a key belongs to, or -1.
SearchFence(k) ==
  LET n == Len(fence)
      within == {i \in 1..n - 1 : fence[i] <= k /\ k < fence[i + 1]}
  IN  IF within # {} THEN Least(within) - 1
      ELSE IF n > 0 /\ k = fence[n] THEN n - 2
      ELSE -1

\* The number of words to read of a page, as disk_search works it out.
ReadSize(page) == IF (page + 1) * LoadPage > Size THEN Size - page * LoadPage ELSE LoadPage

\* The first entry of the page with key k; the set is empty for nullptr.
DiskSearch(page, k) ==
  LET size == ReadSize(page)
      bits == WordAt(page * LoadPage + size - 1).bits
      hits == {s \in 0..size - 2 : WordAt(page * LoadPage + s).key = k}
  IN  {[key |-> k, ver |-> WordAt(page * LoadPage + s).ver, del |-> bits[s + 1]] :
         s \in {t \in hits : t = Least(hits)}}

\* process_run up to its test of the deletion flag.  The Bloom filter has no
\* false negatives, and what it lets through by mistake the page lacks.
SearchRun(k) == IF SearchFence(k) = -1 THEN {} ELSE DiskSearch(SearchFence(k), k)

\* Fault: the posts of a block are not tested.
BlockGetNoPosts(k, bit) ==
  IF SearchFence(k) = -1 THEN {[key |-> k, ver |-> 0, del |-> bit]} ELSE DiskSearch(SearchFence(k), k)

\* What get makes of a block.  A page of -1 is read before the file: that fails,
\* and the zeroed entry it leaves, with an uninitialised deletion bit, answers 0.
BlockGet(k, bit) ==
  IF k < fence[1] \/ k > fence[Len(fence)] THEN {}
  ELSE IF SearchFence(k) # -1 THEN DiskSearch(SearchFence(k), k)
  ELSE IF k = 0 THEN {[key |-> 0, ver |-> 0, del |-> bit]} ELSE {}
-----------------------------------------------------------------------------
(* Range search in a run or a block *)

\* The pages the loop visits, from the fence pointers' answers.
RangePages(lower, upper) ==
  LET left == SearchFence(lower)
      right == SearchFence(upper)
      back == fence[Len(fence)]
      visit(from, to) == {i \in from..to - 1 : i * LoadPage < Size}
  IN  CASE left = -1 /\ right = -1 -> IF lower < fence[1] /\ upper > back
                                      THEN visit(0, Len(fence) - 1) ELSE {}
        [] left # -1 /\ right = -1 -> visit(left, back)  \* a key, used as a page
        [] left = -1 /\ right # -1 -> visit(0, right)
        [] OTHER -> visit(left, right)

\* Fault: the lower bound is not tested.
RangeNoLower(lower, upper) ==
  LET slots(i) == IF i = 0 THEN {} ELSE (i - 1) * LoadPage .. ReadSize(i) - 2
      bits(i) == WordAt(i * LoadPage + ReadSize(i) - 1).bits
      decode(i, w) == [key |-> WordAt(w).key, ver |-> WordAt(w).ver,
                       del |-> bits(i)[w - (i - 1) * LoadPage + 1]]
      found == UNION {{decode(i, w) : w \in slots(i)} : i \in RangePages(lower, upper)}
  IN  {e \in found : ~e.del /\ e.key <= upper}

\* The visit of page i reads the deletion bits of page i and decodes the words
\* from the start of page i - 1 on; the signed index -LoadPage of page 0
\* compares as a huge unsigned number, so that visit decodes nothing.
RangeDiskSearch(lower, upper) ==
  LET slots(i) == IF i = 0 THEN {} ELSE (i - 1) * LoadPage .. ReadSize(i) - 2
      bits(i) == WordAt(i * LoadPage + ReadSize(i) - 1).bits
      decode(i, w) == [key |-> WordAt(w).key, ver |-> WordAt(w).ver,
                       del |-> bits(i)[w - (i - 1) * LoadPage + 1]]
      found == UNION {{decode(i, w) : w \in slots(i)} : i \in RangePages(lower, upper)}
  IN  {e \in found : ~e.del /\ lower <= e.key /\ e.key <= upper}

\* range_block_search is the same search of a block's file, but for its result, a
\* map by key.
BlockRange(lower, upper) == RangeDiskSearch(lower, upper)
-----------------------------------------------------------------------------
(* Loading a run for compaction *)

\* Fault: the deletion bits are taken from the other end.
LoadTurnReversed(i, good, junk) ==
  LET size == IF i * LoadPage > Size THEN Size - (i - 1) * LoadPage ELSE LoadPage
      ok == good /\ i * LoadPage + size - 1 < Size
      bits == IF ok THEN WordAt(i * LoadPage + size - 1).bits ELSE junk[i % 2]
      word(s) == IF ok THEN WordAt(i * LoadPage + s - 1) ELSE [key |-> 0, ver |-> 0]
  IN  [good |-> ok,
       read |-> [s \in 1..size - 1 |-> [key |-> word(s).key, ver |-> word(s).ver,
                                       del |-> bits[PageSize + 1 - s]]]]

\* load_full_file takes a turn per fence pointer, one more than there are
\* pages.  A read that reaches the end of the file leaves the stream failed for
\* good: the deletion bits keep what the uninitialised word held (junk) and the
\* page buffer its zeros, which decode as entries of key 0 and value 0.  At
\* most the last two turns fail, so two words of junk are enough.
LoadTurn(i, good, junk) ==
  LET size == IF i * LoadPage > Size THEN Size - (i - 1) * LoadPage ELSE LoadPage
      ok == good /\ i * LoadPage + size - 1 < Size
      bits == IF ok THEN WordAt(i * LoadPage + size - 1).bits ELSE junk[i % 2]
      word(s) == IF ok THEN WordAt(i * LoadPage + s - 1) ELSE [key |-> 0, ver |-> 0]
  IN  [good |-> ok,
       read |-> [s \in 1..size - 1 |-> [key |-> word(s).key, ver |-> word(s).ver, del |-> bits[s]]]]

LoadFullFile(junk) ==
  LET load[n \in 0..Len(fence)] ==
        IF n = 0 THEN [good |-> TRUE, buffer |-> <<>>]
        ELSE LET turn == LoadTurn(n - 1, load[n - 1].good, junk)
             IN  [good |-> turn.good, buffer |-> load[n - 1].buffer \o turn.read]
  IN  load[Len(fence)].buffer
-----------------------------------------------------------------------------
(* Loading a block for compaction *)

\* Fault: the turn past a full page reads no further than the file.
LoadShortTurn(i, buffer, made, bits) ==
  buffer \o [s \in 1..ReadSize(i) - 1 |->
               [key |-> WordAt(i * LoadPage + s - 1).key, ver |-> WordAt(i * LoadPage + s - 1).ver,
                del |-> WordAt(i * LoadPage + ReadSize(i) - 1).bits[s]]]

\* The other load_full_file: a turn for each page, each of a full page.  When a
\* last page is shorter the reads fail, and the entry read before, or what the
\* uninitialised one holds (made), is pushed once for each slot of the page.
BlockTurn(i, buffer, made, bits) ==
  LET ok == (i + 1) * LoadPage <= Size
      left == IF buffer = <<>> THEN made ELSE buffer[Len(buffer)]
      word(s) == IF ok THEN WordAt(i * LoadPage + s - 1) ELSE left
      flags == IF ok THEN WordAt(i * LoadPage + PageSize).bits ELSE bits
  IN  buffer \o [s \in 1..PageSize |-> [key |-> word(s).key, ver |-> word(s).ver, del |-> flags[s]]]

LoadBlock(made, bits) ==
  LET load[n \in 0..Len(fence)] ==
        IF n = 0 THEN <<>> ELSE BlockTurn(n - 1, load[n - 1], made, bits)
  IN  load[Len(fence)]
-----------------------------------------------------------------------------
(* Loading the buffer's file at start *)

MemoryPage(i) ==
  LET size == ReadSize(i)
  IN  [s \in 1..(IF size > 0 THEN size - 1 ELSE 0) |->
         [key |-> WordAt(i * LoadPage + s - 1).key,
          ver |-> WordAt(i * LoadPage + s - 1).ver,
          del |-> WordAt(i * LoadPage + size - 1).bits[s]]]

\* Fault: a last page that is not full is left out.
LoadMemoryFullPages ==
  LET total == Size \div LoadPage
      load[n \in 0..total] == IF n = 0 THEN <<>> ELSE load[n - 1] \o MemoryPage(n - 1)
  IN  load[total]

LoadMemory ==
  LET total == Size \div LoadPage + 1
      load[n \in 0..total] == IF n = 0 THEN <<>> ELSE load[n - 1] \o MemoryPage(n - 1)
  IN  load[total]
-----------------------------------------------------------------------------
(* Properties *)

\* The run as module TieredTree sees it.
T == INSTANCE TieredTree WITH
       BufferSize <- 1, LevelRatio <- 2, MaxWrites <- 0,
       store <- <<>>, levels <- <<>>, clock <- 0, last <- <<>>, flushes <- 0

\* The block as module LeveledLevels sees it.
L == INSTANCE LeveledLevels WITH
       BufferSize <- 1, LevelRatio <- 2, LazyCutOff <- 1, Partitions <- 1, MinBatch <- 1,
       MaxArrivals <- 0, leveled <- <<>>, up <- TRUE, madeUp <- FALSE, dropped <- {}, handed <- <<>>

AsRun(v) == [k \in Keys |-> IF \E i \in DOMAIN v : v[i].key = k
                            THEN T!CellOf(v[CHOOSE i \in DOMAIN v : v[i].key = k])
                            ELSE T!None]

IsRun == kind = "run"
IsBlock == kind = "block"
Junk == [0..1 -> Bits]

\* A point search of a run finds each key the run was created with, with its
\* value and deletion flag, on whatever page it lies, first and last of its
\* page or of the file, and finds no other key: the fence pointers, the size
\* of a last page and the order of the packed deletion bits agree between
\* save_to_memory (687-761) and search_fence and disk_search (run.cpp:38-114).
SearchFindsSaved ==
  IsRun => \A k \in Keys :
             SearchRun(k) = {entries[i] : i \in {j \in DOMAIN entries : entries[j].key = k}}

\* What a compaction keeps of a loaded file, the first entry of each key, is
\* what module TieredTree takes it to be: the entries of the full pages and
\* the made-up entry of key 0 (load_full_file 1139-1190).
LoadMatchesTree ==
  IsRun => \A junk \in Junk :
             LET buffer == LoadFullFile(junk)
                 keys == {buffer[i].key : i \in DOMAIN buffer}
                 first(k) == buffer[Least({i \in DOMAIN buffer : buffer[i].key = k})]
                 kept == [k \in Keys |-> IF k \in keys THEN T!CellOf(first(k)) ELSE T!None]
             IN  \E bit \in BOOLEAN : kept = T!LoadFullFile(AsRun(entries), bit)

\* A get in a block finds what module LeveledLevels takes it to find, whatever
\* the key, but for the entry of key 0 that a failed read can make up
\* (level_run.cpp:398-410, 418-494).
BlockGetMatchesLevels ==
  IsBlock => \A k \in Keys, bit \in BOOLEAN :
    IF L!Searched(AsRun(entries), k)
    THEN BlockGet(k, bit) = {entries[i] : i \in {j \in DOMAIN entries : entries[j].key = k}}
    ELSE BlockGet(k, bit) = {} \/ (k = 0 /\ fence = <<0>>)

\* What a compaction keeps of a loaded block is what module LeveledLevels takes
\* it to be, deletion flags of made-up entries aside: each entry of a full page,
\* and one made up only when there is no full page (level_run.cpp:141-189).
BlockLoadMatchesLevels ==
  IsBlock => \A key \in Keys, bits \in Bits :
    LET buffer == LoadBlock([key |-> key, ver |-> 0], bits)
        keys == {buffer[i].key : i \in DOMAIN buffer}
        first(k) == buffer[Least({i \in DOMAIN buffer : buffer[i].key = k})]
        model == L!LoadBlock(AsRun(entries), key)
    IN  \A k \in Keys :
          /\ (k \in keys) = (model[k] # T!None)
          /\ k \in keys =>
               /\ first(k).ver = model[k].ver
               /\ first(k).ver = 0 \/ first(k).del = model[k].del

\* A range search decodes no deletion bits as an entry and makes none up: what
\* it returns are keys of the run within the bounds, with the value saved for
\* them (range_disk_search, run.cpp:117-190, range_block_search,
\* level_run.cpp:520-602).
RangeReturnsSaved ==
  kind # "buffer" => \A lower, upper \in Keys :
             \A e \in IF IsBlock THEN BlockRange(lower, upper) ELSE RangeDiskSearch(lower, upper) :
               /\ lower <= e.key /\ e.key <= upper
               /\ \E i \in DOMAIN entries : entries[i].key = e.key /\ entries[i].ver = e.ver

\* load_memory reads back exactly what exit_save_memory wrote, in order and
\* with the deletion flags, for an empty buffer and a full last page too.
MemoryRoundTrip == kind = "buffer" => LoadMemory = entries
=============================================================================
