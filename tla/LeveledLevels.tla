------------------------------ MODULE LeveledLevels ------------------------------
(***************************************************************************)
(* The leveled levels of the optimised mode (mode = 1): src/level_run.cpp, *)
(* src/level_run.h and the part of merge_policy that drives them           *)
(* (src/lsm_tree.cpp:527-567).  A level is a linked list of blocks in key  *)
(* order, each a file with a Bloom filter and fence pointers.  When the    *)
(* tiered levels above are full, their merged content arrives here: levels *)
(* with too many blocks first flush some, and what arrived is merged with  *)
(* what was flushed into the blocks it overlaps of the next level.         *)
(*                                                                         *)
(* A block is a function like a run of module TieredTree.  Module PagedFile*)
(* checks against the page code what loading and searching a block give.   *)
(* The code dereferences null pointers and takes the front of an empty     *)
(* vector in some of its branches: the process ends there.  Filters are    *)
(* taken to have bits (FPR * level_ratio^level below 1) and let no key of  *)
(* their block fail.                                                       *)
(***************************************************************************)
EXTENDS Integers, Sequences, FiniteSets

CONSTANTS Keys,        \* the keys in use, a finite subset of KEY_t
          LevelRatio,  \* level_ratio
          BufferSize,  \* buffer_size
          PageSize,    \* entries in a page (64 in the code)
          LazyCutOff,  \* the level of the first leveled level (2 in the code)
          Partitions,  \* leveling_partitions: blocks in the first leveled level
          MinBatch,    \* bound: the fewest keys one call of merge_policy brings
          MaxArrivals  \* bound: calls of merge_policy that reach these levels

ASSUME KeysAssumption == Keys \subseteq Int /\ 0 \in Keys /\ IsFiniteSet(Keys)
ASSUME SizeAssumption == /\ LevelRatio \in Nat \ {0, 1} /\ BufferSize \in Nat \ {0}
                         /\ PageSize \in Nat \ {0}      /\ LazyCutOff \in Nat \ {0}
                         /\ Partitions \in Nat \ {0}
                         /\ MinBatch \in Nat \ {0}     /\ MaxArrivals \in Nat

VARIABLES leveled,  \* the chains of blocks, from level_root; <<>> is an empty root block
          up,       \* the process runs
          madeUp,   \* ghost: a load made an entry up
          dropped,  \* ghost: keys of the blocks the last insertion cut off the list
          handed    \* ghost: the version of each key handed over last
vars == <<leveled, up, madeUp, dropped, handed>>

T == INSTANCE TieredTree WITH MaxWrites <- 0, store <- <<>>, levels <- <<>>,
                              clock <- 0, last <- <<>>, flushes <- 0
None == T!None
KeysOf(block) == T!KeysOf(block)
Block == T!Run

Least(S) == CHOOSE x \in S : \A y \in S : x <= y
Greatest(S) == CHOOSE x \in S : \A y \in S : y <= x
-----------------------------------------------------------------------------
(* Blocks *)

\* The page (from 0) a key of a block lies in.
PageOf(block, k) == (Cardinality({j \in KeysOf(block) : j <= k}) - 1) \div PageSize

LastPage(block) == (Cardinality(KeysOf(block)) - 1) \div PageSize

\* The fence posts of a block: the first key of its first and of its last page.
Lower(block) == Least(KeysOf(block))
Upper(block) == Least({k \in KeysOf(block) : PageOf(block, k) = LastPage(block)})

\* load_full_file reads full pages only.  Over a last page that is not full it
\* repeats the entry it read last; when there is none, an uninitialised one
\* with an arbitrary key (made).
LoadBlock(block, made) ==
  LET full == T!InFullPage(block)
  IN  [k \in Keys |-> IF k \in full THEN block[k]
                      ELSE IF full = {} /\ k = made THEN [ver |-> 0, del |-> FALSE]
                      ELSE None]

MakesUp(block) == Cardinality(KeysOf(block)) < PageSize

\* Keep-first merge of the blocks with indexes in I, in list order.
LoadBlocks(chain, I, made) ==
  LET loaded == [i \in I |-> LoadBlock(chain[i], made)]
      having(k) == {i \in I : loaded[i][k] # None}
  IN  [k \in Keys |-> IF having(k) = {} THEN None ELSE loaded[Least(having(k))][k]]

\* Fault: the loaded entries overwrite the new ones.
OverOld(new, old) == [k \in Keys |-> IF old[k] # None THEN old[k] ELSE new[k]]

Over(new, old) == [k \in Keys |-> IF new[k] # None THEN new[k] ELSE old[k]]
-----------------------------------------------------------------------------
(* Sizes *)

Level(i) == LazyCutOff + i - 1

\* max_size: the level's first argument, leveling_partitions times the level above.
MaxSize(i) == IF i = 1 THEN Partitions ELSE Partitions * Level(i - 1)

Threshold(i) == (MaxSize(i) * 2) \div 3

\* block_entry_cnt of save_to_memory.
BlockEntries(i) == (T!Power[Level(i) + 1] * BufferSize) \div MaxSize(i) + 1

\* return_size counts the root block of an empty level.
ListSize(chain) == IF chain = <<>> THEN 1 ELSE Len(chain)

TooLarge(i) == ListSize(leveled[i]) > Threshold(i)

\* The level that receives what arrives: the first that is not too large.  One
\* is created under the last level when that is; a new one has room unless
\* Threshold is 0.
Receiver == CHOOSE i \in 1..Len(leveled) + 1 :
              /\ \A j \in 1..i - 1 : TooLarge(j)
              /\ i = Len(leveled) + 1 \/ ~TooLarge(i)
-----------------------------------------------------------------------------
(* Flushing the levels above the receiver *)

\* Fault: the first block can be flushed.
FlushedFromRoot(i, start) == start + 1 .. start + ListSize(leveled[i]) - Threshold(i)

\* The blocks flush takes from level i: as many as there are too many, behind
\* the block the random start leads to; the first block is never among them.
Flushed(i, start) ==
  LET front == IF start > 1 THEN start ELSE 1
  IN  front + 1 .. front + ListSize(leveled[i]) - Threshold(i)

\* Fault: the list is linked again one block too late.
KeptOneLess(i, start) ==
  LET first == Least(Flushed(i, start))
      count == Len(leveled[i]) - Threshold(i)
  IN  [j \in 1..Threshold(i) - 1 |-> leveled[i][IF j < first THEN j ELSE j + count + 1]]

\* What is left of level i.
Kept(i, start) ==
  LET first == Least(Flushed(i, start))
      count == Len(leveled[i]) - Threshold(i)
  IN  [j \in 1..Threshold(i) |-> leveled[i][IF j < first THEN j ELSE j + count]]

\* What partial_merge brings up from the levels above the receiver, an upper
\* level winning over a lower one.
Moved(starts, made) ==
  LET from == [i \in DOMAIN starts |-> LoadBlocks(leveled[i], Flushed(i, starts[i]), made)]
      having(k) == {i \in DOMAIN starts : from[i][k] # None}
  IN  [k \in Keys |-> IF having(k) = {} THEN None ELSE from[Least(having(k))][k]]

\* What is left to chance: where each flush starts, and the key of the entry
\* that loading these blocks makes up (one stands for all of them).
Starts == {s \in [1..Receiver - 1 -> 0..Threshold(Receiver)] :
             \A i \in DOMAIN s : s[i] <= Threshold(i)}
Made(blocks) == IF \E block \in blocks : MakesUp(block) THEN Keys ELSE {0}

\* merge_buffer is sorted by key alone, and insert_block keeps the later of two
\* copies: of the keys that arrive and are flushed, some (older) stay as flushed.
Content(batch, moved, older) ==
  [k \in Keys |-> IF batch[k] # None /\ k \notin older THEN batch[k] ELSE moved[k]]
-----------------------------------------------------------------------------
(* Inserting into the receiver *)

Chain == IF Receiver > Len(leveled) THEN <<>> ELSE leveled[Receiver]

Above(key) == {i \in DOMAIN Chain : Lower(Chain[i]) > key}

\* Fault: the search does not step back to the block before.
FrontTooLate(left, right) ==
  IF Above(left) # {} THEN Least(Above(left))
  ELSE IF Chain # <<>> /\ Upper(Chain[Len(Chain)]) < right THEN Len(Chain)
  ELSE 0

\* The first block to merge with, 0 when none is found.
Front(left, right) ==
  IF Above(left) # {} THEN IF Least(Above(left)) > 1 THEN Least(Above(left)) - 1 ELSE 1
  ELSE IF Chain # <<>> /\ Upper(Chain[Len(Chain)]) < right THEN Len(Chain)
  ELSE 0

\* The first block behind those to merge with, 0 for the end of the list.
Back(right) == IF Above(right) # {} THEN Least(Above(right)) ELSE 0

Overlapped(content) ==
  LET right == Greatest(KeysOf(content))
      front == Front(Lower(content), right)
      back == Back(right)
  IN  IF front = back THEN {} ELSE front .. (IF back = 0 THEN Len(Chain) ELSE back - 1)

\* The blocks save_to_memory cuts a sorted vector into.
Cut(content) ==
  LET n == BlockEntries(Receiver)
      rank(k) == Cardinality({j \in KeysOf(content) : j <= k})
  IN  [b \in 1..Cardinality(KeysOf(content)) \div n + 1 |->
         [k \in Keys |-> IF content[k] # None /\ (rank(k) - 1) \div n = b - 1
                         THEN content[k] ELSE None]]

\* The last block would be empty: process_block takes the front of no fence pointers.
CutsEmptyBlock(content) == Cardinality(KeysOf(content)) % BlockEntries(Receiver) = 0

\* The levels once the receiver holds chain and those above it are flushed.
LevelsWith(chain, starts) ==
  [i \in 1..(IF Receiver > Len(leveled) THEN Receiver ELSE Len(leveled)) |->
     IF i < Receiver THEN Kept(i, starts[i])
     ELSE IF i = Receiver THEN chain ELSE leveled[i]]
-----------------------------------------------------------------------------
(* Operations *)

Init == /\ leveled = << <<>> >>
        /\ up = TRUE
        /\ madeUp = FALSE
        /\ dropped = {}
        /\ handed = [k \in Keys |-> 0]

\* Record what arrived and what the loads of this call made up.
Note(batch, loaded) ==
  /\ handed' = [k \in Keys |-> IF batch[k] # None THEN batch[k].ver ELSE handed[k]]
  /\ madeUp' = (madeUp \/ \E block \in loaded : MakesUp(block))

FlushedBlocks(starts) == UNION {{leveled[i][j] : j \in Flushed(i, starts[i])} : i \in DOMAIN starts}

\* flush runs off the list: the size left is 0, but the first block stays.
FlushEnds(starts) == \E i \in DOMAIN starts : ~(Flushed(i, starts[i]) \subseteq DOMAIN leveled[i])

\* insert_block: content are its keys, over the blocks it is merged with.
InsertIntoEmpty(starts, content) ==
  /\ Chain = <<>>
  /\ leveled' = LevelsWith(Cut(content), starts)
  /\ dropped' = {}

\* Every block is above the content.  The link from the first new block to the
\* old list overwrites its link to the other new blocks.
InsertBefore(starts, content) ==
  LET right == Greatest(KeysOf(content))
  IN  /\ Chain # <<>> /\ Front(Lower(content), right) = 1 /\ Back(right) = 1
      /\ leveled' = LevelsWith(<<Cut(content)[1]>> \o Chain, starts)
      /\ dropped' = KeysOf(content) \ KeysOf(Cut(content)[1])

\* The new blocks replace those they were merged with.
InsertOver(starts, over, merged) ==
  /\ over # {}
  /\ leveled' = LevelsWith(SubSeq(Chain, 1, Least(over) - 1) \o Cut(merged)
                             \o SubSeq(Chain, Greatest(over) + 1, Len(Chain)), starts)
  /\ dropped' = {}

\* The content lies between the posts of the last block: insert_block walks to
\* the end of the list and links the new blocks to the null it finds there.
InsertBehindEnds(content) ==
  Chain # <<>> /\ Front(Lower(content), Greatest(KeysOf(content))) = 0

InsertEnds(content, merged) ==
  InsertBehindEnds(content) \/ CutsEmptyBlock(merged)

End == up' = FALSE /\ UNCHANGED <<leveled, madeUp, dropped, handed>>

Insert(batch, starts, content) ==
  LET over == Overlapped(content)
      blocks == {Chain[i] : i \in over}
  IN  \E merged \in {Over(content, LoadBlocks(Chain, over, made)) : made \in Made(blocks)} :
        IF InsertEnds(content, merged) THEN End
        ELSE /\ \/ InsertIntoEmpty(starts, content)
                \/ InsertBefore(starts, content)
                \/ InsertOver(starts, over, merged)
             /\ Note(batch, FlushedBlocks(starts) \cup blocks)
             /\ UNCHANGED up

\* merge_policy hands the merged content of the tiered levels over.
Arrive(batch) ==
  /\ up
  /\ \E starts \in Starts :
       IF FlushEnds(starts) THEN End
       ELSE \E moved \in {Moved(starts, made) : made \in Made(FlushedBlocks(starts))} :
            \E content \in {Content(batch, moved, older) :
                            older \in SUBSET (KeysOf(batch) \cap KeysOf(moved))} :
              Insert(batch, starts, content)

\* A batch of some keys, newer than all before.  Nothing on these levels but a
\* range search looks at a deletion flag, so all are FALSE here.
Fresh(keys) ==
  LET newest == Greatest({handed[k] : k \in Keys})
  IN  [k \in Keys |-> IF k \in keys THEN [ver |-> newest + 1, del |-> FALSE] ELSE None]

\* get walks the root block of an empty level too, whose posts and filter nobody
\* has set: it passes over it, as LevelGet does, or the process ends there.
SearchEmptyEnds == up /\ (\E i \in DOMAIN leveled : leveled[i] = <<>>) /\ End

Next == \/ /\ \A k \in Keys : handed[k] < MaxArrivals
           /\ \E keys \in {S \in SUBSET Keys : Cardinality(S) >= MinBatch} : Arrive(Fresh(keys))
        \/ SearchEmptyEnds

Spec == Init /\ [][Next]_vars
-----------------------------------------------------------------------------
(* Level_Run::get changes nothing; its answer in a state, if it has one: an     *)
(* empty level's root block may end the process instead (SearchEmptyEnds)      *)

\* Fault: the walk ends at a block that begins with the key.
WalkedTooShort(chain, k) == {i \in DOMAIN chain : \A j \in 1..i : Lower(chain[j]) < k}

\* The walk ends at the first block that begins above the key.
Walked(chain, k) == {i \in DOMAIN chain : \A j \in 1..i : Lower(chain[j]) <= k}

\* search_fence knows no last key, so a block's last page is never searched.
Searched(block, k) == k \in KeysOf(block) /\ PageOf(block, k) < LastPage(block)

\* The entry of key 0 that searching a block of one page [0] can make up (module
\* PagedFile has it) is left out.
LevelGet(chain, k) ==
  LET hits == {i \in Walked(chain, k) : k <= Upper(chain[i]) /\ Searched(chain[i], k)}
  IN  IF hits = {} THEN None ELSE chain[Least(hits)][k]

Blocks(i) == {leveled[i][j] : j \in DOMAIN leveled[i]}
CopiesIn(i, k) == {block[k] : block \in Blocks(i)} \ {None}
Copies(k) == UNION {CopiesIn(i, k) : i \in DOMAIN leveled}
-----------------------------------------------------------------------------
(* Properties.  A made-up entry can break the order of a level's blocks, so   *)
(* what rests on the order is stated until one is made up.                    *)

\* The blocks of a level are not empty, and all keys of a block are below all
\* keys of the next: insert_block's fence posts (4-33) pick every block that
\* can hold a key of what it inserts, whatever was flushed or merged before.
BlocksInOrder ==
  ~madeUp => \A i \in DOMAIN leveled :
    /\ \A j \in DOMAIN leveled[i] : KeysOf(leveled[i][j]) # {}
    /\ \A j \in 1..Len(leveled[i]) - 1 :
         \A k \in KeysOf(leveled[i][j]), m \in KeysOf(leveled[i][j + 1]) : k < m

\* get (393-415) finds every key but 0 of a level that does not lie in the last page
\* of its block, and no other, though it skips by fence posts and stops early.
GetFindsAllButLastPages ==
  ~madeUp => \A i \in DOMAIN leveled, k \in Keys \ {0} :
    LET readable == {block \in Blocks(i) : Searched(block, k)}
    IN  IF readable = {} THEN LevelGet(leveled[i], k) = None
        ELSE LevelGet(leveled[i], k) \in {block[k] : block \in readable}

\* flush walks random blocks from the list without a test for its end (338-367,
\* "watch the off by one"): it stays in the list, and leaves the first block.
FlushStaysInList ==
  \A i \in DOMAIN leveled : TooLarge(i) /\ Threshold(i) > 0 =>
    \A start \in 0..Threshold(i) : Flushed(i, start) \subseteq 2..Len(leveled[i])

\* Compaction can read a copy of k back from some level.
Readable(k) == \E i \in DOMAIN leveled : \E block \in Blocks(i) : k \in T!InFullPage(block)

\* However blocks are flushed, merged and cut anew, a key that arrives or can
\* be read stays in the levels, unless its block is cut off by an insertion
\* in front of the list.
ReadableKeysStay ==
  [][\A k \in Keys : up' /\ (Readable(k) \/ handed'[k] # handed[k]) =>
       Copies(k)' # {} \/ k \in dropped']_vars

\* Until something is flushed to a second level, what the first level holds of
\* a key is the copy that arrived last, cut off and lost copies included: an
\* older one never comes back.
FirstLevelIsNewest ==
  ~madeUp /\ Len(leveled) = 1 => \A k \in Keys : \A c \in Copies(k) : c.ver = handed[k]
=============================================================================
