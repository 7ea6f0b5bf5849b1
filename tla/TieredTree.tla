------------------------------- MODULE TieredTree -------------------------------
(***************************************************************************)
(* The LSM tree in its unoptimised mode (mode = 0): a write buffer in      *)
(* memory over levels of sorted runs on disk (src/lsm_tree.cpp,            *)
(* src/buffer_level.h).  A put or a delete that finds the buffer full      *)
(* first compacts: the buffer and every run of every full level at the top *)
(* of the tree become one new run of the first level with room.            *)
(*                                                                         *)
(* The pages of a run's file are abstracted to what compaction can read    *)
(* back (module PagedFile checks that abstraction against the page code),  *)
(* and the multi-threaded sort of the buffer to the last write of a key    *)
(* (module BufferSort).  A value is represented by ver, the number of the  *)
(* write that stored it; 0 is the value of an entry no write stored.       *)
(***************************************************************************)
EXTENDS Integers, Sequences, FiniteSets

CONSTANTS Keys,        \* the keys in use, a finite subset of KEY_t
          BufferSize,  \* entries the buffer holds
          LevelRatio,  \* a level is full with LevelRatio - 1 runs
          PageSize,    \* entries in a page (64 in the code)
          MaxWrites    \* bound: writes of a behaviour

ASSUME KeysAssumption == Keys \subseteq Int /\ 0 \in Keys /\ IsFiniteSet(Keys)
ASSUME SizeAssumption == /\ BufferSize \in Nat \ {0}
                         /\ LevelRatio \in Nat \ {0, 1}
                         /\ PageSize \in Nat \ {0}
                         /\ MaxWrites \in Nat

VARIABLES store,   \* BufferLevel::store, oldest write first
          levels,  \* levels[i] is run_storage of the i-th Level_Node from root
          clock,   \* ghost: number of writes so far
          last,    \* ghost: the last write of each key
          flushes  \* ghost: number of calls of merge_policy
vars == <<store, levels, clock, last, flushes>>

Cell == [ver : Nat, del : BOOLEAN]
Entry == [key : Keys, ver : Nat, del : BOOLEAN]
None == [ver |-> -1, del |-> TRUE]  \* nullptr: a key a run or an answer lacks
\* What a run's file holds: at most one entry of each key, sorted by key.
Run == [Keys -> Cell \cup {None}]
KeysOf(run) == {k \in Keys : run[k] # None}

CellOf(entry) == [ver |-> entry.ver, del |-> entry.del]

\* pow(level_ratio, n), as a recursive function: the proofs use its equation.
Power[n \in Nat] == IF n = 0 THEN 1 ELSE LevelRatio * Power[n - 1]
-----------------------------------------------------------------------------
(* The buffer *)

BufferKeys == {store[i].key : i \in DOMAIN store}

\* Fault: the buffer is searched from its front.
FirstWrite(k) == CHOOSE i \in DOMAIN store :
                   /\ store[i].key = k
                   /\ \A j \in DOMAIN store : store[j].key = k => i <= j

\* The position of the last write of key k in the buffer.
LastWrite(k) == CHOOSE i \in DOMAIN store :
                  /\ store[i].key = k
                  /\ \A j \in DOMAIN store : store[j].key = k => j <= i
-----------------------------------------------------------------------------
(* The runs, addressed by level and by index in the level *)

Positions == UNION {{i} \X DOMAIN levels[i] : i \in DOMAIN levels}

RunAt(p) == levels[p[1]][p[2]]

\* Fault: a level is visited from the front of run_storage.
BeforeFromFront(p, q) == p[1] < q[1] \/ (p[1] = q[1] /\ p[2] < q[2])

\* Searches and compactions visit p before q: down the levels, and in a
\* level from the back of run_storage.
Before(p, q) == p[1] < q[1] \/ (p[1] = q[1] /\ p[2] > q[2])

First(P) == CHOOSE p \in P : \A q \in P : q # p => Before(p, q)

Holders(k) == {p \in Positions : RunAt(p)[k] # None}
-----------------------------------------------------------------------------
(* Compaction *)

\* Fault: one run too many in a level.
FullTooLate(i) == Len(levels[i]) = LevelRatio

Full(i) == Len(levels[i]) = LevelRatio - 1

\* The level merge_policy pushes into: the first that is not full, or a new one.
Target == CHOOSE i \in 1..Len(levels) + 1 :
            /\ \A j \in 1..i - 1 : Full(j)
            /\ i = Len(levels) + 1 \/ ~Full(i)

Merged == {p \in Positions : p[1] < Target}

\* The keys of a run that lie in a page filled to the end.
InFullPage(run) ==
  LET rank(k) == Cardinality({j \in KeysOf(run) : j <= k})
  IN  {k \in KeysOf(run) : rank(k) <= PageSize * (Cardinality(KeysOf(run)) \div PageSize)}

\* Fault: only the deletion bits of a last page are lost, not its entries.
LoadWrongBits(run, bit) ==
  [k \in Keys |-> IF run[k] = None \/ k \in InFullPage(run) THEN run[k]
                  ELSE [ver |-> run[k].ver, del |-> bit]]

\* What load_full_file hands to a compaction.  Reading the deletion bits of a
\* last page that is not full fails, the stream stays failed, and the zeroed
\* page buffer is decoded: the page's entries are lost and an entry of key 0
\* and value 0 appears, whose deletion flag is a bit of an uninitialised word.
\* The same entry comes from the turn the loop takes past the last page.
LoadFullFile(run, bit) ==
  [k \in Keys |-> IF k \in InFullPage(run) THEN run[k]
                  ELSE IF k = 0 THEN [ver |-> 0, del |-> bit]
                  ELSE None]

\* Fault: a run loaded later overwrites the entries of the runs before it.
MergeOldest(bit) ==
  LET loaded == [p \in Merged |-> LoadFullFile(RunAt(p), bit)]
      having(k) == {p \in Merged : loaded[p][k] # None}
      final(P) == CHOOSE p \in P : \A q \in P : q # p => Before(q, p)
  IN  [k \in Keys |-> IF k \in BufferKeys THEN CellOf(store[LastWrite(k)])
                      ELSE IF having(k) = {} THEN None
                      ELSE loaded[final(having(k))][k]]

\* Fault: the loaded runs overwrite the entries of the buffer.
MergeOverBuffer(bit) ==
  LET loaded == [p \in Merged |-> LoadFullFile(RunAt(p), bit)]
      having(k) == {p \in Merged : loaded[p][k] # None}
  IN  [k \in Keys |-> IF having(k) # {} THEN loaded[First(having(k))][k]
                      ELSE IF k \in BufferKeys THEN CellOf(store[LastWrite(k)])
                      ELSE None]

\* The content of the run a compaction creates: the buffer's last writes, then
\* the first occurrence of each other key over the merged runs.  One bit stands
\* for the uninitialised words of all of them: only the first run's can be kept.
MergeMap(bit) ==
  LET loaded == [p \in Merged |-> LoadFullFile(RunAt(p), bit)]
      having(k) == {p \in Merged : loaded[p][k] # None}
  IN  [k \in Keys |-> IF k \in BufferKeys THEN CellOf(store[LastWrite(k)])
                      ELSE IF having(k) = {} THEN None
                      ELSE loaded[First(having(k))][k]]

\* Fault: the merged levels are not cleared.
LevelsKept(run) ==
  [i \in 1..(IF Target > Len(levels) THEN Target ELSE Len(levels)) |->
     IF i # Target THEN levels[i]
     ELSE IF Target > Len(levels) THEN <<run>>
     ELSE Append(levels[i], run)]

\* Fault: the new run goes to the front of its level.
LevelsPushFront(run) ==
  [i \in 1..(IF Target > Len(levels) THEN Target ELSE Len(levels)) |->
     IF i < Target THEN <<>>
     ELSE IF i > Target THEN levels[i]
     ELSE IF Target > Len(levels) THEN <<run>>
     ELSE <<run>> \o levels[i]]

\* run_storage of every level once run is pushed and the merged levels cleared.
LevelsAfter(run) ==
  [i \in 1..(IF Target > Len(levels) THEN Target ELSE Len(levels)) |->
     IF i < Target THEN <<>>
     ELSE IF i > Target THEN levels[i]
     ELSE IF Target > Len(levels) THEN <<run>>
     ELSE Append(levels[i], run)]
-----------------------------------------------------------------------------
(* Operations *)

Init == /\ store = <<>>
        /\ levels = << <<>> >>
        /\ clock = 0
        /\ last = [k \in Keys |-> None]
        /\ flushes = 0

\* The write the ghosts record.
Stamp(k, del) == /\ clock < MaxWrites
                 /\ clock' = clock + 1
                 /\ last' = [last EXCEPT ![k] = [ver |-> clock + 1, del |-> del]]

NewEntry(k, del) == [key |-> k, ver |-> clock + 1, del |-> del]

\* Fault: one entry too many in the buffer.
WriteOverLimit(k, del) ==
  /\ Len(store) <= BufferSize
  /\ Stamp(k, del)
  /\ store' = Append(store, NewEntry(k, del))
  /\ UNCHANGED <<levels, flushes>>

\* insert or del of the buffer finds room.
WriteInBuffer(k, del) ==
  /\ Len(store) < BufferSize
  /\ Stamp(k, del)
  /\ store' = Append(store, NewEntry(k, del))
  /\ UNCHANGED <<levels, flushes>>

\* It finds none and returns -1: merge_policy, clear_buffer, and write again.
WriteAfterFlush(k, del) ==
  /\ Len(store) >= BufferSize
  /\ Stamp(k, del)
  /\ \E bit \in BOOLEAN : levels' = LevelsAfter(MergeMap(bit))
  /\ store' = <<NewEntry(k, del)>>
  /\ flushes' = flushes + 1

Put(k) == WriteInBuffer(k, FALSE) \/ WriteAfterFlush(k, FALSE)
Del(k) == WriteInBuffer(k, TRUE) \/ WriteAfterFlush(k, TRUE)

Next == \E k \in Keys : Put(k) \/ Del(k)

Spec == Init /\ [][Next]_vars
-----------------------------------------------------------------------------
(* LSM_Tree::get changes nothing; its answer in a state *)

\* process_run answers nullptr for a tombstone, and the search goes on.
LiveHolders(k) == {p \in Holders(k) : ~RunAt(p)[k].del}

Get(k) == IF k \in BufferKeys THEN CellOf(store[LastWrite(k)])
          ELSE IF LiveHolders(k) # {} THEN RunAt(First(LiveHolders(k)))[k]
          ELSE None

\* What the front ends print as found.
Found(k) == ~Get(k).del
-----------------------------------------------------------------------------
(* Properties.  Key 0 is left out where the entry load_full_file makes up for *)
(* it can shadow what was written.                                            *)

\* Type correctness: the buffer never exceeds its limit, the root level exists.
TypeOK == /\ store \in Seq(Entry) /\ Len(store) <= BufferSize
          /\ levels \in Seq(Seq(Run)) /\ Len(levels) >= 1
          /\ clock \in Nat
          /\ last \in [Keys -> Cell \cup {None}]
          /\ flushes \in Nat

\* Every copy of a key has a place in the search order that agrees with its
\* age: later in the buffer is newer, the buffer is newer than every run, a
\* run visited earlier is newer than one visited later.  get (91-187) and the
\* keep-first merges of merge_policy (392-423) rely on it.
BufferInOrder ==
  \A k \in Keys \ {0} : \A i, j \in DOMAIN store :
    i < j /\ store[i].key = k /\ store[j].key = k => store[i].ver < store[j].ver
BufferNewerThanRuns ==
  \A k \in Keys \ {0} : \A i \in DOMAIN store, p \in Holders(k) :
    store[i].key = k => RunAt(p)[k].ver < store[i].ver
RunsInOrder ==
  \A k \in Keys \ {0} : \A p, q \in Holders(k) :
    Before(p, q) => RunAt(q)[k].ver < RunAt(p)[k].ver
RecencyOrder == BufferInOrder /\ BufferNewerThanRuns /\ RunsInOrder

\* The calls of merge_policy that the runs of the first i levels of ls stand for.
Weight(ls) ==
  LET weight[i \in 0..Len(ls)] ==
        IF i = 0 THEN 0 ELSE weight[i - 1] + Len(ls[i]) * Power[i - 1]
  IN  weight

\* No level ever holds LevelRatio runs, and the levels count the compactions
\* like the digits of a number in base LevelRatio: a run on level i (from 1)
\* stands for LevelRatio^(i-1) calls of merge_policy, none lost, none counted
\* twice.  It bounds the number of levels and of files by a logarithm.
RunsCountFlushes == /\ \A i \in DOMAIN levels : Len(levels[i]) < LevelRatio
                    /\ Weight(levels)[Len(levels)] = flushes

\* A get answers the last write of a key while the buffer holds it, and from
\* then on the newest of the copies on disk that are not tombstones, whatever
\* older copies the levels still hold.
GetIsNewestLive ==
  \A k \in Keys \ {0} :
    /\ k \in BufferKeys => Get(k) = last[k]
    /\ k \notin BufferKeys =>
         LET live == {RunAt(p)[k] : p \in LiveHolders(k)}
         IN  IF live = {} THEN Get(k) = None
             ELSE Get(k) \in live /\ \A c \in live : c.ver <= Get(k).ver

Copies(k) == {CellOf(store[i]) : i \in {j \in DOMAIN store : store[j].key = k}}
               \cup {RunAt(p)[k] : p \in Holders(k)}

\* A copy that compaction dropped never comes back, and no copy of a key is
\* made that no write of this key stored.
NoCopyFromNowhere ==
  [][\A k \in Keys \ {0} : Copies(k)' \subseteq Copies(k) \cup {last'[k]}]_vars

\* The newest copy of a key: the one a search in recency order meets first.
Newest(k) == IF k \in BufferKeys THEN CellOf(store[LastWrite(k)])
             ELSE IF Holders(k) # {} THEN RunAt(First(Holders(k)))[k]
             ELSE None

\* Compaction can read the newest copy back.
Readable(k) == \/ k \in BufferKeys
               \/ /\ Holders(k) # {}
                  /\ k \in InFullPage(RunAt(First(Holders(k))))

\* A compaction, however many levels it cascades through, never loses or
\* replaces the newest copy of a key it can read: only a write of that key does.
NewestCopySurvives ==
  [][\A k \in Keys \ {0} :
       Readable(k) => Newest(k)' = IF last'[k] = last[k] THEN Newest(k) ELSE last'[k]]_vars

\* What lsm_tree.cpp:333 says of del, "This function deletes a key in the LSM
\* Tree": while the tombstone of its last write is in the tree, no get finds it.
DeletedKeyStaysDeleted ==
  \A k \in Keys \ {0} : last[k].del /\ last[k] \in Copies(k) => ~Found(k)
=============================================================================
