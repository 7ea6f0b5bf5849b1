------------------------------ MODULE Persistence -------------------------------
(***************************************************************************)
(* The tree across the ends and starts of the program of src/main.cpp: the *)
(* command q saves the buffer and the structure of the tree                *)
(* (LSM_Tree::exit_save), a start loads them (meta_load_save).  The        *)
(* program also ends without saving: at the end of its input, by an        *)
(* exception, or killed, in the middle of a compaction or a save too.      *)
(*                                                                         *)
(* The writes are those of module TieredTree; this module adds the files.  *)
(* The file of a run never changes once it is written, so levels goes on   *)
(* saying what it holds, and disk says whether it is still there.          *)
(***************************************************************************)
EXTENDS Integers, Sequences, FiniteSets

CONSTANTS Keys, BufferSize, LevelRatio, PageSize, MaxWrites,
          MaxStarts  \* bound: starts of the program after the first

ASSUME TreeAssumption == /\ Keys \subseteq Int /\ 0 \in Keys /\ IsFiniteSet(Keys)
                         /\ BufferSize \in Nat \ {0} /\ LevelRatio \in Nat \ {0, 1}
                         /\ PageSize \in Nat \ {0} /\ MaxWrites \in Nat
ASSUME StartsAssumption == MaxStarts \in Nat

VARIABLES store, levels, clock, last, flushes, \* of TieredTree; once the program
                                               \* has ended, what it held last
          names,   \* the files of the runs, in the shape of levels
          disk,    \* the files of runs that exist
          memory,  \* lsm_tree_memory.dat
          meta,    \* lsm_tree_level_meta.txt, with the Bloom and fence files
          running, \* the program runs
          starts,  \* starts so far
          orderly, \* ghost: the last end was a q
          clean    \* ghost: so was every end
treeVars == <<store, levels, clock, last, flushes>>
saves == <<memory, meta>>
ends == <<starts, orderly, clean>>
vars == <<treeVars, names, disk, saves, running, ends>>

T == INSTANCE TieredTree
\* The list of levels again, with the names of the files for the runs.
N == INSTANCE TieredTree WITH levels <- names

NoMemory == [exists |-> FALSE, entries |-> <<>>]
NoMeta == [exists |-> FALSE, levels |-> <<>>, names |-> <<>>]
FilesOf(ns) == UNION {{ns[i][j] : j \in DOMAIN ns[i]} : i \in DOMAIN ns}

Init == /\ T!Init
        /\ names = << <<>> >> /\ disk = {}
        /\ memory = NoMemory /\ meta = NoMeta
        /\ running = TRUE /\ starts = 0
        /\ orderly = FALSE /\ clean = TRUE
-----------------------------------------------------------------------------
(* Writes *)

FileOf(p) == names[p[1]][p[2]]

\* Fault: the level the new run goes to is removed as well.
MergedFilesTooFar == {FileOf(p) : p \in {q \in T!Positions : q[1] <= T!Target}}

MergedFiles == {FileOf(p) : p \in T!Merged}

\* generateRandomString: a name no run has had.
NewFile == flushes + 1

\* A put or del.  A compaction reads the files it merges; when one is missing
\* load_full_file throws, which nothing catches: see End.
Write(k, del) ==
  /\ running
  /\ \/ T!WriteInBuffer(k, del) /\ UNCHANGED <<names, disk>>
     \/ /\ MergedFiles \subseteq disk
        /\ T!WriteAfterFlush(k, del)
        /\ names' = N!LevelsAfter(NewFile)
        /\ disk' = (disk \ MergedFiles) \cup {NewFile}
  /\ UNCHANGED <<saves, running, ends>>
-----------------------------------------------------------------------------
(* Saving *)

\* Fault: the first entry of a key is kept.
FlushBufferFirst ==
  LET flush[n \in 0..Len(store)] ==
        IF n = 0 THEN [k \in Keys |-> T!None]
        ELSE [flush[n - 1] EXCEPT ![store[n].key] =
                IF @ # T!None THEN @ ELSE T!CellOf(store[n])]
  IN  flush[Len(store)]

\* flush_buffer: a put replaces what is there for its key; a tombstone removes
\* what is there and goes with it, and stays if nothing is there.
FlushBuffer ==
  LET flush[n \in 0..Len(store)] ==
        IF n = 0 THEN [k \in Keys |-> T!None]
        ELSE [flush[n - 1] EXCEPT ![store[n].key] =
                IF store[n].del /\ @ # T!None THEN T!None ELSE T!CellOf(store[n])]
  IN  flush[Len(store)]

\* The vector of flush_buffer, sorted by key.
Sorted(run) ==
  LET keys == T!KeysOf(run)
      nth(i) == CHOOSE k \in keys : Cardinality({j \in keys : j <= k}) = i
  IN  [i \in 1..Cardinality(keys) |->
         [key |-> nth(i), ver |-> run[nth(i)].ver, del |-> run[nth(i)].del]]

SavedMemory == [exists |-> TRUE, entries |-> Sorted(FlushBuffer)]
SavedMeta == [exists |-> TRUE, levels |-> levels, names |-> names]

\* The stream of the meta file is flushed after each run: what the file holds
\* when the program ends after the run at p was written.
UpTo(p, ls) == [i \in 1..p[1] |-> IF i = p[1] THEN SubSeq(ls[i], 1, p[2]) ELSE ls[i]]
MetaUpTo(p) == [exists |-> TRUE, levels |-> UpTo(p, levels), names |-> UpTo(p, names)]
\* What it holds before: opening it for writing emptied it.
EmptyMeta == [exists |-> TRUE, levels |-> <<>>, names |-> <<>>]

\* q: exit_save, and the loop ends.
Quit == /\ running /\ running' = FALSE
        /\ memory' = SavedMemory /\ meta' = SavedMeta
        /\ orderly' = TRUE
        /\ UNCHANGED <<treeVars, names, disk, starts, clean>>
-----------------------------------------------------------------------------
(* Ends without a complete save *)

EndedBadly == /\ running /\ running' = FALSE
              /\ orderly' = FALSE /\ clean' = FALSE
              /\ UNCHANGED <<treeVars, names, starts>>

\* Between commands: the input ends, or an exception of a search or a load.
End == EndedBadly /\ UNCHANGED <<disk, saves>>

\* In merge_policy, which has removed files down to the one at p: from the
\* first level on, and in a level from the front.  The new run's file, which
\* no meta file names, is left out.
EndInCompaction ==
  /\ Len(store) >= BufferSize /\ MergedFiles \subseteq disk
  /\ EndedBadly
  /\ \E p \in T!Merged :
       disk' = disk \ {FileOf(q) : q \in {r \in T!Merged :
                         r[1] < p[1] \/ (r[1] = p[1] /\ r[2] <= p[2])}}
  /\ UNCHANGED saves

\* Fault: the meta file is written before the memory file.
EndInSaveMetaFirst ==
  /\ EndedBadly
  /\ \/ meta' = EmptyMeta
     \/ \E p \in T!Positions : meta' = MetaUpTo(p)
     \/ meta' = SavedMeta
  /\ UNCHANGED <<disk, memory>>

\* In exit_save: the memory file is emptied, then written, then the meta file.
EndInSave ==
  /\ EndedBadly
  /\ \/ memory' = [exists |-> TRUE, entries |-> <<>>] /\ UNCHANGED meta
     \/ memory' = SavedMemory /\ UNCHANGED meta
     \/ memory' = SavedMemory /\ meta' = EmptyMeta
     \/ memory' = SavedMemory /\ \E p \in T!Positions : meta' = MetaUpTo(p)
  /\ UNCHANGED disk
-----------------------------------------------------------------------------
(* Starts *)

Started == /\ ~running /\ running' = TRUE
           /\ starts < MaxStarts /\ starts' = starts + 1
           /\ UNCHANGED <<clock, last, flushes, disk, saves, orderly, clean>>

\* One of the two files is missing: a new tree.
StartFresh == /\ Started
              /\ ~(meta.exists /\ memory.exists)
              /\ store' = <<>> /\ levels' = << <<>> >> /\ names' = << <<>> >>

\* reconstruct_file_structure: a level for each line that starts with a digit, and
\* in it a run for each file name, in the order they were saved.
ReconstructFileStructure == levels' = meta.levels /\ names' = meta.names

\* load_memory puts the saved entries in the buffer one by one.  From an empty
\* meta file the program would take the sizes of the tree from uninitialised
\* variables: left out.
StartSaved == /\ Started
              /\ meta.exists /\ memory.exists /\ meta # EmptyMeta
              /\ store' = memory.entries
              /\ ReconstructFileStructure

Next == \/ \E k \in Keys, del \in BOOLEAN : Write(k, del)
        \/ Quit \/ End \/ EndInCompaction \/ EndInSave
        \/ StartFresh \/ StartSaved

Spec == Init /\ [][Next]_vars
-----------------------------------------------------------------------------
(* Properties *)

\* Whatever ends and starts lie behind it, a loaded tree is searched newest
\* copy first: a memory file that is newer than the meta file beside it, or a
\* meta file cut short, never puts an older copy above a newer one.
RecencyOrder == T!RecencyOrder

\* While the program is only ended with q, the files of runs on disk are those
\* of the runs of the tree: no compaction removes a file that is still named,
\* and none leaves a file that no run owns, across any number of restarts.
\* However it ends, no two runs share a file.
FilesAreRuns == /\ clean => disk = FilesOf(names)
                /\ \A p, q \in T!Positions : FileOf(p) = FileOf(q) => p = q

\* The last write of k is a tombstone, and the buffer holds an earlier one that
\* flush_buffer may drop together with it.
Dropped(k) == \E i, j \in DOMAIN store :
                /\ i < j /\ store[i].key = k /\ store[j].key = k
                /\ store[j].del /\ j = T!LastWrite(k)

\* After a q and a start a get answers what it did before, for every key but
\* those flush_buffer has dropped; of those it never answers a put that the
\* buffer had before the tombstone.
RestartKeepsAnswers ==
  [][~running /\ orderly /\ running' =>
       \A k \in Keys :
         IF ~Dropped(k) THEN T!Get(k)' = T!Get(k)
         ELSE \A i \in DOMAIN store :
                store[i].key = k /\ i < T!LastWrite(k) => T!Get(k)' # T!CellOf(store[i])]_vars
=============================================================================
