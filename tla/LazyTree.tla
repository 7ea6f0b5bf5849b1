-------------------------------- MODULE LazyTree ---------------------------------
(***************************************************************************)
(* The LSM tree in its optimised mode (mode = 1): the buffer, LazyCutOff   *)
(* tiered levels as in module TieredTree, and leveled levels under them    *)
(* (module LeveledLevels).  merge_policy (src/lsm_tree.cpp:455-577) works  *)
(* as in the unoptimised mode until every tiered level is full; then all   *)
(* of them are emptied into the leveled levels.                            *)
(***************************************************************************)
EXTENDS Integers, Sequences, FiniteSets

CONSTANTS Keys, BufferSize, LevelRatio, PageSize,  \* as in TieredTree
          LazyCutOff, Partitions,                  \* as in LeveledLevels
          Writes,                                  \* bound: the writes in use, <<key, deleted>>
          MaxWrites                                \* bound: writes of a behaviour

ASSUME TreeAssumption == /\ Keys \subseteq Int /\ 0 \in Keys /\ IsFiniteSet(Keys)
                         /\ BufferSize \in Nat \ {0} /\ PageSize \in Nat \ {0}
ASSUME LevelsAssumption == /\ LevelRatio \in Nat \ {0, 1}
                           /\ LazyCutOff \in Nat \ {0} /\ Partitions \in Nat \ {0}
ASSUME WritesAssumption == Writes \subseteq Keys \X BOOLEAN /\ MaxWrites \in Nat

VARIABLES store, tiers, clock, last,               \* as in TieredTree
          leveled, up, madeUp, dropped, handed     \* as in LeveledLevels
leveledVars == <<leveled, up, madeUp, dropped, handed>>
vars == <<store, tiers, clock, last, leveled, up, madeUp, dropped, handed>>

T == INSTANCE TieredTree WITH levels <- tiers, flushes <- 0
L == INSTANCE LeveledLevels WITH MinBatch <- 1, MaxArrivals <- 0

Init == T!Init /\ L!Init
-----------------------------------------------------------------------------
\* The buffer has room.
WriteInBuffer(k, del) ==
  /\ up
  /\ T!WriteInBuffer(k, del)
  /\ UNCHANGED leveledVars

\* Fault: the cascade opens a tiered level beyond the cut-off.
TierBeyondCutOff == T!Target <= LazyCutOff + 1

\* The cascade ends at a tiered level.
TierHasRoom == T!Target <= LazyCutOff

MergeIntoTier(k, del) ==
  /\ up /\ Len(store) >= BufferSize
  /\ TierHasRoom
  /\ T!Stamp(k, del)
  /\ \E bit \in BOOLEAN : tiers' = T!LevelsAfter(T!MergeMap(bit))
  /\ store' = <<T!NewEntry(k, del)>>
  /\ UNCHANGED leveledVars

\* Fault: the tiered levels are not emptied.
TiersKept == tiers

TiersEmptied == [i \in DOMAIN tiers |-> <<>>]

\* All tiered levels are full: their content goes to the leveled levels.
MergeIntoLeveled(k, del) ==
  /\ Len(store) >= BufferSize
  /\ ~TierHasRoom
  /\ T!Stamp(k, del)
  /\ \E bit \in BOOLEAN : \E batch \in {T!MergeMap(bit)} : L!Arrive(batch)
  /\ tiers' = TiersEmptied
  /\ store' = <<T!NewEntry(k, del)>>

Put(k) == WriteInBuffer(k, FALSE) \/ MergeIntoTier(k, FALSE) \/ MergeIntoLeveled(k, FALSE)
Del(k) == WriteInBuffer(k, TRUE) \/ MergeIntoTier(k, TRUE) \/ MergeIntoLeveled(k, TRUE)

\* A get that no tiered level answers walks into a leveled level with no blocks.
SearchEmptyEnds == L!SearchEmptyEnds /\ UNCHANGED <<store, tiers, clock, last>>

Next == \/ \E k \in Keys : \/ <<k, FALSE>> \in Writes /\ Put(k)
                           \/ <<k, TRUE>> \in Writes /\ Del(k)
        \/ SearchEmptyEnds

Spec == Init /\ [][Next]_vars
-----------------------------------------------------------------------------
(* LSM_Tree::get: the buffer, the tiered levels, then down the leveled levels *)

LeveledHits(k) == {i \in DOMAIN leveled : L!LevelGet(leveled[i], k) # T!None}

\* Fault: the leveled levels are searched first.
GetLeveledFirst(k) ==
  IF LeveledHits(k) # {} THEN L!LevelGet(leveled[L!Least(LeveledHits(k))], k) ELSE T!Get(k)

Get(k) == IF T!Get(k) # T!None THEN T!Get(k)
          ELSE IF LeveledHits(k) # {} THEN L!LevelGet(leveled[L!Least(LeveledHits(k))], k)
          ELSE T!None
-----------------------------------------------------------------------------
(* Properties *)

\* What the buffer and the tiered levels hold of a key is newer than what the
\* leveled levels hold of it, and in recency order as in the unoptimised mode:
\* get (91-187) and merge_policy may stop at the first copy they meet there.
RecencyOrder ==
  /\ T!RecencyOrder
  /\ \A k \in Keys \ {0} : \A old \in L!Copies(k), new \in T!Copies(k) : old.ver < new.ver

\* Until something is flushed to a second leveled level, a get that finds a
\* value never answers an older one than the last while that is in the tree.
GetIsLastWrite ==
  up /\ Len(leveled) = 1 /\ ~madeUp =>
    \A k \in Keys \ {0} :
      /\ last[k] \in T!Copies(k) \cup L!Copies(k)
      /\ ~last[k].del /\ ~Get(k).del
      => Get(k) = last[k]

\* The cascade (467-494) neither fills a tiered level nor opens one past the
\* cut-off, however merges into the tiers and out of them alternate.
TiersWithinCutOff ==
  Len(tiers) <= LazyCutOff /\ \A i \in DOMAIN tiers : Len(tiers[i]) < LevelRatio
=============================================================================
