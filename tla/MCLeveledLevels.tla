----------------------------- MODULE MCLeveledLevels -----------------------------
(* Instances of LeveledLevels for TLC. *)
EXTENDS LeveledLevels

FiveKeys == -1..3
=============================================================================
