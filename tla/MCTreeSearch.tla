------------------------------ MODULE MCTreeSearch ------------------------------
(* Instances of TreeSearch for TLC. *)
EXTENDS TreeSearch

\* Puts of both keys and a tombstone.
ThreeWrites == {<<0, FALSE>>, <<1, FALSE>>, <<1, TRUE>>}
\* All keys, and one.
TwoRanges == {<<0, 1>>, <<1, 1>>}
=============================================================================
