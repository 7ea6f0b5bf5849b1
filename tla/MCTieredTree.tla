------------------------------ MODULE MCTieredTree ------------------------------
(* Instances of TieredTree for TLC. *)
EXTENDS TieredTree

\* Keys on both sides of the key load_full_file makes up.
SignedKeys == {-1, 0, 1}
=============================================================================
