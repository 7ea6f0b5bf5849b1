------------------------------- MODULE MCLazyTree --------------------------------
(* Instances of LazyTree for TLC. *)
EXTENDS LazyTree

FourKeys == -1..2
FourWrites == {<<-1, FALSE>>, <<1, FALSE>>, <<2, FALSE>>, <<1, TRUE>>}
=============================================================================
