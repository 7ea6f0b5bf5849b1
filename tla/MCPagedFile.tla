------------------------------- MODULE MCPagedFile ------------------------------
(* An instance of PagedFile for TLC: files of up to two full pages and a half. *)
EXTENDS PagedFile

\* Keys on both sides of the key load_full_file makes up.
FiveKeys == -1..3
=============================================================================
