--------------------------- MODULE MCLibraryRename ---------------------------
(* Instances of LibraryRename for TLC. *)
EXTENDS LibraryRename, TLC

Interchangeable == Permutations(Runners)
=============================================================================
