------------------------------ MODULE MCStore ------------------------------
(* A TLC instance of FSStore. *)
EXTENDS FSStore, TLC

Interchangeable == Permutations(Writers) \cup Permutations(Temps) \cup Permutations(Contents)
=============================================================================
