---------------------------- MODULE MCPostCache ----------------------------
(* Small instances of PostCache for TLC. *)
EXTENDS PostCache, TLC

Symmetry == Permutations(Posts) \cup Permutations(Reqs) \cup Permutations(Workers)
=============================================================================
