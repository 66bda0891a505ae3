------------------------------ MODULE MCListing ------------------------------
(* Small instances of Listing for TLC. *)
EXTENDS Listing, TLC

\* Sizes in range, and one that is not.
Sizes == {1, 2, 4}

Symmetry == Permutations(Rows) \cup Permutations(Keys)
=============================================================================
