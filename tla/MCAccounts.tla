----------------------------- MODULE MCAccounts -----------------------------
(* Small instances of Accounts for TLC. *)
EXTENDS Accounts, TLC

ThreeIds == 1..3

Symmetry == Permutations(Persons) \cup Permutations(Names)
=============================================================================
