------------------------------- MODULE MCComet -------------------------------
(* Small instances of Comet for TLC. *)
EXTENDS Comet, TLC

CONSTANTS u1, u2

\* Clients may authenticate as either user.
AnyUser == [c \in Conns |-> Users]

Symmetry == Permutations(Conns)
=============================================================================
