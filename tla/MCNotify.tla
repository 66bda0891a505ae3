------------------------------ MODULE MCNotify ------------------------------
(* Small instances of Notify for TLC. *)
EXTENDS Notify, TLC

NoFaults == [k \in FaultKinds |-> 0]
EveryFault == [k \in FaultKinds |-> 1]


Symmetry == Permutations(Pushes) \cup Permutations(Users)
=============================================================================
