------------------------------ MODULE MCFanout ------------------------------
(* Small instances of Fanout for TLC. *)
EXTENDS Fanout

TwoPosts == {1, 2}

EveryFault == [k \in FaultKinds |-> 1]
QueryFault == [k \in FaultKinds |-> IF k = "query" THEN 1 ELSE 0]
=============================================================================
