------------------------------- MODULE MCLikes -------------------------------
(* Small instances of Likes for TLC. *)
EXTENDS Likes, TLC

NoFaults == [k \in FaultKinds |-> 0]
RedisFaults == [k \in FaultKinds |-> IF k = "db" THEN 0 ELSE 1]
CallsFail == [k \in FaultKinds |-> IF k \in {"db", "counterExpiry"} THEN 1 ELSE 0]
SetExpiry == [NoFaults EXCEPT !["setExpiry"] = 1]

AllOps == {"like", "unlike", "isLiked", "count", "batchCount"}
WritesAndCount == {"like", "unlike", "count"}
WritesAndIsLiked == {"like", "unlike", "isLiked"}

Symmetry == Permutations(Reqs)
=============================================================================
