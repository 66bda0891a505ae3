------------------------------- MODULE Inboxes -------------------------------
(***************************************************************************)
(* What the distribution of posts promises, without workers, topics, offsets  *)
(* or a cache: a post that was announced is pushed, at least once, to all who *)
(* follow its author since before it, before it is forgotten; posts come in   *)
(* any order; and an inbox is the Keep newest of all that was pushed to it.   *)
(* A failure that the workers do not survive ends the first promise, never    *)
(* the last.  Module Fanout implements this.                                  *)
(***************************************************************************)
EXTENDS Integers, FiniteSets

CONSTANTS Users, Posts, Keep, Times

VARIABLES
    stamp,          \* when a post was written
    owed,           \* who is to have it: they may leave, nobody joins
    announced,      \* posts whose author was answered and whose event is stored
    waiting,        \* of these, the ones not forgotten yet
    pushed,         \* the posts ever pushed to an inbox
    box,            \* the posts in it
    failed          \* a failure has struck

vars == <<stamp, owed, announced, waiting, pushed, box, failed>>

Newer(p, q) == stamp[p] > stamp[q] \/ (stamp[p] = stamp[q] /\ p > q)

\* B is what an inbox keeps of S.
Kept(B, S) ==
    /\ B \subseteq S
    /\ Cardinality(B) <= Keep
    /\ \A p \in S \ B : Cardinality(B) = Keep /\ \A q \in B : Newer(q, p)

Init ==
    /\ stamp \in [Posts -> Times]
    /\ owed = [p \in Posts |-> {}]
    /\ announced = {} /\ waiting = {}
    /\ pushed = [u \in Users |-> {}]
    /\ box = [u \in Users |-> {}]
    /\ failed = FALSE

Write(p) ==
    /\ p \notin announced
    /\ \E t \in Times : stamp' = [stamp EXCEPT ![p] = t]
    /\ \E F \in SUBSET Users : owed' = [owed EXCEPT ![p] = F]
    /\ UNCHANGED <<announced, waiting, pushed, box, failed>>

Leave(u) ==
    /\ \E S \in SUBSET Posts :
         owed' = [p \in Posts |-> IF p \in S THEN owed[p] \ {u} ELSE owed[p]]
    /\ UNCHANGED <<stamp, announced, waiting, pushed, box, failed>>

Announce(p) ==
    /\ announced' = announced \cup {p}
    /\ waiting' = waiting \cup {p}
    /\ UNCHANGED <<stamp, owed, pushed, box, failed>>

Push(p) ==
    /\ p \in announced
    /\ \E F \in SUBSET Users :
         pushed' = [u \in Users |-> IF u \in F THEN pushed[u] \cup {p} ELSE pushed[u]]
    /\ \A u \in Users : Kept(box'[u], pushed'[u])
    /\ UNCHANGED <<stamp, owed, announced, waiting, failed>>

Forget(p) ==
    /\ p \in waiting
    /\ failed \/ \A u \in owed[p] : p \in pushed[u]
    /\ waiting' = waiting \ {p}
    /\ UNCHANGED <<stamp, owed, announced, pushed, box, failed>>

Fail ==
    /\ failed' = TRUE
    /\ UNCHANGED <<stamp, owed, announced, waiting, pushed, box>>

Next ==
    \/ \E p \in Posts : Write(p) \/ Announce(p) \/ Push(p) \/ Forget(p)
    \/ \E u \in Users : Leave(u)
    \/ Fail

Spec == Init /\ [][Next]_vars
=============================================================================
