---------------------------- MODULE LikesProofs ------------------------------
(* What Likes guarantees for every number of users, posts and requests; last    *)
(* that with serial users the set, the table and the counter of a post agree.   *)
EXTENDS Likes, FiniteSetTheorems, TLAPS

------------------------------------------------------------------------------
(* Types *)

\* An idle request carries some call.
LEMMA DefaultCall == (CHOOSE c \in Call : TRUE) \in Call
  <1>1. \E c \in Call : TRUE
    <2>1. PICK u \in Users, p \in Posts, o \in Ops : TRUE
      BY UsersAssumption, PostsAssumption, OpsAssumption
    <2>2. [op |-> o, user |-> u, post |-> p] \in Call
      BY DEF Call
    <2> QED BY <2>2
  <1> QED BY <1>1

\* The number of rows of a post is a natural number.
LEMMA RowsCount ==
  ASSUME NEW S, S \subseteq Users
  PROVE  IsFiniteSet(S) /\ Cardinality(S) \in Nat
  BY UsersAssumption, FS_Subset, FS_CardinalityType

LEMMA InitType == Init => TypeOK
  <1> SUFFICES ASSUME Init PROVE TypeOK
    OBVIOUS
  <1>0. PICK liked \in [Posts -> SUBSET Users] :
          /\ rows = [p \in Posts |-> IF p \in Uuids THEN liked[p] ELSE {}]
          /\ likes = [p \in Posts |-> IF WarmCounters THEN Cardinality(liked[p]) ELSE 0]
          /\ likedBy = [p \in Posts |-> IF WarmSets THEN liked[p] ELSE {}]
    BY DEF Init
  <1>1. likes \in [Posts -> Int]
    <2>1. \A p \in Posts : Cardinality(liked[p]) \in Int
      BY RowsCount
    <2> QED BY <1>0, <2>1
  <1>2. likedBy \in [Posts -> SUBSET Users] /\ rows \in [Posts -> SUBSET Users]
    BY <1>0
  <1>3. call \in [Reqs -> Call]
    BY DefaultCall DEF Init
  <1>4. pc \in [Reqs -> PCs]
    BY DEF Init, PCs, Ended
  <1> QED BY <1>1, <1>2, <1>3, <1>4 DEF Init, TypeOK

\* A fault only counts itself.
LEMMA FaultType ==
  ASSUME faults \in [FaultKinds -> Nat], NEW k \in FaultKinds, Fault(k)
  PROVE  faults' \in [FaultKinds -> Nat]
  BY DEF Fault

LEMMA EndPhaseType ==
  ASSUME TypeOK, NEW r \in Reqs, NEW p \in Posts, NEW next \in SUBSET Posts,
         NEW l \in PCs, EndPhase(r, p, next, l)
  PROVE  todo' \in [Reqs -> SUBSET Posts] /\ pc' \in [Reqs -> PCs]
  <1>1. {"respond"} \subseteq PCs
    BY DEF PCs
  <1>2. CASE todo[r] \ {p} # {}
    <2>1. todo' = [todo EXCEPT ![r] = todo[r] \ {p}] /\ pc' = pc
      BY <1>2 DEF EndPhase
    <2>2. todo[r] \ {p} \in SUBSET Posts
      BY DEF TypeOK
    <2> QED BY <2>1, <2>2 DEF TypeOK
  <1>3. CASE todo[r] \ {p} = {}
    <2>1. /\ todo' = [todo EXCEPT ![r] = next]
          /\ pc' = [pc EXCEPT ![r] = IF next = {} THEN "respond" ELSE l]
      BY <1>3 DEF EndPhase, Goto
    <2> QED BY <1>1, <2>1 DEF TypeOK
  <1> QED BY <1>2, <1>3

LEMMA StepType == TypeOK /\ [Next]_vars => TypeOK'
  <1> SUFFICES ASSUME TypeOK, [Next]_vars PROVE TypeOK'
    OBVIOUS
  <1> USE DEF Goto
  <1>0. /\ FaultKinds = {"counterExpiry", "setExpiry", "db", "redis", "abort"}
        /\ {"check", "incr", "sadd", "insert", "decr", "srem", "clamp", "delete",
            "get", "db", "set", "member", "respond", "done", "failed"} \subseteq PCs
    BY DEF FaultKinds, PCs, Ended
  <1>1. ASSUME NEW r \in Reqs, Start(r) PROVE TypeOK'
    <2>1. PICK c \in Call :
            /\ call' = [call EXCEPT ![r] = c]
            /\ \/ StartWrite(r, c)
               \/ StartIsLiked(r, c)
               \/ StartCount(r, c)
               \/ StartBatchCount(r, c)
      BY <1>1 DEF Start
    <2>2. pc' \in [Reqs -> PCs] /\ todo' \in [Reqs -> SUBSET Posts]
      <3>1. CASE StartWrite(r, c)
        BY <1>0, <3>1 DEF TypeOK, StartWrite
      <3>2. CASE StartIsLiked(r, c)
        BY <1>0, <3>2 DEF TypeOK, StartIsLiked
      <3>3. CASE StartCount(r, c)
        <4>1. c.post \in Posts
          BY DEF Call
        <4> QED BY <1>0, <3>3, <4>1 DEF TypeOK, StartCount
      <3>4. CASE StartBatchCount(r, c)
        BY <1>0, <3>4 DEF TypeOK, StartBatchCount
      <3> QED BY <2>1, <3>1, <3>2, <3>3, <3>4
    <2> QED BY <1>1, <2>1, <2>2 DEF Start, TypeOK, cache
  <1>2. ASSUME NEW r \in Reqs, WriteStep(r) PROVE TypeOK'
    <2>0. Post(r) \in Posts /\ User(r) \in Users
      BY DEF TypeOK, Post, User, Call
    <2>1. CASE Check(r)
      <3>1. faults' \in [FaultKinds -> Nat]
        BY <1>0, <2>1, FaultType DEF TypeOK, Check, SIsMemberVal
      <3>2. pc' \in [Reqs -> PCs] /\ todo' \in [Reqs -> SUBSET Posts]
        <4>1. \/ Goto(r, "incr") /\ UNCHANGED todo
              \/ Goto(r, "decr") /\ UNCHANGED todo
              \/ CallCount(r)
          BY <2>1 DEF Check
        <4>2. \E l \in {"incr", "decr", "get"} : Goto(r, l)
          BY <4>1 DEF CallCount
        <4>3. pc' \in [Reqs -> PCs]
          BY <1>0, <4>2 DEF TypeOK
        <4>4. todo' = todo \/ todo' = [todo EXCEPT ![r] = {Post(r)}]
          BY <4>1 DEF CallCount
        <4>5. todo' \in [Reqs -> SUBSET Posts]
          BY <2>0, <4>4 DEF TypeOK
        <4> QED BY <4>3, <4>5
      <3> QED BY <2>1, <3>1, <3>2 DEF TypeOK, Check, cache
    <2>2. CASE Incr(r)
      BY <1>0, <2>0, <2>2 DEF TypeOK, Incr, AddToCounter
    <2>3. CASE SAdd(r)
      BY <1>0, <2>0, <2>3 DEF TypeOK, SAdd, local
    <2>4. CASE InsertRow(r)
      <3>1. faults' \in [FaultKinds -> Nat]
        BY <1>0, <2>4, FaultType DEF TypeOK, InsertRow, WriteRow
      <3>2. rows' \in [Posts -> SUBSET Users]
        <4>1. \/ rows' = [rows EXCEPT ![Post(r)] = rows[Post(r)] \cup {User(r)}]
              \/ rows' = rows
          BY <2>4 DEF InsertRow, WriteRow
        <4>2. rows[Post(r)] \cup {User(r)} \in SUBSET Users
          BY <2>0 DEF TypeOK
        <4> QED BY <4>1, <4>2 DEF TypeOK
      <3> QED BY <1>0, <2>4, <3>1, <3>2 DEF TypeOK, InsertRow, local, cache
    <2>5. CASE Decr(r)
      BY <1>0, <2>0, <2>5 DEF TypeOK, Decr, AddToCounter
    <2>6. CASE SRem(r)
      BY <1>0, <2>0, <2>6 DEF TypeOK, SRem, local, Negative
    <2>7. CASE Clamp(r)
      <3>1. faults' \in [FaultKinds -> Nat]
        BY <1>0, <2>7, FaultType DEF TypeOK, Clamp
      <3> QED BY <1>0, <2>0, <2>7, <3>1 DEF TypeOK, Clamp, SetCounter
    <2>8. CASE DeleteRow(r)
      <3>1. faults' \in [FaultKinds -> Nat]
        BY <1>0, <2>8, FaultType DEF TypeOK, DeleteRow, WriteRow
      <3>2. rows' \in [Posts -> SUBSET Users]
        <4>1. \/ rows' = [rows EXCEPT ![Post(r)] = rows[Post(r)] \ {User(r)}]
              \/ rows' = rows
          BY <2>8 DEF DeleteRow, WriteRow
        <4>2. rows[Post(r)] \ {User(r)} \in SUBSET Users
          BY <2>0 DEF TypeOK
        <4> QED BY <4>1, <4>2 DEF TypeOK
      <3> QED BY <1>0, <2>8, <3>1, <3>2 DEF TypeOK, DeleteRow, local, cache
    <2> QED BY <1>2, <2>1, <2>2, <2>3, <2>4, <2>5, <2>6, <2>7, <2>8
         DEF WriteStep
  <1>3. ASSUME NEW r \in Reqs, NEW p \in Posts, Get(r, p) PROVE TypeOK'
    <2> DEFINE missed == IF p \in counterKeys THEN miss[r] ELSE miss[r] \cup {p}
    <2>1. missed \in SUBSET Posts
      BY DEF TypeOK
    <2>2. miss' = [miss EXCEPT ![r] = missed] /\ EndPhase(r, p, missed, "db")
      BY <1>3 DEF Get
    <2> HIDE DEF missed
    <2>3. todo' \in [Reqs -> SUBSET Posts] /\ pc' \in [Reqs -> PCs]
      BY <1>0, <2>1, <2>2, EndPhaseType
    <2> QED BY <1>3, <2>1, <2>2, <2>3 DEF TypeOK, Get, cache
  <1>4. ASSUME NEW r \in Reqs, NEW p \in Posts, DbCount(r, p) PROVE TypeOK'
    <2>1. /\ miss[r] \in SUBSET Posts
          /\ (IF p \in Uuids THEN Cardinality(rows[p]) ELSE 0) \in Int
      BY RowsCount DEF TypeOK
    <2>2. todo' \in [Reqs -> SUBSET Posts] /\ pc' \in [Reqs -> PCs]
      BY <1>0, <1>4, <2>1, EndPhaseType DEF DbCount
    <2> QED BY <1>4, <2>1, <2>2 DEF TypeOK, DbCount, cache
  <1>5. ASSUME NEW r \in Reqs, NEW p \in Posts, DbCountFail(r, p) PROVE TypeOK'
    <2>1. faults' \in [FaultKinds -> Nat]
      BY <1>0, <1>5, FaultType DEF TypeOK, DbCountFail
    <2>2. miss[r] \ {p} \in SUBSET Posts
      BY DEF TypeOK
    <2>3. todo' \in [Reqs -> SUBSET Posts] /\ pc' \in [Reqs -> PCs]
      BY <1>0, <1>5, <2>2, EndPhaseType DEF DbCountFail, TypeOK
    <2>4. miss' \in [Reqs -> SUBSET Posts]
      BY <1>5, <2>2 DEF DbCountFail, TypeOK
    <2> QED BY <1>5, <2>1, <2>3, <2>4 DEF TypeOK, DbCountFail, cache
  <1>6. ASSUME NEW r \in Reqs, NEW p \in Posts, SetBack(r, p) PROVE TypeOK'
    <2>1. faults' \in [FaultKinds -> Nat]
      BY <1>0, <1>6, FaultType DEF TypeOK, SetBack
    <2>2. todo' \in [Reqs -> SUBSET Posts] /\ pc' \in [Reqs -> PCs]
      BY <1>0, <1>6, EndPhaseType DEF SetBack
    <2> QED BY <1>6, <2>1, <2>2 DEF TypeOK, SetBack, SetCounter
  <1>7. ASSUME NEW r \in Reqs, IsMember(r) PROVE TypeOK'
    BY <1>0, <1>7 DEF TypeOK, IsMember, cache
  <1>8. ASSUME NEW r \in Reqs, Respond(r) PROVE TypeOK'
    BY <1>0, <1>8 DEF TypeOK, Respond, cache, local
  <1>9. ASSUME NEW r \in Reqs, Abort(r) PROVE TypeOK'
    <2>1. faults' \in [FaultKinds -> Nat]
      BY <1>0, <1>9, FaultType DEF TypeOK, Abort
    <2> QED BY <1>0, <1>9, <2>1 DEF TypeOK, Abort, cache
  <1>10. ASSUME NEW p \in Posts, Expire(p) PROVE TypeOK'
    <2>1. faults' \in [FaultKinds -> Nat]
      BY <1>0, <1>10, FaultType DEF TypeOK, Expire, ExpireCounter, ExpireLikedBy
    <2> QED BY <1>10, <2>1
         DEF TypeOK, Expire, ExpireCounter, ExpireLikedBy, local
  <1>11. CASE UNCHANGED vars
    BY <1>11 DEF TypeOK, vars
  <1> QED BY <1>1, <1>2, <1>3, <1>4, <1>5, <1>6, <1>7, <1>8, <1>9, <1>10, <1>11
       DEF Next, Step, CountStep, Idle

\* The state of the like storage keeps its types, whatever is in flight and
\* whatever fails (storage.go 36-193).
THEOREM TypeCorrect == Spec => []TypeOK
  BY InitType, StepType, PTL DEF Spec

------------------------------------------------------------------------------
(* Negative counters.  A SET can only make a counter negative if it writes a  *)
(* negative number, so the invariant also says that what a count is about to  *)
(* write was read from the database, and that a lost SET 0 is blamed once.    *)

\* What a count read from post_likes, and is about to cache, is not negative.
ReadsNonNegative ==
    \A r \in Reqs :
        /\ pc[r] = "db" => \A p \in miss[r] \ todo[r] : val[r][p] >= 0
        /\ pc[r] = "set" => \A p \in todo[r] : val[r][p] >= 0

\* An Unlike whose reset was lost is past it.
UnclampedIsOver ==
    \A r \in unclamped : pc[r] \in {"delete", "respond", "done", "failed"}

OwedInv == ReadsNonNegative /\ UnclampedIsOver

LEMMA DebtFinite ==
  ASSUME TypeOK, NEW p \in Posts
  PROVE  Debt(p) \subseteq Reqs /\ IsFiniteSet(Debt(p)) /\ Cardinality(Debt(p)) \in Nat
  <1>1. Debt(p) \subseteq Reqs
    BY DEF Debt, ToClamp, TypeOK
  <1> QED BY <1>1, ReqsAssumption, FS_Subset, FS_CardinalityType

\* A step that forgets no debt and lowers no counter below zero owes nothing new.
LEMMA DebtKept ==
  ASSUME TypeOK, TypeOK', NegativeIsOwed,
         \A p \in Posts : \/ likes'[p] >= 0
                          \/ likes'[p] >= likes[p] /\ Debt(p) \subseteq Debt(p)'
  PROVE  NegativeIsOwed'
  <1> SUFFICES ASSUME NEW p \in Posts PROVE likes'[p] >= -Cardinality(Debt(p)')
    BY DEF NegativeIsOwed
  <1>1. likes[p] \in Int /\ likes'[p] \in Int
    BY DEF TypeOK
  <1>2. /\ Cardinality(Debt(p)) \in Nat /\ likes[p] >= -Cardinality(Debt(p))
    BY DebtFinite DEF NegativeIsOwed
  <1>3. Debt(p)' \subseteq Reqs
    BY DEF Debt, ToClamp, TypeOK
  <1>4. IsFiniteSet(Debt(p)') /\ Cardinality(Debt(p)') \in Nat
    BY <1>3, ReqsAssumption, FS_Subset, FS_CardinalityType
  <1>5. CASE likes'[p] >= 0
    BY <1>1, <1>4, <1>5
  <1>6. CASE likes'[p] >= likes[p] /\ Debt(p) \subseteq Debt(p)'
    <2>1. Cardinality(Debt(p)) <= Cardinality(Debt(p)')
      BY <1>4, <1>6, FS_Subset
    <2> QED BY <1>1, <1>2, <1>4, <1>6, <2>1
  <1> QED BY <1>5, <1>6

\* Steps of a request that is not between its DECR and its SET 0, and that
\* leave the counters alone or raise them.
LEMMA DebtUntouched ==
  ASSUME TypeOK, TypeOK', UnclampedIsOver, NEW r \in Reqs,
         pc[r] \notin {"srem", "clamp"},
         unclamped' = unclamped,
         \A q \in Reqs \ {r} : pc'[q] = pc[q] /\ val'[q] = val[q],
         \/ call' = call
         \/ pc[r] = "idle" /\ \A q \in Reqs \ {r} : call'[q] = call[q],
         NEW p \in Posts
  PROVE  Debt(p) \subseteq Debt(p)'
  <1> SUFFICES ASSUME NEW q \in Debt(p) PROVE q \in Debt(p)'
    OBVIOUS
  <1>1. q \in Reqs
    BY DebtFinite
  <1>2. CASE q \in ToClamp(p)
    <2>1. q # r
      BY <1>2 DEF ToClamp
    <2> QED BY <1>1, <1>2, <2>1 DEF ToClamp, Debt, Post
  <1>3. CASE q \in unclamped /\ Post(q) = p
    <2>1. call'[q] = call[q]
      BY <1>1, <1>3 DEF UnclampedIsOver
    <2> QED BY <1>3, <2>1 DEF Debt, Post
  <1> QED BY <1>2, <1>3 DEF Debt

\* The requests other than r stand where they were.
Others(r) ==
    /\ \A q \in Reqs \ {r} : /\ pc'[q] = pc[q] /\ val'[q] = val[q]
                             /\ todo'[q] = todo[q] /\ miss'[q] = miss[q]

LEMMA ReadsKept ==
  ASSUME ReadsNonNegative, NEW r \in Reqs, Others(r), pc'[r] \notin {"db", "set"}
  PROVE  ReadsNonNegative'
  BY DEF ReadsNonNegative, Others

LEMMA OwedStart ==
  ASSUME TypeOK, TypeOK', OwedInv, NegativeIsOwed, NEW r \in Reqs, Start(r)
  PROVE  OwedInv' /\ NegativeIsOwed'
  <1>1. PICK c \in Call :
          /\ call' = [call EXCEPT ![r] = c]
          /\ \/ StartWrite(r, c)
             \/ StartIsLiked(r, c)
             \/ StartCount(r, c)
             \/ StartBatchCount(r, c)
    BY DEF Start
  <1>2. /\ pc' = [pc EXCEPT ![r] = pc'[r]]
        /\ pc'[r] \in {"check", "member", "get", "respond"}
        /\ \A q \in Reqs \ {r} : todo'[q] = todo[q]
    BY <1>1 DEF StartWrite, StartIsLiked, StartCount, StartBatchCount, Goto, TypeOK
  <1>3. Others(r) /\ UNCHANGED <<likes, unclamped>> /\ pc[r] = "idle"
    BY <1>2 DEF Start, Others, TypeOK, cache
  <1>4. ReadsNonNegative'
    BY <1>2, <1>3, ReadsKept DEF OwedInv
  <1>5. UnclampedIsOver'
    BY <1>3 DEF OwedInv, UnclampedIsOver, Others, TypeOK
  <1>6. \A p \in Posts : Debt(p) \subseteq Debt(p)'
    BY <1>1, <1>3, DebtUntouched DEF Others, OwedInv, TypeOK
  <1>7. \A p \in Posts : likes'[p] >= likes[p]
    BY <1>3 DEF TypeOK
  <1> QED BY <1>4, <1>5, <1>6, <1>7, DebtKept DEF OwedInv

\* Check, Incr, SAdd, InsertRow, DeleteRow, Get, IsMember and Respond.
LEMMA OwedPlainStep ==
  ASSUME TypeOK, TypeOK', OwedInv, NegativeIsOwed, NEW r \in Reqs,
         Others(r), UNCHANGED <<call, unclamped>>,
         pc[r] \notin {"srem", "clamp"}, pc'[r] \notin {"db", "set"},
         pc[r] \in {"delete", "respond"} => pc'[r] \in {"respond", "done"},
         pc[r] \notin {"done", "failed"},
         \A p \in Posts : likes'[p] >= likes[p]
  PROVE  OwedInv' /\ NegativeIsOwed'
  <1>1. ReadsNonNegative'
    BY ReadsKept DEF OwedInv
  <1>2. UnclampedIsOver'
    BY DEF OwedInv, UnclampedIsOver, Others, TypeOK
  <1>3. \A p \in Posts : Debt(p) \subseteq Debt(p)'
    BY DebtUntouched DEF Others, OwedInv
  <1> QED BY <1>1, <1>2, <1>3, DebtKept DEF OwedInv

LEMMA OwedWriteStep ==
  ASSUME TypeOK, TypeOK', OwedInv, NegativeIsOwed, NEW r \in Reqs, WriteStep(r)
  PROVE  OwedInv' /\ NegativeIsOwed'
  <1> USE DEF Goto
  <1>0. /\ Post(r) \in Posts /\ User(r) \in Users
        /\ \A p \in Posts : likes[p] \in Int /\ likes'[p] \in Int
    BY DEF TypeOK, Post, User, Call
  <1>1. CASE Check(r)
    <2>1. /\ pc[r] = "check" /\ pc' = [pc EXCEPT ![r] = pc'[r]]
          /\ pc'[r] \in {"incr", "decr", "get"}
          /\ \A q \in Reqs \ {r} : todo'[q] = todo[q]
      BY <1>1 DEF Check, CallCount, TypeOK
    <2>2. Others(r) /\ UNCHANGED <<call, unclamped, likes>>
      BY <1>1, <2>1 DEF Check, Others, TypeOK, cache
    <2> QED BY <1>0, <2>1, <2>2, OwedPlainStep
  <1>2. CASE Incr(r)
    <2>1. Others(r) /\ UNCHANGED <<call, unclamped>> /\ pc[r] = "incr" /\ pc'[r] = "sadd"
      BY <1>2 DEF Incr, AddToCounter, Others, TypeOK
    <2>2. \A p \in Posts : likes'[p] >= likes[p]
      BY <1>0, <1>2 DEF Incr, AddToCounter, TypeOK
    <2> QED BY <2>1, <2>2, OwedPlainStep
  <1>3. CASE SAdd(r)
    <2>1. /\ Others(r) /\ UNCHANGED <<call, unclamped, likes>>
          /\ pc[r] = "sadd" /\ pc'[r] = "insert"
      BY <1>3 DEF SAdd, Others, TypeOK, local
    <2> QED BY <1>0, <2>1, OwedPlainStep
  <1>4. CASE InsertRow(r)
    <2>1. /\ Others(r) /\ UNCHANGED <<call, unclamped, likes>>
          /\ pc[r] = "insert" /\ pc'[r] = "respond"
      BY <1>4 DEF InsertRow, Others, TypeOK, local, cache
    <2> QED BY <1>0, <2>1, OwedPlainStep
  <1>5. CASE Decr(r)
    <2>1. /\ Others(r) /\ UNCHANGED <<call, unclamped>>
          /\ pc[r] = "decr" /\ pc'[r] = "srem"
      BY <1>5 DEF Decr, AddToCounter, Others, TypeOK
    <2>2. /\ \A p \in Posts \ {Post(r)} : likes'[p] = likes[p]
          /\ likes'[Post(r)] = likes[Post(r)] - 1
          /\ val'[r][Post(r)] = likes[Post(r)] - 1
      BY <1>0, <1>5 DEF Decr, AddToCounter, TypeOK
    <2>3. ReadsNonNegative' /\ UnclampedIsOver'
      BY <2>1, ReadsKept DEF OwedInv, UnclampedIsOver, Others, TypeOK
    <2>4. \A p \in Posts : Debt(p) \subseteq Debt(p)'
      BY <2>1, DebtUntouched DEF Others, OwedInv
    <2>5. ASSUME NEW p \in Posts, p = Post(r), likes[p] < 1
          PROVE  likes'[p] >= -Cardinality(Debt(p)')
      <3> DEFINE D == Debt(p)
                 E == Debt(p)'
      <3>1. r \notin D
        BY <2>1 DEF Debt, ToClamp, OwedInv, UnclampedIsOver
      <3>2. r \in E
        <4>1. val'[r][p] < 0
          BY <1>0, <2>2, <2>5
        <4>2. call'[r].post = p
          BY <2>1, <2>5 DEF Post
        <4> QED BY <2>1, <4>1, <4>2 DEF Debt, ToClamp, Post
      <3>3. IsFiniteSet(D) /\ Cardinality(D) \in Nat /\ likes[p] >= -Cardinality(D)
        BY <1>0, DebtFinite DEF NegativeIsOwed
      <3>4. E \subseteq Reqs
        BY DEF Debt, ToClamp, TypeOK
      <3>5. IsFiniteSet(E) /\ Cardinality(E) \in Nat
        BY <3>4, ReqsAssumption, FS_Subset, FS_CardinalityType
      <3>6. D \cup {r} \subseteq E
        BY <1>0, <2>4, <3>2
      <3> HIDE DEF D, E
      <3>7. Cardinality(D \cup {r}) = Cardinality(D) + 1
        BY <3>1, <3>3, FS_AddElement
      <3>8. Cardinality(D \cup {r}) <= Cardinality(E)
        BY <3>5, <3>6, FS_Subset
      <3>9. likes'[p] >= -Cardinality(E)
        BY <1>0, <2>2, <3>3, <3>5, <3>7, <3>8
      <3> QED BY <3>9 DEF E
    <2>6. NegativeIsOwed'
      <3> SUFFICES ASSUME NEW p \in Posts PROVE likes'[p] >= -Cardinality(Debt(p)')
        BY DEF NegativeIsOwed
      <3>1. Debt(p)' \subseteq Reqs
        BY DEF Debt, ToClamp, TypeOK
      <3>2. IsFiniteSet(Debt(p)') /\ Cardinality(Debt(p)') \in Nat
        BY <3>1, ReqsAssumption, FS_Subset, FS_CardinalityType
      <3>3. CASE p = Post(r) /\ likes[p] < 1
        BY <2>5, <3>3
      <3>4. CASE p = Post(r) /\ likes[p] >= 1
        BY <1>0, <2>2, <3>2, <3>4
      <3>5. CASE p # Post(r)
        <4>1. Cardinality(Debt(p)) <= Cardinality(Debt(p)')
          BY <2>4, <3>2, FS_Subset
        <4>2. Cardinality(Debt(p)) \in Nat /\ likes[p] >= -Cardinality(Debt(p))
          BY DebtFinite DEF NegativeIsOwed
        <4> QED BY <1>0, <2>2, <3>2, <3>5, <4>1, <4>2
      <3> QED BY <1>0, <3>3, <3>4, <3>5
    <2> QED BY <2>3, <2>6 DEF OwedInv
  <1>6. CASE SRem(r)
    <2>1. /\ Others(r) /\ UNCHANGED <<call, unclamped, likes, val>>
          /\ pc[r] = "srem"
          /\ pc'[r] = IF val[r][Post(r)] < 0 THEN "clamp" ELSE "delete"
      BY <1>6 DEF SRem, Others, TypeOK, local, Negative
    <2>2. ReadsNonNegative' /\ UnclampedIsOver'
      BY <2>1, ReadsKept DEF OwedInv, UnclampedIsOver, Others, TypeOK
    <2>3. \A p \in Posts : Debt(p) \subseteq Debt(p)'
      BY <2>1 DEF Debt, ToClamp, Post, Others
    <2> QED BY <1>0, <2>1, <2>2, <2>3, DebtKept DEF OwedInv
  <1>7. CASE Clamp(r)
    <2>1. /\ Others(r) /\ UNCHANGED call
          /\ pc[r] = "clamp" /\ pc'[r] = "delete"
      BY <1>7 DEF Clamp, Others, TypeOK
    <2>2. ReadsNonNegative'
      BY <2>1, ReadsKept DEF OwedInv
    <2>3. UnclampedIsOver'
      BY <1>7, <2>1 DEF OwedInv, UnclampedIsOver, Others, TypeOK, Clamp
    <2>4. \A p \in Posts \ {Post(r)} : Debt(p) \subseteq Debt(p)' /\ likes'[p] = likes[p]
      BY <1>7, <2>1 DEF Debt, ToClamp, Post, Others, Clamp, SetCounter, TypeOK
    <2>5. CASE SetCounter(Post(r), 0)
      <3>1. likes'[Post(r)] = 0
        BY <1>0, <2>5 DEF SetCounter, TypeOK
      <3> QED BY <1>0, <2>2, <2>3, <2>4, <3>1, DebtKept DEF OwedInv
    <2>6. CASE unclamped' = unclamped \cup {r} /\ UNCHANGED likes
      <3>1. \A p \in Posts : Debt(p) \subseteq Debt(p)'
        BY <2>1, <2>6 DEF Debt, ToClamp, Post, Others
      <3> QED BY <1>0, <2>2, <2>3, <2>6, <3>1, DebtKept DEF OwedInv
    <2> QED BY <1>7, <2>5, <2>6 DEF Clamp
  <1>8. CASE DeleteRow(r)
    <2>1. /\ Others(r) /\ UNCHANGED <<call, unclamped, likes>>
          /\ pc[r] = "delete" /\ pc'[r] = "respond"
      BY <1>8 DEF DeleteRow, Others, TypeOK, local, cache
    <2> QED BY <1>0, <2>1, OwedPlainStep
  <1> QED BY <1>1, <1>2, <1>3, <1>4, <1>5, <1>6, <1>7, <1>8 DEF WriteStep

\* Within a count only its own pc, todo, miss and val move.
LEMMA OwedCountStep ==
  ASSUME TypeOK, TypeOK', OwedInv, NegativeIsOwed, NEW r \in Reqs, CountStep(r)
  PROVE  OwedInv' /\ NegativeIsOwed'
  <1> USE DEF Goto
  <1>0. PICK p \in Posts :
          Get(r, p) \/ DbCount(r, p) \/ DbCountFail(r, p) \/ SetBack(r, p)
    BY DEF CountStep
  <1>1. /\ UNCHANGED <<call, unclamped>>
        /\ pc[r] \in {"get", "db", "set"} /\ p \in todo[r]
        /\ Others(r)
    <2>1. \A n, l : EndPhase(r, p, n, l)
            => \A q \in Reqs \ {r} : pc'[q] = pc[q] /\ todo'[q] = todo[q]
      BY DEF EndPhase, TypeOK
    <2>2. CASE Get(r, p)
      BY <2>1, <2>2 DEF Get, Others, TypeOK
    <2>3. CASE DbCount(r, p)
      BY <2>1, <2>3 DEF DbCount, Others, TypeOK
    <2>4. CASE DbCountFail(r, p)
      BY <2>1, <2>4 DEF DbCountFail, Others, TypeOK
    <2>5. CASE SetBack(r, p)
      BY <2>1, <2>5 DEF SetBack, Others, TypeOK
    <2> QED BY <1>0, <2>2, <2>3, <2>4, <2>5
  <1>2. ReadsNonNegative'
    <2>1. \A q \in Reqs \ {r} :
             /\ pc'[q] = "db" => \A x \in miss'[q] \ todo'[q] : val'[q][x] >= 0
             /\ pc'[q] = "set" => \A x \in todo'[q] : val'[q][x] >= 0
      BY <1>1 DEF OwedInv, ReadsNonNegative, Others
    <2>2. /\ pc'[r] = "db" => \A x \in miss'[r] \ todo'[r] : val'[r][x] >= 0
          /\ pc'[r] = "set" => \A x \in todo'[r] : val'[r][x] >= 0
      <3>1. CASE Get(r, p)
        <4>1. /\ pc[r] = "get" 
              /\ EndPhase(r, p, miss'[r], "db")
          BY <3>1 DEF Get, TypeOK
        <4>2. /\ pc'[r] # "set"
              /\ pc'[r] = "db" => todo'[r] = miss'[r]
          BY <4>1 DEF EndPhase, TypeOK
        <4> QED BY <4>2
      <3>2. CASE DbCount(r, p)
        <4>1. Cardinality(rows[p]) \in Nat
          BY RowsCount DEF TypeOK
        <4>2. /\ val'[r][p] >= 0 /\ \A x \in Posts \ {p} : val'[r][x] = val[r][x]
              /\ miss'[r] = miss[r] /\ miss[r] \subseteq Posts
              /\ \A x \in miss[r] \ todo[r] : val[r][x] >= 0
          BY <3>2, <4>1 DEF DbCount, TypeOK, OwedInv, ReadsNonNegative
        <4>3. \A x \in miss[r] \ (todo[r] \ {p}) : val'[r][x] >= 0
          BY <4>2
        <4>4. \/ pc'[r] = "db" /\ todo'[r] = todo[r] \ {p}
              \/ /\ todo[r] \ {p} = {} /\ todo'[r] = miss[r]
                 /\ pc'[r] \in {"set", "respond"}
          BY <3>2 DEF DbCount, EndPhase, TypeOK
        <4> QED BY <4>2, <4>3, <4>4
      <3>3. CASE DbCountFail(r, p) /\ call[r].op = "batchCount"
        <4>1. /\ val'[r] = val[r] /\ miss'[r] = miss[r] \ {p}
              /\ \A x \in miss[r] \ todo[r] : val[r][x] >= 0
              /\ EndPhase(r, p, miss[r] \ {p}, "set") /\ pc[r] = "db"
          BY <3>3 DEF DbCountFail, TypeOK, OwedInv, ReadsNonNegative
        <4>2. \/ pc'[r] = "db" /\ todo'[r] = todo[r] \ {p}
              \/ /\ todo[r] \ {p} = {} /\ todo'[r] = miss[r] \ {p}
                 /\ pc'[r] \in {"set", "respond"}
          BY <4>1 DEF EndPhase, TypeOK
        <4> QED BY <4>1, <4>2
      <3>4. CASE DbCountFail(r, p) /\ call[r].op # "batchCount"
        BY <3>4 DEF DbCountFail, TypeOK
      <3>5. CASE SetBack(r, p)
        <4>1. /\ val'[r] = val[r] /\ pc[r] = "set"
              /\ \A x \in todo[r] : val[r][x] >= 0
          BY <3>5 DEF SetBack, TypeOK, OwedInv, ReadsNonNegative
        <4>2. \/ pc'[r] = "set" /\ todo'[r] = todo[r] \ {p}
              \/ pc'[r] = "respond"
          BY <3>5 DEF SetBack, EndPhase, TypeOK
        <4> QED BY <4>1, <4>2
      <3> QED BY <1>0, <3>1, <3>2, <3>3, <3>4, <3>5
    <2> QED BY <2>1, <2>2 DEF ReadsNonNegative
  <1>3. UnclampedIsOver'
    BY <1>1 DEF OwedInv, UnclampedIsOver, Others, TypeOK
  <1>4. \A x \in Posts : Debt(x) \subseteq Debt(x)'
    BY <1>1, DebtUntouched DEF Others, OwedInv
  <1>5. \A x \in Posts : likes'[x] >= likes[x] \/ likes'[x] >= 0
    <2>1. CASE SetBack(r, p)
      <3>1. val[r][p] >= 0
        BY <2>1 DEF SetBack, OwedInv, ReadsNonNegative
      <3>2. likes' = [likes EXCEPT ![p] = val[r][p]] \/ likes' = likes
        BY <2>1 DEF SetBack, SetCounter
      <3>3. \A x \in Posts : likes[x] \in Int
        BY DEF TypeOK
      <3>4. \A x \in Posts : (likes'[x] = val[r][p] /\ x = p) \/ likes'[x] = likes[x]
        BY <3>2 DEF TypeOK
      <3> QED BY <3>1, <3>3, <3>4
    <2>2. CASE ~SetBack(r, p)
      BY <1>0, <2>2 DEF Get, DbCount, DbCountFail, cache, TypeOK
    <2> QED BY <2>1, <2>2
  <1> QED BY <1>2, <1>3, <1>4, <1>5, DebtKept DEF OwedInv

LEMMA OwedStep ==
  ASSUME TypeOK, TypeOK', OwedInv, NegativeIsOwed, [Next]_vars
  PROVE  OwedInv' /\ NegativeIsOwed'
  <1> USE DEF Goto
  <1>0. \A p \in Posts : likes[p] \in Int
    BY DEF TypeOK
  <1>1. ASSUME NEW r \in Reqs, IsMember(r) PROVE OwedInv' /\ NegativeIsOwed'
    <2>1. /\ Others(r) /\ UNCHANGED <<call, unclamped, likes>>
          /\ pc[r] = "member" /\ pc'[r] = "respond"
      BY <1>1 DEF IsMember, Others, TypeOK, cache
    <2> QED BY <1>0, <2>1, OwedPlainStep
  <1>2. ASSUME NEW r \in Reqs, Respond(r) PROVE OwedInv' /\ NegativeIsOwed'
    <2>1. /\ Others(r) /\ UNCHANGED <<call, unclamped, likes>>
          /\ pc[r] = "respond" /\ pc'[r] = "done"
      BY <1>2 DEF Respond, Others, TypeOK, cache, local
    <2> QED BY <1>0, <2>1, OwedPlainStep
  <1>3. ASSUME NEW r \in Reqs, Abort(r) PROVE OwedInv' /\ NegativeIsOwed'
    <2>1. /\ Others(r) /\ UNCHANGED <<call, likes, val>> /\ pc'[r] = "failed"
          /\ unclamped \subseteq unclamped' /\ unclamped' \subseteq unclamped \cup {r}
      BY <1>3 DEF Abort, Others, TypeOK, cache
    <2>2. ReadsNonNegative' /\ UnclampedIsOver'
      BY <2>1, ReadsKept DEF OwedInv, UnclampedIsOver, Others, TypeOK
    <2>3. \A p \in Posts : Debt(p) \subseteq Debt(p)'
      BY <1>3, <2>1 DEF Abort, Debt, ToClamp, Post, Others
    <2> QED BY <1>0, <2>1, <2>2, <2>3, DebtKept DEF OwedInv
  <1>4. ASSUME NEW p \in Posts, Expire(p) PROVE OwedInv' /\ NegativeIsOwed'
    <2>1. UNCHANGED <<call, pc, local>>
      BY <1>4 DEF Expire, ExpireCounter, ExpireLikedBy
    <2>2. ReadsNonNegative' /\ UnclampedIsOver'
      BY <2>1 DEF OwedInv, ReadsNonNegative, UnclampedIsOver, local
    <2>3. \A x \in Posts : Debt(x) \subseteq Debt(x)'
      BY <2>1 DEF Debt, ToClamp, Post, local
    <2>4. \A x \in Posts : likes'[x] >= likes[x] \/ likes'[x] >= 0
      <3>1. likes' = [likes EXCEPT ![p] = 0] \/ likes' = likes
        BY <1>4 DEF Expire, ExpireCounter, ExpireLikedBy
      <3>2. \A x \in Posts : likes'[x] = 0 \/ likes'[x] = likes[x]
        BY <3>1 DEF TypeOK
      <3> QED BY <1>0, <3>2
    <2> QED BY <2>2, <2>3, <2>4, DebtKept DEF OwedInv
  <1>5. CASE UNCHANGED vars
    <2>1. OwedInv'
      BY <1>5 DEF vars, OwedInv, ReadsNonNegative, UnclampedIsOver
    <2>2. \A x \in Posts : Debt(x) \subseteq Debt(x)' /\ likes'[x] >= likes[x]
      BY <1>0, <1>5 DEF vars, Debt, ToClamp, Post
    <2> QED BY <2>1, <2>2, DebtKept DEF OwedInv
  <1> QED BY <1>1, <1>2, <1>3, <1>4, <1>5, OwedStart, OwedWriteStep, OwedCountStep
       DEF Next, Step, Idle

LEMMA OwedInit ==
  ASSUME Init, TypeOK
  PROVE  OwedInv /\ NegativeIsOwed
  <1>1. OwedInv
    BY DEF Init, OwedInv, ReadsNonNegative, UnclampedIsOver
  <1>2. ASSUME NEW p \in Posts PROVE likes[p] >= -Cardinality(Debt(p))
    <2>1. Cardinality(Debt(p)) \in Nat
      BY DebtFinite
    <2>2. likes[p] >= 0
      <3>1. PICK liked \in [Posts -> SUBSET Users] :
              likes = [x \in Posts |-> IF WarmCounters THEN Cardinality(liked[x]) ELSE 0]
        BY DEF Init
      <3>2. Cardinality(liked[p]) \in Nat
        BY RowsCount
      <3> QED BY <3>1, <3>2
    <2> QED BY <2>1, <2>2 DEF TypeOK
  <1> QED BY <1>1, <1>2 DEF NegativeIsOwed

\* The counter of a post is below zero by at most the Unlikes between DECR and
\* SET 0, or lost there (storage.go 66-79), for any number of requests, users,
\* expiries and failures.
THEOREM NegativeOwed == Spec => []NegativeIsOwed
  <1>1. Init => TypeOK /\ OwedInv /\ NegativeIsOwed
    BY InitType, OwedInit
  <1>2. /\ TypeOK /\ OwedInv /\ NegativeIsOwed /\ [Next]_vars
        => (TypeOK /\ OwedInv /\ NegativeIsOwed)'
    BY StepType, OwedStep
  <1> QED BY <1>1, <1>2, PTL DEF Spec

------------------------------------------------------------------------------
(* Who writes what *)

WritePCs == {"check", "incr", "sadd", "insert", "decr", "srem", "clamp", "delete"}

IsWrite(r) == InFlight(r) /\ call[r].op \in WriteOps

\* Requests in the code of Like and Unlike are such calls, and no user has two of
\* them for one post.
SerialInv ==
    /\ \A r \in Reqs : pc[r] \in WritePCs => IsWrite(r)
    /\ SerialUsers =>
         \A q, r \in Reqs :
            q # r /\ IsWrite(q) /\ IsWrite(r) => ~(User(q) = User(r) /\ Post(q) = Post(r))

\* The users whose Like or Unlike of the post is at one of the steps L.
At(L, p) ==
    {u \in Users : \E r \in Reqs : pc[r] \in L /\ User(r) = u /\ Post(r) = p}

\* What a step does to the others, and to what a request is.
OnlyMoves(r) ==
    /\ call' = call
    /\ \A q \in Reqs \ {r} : pc'[q] = pc[q]

LEMMA CallTypes ==
  ASSUME TypeOK, NEW r \in Reqs
  PROVE  User(r) \in Users /\ Post(r) \in Posts
  BY DEF TypeOK, User, Post, Call

LEMMA AtSame ==
  ASSUME NEW r \in Reqs, OnlyMoves(r), NEW L, NEW p, pc[r] \in L <=> pc'[r] \in L
  PROVE  At(L, p)' = At(L, p)
  BY DEF OnlyMoves, At, User, Post

LEMMA AtGains ==
  ASSUME TypeOK, NEW r \in Reqs, OnlyMoves(r), NEW L, pc[r] \notin L, pc'[r] \in L
  PROVE  \A p \in Posts :
            At(L, p)' = IF p = Post(r) THEN At(L, p) \cup {User(r)} ELSE At(L, p)
  <1>1. User(r) \in Users
    BY CallTypes
  <1> QED BY <1>1 DEF OnlyMoves, At, User, Post

\* Nobody else is at a step of Like or Unlike for the user and the post of r.
LEMMA AtAlone ==
  ASSUME SerialInv, SerialUsers, NEW r \in Reqs, pc[r] \in WritePCs,
         NEW q \in Reqs, pc[q] \in WritePCs, User(q) = User(r), Post(q) = Post(r)
  PROVE  q = r
  BY DEF SerialInv

LEMMA NotAt ==
  ASSUME SerialInv, SerialUsers, NEW r \in Reqs, pc[r] \in WritePCs,
         NEW L, L \subseteq WritePCs, pc[r] \notin L
  PROVE  User(r) \notin At(L, Post(r))
  BY AtAlone DEF At

LEMMA AtLoses ==
  ASSUME TypeOK, SerialInv, SerialUsers, NEW r \in Reqs, OnlyMoves(r),
         NEW L, L \subseteq WritePCs, pc[r] \in L, pc'[r] \notin L
  PROVE  \A p \in Posts :
            At(L, p)' = IF p = Post(r) THEN At(L, p) \ {User(r)} ELSE At(L, p)
  <1> SUFFICES ASSUME NEW p \in Posts
               PROVE  At(L, p)' = IF p = Post(r) THEN At(L, p) \ {User(r)} ELSE At(L, p)
    OBVIOUS
  <1>1. CASE p # Post(r)
    BY <1>1 DEF OnlyMoves, At, User, Post
  <1>2. ASSUME p = Post(r), NEW u \in At(L, p)' PROVE u \in At(L, p) /\ u # User(r)
    <2>1. PICK q \in Reqs : pc'[q] \in L /\ User(q) = u /\ Post(q) = p
      BY <1>2 DEF At, OnlyMoves, User, Post
    <2>2. q # r /\ pc[q] \in L
      BY <2>1 DEF OnlyMoves
    <2>3. u # User(r)
      BY <1>2, <2>1, <2>2, AtAlone
    <2>4. u \in Users
      BY <1>2 DEF At
    <2> QED BY <2>1, <2>2, <2>3, <2>4 DEF At
  <1>3. ASSUME NEW u \in At(L, p), u # User(r) PROVE u \in At(L, p)'
    BY <1>3 DEF At, OnlyMoves, User, Post
  <1> QED BY <1>1, <1>2, <1>3

------------------------------------------------------------------------------
(* One write of a user and a post at a time *)

\* Start apart, a step moves one request that was under way, or none.
LEMMA StepMoves ==
  ASSUME TypeOK, [Next]_vars
  PROVE  \/ \E r \in Reqs : Start(r)
         \/ \E r \in Reqs : /\ OnlyMoves(r) /\ InFlight(r)
                            /\ pc'[r] \in WritePCs => pc[r] \in WritePCs
         \/ UNCHANGED <<call, pc>>
  <1> USE DEF Goto
  <1>1. ASSUME NEW r \in Reqs, Step(r) \/ Abort(r)
        PROVE  /\ OnlyMoves(r) /\ InFlight(r)
               /\ pc'[r] \in WritePCs => pc[r] \in WritePCs
    <2>1. CASE WriteStep(r)
      <3>1. call' = call /\ pc[r] \in WritePCs
        BY <2>1 DEF WriteStep, Check, Incr, SAdd, InsertRow, Decr, SRem, Clamp, DeleteRow, WritePCs
      <3>2. \E l : pc' = [pc EXCEPT ![r] = l]
        BY <2>1 DEF WriteStep, Check, CallCount, Incr, SAdd, InsertRow, Decr, SRem, Clamp, DeleteRow
      <3> QED BY <3>1, <3>2 DEF OnlyMoves, TypeOK, InFlight, Ended, WritePCs
    <2>2. CASE CountStep(r)
      <3>1. call' = call /\ pc[r] \in {"get", "db", "set"}
        BY <2>2 DEF CountStep, Get, DbCount, DbCountFail, SetBack
      <3>2. pc' = pc \/ \E l \in {"respond", "db", "set", "failed"} : pc' = [pc EXCEPT ![r] = l]
        BY <2>2 DEF CountStep, Get, DbCount, DbCountFail, SetBack, EndPhase
      <3> QED BY <3>1, <3>2 DEF OnlyMoves, TypeOK, InFlight, Ended, WritePCs
    <2>3. CASE IsMember(r) \/ Respond(r)
      BY <2>3 DEF IsMember, Respond, OnlyMoves, TypeOK, InFlight, Ended, WritePCs
    <2>4. CASE Abort(r)
      BY <2>4 DEF Abort, OnlyMoves, TypeOK, WritePCs
    <2> QED BY <1>1, <2>1, <2>2, <2>3, <2>4 DEF Step
  <1>2. ASSUME NEW p \in Posts, Expire(p) PROVE UNCHANGED <<call, pc>>
    BY <1>2 DEF Expire, ExpireCounter, ExpireLikedBy
  <1>3. CASE UNCHANGED vars
    BY <1>3 DEF vars
  <1> QED BY <1>1, <1>2, <1>3 DEF Next, Idle

\* A request that starts is not yet at a step that writes.
LEMMA StartMoves ==
  ASSUME TypeOK, NEW r \in Reqs, Start(r)
  PROVE  /\ pc[r] = "idle" /\ pc'[r] \in {"check", "member", "get", "respond"}
         /\ \A q \in Reqs \ {r} : pc'[q] = pc[q] /\ call'[q] = call[q]
         /\ pc'[r] = "check" => call'[r].op \in WriteOps
         /\ SerialUsers /\ call'[r].op \in WriteOps =>
              \A q \in Reqs : ~Writing(q, call'[r].user, call'[r].post)
         /\ UNCHANGED <<cache, rows, faults, miss, val>>
  <1>1. PICK c \in Call :
          /\ call' = [call EXCEPT ![r] = c]
          /\ \/ StartWrite(r, c)
             \/ StartIsLiked(r, c)
             \/ StartCount(r, c)
             \/ StartBatchCount(r, c)
    BY DEF Start
  <1>2. call'[r] = c /\ \A q \in Reqs \ {r} : call'[q] = call[q]
    BY <1>1 DEF TypeOK
  <1>3. /\ pc'[r] \in {"check", "member", "get", "respond"}
        /\ \A q \in Reqs \ {r} : pc'[q] = pc[q]
        /\ pc'[r] = "check" => c.op \in WriteOps
    BY <1>1 DEF StartWrite, StartIsLiked, StartCount, StartBatchCount, Goto, TypeOK
  <1>4. c.op \in WriteOps => StartWrite(r, c)
    BY <1>1 DEF StartIsLiked, StartCount, StartBatchCount, WriteOps
  <1> QED BY <1>2, <1>3, <1>4 DEF Start, StartWrite

LEMMA SerialStep ==
  ASSUME TypeOK, SerialInv, [Next]_vars
  PROVE  SerialInv'
  <1>1. CASE \E r \in Reqs : Start(r)
    <2>1. PICK r \in Reqs : Start(r)
      BY <1>1
    <2>2. /\ pc[r] = "idle" /\ pc'[r] \in {"check", "member", "get", "respond"}
          /\ \A q \in Reqs \ {r} : pc'[q] = pc[q] /\ call'[q] = call[q]
          /\ pc'[r] = "check" => call'[r].op \in WriteOps
          /\ SerialUsers /\ call'[r].op \in WriteOps =>
               \A q \in Reqs : ~Writing(q, call'[r].user, call'[r].post)
      BY <2>1, StartMoves
    <2>3. \A q \in Reqs \ {r} : IsWrite(q)' = IsWrite(q) /\ User(q)' = User(q) /\ Post(q)' = Post(q)
      BY <2>2 DEF IsWrite, InFlight, User, Post
    <2>4. \A q \in Reqs : pc'[q] \in WritePCs => IsWrite(q)'
      <3>1. pc'[r] \in WritePCs => IsWrite(r)'
        BY <2>2 DEF IsWrite, InFlight, Ended, WritePCs
      <3> QED BY <2>2, <2>3, <3>1 DEF SerialInv
    <2>5. ASSUME SerialUsers, NEW q \in Reqs, q # r, IsWrite(q), IsWrite(r)'
          PROVE  ~(User(q) = User(r)' /\ Post(q) = Post(r)')
      BY <2>2, <2>5 DEF IsWrite, Writing, User, Post
    <2> QED BY <2>3, <2>4, <2>5 DEF SerialInv
  <1>2. CASE \E r \in Reqs : /\ OnlyMoves(r) /\ InFlight(r)
                             /\ pc'[r] \in WritePCs => pc[r] \in WritePCs
    <2>1. PICK r \in Reqs : /\ OnlyMoves(r) /\ InFlight(r)
                            /\ pc'[r] \in WritePCs => pc[r] \in WritePCs
      BY <1>2
    <2>2. \A q \in Reqs : /\ IsWrite(q)' => IsWrite(q)
                          /\ User(q)' = User(q) /\ Post(q)' = Post(q)
      BY <2>1 DEF OnlyMoves, IsWrite, InFlight, User, Post
    <2>3. \A q \in Reqs : pc'[q] \in WritePCs => IsWrite(q)'
      <3>1. \A q \in Reqs \ {r} : pc'[q] = pc[q] /\ IsWrite(q)' = IsWrite(q)
        BY <2>1 DEF OnlyMoves, IsWrite, InFlight
      <3>2. pc'[r] \in WritePCs => IsWrite(r)'
        BY <2>1 DEF OnlyMoves, IsWrite, InFlight, Ended, WritePCs, SerialInv
      <3> QED BY <3>1, <3>2 DEF SerialInv
    <2> QED BY <2>2, <2>3 DEF SerialInv
  <1>3. CASE UNCHANGED <<call, pc>>
    BY <1>3 DEF SerialInv, IsWrite, InFlight, User, Post
  <1> QED BY <1>1, <1>2, <1>3, StepMoves

\* A fault that has not struck has not struck before.
LEMMA FaultsStay ==
  ASSUME TypeOK, [Next]_vars, NEW K \in SUBSET FaultKinds, NoFault(K)'
  PROVE  NoFault(K)
  <1>1. UNCHANGED faults \/ \E k \in FaultKinds : Fault(k)
    <2>1. ASSUME NEW r \in Reqs, Step(r) PROVE UNCHANGED faults \/ \E k \in FaultKinds : Fault(k)
      <3>1. CASE WriteStep(r)
        BY <3>1 DEF WriteStep, Check, SIsMemberVal, Incr, SAdd, InsertRow, Decr, SRem, Clamp,
           DeleteRow, WriteRow, FaultKinds
      <3>2. CASE CountStep(r)
        BY <3>2 DEF CountStep, Get, DbCount, DbCountFail, SetBack, FaultKinds
      <3> QED BY <2>1, <3>1, <3>2 DEF Step, IsMember, Respond
    <2> QED BY <2>1 DEF Next, Start, Abort, Expire, ExpireCounter, ExpireLikedBy, Idle, vars,
            FaultKinds
  <1>2. \A k \in FaultKinds : faults[k] \in Nat /\ faults'[k] >= faults[k]
    BY <1>1 DEF Fault, TypeOK
  <1> QED BY <1>2 DEF NoFault

LEMMA NoStrike ==
  ASSUME TypeOK, NEW K \in SUBSET FaultKinds, NEW k \in K, NoFault(K)'
  PROVE  ~Fault(k)
  BY DEF NoFault, Fault, TypeOK

------------------------------------------------------------------------------
(* The set while a write is under way *)

\* Between SISMEMBER and SADD the user of a Like is not in the set, afterwards he is;
\* with an Unlike it is the other way round.
Before == {"incr", "sadd", "clamp", "delete"}
After == {"insert", "decr", "srem"}

SetFaults == {"setExpiry", "redis"}

MemberInv ==
    SerialUsers /\ NoFault(SetFaults) =>
      \A r \in Reqs :
        /\ pc[r] \in Before => User(r) \notin likedBy[Post(r)]
        /\ pc[r] \in After => User(r) \in likedBy[Post(r)]

\* The set stays, and a request that arrives at such a step has seen it so.
LEMMA MemberCalm ==
  ASSUME TypeOK, MemberInv, SerialUsers, NoFault(SetFaults), NEW r \in Reqs, OnlyMoves(r),
         likedBy' = likedBy,
         pc'[r] \in Before => pc[r] \in Before \/ User(r) \notin likedBy[Post(r)],
         pc'[r] \in After => pc[r] \in After \/ User(r) \in likedBy[Post(r)]
  PROVE  MemberInv'
  BY DEF MemberInv, OnlyMoves, User, Post

LEMMA MemberStep ==
  ASSUME TypeOK, SerialInv, MemberInv, [Next]_vars
  PROVE  MemberInv'
  <1> USE DEF Goto
  <1> SUFFICES ASSUME SerialUsers, NoFault(SetFaults)' PROVE MemberInv'
    BY DEF MemberInv
  <1>0. SetFaults \subseteq FaultKinds
    BY DEF SetFaults, FaultKinds
  <1>1. /\ NoFault(SetFaults) /\ ~Fault("setExpiry") /\ ~Fault("redis")
    BY <1>0, FaultsStay, NoStrike DEF SetFaults
  <1>2. ASSUME NEW r \in Reqs, Start(r) PROVE MemberInv'
    <2>1. /\ \A q \in Reqs \ {r} : pc'[q] = pc[q] /\ call'[q] = call[q]
          /\ pc'[r] \in {"check", "member", "get", "respond"} /\ likedBy' = likedBy
      BY <1>2, StartMoves DEF cache
    <2> QED BY <1>1, <2>1 DEF MemberInv, User, Post, Before, After
  <1>3. ASSUME NEW r \in Reqs, Check(r) PROVE MemberInv'
    <2>1. /\ \/ pc' = [pc EXCEPT ![r] = "incr"] /\ User(r) \notin likedBy[Post(r)]
             \/ pc' = [pc EXCEPT ![r] = "decr"] /\ User(r) \in likedBy[Post(r)]
             \/ pc' = [pc EXCEPT ![r] = "get"]
      BY <1>1, <1>3 DEF Check, SIsMemberVal, CallCount
    <2>2. OnlyMoves(r) /\ likedBy' = likedBy
      BY <1>3, <2>1 DEF Check, OnlyMoves, cache, TypeOK
    <2>3. /\ pc'[r] \in {"incr", "decr", "get"}
          /\ pc'[r] = "incr" => User(r) \notin likedBy[Post(r)]
          /\ pc'[r] = "decr" => User(r) \in likedBy[Post(r)]
      BY <2>1 DEF TypeOK
    <2> QED BY <1>1, <2>2, <2>3, MemberCalm DEF Before, After
  <1>4. ASSUME NEW r \in Reqs,
               Incr(r) \/ InsertRow(r) \/ Decr(r) \/ Clamp(r) \/ DeleteRow(r)
        PROVE  MemberInv'
    <2>1. OnlyMoves(r) /\ likedBy' = likedBy
      BY <1>4 DEF Incr, InsertRow, Decr, Clamp, DeleteRow, AddToCounter, OnlyMoves, cache, TypeOK
    <2>2. \/ pc[r] = "incr" /\ pc'[r] = "sadd"
          \/ pc[r] = "decr" /\ pc'[r] = "srem"
          \/ pc[r] = "clamp" /\ pc'[r] = "delete"
          \/ pc'[r] = "respond"
      BY <1>4 DEF Incr, InsertRow, Decr, Clamp, DeleteRow, TypeOK
    <2> QED BY <1>1, <2>1, <2>2, MemberCalm DEF Before, After
  <1>5. ASSUME NEW r \in Reqs, SAdd(r) PROVE MemberInv'
    <2>0. User(r) \in Users /\ Post(r) \in Posts
      BY CallTypes
    <2>1. /\ OnlyMoves(r) /\ pc[r] = "sadd" /\ pc'[r] = "insert"
          /\ likedBy'[Post(r)] = likedBy[Post(r)] \cup {User(r)}
          /\ \A p \in Posts \ {Post(r)} : likedBy'[p] = likedBy[p]
      BY <1>5, <2>0 DEF SAdd, OnlyMoves, TypeOK
    <2>2. ASSUME NEW q \in Reqs, q # r, pc[q] \in Before
          PROVE  User(q) \notin likedBy'[Post(q)]
      <3>1. User(q) \notin likedBy[Post(q)] /\ Post(q) \in Posts
        BY <1>1, <2>2, CallTypes DEF MemberInv
      <3>2. ~(User(q) = User(r) /\ Post(q) = Post(r))
        BY <2>1, <2>2, AtAlone DEF Before, WritePCs
      <3> QED BY <2>1, <3>1, <3>2
    <2>3. ASSUME NEW q \in Reqs, q # r, pc[q] \in After
          PROVE  User(q) \in likedBy'[Post(q)]
      <3>1. User(q) \in likedBy[Post(q)] /\ Post(q) \in Posts
        BY <1>1, <2>3, CallTypes DEF MemberInv
      <3> QED BY <2>1, <3>1
    <2>4. "insert" \notin Before
      BY DEF Before
    <2> QED BY <2>1, <2>2, <2>3, <2>4 DEF MemberInv, OnlyMoves, User, Post
  <1>6. ASSUME NEW r \in Reqs, SRem(r) PROVE MemberInv'
    <2>0. User(r) \in Users /\ Post(r) \in Posts
      BY CallTypes
    <2>1. /\ OnlyMoves(r) /\ pc[r] = "srem" /\ pc'[r] \in {"clamp", "delete"}
          /\ likedBy'[Post(r)] = likedBy[Post(r)] \ {User(r)}
          /\ \A p \in Posts \ {Post(r)} : likedBy'[p] = likedBy[p]
      BY <1>6, <2>0 DEF SRem, OnlyMoves, TypeOK
    <2>2. ASSUME NEW q \in Reqs, q # r, pc[q] \in After
          PROVE  User(q) \in likedBy'[Post(q)]
      <3>1. User(q) \in likedBy[Post(q)] /\ Post(q) \in Posts
        BY <1>1, <2>2, CallTypes DEF MemberInv
      <3>2. ~(User(q) = User(r) /\ Post(q) = Post(r))
        BY <2>1, <2>2, AtAlone DEF After, WritePCs
      <3> QED BY <2>1, <3>1, <3>2
    <2>3. ASSUME NEW q \in Reqs, q # r, pc[q] \in Before
          PROVE  User(q) \notin likedBy'[Post(q)]
      <3>1. User(q) \notin likedBy[Post(q)] /\ Post(q) \in Posts
        BY <1>1, <2>3, CallTypes DEF MemberInv
      <3> QED BY <2>1, <3>1
    <2>4. {"clamp", "delete"} \cap After = {}
      BY DEF After
    <2> QED BY <2>1, <2>2, <2>3, <2>4 DEF MemberInv, OnlyMoves, User, Post
  <1>7. ASSUME NEW r \in Reqs, CountStep(r) \/ IsMember(r) \/ Respond(r) \/ Abort(r)
        PROVE  MemberInv'
    <2>1. call' = call /\ likedBy' = likedBy
      BY <1>7 DEF CountStep, Get, DbCount, DbCountFail, SetBack, SetCounter, IsMember, Respond,
         Abort, cache
    <2>2. pc' = pc \/ \E l \in {"respond", "db", "set", "done", "failed"} : pc' = [pc EXCEPT ![r] = l]
      <3>1. CASE CountStep(r)
        BY <3>1 DEF CountStep, Get, DbCount, DbCountFail, SetBack, EndPhase
      <3> QED BY <1>7, <3>1 DEF IsMember, Respond, Abort
    <2>3. OnlyMoves(r) /\ pc'[r] \in {pc[r], "respond", "db", "set", "done", "failed"}
      BY <2>1, <2>2 DEF OnlyMoves, TypeOK
    <2> QED BY <1>1, <2>1, <2>3, MemberCalm DEF Before, After
  <1>8. ASSUME NEW p \in Posts, Expire(p) PROVE MemberInv'
    <2>1. UNCHANGED <<likedBy, call, pc>>
      BY <1>1, <1>8 DEF Expire, ExpireCounter, ExpireLikedBy
    <2> QED BY <1>1, <2>1 DEF MemberInv, User, Post
  <1>9. CASE UNCHANGED vars
    BY <1>1, <1>9 DEF vars, MemberInv, User, Post
  <1> QED BY <1>2, <1>3, <1>4, <1>5, <1>6, <1>7, <1>8, <1>9 DEF Next, Step, WriteStep, Idle

------------------------------------------------------------------------------
(* The table follows the set *)

RowsFaults == {"setExpiry", "db", "abort", "redis"}

\* No step gives a malformed id a row.
LEMMA RowsOfUuids ==
  ASSUME TypeOK, [Next]_vars, NEW p \in Posts \ Uuids
  PROVE  rows'[p] = rows[p]
  <1>1. ASSUME NEW r \in Reqs, InsertRow(r) \/ DeleteRow(r) PROVE rows'[p] = rows[p]
    BY <1>1 DEF InsertRow, DeleteRow, WriteRow, TypeOK
  <1>2. ASSUME NEW r \in Reqs, WriteStep(r), ~InsertRow(r), ~DeleteRow(r) PROVE rows' = rows
    BY <1>2 DEF WriteStep, Check, Incr, SAdd, Decr, SRem, Clamp
  <1>3. ASSUME NEW r \in Reqs, CountStep(r) PROVE rows' = rows
    BY <1>3 DEF CountStep, Get, DbCount, DbCountFail, SetBack
  <1>4. ASSUME NEW r \in Reqs, Start(r) \/ IsMember(r) \/ Respond(r) \/ Abort(r) PROVE rows' = rows
    BY <1>4 DEF Start, IsMember, Respond, Abort
  <1>5. ASSUME NEW q \in Posts, Expire(q) PROVE rows' = rows
    BY <1>5 DEF Expire, ExpireCounter, ExpireLikedBy
  <1>6. CASE UNCHANGED vars
    BY <1>6 DEF vars
  <1> QED BY <1>1, <1>2, <1>3, <1>4, <1>5, <1>6 DEF Next, Step, Idle

LEMMA RowsStep ==
  ASSUME TypeOK, SerialInv, MemberInv, RowsFollowSet, [Next]_vars
  PROVE  RowsFollowSet'
  <1> USE DEF Goto
  <1> DEFINE I(p) == At({"insert"}, p)
             D(p) == At({"clamp", "delete"}, p)
  <1> USE UuidsAssumption
  <1>0. RowsFaults \subseteq FaultKinds
    BY DEF RowsFaults, FaultKinds
  <1>m. ASSUME SerialUsers, WarmSets, NoFault(RowsFaults)'
        PROVE  \A p \in Posts \ Uuids : rows'[p] = {}
    <2>1. NoFault(RowsFaults)
      BY <1>0, <1>m, FaultsStay
    <2> QED BY <1>m, <2>1, RowsOfUuids DEF RowsFollowSet, RowsFaults
  <1> SUFFICES ASSUME SerialUsers, WarmSets, NoFault(RowsFaults)'
               PROVE  \A p \in Uuids : rows'[p] = (likedBy'[p] \ I(p)') \cup D(p)'
    BY <1>m DEF RowsFollowSet, Inserting, Deleting, At, RowsFaults
  <1>1. /\ NoFault(RowsFaults) /\ NoFault(SetFaults)
        /\ ~Fault("setExpiry") /\ ~Fault("db") /\ ~Fault("abort") /\ ~Fault("redis")
    <2>1. NoFault(RowsFaults) /\ \A k \in RowsFaults : ~Fault(k)
      BY <1>0, FaultsStay, NoStrike
    <2> QED BY <2>1 DEF RowsFaults, SetFaults, NoFault
  <1>2. \A p \in Uuids : rows[p] = (likedBy[p] \ I(p)) \cup D(p)
    BY <1>1, UuidsAssumption DEF RowsFollowSet, Inserting, Deleting, At, RowsFaults
  <1>3. \A r \in Reqs : /\ pc[r] \in Before => User(r) \notin likedBy[Post(r)]
                        /\ pc[r] \in After => User(r) \in likedBy[Post(r)]
    BY <1>1 DEF MemberInv
  <1>4. /\ {"insert"} \subseteq WritePCs /\ {"clamp", "delete"} \subseteq WritePCs
    BY DEF WritePCs
  <1>5. CASE /\ UNCHANGED <<rows, likedBy>>
             /\ \A p \in Posts : I(p)' = I(p) /\ D(p)' = D(p)
    BY <1>2, <1>5
  <1> HIDE DEF I, D
  <1>6. ASSUME NEW r \in Reqs, OnlyMoves(r), UNCHANGED <<rows, likedBy>>,
               pc[r] = "insert" <=> pc'[r] = "insert",
               pc[r] \in {"clamp", "delete"} <=> pc'[r] \in {"clamp", "delete"}
        PROVE  \A p \in Uuids : rows'[p] = (likedBy'[p] \ I(p)') \cup D(p)'
    <2>1. \A p \in Posts : I(p)' = I(p) /\ D(p)' = D(p)
      BY <1>6, AtSame DEF I, D
    <2> QED BY <1>5, <1>6, <2>1
  <1>7. ASSUME NEW r \in Reqs, Start(r)
        PROVE  \A p \in Uuids : rows'[p] = (likedBy'[p] \ I(p)') \cup D(p)'
    <2>1. /\ \A q \in Reqs \ {r} : pc'[q] = pc[q] /\ call'[q] = call[q]
          /\ pc[r] = "idle" /\ pc'[r] \in {"check", "member", "get", "respond"}
          /\ UNCHANGED <<rows, likedBy>>
      BY <1>7, StartMoves DEF cache
    <2>2. \A p \in Posts : I(p)' = I(p) /\ D(p)' = D(p)
      BY <2>1 DEF I, D, At, User, Post
    <2> QED BY <1>5, <2>1, <2>2
  <1>8. ASSUME NEW r \in Reqs, Check(r) \/ Incr(r) \/ Decr(r) \/ Clamp(r)
        PROVE  \A p \in Uuids : rows'[p] = (likedBy'[p] \ I(p)') \cup D(p)'
    <2>1. OnlyMoves(r) /\ UNCHANGED <<rows, likedBy>>
      BY <1>8 DEF Check, CallCount, Incr, Decr, Clamp, AddToCounter, OnlyMoves, cache, TypeOK
    <2>2. \/ pc[r] = "check" /\ pc'[r] \in {"incr", "decr", "get"}
          \/ pc[r] = "incr" /\ pc'[r] = "sadd"
          \/ pc[r] = "decr" /\ pc'[r] = "srem"
          \/ pc[r] = "clamp" /\ pc'[r] = "delete"
      BY <1>8 DEF Check, CallCount, Incr, Decr, Clamp, TypeOK
    <2> QED BY <1>6, <2>1, <2>2
  <1>9. ASSUME NEW r \in Reqs, SAdd(r)
        PROVE  \A p \in Uuids : rows'[p] = (likedBy'[p] \ I(p)') \cup D(p)'
    <2>0. User(r) \in Users /\ Post(r) \in Posts
      BY CallTypes
    <2>1. /\ OnlyMoves(r) /\ pc[r] = "sadd" /\ pc'[r] = "insert" /\ rows' = rows
          /\ likedBy'[Post(r)] = likedBy[Post(r)] \cup {User(r)}
          /\ \A p \in Posts \ {Post(r)} : likedBy'[p] = likedBy[p]
      BY <1>9, <2>0 DEF SAdd, OnlyMoves, TypeOK, local
    <2>2. User(r) \notin likedBy[Post(r)]
      BY <1>3, <2>1 DEF Before
    <2>3. \A p \in Posts : I(p)' = IF p = Post(r) THEN I(p) \cup {User(r)} ELSE I(p)
      BY <2>1, AtGains DEF I
    <2>4. \A p \in Posts : D(p)' = D(p)
      BY <2>1, AtSame DEF D
    <2> QED BY <1>2, <2>0, <2>1, <2>2, <2>3, <2>4
  <1>10. ASSUME NEW r \in Reqs, InsertRow(r)
         PROVE  \A p \in Uuids : rows'[p] = (likedBy'[p] \ I(p)') \cup D(p)'
    <2>0. User(r) \in Users /\ Post(r) \in Posts
      BY CallTypes
    <2>1. /\ OnlyMoves(r) /\ pc[r] = "insert" /\ pc'[r] = "respond" /\ likedBy' = likedBy
          /\ Post(r) \in Uuids => rows'[Post(r)] = rows[Post(r)] \cup {User(r)}
          /\ \A p \in Posts \ {Post(r)} : rows'[p] = rows[p]
      BY <1>1, <1>10, <2>0 DEF InsertRow, WriteRow, OnlyMoves, TypeOK, cache
    <2>2. User(r) \in likedBy[Post(r)]
      BY <1>3, <2>1 DEF After
    <2>3. \A p \in Posts : I(p)' = IF p = Post(r) THEN I(p) \ {User(r)} ELSE I(p)
      BY <1>4, <2>1, AtLoses DEF I
    <2>4. \A p \in Posts : D(p)' = D(p)
      BY <2>1, AtSame DEF D
    <2> QED BY <1>2, <2>0, <2>1, <2>2, <2>3, <2>4
  <1>11. ASSUME NEW r \in Reqs, SRem(r)
         PROVE  \A p \in Uuids : rows'[p] = (likedBy'[p] \ I(p)') \cup D(p)'
    <2>0. User(r) \in Users /\ Post(r) \in Posts
      BY CallTypes
    <2>1. /\ OnlyMoves(r) /\ pc[r] = "srem" /\ pc'[r] \in {"clamp", "delete"} /\ rows' = rows
          /\ likedBy'[Post(r)] = likedBy[Post(r)] \ {User(r)}
          /\ \A p \in Posts \ {Post(r)} : likedBy'[p] = likedBy[p]
      BY <1>11, <2>0 DEF SRem, OnlyMoves, TypeOK, local
    <2>2. User(r) \in likedBy[Post(r)]
      BY <1>3, <2>1 DEF After
    <2>3. User(r) \notin I(Post(r))
      BY <1>4, <2>1, NotAt DEF I, WritePCs
    <2>4. \A p \in Posts : I(p)' = I(p)
      BY <2>1, AtSame DEF I
    <2>5. \A p \in Posts : D(p)' = IF p = Post(r) THEN D(p) \cup {User(r)} ELSE D(p)
      BY <2>1, AtGains DEF D
    <2> QED BY <1>2, <2>0, <2>1, <2>2, <2>3, <2>4, <2>5
  <1>12. ASSUME NEW r \in Reqs, DeleteRow(r)
         PROVE  \A p \in Uuids : rows'[p] = (likedBy'[p] \ I(p)') \cup D(p)'
    <2>0. User(r) \in Users /\ Post(r) \in Posts
      BY CallTypes
    <2>1. /\ OnlyMoves(r) /\ pc[r] = "delete" /\ pc'[r] = "respond" /\ likedBy' = likedBy
          /\ Post(r) \in Uuids => rows'[Post(r)] = rows[Post(r)] \ {User(r)}
          /\ \A p \in Posts \ {Post(r)} : rows'[p] = rows[p]
      BY <1>1, <1>12, <2>0 DEF DeleteRow, WriteRow, OnlyMoves, TypeOK, cache
    <2>2. User(r) \notin likedBy[Post(r)]
      BY <1>3, <2>1 DEF Before
    <2>3. \A p \in Posts : I(p)' = I(p)
      BY <2>1, AtSame DEF I
    <2>4. \A p \in Posts : D(p)' = IF p = Post(r) THEN D(p) \ {User(r)} ELSE D(p)
      BY <1>4, <2>1, AtLoses DEF D
    <2> QED BY <1>2, <2>0, <2>1, <2>2, <2>3, <2>4
  <1>13. ASSUME NEW r \in Reqs, CountStep(r) \/ IsMember(r) \/ Respond(r)
         PROVE  \A p \in Uuids : rows'[p] = (likedBy'[p] \ I(p)') \cup D(p)'
    <2>1. OnlyMoves(r) /\ UNCHANGED <<rows, likedBy>>
          /\ pc[r] \in {"get", "db", "set", "member", "respond"}
          /\ pc'[r] \in {"get", "db", "set", "respond", "done", "failed"}
      <3>1. CASE CountStep(r)
        BY <3>1 DEF CountStep, Get, DbCount, DbCountFail, SetBack, SetCounter, EndPhase,
           OnlyMoves, cache, TypeOK
      <3>2. CASE IsMember(r) \/ Respond(r)
        BY <3>2 DEF IsMember, Respond, OnlyMoves, cache, TypeOK
      <3> QED BY <1>13, <3>1, <3>2
    <2> QED BY <1>6, <2>1
  <1>14. ASSUME NEW p \in Posts, Expire(p) PROVE UNCHANGED <<rows, likedBy, call, pc>>
    BY <1>1, <1>14 DEF Expire, ExpireCounter, ExpireLikedBy
  <1>15. CASE UNCHANGED <<rows, likedBy, call, pc>>
    <2>1. \A p \in Posts : I(p)' = I(p) /\ D(p)' = D(p)
      BY <1>15 DEF I, D, At, User, Post
    <2> QED BY <1>5, <1>15, <2>1
  <1>16. \A r \in Reqs : ~Abort(r)
    BY <1>1 DEF Abort
  <1> QED BY <1>7, <1>8, <1>9, <1>10, <1>11, <1>12, <1>13, <1>14, <1>15, <1>16
       DEF Next, Step, WriteStep, Idle, vars

LEMMA ExactInit ==
  ASSUME Init, TypeOK
  PROVE  SerialInv /\ MemberInv /\ RowsFollowSet
  <1>1. \A r \in Reqs : pc[r] = "idle"
    BY DEF Init
  <1>2. SerialInv
    BY <1>1 DEF SerialInv, IsWrite, InFlight, Ended, WritePCs
  <1>3. MemberInv
    BY <1>1 DEF MemberInv, Before, After
  <1>4. RowsFollowSet
    <2>1. \A p \in Posts : Inserting(p) = {} /\ Deleting(p) = {}
      BY <1>1 DEF Inserting, Deleting
    <2>2. WarmSets => \A p \in Posts : rows[p] = IF p \in Uuids THEN likedBy[p] ELSE {}
      BY DEF Init
    <2> QED BY <2>1, <2>2 DEF RowsFollowSet
  <1> QED BY <1>2, <1>3, <1>4

\* With serial users, a set that did not expire and no failed command, post_likes is
\* the set in Redis up to requests that wrote one and not the other (storage.go 36-90),
\* for posts whose id is a UUID, and has no row of another post (repo.go 46 and 58).
THEOREM RowsFollow == Spec => []RowsFollowSet
  <1>1. Init => TypeOK /\ SerialInv /\ MemberInv /\ RowsFollowSet
    BY InitType, ExactInit
  <1>2. /\ TypeOK /\ SerialInv /\ MemberInv /\ RowsFollowSet /\ [Next]_vars
        => (TypeOK /\ SerialInv /\ MemberInv /\ RowsFollowSet)'
    BY StepType, SerialStep, MemberStep, RowsStep
  <1> QED BY <1>1, <1>2, PTL DEF Spec

------------------------------------------------------------------------------
(* The counter is the size of the set *)

CountFaults == {"counterExpiry", "setExpiry", "redis", "abort"}

\* The set as the finished and half-done pipelines leave it.
Members(p) == (likedBy[p] \cup At({"sadd"}, p)) \ At({"srem"}, p)

\* No count misses the cache, so none writes it, and no Unlike finds the counter
\* below zero.
CountInv ==
    SerialUsers /\ WarmCounters /\ WarmSets /\ NoFault(CountFaults) =>
      /\ counterKeys = Posts
      /\ \A r \in Reqs : /\ miss[r] = {} /\ pc[r] \notin {"db", "set", "clamp"}
                         /\ pc[r] = "srem" => val[r][Post(r)] >= 0
      /\ \A p \in Posts : likes[p] = Cardinality(Members(p))

LEMMA MembersFinite ==
  ASSUME TypeOK, NEW p \in Posts
  PROVE  Members(p) \subseteq Users /\ IsFiniteSet(Members(p)) /\ Cardinality(Members(p)) \in Nat
  <1>1. Members(p) \subseteq Users
    BY DEF Members, At, TypeOK
  <1> QED BY <1>1, RowsCount

LEMMA CountStays ==
  ASSUME TypeOK, SerialInv, MemberInv, CountInv, [Next]_vars
  PROVE  CountInv'
  <1> USE DEF Goto
  <1> DEFINE A(p) == At({"sadd"}, p)
             R(p) == At({"srem"}, p)
             Warm == /\ counterKeys = Posts
                     /\ \A r \in Reqs : /\ miss[r] = {} /\ pc[r] \notin {"db", "set", "clamp"}
                                        /\ pc[r] = "srem" => val[r][Post(r)] >= 0
             Exact == \A p \in Posts : likes[p] = Cardinality(Members(p))
  <1> SUFFICES ASSUME SerialUsers, WarmCounters, WarmSets, NoFault(CountFaults)'
               PROVE  Warm' /\ Exact'
    BY DEF CountInv
  <1>0. CountFaults \subseteq FaultKinds
    BY DEF CountFaults, FaultKinds
  <1>1. /\ NoFault(CountFaults) /\ NoFault(SetFaults)
        /\ ~Fault("setExpiry") /\ ~Fault("counterExpiry") /\ ~Fault("abort") /\ ~Fault("redis")
    <2>1. NoFault(CountFaults) /\ \A k \in CountFaults : ~Fault(k)
      BY <1>0, FaultsStay, NoStrike
    <2> QED BY <2>1 DEF CountFaults, SetFaults, NoFault
  <1>2. Warm /\ Exact
    BY <1>1 DEF CountInv
  <1>3. \A r \in Reqs : /\ pc[r] \in Before => User(r) \notin likedBy[Post(r)]
                        /\ pc[r] \in After => User(r) \in likedBy[Post(r)]
    BY <1>1 DEF MemberInv
  <1>4. \A p \in Posts : /\ Members(p) = (likedBy[p] \cup A(p)) \ R(p)
                         /\ Members(p)' = (likedBy'[p] \cup A(p)') \ R(p)'
    BY DEF Members
  <1>5. \A p \in Posts : IsFiniteSet(Members(p)) /\ Cardinality(Members(p)) \in Nat
    BY MembersFinite
  <1>6. ASSUME UNCHANGED likes, \A p \in Posts : Members(p)' = Members(p) PROVE Exact'
    BY <1>2, <1>6
  <1> HIDE DEF A, R, Exact
  \* Steps that do not touch the set, the counters and who is between commands.
  <1>7. ASSUME NEW r \in Reqs, OnlyMoves(r), UNCHANGED <<counterKeys, likes, likedBy, val>>,
               miss'[r] = {}, \A q \in Reqs \ {r} : miss'[q] = miss[q],
               pc[r] \notin {"sadd", "srem"}, pc'[r] \notin {"sadd", "srem", "db", "set", "clamp"}
        PROVE  Warm' /\ Exact'
    <2>1. \A p \in Posts : A(p)' = A(p) /\ R(p)' = R(p)
      BY <1>7, AtSame DEF A, R
    <2>2. \A p \in Posts : Members(p)' = Members(p)
      BY <1>4, <1>7, <2>1
    <2>3. Warm'
      BY <1>2, <1>7 DEF OnlyMoves, Post
    <2> QED BY <1>6, <1>7, <2>2, <2>3
  <1>8. ASSUME NEW r \in Reqs, Start(r) PROVE Warm' /\ Exact'
    <2>1. /\ \A q \in Reqs \ {r} : pc'[q] = pc[q] /\ call'[q] = call[q]
          /\ pc[r] = "idle" /\ pc'[r] \in {"check", "member", "get", "respond"}
          /\ UNCHANGED <<counterKeys, likes, likedBy, miss, val>>
      BY <1>8, StartMoves DEF cache
    <2>2. \A p \in Posts : A(p)' = A(p) /\ R(p)' = R(p)
      BY <2>1 DEF A, R, At, User, Post
    <2>3. \A p \in Posts : Members(p)' = Members(p)
      BY <1>4, <2>1, <2>2
    <2>4. Warm'
      BY <1>2, <2>1 DEF Post
    <2> QED BY <1>6, <2>1, <2>3, <2>4
  <1>9. ASSUME NEW r \in Reqs,
               Check(r) \/ InsertRow(r) \/ DeleteRow(r) \/ IsMember(r) \/ Respond(r)
        PROVE  Warm' /\ Exact'
    <2>1. OnlyMoves(r) /\ UNCHANGED <<counterKeys, likes, likedBy, miss, val>>
      BY <1>9 DEF Check, CallCount, InsertRow, DeleteRow, IsMember, Respond, OnlyMoves, cache,
         local, TypeOK
    <2>2. /\ pc[r] \in {"check", "insert", "delete", "member", "respond"}
          /\ pc'[r] \in {"incr", "decr", "get", "respond", "done"}
      BY <1>9 DEF Check, CallCount, InsertRow, DeleteRow, IsMember, Respond, TypeOK
    <2> QED BY <1>2, <1>7, <2>1, <2>2
  <1>10. ASSUME NEW r \in Reqs, NEW p \in Posts, Get(r, p) PROVE Warm' /\ Exact'
    <2>1. OnlyMoves(r)
      BY <1>10 DEF Get, EndPhase, OnlyMoves, TypeOK
    <2>2. /\ UNCHANGED <<counterKeys, likes, likedBy>> /\ miss' = [miss EXCEPT ![r] = miss[r]]
          /\ \A q \in Reqs \ {r} : val'[q] = val[q]
      BY <1>2, <1>10 DEF Get, cache, TypeOK
    <2>3. miss' = miss /\ pc[r] = "get" /\ pc'[r] \in {"get", "respond"}
      BY <1>2, <1>10, <2>2 DEF Get, EndPhase, TypeOK
    <2>4. \A x \in Posts : A(x)' = A(x) /\ R(x)' = R(x)
      BY <2>1, <2>3, AtSame DEF A, R
    <2>5. \A x \in Posts : Members(x)' = Members(x)
      BY <1>4, <2>2, <2>4
    <2>6. Warm'
      BY <1>2, <2>1, <2>2, <2>3 DEF OnlyMoves, Post
    <2> QED BY <1>6, <2>2, <2>5, <2>6
  <1>11. ASSUME NEW r \in Reqs, Incr(r) PROVE Warm' /\ Exact'
    <2>0. User(r) \in Users /\ Post(r) \in Posts
      BY CallTypes
    <2>1. /\ OnlyMoves(r) /\ pc[r] = "incr" /\ pc'[r] = "sadd" /\ UNCHANGED <<likedBy, miss>>
          /\ counterKeys' = counterKeys \cup {Post(r)}
          /\ \A q \in Reqs \ {r} : val'[q] = val[q]
      BY <1>11 DEF Incr, AddToCounter, OnlyMoves, TypeOK
    <2>2. \A p \in Posts : likes'[p] = IF p = Post(r) THEN likes[p] + 1 ELSE likes[p]
      BY <1>11, <2>0 DEF Incr, AddToCounter, TypeOK
    <2>3. \A p \in Posts : /\ A(p)' = IF p = Post(r) THEN A(p) \cup {User(r)} ELSE A(p)
                           /\ R(p)' = R(p)
      <3>1. \A p \in Posts : A(p)' = IF p = Post(r) THEN A(p) \cup {User(r)} ELSE A(p)
        BY <2>1, AtGains DEF A
      <3>2. \A p \in Posts : R(p)' = R(p)
        BY <2>1, AtSame DEF R
      <3> QED BY <3>1, <3>2
    <2>4. User(r) \notin likedBy[Post(r)]
      BY <1>3, <2>1 DEF Before
    <2>5. User(r) \notin A(Post(r)) /\ User(r) \notin R(Post(r))
      BY <2>1, NotAt DEF A, R, WritePCs
    <2>6. \A p \in Posts \ {Post(r)} : Members(p)' = Members(p)
      BY <1>4, <2>1, <2>3
    <2>7. ASSUME NEW p \in Posts, p = Post(r)
          PROVE  Cardinality(Members(p)') = Cardinality(Members(p)) + 1
      <3>1. Members(p)' = Members(p) \cup {User(r)} /\ User(r) \notin Members(p)
        BY <1>4, <2>1, <2>3, <2>4, <2>5, <2>7
      <3> QED BY <1>5, <3>1, FS_AddElement
    <2>8. Exact'
      BY <1>2, <2>2, <2>6, <2>7 DEF Exact
    <2>9. Warm'
      BY <1>2, <2>0, <2>1 DEF OnlyMoves, Post
    <2> QED BY <2>8, <2>9
  <1>12. ASSUME NEW r \in Reqs, SAdd(r) PROVE Warm' /\ Exact'
    <2>0. User(r) \in Users /\ Post(r) \in Posts
      BY CallTypes
    <2>1. /\ OnlyMoves(r) /\ pc[r] = "sadd" /\ pc'[r] = "insert"
          /\ UNCHANGED <<counterKeys, likes, miss, val>>
          /\ \A p \in Posts : likedBy'[p] = IF p = Post(r) THEN likedBy[p] \cup {User(r)}
                                            ELSE likedBy[p]
      BY <1>12, <2>0 DEF SAdd, OnlyMoves, TypeOK, local
    <2>2. \A p \in Posts : /\ A(p)' = IF p = Post(r) THEN A(p) \ {User(r)} ELSE A(p)
                           /\ R(p)' = R(p)
      BY <2>1, AtLoses, AtSame DEF A, R, WritePCs
    <2>3. User(r) \in A(Post(r))
      BY <2>0, <2>1 DEF A, At
    <2>4. ASSUME NEW p \in Posts PROVE Members(p)' = Members(p)
      <3>1. CASE p = Post(r)
        <4>1. /\ Members(p)' = ((likedBy[p] \cup {User(r)}) \cup (A(p) \ {User(r)})) \ R(p)
              /\ Members(p) = (likedBy[p] \cup A(p)) \ R(p) /\ User(r) \in A(p)
          BY <1>4, <2>1, <2>2, <2>3, <3>1
        <4> QED BY <4>1
      <3>2. CASE p # Post(r)
        BY <1>4, <2>1, <2>2, <3>2
      <3> QED BY <3>1, <3>2
    <2>5. Warm'
      BY <1>2, <2>1 DEF OnlyMoves, Post
    <2> QED BY <1>6, <2>1, <2>4, <2>5
  <1>13. ASSUME NEW r \in Reqs, Decr(r) PROVE Warm' /\ Exact'
    <2>0. User(r) \in Users /\ Post(r) \in Posts
      BY CallTypes
    <2>1. /\ OnlyMoves(r) /\ pc[r] = "decr" /\ pc'[r] = "srem" /\ UNCHANGED <<likedBy, miss>>
          /\ counterKeys' = counterKeys \cup {Post(r)}
          /\ \A q \in Reqs \ {r} : val'[q] = val[q]
          /\ val'[r][Post(r)] = likes[Post(r)] - 1
      BY <1>13, <2>0 DEF Decr, AddToCounter, OnlyMoves, TypeOK
    <2>2. \A p \in Posts : likes'[p] = IF p = Post(r) THEN likes[p] - 1 ELSE likes[p]
      BY <1>13, <2>0 DEF Decr, AddToCounter, TypeOK
    <2>3. \A p \in Posts : /\ R(p)' = IF p = Post(r) THEN R(p) \cup {User(r)} ELSE R(p)
                           /\ A(p)' = A(p)
      BY <2>1, AtGains, AtSame DEF A, R
    <2>4. User(r) \in likedBy[Post(r)]
      BY <1>3, <2>1 DEF After
    <2>5. User(r) \notin R(Post(r))
      BY <2>1, NotAt DEF R, WritePCs
    <2>6. \A p \in Posts \ {Post(r)} : Members(p)' = Members(p)
      BY <1>4, <2>1, <2>3
    <2>7. ASSUME NEW p \in Posts, p = Post(r)
          PROVE  /\ Cardinality(Members(p)') = Cardinality(Members(p)) - 1
                 /\ Cardinality(Members(p)') \in Nat
      <3>1. Members(p)' = Members(p) \ {User(r)} /\ User(r) \in Members(p)
        BY <1>4, <2>1, <2>3, <2>4, <2>5, <2>7
      <3>2. IsFiniteSet(Members(p)')
        BY <1>5, <3>1, FS_RemoveElement
      <3> QED BY <1>5, <3>1, <3>2, FS_RemoveElement, FS_CardinalityType
    <2>8. Exact'
      BY <1>2, <2>2, <2>6, <2>7 DEF Exact
    <2>9. val'[r][Post(r)] >= 0
      BY <1>2, <1>5, <2>0, <2>1, <2>7 DEF Exact
    <2>10. Warm'
      BY <1>2, <2>0, <2>1, <2>9 DEF OnlyMoves, Post
    <2> QED BY <2>8, <2>10
  <1>14. ASSUME NEW r \in Reqs, SRem(r) PROVE Warm' /\ Exact'
    <2>0. User(r) \in Users /\ Post(r) \in Posts /\ val[r][Post(r)] \in Int
      BY CallTypes DEF TypeOK
    <2>1. /\ OnlyMoves(r) /\ pc[r] = "srem" /\ UNCHANGED <<counterKeys, likes, miss, val>>
          /\ pc'[r] = IF val[r][Post(r)] < 0 THEN "clamp" ELSE "delete"
          /\ \A p \in Posts : likedBy'[p] = IF p = Post(r) THEN likedBy[p] \ {User(r)}
                                            ELSE likedBy[p]
      BY <1>14, <2>0 DEF SRem, OnlyMoves, TypeOK, local, Negative
    <2>2. pc'[r] = "delete"
      BY <1>2, <2>0, <2>1
    <2>3. \A p \in Posts : /\ R(p)' = IF p = Post(r) THEN R(p) \ {User(r)} ELSE R(p)
                           /\ A(p)' = A(p)
      BY <2>1, <2>2, AtLoses, AtSame DEF A, R, WritePCs
    <2>4. User(r) \in R(Post(r)) /\ User(r) \notin A(Post(r))
      <3>1. User(r) \in R(Post(r))
        BY <2>0, <2>1 DEF R, At
      <3>2. User(r) \notin A(Post(r))
        BY <2>1, NotAt DEF A, WritePCs
      <3> QED BY <3>1, <3>2
    <2>5. ASSUME NEW p \in Posts PROVE Members(p)' = Members(p)
      <3>1. CASE p = Post(r)
        <4>1. /\ Members(p)' = ((likedBy[p] \ {User(r)}) \cup A(p)) \ (R(p) \ {User(r)})
              /\ Members(p) = (likedBy[p] \cup A(p)) \ R(p)
              /\ User(r) \in R(p) /\ User(r) \notin A(p)
          BY <1>4, <2>1, <2>3, <2>4, <3>1
        <4> QED BY <4>1
      <3>2. CASE p # Post(r)
        BY <1>4, <2>1, <2>3, <3>2
      <3> QED BY <3>1, <3>2
    <2>6. Warm'
      BY <1>2, <2>1, <2>2 DEF OnlyMoves, Post
    <2> QED BY <1>6, <2>1, <2>5, <2>6
  <1>15. \A r \in Reqs, p \in Posts :
           ~Clamp(r) /\ ~Abort(r) /\ ~DbCount(r, p) /\ ~DbCountFail(r, p) /\ ~SetBack(r, p)
    BY <1>1, <1>2 DEF Clamp, Abort, DbCount, DbCountFail, SetBack
  <1>16. \A p \in Posts : ~Expire(p)
    BY <1>1 DEF Expire, ExpireCounter, ExpireLikedBy
  <1>17. CASE UNCHANGED vars
    <2>1. \A p \in Posts : Members(p)' = Members(p)
      BY <1>17 DEF vars, Members, At, User, Post
    <2>2. Warm'
      BY <1>2, <1>17 DEF vars, Post
    <2> QED BY <1>6, <1>17, <2>1, <2>2 DEF vars
  <1>18. ASSUME NEW r \in Reqs, Clamp(r) PROVE FALSE
    BY <1>2, <1>18 DEF Clamp
  <1>19. ASSUME NEW r \in Reqs, Abort(r) PROVE FALSE
    BY <1>1, <1>19 DEF Abort
  <1>20. ASSUME NEW r \in Reqs, CountStep(r) PROVE Warm' /\ Exact'
    BY <1>10, <1>15, <1>20 DEF CountStep
  <1> HIDE DEF Warm
  <1> QED BY <1>8, <1>9, <1>11, <1>12, <1>13, <1>14, <1>16, <1>17, <1>18, <1>19, <1>20
       DEF Next, Step, WriteStep, Idle

LEMMA CountInit ==
  ASSUME Init, TypeOK
  PROVE  CountInv
  <1>1. \A p \in Posts : At({"sadd"}, p) = {} /\ At({"srem"}, p) = {}
    BY DEF Init, At
  <1>2. \A p \in Posts : Members(p) = likedBy[p]
    BY <1>1 DEF Members
  <1>3. WarmCounters /\ WarmSets => \A p \in Posts : likes[p] = Cardinality(likedBy[p])
    BY DEF Init
  <1> QED BY <1>2, <1>3 DEF Init, CountInv

\* With serial users on a warm cache the counter of a post is the size of its set, give
\* or take the requests between their two commands, whatever users interleave and
\* whatever SQL fails (storage.go 36-110).
THEOREM CounterExact == Spec => []CountExact
  <1>1. Init => TypeOK /\ SerialInv /\ MemberInv /\ CountInv
    BY InitType, ExactInit, CountInit
  <1>2. /\ TypeOK /\ SerialInv /\ MemberInv /\ CountInv /\ [Next]_vars
        => (TypeOK /\ SerialInv /\ MemberInv /\ CountInv)'
    BY StepType, SerialStep, MemberStep, CountStays
  <1>3. CountInv => CountExact
    <2>1. \A p : AddingTo(p) = At({"sadd"}, p) /\ RemovingFrom(p) = At({"srem"}, p)
      BY DEF AddingTo, RemovingFrom, At
    <2> QED BY <2>1 DEF CountInv, CountExact, Members, CountFaults
  <1> QED BY <1>1, <1>2, <1>3, PTL DEF Spec
==============================================================================
