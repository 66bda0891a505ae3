---------------------------- MODULE FanoutProofs ----------------------------
(* What Fanout guarantees for every number of users, posts and workers, every  *)
(* inbox size, and every number of faults.                                     *)
EXTENDS Fanout, FiniteSetTheorems, NaturalsInduction, TLAPS

------------------------------------------------------------------------------
(* Types *)

LEMMA InitType == Init => TypeOK
  BY NumbersAssumption, UsersAssumption, WorkersAssumption
     DEF Init, TypeOK, FaultKinds, PCs

LEMMA FaultType ==
  ASSUME TypeOK, NEW k \in FaultKinds, Fault(k)
  PROVE  faults' \in [FaultKinds -> Nat]
  BY DEF TypeOK, Fault

\* The actions of the consumer thread and of what goes wrong around it.
LEMMA ConsumeType ==
  ASSUME TypeOK, NEW w \in Workers, Consume(w)
  PROVE  TypeOK'
  <1> USE DEF TypeOK, PCs, posts, events, worker, boxes, Working, Goto, Finish
  <1>1. CASE \E p \in Posts : Take(w, p)
    BY <1>1 DEF Take
  <1>2. CASE Handle(w)
    <2>1. Followers(author[job[w]]) \subseteq Users
      BY DEF Followers
    <2>2. job[w] \in Posts /\ author[job[w]] \in Users
      BY <1>2 DEF Handle
    <2> QED BY <1>2, <2>1, <2>2 DEF Handle, ToOutbox, ReadFans
  <1>3. CASE QueryFails(w)
    <2>1. faults' \in [FaultKinds -> Nat]
      BY <1>3, FaultType DEF QueryFails, FaultKinds
    <2> QED BY <1>3, <2>1 DEF QueryFails
  <1>4. CASE PushInboxes(w)
    <2>1. job[w] \in Posts
      BY <1>4 DEF PushInboxes
    <2>2. \A u \in Users : AddToInbox(inbox[u], job[w]) \subseteq Posts
      BY <2>1 DEF AddToInbox, Newest
    <2> QED BY <1>4, <2>1, <2>2 DEF PushInboxes
  <1>5. CASE PushFails(w)
    <2>1. faults' \in [FaultKinds -> Nat]
      BY <1>5, FaultType DEF PushFails, FaultKinds
    <2> QED BY <1>5, <2>1 DEF PushFails
  <1>6. CASE Tell(w)
    BY <1>6 DEF Tell
  <1> QED BY <1>1, <1>2, <1>3, <1>4, <1>5, <1>6 DEF Consume

LEMMA StepType == TypeOK /\ [Next]_vars => TypeOK'
  <1> SUFFICES ASSUME TypeOK, [Next]_vars PROVE TypeOK'
    OBVIOUS
  <1> USE NumbersAssumption, UsersAssumption, WorkersAssumption
      DEF posts, events, worker, boxes
  <1>1. CASE Tick
    BY <1>1 DEF Tick, TypeOK
  <1>2. CASE \E u, v \in Users : Follow(u, v) \/ Unfollow(u, v)
    BY <1>2 DEF Follow, Unfollow, Changed, TypeOK
  <1>3. CASE \E p \in Posts, u \in Users : PostFeed(p, u)
    <2>1. \A u \in Users : Followers(u) \subseteq Users
      BY DEF Followers
    <2> QED BY <1>3, <2>1 DEF PostFeed, TypeOK
  <1>4. CASE \E p \in Posts : Dispatch(p)
    BY <1>4 DEF Dispatch, Answer, TypeOK
  <1>5. CASE \E p \in Posts : DispatchFails(p)
    BY <1>5, FaultType DEF DispatchFails, Answer, TypeOK, FaultKinds
  <1>6. CASE \E p \in Posts : Redeliver(p)
    BY <1>6, FaultType DEF Redeliver, TypeOK, FaultKinds
  <1>7. CASE \E w \in Workers : Consume(w)
    BY <1>7, ConsumeType
  <1>8. CASE \E w \in Workers, p \in Posts : Commit(w, p)
    BY <1>8 DEF Commit, TypeOK
  <1>9. CASE \E w \in Workers : Crash(w)
    BY <1>9, FaultType DEF Crash, Goto, TypeOK, FaultKinds, PCs
  <1>10. CASE \E w \in Workers : RankingFails(w)
    BY <1>10, FaultType DEF RankingFails, Working, TypeOK, FaultKinds
  <1>11. CASE UNCHANGED vars
    BY <1>11 DEF vars, TypeOK
  <1> QED BY <1>1, <1>2, <1>3, <1>4, <1>5, <1>6, <1>7, <1>8, <1>9, <1>10, <1>11
          DEF Next, Idle

\* Values keep their types (the definition is in Fanout).
THEOREM TypeCorrect == Spec => []TypeOK
  BY InitType, StepType, PTL DEF Spec

------------------------------------------------------------------------------
(* What is committed has reached its readers *)

\* Who is owed a post follows its author: PostFeed reads the graph of the moment,
\* and Unfollow takes both away.
OwedFollow == \A p \in Posts : owed[p] \subseteq Followers(author[p])

\* No worker was given a post that is not announced.
UnsentUnowned == \A p \in Posts \ log : owner[p] = None

\* A worker with the followers in hand has everybody who is owed the post, and
\* one that pushed it has reached them.
InHand ==
    \A w \in Workers :
      /\ ~poisoned[w]
      /\ pc[w] = "push" => owed[job[w]] \subseteq fans[w]
      /\ pc[w] = "tell" => Reached(job[w])

\* A post whose offset is, or may be, committed has reached them too.
Handled ==
    \A p \in log :
      (p \notin pending \/ \E w \in Workers : Committable(w, p)) => Reached(p)

FanInv == OwedFollow /\ UnsentUnowned /\ (NothingFailed => InHand /\ Handled)

LEMMA InitFan == Init => FanInv
  BY DEF Init, FanInv, OwedFollow, UnsentUnowned, InHand, Handled

\* Faults are only counted up.
LEMMA FaultCounts ==
  ASSUME TypeOK, NEW k \in FaultKinds, Fault(k), NothingFailed'
  PROVE  NothingFailed /\ k \notin {"query", "redis"}
  BY DEF TypeOK, Fault, NothingFailed, FaultKinds

LEMMA ConsumeFan ==
  ASSUME TypeOK, FanInv, NEW w \in Workers, Consume(w)
  PROVE  FanInv'
  <1> USE DEF posts, events, worker, boxes, Working, Goto, Finish
  <1>0. OwedFollow'
    BY DEF Consume, Take, Handle, QueryFails, PushInboxes, PushFails, Tell,
           FanInv, OwedFollow, Followers
  <1>1. UnsentUnowned'
    BY DEF Consume, Take, Handle, QueryFails, PushInboxes, PushFails, Tell,
           FanInv, UnsentUnowned, TypeOK
  <1>2. SUFFICES ASSUME NothingFailed' PROVE InHand' /\ Handled'
    BY <1>0, <1>1 DEF FanInv
  <1>3. CASE \E p \in Posts : Take(w, p)
    <2>1. InHand /\ Handled
      BY <1>2, <1>3 DEF FanInv, NothingFailed, Take
    <2>2. InHand'
      BY <1>3, <2>1 DEF Take, InHand, Reached, TypeOK
    <2>3. Handled'
      BY <1>3, <2>1 DEF Take, Handled, Committable, Reached, TypeOK
    <2> QED BY <2>2, <2>3
  <1>4. CASE Handle(w)
    <2>1. InHand /\ Handled
      BY <1>2, <1>4 DEF FanInv, NothingFailed, Handle
    <2>2. ReadFans(w)
      BY <1>4, NumbersAssumption DEF Handle, EventFollowers
    <2>3. job[w] \in log /\ job[w] \in Posts
      BY <1>4 DEF Handle, TypeOK
    <2>4. owed[job[w]] \subseteq fans'[w]
      BY <2>2, <2>3 DEF FanInv, OwedFollow, ReadFans, TypeOK
    <2>5. InHand'
      BY <1>4, <2>1, <2>2, <2>4 DEF Handle, ReadFans, InHand, Reached, TypeOK
    <2>6. pc'[w] = "idle" => Reached(job[w])
      BY <2>2, <2>4 DEF ReadFans, Reached, TypeOK
    <2>7. Handled'
      BY <1>4, <2>1, <2>2, <2>6 DEF Handle, ReadFans, Handled, Committable, Reached, TypeOK
    <2> QED BY <2>5, <2>7
  <1>5. CASE QueryFails(w)
    <2>1. ~poisoned[w] => Fault("query")
      BY <1>5 DEF QueryFails
    <2>2. poisoned[w] /\ UNCHANGED faults
      BY <1>2, <1>5, <2>1, FaultCounts DEF QueryFails, FaultKinds
    <2> QED BY <1>2, <2>2 DEF FanInv, NothingFailed, InHand
  <1>6. CASE PushInboxes(w)
    <2>1. InHand /\ Handled
      BY <1>2, <1>6 DEF FanInv, NothingFailed, PushInboxes
    <2>2. \A p \in Posts : Reached(p) => Reached(p)'
      BY <1>6 DEF PushInboxes, Reached, TypeOK
    <2>3. job[w] \in log /\ Reached(job[w])'
      BY <1>6, <2>1 DEF PushInboxes, InHand, Reached, TypeOK
    <2>4. InHand'
      BY <1>6, <2>1, <2>2, <2>3 DEF PushInboxes, InHand, TypeOK
    <2>5. Handled'
      BY <1>6, <2>1, <2>2, <2>3 DEF PushInboxes, Handled, Committable, TypeOK
    <2> QED BY <2>4, <2>5
  <1>7. CASE PushFails(w)
    BY <1>2, <1>7, FaultCounts DEF PushFails, FaultKinds
  <1>8. CASE Tell(w)
    <2>1. InHand /\ Handled
      BY <1>2, <1>8 DEF FanInv, NothingFailed, Tell
    <2>2. InHand'
      BY <1>8, <2>1 DEF Tell, InHand, Reached, TypeOK
    <2>3. Handled'
      BY <1>8, <2>1 DEF Tell, InHand, Handled, Committable, Reached, TypeOK
    <2> QED BY <2>2, <2>3
  <1> QED BY <1>3, <1>4, <1>5, <1>6, <1>7, <1>8 DEF Consume

\* Steps of the users: nobody new is owed a post that exists.
LEMMA UserFan ==
  ASSUME TypeOK, FanInv,
         \/ Tick
         \/ \E u, v \in Users : Follow(u, v) \/ Unfollow(u, v)
         \/ \E p \in Posts, u \in Users : PostFeed(p, u)
  PROVE  FanInv'
  <1> USE DEF posts, events, worker, boxes, Changed
  <1>1. \A p \in log : owed'[p] \subseteq owed[p]
    BY DEF Tick, Follow, Unfollow, PostFeed, TypeOK
  <1>2. UNCHANGED <<log, pending, owner, pc, job, fans, poisoned, fanned, faults>>
    BY DEF Tick, Follow, Unfollow, PostFeed
  <1>3. OwedFollow'
    <2>1. CASE Tick
      BY <2>1 DEF Tick, FanInv, OwedFollow, Followers
    <2>2. CASE \E u, v \in Users : Follow(u, v)
      BY <2>2 DEF Follow, FanInv, OwedFollow, Followers
    <2>3. CASE \E u, v \in Users : Unfollow(u, v)
      BY <2>3 DEF Unfollow, FanInv, OwedFollow, Followers
    <2>4. CASE \E p \in Posts, u \in Users : PostFeed(p, u)
      BY <2>4 DEF PostFeed, FanInv, OwedFollow, Followers, TypeOK
    <2> QED BY <2>1, <2>2, <2>3, <2>4
  <1>4. UnsentUnowned'
    BY <1>2 DEF FanInv, UnsentUnowned
  <1>5. ASSUME NothingFailed' PROVE InHand' /\ Handled'
    <2>1. InHand /\ Handled
      BY <1>2, <1>5 DEF FanInv, NothingFailed
    <2>2. InHand'
      BY <1>1, <1>2, <2>1 DEF InHand, Reached, TypeOK
    <2>3. Handled'
      BY <1>1, <1>2, <2>1 DEF Handled, Committable, Reached
    <2> QED BY <2>2, <2>3
  <1> QED BY <1>3, <1>4, <1>5 DEF FanInv

LEMMA StepFan == TypeOK /\ FanInv /\ [Next]_vars => FanInv'
  <1> SUFFICES ASSUME TypeOK, FanInv, [Next]_vars PROVE FanInv'
    OBVIOUS
  <1> USE DEF posts, events, worker, boxes
  <1>1. CASE \/ Tick
             \/ \E u, v \in Users : Follow(u, v) \/ Unfollow(u, v)
             \/ \E p \in Posts, u \in Users : PostFeed(p, u)
    BY <1>1, UserFan
  <1>2. CASE \E p \in Posts : Dispatch(p)
    <2>1. PICK p \in Posts : Dispatch(p)
      BY <1>2
    <2>2. p \notin log
      BY <2>1 DEF Dispatch, Answer, TypeOK
    <2>3. owner[p] = None /\ \A w \in Workers : ~Committable(w, p)'
      BY <2>1, <2>2, WorkersAssumption
         DEF Dispatch, Answer, FanInv, UnsentUnowned, Committable
    <2>4. OwedFollow'
      BY <2>1 DEF Dispatch, Answer, FanInv, OwedFollow, Followers
    <2>5. UnsentUnowned'
      BY <2>1 DEF Dispatch, Answer, FanInv, UnsentUnowned
    <2>6. NothingFailed' => InHand'
      BY <2>1 DEF Dispatch, Answer, FanInv, NothingFailed, InHand, Reached
    <2>7. NothingFailed' => Handled'
      BY <2>1, <2>3 DEF Dispatch, Answer, FanInv, NothingFailed, Handled, Committable, Reached
    <2> QED BY <2>4, <2>5, <2>6, <2>7 DEF FanInv
  <1>3. CASE \E p \in Posts : DispatchFails(p)
    <2>1. NothingFailed' => NothingFailed
      BY <1>3, FaultCounts DEF DispatchFails, FaultKinds
    <2> QED BY <1>3, <2>1 DEF DispatchFails, Answer, FanInv, OwedFollow, Followers,
                            UnsentUnowned, InHand, Handled, Committable, Reached
  <1>4. CASE \E p \in Posts : Redeliver(p)
    <2>1. NothingFailed' => NothingFailed
      BY <1>4, FaultCounts DEF Redeliver, FaultKinds
    <2>2. OwedFollow' /\ UnsentUnowned'
      BY <1>4 DEF Redeliver, FanInv, OwedFollow, Followers, UnsentUnowned, TypeOK
    <2>3. NothingFailed' => InHand'
      BY <1>4, <2>1 DEF Redeliver, FanInv, InHand, Reached
    <2>4. NothingFailed' => Handled'
      BY <1>4, <2>1, WorkersAssumption
         DEF Redeliver, FanInv, Handled, Committable, Reached, TypeOK
    <2> QED BY <2>2, <2>3, <2>4 DEF FanInv
  <1>5. CASE \E w \in Workers : Consume(w)
    BY <1>5, ConsumeFan
  <1>6. CASE \E w \in Workers, p \in Posts : Commit(w, p)
    <2>1. OwedFollow' /\ UnsentUnowned'
      BY <1>6 DEF Commit, FanInv, OwedFollow, Followers, UnsentUnowned
    <2>2. NothingFailed' => InHand'
      BY <1>6 DEF Commit, FanInv, NothingFailed, InHand, Reached
    <2>3. NothingFailed' => Handled'
      BY <1>6 DEF Commit, FanInv, NothingFailed, Handled, Committable, Reached
    <2> QED BY <2>1, <2>2, <2>3 DEF FanInv
  <1>7. CASE \E w \in Workers : Crash(w)
    <2>1. NothingFailed' => NothingFailed
      BY <1>7, FaultCounts DEF Crash, FaultKinds
    <2>2. OwedFollow' /\ UnsentUnowned'
      BY <1>7 DEF Crash, FanInv, OwedFollow, Followers, UnsentUnowned, TypeOK
    <2>3. NothingFailed' => InHand'
      BY <1>7, <2>1 DEF Crash, Goto, FanInv, InHand, Reached, TypeOK
    <2>4. NothingFailed' => Handled'
      BY <1>7, <2>1, WorkersAssumption
         DEF Crash, Goto, FanInv, Handled, Committable, Reached, TypeOK
    <2> QED BY <2>2, <2>3, <2>4 DEF FanInv
  <1>8. CASE \E w \in Workers : RankingFails(w)
    <2>1. ~NothingFailed'
      BY <1>8, FaultCounts DEF RankingFails, FaultKinds
    <2> QED BY <1>8, <2>1 DEF RankingFails, Working, FanInv, OwedFollow, Followers,
                            UnsentUnowned
  <1>9. CASE UNCHANGED vars
    BY <1>9 DEF vars, FanInv, OwedFollow, Followers, UnsentUnowned, InHand, Handled,
                Committable, Reached, NothingFailed
  <1> QED BY <1>1, <1>2, <1>3, <1>4, <1>5, <1>6, <1>7, <1>8, <1>9 DEF Next, Idle

\* Crashes, rebalances and unordered events lose nothing: as long as no statement
\* and no pipeline failed, a committed event has reached everybody it is owed to
\* (the definition is in Fanout).
THEOREM CommittedReaches == Spec => []CommittedReached
  <1>1. FanInv => CommittedReached
    BY DEF FanInv, Handled, CommittedReached
  <1> QED BY <1>1, InitType, StepType, InitFan, StepFan, PTL DEF Spec

------------------------------------------------------------------------------
(* Inboxes hold the newest posts *)

LEMMA LeastNat ==
  ASSUME NEW T, T \subseteq Nat, T # {}
  PROVE  \E x \in T : \A y \in T : x <= y
  <1>1. PICK x \in T : \A y \in T : <<y, x>> \notin OpToRel(<, Nat)
    BY WFMin, NatLessThanWellFounded, Zenon
  <1>2. \A y \in T : ~(y < x)
    BY <1>1, Zenon DEF OpToRel
  <1> QED BY <1>2

\* Newer orders the posts: by time, and by id where the times are equal.
LEMMA NewerOrder ==
  ASSUME TypeOK
  PROVE  /\ \A p \in Posts : ~Newer(p, p)
         /\ \A p, q \in Posts : p # q => Newer(p, q) \/ Newer(q, p)
         /\ \A p, q, r \in Posts : Newer(p, q) /\ Newer(q, r) => Newer(p, r)
  <1>1. \A p \in Posts : stamp[p] \in Nat /\ p \in Nat
    BY PostsAssumption, NumbersAssumption DEF TypeOK
  <1> QED BY <1>1 DEF Newer

LEMMA Oldest ==
  ASSUME TypeOK, NEW S, S \subseteq Posts, S # {}
  PROVE  \E p \in S : \A q \in S \ {p} : Newer(q, p)
  <1>1. \A p \in S : stamp[p] \in Nat /\ p \in Nat
    BY PostsAssumption, NumbersAssumption DEF TypeOK
  <1> DEFINE Stamps == {stamp[p] : p \in S}
  <1>2. PICK t \in Stamps : \A n \in Stamps : t <= n
    <2>1. Stamps \subseteq Nat /\ Stamps # {}
      BY <1>1
    <2> HIDE DEF Stamps
    <2> QED BY <2>1, LeastNat
  <1> DEFINE First == {p \in S : stamp[p] = t}
  <1>3. PICK p \in First : \A q \in First : p <= q
    <2>1. First \subseteq Nat /\ First # {}
      BY <1>1, <1>2
    <2> HIDE DEF First
    <2> QED BY <2>1, LeastNat
  <1>4. ASSUME NEW q \in S \ {p} PROVE Newer(q, p)
    <2>1. stamp[p] = t /\ t <= stamp[q] /\ p \in S
      BY <1>2, <1>3
    <2>2. stamp[q] = t => p <= q
      BY <1>3
    <2> QED BY <1>1, <2>1, <2>2 DEF Newer
  <1> QED BY <1>3, <1>4

\* No more posts than an inbox keeps: the trim drops none.
LEMMA NewestOfFew ==
  ASSUME TypeOK, NEW S, S \subseteq Posts, IsFiniteSet(S), Cardinality(S) <= Keep
  PROVE  Newest(S) = S
  <1>1. ASSUME NEW p \in S PROVE Cardinality({q \in S : Newer(q, p)}) < Keep
    <2>1. {q \in S : Newer(q, p)} \subseteq S \ {p}
      BY NewerOrder
    <2>2. IsFiniteSet(S \ {p}) /\ Cardinality(S \ {p}) = Cardinality(S) - 1
      BY FS_RemoveElement
    <2>3. Cardinality({q \in S : Newer(q, p)}) <= Cardinality(S) - 1
      BY <2>1, <2>2, FS_Subset
    <2>4. Cardinality({q \in S : Newer(q, p)}) \in Nat /\ Cardinality(S) \in Nat
      BY <2>1, <2>2, FS_Subset, FS_CardinalityType
    <2> QED BY <2>3, <2>4, NumbersAssumption
  <1> QED BY <1>1 DEF Newest

\* One post too many: the trim drops the oldest.
LEMMA NewestOfMore ==
  ASSUME TypeOK, NEW S, S \subseteq Posts, IsFiniteSet(S), Cardinality(S) = Keep + 1,
         NEW m \in S, \A q \in S \ {m} : Newer(q, m)
  PROVE  Newest(S) = S \ {m}
  <1>1. IsFiniteSet(S \ {m}) /\ Cardinality(S \ {m}) = Keep
    <2>1. IsFiniteSet(S \ {m}) /\ Cardinality(S \ {m}) = Cardinality(S) - 1
      BY FS_RemoveElement
    <2> QED BY <2>1, NumbersAssumption
  <1>2. m \notin Newest(S)
    <2>1. {q \in S : Newer(q, m)} = S \ {m}
      BY NewerOrder
    <2> QED BY <1>1, <2>1, NumbersAssumption DEF Newest
  <1>3. ASSUME NEW p \in S \ {m} PROVE p \in Newest(S)
    <2> DEFINE Before == {q \in S : Newer(q, p)}
    <2>1. m \notin Before /\ p \notin Before
      BY NewerOrder
    <2>2. Before \subseteq (S \ {m}) \ {p}
      BY <2>1
    <2>3. /\ IsFiniteSet((S \ {m}) \ {p})
          /\ Cardinality((S \ {m}) \ {p}) = Keep - 1
      BY <1>1, FS_RemoveElement
    <2>4. Cardinality(Before) <= Keep - 1 /\ Cardinality(Before) \in Nat
      BY <2>2, <2>3, FS_Subset, FS_CardinalityType
    <2> HIDE DEF Before
    <2>5. Cardinality(Before) < Keep
      BY <2>4, NumbersAssumption
    <2> QED BY <2>5 DEF Newest, Before
  <1> QED BY <1>2, <1>3 DEF Newest

\* What InboxIsNewest says of one inbox S and the posts F ever pushed to it.
KeepsNewest(S, F) ==
    /\ S \subseteq F
    /\ Cardinality(S) <= Keep
    /\ \A p \in F \ S : Cardinality(S) = Keep /\ \A q \in S : Newer(q, p)

\* ZADD and the trim, whatever post arrives.
LEMMA AddKeepsNewest ==
  ASSUME TypeOK, NEW F, F \subseteq Posts, NEW S, KeepsNewest(S, F), NEW x \in Posts
  PROVE  KeepsNewest(AddToInbox(S, x), F \cup {x})
  <1> DEFINE S1 == S \cup {x}
  <1>0. S \subseteq Posts /\ IsFiniteSet(S) /\ Cardinality(S) \in Nat
    BY PostsAssumption, FS_Subset, FS_CardinalityType DEF KeepsNewest
  <1>1. /\ S1 \subseteq Posts /\ IsFiniteSet(S1) /\ Cardinality(S1) \in Nat
        /\ Cardinality(S1) = IF x \in S THEN Cardinality(S) ELSE Cardinality(S) + 1
    BY <1>0, FS_AddElement, FS_CardinalityType
  <1>2. CASE Cardinality(S1) <= Keep
    <2>1. AddToInbox(S, x) = S1
      BY <1>1, <1>2, NewestOfFew DEF AddToInbox
    <2>2. ASSUME NEW p \in (F \cup {x}) \ S1
          PROVE  Cardinality(S1) = Keep /\ \A q \in S1 : Newer(q, p)
      <3>1. p \in F \ S
        OBVIOUS
      <3>2. Cardinality(S) = Keep
        BY <3>1 DEF KeepsNewest
      <3>3. x \in S
        BY <1>1, <1>2, <3>2, NumbersAssumption
      <3>4. S1 = S
        BY <3>3
      <3> QED BY <3>1, <3>4 DEF KeepsNewest
    <2>3. S1 \subseteq F \cup {x}
      BY DEF KeepsNewest
    <2> HIDE DEF S1
    <2> QED BY <1>2, <2>1, <2>2, <2>3 DEF KeepsNewest
  <1>3. CASE ~(Cardinality(S1) <= Keep)
    <2>1. Cardinality(S) = Keep /\ Cardinality(S1) = Keep + 1
      BY <1>0, <1>1, <1>3, NumbersAssumption DEF KeepsNewest
    <2>2. PICK m \in S1 : \A q \in S1 \ {m} : Newer(q, m)
      <3>1. S1 # {}
        OBVIOUS
      <3> HIDE DEF S1
      <3> QED BY <1>1, <3>1, Oldest
    <2>3. AddToInbox(S, x) = S1 \ {m}
      <3> HIDE DEF S1
      <3>1. Newest(S1) = S1 \ {m}
        BY <1>1, <2>1, <2>2, NewestOfMore
      <3> QED BY <3>1 DEF AddToInbox, S1
    <2>4. Cardinality(S1 \ {m}) = Keep
      <3> HIDE DEF S1
      <3>1. Cardinality(S1 \ {m}) = Cardinality(S1) - 1
        BY <1>1, FS_RemoveElement
      <3> QED BY <2>1, <3>1, NumbersAssumption
    <2>5. ASSUME NEW p \in (F \cup {x}) \ (S1 \ {m}), NEW q \in S1 \ {m}
          PROVE  Newer(q, p)
      <3>1. CASE p = m
        BY <2>2, <3>1
      <3>2. CASE p # m
        <4>1. p \in F \ S /\ p \in Posts
          BY <3>2
        <4>2. \A r \in S : Newer(r, p)
          BY <4>1 DEF KeepsNewest
        <4>3. CASE q \in S
          BY <4>2, <4>3
        <4>4. CASE q \notin S
          <5>1. q = x /\ m \in S
            BY <4>4
          <5>2. Newer(q, m) /\ Newer(m, p)
            BY <2>2, <4>2, <5>1
          <5>3. q \in Posts /\ m \in Posts
            BY <1>1
          <5> QED BY <4>1, <5>2, <5>3, NewerOrder
        <4> QED BY <4>3, <4>4
      <3> QED BY <3>1, <3>2
    <2>6. S1 \ {m} \subseteq F \cup {x}
      BY DEF KeepsNewest
    <2>7. Keep <= Keep
      BY NumbersAssumption
    <2> HIDE DEF S1
    <2> QED BY <2>3, <2>4, <2>5, <2>6, <2>7 DEF KeepsNewest
  <1> QED BY <1>2, <1>3

\* Only announced posts are pushed, and their times no longer change.
BoxInv == \A u \in Users : fanned[u] \subseteq log /\ KeepsNewest(inbox[u], fanned[u])

LEMMA InitBox == Init => BoxInv
  <1>1. Cardinality({}) <= Keep
    BY FS_EmptySet, NumbersAssumption
  <1> QED BY <1>1 DEF Init, BoxInv, KeepsNewest

\* A step that leaves inboxes and the times of announced posts alone.
LEMMA BoxKept ==
  ASSUME TypeOK, BoxInv, log \subseteq log', UNCHANGED <<inbox, fanned>>,
         \A p \in log : stamp'[p] = stamp[p]
  PROVE  BoxInv'
  <1> SUFFICES ASSUME NEW u \in Users
               PROVE  fanned[u] \subseteq log' /\ KeepsNewest(inbox[u], fanned[u])'
    BY DEF BoxInv
  <1>1. fanned[u] \subseteq log /\ KeepsNewest(inbox[u], fanned[u])
    BY DEF BoxInv
  <1>2. \A p, q \in fanned[u] : Newer(q, p) => Newer(q, p)'
    BY <1>1 DEF Newer
  <1> QED BY <1>1, <1>2 DEF KeepsNewest

LEMMA StepBox == TypeOK /\ BoxInv /\ [Next]_vars => BoxInv'
  <1> SUFFICES ASSUME TypeOK, BoxInv, [Next]_vars PROVE BoxInv'
    OBVIOUS
  <1> USE DEF posts, events, worker, boxes
  <1>1. CASE \E p \in Posts, u \in Users : PostFeed(p, u)
    <2>1. \A p \in log : posting[p] # "new"
      BY DEF TypeOK
    <2>2. \A p \in log : stamp'[p] = stamp[p]
      BY <1>1, <2>1 DEF PostFeed, TypeOK
    <2>3. log \subseteq log' /\ UNCHANGED <<inbox, fanned>>
      BY <1>1 DEF PostFeed
    <2> QED BY <2>2, <2>3, BoxKept
  <1>2. CASE \E w \in Workers : PushInboxes(w)
    <2>1. PICK w \in Workers : PushInboxes(w)
      BY <1>2
    <2>2. job[w] \in log /\ job[w] \in Posts
      BY <2>1 DEF PushInboxes, TypeOK
    <2>3. UNCHANGED <<stamp, log>>
      BY <2>1 DEF PushInboxes, Working
    <2>4. ASSUME NEW u \in Users
          PROVE  fanned'[u] \subseteq log /\ KeepsNewest(inbox'[u], fanned'[u])
      <3>1. /\ fanned[u] \subseteq log /\ KeepsNewest(inbox[u], fanned[u])
            /\ fanned[u] \subseteq Posts
        BY DEF BoxInv, TypeOK
      <3>2. CASE u \in fans[w]
        <4>1. /\ inbox'[u] = AddToInbox(inbox[u], job[w])
              /\ fanned'[u] = fanned[u] \cup {job[w]}
          BY <2>1, <3>2 DEF PushInboxes
        <4> QED BY <2>2, <3>1, <4>1, AddKeepsNewest
      <3>3. CASE u \notin fans[w]
        <4>1. inbox'[u] = inbox[u] /\ fanned'[u] = fanned[u]
          BY <2>1, <3>3 DEF PushInboxes
        <4> QED BY <3>1, <4>1
      <3> QED BY <3>2, <3>3
    <2> QED BY <2>3, <2>4 DEF BoxInv, KeepsNewest, Newer
  <1>3. CASE \/ Tick
             \/ \E u, v \in Users : Follow(u, v) \/ Unfollow(u, v)
             \/ \E p \in Posts : Dispatch(p) \/ DispatchFails(p) \/ Redeliver(p)
    BY <1>3, BoxKept DEF Tick, Follow, Unfollow, Changed, Dispatch, DispatchFails,
                         Answer, Redeliver
  <1>4. CASE \E w \in Workers :
               \/ \E p \in Posts : Take(w, p) \/ Commit(w, p)
               \/ Handle(w) \/ QueryFails(w) \/ PushFails(w) \/ Tell(w)
               \/ Crash(w) \/ RankingFails(w)
    <2>1. log' = log /\ UNCHANGED <<inbox, fanned, stamp>>
      BY <1>4 DEF Take, Commit, Handle, QueryFails, PushFails, Tell, Crash,
                  RankingFails, Working
    <2> QED BY <2>1, BoxKept
  <1>5. CASE UNCHANGED vars
    BY <1>5, BoxKept DEF vars
  <1> QED BY <1>1, <1>2, <1>3, <1>4, <1>5 DEF Next, Consume, Idle

\* Whatever the order of the events, however often each is handled and whatever
\* fails, an inbox holds the Keep newest posts ever pushed to it (the definition is
\* in Fanout).
THEOREM InboxesNewest == Spec => []InboxIsNewest
  <1>1. BoxInv => InboxIsNewest
    BY DEF BoxInv, KeepsNewest, InboxIsNewest
  <1> QED BY <1>1, InitType, StepType, InitBox, StepBox, PTL DEF Spec

------------------------------------------------------------------------------
(* The fan-out implements module Inboxes *)

\* The instance has a cardinality of its own.
LEMMA SameSize == \A S : Promise!Cardinality(S) = Cardinality(S)
  BY DEF Cardinality, Promise!Cardinality

\* Steps that no author and no reader can tell from waiting, or from a failure.
LEMMA UnseenStep ==
  ASSUME TypeOK,
         UNCHANGED <<stamp, owed, log, pending, fanned, inbox>>,
         UNCHANGED faults \/ \E k \in FaultKinds : Fault(k)
  PROVE  [Promise!Next]_(Promise!vars)
  <1>1. NothingFailed' => NothingFailed
    BY FaultCounts DEF NothingFailed
  <1>2. CASE NothingFailed'
    BY <1>1, <1>2 DEF Promise!vars
  <1>3. CASE ~NothingFailed'
    BY <1>3 DEF Promise!Next, Promise!Fail
  <1> QED BY <1>2, <1>3

\* Users write posts, are answered, follow and leave.
LEMMA UserPromise ==
  ASSUME TypeOK, TypeOK',
         \/ \E u, v \in Users : Unfollow(u, v)
         \/ \E p \in Posts, u \in Users : PostFeed(p, u)
         \/ \E p \in Posts : Dispatch(p)
  PROVE  Promise!Next
  <1> USE DEF posts, events, worker, boxes
  <1>1. CASE \E u, v \in Users : Unfollow(u, v)
    <2>1. PICK u \in Users, v \in Users : Unfollow(u, v)
      BY <1>1
    <2>2. /\ owed' = [p \in Posts |-> IF p \in {q \in Posts : author[q] = v}
                                      THEN owed[p] \ {u} ELSE owed[p]]
          /\ UNCHANGED <<stamp, log, pending, fanned, inbox, faults>>
      BY <2>1 DEF Unfollow, Changed
    <2>3. Promise!Leave(u)
      BY <2>2 DEF Promise!Leave, NothingFailed
    <2> QED BY <2>3 DEF Promise!Next
  <1>2. CASE \E p \in Posts, u \in Users : PostFeed(p, u)
    <2>1. PICK p \in Posts, u \in Users : PostFeed(p, u)
      BY <1>2
    <2>2. p \notin log /\ now \in 0..MaxTime /\ Followers(u) \in SUBSET Users
      BY <2>1 DEF PostFeed, TypeOK, Followers
    <2>3. /\ stamp' = [stamp EXCEPT ![p] = now]
          /\ owed' = [owed EXCEPT ![p] = Followers(u)]
          /\ UNCHANGED <<log, pending, fanned, inbox, faults>>
      BY <2>1 DEF PostFeed
    <2>4. Promise!Write(p)
      BY <2>2, <2>3 DEF Promise!Write, NothingFailed
    <2> QED BY <2>4 DEF Promise!Next
  <1>3. CASE \E p \in Posts : Dispatch(p)
    <2>1. PICK p \in Posts : Dispatch(p)
      BY <1>3
    <2>2. Promise!Announce(p)
      BY <2>1 DEF Dispatch, Answer, Promise!Announce, NothingFailed
    <2> QED BY <2>2 DEF Promise!Next
  <1> QED BY <1>1, <1>2, <1>3

\* The pipeline: BoxInv holds after it, too.
LEMMA PushPromise ==
  ASSUME TypeOK, BoxInv', NEW w \in Workers, PushInboxes(w)
  PROVE  Promise!Next
  <1>1. job[w] \in log /\ log \subseteq Posts
    BY DEF PushInboxes, TypeOK
  <1>2. /\ fanned' = [u \in Users |-> IF u \in fans[w] THEN fanned[u] \cup {job[w]}
                                                       ELSE fanned[u]]
        /\ fans[w] \in SUBSET Users
        /\ UNCHANGED <<stamp, owed, log, pending, faults>>
    BY DEF PushInboxes, Working, posts, events, TypeOK
  <1>3. \A u \in Users : Promise!Kept(inbox'[u], fanned'[u])
    <2>1. UNCHANGED stamp
      BY <1>2
    <2>2. \A u \in Users : KeepsNewest(inbox[u], fanned[u])'
      BY DEF BoxInv
    <2> QED BY <2>1, <2>2, SameSize DEF KeepsNewest, Newer, Promise!Kept, Promise!Newer
  <1>4. Promise!Push(job[w])
    BY <1>1, <1>2, <1>3 DEF Promise!Push, NothingFailed
  <1> QED BY <1>1, <1>4 DEF Promise!Next

LEMMA CommitPromise ==
  ASSUME TypeOK, FanInv', NEW w \in Workers, NEW p \in Posts, Commit(w, p)
  PROVE  Promise!Next
  <1>1. /\ p \in pending /\ p \in log /\ pending' = pending \ {p}
        /\ UNCHANGED <<stamp, owed, log, fanned, inbox, faults>>
    BY DEF Commit, TypeOK, posts, boxes
  <1>2. NothingFailed => \A u \in owed[p] : p \in fanned[u]
    BY <1>1 DEF FanInv, Handled, Reached, NothingFailed
  <1>3. Promise!Forget(p)
    BY <1>1, <1>2 DEF Promise!Forget, NothingFailed
  <1> QED BY <1>3 DEF Promise!Next

LEMMA StepPromise ==
  ASSUME TypeOK, TypeOK', FanInv', BoxInv', [Next]_vars
  PROVE  [Promise!Next]_(Promise!vars)
  <1> USE DEF posts, events, worker, boxes
  <1>1. CASE \/ \E u, v \in Users : Unfollow(u, v)
             \/ \E p \in Posts, u \in Users : PostFeed(p, u)
             \/ \E p \in Posts : Dispatch(p)
    BY <1>1, UserPromise
  <1>2. CASE \E w \in Workers : PushInboxes(w)
    BY <1>2, PushPromise
  <1>3. CASE \E w \in Workers, p \in Posts : Commit(w, p)
    BY <1>3, CommitPromise
  <1>4. CASE Tick \/ (\E u, v \in Users : Follow(u, v)) \/ UNCHANGED vars
    BY <1>4, UnseenStep DEF Tick, Follow, Changed, vars
  <1>5. CASE \E p \in Posts : DispatchFails(p) \/ Redeliver(p)
    BY <1>5, UnseenStep DEF DispatchFails, Answer, Redeliver, FaultKinds
  <1>6. CASE \E w \in Workers :
               \/ Crash(w) \/ RankingFails(w)
               \/ (\E p \in Posts : Take(w, p)) \/ Handle(w) \/ QueryFails(w)
               \/ PushFails(w) \/ Tell(w)
    <2>1. UNCHANGED <<stamp, owed, log, pending, fanned, inbox>>
      BY <1>6 DEF Crash, RankingFails, Take, Handle, ToOutbox, ReadFans, QueryFails, PushFails,
         Tell, Working
    <2>2. UNCHANGED faults \/ \E k \in FaultKinds : Fault(k)
      BY <1>6 DEF Crash, RankingFails, Take, Handle, QueryFails, PushFails, Tell, FaultKinds
    <2> QED BY <2>1, <2>2, UnseenStep
  <1> QED BY <1>1, <1>2, <1>3, <1>4, <1>5, <1>6 DEF Next, Consume, Idle

\* Kafka and its offsets, the workers with their crashes and redeliveries, and the
\* trimmed sorted sets of Redis implement the promise of module Inboxes, for any
\* users, posts, workers and sizes.
THEOREM PromiseKept == Spec => KeepsPromise
  <1>1. Init => Promise!Init
    <2>1. ASSUME Init PROVE \A u \in Users : inbox[u] = {} /\ fanned[u] = {}
      BY <2>1 DEF Init
    <2> QED BY NumbersAssumption DEF Init, Promise!Init, NothingFailed, FaultKinds
  <1>2. TypeOK /\ FanInv /\ BoxInv /\ [Next]_vars => (TypeOK /\ FanInv /\ BoxInv)'
    BY StepType, StepFan, StepBox
  <1>3. TypeOK /\ TypeOK' /\ FanInv' /\ BoxInv' /\ [Next]_vars
          => [Promise!Next]_(Promise!vars)
    BY StepPromise
  <1> QED BY <1>1, <1>2, <1>3, InitType, InitFan, InitBox, PTL
          DEF Spec, KeepsPromise, Promise!Spec
=============================================================================
