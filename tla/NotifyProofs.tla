----------------------------- MODULE NotifyProofs -----------------------------
(* What Notify guarantees for every number of users, requests and sessions,   *)
(* every page size and every number of faults.                                *)
EXTENDS Notify, FiniteSetTheorems, WellFoundedInduction, TLAPS

------------------------------------------------------------------------------
(* Types *)

PCs == {"idle", "online", "stamp", "id", "commit", "push", "write", "done", "failed"}

\* A row has an id of its own, drawn before the row is there.
IdsInv ==
    /\ \A q, r \in Pushes : id[q] = id[r] /\ id[q] # 0 => q = r
    /\ \A r \in rows : id[r] # 0
    /\ \A r \in Pushes : pc[r] = "commit" => id[r] # 0

Types ==
    /\ pc \in [Pushes -> PCs]
    /\ user \in [Pushes -> Users]
    /\ online \in [Pushes -> BOOLEAN] /\ delivered \in [Pushes -> BOOLEAN]
    /\ clock \in Nat /\ nextId \in Nat \ {0}
    /\ at \in [Pushes -> 0..clock] /\ id \in [Pushes -> 0..nextId - 1]
    /\ rows \subseteq Pushes /\ steady \subseteq Pushes
    /\ readBy \in [Pushes -> SUBSET Users]
    /\ session \in [Users -> {"off", "listing", "listed"}]
    /\ sessions \in [Users -> Nat]
    /\ \A u \in Users : session[u] # "off" => sessions[u] # 0
    /\ conn \in [Pushes -> Nat] /\ \A r \in Pushes : conn[r] <= sessions[user[r]]
    /\ cursor \in [Users -> 0..nextId]
    /\ got \in [Users -> SUBSET Pushes] /\ due \in [Users -> SUBSET Pushes]
    /\ queued \in [Users -> SUBSET Pushes] /\ seen \in [Users -> SUBSET Pushes]
    /\ faults \in [FaultKinds -> Nat]

LEMMA TypesSuffice == Types /\ IdsInv => TypeOK
  BY DEF Types, IdsInv, TypeOK, PCs

LEMMA LeastNat ==
  ASSUME NEW S, S \subseteq Nat, S # {}
  PROVE  \E n \in S : \A m \in S : n <= m
  <1>1. PICK n \in S : \A m \in S : ~(<<m, n>> \in OpToRel(<, Nat))
    BY WFMin, NatLessThanWellFounded, Zenon
  <1>2. \A m \in S : ~(m < n)
    BY <1>1 DEF OpToRel
  <1> QED BY <1>2

\* A page that is not empty has a last item.
LEMMA LastItem ==
  ASSUME Types, IdsInv, NEW S, S \subseteq rows, S # {}
  PROVE  \E r \in S : \A q \in S \ {r} : Before(q, r)
  <1>1. \A r \in S : at[r] \in Nat /\ id[r] \in Nat /\ id[r] # 0 /\ r \in Pushes
    BY DEF Types, IdsInv
  <1> DEFINE Times == {at[r] : r \in S}
  <1>2. PICK t \in Times : \A n \in Times : t <= n
    <2>1. Times \subseteq Nat /\ Times # {}
      BY <1>1
    <2> HIDE DEF Times
    <2> QED BY <2>1, LeastNat
  <1> DEFINE Ids == {id[r] : r \in {q \in S : at[q] = t}}
  <1>3. PICK i \in Ids : \A n \in Ids : i <= n
    <2>1. Ids \subseteq Nat /\ Ids # {}
      BY <1>1, <1>2
    <2> HIDE DEF Ids
    <2> QED BY <2>1, LeastNat
  <1>4. PICK r \in S : at[r] = t /\ id[r] = i
    BY <1>3
  <1>5. ASSUME NEW q \in S \ {r} PROVE Before(q, r)
    <2>1. t <= at[q] /\ (at[q] = t => i <= id[q])
      BY <1>2, <1>3
    <2>2. id[q] # id[r]
      BY <1>1, <1>4 DEF IdsInv
    <2> QED BY <1>1, <1>4, <2>1, <2>2 DEF Before
  <1> QED BY <1>5

LEMMA CursorType ==
  ASSUME Types, IdsInv, NEW u \in Users, NEW c
  PROVE  /\ NextCursor(Page(u, c)) \in 0..nextId - 1
         /\ Page(u, c) \subseteq rows
  <1>1. Page(u, c) \subseteq rows
    BY DEF Page, Mine
  <1>2. CASE Page(u, c) = {}
    BY <1>1, <1>2 DEF NextCursor, Types
  <1>3. CASE Page(u, c) # {}
    <2> DEFINE S == Page(u, c)
               last == CHOOSE r \in S : \A q \in S \ {r} : Before(q, r)
    <2>1. last \in S
      BY <1>1, <1>3, LastItem
    <2>2. last \in Pushes
      BY <1>1, <2>1 DEF Types
    <2>3. id[last] \in 0..nextId - 1
      BY <2>2 DEF Types
    <2> QED BY <1>1, <1>3, <2>3 DEF NextCursor
  <1> QED BY <1>2, <1>3

LEMMA InitTypes == Init => Types /\ IdsInv
  <1> SUFFICES ASSUME Init PROVE Types /\ IdsInv
    OBVIOUS
  <1>1. pc \in [Pushes -> PCs]
    BY DEF Init, PCs
  <1>2. sessions \in [Users -> Nat] /\ \A r \in Pushes : conn[r] <= sessions[user[r]]
    BY DEF Init
  <1> QED BY <1>1, <1>2, UsersAssumption DEF Init, Types, IdsInv

LEMMA PushTypes ==
  ASSUME Types, IdsInv, NEW r \in Pushes, PushStep(r)
  PROVE  Types' /\ IdsInv'
  <1> USE DEF push, table, client, Goto
  <1>0. PCs = {"idle", "online", "stamp", "id", "commit", "push", "write", "done", "failed"}
    BY DEF PCs
  <1>f. ASSUME NEW k \in FaultKinds, Fault(k) PROVE faults' \in [FaultKinds -> Nat]
    BY <1>f DEF Fault, Types
  <1>k. {"online", "insert", "push", "full"} \subseteq FaultKinds
    BY DEF FaultKinds
  <1>1. CASE Start(r)
    BY <1>0, <1>1 DEF Start, Types, IdsInv
  <1>2. CASE IsOnline(r)
    <2>1. faults' \in [FaultKinds -> Nat]
      BY <1>2, <1>f, <1>k DEF IsOnline, Types
    <2>2. online' \in [Pushes -> BOOLEAN]
      BY <1>2 DEF IsOnline, Types, Online
    <2>3. pc' \in [Pushes -> PCs] /\ (\A q \in Pushes : pc'[q] = "commit" => pc[q] = "commit")
      BY <1>0, <1>2 DEF IsOnline, Types
    <2> QED BY <1>2, <2>1, <2>2, <2>3 DEF IsOnline, Types, IdsInv
  <1>3. CASE StampRow(r)
    <2>1. clock' = clock + 1 /\ at' = [at EXCEPT ![r] = clock'] /\ clock \in Nat
      BY <1>3 DEF StampRow, Types
    <2>2. at' \in [Pushes -> 0..clock']
      BY <2>1 DEF Types
    <2>3. pc' \in [Pushes -> PCs] /\ (\A q \in Pushes : pc'[q] = "commit" => pc[q] = "commit")
      BY <1>0, <1>3 DEF StampRow, Types
    <2> QED BY <1>3, <2>1, <2>2, <2>3 DEF StampRow, Types, IdsInv
  <1>4. CASE TakeId(r)
    <2>1. nextId' = nextId + 1 /\ id' = [id EXCEPT ![r] = nextId] /\ nextId \in Nat \ {0}
          /\ pc' = [pc EXCEPT ![r] = "commit"]
      BY <1>4 DEF TakeId, Types
    <2>2. id' \in [Pushes -> 0..nextId' - 1]
      BY <2>1 DEF Types
    <2>3. cursor' \in [Users -> 0..nextId']
      <3>1. cursor' = cursor
        BY <1>4 DEF TakeId
      <3> QED BY <2>1, <3>1 DEF Types
    <2>4. \A q \in Pushes : id'[q] = IF q = r THEN nextId ELSE id[q]
      BY <2>1 DEF Types
    <2>5. \A q \in Pushes : id[q] \in Nat /\ id[q] < nextId
      BY DEF Types
    <2>6. \A p, q \in Pushes : id'[p] = id'[q] /\ id'[p] # 0 => p = q
      BY <2>1, <2>4, <2>5 DEF IdsInv
    <2>7. \A q \in Pushes : pc'[q] = "commit" => id'[q] # 0
      BY <2>1, <2>4 DEF IdsInv, Types
    <2>8. \A q \in rows : id'[q] # 0
      BY <2>1, <2>4 DEF IdsInv, Types
    <2>9. pc' \in [Pushes -> PCs] /\ nextId' \in Nat \ {0}
      BY <1>0, <2>1 DEF Types
    <2> QED BY <1>4, <2>2, <2>3, <2>6, <2>7, <2>8, <2>9 DEF TakeId, Types, IdsInv
  <1>5. CASE Commit(r)
    BY <1>0, <1>5 DEF Commit, Types, IdsInv
  <1>6. CASE InsertFails(r)
    <2>1. faults' \in [FaultKinds -> Nat]
      BY <1>6, <1>f, <1>k DEF InsertFails
    <2>2. rows' \subseteq Pushes /\ \A q \in rows' : id[q] # 0
      BY <1>6 DEF InsertFails, Types, IdsInv
    <2>3. pc' \in [Pushes -> PCs] /\ (\A q \in Pushes : pc'[q] = "commit" => pc[q] = "commit")
      BY <1>0, <1>6 DEF InsertFails, Types
    <2> QED BY <1>6, <2>1, <2>2, <2>3 DEF InsertFails, Types, IdsInv
  <1>u. user[r] \in Users /\ sessions[user[r]] \in Nat /\ Online(user[r]) \in BOOLEAN
    BY DEF Types, Online
  <1>q. ASSUME queued' = queued \/ Queue(r) PROVE queued' \in [Users -> SUBSET Pushes]
    <2>1. queued \in [Users -> SUBSET Pushes]
      BY DEF Types
    <2>2. CASE Queue(r)
      <3>1. queued' = [queued EXCEPT ![user[r]] = queued[user[r]] \cup {r}]
        BY <2>2 DEF Queue
      <3>2. queued[user[r]] \cup {r} \in SUBSET Pushes
        BY <1>u, <2>1
      <3> QED BY <2>1, <3>1, <3>2
    <2> QED BY <1>q, <2>1, <2>2
  <1>7. CASE PushUser(r)
    <2>1. /\ conn' = [conn EXCEPT ![r] = IF Online(user[r]) THEN sessions[user[r]] ELSE 0]
          /\ sessions' = sessions /\ user' = user
      BY <1>7 DEF PushUser
    <2>2. conn' \in [Pushes -> Nat] /\ \A q \in Pushes : conn'[q] <= sessions[user[q]]
      BY <1>u, <2>1 DEF Types
    <2>3. pc' \in [Pushes -> PCs] /\ (\A q \in Pushes : pc'[q] = "commit" => pc[q] = "commit")
      BY <1>0, <1>7 DEF PushUser, Types
    <2> QED BY <1>7, <2>1, <2>2, <2>3 DEF PushUser, Types, IdsInv
  <1>8. CASE Write(r)
    <2>1. faults' \in [FaultKinds -> Nat]
      BY <1>8, <1>f, <1>k DEF Write, Types
    <2>2. queued' \in [Users -> SUBSET Pushes]
      BY <1>8, <1>q DEF Write
    <2>3. delivered' \in [Pushes -> BOOLEAN]
      BY <1>8 DEF Write, Types
    <2>4. pc' \in [Pushes -> PCs] /\ (\A q \in Pushes : pc'[q] = "commit" => pc[q] = "commit")
      BY <1>0, <1>8 DEF Write, Types
    <2>5. UNCHANGED <<user, online, conn, table, client, seen, steady>>
      BY <1>8 DEF Write
    <2> QED BY <2>1, <2>2, <2>3, <2>4, <2>5 DEF Types, IdsInv
  <1>9. CASE PushFails(r)
    <2>1. faults' \in [FaultKinds -> Nat]
      BY <1>9, <1>f, <1>k DEF PushFails
    <2>2. queued' \in [Users -> SUBSET Pushes]
      BY <1>9, <1>q DEF PushFails
    <2>3. pc' \in [Pushes -> PCs] /\ (\A q \in Pushes : pc'[q] = "commit" => pc[q] = "commit")
      BY <1>0, <1>9 DEF PushFails, Types
    <2>4. UNCHANGED <<user, online, conn, delivered, table, client, seen, steady>>
      BY <1>9 DEF PushFails
    <2> QED BY <2>1, <2>2, <2>3, <2>4 DEF Types, IdsInv
  <1> QED BY <1>1, <1>2, <1>3, <1>4, <1>5, <1>6, <1>7, <1>8, <1>9 DEF PushStep

LEMMA ClientTypes ==
  ASSUME Types, IdsInv, NEW u \in Users, ClientStep(u)
  PROVE  /\ Types' /\ IdsInv'
         /\ UNCHANGED <<push, rows, at, id, faults>>
  <1> USE DEF push, table, client
  <1>1. CASE Connect(u)
    <2>1. sessions' \in [Users -> Nat] /\ \A v \in Users : sessions[v] <= sessions'[v]
      BY <1>1 DEF Connect, Types
    <2>4. \A r \in Pushes : conn'[r] <= sessions'[user'[r]]
      <3>1. \A r \in Pushes : /\ user[r] \in Users /\ sessions[user[r]] \in Nat
                             /\ sessions'[user[r]] \in Nat /\ conn[r] \in Nat
        BY <2>1 DEF Types
      <3> QED BY <1>1, <2>1, <3>1 DEF Connect, Types
    <2>2. Mine(u) \subseteq Pushes /\ nextId \in Nat
      BY DEF Mine, Types
    <2>3. due' \in [Users -> SUBSET Pushes] /\ cursor' \in [Users -> 0..nextId]
          /\ got' \in [Users -> SUBSET Pushes]
      BY <1>1, <2>2 DEF Connect, Types
    <2>5. \A v \in Users : session'[v] # "off" => sessions'[v] # 0
      BY <1>1 DEF Connect, Types
    <2> QED BY <1>1, <2>1, <2>3, <2>4, <2>5 DEF Connect, Types, IdsInv
  <1>2. CASE Disconnect(u)
    BY <1>2 DEF Disconnect, Types, IdsInv
  <1>3. CASE ListPage(u)
    <2> DEFINE items == Page(u, cursor[u])
    <2>1. NextCursor(items) \in 0..nextId - 1 /\ items \subseteq Pushes
      BY CursorType DEF Types
    <2>2. /\ got' = [got EXCEPT ![u] = @ \cup items]
          /\ seen' = [seen EXCEPT ![u] = @ \cup items]
          /\ cursor' = [cursor EXCEPT ![u] = NextCursor(items)]
          /\ session' \in [Users -> {"off", "listing", "listed"}]
      BY <1>3 DEF ListPage, Types
    <2>3. NextCursor(items) \in 0..nextId
      BY <2>1 DEF Types
    <2> HIDE DEF items
    <2>4. /\ got' \in [Users -> SUBSET Pushes] /\ seen' \in [Users -> SUBSET Pushes]
          /\ cursor' \in [Users -> 0..nextId]
      BY <2>1, <2>2, <2>3 DEF Types
    <2>5. \A v \in Users : session'[v] # "off" => sessions'[v] # 0
      BY <1>3 DEF ListPage, Types
    <2> QED BY <1>3, <2>2, <2>4, <2>5 DEF ListPage, Types, IdsInv
  <1>4. ASSUME NEW ids, MarkRead(u, ids)
        PROVE  /\ Types' /\ IdsInv'
               /\ UNCHANGED <<push, rows, at, id, faults>>
    <2>1. readBy' \in [Pushes -> SUBSET Users]
      BY <1>4 DEF MarkRead, Types
    <2> QED BY <1>4, <2>1 DEF MarkRead, Types, IdsInv
  <1>5. CASE ListPage(u) \/ Connect(u) \/ Disconnect(u)
    BY <1>1, <1>2, <1>3, <1>5 DEF Connect, Disconnect, ListPage
  <1>6. CASE Hear(u)
    BY <1>6 DEF Hear, Types, IdsInv
  <1> QED BY <1>4, <1>5, <1>6 DEF ClientStep

LEMMA TypesStep ==
  ASSUME Types, IdsInv, [Next]_vars
  PROVE  Types' /\ IdsInv'
  <1>1. CASE UNCHANGED vars
    BY <1>1 DEF vars, push, table, client, Types, IdsInv
  <1> QED BY <1>1, PushTypes, ClientTypes DEF Next, Idle

\* The state of the notify service keeps its types, and rows have distinct ids
\* (services/notify).
THEOREM TypeCorrect == Spec => []TypeOK
  <1>1. Types /\ IdsInv /\ [Next]_vars => (Types /\ IdsInv)'
    BY TypesStep
  <1> QED BY <1>1, InitTypes, TypesSuffice, PTL DEF Spec

------------------------------------------------------------------------------
(* delivered_ws *)

\* A connection is one of its user's, and once Push has an answer it is kept.
LEMMA UsersStay ==
  ASSUME Types, [Next]_vars
  PROVE  user' = user /\ rows \subseteq rows'
  BY DEF Next, PushStep, Start, IsOnline, StampRow, TakeId, Commit, InsertFails, PushUser, Write,
     PushFails, ClientStep, Connect, Disconnect, Hear, ListPage, MarkRead, Idle, vars, push,
     table, client

\* What is in a client's hand stays there, or its connection goes.
LEMMA HandStays ==
  ASSUME Types, [Next]_vars, NEW r \in Pushes, InHand(r), pc[r] # "push"
  PROVE  InHand(r)'
  <1> USE DEF push, table, client
  <1> DEFINE u == user[r]
  <1>0. /\ u \in Users /\ user' = user /\ sessions[u] \in Nat /\ conn[r] \in Nat
        /\ conn[r] <= sessions[u]
    BY UsersStay DEF Types
  <1>1. ASSUME conn'[r] = conn[r], OnConn(r)' => OnConn(r),
               queued[u] \cup seen[u] \subseteq queued'[u] \cup seen'[u]
        PROVE  InHand(r)'
    BY <1>0, <1>1 DEF InHand
  <1>2. ASSUME NEW q \in Pushes, PushStep(q) PROVE InHand(r)'
    <2>1. /\ session' = session /\ sessions' = sessions
          /\ conn' = conn \/ (conn' = [conn EXCEPT ![q] = conn'[q]] /\ pc[q] = "push")
      BY <1>2 DEF PushStep, Start, IsOnline, StampRow, TakeId, Commit, InsertFails, PushUser,
         Write, PushFails, Types
    <2>2. conn'[r] = conn[r]
      BY <2>1 DEF Types
    <2>3. queued' = queued \/ Queue(q)
      BY <1>2 DEF PushStep, Start, IsOnline, StampRow, TakeId, Commit, InsertFails, PushUser,
         Write, PushFails
    <2>4. queued[u] \subseteq queued'[u]
      BY <1>0, <2>3 DEF Queue, Types
    <2>5. seen' = seen
      BY <1>2 DEF PushStep, Start, IsOnline, StampRow, TakeId, Commit, InsertFails, PushUser,
         Write, PushFails
    <2>6. OnConn(r)' = OnConn(r)
      BY <1>0, <2>1, <2>2 DEF OnConn, Online
    <2> QED BY <1>1, <2>2, <2>4, <2>5, <2>6
  <1>3. ASSUME NEW v \in Users, Connect(v) PROVE InHand(r)'
    <2>1. conn' = conn /\ queued' = queued /\ seen' = seen
      BY <1>3 DEF Connect
    <2>2. /\ session' = [session EXCEPT ![v] = "listing"]
          /\ sessions' = [sessions EXCEPT ![v] = @ + 1]
      BY <1>3 DEF Connect
    <2>3. CASE v = u
      <3>1. sessions'[u] = sessions[u] + 1
        BY <1>0, <2>2, <2>3 DEF Types
      <3>2. ~OnConn(r)'
        BY <1>0, <2>1, <3>1 DEF OnConn
      <3> QED BY <1>1, <2>1, <3>2
    <2>4. CASE v # u
      <3>1. sessions'[u] = sessions[u] /\ session'[u] = session[u]
        BY <1>0, <2>2, <2>4 DEF Types
      <3>2. OnConn(r)' = OnConn(r)
        BY <1>0, <2>1, <3>1 DEF OnConn, Online
      <3> QED BY <1>1, <2>1, <3>2
    <2> QED BY <2>3, <2>4
  <1>4. ASSUME NEW v \in Users, Disconnect(v) PROVE InHand(r)'
    <2>1. /\ conn' = conn /\ seen' = seen /\ sessions' = sessions
          /\ session' = [session EXCEPT ![v] = "off"]
          /\ queued' = [queued EXCEPT ![v] = {}]
      BY <1>4 DEF Disconnect
    <2>2. CASE v = u
      <3>1. session'[u] = "off"
        BY <1>0, <2>1, <2>2 DEF Types
      <3>2. ~OnConn(r)'
        BY <1>0, <3>1 DEF OnConn, Online
      <3> QED BY <1>0, <2>1, <3>2 DEF InHand
    <2>3. CASE v # u
      <3>1. session'[u] = session[u] /\ queued'[u] = queued[u]
        BY <1>0, <2>1, <2>3 DEF Types
      <3>2. OnConn(r)' = OnConn(r)
        BY <1>0, <2>1, <3>1 DEF OnConn, Online
      <3> QED BY <1>1, <2>1, <3>1, <3>2
    <2> QED BY <2>2, <2>3
  <1>5. ASSUME NEW v \in Users, Hear(v) PROVE InHand(r)'
    <2>1. PICK q \in queued[v] : /\ queued' = [queued EXCEPT ![v] = @ \ {q}]
                                 /\ seen' = [seen EXCEPT ![v] = @ \cup {q}]
      BY <1>5 DEF Hear
    <2>2. conn' = conn /\ session' = session /\ sessions' = sessions
      BY <1>5 DEF Hear
    <2>3. queued[u] \cup seen[u] \subseteq queued'[u] \cup seen'[u]
      BY <1>0, <2>1 DEF Types
    <2>4. OnConn(r)' = OnConn(r)
      BY <1>0, <2>2 DEF OnConn, Online
    <2> QED BY <1>1, <2>2, <2>3, <2>4
  <1>6. ASSUME NEW v \in Users, ListPage(v) PROVE InHand(r)'
    <2>1. /\ conn' = conn /\ sessions' = sessions /\ queued' = queued /\ session[v] = "listing"
          /\ \E items : seen' = [seen EXCEPT ![v] = @ \cup items]
          /\ \E l : session' = [session EXCEPT ![v] = l]
      BY <1>6 DEF ListPage
    <2>2. queued[u] \cup seen[u] \subseteq queued'[u] \cup seen'[u]
      BY <1>0, <2>1 DEF Types
    <2>3. Online(u)' => Online(u)
      BY <1>0, <2>1 DEF Online, Types
    <2>4. OnConn(r)' => OnConn(r)
      BY <1>0, <2>1, <2>3 DEF OnConn
    <2> QED BY <1>1, <2>1, <2>2, <2>4
  <1>7. CASE UNCHANGED <<conn, session, sessions, queued, seen>>
    <2>1. OnConn(r)' = OnConn(r)
      BY <1>0, <1>7 DEF OnConn, Online
    <2> QED BY <1>1, <1>7, <2>1
  <1>8. ASSUME NEW v \in Users, NEW ids, MarkRead(v, ids) PROVE InHand(r)'
    BY <1>7, <1>8 DEF MarkRead
  <1>9. CASE UNCHANGED vars
    BY <1>7, <1>9 DEF vars
  <1> QED BY <1>2, <1>3, <1>4, <1>5, <1>6, <1>8, <1>9 DEF Next, ClientStep, Idle

\* PushUser is called once the row is there, and an answer that says delivered is the
\* last step.
StoredInv ==
    /\ \A r \in Pushes : pc[r] \in {"push", "write"} => r \in rows
    /\ \A r \in Pushes : delivered[r] => pc[r] = "done" /\ r \in rows /\ InHand(r)

LEMMA StoredStep ==
  ASSUME Types, IdsInv, StoredInv, [Next]_vars
  PROVE  StoredInv'
  <1> USE DEF push, table, client, Goto
  <1>0. Types' /\ user' = user /\ rows \subseteq rows'
    BY TypesStep, UsersStay
  <1>1. \A q \in Pushes : delivered[q] => InHand(q)'
    BY HandStays DEF StoredInv
  <1>2. ASSUME NEW r \in Pushes, PushStep(r),
               pc'[r] \in {"push", "write"} => r \in rows',
               delivered'[r] => pc'[r] = "done" /\ r \in rows' /\ InHand(r)'
        PROVE  StoredInv'
    <2>1. \A q \in Pushes \ {r} : pc'[q] = pc[q] /\ delivered'[q] = delivered[q]
      BY <1>2 DEF PushStep, Start, IsOnline, StampRow, TakeId, Commit, InsertFails, PushUser,
         Write, PushFails, Types
    <2>2. \A q \in Pushes \ {r} :
            /\ pc'[q] \in {"push", "write"} => q \in rows'
            /\ delivered'[q] => pc'[q] = "done" /\ q \in rows' /\ InHand(q)'
      BY <1>0, <1>1, <2>1 DEF StoredInv
    <2> QED BY <1>2, <2>2 DEF StoredInv
  <1>3. ASSUME NEW r \in Pushes, PushStep(r), ~Write(r) PROVE StoredInv'
    <2>1. pc[r] # "done" /\ delivered' = delivered
      BY <1>3 DEF PushStep, Start, IsOnline, StampRow, TakeId, Commit, InsertFails, PushUser,
         PushFails
    <2>2. ~delivered'[r]
      BY <2>1 DEF StoredInv
    <2>3. pc'[r] \in {"push", "write"} => pc[r] = "push" \/ r \in rows'
      BY <1>3 DEF PushStep, Start, IsOnline, StampRow, TakeId, Commit, InsertFails, PushUser,
         PushFails, Types
    <2>4. pc'[r] \in {"push", "write"} => r \in rows'
      BY <1>0, <2>3 DEF StoredInv
    <2> QED BY <1>2, <1>3, <2>2, <2>4
  <1>4. ASSUME NEW r \in Pushes, Write(r) PROVE StoredInv'
    <2>1. r \in rows' /\ user[r] \in Users /\ pc'[r] = "done" /\ pc[r] = "write"
      BY <1>0, <1>4 DEF Write, StoredInv, Types
    <2>2. conn' = conn /\ session' = session /\ sessions' = sessions /\ seen' = seen
      BY <1>4 DEF Write
    <2>3. ~delivered[r]
      BY <2>1 DEF StoredInv
    <2>4. ASSUME OnConn(r), Queue(r) PROVE InHand(r)'
      <3>1. conn[r] # 0 /\ r \in queued'[user[r]]
        <4>1. r \in queued'[user[r]]
          BY <2>1, <2>4 DEF Queue, Types
        <4>2. conn[r] # 0
          BY <2>1, <2>4 DEF OnConn, Online, Types
        <4> QED BY <4>1, <4>2
      <3> QED BY <1>0, <2>2, <3>1 DEF InHand
    <2>5. ASSUME ~OnConn(r), conn[r] # 0 PROVE InHand(r)'
      <3>1. ~OnConn(r)'
        BY <1>0, <2>2, <2>5 DEF OnConn, Online
      <3> QED BY <2>2, <2>5, <3>1 DEF InHand
    <2>6. delivered'[r] => InHand(r)'
      BY <1>4, <2>3, <2>4, <2>5 DEF Write, Types
    <2> QED BY <1>2, <1>4, <2>1, <2>6 DEF PushStep
  <1>5. CASE pc' = pc /\ delivered' = delivered
    BY <1>0, <1>1, <1>5 DEF StoredInv
  <1>6. ASSUME NEW u \in Users, ClientStep(u) PROVE StoredInv'
    BY <1>5, <1>6, ClientTypes
  <1>7. CASE UNCHANGED vars
    BY <1>5, <1>7 DEF vars
  <1> QED BY <1>3, <1>4, <1>6, <1>7 DEF Next, Idle

\* delivered_ws is TRUE only of notifications a client can find in its history, and
\* whose frame is with the client or on its way unless the connection it was queued on
\* has ended (service.go: the INSERT of line 41 comes before PushUser, line 67).
THEOREM DeliveredStored == Spec => []DeliveredIsStored
  <1>1. Init => StoredInv
    BY DEF Init, StoredInv
  <1>2. Types /\ IdsInv /\ StoredInv /\ [Next]_vars => (Types /\ IdsInv /\ StoredInv)'
    BY TypesStep, StoredStep
  <1>3. StoredInv => DeliveredIsStored
    BY DEF StoredInv, DeliveredIsStored
  <1> QED BY <1>1, <1>2, <1>3, InitTypes, PTL DEF Spec

------------------------------------------------------------------------------
(* Who stays connected misses nothing *)

NoFault == \A k \in {"online", "push", "full"} : faults[k] = 0

\* While a push of a user who stays is under way he is online, IsOnline said so,
\* PushUser finds his connection, and the push is not over before the frame is in hand.
SteadyInv ==
    \A r \in steady :
        /\ pc[r] # "idle"
        /\ InFlight(r) => Online(user[r])
        /\ NoFault /\ pc[r] \in {"stamp", "id", "commit", "push"} => online[r]
        /\ NoFault /\ pc[r] = "write" => OnConn(r)
        /\ NoFault /\ pc[r] = "done" => InHand(r)

LEMMA FaultsStay ==
  ASSUME Types, [Next]_vars, NoFault'
  PROVE  NoFault
  <1>1. ASSUME NEW k \in FaultKinds, Fault(k) PROVE \A j \in FaultKinds : faults[j] <= faults'[j]
    BY <1>1 DEF Fault, Types
  <1>2. \A j \in FaultKinds : faults[j] <= faults'[j]
    <2>1. UNCHANGED faults \/ \E k \in FaultKinds : Fault(k)
      BY DEF Next, PushStep, Start, IsOnline, StampRow, TakeId, Commit, InsertFails, PushUser, Write,
         PushFails, ClientStep, Connect, Disconnect, Hear, ListPage, MarkRead, Idle, vars, push,
         table, client, FaultKinds
    <2> QED BY <1>1, <2>1 DEF Types
  <1> QED BY <1>2 DEF NoFault, FaultKinds, Types

LEMMA SteadyStep ==
  ASSUME Types, IdsInv, SteadyInv, [Next]_vars
  PROVE  SteadyInv'
  <1> USE DEF push, table, client, Goto
  <1>0. /\ Types' /\ user' = user /\ (NoFault' => NoFault)
    BY TypesStep, UsersStay, FaultsStay
  <1>h. \A q \in steady : NoFault /\ pc[q] = "done" => InHand(q)'
    BY HandStays DEF SteadyInv, Types
  <1> DEFINE Kept(q) ==
        /\ pc'[q] # "idle"
        /\ InFlight(q)' => Online(user[q])'
        /\ NoFault' /\ pc'[q] \in {"stamp", "id", "commit", "push"} => online'[q]
        /\ NoFault' /\ pc'[q] = "write" => OnConn(q)'
        /\ NoFault' /\ pc'[q] = "done" => InHand(q)'
  <1>1. ASSUME NEW q \in steady, pc'[q] = pc[q], online'[q] = online[q],
               Online(user[q]) /\ InFlight(q) => Online(user[q])',
               OnConn(q) /\ InFlight(q) => OnConn(q)'
        PROVE  Kept(q)
    BY <1>0, <1>h, <1>1 DEF SteadyInv, Types, InFlight
  <1>2. ASSUME NEW r \in Pushes, PushStep(r), NEW q \in steady' PROVE Kept(q)
    <2>1. session' = session /\ sessions' = sessions /\ \A u \in Users : Online(u)' = Online(u)
      BY <1>2 DEF PushStep, Start, IsOnline, StampRow, TakeId, Commit, InsertFails, PushUser, Write,
         PushFails, Online
    <2>2. user[q] \in Users /\ q \in Pushes
      BY <1>0 DEF Types
    <2>3. CASE q # r
      <3>1. q \in steady /\ pc'[q] = pc[q] /\ online'[q] = online[q] /\ conn'[q] = conn[q]
        BY <1>2, <2>2, <2>3 DEF PushStep, Start, IsOnline, StampRow, TakeId, Commit, InsertFails,
           PushUser, Write, PushFails, Types
      <3>2. OnConn(q)' = OnConn(q) /\ Online(user[q])' = Online(user[q])
        BY <1>0, <2>1, <2>2, <3>1 DEF OnConn, Online
      <3> QED BY <1>1, <3>1, <3>2
    <2>4. CASE q = r /\ Start(r)
      BY <2>1, <2>2, <2>4, <1>2 DEF Start, SteadyInv, Types, InFlight
    <2>5. CASE q = r /\ IsOnline(r)
      <3>1. q \in steady /\ pc[q] = "online" /\ pc'[q] = "stamp"
        BY <1>2, <2>2, <2>5 DEF IsOnline, Types
      <3>2. Online(user[q])
        BY <3>1 DEF SteadyInv, InFlight
      <3>3. NoFault' => online'[q]
        <4>1. Fault("online") => faults'["online"] # 0
          BY DEF Fault, Types, FaultKinds
        <4> QED BY <2>2, <2>5, <3>2, <4>1 DEF IsOnline, NoFault, Types
      <3>4. Online(user[q])'
        BY <1>0, <2>1, <2>2, <3>2 DEF Online
      <3> QED BY <3>1, <3>3, <3>4
    <2>6. CASE q = r /\ (StampRow(r) \/ TakeId(r) \/ Commit(r))
      <3>1. /\ q \in steady /\ pc[q] \in {"stamp", "id", "commit"} /\ online' = online
            /\ pc'[q] \in {"id", "commit", "push", "done"}
            /\ pc'[q] = "done" => ~online[q]
        BY <1>2, <2>2, <2>6 DEF StampRow, TakeId, Commit, Types
      <3> QED BY <1>0, <2>1, <2>2, <3>1 DEF SteadyInv, InFlight
    <2>7. CASE q = r /\ InsertFails(r)
      BY <1>2, <2>2, <2>7 DEF InsertFails, SteadyInv, Types, InFlight
    <2>8. CASE q = r /\ PushUser(r)
      <3>1. q \in steady /\ pc[q] = "push" /\ pc'[q] = "write"
        BY <1>2, <2>2, <2>8 DEF PushUser, Types
      <3>2. Online(user[q])
        BY <3>1 DEF SteadyInv, InFlight
      <3>3. conn'[q] = sessions[user[q]]
        BY <2>2, <2>8, <3>2 DEF PushUser, Types
      <3>4. Online(user[q])' /\ OnConn(q)'
        BY <1>0, <2>1, <2>2, <3>2, <3>3 DEF OnConn, Online
      <3> QED BY <3>1, <3>4
    <2>w. CASE q = r /\ Write(r)
      <3>1. q \in steady /\ pc[q] = "write" /\ pc'[q] = "done" /\ conn' = conn
        BY <1>2, <2>2, <2>w DEF Write, Types
      <3>2. Fault("full") => faults'["full"] # 0
        BY DEF Fault, Types, FaultKinds
      <3>3. NoFault' => OnConn(q) /\ Queue(q)
        BY <1>0, <2>w, <3>1, <3>2 DEF Write, SteadyInv, NoFault
      <3>4. NoFault' => conn[q] # 0 /\ q \in queued'[user[q]]
        <4>1. OnConn(q) => conn[q] # 0
          BY <2>2 DEF OnConn, Online, Types
        <4>2. Queue(q) => q \in queued'[user[q]]
          BY <2>2 DEF Queue, Types
        <4> QED BY <3>3, <4>1, <4>2
      <3>5. NoFault' => InHand(q)'
        BY <1>0, <3>1, <3>4 DEF InHand
      <3> QED BY <3>1, <3>5 DEF InFlight
    <2>9. CASE q = r /\ PushFails(r)
      <3>1. Fault("push") => faults'["push"] # 0
        BY DEF Fault, Types, FaultKinds
      <3> QED BY <1>2, <2>2, <2>9, <3>1 DEF PushFails, NoFault, Types, InFlight
    <2> QED BY <1>2, <2>3, <2>4, <2>5, <2>6, <2>7, <2>8, <2>w, <2>9 DEF PushStep
  <1>3. ASSUME NEW u \in Users, ClientStep(u), NEW q \in steady' PROVE Kept(q)
    <2>1. pc' = pc /\ online' = online
      BY <1>3, ClientTypes
    <2>2. q \in steady /\ q \in Pushes /\ user[q] \in Users
      BY <1>0, <1>3 DEF ClientStep, Connect, Disconnect, Hear, ListPage, MarkRead, Types
    <2>3. Online(user[q]) /\ InFlight(q) => Online(user[q])'
      <3>1. CASE Disconnect(u)
        <4>1. user[q] # u \/ ~InFlight(q)
          BY <1>3, <3>1 DEF Disconnect
        <4>2. session' = [session EXCEPT ![u] = "off"]
          BY <3>1 DEF Disconnect
        <4> QED BY <1>0, <2>2, <4>1, <4>2 DEF Online, Types
      <3>2. CASE \E l \in {"listing", "listed"} : session' = [session EXCEPT ![u] = l]
        BY <1>0, <2>2, <3>2 DEF Online, Types
      <3>3. CASE session' = session
        BY <1>0, <2>2, <3>3 DEF Online
      <3>4. CASE ListPage(u)
        <4>1. session[u] = "listing"
          BY <3>4 DEF ListPage
        <4>2. session' = [session EXCEPT ![u] = IF NextCursor(Page(u, cursor[u])) = 0
                                                THEN "listed" ELSE @]
          BY <3>4 DEF ListPage
        <4> QED BY <3>2, <4>1, <4>2
      <3>5. ASSUME NEW ids, MarkRead(u, ids) PROVE session' = session
        BY <3>5 DEF MarkRead
      <3>6. CASE Connect(u)
        BY <3>2, <3>6 DEF Connect
      <3>7. CASE Hear(u)
        BY <3>3, <3>7 DEF Hear
      <3> QED BY <1>3, <3>1, <3>3, <3>4, <3>5, <3>6, <3>7 DEF ClientStep
    <2>4. pc'[q] = pc[q] /\ online'[q] = online[q]
      BY <2>1
    <2>5. OnConn(q) /\ InFlight(q) => OnConn(q)'
      <3>1. conn' = conn
        BY <1>3, ClientTypes
      <3>2. Online(user[q]) => sessions'[user[q]] = sessions[user[q]]
        <4>1. CASE Connect(u)
          <5>1. Online(user[q]) => user[q] # u
            BY <4>1 DEF Connect, Online
          <5> QED BY <2>2, <4>1, <5>1 DEF Connect, Types
        <4>2. CASE ~Connect(u)
          BY <1>3, <4>2 DEF ClientStep, Disconnect, Hear, ListPage, MarkRead
        <4> QED BY <4>1, <4>2
      <3> QED BY <1>0, <2>3, <3>1, <3>2 DEF OnConn
    <2> HIDE DEF Kept
    <2> QED BY <1>1, <2>2, <2>3, <2>4, <2>5
  <1>4. ASSUME UNCHANGED vars, NEW q \in steady' PROVE Kept(q)
    BY <1>1, <1>4 DEF vars, Online, OnConn
  <1>5. \A q \in steady' : Kept(q)
    BY <1>2, <1>3, <1>4 DEF Next, Idle
  <1> QED BY <1>0, <1>5 DEF SteadyInv

\* A notification pushed while its user is connected all the time is in his hand
\* when Push returns, unless a call to the live service failed or a buffer was full
\* (service.go 24-81).
THEOREM SteadyUsersSee == Spec => []SteadySees
  <1>1. Init => SteadyInv
    BY DEF Init, SteadyInv
  <1>2. Types /\ IdsInv /\ SteadyInv /\ [Next]_vars => (Types /\ IdsInv /\ SteadyInv)'
    BY TypesStep, SteadyStep
  <1>3. SteadyInv => SteadySees
    BY DEF SteadyInv, SteadySees, NoFault
  <1> QED BY <1>1, <1>2, <1>3, InitTypes, PTL DEF Spec

------------------------------------------------------------------------------
(* The walk through the pages *)

\* A row no longer changes, and what a client has yet to be given of its list is
\* older, by the order of the ids, than what it was given.
WalkInv ==
    /\ \A r \in rows : pc[r] \in {"push", "write", "done", "failed"}
    /\ \A u \in Users : due[u] \subseteq Mine(u)
    /\ \A u \in Users : IdsInOrder(u) =>
         /\ session[u] = "listed" => due[u] \subseteq got[u]
         /\ session[u] = "listing" /\ cursor[u] # 0 =>
              \A r \in due[u] : id[r] >= cursor[u] => r \in got[u]

\* A row that was committed stays as it is, and its Push is past the INSERT.
LEMMA RowsStay ==
  ASSUME Types, \A r \in rows : pc[r] \in {"push", "write", "done", "failed"}, [Next]_vars
  PROVE  /\ user' = user /\ rows \subseteq rows'
         /\ \A r \in rows : id'[r] = id[r] /\ at'[r] = at[r]
         /\ \A r \in rows' : pc'[r] \in {"push", "write", "done", "failed"}
  <1> USE DEF push, table, client, Goto
  <1>1. user' = user /\ rows \subseteq rows'
    BY UsersStay
  <1>2. ASSUME NEW r \in Pushes, PushStep(r)
        PROVE  /\ \A q \in rows : id'[q] = id[q] /\ at'[q] = at[q]
               /\ \A q \in rows' : pc'[q] \in {"push", "write", "done", "failed"}
    <2>1. \A q \in Pushes \ {r} : pc'[q] = pc[q] /\ id'[q] = id[q] /\ at'[q] = at[q]
      BY <1>2 DEF PushStep, Start, IsOnline, StampRow, TakeId, Commit, InsertFails, PushUser, Write,
         PushFails, Types
    <2>2. r \in rows => pc[r] \in {"push", "write"}
      BY <1>2 DEF PushStep, Start, IsOnline, StampRow, TakeId, Commit, InsertFails, PushUser, Write,
         PushFails
    <2>3. pc[r] \in {"push", "write"} =>
             pc'[r] \in {"write", "done"} /\ id' = id /\ at' = at /\ rows' = rows
      BY <1>2 DEF PushStep, Start, IsOnline, StampRow, TakeId, Commit, InsertFails, PushUser, Write,
         PushFails, Types
    <2>4. rows' \subseteq rows \cup {r}
      BY <1>2 DEF PushStep, Start, IsOnline, StampRow, TakeId, Commit, InsertFails, PushUser, Write,
         PushFails
    <2>5. r \in rows' /\ r \notin rows => pc'[r] \in {"push", "write", "done", "failed"}
      BY <1>2 DEF PushStep, Start, IsOnline, StampRow, TakeId, Commit, InsertFails, PushUser, Write,
         PushFails, Types
    <2> QED BY <2>1, <2>2, <2>3, <2>4, <2>5 DEF Types
  <1>3. ASSUME NEW u \in Users, ClientStep(u)
        PROVE  UNCHANGED <<pc, rows, id, at>>
    BY <1>3 DEF ClientStep, Connect, Disconnect, Hear, ListPage, MarkRead
  <1>4. CASE UNCHANGED vars
    BY <1>4 DEF vars
  <1> QED BY <1>1, <1>2, <1>3, <1>4 DEF Next, Idle

\* Rows of a user are added to, so that what is in order now was in order before.
LEMMA OrderWas ==
  ASSUME Types, \A r \in rows : pc[r] \in {"push", "write", "done", "failed"}, [Next]_vars,
         NEW u \in Users
  PROVE  /\ Mine(u) \subseteq Mine(u)'
         /\ IdsInOrder(u)' => IdsInOrder(u)
  <1>1. Mine(u) \subseteq Mine(u)'
    BY RowsStay DEF Mine
  <1>2. \A r \in Mine(u) : id'[r] = id[r] /\ at'[r] = at[r]
    BY RowsStay DEF Mine
  <1> QED BY <1>1, <1>2 DEF IdsInOrder

\* The first of a set of rows, in the order of the list.
LEMMA FirstItem ==
  ASSUME Types, IdsInv, NEW S, S \subseteq rows, S # {}
  PROVE  \E r \in S : \A q \in S : ~Before(q, r)
  <1>1. \A r \in S : at[r] \in 0..clock /\ id[r] \in 0..nextId - 1 /\ clock \in Nat /\ nextId \in Nat
    BY DEF Types
  <1> DEFINE Ages == {clock - at[r] : r \in S}
  <1>2. PICK t \in Ages : \A n \in Ages : t <= n
    <2>1. Ages \subseteq Nat /\ Ages # {}
      BY <1>1
    <2> HIDE DEF Ages
    <2> QED BY <2>1, LeastNat
  <1> DEFINE Back == {nextId - id[r] : r \in {q \in S : clock - at[q] = t}}
  <1>3. PICK i \in Back : \A n \in Back : i <= n
    <2>1. Back \subseteq Nat /\ Back # {}
      BY <1>1, <1>2
    <2> HIDE DEF Back
    <2> QED BY <2>1, LeastNat
  <1>4. PICK r \in S : clock - at[r] = t /\ nextId - id[r] = i
    BY <1>3
  <1>5. ASSUME NEW q \in S PROVE ~Before(q, r)
    <2>1. t <= clock - at[q] /\ (clock - at[q] = t => i <= nextId - id[q])
      BY <1>2, <1>3
    <2> QED BY <1>1, <1>4, <2>1 DEF Before
  <1> QED BY <1>5

\* The rows a page is taken from.
Match(u, c) == {r \in Mine(u) : c = 0 \/ id[r] < c}

\* A page is empty only at the end of the list, and where ids and stamps agree it
\* has all rows from its last item on.
LEMMA PageItems ==
  ASSUME Types, IdsInv, NEW u \in Users, NEW c
  PROVE  LET items == Page(u, c) IN
         /\ items \subseteq Match(u, c)
         /\ items = {} => Match(u, c) = {}
         /\ items # {} =>
              /\ NextCursor(items) # 0
              /\ IdsInOrder(u) => \A r \in Match(u, c) : id[r] >= NextCursor(items) => r \in items
  <1> DEFINE M == Match(u, c)
             items == Page(u, c)
             ahead(r) == {q \in M : Before(q, r)}
  <1>1. M \subseteq rows /\ rows \subseteq Pushes /\ IsFiniteSet(M)
    <2>1. M \subseteq rows /\ rows \subseteq Pushes
      BY DEF Match, Mine, Types
    <2> QED BY <2>1, PushesAssumption, FS_Subset
  <1>2. items = {r \in M : Cardinality(ahead(r)) < PageSize}
    BY DEF Page, Match
  <1>3. \A r : IsFiniteSet(ahead(r)) /\ Cardinality(ahead(r)) \in Nat
    BY <1>1, FS_Subset, FS_CardinalityType
  <1>4. PageSize \in Nat \ {0}
    BY NumbersAssumption
  <1>5. ASSUME items = {}, M # {} PROVE FALSE
    <2>1. PICK r \in M : \A q \in M : ~Before(q, r)
      BY <1>1, <1>5, FirstItem
    <2>2. ahead(r) = {}
      BY <2>1
    <2>3. Cardinality(ahead(r)) = 0
      BY <2>2, FS_EmptySet
    <2> QED BY <1>2, <1>4, <1>5, <2>3
  <1>6. ASSUME items # {}
        PROVE  /\ NextCursor(items) # 0
               /\ IdsInOrder(u) => \A r \in M : id[r] >= NextCursor(items) => r \in items
    <2> DEFINE last == CHOOSE r \in items : \A q \in items \ {r} : Before(q, r)
    <2>1. last \in items
      BY <1>1, <1>2, <1>6, LastItem
    <2>2. NextCursor(items) = id[last] /\ last \in rows /\ last \in M
      BY <1>1, <1>2, <1>6, <2>1 DEF NextCursor
    <2> HIDE DEF last
    <2>3. id[last] # 0
      BY <2>2 DEF IdsInv
    <2>4. ASSUME IdsInOrder(u), NEW r \in M, id[r] >= id[last] PROVE r \in items
      <3>1. CASE r = last
        BY <2>1, <3>1
      <3>2. CASE r # last
        <4>1. /\ id[r] # id[last] /\ at[last] <= at[r]
              /\ r \in Pushes /\ last \in Pushes
          <5>1. r \in rows /\ last \in rows /\ r \in Mine(u) /\ last \in Mine(u)
            BY <1>1, <2>2 DEF Match
          <5>2. r \in Pushes /\ last \in Pushes /\ id[last] # 0
            BY <1>1, <5>1, <2>3
          <5>3. id[r] # id[last]
            BY <3>2, <5>2 DEF IdsInv
          <5>4. id[r] \in Int /\ id[last] \in Int
            BY <5>2 DEF Types
          <5> QED BY <2>4, <5>1, <5>2, <5>3, <5>4 DEF IdsInOrder
        <4>2. \A q \in M : at[q] \in Nat /\ id[q] \in Nat
          BY <1>1 DEF Types
        <4>3. \A q \in M : Before(q, r) => Before(q, last)
          BY <2>2, <2>4, <4>1, <4>2 DEF Before
        <4>4. ahead(r) \subseteq ahead(last)
          BY <4>3
        <4>5. Cardinality(ahead(r)) <= Cardinality(ahead(last))
          BY <1>3, <4>4, FS_Subset
        <4>6. Cardinality(ahead(last)) < PageSize
          BY <1>2, <2>1
        <4> HIDE DEF M, ahead
        <4> QED BY <1>2, <1>3, <1>4, <2>4, <4>5, <4>6
      <3> QED BY <3>1, <3>2
    <2> QED BY <2>2, <2>3, <2>4
  <1>7. items \subseteq M
    BY <1>2
  <1> QED BY <1>5, <1>6, <1>7

LEMMA WalkStep ==
  ASSUME Types, IdsInv, WalkInv, [Next]_vars
  PROVE  WalkInv'
  <1>0. /\ user' = user /\ rows \subseteq rows'
        /\ \A r \in rows : id'[r] = id[r] /\ at'[r] = at[r]
        /\ \A r \in rows' : pc'[r] \in {"push", "write", "done", "failed"}
    BY RowsStay DEF WalkInv
  <1>1. \A u \in Users : Mine(u) \subseteq Mine(u)' /\ (IdsInOrder(u)' => IdsInOrder(u))
    BY OrderWas DEF WalkInv
  <1> DEFINE Walk(u) ==
        /\ due[u] \subseteq Mine(u)
        /\ IdsInOrder(u) =>
             /\ session[u] = "listed" => due[u] \subseteq got[u]
             /\ session[u] = "listing" /\ cursor[u] # 0 =>
                  \A r \in due[u] : id[r] >= cursor[u] => r \in got[u]
  <1>2. ASSUME NEW u \in Users, session'[u] = session[u], due'[u] = due[u], got'[u] = got[u],
               cursor'[u] = cursor[u]
        PROVE  Walk(u)'
    <2>1. due[u] \subseteq Mine(u) /\ Mine(u) \subseteq rows
      BY DEF WalkInv, Mine
    <2>2. \A r \in due[u] : id'[r] = id[r]
      BY <1>0, <2>1
    <2>3. Walk(u)
      BY DEF WalkInv
    <2> QED BY <1>1, <1>2, <2>1, <2>2, <2>3
  <1>3. ASSUME NEW u \in Users, Connect(u) PROVE \A v \in Users : Walk(v)'
    <2>1. \A v \in Users \ {u} : Walk(v)'
      BY <1>2, <1>3 DEF Connect, client, Types
    <2>2. /\ due'[u] = Mine(u) /\ session'[u] = "listing" /\ cursor'[u] = 0
      BY <1>3 DEF Connect, Types
    <2>3. Walk(u)'
      BY <1>1, <2>2
    <2> QED BY <2>1, <2>3
  <1>4. ASSUME NEW u \in Users, Disconnect(u) PROVE \A v \in Users : Walk(v)'
    <2>1. \A v \in Users \ {u} : Walk(v)'
      BY <1>2, <1>4 DEF Disconnect, client, Types
    <2>2. due'[u] = due[u] /\ session'[u] = "off"
      BY <1>4 DEF Disconnect, Types
    <2>3. Walk(u)'
      BY <1>1, <2>2 DEF WalkInv
    <2> QED BY <2>1, <2>3
  <1>5. ASSUME NEW u \in Users, ListPage(u) PROVE \A v \in Users : Walk(v)'
    <2> DEFINE c == cursor[u]
               items == Page(u, c)
    <2>1. \A v \in Users \ {u} : Walk(v)'
      BY <1>2, <1>5 DEF ListPage, client, Types
    <2>2. /\ due'[u] = due[u] /\ got'[u] = got[u] \cup items /\ cursor'[u] = NextCursor(items)
          /\ session[u] = "listing"
          /\ session'[u] = IF NextCursor(items) = 0 THEN "listed" ELSE "listing"
      BY <1>5 DEF ListPage, Types
    <2>3. rows' = rows /\ id' = id /\ Mine(u)' = Mine(u) /\ IdsInOrder(u)' = IdsInOrder(u)
      BY <1>0, <1>5 DEF ListPage, table, push, Mine, IdsInOrder
    <2>4. /\ items = {} => Match(u, c) = {}
          /\ items # {} =>
               /\ NextCursor(items) # 0
               /\ IdsInOrder(u) =>
                    \A r \in Match(u, c) : id[r] >= NextCursor(items) => r \in items
      BY PageItems
    <2>5. /\ due[u] \subseteq Mine(u)
          /\ IdsInOrder(u) /\ c # 0 => \A r \in due[u] : id[r] >= c => r \in got[u]
      BY <2>2 DEF WalkInv
    <2>6. \A r \in Mine(u) : r \in Match(u, c) \/ (c # 0 /\ id[r] >= c)
      <3>1. \A r \in Mine(u) : id[r] \in Int /\ c \in Int
        BY DEF Mine, Types
      <3> QED BY <3>1 DEF Match
    <2> HIDE DEF items
    <2>7. CASE items = {}
      <3>1. NextCursor(items) = 0
        BY <2>7 DEF NextCursor
      <3>2. IdsInOrder(u) => due[u] \subseteq got[u]
        BY <2>4, <2>5, <2>6, <2>7
      <3> QED BY <2>1, <2>2, <2>3, <2>5, <3>1, <3>2
    <2>8. CASE items # {}
      <3>1. IdsInOrder(u) =>
              \A r \in due[u] : id[r] >= NextCursor(items) => r \in got[u] \cup items
        BY <2>4, <2>5, <2>6, <2>8
      <3> QED BY <2>1, <2>2, <2>3, <2>4, <2>5, <2>8, <3>1
    <2> QED BY <2>7, <2>8
  <1>6. ASSUME UNCHANGED client PROVE \A v \in Users : Walk(v)'
    BY <1>2, <1>6 DEF client
  <1>7. ASSUME NEW r \in Pushes, PushStep(r) PROVE UNCHANGED client
    BY <1>7 DEF PushStep, Start, IsOnline, StampRow, TakeId, Commit, InsertFails, PushUser, Write,
       PushFails, client, table, push
  <1>8. ASSUME NEW u \in Users, NEW ids, MarkRead(u, ids) PROVE UNCHANGED client
    BY <1>8 DEF MarkRead
  <1>9. ASSUME UNCHANGED vars PROVE UNCHANGED client
    BY <1>9 DEF vars
  <1>h. ASSUME NEW u \in Users, Hear(u) PROVE UNCHANGED client
    BY <1>h DEF Hear
  <1> HIDE DEF Walk
  <1>10. \A v \in Users : Walk(v)'
    BY <1>3, <1>4, <1>5, <1>6, <1>7, <1>8, <1>9, <1>h DEF Next, ClientStep, Idle
  <1> QED BY <1>0, <1>10 DEF Walk, WalkInv

\* A client that pages to the end gets every notification stored when it began,
\* whatever its page size and whatever is stored meanwhile, as long as ids and stamps
\* agree (store.go 36-68).
THEOREM WalksEnd == Spec => []WalkComplete
  <1>1. Init => WalkInv
    BY DEF Init, WalkInv, Mine
  <1>2. Types /\ IdsInv /\ WalkInv /\ [Next]_vars => (Types /\ IdsInv /\ WalkInv)'
    BY TypesStep, WalkStep
  <1>3. WalkInv => WalkComplete
    BY DEF WalkInv, WalkComplete
  <1> QED BY <1>1, <1>2, <1>3, InitTypes, PTL DEF Spec
=============================================================================
