------------------------------- MODULE Notify -------------------------------
(***************************************************************************)
(* The notify service: Push stores a notification and hands it to the live   *)
(* service if the user was online, ListNotifications pages through the       *)
(* history, MarkRead marks it (services/notify/service.go and store.go).     *)
(*                                                                           *)
(* An INSERT takes created_at when its statement starts, its id from the     *)
(* sequence while it runs, and is visible when it commits: concurrent        *)
(* INSERTs may do these in different orders.  The live service is abstracted *)
(* to whether the user has a bound connection; Comet models it.  A client    *)
(* that connects lists its history page by page, passing next_cursor on      *)
(* until it is 0.  A frame is queued on a connection, and lost if that ends    *)
(* before the client has read it.                                            *)
(***************************************************************************)
EXTENDS Integers, FiniteSets, FiniteSetsExt

CONSTANTS
    Users,          \* user ids
    Pushes,         \* Push requests, each at most once
    PageSize,       \* page_size of the clients
    MaxConnects,    \* how often clients connect, all users together
    MaxFaults       \* how often each kind of fault may strike

FaultKinds == {"online", "insert", "push", "full"}

ASSUME UsersAssumption == IsFiniteSet(Users) /\ Users # {}
ASSUME PushesAssumption == IsFiniteSet(Pushes)
ASSUME NumbersAssumption == PageSize \in 1..50 /\ MaxConnects \in Nat
ASSUME FaultsAssumption == MaxFaults \in [FaultKinds -> Nat]

VARIABLES
    pc,             \* the next step of a Push
    user,           \* its user_id
    online,         \* the answer it got from IsOnline
    conn,           \* the connection PushUser found: its user's n-th, 0 for none
    delivered,      \* delivered_ws of its answer
    clock,          \* the database's clock
    nextId,         \* the id sequence
    at,             \* created_at
    id,             \* id of the row
    rows,           \* pushes whose row is committed
    readBy,         \* users whose MarkRead set read_at
    session,        \* a client: off, listing its history, or listed
    sessions,       \* how often it connected
    cursor,         \* the cursor of its next page
    got,            \* what the pages of this session returned
    due,            \* history: its rows when the listing began
    queued,         \* frames on their way to the client over its connection
    seen,           \* what the client has ever received or listed
    steady,         \* history: pushes during all of which the user was online
    faults          \* how often each fault has struck

push == <<pc, user, online, conn, delivered>>
table == <<clock, nextId, at, id, rows, readBy>>
client == <<session, sessions, cursor, got, due>>
vars == <<push, table, client, queued, seen, steady, faults>>

Online(u) == session[u] # "off"

InFlight(r) == pc[r] \notin {"idle", "done", "failed"}

Goto(r, l) == pc' = [pc EXCEPT ![r] = l]

Fault(k) ==
    /\ faults[k] < MaxFaults[k]
    /\ faults' = [faults EXCEPT ![k] = @ + 1]

Init ==
    /\ pc = [r \in Pushes |-> "idle"]
    /\ user \in [Pushes -> Users]
    /\ online = [r \in Pushes |-> FALSE]
    /\ conn = [r \in Pushes |-> 0]
    /\ delivered = [r \in Pushes |-> FALSE]
    /\ clock = 0 /\ nextId = 1
    /\ at = [r \in Pushes |-> 0]
    /\ id = [r \in Pushes |-> 0]
    /\ rows = {}
    /\ readBy = [r \in Pushes |-> {}]
    /\ session = [u \in Users |-> "off"]
    /\ sessions = [u \in Users |-> 0]
    /\ cursor = [u \in Users |-> 0]
    /\ got = [u \in Users |-> {}]
    /\ due = [u \in Users |-> {}]
    /\ queued = [u \in Users |-> {}]
    /\ seen = [u \in Users |-> {}]
    /\ steady = {}
    /\ faults = [k \in FaultKinds |-> 0]

------------------------------------------------------------------------------
(* Push *)

Start(r) ==
    /\ pc[r] = "idle"
    /\ Goto(r, "online")
    /\ steady' = IF Online(user[r]) THEN steady \cup {r} ELSE steady
    /\ UNCHANGED <<user, online, conn, delivered, table, client, queued, seen, faults>>

\* An error counts as offline.
IsOnline(r) ==
    /\ pc[r] = "online"
    /\ \/ online' = [online EXCEPT ![r] = Online(user[r])] /\ UNCHANGED faults
       \/ Fault("online") /\ UNCHANGED online
    /\ Goto(r, "stamp")
    /\ UNCHANGED <<user, conn, delivered, table, client, queued, seen, steady>>

StampRow(r) ==
    /\ pc[r] = "stamp"
    /\ clock' = clock + 1
    /\ at' = [at EXCEPT ![r] = clock']
    /\ Goto(r, "id")
    /\ UNCHANGED <<user, online, conn, delivered, nextId, id, rows, readBy, client,
                   queued, seen, steady, faults>>

\* Mutant: the id is max(id) + 1 of the rows there are.
IdOfRows(r) ==
    /\ pc[r] = "id"
    /\ id' = [id EXCEPT ![r] = Cardinality(rows) + 1]
    /\ nextId' = nextId + 1
    /\ Goto(r, "commit")
    /\ UNCHANGED <<user, online, conn, delivered, clock, at, rows, readBy, client,
                   queued, seen, steady, faults>>

TakeId(r) ==
    /\ pc[r] = "id"
    /\ id' = [id EXCEPT ![r] = nextId]
    /\ nextId' = nextId + 1
    /\ Goto(r, "commit")
    /\ UNCHANGED <<user, online, conn, delivered, clock, at, rows, readBy, client,
                   queued, seen, steady, faults>>

\* Mutant: whoever is online, the notification waits to be listed.
OnlineIgnored(r) ==
    /\ pc[r] = "commit"
    /\ rows' = rows \cup {r}
    /\ Goto(r, "done")
    /\ UNCHANGED <<user, online, conn, delivered, clock, nextId, at, id, readBy,
                   client, queued, seen, steady, faults>>

\* Mutant: the row is written after the push.
CommitLater(r) ==
    /\ pc[r] = "commit"
    /\ Goto(r, IF online[r] THEN "push" ELSE "done")
    /\ UNCHANGED <<user, online, conn, delivered, table, client, queued, seen, steady, faults>>

\* Offline: the notification waits for the client to list it.
Commit(r) ==
    /\ pc[r] = "commit"
    /\ rows' = rows \cup {r}
    /\ Goto(r, IF online[r] THEN "push" ELSE "done")
    /\ UNCHANGED <<user, online, conn, delivered, clock, nextId, at, id, readBy,
                   client, queued, seen, steady, faults>>

\* The statement fails, or commits and its answer is lost.
InsertFails(r) ==
    /\ pc[r] \in {"stamp", "id", "commit"}
    /\ Fault("insert")
    /\ \/ UNCHANGED rows
       \/ pc[r] = "commit" /\ rows' = rows \cup {r}
    /\ Goto(r, "failed")
    /\ UNCHANGED <<user, online, conn, delivered, clock, nextId, at, id, readBy, client,
                   queued, seen, steady>>

\* The connection r found is still the one its user has.
OnConn(r) == Online(user[r]) /\ conn[r] = sessions[user[r]]

Queue(r) == queued' = [queued EXCEPT ![user[r]] = @ \cup {r}]

\* PushUser takes the connections of the user's room and lets go of the lock.
PushUser(r) ==
    /\ pc[r] = "push"
    /\ conn' = [conn EXCEPT ![r] = IF Online(user[r]) THEN sessions[user[r]] ELSE 0]
    /\ Goto(r, "write")
    /\ UNCHANGED <<user, online, delivered, table, client, queued, seen, steady, faults>>

\* Mutant: every connection found counts, whatever Write answers.
WriteUnchecked(r) ==
    /\ pc[r] = "write"
    /\ delivered' = [delivered EXCEPT ![r] = conn[r] # 0]
    /\ \/ (IF OnConn(r) THEN Queue(r) ELSE UNCHANGED queued) /\ UNCHANGED faults
       \/ OnConn(r) /\ Fault("full") /\ UNCHANGED queued
    /\ Goto(r, "done")
    /\ UNCHANGED <<user, online, conn, table, client, seen, steady>>

\* Conn.Write: a frame that finds room on the channel counts as delivered, also when
\* the connection closed after Write had looked: then nobody will send it.
Write(r) ==
    /\ pc[r] = "write"
    /\ \/ /\ OnConn(r)
          /\ Queue(r)
          /\ delivered' = [delivered EXCEPT ![r] = TRUE]
          /\ UNCHANGED faults
       \/ OnConn(r) /\ Fault("full") /\ UNCHANGED <<queued, delivered>>
       \/ ~OnConn(r) /\ UNCHANGED <<queued, delivered, faults>>
       \/ /\ ~OnConn(r) /\ conn[r] # 0
          /\ delivered' = [delivered EXCEPT ![r] = TRUE]
          /\ UNCHANGED <<queued, faults>>
    /\ Goto(r, "done")
    /\ UNCHANGED <<user, online, conn, table, client, seen, steady>>

\* The call fails on its way, or its answer is lost when the frame may be queued.
PushFails(r) ==
    /\ pc[r] \in {"push", "write"}
    /\ Fault("push")
    /\ \/ UNCHANGED queued
       \/ pc[r] = "write" /\ OnConn(r) /\ Queue(r)
    /\ Goto(r, "done")
    /\ UNCHANGED <<user, online, conn, delivered, table, client, seen, steady>>

------------------------------------------------------------------------------
(* The clients: connections, ListNotifications and MarkRead *)

Mine(u) == {r \in rows : user[r] = u}

Connect(u) ==
    /\ session[u] = "off"
    /\ MapThenSumSet(LAMBDA v : sessions[v], Users) < MaxConnects
    /\ session' = [session EXCEPT ![u] = "listing"]
    /\ sessions' = [sessions EXCEPT ![u] = @ + 1]
    /\ cursor' = [cursor EXCEPT ![u] = 0]
    /\ got' = [got EXCEPT ![u] = {}]
    /\ due' = [due EXCEPT ![u] = Mine(u)]
    /\ UNCHANGED <<push, table, queued, seen, steady, faults>>

\* What is still on its way is lost with the connection.
Disconnect(u) ==
    /\ session[u] # "off"
    /\ session' = [session EXCEPT ![u] = "off"]
    /\ queued' = [queued EXCEPT ![u] = {}]
    /\ steady' = {r \in steady : ~(user[r] = u /\ InFlight(r))}
    /\ UNCHANGED <<push, table, sessions, cursor, got, due, seen, faults>>

\* WritePump sends a frame and the client reads it.
Hear(u) ==
    /\ \E r \in queued[u] :
         /\ queued' = [queued EXCEPT ![u] = @ \ {r}]
         /\ seen' = [seen EXCEPT ![u] = @ \cup {r}]
    /\ UNCHANGED <<push, table, client, steady, faults>>

\* ORDER BY created_at DESC, id DESC.
Before(q, r) == at[q] > at[r] \/ (at[q] = at[r] /\ id[q] > id[r])

\* WHERE user_id = u AND (c = 0 OR id < c) ... LIMIT PageSize.
Page(u, c) ==
    LET match == {r \in Mine(u) : c = 0 \/ id[r] < c}
    IN  {r \in match : Cardinality({q \in match : Before(q, r)}) < PageSize}

\* Mutant: the cursor is the id of the first item past the page.
CursorPastPage(items) ==
    IF items = {} THEN 0
    ELSE id[CHOOSE r \in items : \A q \in items \ {r} : Before(q, r)] - 1

\* next_cursor: the id of the last item, 0 for an empty page.
NextCursor(items) ==
    IF items = {} THEN 0
    ELSE id[CHOOSE r \in items : \A q \in items \ {r} : Before(q, r)]

ListPage(u) ==
    /\ session[u] = "listing"
    /\ LET items == Page(u, cursor[u]) IN
         /\ got' = [got EXCEPT ![u] = @ \cup items]
         /\ seen' = [seen EXCEPT ![u] = @ \cup items]
         /\ cursor' = [cursor EXCEPT ![u] = NextCursor(items)]
         /\ session' = [session EXCEPT ![u] = IF NextCursor(items) = 0 THEN "listed" ELSE @]
    /\ UNCHANGED <<push, table, sessions, due, queued, steady, faults>>

\* UPDATE ... WHERE user_id = u AND read_at IS NULL, for the ids asked for.
Marked(u, ids) == {r \in Mine(u) : id[r] \in ids /\ readBy[r] = {}}

\* One id, whoever it belongs to, or "all".
MarkRead(u, ids) ==
    /\ Marked(u, ids) # {}
    /\ readBy' = [r \in Pushes |-> IF r \in Marked(u, ids) THEN {u} ELSE readBy[r]]
    /\ UNCHANGED <<push, clock, nextId, at, id, rows, client, queued, seen, steady, faults>>

------------------------------------------------------------------------------
PushStep(r) ==
    \/ Start(r) \/ IsOnline(r)
    \/ StampRow(r) \/ TakeId(r) \/ Commit(r) \/ InsertFails(r)
    \/ PushUser(r) \/ Write(r) \/ PushFails(r)

ClientStep(u) ==
    \/ Connect(u) \/ Disconnect(u) \/ Hear(u) \/ ListPage(u)
    \/ \E r \in Pushes : MarkRead(u, {id[r]})
    \/ MarkRead(u, {id[r] : r \in Pushes})

Idle ==
    /\ \A r \in Pushes : pc[r] \in {"done", "failed"}
    /\ UNCHANGED vars

Next ==
    \/ \E r \in Pushes : PushStep(r)
    \/ \E u \in Users : ClientStep(u)
    \/ Idle

Spec == Init /\ [][Next]_vars

------------------------------------------------------------------------------
(* Properties *)

\* Values keep their types, and rows have distinct ids.
TypeOK ==
    /\ pc \in [Pushes -> {"idle", "online", "stamp", "id", "commit", "push",
                          "write", "done", "failed"}]
    /\ user \in [Pushes -> Users]
    /\ online \in [Pushes -> BOOLEAN] /\ delivered \in [Pushes -> BOOLEAN]
    /\ clock \in Nat /\ nextId \in Nat \ {0}
    /\ at \in [Pushes -> 0..clock] /\ id \in [Pushes -> 0..nextId - 1]
    /\ rows \subseteq Pushes /\ steady \subseteq Pushes
    /\ readBy \in [Pushes -> SUBSET Users]
    /\ session \in [Users -> {"off", "listing", "listed"}]
    /\ sessions \in [Users -> Nat]
    /\ cursor \in [Users -> 0..nextId]
    /\ got \in [Users -> SUBSET Pushes] /\ due \in [Users -> SUBSET Pushes]
    /\ queued \in [Users -> SUBSET Pushes] /\ seen \in [Users -> SUBSET Pushes]
    /\ \A r \in Pushes : conn[r] \in 0..sessions[user[r]]
    /\ faults \in [FaultKinds -> Nat]
    /\ \A q, r \in rows : q # r => id[q] # id[r]

\* A client that walks the pages to the end has got every notification that was
\* stored when it began, while new ones are stored and others are marked
\* (store.go 36-68).  The order is by created_at, the cursor is an id: that no row
\* is skipped takes that the two agree, which concurrent INSERTs may prevent.
IdsInOrder(u) == \A q, r \in Mine(u) : id[q] < id[r] => at[q] <= at[r]

WalkComplete ==
    \A u \in Users :
      session[u] = "listed" /\ IdsInOrder(u) => due[u] \subseteq got[u]

\* The frame of r was queued on a connection, and as long as its user has that
\* connection the client has received it or it is on its way.
InHand(r) ==
    conn[r] # 0 /\ (OnConn(r) => r \in queued[user[r]] \cup seen[user[r]])

\* A notification pushed while its user is connected all the time is in his hand when
\* Push returns (service.go 31-74), as long as no call to the live service failed and
\* no buffer was full.
SteadySees ==
    (\A k \in {"online", "push", "full"} : faults[k] = 0)
      => \A r \in steady : pc[r] = "done" => InHand(r)

\* delivered_ws is TRUE only for a notification that the client finds in its history
\* and can mark (service.go:41 before :67), and whose frame is lost to the client only
\* with the connection it was queued on (conn_manager.go 90-96, ws/conn.go 64-78).
DeliveredIsStored ==
    \A r \in Pushes : delivered[r] => r \in rows /\ InHand(r)
=============================================================================
