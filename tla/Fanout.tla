------------------------------- MODULE Fanout -------------------------------
(***************************************************************************)
(* How a new post reaches the inboxes of the author's followers: PostFeed    *)
(* of services/feed/service.go announces it on the Kafka topic post.created  *)
(* (pkg/events/kafka.go), and the workers (workers/common/consumer.py,       *)
(* workers/handlers/fanout.py) push it to inbox:<follower> in Redis.         *)
(*                                                                           *)
(* The writer spreads events over the partitions by load (LeastBytes), so    *)
(* the workers of the consumer group see them in any order; kafka-python     *)
(* commits the offsets of what was handled from time to time, so what is not *)
(* committed is delivered again after a crash or a rebalance.  In a worker   *)
(* process the consumer thread and the ranking cron share one database       *)
(* connection, which is never rolled back: after a failed statement it       *)
(* refuses every later one.                                                  *)
(***************************************************************************)
EXTENDS Integers, FiniteSets

CONSTANTS
    Users,          \* user ids
    Posts,          \* post ids; only their order as strings matters
    Workers,        \* worker processes of the consumer group
    Keep,           \* posts an inbox keeps (1000 in the code)
    Threshold,      \* FANOUT_THRESHOLD
    MaxTime,        \* bound on the clock
    MaxFollows,     \* bound on Follow and Unfollow calls
    MaxFaults,      \* how often each kind of fault may strike
    None            \* no user, no post, no worker

FaultKinds == {"dispatch", "query", "redis", "crash", "redeliver"}

ASSUME UsersAssumption == IsFiniteSet(Users) /\ None \notin Users
ASSUME PostsAssumption == Posts \subseteq Nat /\ IsFiniteSet(Posts)
ASSUME WorkersAssumption == None \notin Workers /\ None \notin Posts
ASSUME NumbersAssumption ==
    /\ {Keep, Threshold} \subseteq Nat \ {0}
    /\ {MaxTime, MaxFollows} \subseteq Nat
ASSUME FaultsAssumption == MaxFaults \in [FaultKinds -> Nat]

VARIABLES
    now,            \* the database's clock, in the seconds of the events
    follows,        \* "user".follows: pairs <<follower, followed>>
    author,         \* posts.author_id, None for a post that does not exist
    stamp,          \* posts.created_at
    posting,        \* the PostFeed request of a post
    log,            \* posts announced on post.created
    pending,        \* announced, and offset not committed
    owner,          \* the worker a pending event was last given to
    pc,             \* the next step of a worker's consumer thread
    job,            \* the post it is handling
    fans,           \* the followers it read
    poisoned,       \* its database connection is in a failed transaction
    inbox,          \* inbox:<user>
    outbox,         \* outbox:<user>
    fanned,         \* history: the posts ever added to inbox:<user>
    owed,           \* history: who follows the author since before the post
    changes,        \* Follow and Unfollow calls so far
    faults          \* how often each fault has struck

posts == <<author, stamp, posting>>
events == <<log, pending, owner>>
worker == <<pc, job, fans, poisoned>>
boxes == <<inbox, outbox, fanned>>
vars == <<now, follows, posts, events, worker, boxes, owed, changes, faults>>

PCs == {"idle", "start", "push", "tell"}

\* PostFeed sends 0 for the number of followers.
EventFollowers == 0

Followers(v) == {u \in Users : <<u, v>> \in follows}

\* Order of an inbox: by score, then by member.
Newer(p, q) == stamp[p] > stamp[q] \/ (stamp[p] = stamp[q] /\ p > q)

\* ZREMRANGEBYRANK inbox 0 -(Keep + 1) leaves the Keep highest ranks.
Newest(S) == {p \in S : Cardinality({q \in S : Newer(q, p)}) < Keep}

\* Mutant: the inbox is trimmed before the new post is added.
TrimThenAdd(S, p) == Newest(S) \cup {p}

\* The pipeline's commands for one follower: ZADD, then the trim.
AddToInbox(S, p) == Newest(S \cup {p})

Fault(k) ==
    /\ faults[k] < MaxFaults[k]
    /\ faults' = [faults EXCEPT ![k] = @ + 1]

Init ==
    /\ now = 0
    /\ follows \in SUBSET (Users \X Users)
    /\ author = [p \in Posts |-> None]
    /\ stamp = [p \in Posts |-> 0]
    /\ posting = [p \in Posts |-> "new"]
    /\ log = {} /\ pending = {}
    /\ owner = [p \in Posts |-> None]
    /\ pc = [w \in Workers |-> "idle"]
    /\ job = [w \in Workers |-> None]
    /\ fans = [w \in Workers |-> {}]
    /\ poisoned = [w \in Workers |-> FALSE]
    /\ inbox = [u \in Users |-> {}]
    /\ outbox = [u \in Users |-> {}]
    /\ fanned = [u \in Users |-> {}]
    /\ owed = [p \in Posts |-> {}]
    /\ changes = 0
    /\ faults = [k \in FaultKinds |-> 0]

------------------------------------------------------------------------------
(* Users: the clock, the follow graph, and PostFeed *)

Tick ==
    /\ now < MaxTime
    /\ now' = now + 1
    /\ UNCHANGED <<follows, posts, events, worker, boxes, owed, changes, faults>>

Changed ==
    /\ changes < MaxFollows
    /\ changes' = changes + 1
    /\ UNCHANGED <<now, posts, events, worker, boxes, faults>>

Follow(u, v) ==
    /\ Changed
    /\ follows' = follows \cup {<<u, v>>}
    /\ UNCHANGED owed

Unfollow(u, v) ==
    /\ Changed
    /\ follows' = follows \ {<<u, v>>}
    /\ owed' = [p \in Posts |-> IF author[p] = v THEN owed[p] \ {u} ELSE owed[p]]

\* The row gets its created_at from the database.
PostFeed(p, u) ==
    /\ posting[p] = "new"
    /\ posting' = [posting EXCEPT ![p] = "created"]
    /\ author' = [author EXCEPT ![p] = u]
    /\ stamp' = [stamp EXCEPT ![p] = now]
    /\ owed' = [owed EXCEPT ![p] = Followers(u)]
    /\ UNCHANGED <<now, follows, events, worker, boxes, changes, faults>>

\* Mutant: the post is announced and answered for before its row is inserted.
AnswerFirst(p) ==
    /\ posting[p] = "new"
    /\ posting' = [posting EXCEPT ![p] = "answered"]
    /\ UNCHANGED <<now, follows, author, stamp, owner, worker, boxes, owed, changes>>

Answer(p) ==
    /\ posting[p] = "created"
    /\ posting' = [posting EXCEPT ![p] = "answered"]
    /\ UNCHANGED <<now, follows, author, stamp, owner, worker, boxes, owed, changes>>

Dispatch(p) ==
    /\ Answer(p)
    /\ log' = log \cup {p}
    /\ pending' = pending \cup {p}
    /\ UNCHANGED faults

\* The write fails or takes more than two seconds; the error is only logged.
DispatchFails(p) ==
    /\ Answer(p)
    /\ Fault("dispatch")
    /\ UNCHANGED <<log, pending>>

------------------------------------------------------------------------------
(* The consumer thread of a worker *)

\* A leaf of the consumer loop: nothing but the worker and the boxes changes.
Working ==
    UNCHANGED <<now, follows, posts, events, owed, changes>>

Goto(w, l) == pc' = [pc EXCEPT ![w] = l]

\* The handler returned or raised: the loop takes the next message either way.
Finish(w) == Goto(w, "idle") /\ UNCHANGED <<job, fans>>

Take(w, p) ==
    /\ pc[w] = "idle"
    /\ p \in pending /\ owner[p] = None
    /\ owner' = [owner EXCEPT ![p] = w]
    /\ job' = [job EXCEPT ![w] = p]
    /\ Goto(w, "start")
    /\ UNCHANGED <<now, follows, posts, log, pending, fans, poisoned, boxes,
                   owed, changes, faults>>

ToOutbox(w) ==
    /\ outbox' = [outbox EXCEPT ![author[job[w]]] = @ \cup {job[w]}]
    /\ Finish(w)

ReadFans(w) ==
    /\ ~poisoned[w]
    /\ fans' = [fans EXCEPT ![w] = Followers(author[job[w]])]
    /\ Goto(w, IF fans'[w] = {} THEN "idle" ELSE "push")
    /\ UNCHANGED <<job, outbox>>

Handle(w) ==
    /\ pc[w] = "start"
    /\ IF EventFollowers >= Threshold THEN ToOutbox(w) ELSE ReadFans(w)
    /\ Working /\ UNCHANGED <<poisoned, inbox, fanned, faults>>

\* A statement fails, or the connection refuses it; the handler raises.
QueryFails(w) ==
    /\ pc[w] = "start"
    /\ EventFollowers < Threshold
    /\ \/ poisoned[w] /\ UNCHANGED faults
       \/ ~poisoned[w] /\ Fault("query")
    /\ poisoned' = [poisoned EXCEPT ![w] = TRUE]
    /\ Finish(w)
    /\ Working /\ UNCHANGED boxes

\* redis-py runs the pipeline as one MULTI/EXEC.
PushInboxes(w) ==
    /\ pc[w] = "push"
    /\ inbox' = [u \in Users |-> IF u \in fans[w] THEN AddToInbox(inbox[u], job[w])
                                                  ELSE inbox[u]]
    /\ fanned' = [u \in Users |-> IF u \in fans[w] THEN fanned[u] \cup {job[w]}
                                                   ELSE fanned[u]]
    /\ Goto(w, "tell")
    /\ Working /\ UNCHANGED <<job, fans, poisoned, outbox, faults>>

PushFails(w) ==
    /\ pc[w] = "push"
    /\ Fault("redis")
    /\ Finish(w)
    /\ Working /\ UNCHANGED <<poisoned, boxes>>

\* notify.Push: whatever it answers or raises, the handler returns.
Tell(w) ==
    /\ pc[w] = "tell"
    /\ Finish(w)
    /\ Working /\ UNCHANGED <<poisoned, boxes, faults>>

\* Mutant: the offset is committed when the message is taken.
CommittedEarly(w, p) == owner[p] = w

\* Auto-commit runs when the consumer polls: a message in hand is not committed.
Committable(w, p) == owner[p] = w /\ ~(pc[w] # "idle" /\ job[w] = p)

Commit(w, p) ==
    /\ p \in pending
    /\ Committable(w, p)
    /\ pending' = pending \ {p}
    /\ UNCHANGED <<now, follows, posts, log, owner, worker, boxes, owed, changes, faults>>

------------------------------------------------------------------------------
(* What goes wrong around a worker *)

\* The group gives the partition to another member, or twice to the same.
Redeliver(p) ==
    /\ p \in pending /\ owner[p] # None
    /\ Fault("redeliver")
    /\ owner' = [owner EXCEPT ![p] = None]
    /\ UNCHANGED <<now, follows, posts, log, pending, worker, boxes, owed, changes>>

\* The process ends and starts again, with a new connection.
Crash(w) ==
    /\ Fault("crash")
    /\ Goto(w, "idle")
    /\ poisoned' = [poisoned EXCEPT ![w] = FALSE]
    /\ owner' = [p \in Posts |-> IF p \in pending /\ owner[p] = w THEN None ELSE owner[p]]
    /\ UNCHANGED <<now, follows, posts, log, pending, job, fans, boxes, owed, changes>>

\* The first statement of the ranking cron fails in the shared transaction.
RankingFails(w) ==
    /\ Fault("query")
    /\ poisoned' = [poisoned EXCEPT ![w] = TRUE]
    /\ Working /\ UNCHANGED <<pc, job, fans, boxes>>

------------------------------------------------------------------------------
Consume(w) ==
    \/ \E p \in Posts : Take(w, p)
    \/ Handle(w) \/ QueryFails(w)
    \/ PushInboxes(w) \/ PushFails(w)
    \/ Tell(w)

\* Every post was handled: the workers wait for the next one.
Idle ==
    /\ \A p \in Posts : posting[p] = "answered"
    /\ pending = {}
    /\ \A w \in Workers : pc[w] = "idle"
    /\ UNCHANGED vars

Next ==
    \/ Tick
    \/ \E u, v \in Users : Follow(u, v) \/ Unfollow(u, v)
    \/ \E p \in Posts :
         \/ \E u \in Users : PostFeed(p, u)
         \/ Dispatch(p) \/ DispatchFails(p)
         \/ Redeliver(p)
    \/ \E w \in Workers :
         \/ Consume(w)
         \/ \E p \in Posts : Commit(w, p)
         \/ Crash(w) \/ RankingFails(w)
    \/ Idle

\* A consumer thread keeps running: threads are scheduled and calls return.
Spec == Init /\ [][Next]_vars /\ \A w \in Workers : WF_vars(Consume(w))

------------------------------------------------------------------------------
(* Properties *)

\* No statement and no pipeline has failed, which the workers do not survive.
NothingFailed == faults["query"] = 0 /\ faults["redis"] = 0

\* What all this is to the authors and readers of posts: log, pending, fanned and
\* inbox are all they can tell of it.
Promise ==
    INSTANCE Inboxes WITH
        Times <- 0..MaxTime,
        announced <- log, waiting <- pending,
        pushed <- fanned, box <- inbox, failed <- ~NothingFailed

\* The topic, the consumers with their offsets, crashes, redeliveries and Redis
\* implement what module Inboxes promises of every announced post.
KeepsPromise == Promise!Spec

\* Values keep their types, and a worker in a handler has a post in hand that
\* was announced.
TypeOK ==
    /\ now \in 0..MaxTime /\ changes \in 0..MaxFollows
    /\ follows \subseteq Users \X Users
    /\ author \in [Posts -> Users \cup {None}]
    /\ stamp \in [Posts -> 0..MaxTime]
    /\ posting \in [Posts -> {"new", "created", "answered"}]
    /\ pending \subseteq log /\ log \subseteq Posts
    /\ owner \in [Posts -> Workers \cup {None}]
    /\ pc \in [Workers -> PCs]
    /\ job \in [Workers -> Posts \cup {None}]
    /\ fans \in [Workers -> SUBSET Users]
    /\ poisoned \in [Workers -> BOOLEAN]
    /\ inbox \in [Users -> SUBSET Posts]
    /\ outbox \in [Users -> SUBSET Posts]
    /\ fanned \in [Users -> SUBSET Posts]
    /\ owed \in [Posts -> SUBSET Users]
    /\ faults \in [FaultKinds -> Nat]
    /\ \A p \in Posts : author[p] = None <=> posting[p] = "new"
    /\ \A p \in log : posting[p] = "answered"
    /\ \A w \in Workers : pc[w] # "idle" => job[w] \in log

\* Whatever order the events arrive in, and however often each is handled, an
\* inbox holds the Keep newest of all the posts ever pushed to it (fanout.py:32,
\* "keep latest 1000"): it is never over full, and what was dropped is older
\* than what is kept.
InboxIsNewest ==
    \A u \in Users :
      /\ inbox[u] \subseteq fanned[u]
      /\ Cardinality(inbox[u]) <= Keep
      /\ \A p \in fanned[u] \ inbox[u] :
           /\ Cardinality(inbox[u]) = Keep
           /\ \A q \in inbox[u] : Newer(q, p)

\* As long as no statement and no pipeline has failed, an event whose offset is
\* committed has been pushed to everybody who follows the author since before the
\* post: crashes, rebalances and events out of order lose nothing, because a
\* message is committed only after its handler returned (consumer.py 104-112).
Reached(p) == \A u \in owed[p] : p \in fanned[u]

CommittedReached == NothingFailed => \A p \in log \ pending : Reached(p)

\* Who follows the author when an announced post is created, and does not leave,
\* finds it in the inbox in the end, unless a statement or a pipeline fails.
FansReached ==
    \A p \in Posts, u \in Users :
      (p \in log /\ u \in owed[p])
        ~> (p \in fanned[u] \/ u \notin owed[p] \/ ~NothingFailed)

\* One message at a time is in the loop's try block (consumer.py 104-112), and the
\* connections are "created once, reused across handlers" (connections.py:1): a
\* failed statement costs the followers one post, not the ones after it.
FailuresStayLocal ==
    Cardinality({p \in log \ pending : ~Reached(p)}) <= faults["query"]
=============================================================================
