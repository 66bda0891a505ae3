-------------------------------- MODULE Likes --------------------------------
(***************************************************************************)
(* The like counters of the interaction service: the Redis-backed storage   *)
(* of services/interaction/storage.go in front of the post_likes table of    *)
(* services/interaction/repo.go, called by the handlers of service.go.       *)
(*                                                                           *)
(* For a post Redis holds a counter likes:<post> and a set liked_by:<post>;  *)
(* post_likes holds one row per (user, post).  Every gRPC request runs in a  *)
(* goroutine of its own and nothing locks: each Redis command (go-redis      *)
(* Pipeline() is not MULTI/EXEC) and each SQL statement is a step here.      *)
(***************************************************************************)
EXTENDS Integers, FiniteSets

CONSTANTS
    Users,          \* user ids
    Posts,          \* post ids, as they stand in the paths of requests
    Uuids,          \* those that are UUIDs: nothing checks them before the table
    Reqs,           \* requests the service handles, each at most once
    Ops,            \* the RPCs the clients call
    SerialUsers,    \* TRUE: a user has one Like/Unlike of a post in flight
    WarmCounters,   \* TRUE: every likes:<post> key is cached at the start
    WarmSets,       \* TRUE: every liked_by:<post> key is cached at the start
    MaxFaults       \* how often each kind of fault may strike

FaultKinds == {"counterExpiry", "setExpiry", "db", "redis", "abort"}

WriteOps == {"like", "unlike"}

ASSUME UsersAssumption == IsFiniteSet(Users) /\ Users # {}
ASSUME PostsAssumption == IsFiniteSet(Posts) /\ Posts # {}
ASSUME UuidsAssumption == Uuids \subseteq Posts
ASSUME ReqsAssumption == IsFiniteSet(Reqs)
ASSUME OpsAssumption ==
    /\ Ops \subseteq WriteOps \cup {"isLiked", "count", "batchCount"}
    /\ Ops # {}
ASSUME ModeAssumption == {SerialUsers, WarmCounters, WarmSets} \subseteq BOOLEAN
ASSUME FaultsAssumption == MaxFaults \in [FaultKinds -> Nat]

VARIABLES
    counterKeys,    \* posts whose likes:<post> key exists
    likes,          \* value of likes:<post>, 0 for a missing key
    likedBy,        \* liked_by:<post>; {} is a missing key
    rows,           \* post_likes: the users with a row for the post
    call,           \* what a request asks
    pc,             \* the next step of a request
    todo,           \* posts the current phase of a count still handles
    miss,           \* posts a count read from the database, to be cached
    val,            \* counts a request has read (0 for an id left out)
    answer,         \* reply of an IsLiked
    unclamped,      \* history: Unlikes whose SET 0 never reached Redis
    faults          \* how often each fault has struck

cache == <<counterKeys, likes, likedBy>>
local == <<todo, miss, val, answer, unclamped>>
vars == <<counterKeys, likes, likedBy, rows, call, pc, todo, miss, val,
          answer, unclamped, faults>>

Call == [op : Ops, user : Users, post : Posts]

Ended == {"idle", "done", "failed"}

PCs == Ended \cup {"check", "incr", "sadd", "insert", "decr", "srem", "clamp",
                   "delete", "get", "db", "set", "member", "respond"}

User(r) == call[r].user
Post(r) == call[r].post

InFlight(r) == pc[r] \notin Ended

\* A Like or Unlike of user u and post p is being handled.
Writing(r, u, p) ==
    InFlight(r) /\ call[r].op \in WriteOps /\ User(r) = u /\ Post(r) = p

Goto(r, l) == pc' = [pc EXCEPT ![r] = l]

Fault(k) ==
    /\ faults[k] < MaxFaults[k]
    /\ faults' = [faults EXCEPT ![k] = @ + 1]

\* Any users like any post; what they liked under a malformed id is in Redis only.
Init ==
    /\ \E liked \in [Posts -> SUBSET Users] :
         /\ rows = [p \in Posts |-> IF p \in Uuids THEN liked[p] ELSE {}]
         /\ likes = [p \in Posts |-> IF WarmCounters THEN Cardinality(liked[p]) ELSE 0]
         /\ likedBy = [p \in Posts |-> IF WarmSets THEN liked[p] ELSE {}]
    /\ counterKeys = IF WarmCounters THEN Posts ELSE {}
    /\ call = [r \in Reqs |-> CHOOSE c \in Call : TRUE]
    /\ pc = [r \in Reqs |-> "idle"]
    /\ todo = [r \in Reqs |-> {}]
    /\ miss = [r \in Reqs |-> {}]
    /\ val = [r \in Reqs |-> [p \in Posts |-> 0]]
    /\ answer = [r \in Reqs |-> FALSE]
    /\ unclamped = {}
    /\ faults = [k \in FaultKinds |-> 0]

------------------------------------------------------------------------------
(* Requests arriving at the handlers *)

StartWrite(r, c) ==
    /\ c.op \in WriteOps
    /\ SerialUsers => \A q \in Reqs : ~Writing(q, c.user, c.post)
    /\ Goto(r, "check")
    /\ UNCHANGED todo

StartIsLiked(r, c) ==
    /\ c.op = "isLiked"
    /\ Goto(r, "member")
    /\ UNCHANGED todo

StartCount(r, c) ==
    /\ c.op = "count"
    /\ Goto(r, "get")
    /\ todo' = [todo EXCEPT ![r] = {c.post}]

\* BatchCount answers an empty list of ids at once.
StartBatchCount(r, c) ==
    /\ c.op = "batchCount"
    /\ \E ids \in SUBSET Posts :
         /\ todo' = [todo EXCEPT ![r] = ids]
         /\ Goto(r, IF ids = {} THEN "respond" ELSE "get")

Start(r) ==
    /\ pc[r] = "idle"
    /\ \E c \in Call :
         /\ call' = [call EXCEPT ![r] = c]
         /\ \/ StartWrite(r, c)
            \/ StartIsLiked(r, c)
            \/ StartCount(r, c)
            \/ StartBatchCount(r, c)
    /\ UNCHANGED <<cache, rows, miss, val, answer, unclamped, faults>>

------------------------------------------------------------------------------
(* Like and Unlike *)

\* Mutant: the membership test is skipped.
SIsMemberSkipped(r, seen) == seen = FALSE /\ UNCHANGED faults

\* SIsMember(...).Val(): a Redis error reads as "not a member".
SIsMemberVal(r, seen) ==
    \/ seen = (User(r) \in likedBy[Post(r)]) /\ UNCHANGED faults
    \/ seen = FALSE /\ Fault("redis")

\* Mutant: Count is called with the user in place of the post.
CallCountOfUser(r) ==
    /\ Goto(r, "get")
    /\ todo' = [todo EXCEPT ![r] = {User(r)}]

\* return s.Count(ctx, feedID)
CallCount(r) ==
    /\ Goto(r, "get")
    /\ todo' = [todo EXCEPT ![r] = {Post(r)}]

\* Membership decides between the pipeline and just reading the count.
Check(r) ==
    /\ pc[r] = "check"
    /\ \E seen \in BOOLEAN :
         /\ SIsMemberVal(r, seen)
         /\ \/ /\ call[r].op = "like" /\ ~seen
               /\ Goto(r, "incr") /\ UNCHANGED todo
            \/ /\ call[r].op = "unlike" /\ seen
               /\ Goto(r, "decr") /\ UNCHANGED todo
            \/ /\ (call[r].op = "like") = seen
               /\ CallCount(r)
    /\ UNCHANGED <<cache, rows, call, miss, val, answer, unclamped>>

\* INCR or DECR: a missing key counts from 0 and keeps existing afterwards.
AddToCounter(r, n) ==
    /\ counterKeys' = counterKeys \cup {Post(r)}
    /\ likes' = [likes EXCEPT ![Post(r)] = @ + n]
    /\ val' = [val EXCEPT ![r][Post(r)] = likes[Post(r)] + n]

Incr(r) ==
    /\ pc[r] = "incr"
    /\ AddToCounter(r, 1)
    /\ Goto(r, "sadd")
    /\ UNCHANGED <<likedBy, rows, call, todo, miss, answer, unclamped, faults>>

SAdd(r) ==
    /\ pc[r] = "sadd"
    /\ likedBy' = [likedBy EXCEPT ![Post(r)] = @ \cup {User(r)}]
    /\ Goto(r, "insert")
    /\ UNCHANGED <<counterKeys, likes, rows, call, local, faults>>

\* Mutant: a malformed id reaches the table.
WriteAnyRow(p, users) ==
    \/ rows' = [rows EXCEPT ![p] = users] /\ UNCHANGED faults
    \/ Fault("db") /\ UNCHANGED rows

\* A malformed id is dropped without an error; the error of a statement is printed
\* and ignored.
WriteRow(p, users) ==
    \/ p \in Uuids /\ rows' = [rows EXCEPT ![p] = users] /\ UNCHANGED faults
    \/ p \in Uuids /\ Fault("db") /\ UNCHANGED rows
    \/ p \notin Uuids /\ UNCHANGED <<rows, faults>>

\* INSERT ... ON CONFLICT DO NOTHING
InsertRow(r) ==
    /\ pc[r] = "insert"
    /\ WriteRow(Post(r), rows[Post(r)] \cup {User(r)})
    /\ Goto(r, "respond")
    /\ UNCHANGED <<cache, call, local>>

Decr(r) ==
    /\ pc[r] = "decr"
    /\ AddToCounter(r, -1)
    /\ Goto(r, "srem")
    /\ UNCHANGED <<likedBy, rows, call, todo, miss, answer, unclamped, faults>>

\* Mutant: the comparison is off by one.
BelowMinusOne(n) == n < -1

Negative(n) == n < 0

SRem(r) ==
    /\ pc[r] = "srem"
    /\ likedBy' = [likedBy EXCEPT ![Post(r)] = @ \ {User(r)}]
    /\ Goto(r, IF Negative(val[r][Post(r)]) THEN "clamp" ELSE "delete")
    /\ UNCHANGED <<counterKeys, likes, rows, call, local, faults>>

\* SET likes:<post> n
SetCounter(p, n) ==
    /\ counterKeys' = counterKeys \cup {p}
    /\ likes' = [likes EXCEPT ![p] = n]

\* Mutant: the reset is the last thing an Unlike does.
ClampReturns(r) ==
    /\ pc[r] = "clamp"
    /\ SetCounter(Post(r), 0)
    /\ val' = [val EXCEPT ![r][Post(r)] = 0]
    /\ Goto(r, "respond")
    /\ UNCHANGED <<likedBy, rows, call, todo, miss, answer, unclamped, faults>>

\* A negative DECR result is reset to 0; the error of the SET is not looked at.
Clamp(r) ==
    /\ pc[r] = "clamp"
    /\ \/ /\ SetCounter(Post(r), 0)
          /\ UNCHANGED <<unclamped, faults>>
       \/ /\ Fault("redis")
          /\ unclamped' = unclamped \cup {r}
          /\ UNCHANGED <<counterKeys, likes>>
    /\ val' = [val EXCEPT ![r][Post(r)] = 0]
    /\ Goto(r, "delete")
    /\ UNCHANGED <<likedBy, rows, call, todo, miss, answer>>

\* DELETE FROM post_likes
DeleteRow(r) ==
    /\ pc[r] = "delete"
    /\ WriteRow(Post(r), rows[Post(r)] \ {User(r)})
    /\ Goto(r, "respond")
    /\ UNCHANGED <<cache, call, local>>

------------------------------------------------------------------------------
(* Count and BatchCount: GET every key, read the missing ones from the       *)
(* database, SET what was read.  Count is the case of one post.              *)

\* One phase is over when its last post is: go on with the posts in next.
EndPhase(r, p, next, l) ==
    LET left == todo[r] \ {p} IN
      IF left # {}
      THEN todo' = [todo EXCEPT ![r] = left] /\ UNCHANGED pc
      ELSE /\ todo' = [todo EXCEPT ![r] = next]
           /\ Goto(r, IF next = {} THEN "respond" ELSE l)

Get(r, p) ==
    /\ pc[r] = "get" /\ p \in todo[r]
    /\ LET missed == IF p \in counterKeys THEN miss[r] ELSE miss[r] \cup {p} IN
         /\ miss' = [miss EXCEPT ![r] = missed]
         /\ EndPhase(r, p, missed, "db")
    /\ val' = [val EXCEPT ![r][p] = likes[p]]
    /\ UNCHANGED <<cache, rows, call, answer, unclamped, faults>>

\* A malformed id counts 0, without the database.
DbCount(r, p) ==
    /\ pc[r] = "db" /\ p \in todo[r]
    /\ val' = [val EXCEPT ![r][p] = IF p \in Uuids THEN Cardinality(rows[p]) ELSE 0]
    /\ EndPhase(r, p, miss[r], "set")
    /\ UNCHANGED <<cache, rows, call, miss, answer, unclamped, faults>>

\* A failing SELECT fails a Count, and drops the id from a BatchCount.
DbCountFail(r, p) ==
    /\ pc[r] = "db" /\ p \in todo[r]
    /\ p \in Uuids
    /\ Fault("db")
    /\ IF call[r].op = "batchCount"
       THEN /\ miss' = [miss EXCEPT ![r] = @ \ {p}]
            /\ EndPhase(r, p, miss[r] \ {p}, "set")
       ELSE Goto(r, "failed") /\ UNCHANGED <<todo, miss>>
    /\ UNCHANGED <<cache, rows, call, val, answer, unclamped>>

\* The backfill writes what was read earlier, whatever Redis holds by now.
SetBack(r, p) ==
    /\ pc[r] = "set" /\ p \in todo[r]
    /\ \/ SetCounter(p, val[r][p]) /\ UNCHANGED faults
       \/ Fault("redis") /\ UNCHANGED <<counterKeys, likes>>
    /\ EndPhase(r, p, {}, "respond")
    /\ UNCHANGED <<likedBy, rows, call, miss, val, answer, unclamped>>

------------------------------------------------------------------------------
(* IsLiked.  SISMEMBER on a missing key answers 0 without an error, so the    *)
(* branch that rebuilds the set from post_likes is never taken.               *)

IsMember(r) ==
    /\ pc[r] = "member"
    /\ answer' = [answer EXCEPT ![r] = User(r) \in likedBy[Post(r)]]
    /\ Goto(r, "respond")
    /\ UNCHANGED <<cache, rows, call, todo, miss, val, unclamped, faults>>

\* The handler returns; Like and Unlike hand their event to the dispatcher,
\* which reports nothing back.
Respond(r) ==
    /\ pc[r] = "respond"
    /\ Goto(r, "done")
    /\ UNCHANGED <<cache, rows, call, local, faults>>

------------------------------------------------------------------------------
(* Faults *)

\* A Redis error the code returns, a cancelled context or a crash of the
\* process: no further step of the request is taken.
Abort(r) ==
    /\ InFlight(r)
    /\ Fault("abort")
    /\ Goto(r, "failed")
    /\ unclamped' = IF pc[r] \in {"srem", "clamp"} /\ val[r][Post(r)] < 0
                    THEN unclamped \cup {r} ELSE unclamped
    /\ UNCHANGED <<cache, rows, call, todo, miss, val, answer>>

\* likeTTL passed, or Redis evicted the key.
ExpireCounter(p) ==
    /\ p \in counterKeys
    /\ Fault("counterExpiry")
    /\ counterKeys' = counterKeys \ {p}
    /\ likes' = [likes EXCEPT ![p] = 0]
    /\ UNCHANGED <<likedBy, rows, call, pc, local>>

ExpireLikedBy(p) ==
    /\ likedBy[p] # {}
    /\ Fault("setExpiry")
    /\ likedBy' = [likedBy EXCEPT ![p] = {}]
    /\ UNCHANGED <<counterKeys, likes, rows, call, pc, local>>

\* Every request has been answered: the service idles.
Idle == (\A r \in Reqs : pc[r] \in {"done", "failed"}) /\ UNCHANGED vars

------------------------------------------------------------------------------

WriteStep(r) ==
    \/ Check(r) \/ Incr(r) \/ SAdd(r) \/ InsertRow(r)
    \/ Decr(r) \/ SRem(r) \/ Clamp(r) \/ DeleteRow(r)

CountStep(r) ==
    \E p \in Posts :
        Get(r, p) \/ DbCount(r, p) \/ DbCountFail(r, p) \/ SetBack(r, p)

Step(r) == WriteStep(r) \/ CountStep(r) \/ IsMember(r) \/ Respond(r)

Expire(p) == ExpireCounter(p) \/ ExpireLikedBy(p)

Next ==
    \/ \E r \in Reqs : Start(r) \/ Step(r) \/ Abort(r)
    \/ \E p \in Posts : Expire(p)
    \/ Idle

\* A goroutine that can run is run; clients and faults owe nothing.
Fairness == \A r \in Reqs : WF_vars(Step(r))

Spec == Init /\ [][Next]_vars /\ Fairness

------------------------------------------------------------------------------
(* Properties *)

TypeOK ==
    /\ counterKeys \subseteq Posts
    /\ likes \in [Posts -> Int]
    /\ likedBy \in [Posts -> SUBSET Users]
    /\ rows \in [Posts -> SUBSET Users]
    /\ call \in [Reqs -> Call]
    /\ pc \in [Reqs -> PCs]
    /\ todo \in [Reqs -> SUBSET Posts]
    /\ miss \in [Reqs -> SUBSET Posts]
    /\ val \in [Reqs -> [Posts -> Int]]
    /\ answer \in [Reqs -> BOOLEAN]
    /\ unclamped \subseteq Reqs
    /\ faults \in [FaultKinds -> Nat]

\* Unlikes of p that saw a negative counter and have not reset it yet.
ToClamp(p) ==
    {r \in Reqs : /\ pc[r] \in {"srem", "clamp"}
                  /\ Post(r) = p
                  /\ val[r][p] < 0}

\* Unlikes of p that can still be blamed for a negative counter.
Debt(p) == ToClamp(p) \cup {r \in unclamped : Post(r) = p}

(* A counter is below zero by at most the number of Unlikes that are between  *)
(* their DECR and their SET 0, or that died there (storage.go 67-79).  With   *)
(* none of these, CountLikes never shows a negative number, whatever expired, *)
(* whatever was backfilled and whoever unliked twice.                         *)
NegativeIsOwed == \A p \in Posts : likes[p] >= -Cardinality(Debt(p))

(* When no SET 0 is lost a negative counter is eventually repaired.           *)
NegativeIsTransient ==
    \A p \in Posts :
        likes[p] < 0 ~> (likes[p] >= 0 \/ unclamped # {})

\* The users of the post whose INCR (DECR) is done and whose SADD (SREM) is not.
AddingTo(p) == {u \in Users : \E r \in Reqs :
                   pc[r] = "sadd" /\ User(r) = u /\ Post(r) = p}
RemovingFrom(p) == {u \in Users : \E r \in Reqs :
                   pc[r] = "srem" /\ User(r) = u /\ Post(r) = p}

NoFault(K) == \A k \in K : faults[k] = 0

(* Where Redis keeps both keys and every user waits for an answer before the  *)
(* next Like or Unlike of the post, the counter is the size of the set, give  *)
(* or take the requests between their two pipelined commands: no interleaving *)
(* of different users, reads or failing database writes makes it drift.       *)
CountExact ==
    ( /\ SerialUsers /\ WarmCounters /\ WarmSets
      /\ NoFault({"counterExpiry", "setExpiry", "redis", "abort"}) )
    => \A p \in Posts :
         likes[p] = Cardinality((likedBy[p] \cup AddingTo(p)) \ RemovingFrom(p))

\* The users of the post whose set is written and whose row is not.
Inserting(p) == {u \in Users : \E r \in Reqs :
                   pc[r] = "insert" /\ User(r) = u /\ Post(r) = p}
Deleting(p) == {u \in Users : \E r \in Reqs :
                   pc[r] \in {"clamp", "delete"} /\ User(r) = u /\ Post(r) = p}

(* With serial users, a set that never expired and no failed write, the rows  *)
(* of a post whose id is a UUID are its set in Redis up to the requests that  *)
(* have written one and not yet the other; in particular both agree when no   *)
(* write is in flight, also after the counter expired or drifted.  The likes  *)
(* of a malformed id change the set and the counter all the same, and leave   *)
(* no row (repo.go 46 and 58).                                                *)
RowsFollowSet ==
    (SerialUsers /\ WarmSets /\ NoFault({"setExpiry", "db", "abort", "redis"}))
    => \A p \in Posts :
         rows[p] = IF p \in Uuids THEN (likedBy[p] \ Inserting(p)) \cup Deleting(p)
                   ELSE {}

\* No Like or Unlike of the post is being handled.
Settled(p) == \A r \in Reqs : ~(InFlight(r) /\ call[r].op \in WriteOps
                                  /\ Post(r) = p)

(* storage.go 175-176: "IsLiked checks the Redis set first, falls back to DB. *)
(* When the set has expired, it is fully rebuilt from post_likes."  Hence an  *)
(* IsLiked that no write of the post overlaps answers what post_likes says.   *)
IsLikedFallsBack ==
    [][\A r \in Reqs :
         (IsMember(r) /\ Settled(Post(r)) /\ NoFault({"db", "abort"}))
         => (answer'[r] = (User(r) \in rows[Post(r)]))]_vars

=============================================================================
