----------------------------- MODULE PostCache -----------------------------
(***************************************************************************)
(* The posts table with its cache post:<id> and the hot list hot_posts:      *)
(* PostFeed, GetFeed and DeleteFeed of services/feed/service.go, and the     *)
(* ranking cron of workers/handlers/ranking.py.                              *)
(*                                                                           *)
(* A post is never edited, so a cached copy has the content of its row and   *)
(* only its existence matters.  Requests and ranking runs interleave at each *)
(* SQL statement and Redis call; redis-py pipelines are MULTI/EXEC.  Which   *)
(* posts are recent and how they score is left open: a run ranks any of the  *)
(* posts it found.                                                           *)
(***************************************************************************)
EXTENDS Integers, FiniteSets

CONSTANTS
    Posts,          \* post ids
    Reqs,           \* requests to the feed service, each at most once
    Workers,        \* worker processes, each with its ranking cron
    TopN,           \* posts on the hot list (200 in the code)
    MaxCrashes      \* ranking runs that die between two steps

ASSUME PostsAssumption == IsFiniteSet(Posts) /\ Posts # {}
ASSUME WorkersAssumption == IsFiniteSet(Workers)
ASSUME NumbersAssumption == TopN \in Nat \ {0} /\ MaxCrashes \in Nat

VARIABLES
    rows,           \* the life of a post in the table: none, live, deleted
    cached,         \* posts whose post:<id> key exists
    hot,            \* hot_posts
    tmp,            \* hot_posts:tmp; {} is a missing key
    pc,             \* the next step of a request
    post,           \* the post it is about
    rpc,            \* the next step of a worker's ranking run
    top,            \* the posts it put on the hot list
    load,           \* the posts it will put in the cache
    latest,         \* history: top of the run that renamed last
    crashes

request == <<pc, post>>
ranking == <<rpc, top, load>>
vars == <<rows, cached, hot, tmp, request, ranking, latest, crashes>>

\* Mutant: deleted posts are only marked, and the queries do not look at the mark.
FoundMarked(p) == rows[p] # "none"

\* The queries of feed and worker find a post while its row is there.
Found(p) == rows[p] = "live"

Live == {p \in Posts : Found(p)}

Goto(r, l) == pc' = [pc EXCEPT ![r] = l]
RankGoto(w, l) == rpc' = [rpc EXCEPT ![w] = l]

Init ==
    /\ rows = [p \in Posts |-> "none"]
    /\ cached = {} /\ hot = {} /\ tmp = {} /\ latest = {}
    /\ pc = [r \in Reqs |-> "idle"]
    /\ post = [r \in Reqs |-> CHOOSE p \in Posts : TRUE]
    /\ rpc = [w \in Workers |-> "idle"]
    /\ top = [w \in Workers |-> {}]
    /\ load = [w \in Workers |-> {}]
    /\ crashes = 0

------------------------------------------------------------------------------
(* The feed service *)

\* PostFeed gets an id no post has.
FreshId(p) ==
    /\ rows[p] = "none"
    /\ \A r \in Reqs : ~(pc[r] = "insert" /\ post[r] = p)

\* A GetFeed, or one post of a GetTimeline, arrives; or a PostFeed or DeleteFeed.
Start(r) ==
    /\ pc[r] = "idle"
    /\ \E p \in Posts, l \in {"get", "insert", "delete"} :
         /\ l = "insert" => FreshId(p)
         /\ post' = [post EXCEPT ![r] = p]
         /\ Goto(r, l)
    /\ UNCHANGED <<rows, cached, hot, tmp, ranking, latest, crashes>>

\* A failing GET is a miss.
Get(r) ==
    /\ pc[r] = "get"
    /\ \/ post[r] \in cached /\ Goto(r, "done")
       \/ Goto(r, "row")
    /\ UNCHANGED <<rows, cached, hot, tmp, post, ranking, latest, crashes>>

\* FindByID.
Row(r) ==
    /\ pc[r] = "row"
    /\ Goto(r, IF Found(post[r]) THEN "set" ELSE "done")
    /\ UNCHANGED <<rows, cached, hot, tmp, post, ranking, latest, crashes>>

Insert(r) ==
    /\ pc[r] = "insert"
    /\ rows' = [rows EXCEPT ![post[r]] = "live"]
    /\ Goto(r, "set")
    /\ UNCHANGED <<cached, hot, tmp, post, ranking, latest, crashes>>

\* SET post:<id> with its TTL; the error, if any, is not looked at.
Set(r) ==
    /\ pc[r] = "set"
    /\ \/ cached' = cached \cup {post[r]}
       \/ UNCHANGED cached
    /\ Goto(r, "done")
    /\ UNCHANGED <<rows, hot, tmp, post, ranking, latest, crashes>>

\* DeleteFeed deletes the row if the caller is its author, and leaves cache,
\* inboxes and hot list alone.
Delete(r) ==
    /\ pc[r] = "delete"
    /\ \/ UNCHANGED rows
       \/ rows' = [rows EXCEPT ![post[r]] = IF @ = "live" THEN "deleted" ELSE @]
    /\ Goto(r, "done")
    /\ UNCHANGED <<cached, hot, tmp, post, ranking, latest, crashes>>

\* The TTL of post:<id> runs out.
Expire(p) ==
    /\ p \in cached
    /\ cached' = cached \ {p}
    /\ UNCHANGED <<rows, hot, tmp, request, ranking, latest, crashes>>

------------------------------------------------------------------------------
(* The ranking cron; like counts and comment counts only decide the order *)

\* Mutant: a run goes on without a recent post.
FetchUnchecked(w) ==
    /\ rpc[w] = "idle"
    /\ top' = [top EXCEPT ![w] = {p \in Posts : rows[p] # "deleted"}]
    /\ RankGoto(w, "zadd")
    /\ UNCHANGED <<rows, cached, hot, tmp, request, load, latest, crashes>>

\* No recent post: the run returns.
Scan(w) ==
    /\ rpc[w] = "idle"
    /\ \E S \in SUBSET Live :
         /\ S # {} /\ Cardinality(S) <= TopN
         /\ top' = [top EXCEPT ![w] = S]
    /\ RankGoto(w, "zadd")
    /\ UNCHANGED <<rows, cached, hot, tmp, request, load, latest, crashes>>

ZAdd(w) ==
    /\ rpc[w] = "zadd"
    /\ tmp' = tmp \cup top[w]
    /\ RankGoto(w, "rename")
    /\ UNCHANGED <<rows, cached, hot, request, top, load, latest, crashes>>

\* Mutant: the temporary list is copied, not renamed.
RenameKeepsTmp(w) ==
    /\ rpc[w] = "rename"
    /\ hot' = tmp
    /\ latest' = top[w]
    /\ RankGoto(w, "mask")
    /\ UNCHANGED <<tmp, rows, cached, request, top, load, crashes>>

\* RENAME of a missing key is an error, and ends the run.
Rename(w) ==
    /\ rpc[w] = "rename"
    /\ IF tmp = {}
         THEN RankGoto(w, "idle") /\ UNCHANGED <<hot, tmp, latest>>
         ELSE /\ hot' = tmp
              /\ tmp' = {}
              /\ latest' = top[w]
              /\ RankGoto(w, "mask")
    /\ UNCHANGED <<rows, cached, request, top, load, crashes>>

\* MGET: the posts that are not cached, if any, are fetched.
Mask(w) ==
    /\ rpc[w] = "mask"
    /\ load' = [load EXCEPT ![w] = top[w] \ cached]
    /\ RankGoto(w, IF top[w] \subseteq cached THEN "idle" ELSE "fetch")
    /\ UNCHANGED <<rows, cached, hot, tmp, request, top, latest, crashes>>

Fetch(w) ==
    /\ rpc[w] = "fetch"
    /\ load' = [load EXCEPT ![w] = {p \in @ : Found(p)}]
    /\ RankGoto(w, "store")
    /\ UNCHANGED <<rows, cached, hot, tmp, request, top, latest, crashes>>

Store(w) ==
    /\ rpc[w] = "store"
    /\ cached' = cached \cup load[w]
    /\ RankGoto(w, "idle")
    /\ UNCHANGED <<rows, hot, tmp, request, top, load, latest, crashes>>

\* The process dies, or a command raises and _run_cron waits for the next run.
Crash(w) ==
    /\ rpc[w] # "idle"
    /\ crashes < MaxCrashes
    /\ crashes' = crashes + 1
    /\ RankGoto(w, "idle")
    /\ UNCHANGED <<rows, cached, hot, tmp, request, top, load, latest>>

------------------------------------------------------------------------------
Handle(r) == Get(r) \/ Row(r) \/ Insert(r) \/ Set(r) \/ Delete(r)

Rank(w) == ZAdd(w) \/ Rename(w) \/ Mask(w) \/ Fetch(w) \/ Store(w)

\* No request is left and no post to rank.
Idle ==
    /\ \A r \in Reqs : pc[r] = "done"
    /\ UNCHANGED vars

Next ==
    \/ \E r \in Reqs : Start(r) \/ Handle(r)
    \/ \E p \in Posts : Expire(p)
    \/ \E w \in Workers : Scan(w) \/ Rank(w) \/ Crash(w)
    \/ Idle

\* Handlers and started runs go on, and keys expire; nobody need start any.
Fairness ==
    /\ \A r \in Reqs : WF_vars(Handle(r))
    /\ \A w \in Workers : WF_vars(Rank(w))
    /\ \A p \in Posts : WF_vars(Expire(p))

Spec == Init /\ [][Next]_vars /\ Fairness

------------------------------------------------------------------------------
(* Properties *)

\* Values keep their types; a run that may rename has posts to rename.
TypeOK ==
    /\ rows \in [Posts -> {"none", "live", "deleted"}]
    /\ cached \subseteq Posts /\ hot \subseteq Posts /\ tmp \subseteq Posts
    /\ pc \in [Reqs -> {"idle", "get", "row", "insert", "set", "delete", "done"}]
    /\ post \in [Reqs -> Posts]
    /\ rpc \in [Workers -> {"idle", "zadd", "rename", "mask", "fetch", "store"}]
    /\ top \in [Workers -> SUBSET Posts]
    /\ load \in [Workers -> SUBSET Posts]
    /\ latest \subseteq Posts
    /\ crashes \in 0..MaxCrashes
    /\ \A p \in cached \cup hot \cup tmp : rows[p] # "none"
    /\ \A w \in Workers : rpc[w] # "idle" => top[w] # {}

\* A deleted post stops being served.  DeleteFeed leaves the cache alone, and
\* requests and ranking runs that read the row before may cache it afterwards
\* (service.go 90-105, ranking.py 80-120); but nothing fills the cache from the
\* cache, so after the TTL the post is gone for good.
DeletedFades ==
    \A p \in Posts : [](rows[p] = "deleted" => <>[](p \notin cached))

\* ranking.py:1 "refresh hot_posts ZSET": the hot list is that of one ranking
\* run, the last to rename, and no longer than TOP_N.  It takes that one worker
\* ranks and no run was cut off: hot_posts:tmp is never cleared, so that what an
\* unfinished run wrote is merged into the next list (ranking.py 70-75).
HotIsOneRanking ==
    Cardinality(Workers) = 1 /\ crashes = 0
      => hot = latest /\ Cardinality(hot) <= TopN
=============================================================================
