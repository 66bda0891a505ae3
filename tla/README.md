# Formal model of feeds

`feeds` is a small social feed: Go services behind a REST gateway, PostgreSQL
and Redis for state, Kafka between the services and two Python workers, and a
WebSocket push server. The modules here are translated from the code under
`src/`; line numbers in comments and in `PROJECT.json` are lines of those files.

Contents: [the system](#the-system), [modules](#modules-and-how-they-correspond-to-the-code),
[runs and bounds](#what-the-runs-check), [fairness](#fairness),
[proofs](#what-is-proved), [divergences](#divergences-found-while-modelling),
[limits](#what-is-not-modelled), [plan](#plan).

## The system

| part | state | operations | talks to |
|---|---|---|---|
| interaction, likes (`services/interaction/storage.go`, `repo.go`, `service.go`) | Redis counter `likes:<post>` and set `liked_by:<post>`, table `post_likes` | Like, Unlike, IsLiked, CountLikes, BatchCountLikes | Redis, PostgreSQL, Kafka (`feed.liked`, `feed.unliked`) |
| interaction, comments and bookmarks | tables `post_comments`, `post_bookmarks` | CreateComment, ListComments, DeleteComment, Bookmark, Unbookmark, IsBookmarked | PostgreSQL, Kafka |
| feed (`services/feed`) | table `posts`, Redis cache `post:<id>`; reads `inbox:<user>`, `hot_posts` | PostFeed, GetFeed, ListFeeds, DeleteFeed, GetTimeline | PostgreSQL, Redis, Kafka (`post.created`) |
| workers (`workers/`) | Redis `inbox:<user>`, `hot_posts`, `post:<id>`; one database connection per process | handle_post_created, run_ranking (cron) | Kafka, PostgreSQL, Redis, notify |
| notify (`services/notify`) | table `notifications` | Push, ListNotifications, MarkRead, GetUnreadCount | live, PostgreSQL |
| live and comet (`services/live`, `pkg/comet`) | connections, rooms, send channels | WebSocket frames; PushRoom, PushUser, IsOnline | clients, notify |
| comet client (`pkg/comet/client`) | one connection | Dial, Send, ReadLoop, WritePump, Close | comet |
| user (`services/user`) | tables `users`, `follows` | Register, Login, GetInfo, Unregister, Follow, Unfollow, lists | PostgreSQL |
| events (`pkg/events`) | one Kafka writer per topic | Dispatch | Kafka |
| auth, gateway (`pkg/auth`, `services/gateway`) | none of their own: a token names an account | middleware, REST to gRPC | everything |
| upload, config, storage, telemetry | none that other parts read | wiring | everything |

A like is written to Redis first (INCR and SADD in one pipeline), then to
PostgreSQL; nothing locks, so all requests interleave. A post is written to
PostgreSQL, cached, and announced on Kafka; the fan-out worker pushes it to the
inboxes of the followers and asks notify to tell the author. The ranking cron, a
thread of the same worker process, replaces the hot list and fills the cache. A
timeline mixes inbox and hot list. Notify stores a notification and, if live
said the user is online, has it pushed over the user's connections. People reach
the services through the gateway, whose middleware turns a token into an account
id; nothing later asks whether that account still exists.

### What is hard, and what correctness means

* Likes: check-then-act on a set, two-step pipelines, a counter that goes
  negative and is repaired by an unconditional SET, backfills that write stale
  numbers, keys that expire independently of each other, database writes that
  fail silently. The counter should be the size of the set, the set should be the
  table, and negative numbers should be transient.
* Comet: three goroutines per connection and push, a snapshot of the room used
  outside the lock, a bounded channel that must neither block nor deliver to the
  wrong user, closing from both ends, rooms that must not keep the dead.
* Comet client: a handshake in which a push may overtake the reply, five seconds
  after which Dial gives up while the server goes on, two streams whose ends close
  independently. An accepted client should be in its room, what was counted should
  be heard, and who left should be forgotten.
* Fan-out: events in any order and more than once, crashes between handling and
  committing, inboxes at their limit, a database connection that two threads share
  and nobody rolls back. An inbox should hold the newest posts, and a committed
  event should have reached the followers.
* Post cache and ranking: reads that race with deletes, a temporary key filled
  and renamed in two commands. A deleted post should stop being served, the hot
  list should be one ranking.
* Timeline: page numbers over two lists that change between pages, windows that
  overlap, a tail that is evicted. A reader should get all of the inbox that is
  still there, and an end.
* Notify: the online state is asked for before the row exists, pages are ordered
  by one column and continued by another. A connected user should not miss a
  notification, and a walk should not skip one.
* Accounts: tokens outlive accounts, names are taken over, Login takes its time
  between reading and signing, abandoned calls may run late. Nobody should act as
  somebody else, follows should join accounts that exist, and an answer about
  one's own follows should stay true.
* Lists paged by OFFSET: rows come and go between two pages and between the COUNT
  and the SELECT of one. What is missed or repeated should be bounded by that.

## Modules and how they correspond to the code

| module | models | extends |
|---|---|---|
| `Likes` | likes of the interaction service | |
| `Comet` | connection manager, protocol core and WebSocket connection | |
| `CometClient` | clients of the push server, composed with it | `Comet` |
| `Fanout` | PostFeed's announcement, Kafka, consumer thread, inboxes | |
| `Inboxes` | abstract: what the distribution of posts promises | instantiated by `Fanout` |
| `PostCache` | posts table, post cache, hot list: feed requests and the ranking cron | |
| `Timeline` | GetTimeline and a reader that pages | |
| `Notify` | Push, ListNotifications, MarkRead and clients that come and go | |
| `Accounts` | gateway, tokens, user service and bookmarks: people and their accounts | |
| `Listing` | comments and posts listed by LIMIT and OFFSET | |
| `LikesProofs`, `FanoutProofs`, `PostCacheProofs`, `TimelineProofs`, `NotifyProofs`, `AccountsProofs`, `ListingProofs` | their theorems | the module they are named after |
| `CometProofs` | the theorems of `Comet` and of the composition | `CometClient` |
| `MCLikes`, `MCComet`, `MCCometClient`, `MCFanout`, `MCPostCache`, `MCTimeline`, `MCNotify`, `MCAccounts`, `MCListing` | values of constants for TLC | the module they instantiate |

Each module ends with its properties. A definition marked "Mutant" stands before
the one it mutates: the property `PROJECT.json` names with it must fail when it
takes its place.

**Likes.** `pc[r]` is the line a request is at; each Redis command of a pipeline
and each SQL statement is an action, because go-redis `Pipeline()` is not
MULTI/EXEC and other clients run in between. Like: `Check` (SISMEMBER), `Incr`,
`SAdd`, `InsertRow`. Unlike: `Check`, `Decr`, `SRem`, `Clamp` (SET 0 if DECR
answered a negative number), `DeleteRow`. Post ids are not checked before the
repository, which passes over those that are no UUID (`WriteRow`, `DbCount`): `Uuids`
are the others. CountLikes and BatchCountLikes: `Get`,
`DbCount`, `SetBack` per post. IsLiked: `IsMember`. `Abort` is a Redis error that
the code returns, a cancelled context or a crash. `unclamped` is a history
variable: Unlikes whose SET 0 was lost.

**Comet.** Per connection a reader (`Accept`, `Read...`, `Bind`, `Reply`,
`ReadError`, `Pop`) and a writer (`Take`, `WriteOk`, `WriteFail`, `PumpStop`)
joined by the channel `send`; per push `Snapshot`, then for each member
`CheckClosed` and `TrySend`, which `Write` does in two steps, and `Return`. The
ConnManager's methods are single steps because they hold its mutex; PushToRoom
holds it for the snapshot only. `authed`, `received` and `heard` are history.

**CometClient.** A client's `state` is where Dial or the life of its connection is:
`Dial` (connect and write the token), `DialReply` (the first frame decides:
`Verdict`) or `DialFails`, then `Hear` (ReadLoop and callback), `SendTests` and
`SendQueues` (the two halves of Send), `Pump` and `Hangup`. The streams of a
connection are `up[c]`, what the client wrote, and Comet's `received[c]`; `heard[c]`
and `got[c]` count what the other end has read. In place of Comet's arbitrary
frames `ServerReads` reads the next one of `up[c]`, so each step of the composition
is a step of Comet or leaves the server alone: this is proved (`ServerIsComet`).

**Fanout.** `PostFeed` inserts the row, `Dispatch` or `DispatchFails` announces
it and answers. `pending` holds the announced events whose offset is not
committed, in no order, because the writer balances by load. A worker's consumer
thread goes `Take`, `Handle` (read the followers) or `QueryFails`, `PushInboxes`
or `PushFails`, `Tell`. `Commit` is kafka-python's auto-commit, which runs when the
loop polls: never for the message in hand, but for any message whose handler
returned or raised. `poisoned[w]` is a PostgreSQL connection in a failed
transaction: psycopg refuses everything on it until a rollback, and there is none.
`owed[p]` and `fanned[u]` are history: the followers of the author since before
the post, and the posts ever pushed to an inbox.

**Inboxes.** What a reader of the timeline may count on, with no workers,
topics, offsets or cache: a post that was announced is pushed, in any order and at
least once, to all who have followed its author since before it, before it is
forgotten; an inbox is the `Keep` newest of what was pushed to it. The first ends
with a failure that workers do not survive (`failed`), the second never. `Fanout`
implements it: `waiting` is Fanout's `pending`, `failed` any failed statement or
pipeline, the rest goes by name.

**PostCache.** A post is never edited, so only whether `post:<id>` exists matters.
`Get`, `Row`, `Set` are the steps of getPostContent, `Insert`, `Set` those of
PostFeed, `Delete` that of DeleteFeed; `Scan`, `ZAdd`, `Rename`, `Mask`, `Fetch`,
`Store` those of a ranking run. redis-py pipelines are MULTI/EXEC, one step each.
Which posts a run ranks is left open. `latest` is history: the list of the run
that renamed last.

**Timeline.** `Window`, `Interleaved`, `Merged`, `Unique`, `HasMore` are the pure
steps of GetTimeline, over sequences in the order of ZREVRANGE; `Interleaved` says
what the loop of interleave leaves at each place, and an answer is the merged list
without the places of duplicates and of posts not found. `GetTimeline` is a
request of a reader who follows `next_cursor` while `has_more`; `Arrive` and
`Rerank` are what the workers do to the lists meanwhile; an arrival in a full
inbox evicts the oldest post (`Kept`). `due`, `before`, `arrivals` and `reranks` are
history.

**Notify.** Push is `Start`, `IsOnline`, the INSERT in three steps (`StampRow`:
created_at is the time of the statement, `TakeId`: nextval, `Commit`: the row becomes
visible), `PushUser` (the connection found under the lock, `conn[r]`), `Write` (the
frame queued, dropped or left on a connection that closed in between). Live is
abstracted to `session[u]`: the user has a bound connection or not, its
`sessions[u]`-th; `queued[u]` are the frames on their way over it, which `Hear` gives to
the client and `Disconnect` drops. `ListPage` is one ListNotifications of a client that passes the
cursor on until it is 0. `due`, `seen` and `steady` are history.

**Accounts.** A person makes one call after the other. `Begin` is the middleware
and the handler: `Authorized(p)` are the calls a person's tokens entitle to, with the
account of the token in `by`. `Write` runs the one statement of a call (`Execute`) and
answers, `Read` answers with the pairs that are there. Login is `LoginFinds` (read
and compare) or `LoginRefused`, then `Sign`. `Fails` is any error, `GiveUp` a person
who stops waiting: the gateway hands `r.Context()` down, so the statement is then
`Cancelled`, or `RunsLate`. Rows that ON DELETE CASCADE takes along are part of
`Unregister`. An `answer` names the pairs a person was last told about and which of
them were there; a late statement about a pair makes what was said of it void.

**Listing.** A row is `stamped` by its INSERT (created_at is the time the
transaction began), `live` from its commit, `gone` when deleted. A page is `Count`
and `Select`; `Firsts(n)` are the possible first n rows of ORDER BY created_at DESC,
one for each way to order equal stamps. A reader goes from page to page until a
page is empty or, if `byTotal`, until page * size reaches total. `base`, `deleted`,
`added` and `between` are history.

## What the runs check

Every passing run is exhaustive for its instance. "Reqs" (requests, each at
most once), "Pushes", "Posts" and "Conns" bound how much happens; `MaxFaults` gives
per kind of fault how often it strikes.

| run | shows | instance and why it is enough |
|---|---|---|
| `likes_serial` | `CountExact`: with serial users on a warm cache the counter is the size of the set, up to requests between their two commands. `RowsFollowSet`: with an unexpired set and no failed write, `post_likes` is the set up to requests that wrote one and not the other, even after the counter expired and was backfilled ; a malformed post id has no row | two users, two posts of which one id is malformed, three requests: a Like and an Unlike overlapping a count; one failing SQL statement, one expiry of the counter |
| `likes_live` | `TypeOK`; `NegativeIsOwed`: a counter is below zero by at most the number of Unlikes between DECR and SET 0 or lost there; `NegativeIsTransient`: without a lost SET 0 it is repaired | one user who repeats himself, two posts for the batch, one id malformed, cold counters, expiry of either key, one failing Redis command (a lost SET 0 among them), one cancelled request |
| `likes_isliked` | violated: `IsLikedFallsBack` | one like, one expiry |
| `comet_push` | `TypeOK`; `NoGhost`: after Pop a connection is in no room, unless it was bound to the room of another user too; `PushIsolation`: a push reaches only connections that presented a valid token of its user; `DeliveredCovers`: each frame a client is to get was counted as delivered, once, and is in one place | two connections that may authenticate twice, as either of two users, one push, `SendBuf` 1 so that the reply or the push finds the buffer full. Two pushes at once are in `comet_client`, any number in the theorems |
| `comet_client` | `CTypeOK`; `OpenIsBound`: a connection Dial returned is in its room until the server closes it; `DialVerdict`: a valid token is refused only when a push overtook the reply, an invalid one is never accepted; `NoLossWhileOpen` and `PushHeard`: what a push counted reaches the callback unless an end closes; `CloseCleansUp`; `PushReturns`; `GoneIsForgotten`: a client that left, was refused or gave up leaves nothing behind | one device, a good or a bad token, two pushes, `SendBuf` 1, two frames from the client, either end closing at any step. Liveness is per connection, connections share only the rooms and the pushes that take them one after the other, so one device and two pushes meet each wait; the safety properties are proved for all |
| `fanout_push` | `TypeOK`; `InboxIsNewest`: whatever the order and however often, an inbox holds the `Keep` newest posts ever pushed to it; `CommittedReached`: as long as no statement and no pipeline failed, a committed event has reached whom it is owed to; `KeepsPromise`: it implements `Inboxes`; `FansReached`: every announced post gets there | `Keep` 1 and two posts, so that the second evicts the first in either order; two ticks of the clock, so that stamps tie or differ; each fault once; one Follow or Unfollow. Users, posts and workers beyond this are covered by the theorems |
| `fanout_poison` | violated: `FailuresStayLocal` | one failing statement, two posts |
| `cache_hot` | `TypeOK`; `HotIsOneRanking`: with one worker whose runs were not cut off, the hot list is that of the last run; `DeletedFades`: a deleted post leaves the cache for good | two posts, three requests (a post, a delete and a read that race with a run), `TopN` 1, one dying run |
| `timeline_walk` | `TypeOK`; `InboxComplete`: a reader told that there is no more was given the whole inbox it began with but what the limit may have evicted for posts that came meanwhile, also when hot posts could not be read; `PagesEnd`: each page but the last uses up its share of the inbox; `SlotRatio`: while both lists last, a page of five or more has its hot posts and repeats nothing | inboxes of 0 to 10, with a limit (`Keep`) of 10 that an arrival meets, pages of 2, 3, 5, 10 and the default 20: several pages, a full and a partial last page; a hot post that is in the inbox too, a deleted post, two arrivals or re-rankings, two failing reads |
| `notify_push` | `TypeOK`; `WalkComplete`: a walk returns every notification stored when it began, while the order of ids is that of times; `SteadySees`: for who stays connected each notification is received or on its way by the time Push returns; `DeliveredIsStored`: what is reported delivered is in its user's history, and at the client or on its way unless the connection it was queued on has ended | two users, two concurrent pushes, two connections: of both users, or of one who comes back while a push still holds his closed connection; pages of one so that two rows take three pages; each kind of call failing once |
| `accounts` | `TypeOK`; `FollowsAreUsers`: a follow joins accounts that exist; `ActsAsOwn`: nobody acts as an account that somebody else registered; `AnswerHolds`: what a person was told about his own follows and bookmarks stays so, unless an account goes or a call he abandoned runs | two people, two names, accounts whose names are taken over, one abandoned call at a time, tokens expiring at any moment; enough calls to register, log in, delete and let the other take the name while Login still compares |
| `listing` | `TypeOK`; `MissBounded`: a reader loses no more of the rows that stay than were deleted meanwhile or share a stamp, plus, if it stops at total, one for each row added between a COUNT and its SELECT; `RepeatsBounded`: rows come twice only for rows added or stamps shared | three rows under two keys, page sizes on either side of the limit, a clock on which stamps tie, differ and commit out of order |

Named bounds: `Reqs`, `Pushes`, `Posts`, `Conns` (how many of each there are),
`MaxFaults` (per kind), `MaxFrames` (frames a client sends), `SendBuf` (256 in the
code), `Keep` (1000), `Threshold` (1000), `TopN` (200), `MaxTime` (ticks),
`MaxFollows` (Follow and Unfollow calls), `MaxCrashes` (ranking runs cut off),
`MaxInbox`, `MaxHot`, `MaxArrivals` (lengths and changes of the lists),
`MaxCalls` (calls of a person), `MaxAway` (abandoned calls at a time), `Rows`,
`MaxSize` (50), `DefaultSize` (20),
`PageSize`, `PageSizes`, `MaxConnects` (connections of all users). The limits of the
code are parameters, so that small values meet the same boundaries.

The models end when every request is answered; `Idle`, `Quiet` and `Stop` let
them stutter there, so that a deadlock before the end is still reported. Only
`accounts` and `listing` run without the deadlock check: there people run out of
calls, the clock of ticks and the reader of pages, at any point of the rest.

## Fairness

* `Likes`: weak fairness of each request's next step. Every Redis and SQL call
  returns and goroutines are scheduled. Clients and faults owe nothing.
* `Comet`: weak fairness of the reader once it has a frame, of the reader of a
  closed connection (its read fails), of the writer, and of pushes. A client need
  never send or read: a stalled client's write ends by its deadline, as an error.
* `CometClient`: weak fairness of the server's reader when there is something to
  read or the other end has gone, of its writer, of pushes, and of the goroutine
  of the client that reads, in Dial (whose wait ends after five seconds) and in
  ReadLoop. Nobody need dial, send or hang up.
* `Fanout`: weak fairness of each consumer thread. Commits and restarts are not
  owed: a crashed worker is modelled as restarted with the crash.
* `PostCache`: weak fairness of requests, of ranking runs that began, and of
  expiry (keys have a TTL). No run need begin.
* `Timeline`, `Notify`, `Accounts` and `Listing` state safety properties only.

## What is proved

TLAPS checks these for every value of the constants that satisfies the named
assumptions (`...Assumption` in each module: finite sets, bounds that are
natural numbers, `None` apart from real values).

| theorem | says | inductive invariant |
|---|---|---|
| `LikesProofs!TypeCorrect` | `[]TypeOK` | `TypeOK` |
| `LikesProofs!NegativeOwed` | `[]NegativeIsOwed` | with `OwedInv`: what a count is about to write was read from the table and is not negative, and an Unlike is in `unclamped` only when it is past its reset, so that it is counted once. A DECR below zero adds its request to `Debt`; the SET 0 that removes it leaves the counter at 0 |
| `LikesProofs!RowsFollow` | `[]RowsFollowSet` | `SerialInv`: no user has two writes of one post in flight; `MemberInv`: what Check found of the set still holds until the request's own SADD or SREM. So each row is behind its member by the request between the two only. `RowsOfUuids`: no statement writes a row of a malformed id |
| `LikesProofs!CounterExact` | `[]CountExact` | with these, `CountInv`: on a warm cache no count misses, so none writes the counter, and no Unlike sees it negative; the counter is the size of the set, requests between their two commands moved over |
| `CometProofs!TypeCorrect` | `[]TypeOK` | with `LocalsSet`: goroutines that need a user, a connection or a frame have one |
| `CometProofs!NoGhosts` | `[]NoGhost` | `RoomsInv`: `connRoom` names the room of a member, so that Pop finds it, unless the connection was bound to another room since |
| `CometProofs!PushesIsolated` | `[]PushIsolation` | `Isolated`: who was bound stays authenticated, so that members, stale snapshots, buffers and frames in flight only concern connections that were |
| `CometProofs!CountsDelivered` | `[]DeliveredCovers` | `Counted`: a connection is counted, in hand or still to be visited, never two of these, so that the frame it is given is new to it; `Handed`: a frame is in one place, once. The queues need `AppendOnce` and `TailOnce` |
| `CometProofs!ServerIsComet` | `CSpec => Init /\ [][Next]_vars` | none; `ServerAlone` |
| `CometProofs!ServerKeepsRooms` | `[](PushIsolation /\ NoGhost)` of the composition | `ServerAlone`: each of its steps is a step of Comet or leaves the server as it is, so Comet's invariants carry over |
| `CometProofs!CountsUnderClients` | `[]DeliveredCovers` of the composition | the invariant of `CountsDelivered`, by `ServerIsComet` |
| `CometProofs!CTypeCorrect` | `[]CTypeOK` | with the types of the client and of Comet; an end reads only what it found unread |
| `CometProofs!DialsBound` | `[]OpenIsBound` | `Replied`: the success frame is in the channel, the writer or the stream only after Bind |
| `CometProofs!DialsJudge` | `[]DialVerdict` | `Judged`: the first frame the server sends to who wrote a bad token is a refusal, to who wrote a good one the success, or a push |
| `CometProofs!NothingLost` | `[]NoLossWhileOpen` | a counted frame is in the channel, the writer's hand or the stream, and the writer drops it only with the connection closed |
| `FanoutProofs!TypeCorrect` | `[]TypeOK` | `TypeOK`, which says too that a busy worker has an announced post |
| `FanoutProofs!CommittedReaches` | `[]CommittedReached` | `FanInv`: who is owed a post follows its author, so the followers a worker reads include them; a worker that pushed has reached them; an event that is, or may be, committed has too. The last part is why it is inductive: `Committable` becomes true when the handler ends, before the commit |
| `FanoutProofs!InboxesNewest` | `[]InboxIsNewest` | `BoxInv`: only announced posts are pushed, so their times no longer change, and each inbox keeps the newest of what was pushed to it. It rests on the lemma `AddKeepsNewest`, by cases on whether the inbox overflows; that a non-empty inbox has an oldest member comes from the well-foundedness of the naturals |
| `FanoutProofs!PromiseKept` | `Spec => KeepsPromise` | initial states map to initial states and each action to one of `Inboxes` or to none, from `TypeOK`, `FanInv` and `BoxInv`; `SameSize` identifies the two modules' cardinality |
| `PostCacheProofs!TypeCorrect` | `[]TypeOK` | `ReadInv`: what a request or a run is about to write was read from the table, or is in it |
| `PostCacheProofs!HotIsRanked` | `[]HotIsOneRanking` | `HotInv`: with one worker and no run cut off, the temporary key exists only between ZADD and RENAME of a run and holds what that run ranked |
| `NotifyProofs!TypeCorrect` | `[]TypeOK` | `IdsInv`: an id that was drawn is nobody else's, and is drawn before the row is committed |
| `NotifyProofs!DeliveredStored` | `[]DeliveredIsStored` | `StoredInv`: a Push that calls PushUser has its row, and only its last step says delivered. `HandStays`: what was queued on a connection stays in the queue or at the client until that connection ends, and a later connection of the user is another one |
| `NotifyProofs!SteadyUsersSee` | `[]SteadySees` | `SteadyInv`: a user who stays is online while the Push is under way and IsOnline said so, hence PushUser finds his connection, which is still open when the frame is queued; then `HandStays` |
| `NotifyProofs!WalksEnd` | `[]WalkComplete` | `WalkInv`: rows do not change once committed, and what a client has yet to be given has smaller ids than the cursor. `PageItems`: a page has all rows from its last item on, and is empty only at the end of the list |
| `AccountsProofs!TypeCorrect` | `[]TypeOK` | `TablesOK`: ids are registered before they are users; `CallsOK`: calls, abandoned ones too, carry a registered account and pairs of the kind their statement takes |
| `AccountsProofs!FollowsJoinUsers` | `[](FollowsAreUsers /\ OneAccountPerName)` | `TablesOK`: the foreign keys and the UNIQUE name (`OneAccountPerName`, stated in `AccountsProofs`) at each statement |
| `AccountsProofs!ActAsOwn` | `[]ActsAsOwn` | `CallsOK`: an account in a token, a call or a Login about to sign belongs to its person; accounts are never handed on, names are |
| `AccountsProofs!AnswersHold` | `[]AnswerHolds` | `AnswersOK`: pairs of an account are written by its owner only, who has one call under way, and a late statement voids what was said of its pair |
| `TimelineProofs!TypeCorrect` | `[]TypeOK` | `Types`, from the lemmas on windows, interleaving and the removal of duplicates (`WindowIs`, `InterleavedIs`, `UniqueIs`) |
| `TimelineProofs!InboxIsComplete` | `[]InboxComplete` | `WalkInv`: what the reader has not been given of what was there lies beyond the windows of his pages (`Ahead`), at most as many places further down as posts came meanwhile, and so inside the limit unless it was too deep for that (`Owed`). A page has room for its share of the inbox behind all of its hot posts, and the last page, which is not full, shows the whole of its window (`InterleavedIs`, `MergedIs`) |
| `TimelineProofs!WalkEnds` | `[]PagesEnd` | part of `WalkInv`: a full page has at most HotPerPage hot posts, so it took its whole share from the inbox |
| `TimelineProofs!RatioKept` | `[]SlotRatio` | `SlotInv`: as long as nothing changed or failed, the answers so far hold posts of the windows of their pages only (`Between`), and windows of different pages are disjoint because no list repeats a post. The hot posts of a page stand at the multiples of five (`EveryFifth`), and none is a duplicate |
| `ListingProofs!TypeCorrect` | `[]TypeOK` | `Types`: a reader at work has a page number and a size of at least one |
| `ListingProofs!MissesBounded` | `[]MissBounded` | `MissInv`: at most `deleted` of the untied rows that he was due, and has not got, are before his offset (`Lost`), and the list is at most `between` longer than its COUNT. A row that is deleted moves one row, at most, across the offset; one that is added moves rows away from it |
| `ListingProofs!FewRepeats` | `[]RepeatsBounded` | `RepeatInv`, which counts by stamp, because rows of one stamp may come in any order: `Excess` is what he was given of a stamp beyond its places before his offset and its deleted rows; the sum over all stamps is at most `added`. A commit pushes the rows of one stamp back by one only, so it adds one to one `Excess` |

Only model-checked: the liveness properties (`NegativeIsTransient`,
`CloseCleansUp`, `PushReturns`, `PushHeard`, `GoneIsForgotten`, `FansReached`,
`DeletedFades`), which depend on fairness and are out of the prover's reach;
and the violations. Each safety property that a passing run checks is also a
theorem.

## Divergences found while modelling

Two have a run that exhibits them (`PROJECT.json`, `findings`): the expired
`liked_by` set (`likes_isliked`) and the poisoned connection (`fanout_poison`).
Others were met too, and the properties above are stated so as to hold beside them:

* `storage.go:38`: two concurrent Likes of one user INCR twice; nothing corrects
  the counter while its key exists, though PROGRESS.md:310 says so. `CountExact`
  asks for serial users.
* `services/interaction/repo.go:46`: a like of a post id that is no UUID is counted in
  Redis, answered with success and stored nowhere; it is gone when its keys expire.
  `RowsFollowSet` says that such a post has no rows.
* `workers/handlers/fanout.py:32`: a post that arrives in a full inbox evicts the
  oldest, also from under a reader on his way to it, who is then told that there is no
  more. `InboxComplete` speaks of posts that are not that deep.
* `services/notify/service.go:79`: delivered_ws, which counts what was put on a send
  channel, is true also of a frame that its connection's end loses.
  `DeliveredIsStored` says that nothing else loses it.
* `pkg/comet/conn_manager.go:54`: a second authentication as somebody else leaves the
  connection in the first room, also after Pop, though line 32 says that Pop
  clears its binding. `NoGhost` leaves such connections out.
* `pkg/comet/server.go:145`: the connection is bound before the auth reply is
  queued, so that a push may overtake it and `Dial` (client/conn.go:102) takes it
  for a refusal. `DialVerdict` says that this is the only wrong refusal.
* `pkg/comet/client/conn.go:145` and `ws/conn.go:91`: neither side ever sends a
  heartbeat, so a connection is dropped after 120 s of silence; the client's
  heartbeat reply (lines 214-220) never runs.
* `services/notify/service.go:31`: Push asks IsOnline before it stores the row, while
  docs/kafka-architecture.md:83-87 has it the other way round: a user who connects
  and lists in between gets the notification by neither way. `SteadySees` speaks of
  users who stay connected.
* `services/user/service.go:14`: tokens are signed with a constant, `pkg/auth` verifies
  with `JWT_SECRET` when it is set (auth.go:47): then no token is valid. The models
  have one secret.
* `services/user/service.go:75`: a deleted account's token is good for up to 72 hours
  more; its posts, likes, comments and bookmarks stay. `ActsAsOwn` and
  `FollowsAreUsers` say what does not go wrong for that.
* `services/interaction/service.go:120`, `feed/service.go:115`: a page_size above 50
  becomes 20, not 50 (`PageSize`).
* `gateway/srv/interaction_service.go:122`: the error of decoding a comment is ignored,
  and an empty comment is stored.
* `kafka.go:83`: a failed write is only logged, though docs/kafka-architecture.md:141
  says nothing is lost. `FansReached` speaks of announced posts.
* `feed/service.go:59`: follower_count is always 0, so that the outbox of README.md:61 is
  never written and posts of big authors are pushed to all inboxes.
* `ranking.py:27`: the quoted placeholder is no parameter for psycopg 3, so the statement
  fails; `RankingFails` is that failure's effect on the connection. `PostCache`
  models the runs of a statement that succeeds.
* `ranking.py:70`: `hot_posts:tmp` is not cleared first; a run that died, or a
  second worker, leaves posts that the next list includes. `HotIsOneRanking` asks
  for one worker and no such run.
* `feed/service.go:161` and `:167`: pages of one post never advance; pages of two to four
  never show a hot post while the inbox lasts. `PagesEnd` and `SlotRatio` leave them out.
* `feed/service.go:172`: an inbox that cannot be read looks like its end: the page says
  has_more FALSE and the walk is over. `InboxComplete` leaves such walks out.
* `notify/store.go:40`: order by created_at, cursor by id: concurrent INSERTs may
  disagree, and rows are skipped. `WalkComplete` asks that they agree.

## What is not modelled

* Message contents, formatting, like and comment counts in scores, the choice of
  recent posts, payload bytes: nothing stated here depends on them.
* Read-only requests of one number or one row: GetInfo, GetUnreadCount, ListLikers,
  the counts of followers.
* Failed requests of the reader in `Listing`, which change nothing.
* Uploads, configuration, storage, telemetry, generated code, benchmark and
  end-to-end tools: start-up and I/O without state that others read. Handlers of
  the gateway that hand a request on unchanged (likes, posts, timeline).
* Redis and Kafka losing what they acknowledged, and the library's checks of
  signatures.

## Plan

1. `Notify` over `CometClient`: its abstraction of a session (bound or not) shown
   to be what the push server implements.
2. An abstract like counter (a set of users per post, its size) that `Likes`
   implements with serial users on a warm cache.
3. More than one user in `Fanout`'s runs.
